\* DMX packets shorter and longer than asked for, RDM packets, discovery responses and errors.
SPECIFICATION Spec
CONSTANTS
  DMX_PACKET_SIZE_MAX = 3
  HEADER = 2
  RDM_LEN = 2
  DISC_LEN = 2
  RXFIFO = 2
  Sizes = {2}
  Lengths = {4}
  RdmKinds = {"RDM", "DISC", "BAD"}
  MaxStale = 0
INVARIANTS ReceiveInv
PROPERTIES HandedOutOnce
