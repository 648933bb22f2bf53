\* sendDMX beside one task that makes RDM requests.
SPECIFICATION FairSpec
CONSTANTS
  Loop = loop
  RdmTasks = {rdm}
  None = none
  Requests = {"BCAST", "DUB", "GET"}
  DmxSlots = 3
  RdmSlots = 2
  FIFO_LEN = 2
  EMPTY_DEFAULT = 1
  BREAK_LEN = 1
  MAB_LEN = 1
  REQUEST_TO_REQUEST_MIN = 1
  DISCOVERY_TRANSACTION_MIN = 1
  REQUEST_TO_RESPONSE_MAX = 1
  RESPONSE_LOST_MIN = 2
  DISCOVERY_TO_REQUEST_MIN = 2
  MaxSince = 2
  MaxStale = 1
INVARIANTS SendInv MuxBalanced
PROPERTIES ImplementsDmxLine LoopTurns
