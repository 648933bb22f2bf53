\* UIDs of three bits, at most three devices, and as many faults as a request has attempts.
SPECIFICATION Spec
CONSTANTS
  MAN_BITS = 1
  DEV_BITS = 2
  STACK = 4
  ATTEMPTS = 3
  MaxDevices = 3
  MaxFaults = 3
INVARIANTS SearchInv Complete
PROPERTIES Ends
