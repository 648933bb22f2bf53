\* Every command on both tasks, two cues; millis() wraps.
SPECIFICATION FairSpec
CONSTANTS
  MAX_CUES = 2
  U32 = 4
  Horizon = 4
  BootCues = 2
  Dwells = {0, 1}
  Fades = {1}
  WebCommands = {"run", "stop", "next", "count", "set"}
  OscCommands = {"run", "stop"}
INVARIANTS RunnerInv
PROPERTIES HoldTime CueAdvances StopSettles
