\* Every request, both tasks on prefs, restarts at any point.
SPECIFICATION Spec
CONSTANTS
  CfgKeys <- TwoKeys
  Vals = {0, 1}
  Default = 0
  SceneKeys = {"s0"}
  Looks = {lookA}
  Dark = Dark
  Unset = Unset
  Requests = {"cfg", "look", "save", "recall", "reboot", "reset"}
  LoopRecalls = TRUE
  PowerLoss = TRUE
INVARIANTS FlashInv SaveSticks
PROPERTIES RecallFaithful

