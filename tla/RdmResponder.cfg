\* The parameters that the driver installs and one of the application's, a queue of three
\* entries, two versions of the firmware; the same value may be set without end.
SPECIFICATION ResponderSpec
CONSTANTS
  Capacity = 32
  Extras = {"RESET_DEVICE"}
  Asked = {"DISC_UNIQUE_BRANCH", "DISC_MUTE", "DISC_UN_MUTE", "IDENTIFY_DEVICE",
           "DMX_START_ADDRESS", "DMX_PERSONALITY", "RESET_DEVICE"}
  QueueMax = 3
  Counts = {1, 2}
  Values = {0, 2}
  None = None
  MaxSets = 1
  MaxPushes = 3
INVARIANTS ResponderInv PersonalityExists MutedIsSilent
PROPERTIES ChangeIsQueued AllCommitted
