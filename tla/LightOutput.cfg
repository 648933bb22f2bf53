\* Every source, mode, profile and effect on one channel; no fade.
SPECIFICATION FairSpec
CONSTANTS
  Full = 4
  U32 = 64
  MAX_CH = 1
  SAFE_MAX_LEVEL = 3
  SAFE_SLEW_STEP = 2
  BURN_SAFE_MAX_LEVEL = 1
  BURN_SAFE_SLEW_STEP = 1
  SCENE_COUNT = 1
  MAX_GROUPS = 1
  GROUP_WIDTH = 1
  WebInputs = {3}
  ColorInputs = {4}
  NetInputs = {2}
  Masters = {0, 3, 4}
  SceneArgs = {}
  FadeTimes = {}
  FxArgs = {"FX_NONE", "FX_ANY"}
  FxLevels = {0, 2}
  Modes = {"MODE_WEB", "MODE_ARTNET", "MODE_HTP"}
  SafetyArgs = {TRUE, FALSE}
  FallbackArgs = {TRUE, FALSE}
INVARIANTS OutputInv
PROPERTIES ImplementsSafeOutput HoldLast MasterKills LineFollows
