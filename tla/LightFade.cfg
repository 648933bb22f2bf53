\* Scene save, recall and fades against /blackout and /full, on both tasks;
\* the longest fade overflows the 32-bit shift (5 * 4 > 16).
SPECIFICATION FairSpec
CONSTANTS
  Full = 3
  U32 = 16
  MAX_CH = 1
  SAFE_MAX_LEVEL = 3
  SAFE_SLEW_STEP = 3
  BURN_SAFE_MAX_LEVEL = 1
  BURN_SAFE_SLEW_STEP = 1
  SCENE_COUNT = 1
  MAX_GROUPS = 0
  GROUP_WIDTH = 1
  WebInputs = {}
  ColorInputs = {}
  NetInputs = {}
  Masters = {}
  SceneArgs = {0}
  FadeTimes = {3, 5}
  FxArgs = {}
  FxLevels = {}
  Modes = {"MODE_WEB"}
  SafetyArgs = {FALSE}
  FallbackArgs = {TRUE}
INVARIANTS LookHolds RecallExact FadeBetween
PROPERTIES FadeMonotone FadeEnds
