---------------------------- MODULE LightEngine -----------------------------
(***************************************************************************)
(* The light path of one node (src/main.cpp): the web layer that the HTTP  *)
(* console and OSC write, the scene fade that animates it, the Art-Net and *)
(* sACN layers, and the computation of the DMX frame.                      *)
(*                                                                         *)
(* Two FreeRTOS tasks run the code: the AsyncTCP task ("web") serves every *)
(* HTTP route, the Arduino loop task ("loop") polls Art-Net, sACN and OSC  *)
(* and computes and sends the frames.  Shared state is guarded by gLock,   *)
(* so each critical section is one step; a route that works before and     *)
(* after its critical section (a scene is read from, or written to, flash  *)
(* with the lock released) is one step for each part, and the task is busy *)
(* in between.  A timed xSemaphoreTake that fails leaves the state alone   *)
(* (the route answers 503, the loop re-sends the old frame), which is a    *)
(* stuttering step.                                                        *)
(***************************************************************************)
EXTENDS VizzzCore

CONSTANTS
  MAX_CH,                \* channels of the universe (512)
  SAFE_MAX_LEVEL, SAFE_SLEW_STEP,             \* 245, 18
  BURN_SAFE_MAX_LEVEL, BURN_SAFE_SLEW_STEP,   \* 96, 8
  SCENE_COUNT,           \* scene slots in flash (8)
  MAX_GROUPS,            \* fixture groups (8)
  GROUP_WIDTH,           \* channels of a default group (64)
  WebInputs,             \* levels a console or an OSC client may ask for
  ColorInputs,           \* components of the colour wash that are tried
  NetInputs,             \* levels a network frame may carry
  Masters,               \* positions of the master dimmer that are tried
  SceneArgs, FadeTimes,  \* scene and fade arguments that are tried
  FxArgs,                \* effects that are tried
  FxLevels,              \* levels an effect may give to a channel
  Modes,                 \* output modes that are tried
  SafetyArgs, FallbackArgs   \* values of the burn-safe and fallback switches

ASSUME SizeAssumption ==
  /\ MAX_CH \in Nat \ {0}
  /\ SCENE_COUNT \in Nat \ {0}
  /\ MAX_GROUPS \in Nat
  /\ GROUP_WIDTH \in Nat \ {0}
  /\ MAX_GROUPS * GROUP_WIDTH <= MAX_CH

ASSUME ProfileAssumption ==
  /\ SAFE_MAX_LEVEL \in Level
  /\ BURN_SAFE_MAX_LEVEL \in 0 .. SAFE_MAX_LEVEL
  /\ SAFE_SLEW_STEP \in Level \ {0}
  /\ BURN_SAFE_SLEW_STEP \in Level \ {0}

ASSUME InputAssumption ==
  /\ WebInputs \subseteq Level
  /\ ColorInputs \subseteq Level
  /\ NetInputs \subseteq Level
  /\ Masters \subseteq Level
  /\ FxLevels \subseteq Level
  /\ SceneArgs \subseteq 0 .. SCENE_COUNT - 1
  /\ FadeTimes \subseteq Nat
  /\ FxArgs \subseteq {"FX_NONE", "FX_ANY"}
  /\ Modes \subseteq {"MODE_WEB", "MODE_ARTNET", "MODE_HTP"}
  /\ SafetyArgs \subseteq BOOLEAN
  /\ FallbackArgs \subseteq BOOLEAN

VARIABLES
  webVals,               \* web layer
  fadeActive, fadeElapsed, fadeTimeMs, fadeFrom, fadeTo,
                         \* the running fade; fadeElapsed is millis() - fadeStartMs
  scenes,                \* the "scenes" namespace in flash
  job,                   \* what each task holds between two critical sections
  artVals, sacnVals,     \* network layers
  artActive, sacnActive, \* artnetActive(), sacnActive(): has the input not timed out?
  mode, masterDimmer, burnSafeMode, artnetFallbackToWeb,
  groups,                \* fixture groups: first and last channel, enabled
  color,                 \* [r, g, b, enabled] of the colour wash
  fxMode, fxEnabled,
  outVals,               \* the computed output; dmxFrame, sent each cycle, is its copy
  lastCmd                \* history: the last command that wrote the web layer

fadeVars  == <<fadeActive, fadeElapsed, fadeTimeMs, fadeFrom, fadeTo>>
netVars   == <<artVals, sacnVals, artActive, sacnActive>>
cfgVars   == <<mode, masterDimmer, burnSafeMode, artnetFallbackToWeb>>
patchVars == <<groups, color, fxMode, fxEnabled>>
vars == <<webVals, fadeVars, scenes, job, netVars, cfgVars, patchVars, outVals, lastCmd>>

Chan   == 1 .. MAX_CH
Frames == [Chan -> Level]
Scenes == 0 .. SCENE_COUNT - 1
Groups == 0 .. MAX_GROUPS - 1
Task   == {"web", "loop"}
Dark   == [c \in Chan |-> 0]

Mode    == {"MODE_WEB", "MODE_ARTNET", "MODE_HTP"}
FxMode  == {"FX_NONE", "FX_ANY"}   \* which effect runs is abstracted to its levels
Command == {"boot", "write", "blackout", "full", "fade"}
Group   == [start : Chan, end : Chan, enabled : BOOLEAN]
Color   == [r : Level, g : Level, b : Level, enabled : BOOLEAN]

\* A task between two critical sections: the stack buffer and arguments it carries.
Job  == [kind : {"idle", "recall", "save"}, vals : Frames, ms : Nat, n : Scenes]
Idle == [kind |-> "idle", vals |-> Dark, ms |-> 0, n |-> 0]

TypeOK ==
  /\ webVals \in Frames
  /\ fadeActive \in BOOLEAN
  /\ fadeElapsed \in Nat
  /\ fadeTimeMs \in Nat \ {0}
  /\ fadeFrom \in Frames
  /\ fadeTo \in Frames
  /\ scenes \in [Scenes -> Frames]
  /\ job \in [Task -> Job]
  /\ artVals \in Frames
  /\ sacnVals \in Frames
  /\ artActive \in BOOLEAN
  /\ sacnActive \in BOOLEAN
  /\ mode \in Mode
  /\ masterDimmer \in Level
  /\ burnSafeMode \in BOOLEAN
  /\ artnetFallbackToWeb \in BOOLEAN
  /\ groups \in [Groups -> Group]
  /\ color \in Color
  /\ fxMode \in FxMode
  /\ fxEnabled \in BOOLEAN
  /\ outVals \in Frames
  /\ lastCmd \in Command

\* setup(): the RAM state is cleared, the persisted settings and scenes are
\* whatever an earlier run of the firmware left in flash.
Init ==
  /\ webVals = Dark /\ artVals = Dark /\ sacnVals = Dark
  /\ outVals = Dark
  /\ fadeActive = FALSE /\ fadeElapsed = 0 /\ fadeTimeMs = 1
  /\ fadeFrom = Dark /\ fadeTo = Dark
  /\ scenes = [n \in Scenes |-> Dark]
  /\ job = [t \in Task |-> Idle]
  /\ artActive = FALSE /\ sacnActive = FALSE
  /\ mode \in Modes
  /\ masterDimmer = Full
  /\ burnSafeMode \in SafetyArgs
  /\ artnetFallbackToWeb \in FallbackArgs
  /\ groups = [g \in Groups |-> [start |-> g * GROUP_WIDTH + 1,
                                 end |-> g * GROUP_WIDTH + GROUP_WIDTH, enabled |-> TRUE]]
  /\ color = [r |-> Full, g |-> Full, b |-> Full, enabled |-> FALSE]
  /\ fxMode = "FX_NONE" /\ fxEnabled = FALSE
  /\ lastCmd = "boot"

Free(t) == job[t].kind = "idle"

-----------------------------------------------------------------------------
(* Writers of the web layer.  t is the task: the HTTP route runs on "web",  *)
(* the OSC message with the same effect on "loop".                          *)

\* routeSet, OSC /ch/N
SetChannel(t, ch, v) ==
  /\ Free(t)
  /\ webVals' = [webVals EXCEPT ![ch] = v]
  /\ lastCmd' = "write"
  /\ UNCHANGED <<fadeVars, scenes, job, netVars, cfgVars, patchVars, outVals>>

\* mutant: the running fade is not cancelled
routeBlackoutKeepsFade ==
  /\ Free("web")
  /\ webVals' = Dark
  /\ lastCmd' = "blackout"
  /\ UNCHANGED <<fadeVars, scenes, job, netVars, cfgVars, patchVars, outVals>>

routeBlackout ==
  /\ Free("web")
  /\ webVals' = Dark
  /\ fadeActive' = FALSE
  /\ lastCmd' = "blackout"
  /\ UNCHANGED <<fadeElapsed, fadeTimeMs, fadeFrom, fadeTo, scenes, job, netVars,
                 cfgVars, patchVars, outVals>>

routeFull ==
  /\ Free("web")
  /\ webVals' = [c \in Chan |-> Full]
  /\ fadeActive' = FALSE
  /\ lastCmd' = "full"
  /\ UNCHANGED <<fadeElapsed, fadeTimeMs, fadeFrom, fadeTo, scenes, job, netVars,
                 cfgVars, patchVars, outVals>>

\* mutant: the stored ends are trusted
GroupSpanRaw(g) == groups[g].start .. groups[g].end

\* the channels that a group command writes: both ends are constrained again
GroupSpan(g) ==
  LET s == constrain(groups[g].start, 1, MAX_CH)
      e == constrain(groups[g].end, s, MAX_CH)
  IN  s .. e

\* routeGroupApply, OSC /group/G; a disabled group answers 409 and changes nothing
ApplyGroup(t, g, v) ==
  /\ Free(t)
  /\ groups[g].enabled
  /\ webVals' = [c \in Chan |-> IF c \in GroupSpan(g) THEN v ELSE webVals[c]]
  /\ lastCmd' = "write"
  /\ UNCHANGED <<fadeVars, scenes, job, netVars, cfgVars, patchVars, outVals>>

\* start and end are optional arguments: 0 stands for an absent one
routeGroupSet(g, start, end, enabled) ==
  /\ Free("web")
  /\ LET s == IF start = 0 THEN groups[g].start ELSE constrain(start, 1, MAX_CH)
         e == IF end = 0 THEN groups[g].end ELSE constrain(end, s, MAX_CH)
     IN  groups' = [groups EXCEPT ![g] = [start |-> s, end |-> e, enabled |-> enabled]]
  /\ UNCHANGED <<webVals, fadeVars, scenes, job, netVars, cfgVars, color, fxMode,
                 fxEnabled, outVals, lastCmd>>

\* applyColorWash_locked: whole triples only, the last one or two channels keep their level
ColorWash(col) ==
  [c \in Chan |-> LET i == c - 1
                      base == i - (i % 3)
                  IN  IF base + 2 >= MAX_CH THEN webVals[c]
                      ELSE CASE i % 3 = 0 -> col.r
                             [] i % 3 = 1 -> col.g
                             [] OTHER -> col.b]

\* every argument is optional: an absent one is given its present value
routeColorSet(col) ==
  /\ Free("web")
  /\ color' = col
  /\ webVals' = IF col.enabled THEN ColorWash(col) ELSE webVals
  /\ lastCmd' = IF col.enabled THEN "write" ELSE lastCmd
  /\ UNCHANGED <<fadeVars, scenes, job, netVars, cfgVars, groups, fxMode, fxEnabled,
                 outVals>>

\* OSC /color/r, /color/g, /color/b: one component, and the wash is enabled
oscColor(part, v) ==
  /\ Free("loop")
  /\ color' = [color EXCEPT ![part] = v, !.enabled = TRUE]
  /\ webVals' = ColorWash(color')
  /\ lastCmd' = "write"
  /\ UNCHANGED <<fadeVars, scenes, job, netVars, cfgVars, groups, fxMode, fxEnabled,
                 outVals>>

-----------------------------------------------------------------------------
(* Scenes.                                                                  *)

\* routeSceneRecall, OSC /scene/recall, a cue step: loadScene() before the critical section
RecallLoad(t, n, ms) ==
  /\ Free(t)
  /\ job' = [job EXCEPT ![t] = [kind |-> "recall", vals |-> scenes[n], ms |-> ms, n |-> n]]
  /\ UNCHANGED <<webVals, fadeVars, scenes, netVars, cfgVars, patchVars, outVals, lastCmd>>

\* startFade_locked in the critical section
RecallStart(t) ==
  /\ job[t].kind = "recall"
  /\ fadeFrom' = webVals
  /\ fadeTo' = job[t].vals
  /\ fadeElapsed' = 0
  /\ fadeTimeMs' = IF job[t].ms < 1 THEN 1 ELSE job[t].ms
  /\ fadeActive' = TRUE
  /\ lastCmd' = "fade"
  /\ job' = [job EXCEPT ![t] = Idle]
  /\ UNCHANGED <<webVals, scenes, netVars, cfgVars, patchVars, outVals>>

\* the critical section of a recall is not entered in time: 503, or dropped by OSC
RecallBusy(t) ==
  /\ job[t].kind = "recall"
  /\ job' = [job EXCEPT ![t] = Idle]
  /\ UNCHANGED <<webVals, fadeVars, scenes, netVars, cfgVars, patchVars, outVals, lastCmd>>

\* routeSceneSave: the snapshot is taken under the lock ...
SaveSnap(n) ==
  /\ Free("web")
  /\ job' = [job EXCEPT !["web"] = [kind |-> "save", vals |-> webVals, ms |-> 0, n |-> n]]
  /\ UNCHANGED <<webVals, fadeVars, scenes, netVars, cfgVars, patchVars, outVals, lastCmd>>

\* ... and written to flash after it
SaveCommit ==
  /\ job["web"].kind = "save"
  /\ scenes' = [scenes EXCEPT ![job["web"].n] = job["web"].vals]
  /\ job' = [job EXCEPT !["web"] = Idle]
  /\ UNCHANGED <<webVals, fadeVars, netVars, cfgVars, patchVars, outVals, lastCmd>>

-----------------------------------------------------------------------------
(* Settings.                                                                *)

\* routeMaster, OSC /master
SetMaster(t, v) ==
  /\ Free(t)
  /\ masterDimmer' = v
  /\ UNCHANGED <<webVals, fadeVars, scenes, job, netVars, mode, burnSafeMode,
                 artnetFallbackToWeb, patchVars, outVals, lastCmd>>

routeModeSet(m) ==
  /\ Free("web")
  /\ mode' = m
  /\ UNCHANGED <<webVals, fadeVars, scenes, job, netVars, masterDimmer, burnSafeMode,
                 artnetFallbackToWeb, patchVars, outVals, lastCmd>>

routeModeFallback(en) ==
  /\ Free("web")
  /\ artnetFallbackToWeb' = en
  /\ UNCHANGED <<webVals, fadeVars, scenes, job, netVars, mode, masterDimmer,
                 burnSafeMode, patchVars, outVals, lastCmd>>

routeSafetySet(burn) ==
  /\ Free("web")
  /\ burnSafeMode' = burn
  /\ UNCHANGED <<webVals, fadeVars, scenes, job, netVars, mode, masterDimmer,
                 artnetFallbackToWeb, patchVars, outVals, lastCmd>>

\* routeFxSet: an absent argument is given its present value
routeFxSet(m, en) ==
  /\ Free("web")
  /\ fxMode' = m
  /\ fxEnabled' = (en /\ m # "FX_NONE")
  /\ UNCHANGED <<webVals, fadeVars, scenes, job, netVars, cfgVars, groups, color,
                 outVals, lastCmd>>

\* OSC /fx/mode
oscFxMode(m) ==
  /\ Free("loop")
  /\ fxMode' = m
  /\ fxEnabled' = (m # "FX_NONE")
  /\ UNCHANGED <<webVals, fadeVars, scenes, job, netVars, cfgVars, groups, color,
                 outVals, lastCmd>>

-----------------------------------------------------------------------------
(* Network inputs, on the loop task.                                        *)

\* pollArtNet: an accepted ArtDMX frame; channels beyond its length become 0
ArtFrame(vals) ==
  /\ Free("loop")
  /\ artVals' = vals
  /\ artActive' = TRUE
  /\ UNCHANGED <<webVals, fadeVars, scenes, job, sacnVals, sacnActive, cfgVars,
                 patchVars, outVals, lastCmd>>

\* pollSacn: an accepted E1.31 data packet
SacnFrame(vals) ==
  /\ Free("loop")
  /\ sacnVals' = vals
  /\ sacnActive' = TRUE
  /\ UNCHANGED <<webVals, fadeVars, scenes, job, artVals, artActive, cfgVars,
                 patchVars, outVals, lastCmd>>

\* ARTNET_TIMEOUT_MS, SACN_TIMEOUT_MS without an accepted frame
NetTimeout ==
  /\ \/ artActive /\ artActive' = FALSE /\ UNCHANGED sacnActive
     \/ sacnActive /\ sacnActive' = FALSE /\ UNCHANGED artActive
  /\ UNCHANGED <<webVals, fadeVars, scenes, job, artVals, sacnVals, cfgVars,
                 patchVars, outVals, lastCmd>>

-----------------------------------------------------------------------------
(* The DMX cycle of loop(): update the fade, compute the frame, send it.    *)

\* A millisecond passes; only a running fade can tell.
Tick ==
  /\ fadeActive
  /\ fadeElapsed < fadeTimeMs
  /\ fadeElapsed' = fadeElapsed + 1
  /\ UNCHANGED <<webVals, fadeActive, fadeTimeMs, fadeFrom, fadeTo, scenes, job,
                 netVars, cfgVars, patchVars, outVals, lastCmd>>

FadeOver == fadeElapsed >= fadeTimeMs

\* mutant: a fade that has arrived goes on
fadeNeverClears == fadeActive

\* fadeActive after updateFade_locked
fadeGoesOn == fadeActive /\ ~FadeOver

\* mutant: the interpolation is never finished with the exact target
updateFadeNoSnap ==
  IF ~fadeActive THEN webVals
  ELSE LET k == IF FadeOver THEN Full ELSE fadeK(fadeElapsed, fadeTimeMs)
       IN  [c \in Chan |-> fadeLevel(fadeFrom[c], fadeTo[c], k)]

\* mutant: the two ends of the interpolation are swapped
updateFadeSwapped ==
  IF ~fadeActive THEN webVals
  ELSE IF FadeOver THEN fadeTo
  ELSE LET k == fadeK(fadeElapsed, fadeTimeMs)
       IN  [c \in Chan |-> fadeLevel(fadeTo[c], fadeFrom[c], k)]

\* updateFade_locked: the web layer after the fade has been brought up to date
updateFade ==
  IF ~fadeActive THEN webVals
  ELSE IF FadeOver THEN fadeTo
  ELSE LET k == fadeK(fadeElapsed, fadeTimeMs)
       IN  [c \in Chan |-> fadeLevel(fadeFrom[c], fadeTo[c], k)]

effectiveSafeMaxLevel == IF burnSafeMode THEN BURN_SAFE_MAX_LEVEL ELSE SAFE_MAX_LEVEL
\* mutant: the profile's slew step is ignored
effectiveSafeSlewStepOff == 0
effectiveSafeSlewStep == IF burnSafeMode THEN BURN_SAFE_SLEW_STEP ELSE SAFE_SLEW_STEP

\* the network layer of one channel: highest takes precedence when both are alive
netIn(c) ==
  IF artActive /\ sacnActive THEN MaxOf(artVals[c], sacnVals[c])
  ELSE IF artActive THEN artVals[c]
  ELSE IF sacnActive THEN sacnVals[c]
  ELSE 0

\* mutant: the fallback switch is not looked at
mixedNoFallback(c, web) ==
  CASE mode = "MODE_WEB" -> web[c]
    [] mode = "MODE_ARTNET" -> IF artActive \/ sacnActive THEN netIn(c) ELSE outVals[c]
    [] OTHER -> IF artActive \/ sacnActive THEN MaxOf(web[c], netIn(c)) ELSE web[c]

\* mutant: nothing is held
mixedNoHold(c, web) ==
  CASE mode = "MODE_WEB" -> web[c]
    [] mode = "MODE_ARTNET" -> IF artnetFallbackToWeb /\ ~artActive /\ ~sacnActive
                               THEN web[c] ELSE netIn(c)
    [] OTHER -> IF artActive \/ sacnActive THEN MaxOf(web[c], netIn(c)) ELSE web[c]

\* the source of one channel in each mode, web being the web layer
mixed(c, web) ==
  LET netActive == artActive \/ sacnActive
  IN  CASE mode = "MODE_WEB" -> web[c]
        [] mode = "MODE_ARTNET" ->
             IF netActive THEN netIn(c)
             ELSE IF artnetFallbackToWeb THEN web[c] ELSE outVals[c]
        [] OTHER -> IF netActive THEN MaxOf(web[c], netIn(c)) ELSE web[c]

\* mutant: the master dimmer acts on the console only
targetWebMaster(c, web, fx) ==
  LET v == IF mode = "MODE_WEB" THEN applyMaster(mixed(c, web), masterDimmer) ELSE mixed(c, web)
  IN  applyMaster(clampLevel(v, effectiveSafeMaxLevel), fx)

target(c, web, fx) ==
  applyMaster(clampLevel(applyMaster(mixed(c, web), masterDimmer),
                         effectiveSafeMaxLevel), fx)

\* fxLevelForChannel: Full unless an effect runs
FxChoice ==
  IF fxEnabled /\ fxMode # "FX_NONE" THEN [Chan -> FxLevels] ELSE {[c \in Chan |-> Full]}

\* updateFade_locked; computeOutput_locked; sendDMX (and Art-Net OUT sends dmxFrame)
DmxCycle ==
  /\ Free("loop")
  /\ LET web == updateFade
     IN  /\ webVals' = web
         /\ \E fx \in FxChoice :
              outVals' = [c \in Chan |-> slewToward(outVals[c], target(c, web, fx[c]),
                                                    effectiveSafeSlewStep)]
  /\ fadeActive' = fadeGoesOn
  /\ UNCHANGED <<fadeElapsed, fadeTimeMs, fadeFrom, fadeTo, scenes, job, netVars,
                 cfgVars, patchVars, lastCmd>>

-----------------------------------------------------------------------------
\* the routes of setupWeb that change the light path, on the web task
setupWeb ==
  \/ \E ch \in Chan, v \in WebInputs : SetChannel("web", ch, v)
  \/ routeBlackout
  \/ routeFull
  \/ \E g \in Groups, v \in WebInputs : ApplyGroup("web", g, v)
  \/ \E g \in Groups, s, e \in 0 .. MAX_CH, en \in BOOLEAN : routeGroupSet(g, s, e, en)
  \/ \E r, g, b \in ColorInputs, en \in BOOLEAN :
       routeColorSet([r |-> r, g |-> g, b |-> b, enabled |-> en])
  \/ \E n \in SceneArgs : SaveSnap(n)
  \/ SaveCommit
  \/ \E v \in Masters : SetMaster("web", v)
  \/ \E m \in Modes : routeModeSet(m)
  \/ \E en \in FallbackArgs : routeModeFallback(en)
  \/ \E burn \in SafetyArgs : routeSafetySet(burn)
  \/ \E m \in FxArgs, en \in BOOLEAN : routeFxSet(m, en)

\* the OSC messages, on the loop task; one that misses the lock is dropped
pollOsc ==
  \/ \E ch \in Chan, v \in WebInputs : SetChannel("loop", ch, v)
  \/ \E g \in Groups, v \in WebInputs : ApplyGroup("loop", g, v)
  \/ \E v \in Masters : SetMaster("loop", v)
  \/ \E m \in FxArgs : oscFxMode(m)
  \/ \E part \in {"r", "g", "b"}, v \in ColorInputs : oscColor(part, v)

\* scene recalls and cue steps, on either task
Recalls ==
  \E t \in Task :
    \/ \E n \in SceneArgs, ms \in FadeTimes : RecallLoad(t, n, ms)
    \/ RecallStart(t)
    \/ RecallBusy(t)

Inputs ==
  \/ \E vals \in [Chan -> NetInputs] : ArtFrame(vals)
  \/ \E vals \in [Chan -> NetInputs] : SacnFrame(vals)
  \/ NetTimeout

Next == setupWeb \/ pollOsc \/ Recalls \/ Inputs \/ Tick \/ DmxCycle

Spec == Init /\ [][Next]_vars

(* Fairness: loop() runs for ever, and its packet budgets bring it to the   *)
(* DMX cycle however many packets wait; time passes; a task that left a     *)
(* critical section reaches the next one.  No command is ever owed.         *)
Fairness ==
  /\ SF_vars(DmxCycle)
  /\ WF_vars(Tick)
  /\ \A t \in Task : WF_vars(RecallStart(t) \/ RecallBusy(t))
  /\ WF_vars(SaveCommit)

FairSpec == Spec /\ Fairness

-----------------------------------------------------------------------------
(* Safety.                                                                  *)

\* No frame ever carries a level above the normal ceiling, whatever the
\* inputs, the mode and the order of commands (computeOutput_locked).
Ceiling == \A c \in Chan : outVals[c] <= SAFE_MAX_LEVEL

\* The frames implement the promise of SafeOutput: bounded slew, ceiling, and
\* a straight descent to a stricter ceiling (computeOutput_locked).
Promise == INSTANCE SafeOutput WITH level <- outVals, burn <- burnSafeMode
ImplementsSafeOutput == Promise!SSpec

\* After /blackout or /full the web layer keeps that look until the next
\* command that writes it: no fade that was running at the time, and no fade
\* update of a later frame, brings the old look back (routeBlackout, routeFull).
LookHolds ==
  /\ lastCmd = "blackout" => ~fadeActive /\ webVals = Dark
  /\ lastCmd = "full" => ~fadeActive /\ webVals = [c \in Chan |-> Full]

\* A recalled scene is reached exactly, not only to the precision of the
\* interpolation (updateFade_locked).
RecallExact == lastCmd = "fade" /\ ~fadeActive => webVals = fadeTo

\* However the two ends of a group are edited, also past each other, a command on
\* it reaches at least one channel and none outside the universe (routeGroupSet,
\* routeGroupApply).
SpanInside == \A g \in Groups : GroupSpan(g) # {} /\ GroupSpan(g) \subseteq Chan

\* Nothing that any route, OSC message or packet does takes a variable out of its type,
\* a frame above the ceiling or a group command outside the universe.
OutputInv == TypeOK /\ Ceiling /\ SpanInside

\* While nothing else writes the web layer, a fade never leaves the interval
\* between the look it started from and the scene it goes to.
Between(a, x, b) == MinOf(a, b) <= x /\ x <= MaxOf(a, b)
FadeBetween ==
  lastCmd = "fade" => \A c \in Chan : Between(fadeFrom[c], webVals[c], fadeTo[c])

\* A fade short enough for the 32-bit shift (fadeTimeMs * 256 < 2^32: 4 h 39 min)
\* only ever moves towards its scene.
FadeMonotone ==
  [][(/\ fadeActive /\ lastCmd = "fade" /\ lastCmd' = "fade"
      /\ fadeTimeMs * Scale <= U32)
     => \A c \in Chan : Abs(fadeTo[c] - webVals'[c]) <= Abs(fadeTo[c] - webVals[c])]_vars

\* README.md: "hold-last on loss".  In ARTNET_ONLY with the fallback off, a frame
\* computed after the signal was lost is not below the level that the last received
\* frame gives (Art-Net alone, no effect).  Holds with the master at full: the level
\* held is the one last sent, which passes through the master dimmer again in every
\* frame, so that below full it decays (computeOutput_locked).
HoldLast ==
  [][(/\ mode = "MODE_ARTNET" /\ ~artnetFallbackToWeb /\ ~artActive /\ ~sacnActive
      /\ ~fxEnabled /\ ~burnSafeMode /\ masterDimmer = Full)
     => \A c \in Chan :
          outVals'[c] >= MinOf(outVals[c], clampLevel(artVals[c], SAFE_MAX_LEVEL))]_vars

-----------------------------------------------------------------------------
(* Liveness, under FairSpec.                                                *)

\* The master dimmer at 0 kills every mode, source and effect: the output goes
\* and stays dark.
MasterKills == <>[](masterDimmer = 0) => <>[](outVals = Dark)

\* A fade ends unless fades are started again and again.
FadeEnds == []<>~fadeActive \/ []<><<\E t \in Task : RecallStart(t)>>_vars

\* When the console stops moving, the line settles on exactly the console's look
\* under the master and the ceiling in force: in WEB mode, and in the two other
\* modes once the network is lost (with the fallback on in ARTNET_ONLY).
Settled(f, m, b) ==
  /\ webVals = f /\ masterDimmer = m /\ burnSafeMode = b /\ ~fxEnabled
  /\ \/ mode = "MODE_WEB"
     \/ /\ ~artActive /\ ~sacnActive
        /\ mode = "MODE_ARTNET" => artnetFallbackToWeb
LineFollows ==
  \A f \in Frames, m \in Level, b \in BOOLEAN :
    <>[]Settled(f, m, b) =>
      <>[](\A c \in Chan :
             outVals[c] = clampLevel(applyMaster(f[c], m),
                                     IF b THEN BURN_SAFE_MAX_LEVEL ELSE SAFE_MAX_LEVEL))

=============================================================================
