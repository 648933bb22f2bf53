------------------------- MODULE LightEngineProofs --------------------------
(***************************************************************************)
(* Theorems about the light path, for every number of channels, scenes and *)
(* groups, every width of a level, every safety profile and every set of   *)
(* inputs.  First the level arithmetic (VizzzCore): a dimmer only ever     *)
(* lowers a level, a slewed level moves by at most one step and never past *)
(* its target, a fade stays between its two ends and never goes back.      *)
(***************************************************************************)
EXTENDS LightEngine, TLAPS

-----------------------------------------------------------------------------
(* Products and quotients.                                                  *)

\* A product is monotone in each factor.
LEMMA MulMono ==
  ASSUME NEW a \in Int, NEW b \in Int, NEW c \in Nat, a <= b
  PROVE  a * c <= b * c
  BY SMT

\* \div is the floor of the quotient, also of a negative number.
LEMMA DivBounds ==
  ASSUME NEW a \in Int, NEW d \in Nat \ {0}
  PROVE  /\ a \div d \in Int
         /\ d * (a \div d) <= a
         /\ a < d * (a \div d) + d
  BY SMT

\* An upper bound of a quotient.
LEMMA DivBelow ==
  ASSUME NEW a \in Int, NEW d \in Nat \ {0}, NEW q \in Int, a < d * (q + 1)
  PROVE  a \div d <= q
<1> DEFINE r == a \div d
<1>1. r \in Int /\ d * r <= a
  BY DivBounds
<1>2. SUFFICES ASSUME q + 1 <= r PROVE FALSE
  BY <1>1
<1>3. (q + 1) * d <= r * d
  BY <1>1, <1>2, MulMono
<1> QED BY <1>1, <1>3

\* A lower bound of a quotient.
LEMMA DivAbove ==
  ASSUME NEW a \in Int, NEW d \in Nat \ {0}, NEW q \in Int, d * q <= a
  PROVE  q <= a \div d
<1> DEFINE r == a \div d
<1>1. r \in Int /\ a < d * r + d
  BY DivBounds
<1>2. SUFFICES ASSUME r + 1 <= q PROVE FALSE
  BY <1>1
<1>3. (r + 1) * d <= q * d
  BY <1>1, <1>2, MulMono
<1> QED BY <1>1, <1>3

-----------------------------------------------------------------------------
(* Levels.                                                                  *)

\* The typing of the two sizes of a level.
LEMMA ScaleFacts == Scale \in Nat \ {0} /\ Scale = Full + 1 /\ Full \in Nat \ {0}
  BY FullAssumption DEF Scale

\* A dimmer never raises a level (applyMaster).
LEMMA ApplyMasterBound ==
  ASSUME NEW v \in Level, NEW m \in Level
  PROVE  applyMaster(v, m) \in 0 .. v
<1>0. v \in Nat /\ m \in Nat /\ v <= Full /\ m <= Full
  BY ScaleFacts DEF Level
<1>1. CASE m >= Full
  BY <1>1, <1>0 DEF applyMaster
<1>2. CASE ~(m >= Full)
  <2>1. applyMaster(v, m) = (v * m) \div Scale
    BY <1>2 DEF applyMaster
  <2>2. v * m \in Nat
    BY <1>0
  <2>3. m * v <= Full * v
    BY <1>0, ScaleFacts, MulMono
  <2>4. v * m < Scale * (v + 1)
    BY <2>3, <1>0, ScaleFacts
  <2>5. (v * m) \div Scale <= v
    BY <2>2, <2>4, <1>0, ScaleFacts, DivBelow
  <2>6. 0 <= (v * m) \div Scale
    BY <2>2, ScaleFacts, DivAbove
  <2>7. (v * m) \div Scale \in Int
    BY <2>2, ScaleFacts, DivBounds
  <2> QED BY <2>1, <2>5, <2>6, <2>7, <1>0
<1> QED BY <1>1, <1>2

\* A slewed level is a level, moves by at most one step, never overshoots its
\* target, and comes down by a full step while it is above it (slewToward).
LEMMA SlewFacts ==
  ASSUME NEW c \in Level, NEW t \in Level, NEW s \in Nat \ {0}
  PROVE  /\ slewToward(c, t, s) \in Level
         /\ Abs(slewToward(c, t, s) - c) <= s
         /\ slewToward(c, t, s) <= MaxOf(c - s, t)
         /\ slewToward(c, t, s) <= MaxOf(c, t)
  BY ScaleFacts DEF slewToward, Abs, MaxOf, Level

\* The position of a running fade is below Scale, also when the 32-bit shift
\* of the elapsed time has overflowed (updateFade_locked).
LEMMA FadeKBound ==
  ASSUME NEW e \in Nat, NEW t \in Nat \ {0}, e < t
  PROVE  fadeK(e, t) \in 0 .. Full
<1> DEFINE x == e * Scale
           y == x % U32
<1>1. x \in Nat
  BY ScaleFacts
<1>2. y \in Nat /\ y <= x
  <2>1. y \in 0 .. U32 - 1
    BY <1>1, U32Assumption
  <2>2. CASE x < U32
    BY <2>1, <2>2, <1>1, U32Assumption
  <2>3. CASE x >= U32
    BY <2>1, <2>3, <1>1, U32Assumption
  <2> HIDE DEF x, y
  <2> QED BY <2>1, <2>2, <2>3, <1>1, U32Assumption
<1>3. (e + 1) * Scale <= t * Scale
  BY ScaleFacts, MulMono
<1>4. x < t * (Full + 1)
  BY <1>3, ScaleFacts
<1>5. y < t * (Full + 1)
  <2> HIDE DEF x, y
  <2>1. t * (Full + 1) \in Nat
    BY ScaleFacts
  <2> QED BY <1>1, <1>2, <1>4, <2>1
<1> HIDE DEF y
<1>6. y \div t <= Full
  BY <1>2, <1>5, ScaleFacts, DivBelow
<1>7. 0 <= y \div t
  BY <1>2, DivAbove
<1>8. y \div t \in Int
  BY <1>2, DivBounds
<1>9. fadeK(e, t) = y \div t
  BY DEF fadeK, y
<1> QED BY <1>6, <1>7, <1>8, <1>9, ScaleFacts

\* An interpolated level lies between the two ends of its fade.
LEMMA FadeLevelBetween ==
  ASSUME NEW a \in Level, NEW b \in Level, NEW k \in 0 .. Full
  PROVE  /\ fadeLevel(a, b, k) \in Level
         /\ MinOf(a, b) <= fadeLevel(a, b, k)
         /\ fadeLevel(a, b, k) <= MaxOf(a, b)
<1> DEFINE d == b - a
           q == (d * k) \div Scale
<1>0. a \in Nat /\ b \in Nat /\ a <= Full /\ b <= Full /\ k \in Nat /\ k <= Full
  BY ScaleFacts DEF Level
<1>1. d \in Int /\ d * k \in Int /\ q \in Int
  BY <1>0, ScaleFacts, DivBounds
<1>2. CASE d >= 0
  <2>1. k * d <= Full * d /\ k * d >= 0
    BY <1>0, <1>1, <1>2, ScaleFacts, MulMono
  <2>2. d * k < Scale * (d + 1)
    BY <2>1, <1>0, <1>1, <1>2, ScaleFacts
  <2>3. q <= d
    BY <2>2, <1>1, ScaleFacts, DivBelow
  <2>4. 0 <= q
    BY <2>1, <1>0, <1>1, ScaleFacts, DivAbove
  <2> QED BY <2>3, <2>4, <1>0, <1>1, <1>2, ScaleFacts DEF fadeLevel, MinOf, MaxOf, Level
<1>3. CASE d < 0
  <2>1. k * (-d) <= Full * (-d) /\ k * (-d) >= 0
    BY <1>0, <1>1, <1>3, ScaleFacts, MulMono
  <2>2. Scale * d <= d * k /\ d * k < Scale * (0 + 1)
    BY <2>1, <1>0, <1>1, <1>3, ScaleFacts
  <2>3. d <= q
    BY <2>2, <1>1, ScaleFacts, DivAbove
  <2>4. q <= 0
    BY <2>2, <1>1, ScaleFacts, DivBelow
  <2> QED BY <2>3, <2>4, <1>0, <1>1, <1>3, ScaleFacts DEF fadeLevel, MinOf, MaxOf, Level
<1> QED BY <1>1, <1>2, <1>3

\* A quotient is monotone in its dividend.
LEMMA DivMono ==
  ASSUME NEW a \in Int, NEW b \in Int, NEW d \in Nat \ {0}, a <= b
  PROVE  a \div d <= b \div d
<1>1. a \div d \in Int /\ d * (a \div d) <= a
  BY DivBounds
<1>2. d * (a \div d) <= b
  BY <1>1
<1> QED
  BY <1>1, <1>2, DivAbove

\* A number below n is its own remainder by n.
LEMMA ModBelow ==
  ASSUME NEW a \in Nat, NEW n \in Nat \ {0}, a < n
  PROVE  a % n = a
  OBVIOUS

\* The position of a fade that the 32-bit shift holds never goes back (updateFade_locked).
LEMMA FadeKMono ==
  ASSUME NEW e \in Nat, NEW f \in Nat, NEW t \in Nat \ {0}, e <= f, f < t, t * Scale <= U32
  PROVE  fadeK(e, t) <= fadeK(f, t)
<1>1. e * Scale \in Nat /\ f * Scale \in Nat /\ t * Scale \in Nat /\ U32 \in Nat \ {0}
  BY ScaleFacts, U32Assumption
<1>2. e * Scale <= f * Scale
  BY ScaleFacts, MulMono
<1>3. f * Scale < t * Scale
  <2>1. (f + 1) * Scale <= t * Scale
    BY ScaleFacts, MulMono
  <2>2. (f + 1) * Scale = f * Scale + Scale
    BY ScaleFacts
  <2> QED
    BY <1>1, <2>1, <2>2, ScaleFacts
<1> DEFINE x == e * Scale
           y == f * Scale
<1>4. x \in Nat /\ y \in Nat /\ x <= y /\ y < U32
  BY <1>1, <1>2, <1>3
<1>5. fadeK(e, t) = (x % U32) \div t /\ fadeK(f, t) = (y % U32) \div t
  BY DEF fadeK
<1> HIDE DEF x, y
<1>6. x % U32 = x /\ y % U32 = y
  BY <1>1, <1>4, ModBelow
<1> QED
  BY <1>4, <1>5, <1>6, DivMono

\* An interpolated level only moves towards its end as the position of the fade grows
\* (updateFade_locked).
LEMMA FadeLevelMono ==
  ASSUME NEW a \in Level, NEW b \in Level, NEW j \in 0 .. Full, NEW k \in 0 .. Full, j <= k
  PROVE  Abs(b - fadeLevel(a, b, k)) <= Abs(b - fadeLevel(a, b, j))
<1> DEFINE d == b - a
           p == (d * j) \div Scale
           q == (d * k) \div Scale
<1>0. a \in Nat /\ b \in Nat /\ j \in Nat /\ k \in Nat /\ d \in Int
  BY ScaleFacts DEF Level
<1>1. d * j \in Int /\ d * k \in Int /\ p \in Int /\ q \in Int
  BY <1>0, ScaleFacts, DivBounds
<1>2. /\ MinOf(a, b) <= fadeLevel(a, b, j) /\ fadeLevel(a, b, j) <= MaxOf(a, b)
      /\ MinOf(a, b) <= fadeLevel(a, b, k) /\ fadeLevel(a, b, k) <= MaxOf(a, b)
  BY FadeLevelBetween
<1>3. fadeLevel(a, b, j) = a + p /\ fadeLevel(a, b, k) = a + q
  BY DEF fadeLevel
<1>4. CASE d >= 0
  <2>1. j * d <= k * d
    BY <1>0, <1>4, MulMono
  <2>2. d * j <= d * k
    BY <1>0, <2>1
  <2>3. p <= q
    BY <1>1, <2>2, ScaleFacts, DivMono
  <2>4. d = b - a
    OBVIOUS
  <2> HIDE DEF d, p, q
  <2> QED
    BY <1>0, <1>1, <1>2, <1>3, <1>4, <2>3, <2>4 DEF Abs, MinOf, MaxOf
<1>5. CASE d < 0
  <2>1. j * (-d) <= k * (-d)
    BY <1>0, <1>5, MulMono
  <2>2. d * k <= d * j
    BY <1>0, <2>1
  <2>3. q <= p
    BY <1>1, <2>2, ScaleFacts, DivMono
  <2>4. d = b - a
    OBVIOUS
  <2> HIDE DEF d, p, q
  <2> QED
    BY <1>0, <1>1, <1>2, <1>3, <1>5, <2>3, <2>4 DEF Abs, MinOf, MaxOf
<1> QED
  BY <1>0, <1>4, <1>5

\* The position of a fade that begins is 0, and the level there is its start.
LEMMA FadeStart ==
  ASSUME NEW a \in Level, NEW b \in Level, NEW t \in Nat \ {0}
  PROVE  fadeK(0, t) = 0 /\ fadeLevel(a, b, 0) = a
<1>1. \A d \in Nat \ {0} : 0 \div d = 0
  <2> SUFFICES ASSUME NEW d \in Nat \ {0} PROVE 0 \div d = 0
    OBVIOUS
  <2>1. 0 \div d <= 0 /\ 0 <= 0 \div d /\ 0 \div d \in Int
    BY DivBelow, DivAbove, DivBounds
  <2> QED
    BY <2>1
<1>2. 0 * Scale = 0 /\ 0 % U32 = 0 /\ (b - a) * 0 = 0 /\ a + 0 = a
  BY ScaleFacts, U32Assumption, ModBelow DEF Level
<1>3. 0 \div t = 0 /\ 0 \div Scale = 0
  BY <1>1, ScaleFacts
<1> QED
  BY <1>2, <1>3 DEF fadeK, fadeLevel

-----------------------------------------------------------------------------
(* The pieces of a DMX cycle.                                               *)

\* The constants have the types of the variables they initialise.
LEMMA ConstantFacts ==
  /\ 0 \in Level /\ Full \in Level
  /\ Dark \in Frames
  /\ Idle \in Job
  /\ SAFE_MAX_LEVEL \in Level /\ BURN_SAFE_MAX_LEVEL \in Level
  /\ BURN_SAFE_MAX_LEVEL <= SAFE_MAX_LEVEL
  /\ SAFE_SLEW_STEP \in Nat \ {0} /\ BURN_SAFE_SLEW_STEP \in Nat \ {0}
  /\ Level \subseteq Nat
<1>1. 0 \in Level /\ Full \in Level /\ Level \subseteq Nat
  BY ScaleFacts DEF Level
<1>2. Dark \in Frames
  BY <1>1 DEF Dark, Frames
<1>3. Idle \in Job
  BY <1>2, SizeAssumption DEF Idle, Job, Scenes
<1> QED BY <1>1, <1>2, <1>3, ProfileAssumption, ScaleFacts DEF Level

\* The web layer after the fade update is a frame, and while the layer has not
\* been written since the fade started it lies between the fade's two ends.
LEMMA UpdateFadeFacts ==
  ASSUME TypeOK
  PROVE  /\ updateFade \in Frames
         /\ fadeActive => \A c \in Chan : Between(fadeFrom[c], updateFade[c], fadeTo[c])
         /\ ~fadeActive => updateFade = webVals
         /\ fadeActive /\ FadeOver => updateFade = fadeTo
<1>1. CASE ~fadeActive
  BY <1>1 DEF updateFade, TypeOK
<1>2. CASE fadeActive /\ FadeOver
  <2>1. updateFade = fadeTo
    BY <1>2 DEF updateFade
  <2>2. \A c \in Chan : fadeFrom[c] \in Nat /\ fadeTo[c] \in Nat
    BY ConstantFacts DEF TypeOK, Frames
  <2> QED BY <1>2, <2>1, <2>2 DEF TypeOK, Between, MinOf, MaxOf
<1>3. CASE fadeActive /\ ~FadeOver
  <2> DEFINE k == fadeK(fadeElapsed, fadeTimeMs)
  <2>1. k \in 0 .. Full
    BY <1>3, FadeKBound DEF TypeOK, FadeOver
  <2>2. updateFade = [c \in Chan |-> fadeLevel(fadeFrom[c], fadeTo[c], k)]
    BY <1>3 DEF updateFade
  <2> HIDE DEF k
  <2>3. ASSUME NEW c \in Chan
        PROVE  /\ fadeLevel(fadeFrom[c], fadeTo[c], k) \in Level
               /\ Between(fadeFrom[c], fadeLevel(fadeFrom[c], fadeTo[c], k), fadeTo[c])
    <3>1. fadeFrom[c] \in Level /\ fadeTo[c] \in Level
      BY DEF TypeOK, Frames
    <3> QED BY <2>1, <3>1, FadeLevelBetween DEF Between
  <2> QED BY <1>3, <2>2, <2>3 DEF Frames
<1> QED BY <1>1, <1>2, <1>3

\* The level a channel is driven towards is a level below the ceiling in force.
LEMMA TargetFacts ==
  ASSUME TypeOK, NEW web \in Frames, NEW c \in Chan, NEW fx \in Level
  PROVE  /\ target(c, web, fx) \in Level
         /\ target(c, web, fx) <= effectiveSafeMaxLevel
         /\ effectiveSafeMaxLevel <= SAFE_MAX_LEVEL
<1>1. mixed(c, web) \in Level
  BY ConstantFacts DEF TypeOK, Frames, mixed, netIn, MaxOf
<1> DEFINE v == applyMaster(mixed(c, web), masterDimmer)
           w == clampLevel(v, effectiveSafeMaxLevel)
<1>2. effectiveSafeMaxLevel \in Level /\ effectiveSafeMaxLevel <= SAFE_MAX_LEVEL
  BY ConstantFacts DEF effectiveSafeMaxLevel
<1>3. v \in Level
  BY <1>1, ApplyMasterBound, ScaleFacts DEF TypeOK, Level
<1>4. w \in Level /\ w <= effectiveSafeMaxLevel
  BY <1>2, <1>3, ScaleFacts DEF clampLevel, Level
<1> HIDE DEF v, w
<1>5. applyMaster(w, fx) \in 0 .. w
  BY <1>4, ApplyMasterBound
<1>6. target(c, web, fx) = applyMaster(w, fx)
  BY DEF target, v, w
<1> QED BY <1>2, <1>4, <1>5, <1>6, ScaleFacts DEF Level

\* What one DMX cycle does to one channel of the output.
LEMMA CycleFacts ==
  ASSUME TypeOK, DmxCycle
  PROVE  /\ outVals' \in Frames
         /\ \A c \in Chan :
              /\ Abs(outVals'[c] - outVals[c]) <= effectiveSafeSlewStep
              /\ outVals'[c] <= MaxOf(outVals[c] - effectiveSafeSlewStep,
                                      effectiveSafeMaxLevel)
              /\ outVals'[c] <= MaxOf(outVals[c], SAFE_MAX_LEVEL)
<1>1. updateFade \in Frames
  BY UpdateFadeFacts
<1>2. PICK fx \in FxChoice :
        outVals' = [c \in Chan |-> slewToward(outVals[c], target(c, updateFade, fx[c]),
                                              effectiveSafeSlewStep)]
  BY DEF DmxCycle
<1>3. \A c \in Chan : fx[c] \in Level
  BY <1>2, ConstantFacts, InputAssumption DEF FxChoice
<1>4. effectiveSafeSlewStep \in Nat \ {0}
  BY ConstantFacts DEF effectiveSafeSlewStep
<1>5. ASSUME NEW c \in Chan
      PROVE  LET r == slewToward(outVals[c], target(c, updateFade, fx[c]),
                                 effectiveSafeSlewStep)
             IN  /\ r \in Level
                 /\ Abs(r - outVals[c]) <= effectiveSafeSlewStep
                 /\ r <= MaxOf(outVals[c] - effectiveSafeSlewStep, effectiveSafeMaxLevel)
                 /\ r <= MaxOf(outVals[c], SAFE_MAX_LEVEL)
  <2> DEFINE t == target(c, updateFade, fx[c])
             r == slewToward(outVals[c], t, effectiveSafeSlewStep)
  <2>1. t \in Level /\ t <= effectiveSafeMaxLevel /\ effectiveSafeMaxLevel <= SAFE_MAX_LEVEL
    BY <1>1, <1>3, TargetFacts
  <2>2. outVals[c] \in Level
    BY DEF TypeOK, Frames
  <2>3. effectiveSafeMaxLevel \in Level
    BY ConstantFacts DEF effectiveSafeMaxLevel
  <2> HIDE DEF t
  <2>4. /\ r \in Level
        /\ Abs(r - outVals[c]) <= effectiveSafeSlewStep
        /\ r <= MaxOf(outVals[c] - effectiveSafeSlewStep, t)
        /\ r <= MaxOf(outVals[c], t)
    BY <1>4, <2>1, <2>2, SlewFacts
  <2>5. /\ r <= MaxOf(outVals[c] - effectiveSafeSlewStep, effectiveSafeMaxLevel)
        /\ r <= MaxOf(outVals[c], SAFE_MAX_LEVEL)
    <3> HIDE DEF r
    <3>1. /\ r \in Nat /\ t \in Nat /\ outVals[c] \in Nat
          /\ effectiveSafeMaxLevel \in Nat /\ SAFE_MAX_LEVEL \in Nat
      BY <2>1, <2>2, <2>3, <2>4, ConstantFacts
    <3> QED BY <1>4, <2>1, <2>4, <3>1 DEF MaxOf
  <2> QED BY <2>4, <2>5 DEF t
<1> QED BY <1>2, <1>5 DEF Frames

-----------------------------------------------------------------------------
(* Types.                                                                   *)

\* The colour wash is a frame.
LEMMA ColorWashType ==
  ASSUME TypeOK, NEW col \in Color
  PROVE  ColorWash(col) \in Frames
<1>1. \A c \in Chan : webVals[c] \in Level
  BY DEF TypeOK, Frames
<1>2. col.r \in Level /\ col.g \in Level /\ col.b \in Level
  BY DEF Color
<1> QED BY <1>1, <1>2 DEF ColorWash, Frames

\* The end of a group is never constrained below its start, nor outside the universe.
LEMMA ConstrainType ==
  ASSUME NEW x \in Int, NEW lo \in Chan
  PROVE  constrain(x, lo, MAX_CH) \in lo .. MAX_CH
  BY SizeAssumption DEF constrain, Chan

\* The initial state has the right types.
LEMMA InitTypeOK == Init => TypeOK
<1> SUFFICES ASSUME Init PROVE TypeOK
  OBVIOUS
<1>1. groups \in [Groups -> Group]
  <2>1. ASSUME NEW g \in Groups
        PROVE  [start |-> g * GROUP_WIDTH + 1, end |-> g * GROUP_WIDTH + GROUP_WIDTH,
                enabled |-> TRUE] \in Group
    <3>1. g \in Nat /\ g + 1 <= MAX_GROUPS
      BY SizeAssumption DEF Groups
    <3>2. (g + 1) * GROUP_WIDTH <= MAX_GROUPS * GROUP_WIDTH
      BY <3>1, MulMono, SizeAssumption
    <3>3. g * GROUP_WIDTH \in Nat
      BY <3>1, SizeAssumption
    <3>4. g * GROUP_WIDTH + GROUP_WIDTH <= MAX_CH
      BY <3>1, <3>2, <3>3, SizeAssumption
    <3> QED BY <3>3, <3>4, SizeAssumption DEF Group, Chan
  <2> QED BY <2>1 DEF Init
<1>2. color \in Color
  BY ConstantFacts DEF Init, Color
<1>3. job \in [Task -> Job] /\ scenes \in [Scenes -> Frames]
  BY ConstantFacts DEF Init
<1>4. burnSafeMode \in BOOLEAN /\ artnetFallbackToWeb \in BOOLEAN /\ mode \in Mode
  BY InputAssumption, Zenon DEF Init, Mode
<1>5. /\ fadeActive \in BOOLEAN /\ artActive \in BOOLEAN /\ sacnActive \in BOOLEAN
      /\ fxEnabled \in BOOLEAN
  BY Zenon DEF Init
<1>6. /\ webVals \in Frames /\ artVals \in Frames /\ sacnVals \in Frames
      /\ outVals \in Frames /\ fadeFrom \in Frames /\ fadeTo \in Frames
      /\ masterDimmer \in Level
  BY ConstantFacts, Zenon DEF Init
<1>7. fadeElapsed \in Nat /\ fadeTimeMs \in Nat \ {0}
  BY DEF Init
<1>8. fxMode \in FxMode /\ lastCmd \in Command
  BY DEF Init, FxMode, Command
<1> QED BY <1>1, <1>2, <1>3, <1>4, <1>5, <1>6, <1>7, <1>8, Zenon DEF TypeOK

\* Every step keeps the types.
LEMMA NextTypeOK == TypeOK /\ [Next]_vars => TypeOK'
<1> SUFFICES ASSUME TypeOK, [Next]_vars PROVE TypeOK'
  OBVIOUS
<1>1. ASSUME NEW t \in Task, NEW ch \in Chan, NEW v \in WebInputs, SetChannel(t, ch, v)
      PROVE  TypeOK'
  BY <1>1, InputAssumption DEF SetChannel, TypeOK, Frames, fadeVars, netVars, cfgVars,
                               patchVars, Command
<1>2. CASE routeBlackout
  BY <1>2, ConstantFacts DEF routeBlackout, TypeOK, netVars, cfgVars, patchVars, Command
<1>3. CASE routeFull
  BY <1>3, ConstantFacts DEF routeFull, TypeOK, Frames, netVars, cfgVars, patchVars, Command
<1>4. ASSUME NEW t \in Task, NEW g \in Groups, NEW v \in WebInputs, ApplyGroup(t, g, v)
      PROVE  TypeOK'
  <2>1. webVals' \in Frames
    BY <1>4, InputAssumption DEF ApplyGroup, TypeOK, Frames
  <2> QED BY <1>4, <2>1 DEF ApplyGroup, TypeOK, fadeVars, netVars, cfgVars, patchVars, Command
<1>5. ASSUME NEW g \in Groups, NEW s \in 0 .. MAX_CH, NEW e \in 0 .. MAX_CH,
             NEW en \in BOOLEAN, routeGroupSet(g, s, e, en)
      PROVE  TypeOK'
  <2> DEFINE gs == IF s = 0 THEN groups[g].start ELSE constrain(s, 1, MAX_CH)
             ge == IF e = 0 THEN groups[g].end ELSE constrain(e, gs, MAX_CH)
  <2>1. groups[g] \in Group
    BY DEF TypeOK
  <2>2. gs \in Chan
    <3>1. 1 \in Chan /\ s \in Int
      BY SizeAssumption DEF Chan
    <3>2. constrain(s, 1, MAX_CH) \in 1 .. MAX_CH
      BY <3>1, ConstrainType
    <3> QED BY <2>1, <3>2 DEF Group, Chan
  <2>3. ge \in Chan
    <3> HIDE DEF gs
    <3>1. constrain(e, gs, MAX_CH) \in gs .. MAX_CH
      BY <2>2, ConstrainType, SizeAssumption
    <3> QED BY <2>1, <2>2, <3>1, SizeAssumption DEF Group, Chan
  <2>4. [start |-> gs, end |-> ge, enabled |-> en] \in Group
    BY <2>2, <2>3 DEF Group
  <2>5. groups' = [groups EXCEPT ![g] = [start |-> gs, end |-> ge, enabled |-> en]]
    BY <1>5 DEF routeGroupSet
  <2>6. groups' \in [Groups -> Group]
    <3> HIDE DEF gs, ge
    <3> QED BY <2>4, <2>5 DEF TypeOK
  <2> QED BY <1>5, <2>6 DEF routeGroupSet, TypeOK, fadeVars, netVars, cfgVars
<1>6. ASSUME NEW r \in ColorInputs, NEW g \in ColorInputs, NEW b \in ColorInputs,
             NEW en \in BOOLEAN,
             routeColorSet([r |-> r, g |-> g, b |-> b, enabled |-> en])
      PROVE  TypeOK'
  <2> DEFINE col == [r |-> r, g |-> g, b |-> b, enabled |-> en]
  <2>1. col \in Color
    BY InputAssumption DEF Color
  <2> HIDE DEF col
  <2>2. routeColorSet(col)
    BY <1>6 DEF col
  <2>3. webVals' \in Frames /\ color' \in Color
    BY <2>1, <2>2, ColorWashType DEF routeColorSet, TypeOK
  <2> QED BY <2>2, <2>3 DEF routeColorSet, TypeOK, fadeVars, netVars, cfgVars, Command
<1>7. ASSUME NEW part \in {"r", "g", "b"}, NEW v \in ColorInputs, oscColor(part, v)
      PROVE  TypeOK'
  <2>1. color' \in Color
    BY <1>7, InputAssumption DEF oscColor, TypeOK, Color
  <2>2. webVals' \in Frames
    BY <1>7, <2>1, ColorWashType DEF oscColor
  <2> QED BY <1>7, <2>1, <2>2 DEF oscColor, TypeOK, fadeVars, netVars, cfgVars, Command
<1>8. ASSUME NEW t \in Task, NEW n \in SceneArgs, NEW ms \in FadeTimes, RecallLoad(t, n, ms)
      PROVE  TypeOK'
  <2>1. [kind |-> "recall", vals |-> scenes[n], ms |-> ms, n |-> n] \in Job
    BY InputAssumption DEF TypeOK, Job, Scenes
  <2> QED BY <1>8, <2>1 DEF RecallLoad, TypeOK, fadeVars, netVars, cfgVars, patchVars
<1>9. ASSUME NEW t \in Task, RecallStart(t)
      PROVE  TypeOK'
  <2>1. job[t] \in Job /\ Idle \in Job
    BY ConstantFacts DEF TypeOK
  <2>2. fadeTo' \in Frames /\ fadeTimeMs' \in Nat \ {0}
    BY <1>9, <2>1 DEF RecallStart, Job
  <2> QED BY <1>9, <2>1, <2>2 DEF RecallStart, TypeOK, netVars, cfgVars, patchVars, Command
<1>10. ASSUME NEW t \in Task, RecallBusy(t)
       PROVE  TypeOK'
  BY <1>10, ConstantFacts DEF RecallBusy, TypeOK, fadeVars, netVars, cfgVars, patchVars
<1>11. ASSUME NEW n \in SceneArgs, SaveSnap(n)
       PROVE  TypeOK'
  <2>1. [kind |-> "save", vals |-> webVals, ms |-> 0, n |-> n] \in Job
    BY InputAssumption DEF TypeOK, Job, Scenes
  <2> QED BY <1>11, <2>1 DEF SaveSnap, TypeOK, fadeVars, netVars, cfgVars, patchVars, Task
<1>12. CASE SaveCommit
  <2>1. job["web"].vals \in Frames /\ Idle \in Job
    BY ConstantFacts DEF TypeOK, Job, Task
  <2> QED BY <1>12, <2>1 DEF SaveCommit, TypeOK, fadeVars, netVars, cfgVars, patchVars
<1>13. ASSUME NEW t \in Task, NEW v \in Masters, SetMaster(t, v)
       PROVE  TypeOK'
  BY <1>13, InputAssumption DEF SetMaster, TypeOK, fadeVars, netVars, patchVars
<1>14. ASSUME NEW m \in Modes, routeModeSet(m)
       PROVE  TypeOK'
  BY <1>14, InputAssumption DEF routeModeSet, TypeOK, Mode, fadeVars, netVars, patchVars
<1>15. ASSUME NEW en \in FallbackArgs, routeModeFallback(en)
       PROVE  TypeOK'
  BY <1>15, InputAssumption DEF routeModeFallback, TypeOK, fadeVars, netVars, patchVars
<1>16. ASSUME NEW burn \in SafetyArgs, routeSafetySet(burn)
       PROVE  TypeOK'
  BY <1>16, InputAssumption DEF routeSafetySet, TypeOK, fadeVars, netVars, patchVars
<1>17. ASSUME NEW m \in FxArgs, NEW en \in BOOLEAN, routeFxSet(m, en)
       PROVE  TypeOK'
  BY <1>17, InputAssumption DEF routeFxSet, TypeOK, FxMode, fadeVars, netVars, cfgVars
<1>18. ASSUME NEW m \in FxArgs, oscFxMode(m)
       PROVE  TypeOK'
  BY <1>18, InputAssumption DEF oscFxMode, TypeOK, FxMode, fadeVars, netVars, cfgVars
<1>19. ASSUME NEW vals \in [Chan -> NetInputs], ArtFrame(vals) \/ SacnFrame(vals)
       PROVE  TypeOK'
  <2>1. vals \in Frames
    BY InputAssumption DEF Frames
  <2> QED BY <1>19, <2>1 DEF ArtFrame, SacnFrame, TypeOK, fadeVars, cfgVars, patchVars
<1>20. CASE NetTimeout
  BY <1>20 DEF NetTimeout, TypeOK, fadeVars, cfgVars, patchVars
<1>21. CASE Tick
  BY <1>21 DEF Tick, TypeOK, netVars, cfgVars, patchVars
<1>22. CASE DmxCycle
  BY <1>22, CycleFacts, UpdateFadeFacts DEF DmxCycle, fadeGoesOn, TypeOK, netVars, cfgVars, patchVars
<1>23. CASE UNCHANGED vars
  BY <1>23 DEF vars, TypeOK, fadeVars, netVars, cfgVars, patchVars
<1> QED
  BY <1>1, <1>2, <1>3, <1>4, <1>5, <1>6, <1>7, <1>8, <1>9, <1>10, <1>11, <1>12, <1>13,
     <1>14, <1>15, <1>16, <1>17, <1>18, <1>19, <1>20, <1>21, <1>22, <1>23
     DEF Next, setupWeb, pollOsc, Recalls, Inputs, Task

\* Type correctness of the light path (every handler keeps every variable in its type).
THEOREM TypeCorrect == Spec => []TypeOK
  BY InitTypeOK, NextTypeOK, PTL DEF Spec

-----------------------------------------------------------------------------
(* Safety.                                                                  *)

\* The conjunction that is preserved by every step.
LightInv == TypeOK /\ Ceiling /\ LookHolds /\ RecallExact /\ FadeBetween

\* Nothing is lit, no fade runs and no command was given at boot.
LEMMA InitLightInv == Init => LightInv
<1> SUFFICES ASSUME Init PROVE LightInv
  OBVIOUS
<1>1. TypeOK
  BY InitTypeOK
<1>2. Ceiling
  BY ConstantFacts DEF Init, Ceiling, Dark
<1> QED BY <1>1, <1>2 DEF Init, LightInv, LookHolds, RecallExact, FadeBetween

\* What the safety invariants look at.
lookVars == <<webVals, fadeVars, outVals, lastCmd>>

\* A step is of one of these kinds: it leaves the look alone, writes the web layer
\* by a plain command, blacks out or fills, starts a fade, lets time pass, or is a
\* DMX cycle.
LEMMA StepKinds ==
  ASSUME [Next]_vars
  PROVE  \/ UNCHANGED lookVars
         \/ lastCmd' = "write" /\ UNCHANGED outVals
         \/ routeBlackout \/ routeFull
         \/ \E t \in Task : RecallStart(t)
         \/ Tick \/ DmxCycle
<1>1. CASE UNCHANGED vars
  BY <1>1 DEF vars, lookVars
<1>2. CASE Inputs
  BY <1>2 DEF Inputs, ArtFrame, SacnFrame, NetTimeout, lookVars
<1>3. CASE setupWeb \/ pollOsc \/ Recalls
  <2>1. ASSUME NEW t \in Task, NEW ch \in Chan, NEW v \in WebInputs, SetChannel(t, ch, v)
        PROVE  lastCmd' = "write" /\ UNCHANGED outVals
    BY <2>1 DEF SetChannel
  <2>2. ASSUME NEW t \in Task, NEW g \in Groups, NEW v \in WebInputs, ApplyGroup(t, g, v)
        PROVE  lastCmd' = "write" /\ UNCHANGED outVals
    BY <2>2 DEF ApplyGroup
  <2>3. ASSUME NEW g \in Groups, NEW s \in 0 .. MAX_CH, NEW e \in 0 .. MAX_CH,
               NEW en \in BOOLEAN, routeGroupSet(g, s, e, en)
        PROVE  UNCHANGED lookVars
    BY <2>3 DEF routeGroupSet, lookVars
  <2>4. ASSUME NEW r \in ColorInputs, NEW g \in ColorInputs, NEW b \in ColorInputs,
               NEW en \in BOOLEAN,
               routeColorSet([r |-> r, g |-> g, b |-> b, enabled |-> en])
        PROVE  UNCHANGED lookVars \/ (lastCmd' = "write" /\ UNCHANGED outVals)
    BY <2>4 DEF routeColorSet, lookVars
  <2>5. ASSUME NEW part \in {"r", "g", "b"}, NEW v \in ColorInputs, oscColor(part, v)
        PROVE  lastCmd' = "write" /\ UNCHANGED outVals
    BY <2>5 DEF oscColor
  <2>6. ASSUME NEW t \in Task, NEW n \in SceneArgs, NEW ms \in FadeTimes, RecallLoad(t, n, ms)
        PROVE  UNCHANGED lookVars
    BY <2>6 DEF RecallLoad, lookVars
  <2>7. ASSUME NEW t \in Task, RecallBusy(t)
        PROVE  UNCHANGED lookVars
    BY <2>7 DEF RecallBusy, lookVars
  <2>8. ASSUME NEW n \in SceneArgs, SaveSnap(n)
        PROVE  UNCHANGED lookVars
    BY <2>8 DEF SaveSnap, lookVars
  <2>9. ASSUME SaveCommit
        PROVE  UNCHANGED lookVars
    BY <2>9 DEF SaveCommit, lookVars
  <2>10. ASSUME NEW t \in Task, NEW v \in Masters, SetMaster(t, v)
         PROVE  UNCHANGED lookVars
    BY <2>10 DEF SetMaster, lookVars
  <2>11. ASSUME NEW m \in Modes, routeModeSet(m)
         PROVE  UNCHANGED lookVars
    BY <2>11 DEF routeModeSet, lookVars
  <2>12. ASSUME NEW en \in FallbackArgs, routeModeFallback(en)
         PROVE  UNCHANGED lookVars
    BY <2>12 DEF routeModeFallback, lookVars
  <2>13. ASSUME NEW burn \in SafetyArgs, routeSafetySet(burn)
         PROVE  UNCHANGED lookVars
    BY <2>13 DEF routeSafetySet, lookVars
  <2>14. ASSUME NEW m \in FxArgs, NEW en \in BOOLEAN, routeFxSet(m, en)
         PROVE  UNCHANGED lookVars
    BY <2>14 DEF routeFxSet, lookVars
  <2>15. ASSUME NEW m \in FxArgs, oscFxMode(m)
         PROVE  UNCHANGED lookVars
    BY <2>15 DEF oscFxMode, lookVars
  <2> QED
    BY <1>3, <2>1, <2>2, <2>3, <2>4, <2>5, <2>6, <2>7, <2>8, <2>9, <2>10, <2>11, <2>12,
       <2>13, <2>14, <2>15 DEF setupWeb, pollOsc, Recalls, Task
<1> QED BY <1>1, <1>2, <1>3 DEF Next

\* Every step preserves the invariant.
LEMMA NextLightInv == LightInv /\ [Next]_vars => LightInv'
<1> SUFFICES ASSUME LightInv, [Next]_vars PROVE LightInv'
  OBVIOUS
<1>0. TypeOK /\ TypeOK'
  BY NextTypeOK DEF LightInv
<1>1. CASE UNCHANGED lookVars
  BY <1>0, <1>1 DEF lookVars, fadeVars, LightInv, Ceiling, LookHolds, RecallExact, FadeBetween
<1>2. CASE lastCmd' = "write" /\ UNCHANGED outVals
  BY <1>0, <1>2 DEF LightInv, Ceiling, LookHolds, RecallExact, FadeBetween
<1>3. CASE routeBlackout
  BY <1>0, <1>3 DEF routeBlackout, LightInv, Ceiling, LookHolds, RecallExact, FadeBetween
<1>4. CASE routeFull
  BY <1>0, <1>4 DEF routeFull, LightInv, Ceiling, LookHolds, RecallExact, FadeBetween
<1>5. ASSUME NEW t \in Task, RecallStart(t)
      PROVE  LightInv'
  <2>1. Ceiling' /\ LookHolds' /\ RecallExact'
    BY <1>5 DEF RecallStart, LightInv, Ceiling, LookHolds, RecallExact
  <2>2. FadeBetween'
    <3>1. \A c \in Chan : webVals[c] \in Nat /\ fadeTo'[c] \in Nat
      BY <1>0, ConstantFacts DEF TypeOK, Frames
    <3> QED BY <1>5, <3>1 DEF RecallStart, FadeBetween, Between, MinOf, MaxOf
  <2> QED BY <1>0, <2>1, <2>2 DEF LightInv
<1>6. CASE Tick
  BY <1>0, <1>6 DEF Tick, LightInv, Ceiling, LookHolds, RecallExact, FadeBetween
<1>7. CASE DmxCycle
  <2>1. Ceiling'
    <3> SUFFICES ASSUME NEW c \in Chan PROVE outVals'[c] <= SAFE_MAX_LEVEL
      BY DEF Ceiling
    <3>1. outVals'[c] \in Nat /\ outVals[c] \in Nat /\ SAFE_MAX_LEVEL \in Nat
      BY <1>0, ConstantFacts DEF TypeOK, Frames
    <3>2. outVals[c] <= SAFE_MAX_LEVEL
      BY DEF LightInv, Ceiling
    <3>3. outVals'[c] <= MaxOf(outVals[c], SAFE_MAX_LEVEL)
      BY <1>0, <1>7, CycleFacts
    <3> QED BY <3>1, <3>2, <3>3 DEF MaxOf
  <2>2. webVals' = updateFade /\ fadeActive' = (fadeActive /\ ~FadeOver)
    BY <1>7 DEF DmxCycle, fadeGoesOn
  <2>3. UNCHANGED <<fadeFrom, fadeTo, lastCmd>>
    BY <1>7 DEF DmxCycle
  <2>4. LookHolds'
    BY <1>0, <2>2, <2>3, UpdateFadeFacts DEF LightInv, LookHolds
  <2>5. RecallExact'
    BY <1>0, <2>2, <2>3, UpdateFadeFacts DEF LightInv, RecallExact
  <2>6. FadeBetween'
    BY <1>0, <2>2, <2>3, UpdateFadeFacts DEF LightInv, FadeBetween
  <2> QED BY <1>0, <2>1, <2>4, <2>5, <2>6 DEF LightInv
<1> QED BY <1>1, <1>2, <1>3, <1>4, <1>5, <1>6, <1>7, StepKinds

\* The invariant holds in every reachable state.
LEMMA LightInvariant == Spec => []LightInv
  BY InitLightInv, NextLightInv, PTL DEF Spec

\* No frame carries a level above the normal ceiling, whatever the consoles, the
\* network, the effects and the order of commands (computeOutput_locked).
THEOREM CeilingHolds == Spec => []Ceiling
<1>1. LightInv => Ceiling
  BY DEF LightInv
<1> QED BY <1>1, LightInvariant, PTL

\* /blackout and /full hold against every fade that was running when they were given.
THEOREM LookIsHeld == Spec => []LookHolds
<1>1. LightInv => LookHolds
  BY DEF LightInv
<1> QED BY <1>1, LightInvariant, PTL

\* A recalled scene is reached exactly.
THEOREM RecallIsExact == Spec => []RecallExact
<1>1. LightInv => RecallExact
  BY DEF LightInv
<1> QED BY <1>1, LightInvariant, PTL

\* A fade never leaves the interval between its two looks, also when the 32-bit
\* shift of its elapsed time overflows.
THEOREM FadeStaysBetween == Spec => []FadeBetween
<1>1. LightInv => FadeBetween
  BY DEF LightInv
<1> QED BY <1>1, LightInvariant, PTL

\* A group command reaches at least one channel and none outside the universe,
\* however the ends of the group were edited (routeGroupSet, routeGroupApply).
THEOREM SpansAreInside == Spec => []SpanInside
<1>1. ASSUME TypeOK PROVE SpanInside
  <2> SUFFICES ASSUME NEW g \in Groups
               PROVE  GroupSpan(g) # {} /\ GroupSpan(g) \subseteq Chan
    BY DEF SpanInside
  <2> DEFINE s == constrain(groups[g].start, 1, MAX_CH)
             e == constrain(groups[g].end, s, MAX_CH)
  <2>1. groups[g].start \in Int /\ groups[g].end \in Int /\ 1 \in Chan
    BY <1>1, SizeAssumption DEF TypeOK, Group, Chan
  <2>2. s \in Chan
    BY <2>1, ConstrainType DEF Chan
  <2>3. e \in s .. MAX_CH
    <3> HIDE DEF s
    <3> QED BY <2>1, <2>2, ConstrainType
  <2>4. GroupSpan(g) = s .. e
    BY DEF GroupSpan
  <2> HIDE DEF s, e
  <2> QED BY <2>2, <2>3, <2>4, SizeAssumption DEF Chan
<1> QED BY <1>1, TypeCorrect, PTL

\* What the run light_output checks as one invariant, for every universe: types, the
\* ceiling of computeOutput_locked and the groups of routeGroupApply.
THEOREM OutputSafe == Spec => []OutputInv
<1>1. TypeOK /\ Ceiling /\ SpanInside => OutputInv
  BY DEF OutputInv
<1> QED BY <1>1, TypeCorrect, CeilingHolds, SpansAreInside, PTL

-----------------------------------------------------------------------------
(* What a DMX cycle may not do.                                             *)

\* While nothing else writes the web layer, it is where the fade was at an instant that
\* is already over: the look that the fade started from is its instant 0.
FadeTrack ==
  fadeActive /\ lastCmd = "fade" =>
    \E e \in 0 .. fadeElapsed :
      /\ e < fadeTimeMs
      /\ webVals = [c \in Chan |-> fadeLevel(fadeFrom[c], fadeTo[c], fadeK(e, fadeTimeMs))]

TrackInv == LightInv /\ FadeTrack

\* Every step keeps the web layer on the track of the fade.
LEMMA NextFadeTrack == TrackInv /\ [Next]_vars => FadeTrack'
<1> SUFFICES ASSUME TrackInv, [Next]_vars PROVE FadeTrack'
  OBVIOUS
<1>0. TypeOK
  BY DEF TrackInv, LightInv
<1>1. CASE UNCHANGED lookVars
  BY <1>1 DEF lookVars, fadeVars, TrackInv, FadeTrack
<1>2. CASE lastCmd' = "write" \/ routeBlackout \/ routeFull
  BY <1>2 DEF routeBlackout, routeFull, FadeTrack
<1>3. ASSUME NEW t \in Task, RecallStart(t) PROVE FadeTrack'
  <2>1. /\ fadeFrom' = webVals /\ webVals' = webVals /\ fadeElapsed' = 0
        /\ fadeTo' = job[t].vals /\ fadeTimeMs' = IF job[t].ms < 1 THEN 1 ELSE job[t].ms
    BY <1>3 DEF RecallStart
  <2>2. fadeTo' \in Frames /\ fadeTimeMs' \in Nat \ {0}
    BY <1>0, <2>1 DEF TypeOK, Job
  <2>3. ASSUME NEW c \in Chan
        PROVE  fadeLevel(fadeFrom'[c], fadeTo'[c], fadeK(0, fadeTimeMs')) = webVals'[c]
    <3>1. fadeFrom'[c] \in Level /\ fadeTo'[c] \in Level
      BY <1>0, <2>1, <2>2 DEF TypeOK, Frames
    <3>2. fadeK(0, fadeTimeMs') = 0
      BY <2>2, <3>1, FadeStart
    <3>3. fadeLevel(fadeFrom'[c], fadeTo'[c], 0) = fadeFrom'[c]
      BY <2>2, <3>1, FadeStart
    <3> QED
      BY <2>1, <3>2, <3>3
  <2>4. webVals' = [c \in Chan |-> fadeLevel(fadeFrom'[c], fadeTo'[c], fadeK(0, fadeTimeMs'))]
    <3>1. webVals' \in [Chan -> Level]
      BY <1>0, <2>1 DEF TypeOK, Frames
    <3> QED
      BY <2>3, <3>1
  <2>5. 0 \in 0 .. fadeElapsed' /\ 0 < fadeTimeMs'
    BY <2>1, <2>2
  <2> QED
    BY <2>4, <2>5 DEF FadeTrack
<1>4. CASE Tick
  <2>1. 0 .. fadeElapsed \subseteq 0 .. fadeElapsed'
    BY <1>0, <1>4 DEF Tick, TypeOK
  <2> QED
    BY <1>4, <2>1 DEF Tick, TrackInv, FadeTrack
<1>5. CASE DmxCycle
  <2>1. /\ webVals' = updateFade /\ (fadeActive' => fadeActive /\ ~FadeOver)
        /\ UNCHANGED <<fadeElapsed, fadeTimeMs, fadeFrom, fadeTo, lastCmd>>
    BY <1>5 DEF DmxCycle, fadeGoesOn
  <2>2. ASSUME fadeActive' PROVE FadeTrack'
    <3>1. webVals' = [c \in Chan |-> fadeLevel(fadeFrom'[c], fadeTo'[c],
                                               fadeK(fadeElapsed', fadeTimeMs'))]
      BY <2>1, <2>2 DEF updateFade
    <3>2. fadeElapsed' \in 0 .. fadeElapsed' /\ fadeElapsed' < fadeTimeMs'
      BY <1>0, <2>1, <2>2 DEF TypeOK, FadeOver
    <3> QED
      BY <3>1, <3>2 DEF FadeTrack
  <2> QED
    BY <2>2 DEF FadeTrack
<1> QED
  BY <1>1, <1>2, <1>3, <1>4, <1>5, StepKinds

\* One step of a fade that the 32-bit shift holds takes no channel away from its scene.
LEMMA FadeStep ==
  ASSUME TrackInv, [Next]_vars, fadeActive, lastCmd = "fade", lastCmd' = "fade",
         fadeTimeMs * Scale <= U32, NEW c \in Chan
  PROVE  Abs(fadeTo[c] - webVals'[c]) <= Abs(fadeTo[c] - webVals[c])
<1>0. TypeOK
  BY DEF TrackInv, LightInv
<1>1. /\ webVals[c] \in Level /\ fadeFrom[c] \in Level /\ fadeTo[c] \in Level
      /\ webVals[c] \in Nat /\ fadeTo[c] \in Nat
  BY <1>0, ConstantFacts DEF TypeOK, Frames
<1>2. CASE webVals' = webVals
  BY <1>1, <1>2 DEF Abs
<1>3. CASE DmxCycle /\ FadeOver
  <2>1. webVals' = fadeTo
    BY <1>0, <1>3, UpdateFadeFacts DEF DmxCycle
  <2> QED
    BY <1>1, <2>1 DEF Abs
<1>4. CASE DmxCycle /\ ~FadeOver
  <2>1. PICK e \in 0 .. fadeElapsed :
          /\ e < fadeTimeMs
          /\ webVals = [x \in Chan |-> fadeLevel(fadeFrom[x], fadeTo[x], fadeK(e, fadeTimeMs))]
    BY DEF TrackInv, FadeTrack
  <2>2. webVals'[c] = fadeLevel(fadeFrom[c], fadeTo[c], fadeK(fadeElapsed, fadeTimeMs))
    BY <1>4 DEF DmxCycle, updateFade
  <2>3. webVals[c] = fadeLevel(fadeFrom[c], fadeTo[c], fadeK(e, fadeTimeMs))
    BY <2>1
  <2>4. /\ e \in Nat /\ fadeElapsed \in Nat /\ fadeTimeMs \in Nat \ {0}
        /\ e <= fadeElapsed /\ fadeElapsed < fadeTimeMs
    BY <1>0, <1>4 DEF TypeOK, FadeOver
  <2>5. /\ fadeK(e, fadeTimeMs) \in 0 .. Full
        /\ fadeK(fadeElapsed, fadeTimeMs) \in 0 .. Full
        /\ fadeK(e, fadeTimeMs) <= fadeK(fadeElapsed, fadeTimeMs)
    BY <2>1, <2>4, FadeKBound, FadeKMono
  <2> QED
    BY <1>1, <2>2, <2>3, <2>5, FadeLevelMono
<1> QED
  BY <1>2, <1>3, <1>4, StepKinds DEF lookVars, routeBlackout, routeFull, RecallStart, Tick

\* A fade short enough for the 32-bit shift of its elapsed time only ever moves towards
\* its scene, whatever time passes between two frames (updateFade_locked).
THEOREM FadeIsMonotone == Spec => FadeMonotone
<1>1. Init => TrackInv
  BY InitLightInv DEF Init, TrackInv, FadeTrack
<1>2. TrackInv /\ [Next]_vars => TrackInv'
  BY NextLightInv, NextFadeTrack DEF TrackInv
<1>3. TrackInv /\ [Next]_vars =>
        [(/\ fadeActive /\ lastCmd = "fade" /\ lastCmd' = "fade"
          /\ fadeTimeMs * Scale <= U32)
         => \A c \in Chan : Abs(fadeTo[c] - webVals'[c]) <= Abs(fadeTo[c] - webVals[c])]_vars
  BY FadeStep
<1> QED
  BY <1>1, <1>2, <1>3, PTL DEF Spec, FadeMonotone

\* With both inputs lost and the fallback off, a frame under the normal profile repeats
\* the last one when master and effects leave it alone.
LEMMA FrameHeld ==
  ASSUME LightInv, DmxCycle, mode = "MODE_ARTNET", ~artnetFallbackToWeb, ~artActive,
         ~sacnActive, ~fxEnabled, ~burnSafeMode, masterDimmer = Full, NEW c \in Chan
  PROVE  outVals'[c] = outVals[c]
<1>0. TypeOK /\ Ceiling
  BY DEF LightInv
<1>1. /\ outVals[c] \in Nat /\ SAFE_MAX_LEVEL \in Nat /\ outVals[c] <= SAFE_MAX_LEVEL
      /\ Full \in Nat
  BY <1>0, ConstantFacts DEF TypeOK, Frames, Ceiling
<1>2. outVals'[c] = slewToward(outVals[c], target(c, updateFade, Full), effectiveSafeSlewStep)
  BY DEF DmxCycle, FxChoice
<1>3. mixed(c, updateFade) = outVals[c]
  BY DEF mixed
<1>4. target(c, updateFade, Full) = outVals[c]
  BY <1>1, <1>3 DEF target, applyMaster, clampLevel, effectiveSafeMaxLevel
<1> QED
  BY <1>2, <1>4 DEF slewToward

\* "Hold-last on loss": in ARTNET_ONLY with the fallback off and the master at full, no
\* frame after the loss of the signal falls below what the last received frame gives
\* (computeOutput_locked).
THEOREM HoldsLast == Spec => HoldLast
<1>1. LightInv /\ [Next]_vars =>
        [(/\ mode = "MODE_ARTNET" /\ ~artnetFallbackToWeb /\ ~artActive /\ ~sacnActive
          /\ ~fxEnabled /\ ~burnSafeMode /\ masterDimmer = Full)
         => \A c \in Chan :
              outVals'[c] >= MinOf(outVals[c], clampLevel(artVals[c], SAFE_MAX_LEVEL))]_vars
  <2> SUFFICES ASSUME LightInv, [Next]_vars, mode = "MODE_ARTNET", ~artnetFallbackToWeb,
                      ~artActive, ~sacnActive, ~fxEnabled, ~burnSafeMode,
                      masterDimmer = Full, NEW c \in Chan
               PROVE  outVals'[c] >= MinOf(outVals[c], clampLevel(artVals[c], SAFE_MAX_LEVEL))
    OBVIOUS
  <2>1. outVals[c] \in Nat /\ artVals[c] \in Nat /\ SAFE_MAX_LEVEL \in Nat
    BY ConstantFacts DEF LightInv, TypeOK, Frames
  <2>2. outVals'[c] = outVals[c]
    <3>1. CASE DmxCycle
      BY <3>1, FrameHeld
    <3>2. CASE outVals' = outVals
      BY <3>2
    <3> QED
      BY <3>1, <3>2, StepKinds DEF lookVars, routeBlackout, routeFull, RecallStart, Tick
  <2> QED
    BY <2>1, <2>2 DEF MinOf, clampLevel
<1> QED
  BY <1>1, LightInvariant, PTL DEF Spec, HoldLast

-----------------------------------------------------------------------------
(* The light path implements its promise to the fixtures.                   *)

\* Every initial state of the light path is one of the promise.
LEMMA InitPromise == Init => Promise!SInit
<1> SUFFICES ASSUME Init PROVE Promise!SInit
  OBVIOUS
<1>1. outVals = [c \in Promise!Chan |-> 0]
  BY DEF Init, Dark, Chan, Promise!Chan
<1>2. burnSafeMode \in BOOLEAN
  BY InputAssumption, Zenon DEF Init
<1> QED BY <1>1, <1>2 DEF Promise!SInit

\* Every step is a step of the promise or leaves it alone.
LEMMA NextPromise == TypeOK /\ [Next]_vars => [Promise!SNext]_(Promise!svars)
<1> SUFFICES ASSUME TypeOK, [Next]_vars PROVE [Promise!SNext]_(Promise!svars)
  OBVIOUS
<1>1. TypeOK'
  BY NextTypeOK
<1>2. CASE DmxCycle
  <2>1. outVals' \in [Promise!Chan -> Promise!Level]
    BY <1>1 DEF TypeOK, Frames, Chan, Level, Promise!Chan, Promise!Level
  <2>2. /\ effectiveSafeSlewStep = Promise!SlewStepOf(burnSafeMode)
        /\ effectiveSafeMaxLevel = Promise!CeilingOf(burnSafeMode)
    BY DEF effectiveSafeSlewStep, effectiveSafeMaxLevel, Promise!SlewStepOf,
           Promise!CeilingOf
  <2>3. burnSafeMode' = burnSafeMode
    BY <1>2 DEF DmxCycle, cfgVars
  <2>4. \A c \in Promise!Chan :
          /\ Promise!Abs(outVals'[c] - outVals[c]) <= Promise!SlewStepOf(burnSafeMode)
          /\ outVals'[c] <= Promise!MaxOf(outVals[c] - Promise!SlewStepOf(burnSafeMode),
                                          Promise!CeilingOf(burnSafeMode))
    BY <1>2, <2>2, CycleFacts DEF Chan, Promise!Chan, Abs, Promise!Abs, MaxOf, Promise!MaxOf
  <2> QED BY <2>1, <2>3, <2>4 DEF Promise!SNext, Promise!Frame
<1>3. CASE outVals' = outVals
  BY <1>1, <1>3 DEF TypeOK, Promise!SNext, Promise!SwitchProfile
<1>4. DmxCycle \/ outVals' = outVals
  BY StepKinds DEF lookVars, routeBlackout, routeFull, RecallStart, Tick
<1> QED BY <1>2, <1>3, <1>4

\* The light path implements SafeOutput: bounded slew, ceiling, and a straight
\* descent to a stricter ceiling, for every interleaving of the two tasks.
THEOREM ImplementsPromise == Spec => ImplementsSafeOutput
<1>1. Spec => Promise!SSpec
  BY InitPromise, NextPromise, TypeCorrect, PTL DEF Spec, Promise!SSpec
<1> QED BY <1>1 DEF ImplementsSafeOutput
=============================================================================
