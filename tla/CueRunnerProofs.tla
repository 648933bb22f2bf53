--------------------------- MODULE CueRunnerProofs ---------------------------
(***************************************************************************)
(* The cue runner never leaves its list: RunnerInv of CueRunner, for every *)
(* length of the list, every set of dwell and fade times and every width   *)
(* of millis().  RunnerInv is inductive as it stands: the index that       *)
(* tickCueEngine and routeCueNext compute is taken modulo cueCount, which  *)
(* is never 0, and routeCueCount resets an index that it has cut off.      *)
(*                                                                         *)
(* HoldTime, from DueWithShow: cueNextMs lies as far ahead of the clock as *)
(* the end of the step on show does.                                       *)
(***************************************************************************)
EXTENDS CueRunner, TLAPS

\* A remainder by a positive number lies below it (the modulo of tickCueEngine and
\* routeCueNext, and the wrap of a uint32_t).
LEMMA ModInRange ==
  ASSUME NEW a \in Nat, NEW n \in Nat \ {0}
  PROVE  a % n \in 0 .. n - 1
  OBVIOUS

\* A task that has given up, or is about to read a step, is in the type of a job.
LEMMA JobTypes ==
  /\ Idle \in Job
  /\ \A i \in Cues : Read(i) \in Job
<1>1. Idle \in Job
  BY CueAssumption DEF Idle, Job, Cues
<1>2. ASSUME NEW i \in Cues PROVE Read(i) \in Job
  BY <1>1, <1>2 DEF Read, Job
<1> QED
  BY <1>1, <1>2

\* The first steps of the boot satisfy the invariant (initVjDefaults).
LEMMA InitRunner == Init => RunnerInv
<1> SUFFICES ASSUME Init PROVE RunnerInv
  OBVIOUS
<1> USE CueAssumption DEF Init
<1>1. clock \in Instant /\ loopNow \in Instant /\ cueNextMs \in Instant
  BY DEF Instant
<1>2. cueCount \in 1 .. MAX_CUES /\ cueIndex \in Cues /\ cueIndex < cueCount
  BY DEF Cues
<1>3. cueList \in [Cues -> Step]
  OBVIOUS
<1>4. job \in [Task -> Job]
  BY JobTypes
<1>5. onShow \in OnShow
  BY DEF OnShow
<1> QED
  BY <1>1, <1>2, <1>3, <1>4, <1>5 DEF RunnerInv, TypeOK, IndexInRange

\* The index after a step of the runner is a step of the list (tickCueEngine,
\* routeCueNext).
LEMMA NextIndex ==
  ASSUME RunnerInv
  PROVE  /\ (cueIndex + 1) % cueCount \in Cues
         /\ (cueIndex + 1) % cueCount < cueCount
<1>1. cueCount \in 1 .. MAX_CUES /\ cueIndex \in Nat
  BY CueAssumption DEF RunnerInv, TypeOK, Cues
<1>2. (cueIndex + 1) % cueCount \in 0 .. cueCount - 1
  BY <1>1, CueAssumption, ModInRange
<1> QED
  BY <1>1, <1>2, CueAssumption DEF Cues

\* Every step of either task keeps the invariant.
LEMMA NextRunner == RunnerInv /\ [Next]_vars => RunnerInv'
<1> SUFFICES ASSUME RunnerInv, [Next]_vars PROVE RunnerInv'
  OBVIOUS
<1> USE CueAssumption, JobTypes DEF RunnerInv, TypeOK, IndexInRange, cueVars
<1>1. CASE ClockTick
  <2>1. clock' \in Instant
    BY <1>1, ModInRange DEF ClockTick, Instant
  <2>2. onShow' \in OnShow
    BY <1>1 DEF ClockTick, OnShow
  <2> QED
    BY <1>1, <2>1, <2>2 DEF ClockTick
<1>2. CASE SampleNow
  <2>1. job' \in [Task -> Job]
    BY <1>2 DEF SampleNow, Job
  <2> QED
    BY <1>2, <2>1 DEF SampleNow
<1>3. CASE tickCueEngine
  <2>1. cueIndex' \in Cues /\ cueIndex' < cueCount
    BY <1>3, NextIndex DEF tickCueEngine
  <2>2. job' \in [Task -> Job]
    BY <1>3, <2>1 DEF tickCueEngine
  <2> QED
    BY <1>3, <2>1, <2>2 DEF tickCueEngine
<1>4. ASSUME NEW t \in Task, TriggerRead(t) PROVE RunnerInv'
  <2>1. job[t] \in Job /\ job[t].idx \in Cues
    BY DEF Job
  <2>2. cueList[job[t].idx].fade \in Nat /\ cueList[job[t].idx].dwell \in Nat
    BY <2>1 DEF Step
  <2>3. job' \in [Task -> Job]
    BY <1>4, <2>1, <2>2 DEF TriggerRead, Job
  <2> QED
    BY <1>4, <2>3 DEF TriggerRead
<1>5. ASSUME NEW t \in Task, TriggerStart(t) PROVE RunnerInv'
  <2>1. job[t].fade \in Nat /\ job[t].dwell \in Nat /\ clock \in Nat
    BY DEF Job, Instant
  <2>2. cueNextMs' \in Instant
    <3>1. clock + job[t].fade + job[t].dwell \in Nat
      BY <2>1
    <3>2. (clock + job[t].fade + job[t].dwell) % U32 \in 0 .. U32 - 1
      BY <3>1, ModInRange
    <3> QED
      BY <1>5, <3>2 DEF TriggerStart, Instant
  <2>3. onShow' \in OnShow
    BY <1>5, <2>1 DEF TriggerStart, ShowFrom, OnShow
  <2>4. job' \in [Task -> Job]
    BY <1>5 DEF TriggerStart
  <2> QED
    BY <1>5, <2>2, <2>3, <2>4 DEF TriggerStart
<1>6. ASSUME NEW t \in Task, LockTimeout(t) PROVE RunnerInv'
  BY <1>6 DEF LockTimeout
<1>7. CASE Commands
  <2>1. ASSUME NEW t \in Task, CueRun(t) PROVE RunnerInv'
    <3>1. 0 \in Cues /\ 0 < cueCount
      BY DEF Cues
    <3> QED
      BY <2>1, <3>1 DEF CueRun
  <2>2. ASSUME NEW t \in Task, CueStop(t) PROVE RunnerInv'
    BY <2>2 DEF CueStop
  <2>3. CASE routeCueNext
    <3>1. cueIndex' \in Cues /\ cueIndex' < cueCount
      BY <2>3, NextIndex DEF routeCueNext
    <3>2. job' \in [Task -> Job]
      BY <2>3, <3>1 DEF routeCueNext
    <3> QED
      BY <2>3, <3>1, <3>2 DEF routeCueNext
  <2>4. ASSUME NEW c \in 1 .. MAX_CUES, routeCueCount(c) PROVE RunnerInv'
    <3>1. cueIndex' \in Cues /\ cueIndex' < c
      BY <2>4 DEF routeCueCount, Cues
    <3> QED
      BY <2>4, <3>1 DEF routeCueCount
  <2>5. ASSUME NEW i \in Cues, NEW step \in Step, routeCueSet(i, step) PROVE RunnerInv'
    BY <2>5 DEF routeCueSet
  <2> QED
    BY <1>7, <2>1, <2>2, <2>3, <2>4, <2>5 DEF Commands, Task
<1>8. CASE UNCHANGED vars
  BY <1>8 DEF vars
<1> QED
  BY <1>1, <1>2, <1>3, <1>4, <1>5, <1>6, <1>7, <1>8 DEF Next

\* Whatever the loop task and the web task do to the runner, and wherever either of
\* them stands, its state keeps its type and its index is a step of the list
\* (tickCueEngine, routeCueNext, routeCueCount).
THEOREM RunnerSafe == Spec => []RunnerInv
<1>1. Init => RunnerInv
  BY InitRunner
<1>2. RunnerInv /\ [Next]_vars => RunnerInv'
  BY NextRunner
<1> QED
  BY <1>1, <1>2, PTL DEF Spec

\* Away from a wrap of millis(), the time to cueNextMs is what is left of the hold of the
\* step on show, until that is over: the due time never falls behind the step.
DueWithShow ==
  ~onShow.wraps => onShow.age >= onShow.hold \/ cueNextMs - clock = onShow.hold - onShow.age

HoldInv == RunnerInv /\ DueWithShow

\* A number below n is its own remainder by n (no wrap of the uint32_t).
LEMMA ModIdentity ==
  ASSUME NEW a \in Nat, NEW n \in Nat \ {0}, a < n
  PROVE  a % n = a
  OBVIOUS

\* Every step of either task keeps the due time with the step on show.
LEMMA NextHold == HoldInv /\ [Next]_vars => DueWithShow'
<1> SUFFICES ASSUME HoldInv, [Next]_vars PROVE DueWithShow'
  OBVIOUS
<1> USE CueAssumption DEF HoldInv, RunnerInv, TypeOK
<1>1. /\ clock \in Nat /\ cueNextMs \in Nat /\ clock < U32 /\ cueNextMs < U32
      /\ onShow \in OnShow /\ onShow.hold \in Nat /\ onShow.age \in Nat
  BY DEF Instant, OnShow
<1>2. CASE ClockTick
  <2>1. CASE onShow.age < onShow.hold
    <3>1. /\ onShow'.hold = onShow.hold /\ onShow'.wraps = onShow.wraps
          /\ onShow'.age = onShow.age + 1 /\ cueNextMs' = cueNextMs
      BY <1>1, <1>2, <2>1 DEF ClockTick, cueVars, OnShow
    <3>2. ASSUME ~onShow.wraps PROVE clock' = clock + 1
      <4>1. clock + 1 < U32
        BY <1>1, <2>1, <3>2 DEF DueWithShow
      <4>2. (clock + 1) % U32 = clock + 1
        <5>1. clock + 1 \in Nat
          BY <1>1
        <5> QED
          BY <4>1, <5>1, ModIdentity
      <4> QED
        BY <1>2, <4>2 DEF ClockTick
    <3> QED
      BY <1>1, <2>1, <3>1, <3>2 DEF DueWithShow
  <2>2. CASE ~(onShow.age < onShow.hold)
    BY <1>1, <1>2, <2>2 DEF ClockTick, DueWithShow
  <2> QED
    BY <2>1, <2>2
<1>3. ASSUME NEW t \in Task, TriggerStart(t) PROVE DueWithShow'
  <2> DEFINE hold == job[t].fade + job[t].dwell
  <2>1. job[t].fade \in Nat /\ job[t].dwell \in Nat /\ hold \in Nat
    BY DEF Job
  <2>2. /\ onShow' = [hold |-> hold, age |-> 0, wraps |-> clock + hold >= U32]
        /\ cueNextMs' = (clock + job[t].fade + job[t].dwell) % U32 /\ clock' = clock
    BY <1>3 DEF TriggerStart, ShowFrom
  <2>3. clock + job[t].fade + job[t].dwell = clock + hold
    BY <1>1, <2>1
  <2>4. CASE clock + hold < U32
    <3>1. cueNextMs' = clock + hold
      BY <1>1, <2>1, <2>2, <2>3, <2>4, ModIdentity
    <3> QED
      BY <1>1, <2>1, <2>2, <3>1 DEF DueWithShow
  <2>5. CASE clock + hold >= U32
    BY <2>2, <2>5 DEF DueWithShow
  <2> QED
    BY <1>1, <2>1, <2>4, <2>5
<1>4. CASE UNCHANGED <<clock, cueNextMs, onShow>>
  BY <1>4 DEF DueWithShow
<1> QED
  BY <1>2, <1>3, <1>4
     DEF Next, vars, cueVars, SampleNow, tickCueEngine, TriggerRead, LockTimeout, Commands,
         CueRun, CueStop, routeCueNext, routeCueCount, routeCueSet

\* Away from a wrap of millis() the runner never decides on the next step before the fade
\* and the dwell of the one on show are over, whichever task started it and whatever is
\* edited meanwhile (tickCueEngine, triggerCueStep).
THEOREM HoldTimeKept == Spec => HoldTime
<1>1. Init => HoldInv
  BY InitRunner DEF Init, HoldInv, DueWithShow
<1>2. HoldInv /\ [Next]_vars => HoldInv'
  BY NextRunner, NextHold DEF HoldInv
<1>3. HoldInv => [tickCueEngine /\ Due /\ ~onShow.wraps /\ loopNow <= clock
                  => onShow.age >= onShow.hold]_vars
  <2> SUFFICES ASSUME HoldInv, Due, ~onShow.wraps, loopNow <= clock
               PROVE  onShow.age >= onShow.hold
    OBVIOUS
  <2>1. /\ clock \in Nat /\ cueNextMs \in Nat /\ loopNow \in Nat
        /\ onShow.hold \in Nat /\ onShow.age \in Nat
    BY CueAssumption DEF HoldInv, RunnerInv, TypeOK, Instant, OnShow
  <2> QED
    BY <2>1 DEF HoldInv, DueWithShow, Due
<1> QED
  BY <1>1, <1>2, <1>3, PTL DEF Spec, HoldTime
=============================================================================
