----------------------------- MODULE CueRunner ------------------------------
(***************************************************************************)
(* The cue runner of src/main.cpp: tickCueEngine and triggerCueStep, and   *)
(* the routes and the OSC message that command it.                         *)
(*                                                                         *)
(* A cue step is decided in one critical section, read in a second one,    *)
(* its scene is loaded from flash with gLock released, and its fade starts *)
(* in a third one.  The loop task (tickCueEngine, OSC) and the web task    *)
(* (/cue/run, /cue/next) both go through these sections; job[t] is where   *)
(* task t stands and what it carries on its stack.  What a fade does to    *)
(* the lights is in LightEngine; the scene number of a step is data the    *)
(* runner never looks at, and is left out.                                 *)
(*                                                                         *)
(* The unit of time is one iteration of loop(): the clock moves on only    *)
(* after the loop has sampled it.                                          *)
(***************************************************************************)
EXTENDS Integers

CONSTANTS
  MAX_CUES,       \* size of the cue list (16)
  U32,            \* number of values of millis() (2^32)
  Horizon,        \* bound: the clock stops here; at least U32 lets it wrap for ever
  BootCues,       \* cueCount that initVjDefaults sets (4)
  Dwells, Fades,  \* dwell and fade times that are tried
  WebCommands,    \* subset of {"run", "stop", "next", "count", "set"}
  OscCommands     \* subset of {"run", "stop"}

ASSUME CueAssumption ==
  /\ MAX_CUES \in Nat \ {0}
  /\ U32 \in Nat \ {0}
  /\ Horizon \in Nat
  /\ BootCues \in 1 .. MAX_CUES
  /\ Dwells \subseteq Nat
  /\ Fades \subseteq Nat
  /\ WebCommands \subseteq {"run", "stop", "next", "count", "set"}
  /\ OscCommands \subseteq {"run", "stop"}

VARIABLES
  clock,          \* millis()
  sampled,        \* has loop() read this instant?
  loopNow,        \* now of loop()
  cueCount, cueIndex, cueRunning, cueNextMs,
  cueList,        \* dwellMs and fadeMs of every step
  job,            \* where each task stands in a cue step
  onShow          \* history: the last step that was started, and for how long it shows

cueVars == <<cueCount, cueIndex, cueRunning, cueNextMs, cueList>>
vars == <<clock, sampled, loopNow, cueVars, job, onShow>>

Task == {"loop", "web"}
Cues == 0 .. MAX_CUES - 1
Instant == 0 .. U32 - 1
Step == [dwell : Dwells, fade : Fades]

\* "tick": loop() is about to call tickCueEngine; "read": triggerCueStep(idx) is
\* about to read step idx; "start": it is about to start the fade of what it read.
Job == [pc : {"idle", "tick", "read", "start"}, idx : Cues, fade : Nat, dwell : Nat]
Idle == [pc |-> "idle", idx |-> 0, fade |-> 0, dwell |-> 0]
Read(i) == [Idle EXCEPT !.pc = "read", !.idx = i]

\* hold is fade + dwell of the step on show, age the time since it was started,
\* counted up to hold, wraps says whether its end lies beyond the wrap of millis();
\* a runner that has never shown a step has no hold.
OnShow == [hold : Nat, age : Nat, wraps : BOOLEAN]

TypeOK ==
  /\ clock \in Instant
  /\ sampled \in BOOLEAN
  /\ loopNow \in Instant
  /\ cueCount \in 1 .. MAX_CUES
  /\ cueIndex \in Cues
  /\ cueRunning \in BOOLEAN
  /\ cueNextMs \in Instant
  /\ cueList \in [Cues -> Step]
  /\ job \in [Task -> Job]
  /\ onShow \in OnShow

Init ==
  /\ clock = 0 /\ sampled = FALSE /\ loopNow = 0
  /\ cueCount = BootCues /\ cueIndex = 0 /\ cueRunning = FALSE /\ cueNextMs = 0
  /\ \E s \in Step : cueList = [i \in Cues |-> s]
  /\ job = [t \in Task |-> Idle]
  /\ onShow = [hold |-> 0, age |-> 0, wraps |-> FALSE]

ShowFrom(hold) == [hold |-> hold, age |-> 0, wraps |-> clock + hold >= U32]

Free(t) == job[t].pc = "idle"

ClockTick ==
  /\ sampled
  /\ clock < Horizon
  /\ clock' = (clock + 1) % U32
  /\ sampled' = FALSE
  /\ onShow' = IF onShow.age < onShow.hold THEN [onShow EXCEPT !.age = @ + 1] ELSE onShow
  /\ UNCHANGED <<loopNow, cueVars, job>>

-----------------------------------------------------------------------------
(* The loop task.                                                           *)

\* const uint32_t now = millis(), just before tickCueEngine(now)
SampleNow ==
  /\ Free("loop")
  /\ loopNow' = clock
  /\ sampled' = TRUE
  /\ job' = [job EXCEPT !["loop"].pc = "tick"]
  /\ UNCHANGED <<clock, cueVars, onShow>>

\* mutant: runs on when it has been stopped
DueWhenStopped == loopNow >= cueNextMs

\* mutant: the due instant itself is not due
DueStrict == cueRunning /\ loopNow > cueNextMs

Due == cueRunning /\ loopNow >= cueNextMs

\* mutant: the index runs over the end of the list before it is taken modulo
tickCueEngineNoWrap ==
  /\ job["loop"].pc = "tick"
  /\ \/ /\ Due
        /\ cueIndex' = (cueIndex + 1) % (cueCount + 1)
        /\ job' = [job EXCEPT !["loop"] = Read(cueIndex')]
     \/ /\ ~Due
        /\ job' = [job EXCEPT !["loop"] = Idle]
        /\ UNCHANGED cueIndex
  /\ UNCHANGED <<clock, sampled, loopNow, cueCount, cueRunning, cueNextMs, cueList, onShow>>

\* the critical section of tickCueEngine
tickCueEngine ==
  /\ job["loop"].pc = "tick"
  /\ \/ /\ Due
        /\ cueIndex' = (cueIndex + 1) % cueCount
        /\ job' = [job EXCEPT !["loop"] = Read(cueIndex')]
     \/ /\ ~Due
        /\ job' = [job EXCEPT !["loop"] = Idle]
        /\ UNCHANGED cueIndex
  /\ UNCHANGED <<clock, sampled, loopNow, cueCount, cueRunning, cueNextMs, cueList, onShow>>

-----------------------------------------------------------------------------
(* triggerCueStep, on either task.                                          *)

\* its first critical section: the step is copied, unless the list has been shortened
TriggerRead(t) ==
  /\ job[t].pc = "read"
  /\ job' = IF job[t].idx >= cueCount THEN [job EXCEPT ![t] = Idle]
            ELSE [job EXCEPT ![t].pc = "start",
                             ![t].fade = cueList[job[t].idx].fade,
                             ![t].dwell = cueList[job[t].idx].dwell]
  /\ UNCHANGED <<clock, sampled, loopNow, cueVars, onShow>>

\* mutant: the hold time is forgotten
TriggerStartNoDwell(t) ==
  /\ job[t].pc = "start"
  /\ cueNextMs' = (clock + job[t].fade) % U32
  /\ onShow' = ShowFrom(job[t].fade + job[t].dwell)
  /\ job' = [job EXCEPT ![t] = Idle]
  /\ UNCHANGED <<clock, sampled, loopNow, cueCount, cueIndex, cueRunning, cueList>>

\* its second critical section, after loadScene: startFade_locked, and the next due time
TriggerStart(t) ==
  /\ job[t].pc = "start"
  /\ cueNextMs' = (clock + job[t].fade + job[t].dwell) % U32
  /\ onShow' = ShowFrom(job[t].fade + job[t].dwell)
  /\ job' = [job EXCEPT ![t] = Idle]
  /\ UNCHANGED <<clock, sampled, loopNow, cueCount, cueIndex, cueRunning, cueList>>

\* a timed xSemaphoreTake fails: the task gives the step up
LockTimeout(t) ==
  /\ ~Free(t)
  /\ job' = [job EXCEPT ![t] = Idle]
  /\ UNCHANGED <<clock, sampled, loopNow, cueVars, onShow>>

-----------------------------------------------------------------------------
(* Commands.                                                                *)

\* routeCueRun, OSC /cue/run with a value that is not 0 (cueCount is never 0)
CueRun(t) ==
  /\ Free(t)
  /\ cueRunning' = TRUE
  /\ cueIndex' = 0
  /\ job' = [job EXCEPT ![t] = Read(0)]
  /\ UNCHANGED <<clock, sampled, loopNow, cueCount, cueNextMs, cueList, onShow>>

\* the same with en=0
CueStop(t) ==
  /\ Free(t)
  /\ cueRunning' = FALSE
  /\ UNCHANGED <<clock, sampled, loopNow, cueCount, cueIndex, cueNextMs, cueList, job,
                 onShow>>

\* routeCueNext: the runner need not be running
routeCueNext ==
  /\ Free("web")
  /\ cueIndex' = (cueIndex + 1) % cueCount
  /\ job' = [job EXCEPT !["web"] = Read(cueIndex')]
  /\ UNCHANGED <<clock, sampled, loopNow, cueCount, cueRunning, cueNextMs, cueList, onShow>>

\* mutant: the index is left alone when the list is shortened
routeCueCountNoReset(c) ==
  /\ Free("web")
  /\ cueCount' = c
  /\ UNCHANGED <<clock, sampled, loopNow, cueIndex, cueRunning, cueNextMs, cueList, job,
                 onShow>>

routeCueCount(c) ==
  /\ Free("web")
  /\ cueCount' = c
  /\ cueIndex' = IF cueIndex >= c THEN 0 ELSE cueIndex
  /\ UNCHANGED <<clock, sampled, loopNow, cueRunning, cueNextMs, cueList, job, onShow>>

routeCueSet(i, step) ==
  /\ Free("web")
  /\ cueList' = [cueList EXCEPT ![i] = step]
  /\ UNCHANGED <<clock, sampled, loopNow, cueCount, cueIndex, cueRunning, cueNextMs, job,
                 onShow>>

Commands ==
  \/ "run" \in WebCommands /\ CueRun("web")
  \/ "stop" \in WebCommands /\ CueStop("web")
  \/ "run" \in OscCommands /\ CueRun("loop")
  \/ "stop" \in OscCommands /\ CueStop("loop")
  \/ "next" \in WebCommands /\ routeCueNext
  \/ "count" \in WebCommands /\ \E c \in 1 .. MAX_CUES : routeCueCount(c)
  \/ "set" \in WebCommands /\ \E i \in Cues, step \in Step : routeCueSet(i, step)

Next ==
  \/ ClockTick
  \/ SampleNow
  \/ tickCueEngine
  \/ \E t \in Task : TriggerRead(t) \/ TriggerStart(t) \/ LockTimeout(t)
  \/ Commands

Spec == Init /\ [][Next]_vars

(* Fairness: loop() runs for ever and time passes; gLock is held for short  *)
(* sections only, so a section that is tried again and again is entered.    *)
(* That a due step is decided assumes that the time between cueNextMs and   *)
(* the wrap of millis() is longer than a run of lock timeouts: true but for *)
(* a due time in the last milliseconds before a wrap.                       *)
Fairness ==
  /\ WF_vars(ClockTick)
  /\ SF_vars(SampleNow)
  /\ SF_vars(tickCueEngine) /\ SF_vars(Due /\ tickCueEngine)
  /\ \A t \in Task : SF_vars(TriggerRead(t)) /\ SF_vars(TriggerStart(t))

FairSpec == Spec /\ Fairness

-----------------------------------------------------------------------------
(* Properties.                                                              *)

\* However the list is shortened while either task moves the runner, the current
\* step is a step of the list (routeCueCount, tickCueEngine, routeCueNext): the
\* index that triggerCueStep is handed can only go stale, never be out of range.
IndexInRange == cueIndex < cueCount

\* The runner stays in its type and on a step of its list, whichever task moves it.
RunnerInv == TypeOK /\ IndexInRange

\* The runner never decides on the next step before the fade and the dwell ("hold time
\* after fade") of the one on show are over, whoever started it and whatever is edited
\* meanwhile.  Holds away from a wrap of millis(): for a step whose end does not lie
\* beyond one, decided on by a loop() whose now does not lie before one.
HoldTime ==
  [][tickCueEngine /\ Due /\ ~onShow.wraps /\ loopNow <= clock
     => onShow.age >= onShow.hold]_vars

\* A runner that is left running shows one step after the other for ever, although a
\* critical section may time out at any point, unless the length of its list is changed
\* for ever too (a step that was decided on may each time be cut off the list).
StepStarts == \E t \in Task : TriggerStart(t)
ListEdited == \E c \in 1 .. MAX_CUES : routeCueCount(c)
CueAdvances ==
  <>[]cueRunning => []<><<StepStarts>>_vars \/ []<><<ListEdited>>_vars

\* A runner that is stopped falls silent: after the one step that may already have
\* been decided, the loop task starts no more.
StopSettles == <>[]~cueRunning => <>[][~TriggerStart("loop")]_vars

=============================================================================
