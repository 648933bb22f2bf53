---------------------------- MODULE RdmDiscovery ----------------------------
(***************************************************************************)
(* RDM discovery of lib/esp_dmx: the search of the controller              *)
(* (rdm/controller/discovery.c, rdm_discover_with_callback) and the        *)
(* answers of the responders (rdm/responder/discovery.c,                   *)
(* rdm_rhd_discovery), on a bus that loses and garbles packets.            *)
(*                                                                         *)
(* A UID is a number: the manufacturer above DEV_BITS bits of device.  The *)
(* controller waits for the answer of each request, so a request, what the *)
(* responders do with it and the answer are one step, and the faults are   *)
(* among its outcomes.                                                     *)
(***************************************************************************)
EXTENDS Integers, Sequences, FiniteSets

CONSTANTS
  MAN_BITS, DEV_BITS,   \* bits of a UID (16 and 32)
  STACK,                \* branches that the stack holds (49)
  ATTEMPTS,             \* times a request without an answer is sent (3)
  MaxDevices,           \* bound: devices on the bus
  MaxFaults             \* bound: faults of the bus in a behaviour

ASSUME DiscoveryAssumption ==
  /\ {MAN_BITS, DEV_BITS, STACK, ATTEMPTS} \subseteq Nat \ {0}
  /\ STACK >= MAN_BITS + DEV_BITS + 1
  /\ MaxDevices \in Nat /\ MaxFaults \in Nat

DevCount == 2 ^ DEV_BITS
RDM_UID_MAX == 2 ^ (MAN_BITS + DEV_BITS) - 2
Uid == 0 .. RDM_UID_MAX
rdm_uid_is_broadcast(uid) == uid % DevCount = DevCount - 1

\* rdm_uid_is_target: the device itself, or the broadcast address of its manufacturer
rdm_uid_is_target(uid, alias) ==
  uid = alias \/ (rdm_uid_is_broadcast(alias) /\ uid \div DevCount = alias \div DevCount)

VARIABLES
  present,    \* UIDs of the devices on the bus
  muted,      \* of those, the ones whose mute parameter is set
  pc,         \* where the search stands
  stack, stack_size,
  branch,     \* the branch popped last
  attempts, ack, found,
  faults,     \* history: faults of the bus
  unsent,     \* history: has a request been dropped before it was sent?
  unheard     \* history: devices that missed the un-mute request

vars == <<present, muted, pc, stack, stack_size, branch, attempts, ack, found,
          faults, unsent, unheard>>
bus == <<present, muted, faults, unsent, unheard>>

AckType == {"NONE", "ACK", "INVALID"}
Branch == [lo : Nat, hi : Nat]
Ack == [type : AckType, src : Uid]

TypeOK ==
  /\ present \subseteq Uid /\ muted \subseteq present
  /\ pc \in {"un_mute", "pop", "branch", "mute", "split", "report", "done"}
  /\ stack \in [0 .. STACK - 1 -> Branch] /\ stack_size \in Nat
  /\ branch \in Branch /\ attempts \in 0 .. ATTEMPTS
  /\ ack \in Ack /\ found \in Seq(Uid)
  /\ faults \in 0 .. MaxFaults /\ unsent \in BOOLEAN /\ unheard \subseteq Uid

\* Some devices are still muted from an earlier discovery; ack is uninitialised.
Init ==
  /\ present \in {s \in SUBSET {u \in Uid : ~rdm_uid_is_broadcast(u)} : Cardinality(s) <= MaxDevices}
  /\ muted \in SUBSET present
  /\ pc = "un_mute"
  /\ stack = [i \in 0 .. STACK - 1 |-> [lo |-> 0, hi |-> RDM_UID_MAX]]
  /\ stack_size = 1
  /\ branch = [lo |-> 0, hi |-> RDM_UID_MAX]
  /\ attempts = 0
  /\ ack \in [type : AckType, src : {0}]
  /\ found = <<>>
  /\ faults = 0 /\ unsent = FALSE /\ unheard = {}

-----------------------------------------------------------------------------
(* The bus and the responders                                              *)

\* A step with n faults.
Fault(n) == faults + n <= MaxFaults /\ faults' = faults + n

\* Who answers RDM_PID_DISC_UNIQUE_BRANCH
Answers(lo, hi) == {u \in present \ muted : lo <= u /\ u <= hi}

\* What the controller makes of the answers that arrive; several that collide may be
\* garbled, or one of them read.
Received(s) ==
  IF s = {} THEN {[type |-> "NONE", src |-> 0]}
  ELSE {[type |-> "ACK", src |-> u] : u \in s}
       \union (IF Cardinality(s) > 1 THEN {[type |-> "INVALID", src |-> 0]} ELSE {})

\* One exchange of RDM_PID_DISC_UNIQUE_BRANCH: the answers arrive, are lost or garbled.
BranchExchange ==
  /\ \/ Fault(0) /\ ack' \in Received(Answers(branch.lo, branch.hi))
     \/ Fault(1) /\ ack' = [type |-> "NONE", src |-> 0]
     \/ Fault(1) /\ ack' = [type |-> "INVALID", src |-> 0]
  /\ UNCHANGED <<present, muted, unsent, unheard>>

\* One exchange of RDM_PID_DISC_MUTE: the request, or its answer, may be lost or
\* garbled; a request to a broadcast address has no answer.
MuteExchange ==
  LET targets == {u \in present : rdm_uid_is_target(u, branch.lo)}
      answer == IF rdm_uid_is_broadcast(branch.lo) THEN {} ELSE targets IN
  /\ \/ Fault(0) /\ muted' = muted \union targets /\ ack' \in Received(answer)
     \/ Fault(1) /\ muted' = muted /\ ack' = [type |-> "NONE", src |-> 0]
     \/ /\ Fault(1) /\ muted' = muted \union targets
        /\ ack' \in [type : {"NONE", "INVALID"}, src : {0}]
  /\ UNCHANGED <<present, unsent, unheard>>

\* rdm_send_request returns before it sends, when the port is still sending after 23 ms:
\* ack is not written.
NotSent ==
  /\ Fault(1) /\ unsent' = TRUE
  /\ UNCHANGED <<ack, present, muted, unheard>>

\* A device is unplugged.
Leave ==
  /\ pc # "done"
  /\ Fault(1)
  /\ \E u \in present : present' = present \ {u} /\ muted' = muted \ {u}
  /\ UNCHANGED <<pc, stack, stack_size, branch, attempts, ack, found, unsent, unheard>>

-----------------------------------------------------------------------------
(* rdm_discover_with_callback                                              *)

\* Un-mute all devices; not repeated, and not answered.
UnMute ==
  /\ pc = "un_mute"
  /\ \E s \in SUBSET muted :
       /\ Fault(IF s = muted THEN 0 ELSE 1)
       /\ muted' = muted \ s /\ unheard' = muted \ s
  /\ pc' = "pop"
  /\ UNCHANGED <<present, stack, stack_size, branch, attempts, ack, found, unsent>>

Pop ==
  /\ pc = "pop"
  /\ IF stack_size = 0
     THEN pc' = "done" /\ UNCHANGED <<stack_size, branch, attempts>>
     ELSE LET b == stack[stack_size - 1] IN
          /\ stack_size' = stack_size - 1
          /\ branch' = b /\ attempts' = 0
          /\ pc' = IF b.lo = b.hi THEN "mute" ELSE "branch"
  /\ UNCHANGED <<stack, ack, found, bus>>

\* mutant: the attempts are not counted
RepeatAlways(fail) == fail

\* mutant: a request is sent once
RepeatNever(fail) == FALSE

\* The loop of attempts: is the request sent again?
Repeat(fail) == fail /\ attempts + 1 < ATTEMPTS

SendBranch ==
  /\ pc = "branch"
  /\ BranchExchange \/ NotSent
  /\ LET fail == ack'.type = "NONE" IN
     /\ attempts' = IF fail THEN attempts + 1 ELSE attempts
     /\ pc' = IF Repeat(fail) THEN "branch" ELSE IF fail THEN "pop" ELSE "split"
  /\ UNCHANGED <<stack, stack_size, branch, found>>

SendMute ==
  /\ pc = "mute"
  /\ MuteExchange \/ NotSent
  /\ LET fail == ack'.type # "ACK" IN
     /\ attempts' = IF fail THEN attempts + 1 ELSE attempts
     /\ pc' = IF Repeat(fail) THEN "mute" ELSE IF fail THEN "pop" ELSE "report"
  /\ UNCHANGED <<stack, stack_size, branch, found>>

\* mutant: the middle is in both halves
SplitOverlap(b) ==
  LET mid == (b.lo + b.hi) \div 2 IN
  <<[lo |-> mid, hi |-> b.hi], [lo |-> b.lo, hi |-> mid]>>

\* mutant: the branch is split at its end
SplitLast(b) == <<[lo |-> b.hi, hi |-> b.hi], [lo |-> b.lo, hi |-> b.hi - 1]>>

\* The two halves: the upper one, handled second, and the lower one
Halves(b) ==
  LET mid == (b.lo + b.hi) \div 2 IN
  <<[lo |-> mid + 1, hi |-> b.hi], [lo |-> b.lo, hi |-> mid]>>

\* mutant: the halves are pushed above the branch they come from
PushedAbove(b, n) == [stack EXCEPT ![n + 1] = Halves(b)[1], ![n] = Halves(b)[2]]

\* The halves are pushed at n and n + 1.
Pushed(b, n) == [stack EXCEPT ![n] = Halves(b)[1], ![n + 1] = Halves(b)[2]]

Split ==
  /\ pc = "split"
  /\ stack' = Pushed(branch, stack_size)
  /\ stack_size' = stack_size + 2
  /\ pc' = "pop"
  /\ UNCHANGED <<branch, attempts, ack, found, bus>>

\* The callback is called with the UID of the answer.
Report ==
  /\ pc = "report"
  /\ found' = Append(found, ack.src)
  /\ pc' = "pop"
  /\ UNCHANGED <<stack, stack_size, branch, attempts, ack, bus>>

Done == pc = "done" /\ UNCHANGED vars

Next == UnMute \/ Pop \/ SendBranch \/ SendMute \/ Split \/ Report \/ Leave \/ Done

\* The search is one task; every call in it ends.
Fairness == WF_vars(UnMute \/ Pop \/ SendBranch \/ SendMute \/ Split \/ Report)

Spec == Init /\ [][Next]_vars /\ Fairness

-----------------------------------------------------------------------------
(* What discovery promises                                                 *)

\* rdm_disc_cb and rdm_discover_devices_simple keep the first num UIDs.
Reported == {found[i] : i \in DOMAIN found}

(* "The max binary tree depth is 49": whatever the answers are, collisions, noise
   and answers from empty branches included, the stack of 49 branches (one more than
   a UID has bits) never overflows. *)
StackFits == stack_size <= MAN_BITS + DEV_BITS + 1 /\ stack_size <= STACK

(* The branches still to be searched are disjoint and in order: an address is
   searched at most once. *)
BranchesDisjoint ==
  \A i, j \in 0 .. stack_size - 1 : i < j => stack[j].hi < stack[i].lo

(* A device is reported once, although answers collide,
   are lost or are garbled; unless a request was dropped before it was sent, which
   leaves the ack of an earlier request to be read. *)
FoundOnce == ~unsent => Len(found) = Cardinality(Reported)

\* The search at every step: a stack within its bound, branches that share no address,
\* and no device reported twice.
SearchInv == TypeOK /\ StackFits /\ BranchesDisjoint /\ FoundOnce

(* Two lost or garbled answers never hide a device: when the search ends, every
   device that heard the un-mute request and is still there was reported (no
   request having been dropped before it was sent). *)
Complete ==
  pc = "done" /\ ~unsent /\ faults < ATTEMPTS => present \ unheard \subseteq Reported

(* The search ends, however the bus answers. *)
Ends == <>(pc = "done")
=============================================================================
