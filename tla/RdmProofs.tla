----------------------------- MODULE RdmProofs -----------------------------
(***************************************************************************)
(* Proofs about RDM.                                                       *)
(*                                                                         *)
(* Discovery, the controller's side: for UIDs of any width, any devices    *)
(* and whatever the bus does with the answers, the stack of branches does  *)
(* not overflow, no device is reported twice, and none is missed that      *)
(* fewer faults than a request has attempts could have hidden.             *)
(*                                                                         *)
(* The responder: for every table of parameters, size of the queue and     *)
(* versions of the firmware, a value that was set is not forgotten, the    *)
(* personality exists, a muted device is silent, and the queue holds every *)
(* PID once.                                                               *)
(***************************************************************************)
EXTENDS RdmDiscovery, RdmResponder, SequenceTheorems, FiniteSetTheorems, TLAPS


Bits == MAN_BITS + DEV_BITS
Pending == 0 .. stack_size - 1

\* A branch was popped and is worked on.
Busy == pc \in {"branch", "mute", "split", "report"}
Within(u, b) == b.lo <= u /\ u <= b.hi
Heard == present \ unheard

\* The branch at place i was halved i times at least.
StackOK ==
  /\ stack_size <= Bits + 1
  /\ \A i \in Pending : /\ stack[i].lo <= stack[i].hi
                        /\ stack[i].hi - stack[i].lo < 2 ^ (Bits - i)
  /\ pc = "done" => stack_size = 0

\* The branch that is worked on lies below those on the stack; it is halved when it is
\* wider than one address, and muted when it is not.
BranchOK ==
  Busy =>
    /\ stack_size <= Bits
    /\ branch.hi - branch.lo < 2 ^ (Bits - stack_size)
    /\ IF pc \in {"branch", "split"} THEN branch.lo < branch.hi ELSE branch.lo = branch.hi
    /\ \A i \in Pending : branch.hi < stack[i].lo
    /\ pc \in {"branch", "mute"} => attempts < ATTEMPTS

\* UIDs are reported in ascending order, and all that is pending is above them.
FoundOK ==
  ~unsent =>
    /\ \A i, j \in DOMAIN found : i < j => found[i] < found[j]
    /\ \A i \in DOMAIN found : /\ \A j \in Pending : found[i] < stack[j].lo
                               /\ Busy => found[i] < branch.lo
    /\ pc = "report" => ack.src = branch.lo

\* A device that heard the un-mute request answers until its own branch is muted.
MutedOK ==
  pc # "un_mute" =>
    \A u \in Heard :
      /\ \A i \in Pending : Within(u, stack[i]) => u \notin muted
      /\ pc \in {"branch", "split"} /\ Within(u, branch) => u \notin muted

\* A request that a device would answer was repeated only because of faults.
AttemptsOK ==
  pc \in {"branch", "mute"} /\ ~unsent /\ (\E u \in Heard : Within(u, branch)) => attempts <= faults

\* A device was reported, or its branch is pending.
CoverOK ==
  pc # "un_mute" /\ ~unsent /\ faults < ATTEMPTS =>
    \A u \in Heard : \/ u \in Reported
                     \/ \E i \in Pending : Within(u, stack[i])
                     \/ Busy /\ Within(u, branch)

\* Nobody has a broadcast address; before the un-mute request nothing was asked.
BusOK ==
  /\ \A u \in present : ~rdm_uid_is_broadcast(u)
  /\ pc = "un_mute" => /\ stack_size = 1 /\ stack[0] = [lo |-> 0, hi |-> RDM_UID_MAX]
                       /\ found = << >>

\* The inductive invariant.
Inv == TypeOK /\ StackOK /\ BranchesDisjoint /\ BranchOK /\ FoundOK /\ MutedOK /\ AttemptsOK
       /\ CoverOK /\ BusOK

-----------------------------------------------------------------------------
(* Arithmetic.                                                              *)

\* The powers of two, counted as the subsets of an interval: each is positive, and the
\* next one is twice as large.
LEMMA TwoPower ==
  ASSUME NEW n \in Nat
  PROVE  2 ^ n \in Nat \ {0} /\ 2 ^ (n + 1) = 2 * 2 ^ n
<1> DEFINE A == SUBSET (1 .. n)
           B == {X \cup {n + 1} : X \in A}
<1>1. /\ IsFiniteSet(1 .. n) /\ Cardinality(1 .. n) = n
      /\ IsFiniteSet(1 .. n + 1) /\ Cardinality(1 .. n + 1) = n + 1
  BY FS_Interval
<1>2. IsFiniteSet(A) /\ Cardinality(A) = 2 ^ n /\ Cardinality(SUBSET (1 .. n + 1)) = 2 ^ (n + 1)
  BY <1>1, FS_SUBSET
<1>3. A \cup B = SUBSET (1 .. n + 1) /\ A \cap B = {}
  <2>1. A \cup B \subseteq SUBSET (1 .. n + 1)
    <3>1. 1 .. n \subseteq 1 .. n + 1 /\ n + 1 \in 1 .. n + 1
      OBVIOUS
    <3> QED
      BY <3>1
  <2>2. ASSUME NEW Y \in SUBSET (1 .. n + 1) PROVE Y \in A \cup B
    <3>1. CASE n + 1 \in Y
      <4>1. Y \ {n + 1} \in A /\ Y = (Y \ {n + 1}) \cup {n + 1}
        BY <3>1
      <4> QED
        BY <4>1
    <3>2. CASE n + 1 \notin Y
      BY <3>2
    <3> QED
      BY <3>1, <3>2
  <2>3. A \cap B = {}
    OBVIOUS
  <2> QED
    BY <2>1, <2>2, <2>3
<1>4. IsFiniteSet(B) /\ Cardinality(B) = Cardinality(A)
  <2> DEFINE f == [X \in A |-> X \cup {n + 1}]
  <2>1. \A X \in A : n + 1 \notin X
    OBVIOUS
  <2>2. \A X, Y \in A : f[X] = f[Y] => X = Y
    BY <2>1
  <2>3. f \in [A -> B] /\ \A Y \in B : \E X \in A : f[X] = Y
    OBVIOUS
  <2> HIDE DEF A, B, f
  <2>4. f \in Bijection(A, B)
    BY <2>2, <2>3 DEF Bijection, Injection, Surjection, IsInjective
  <2> QED
    BY <1>2, <2>4, FS_Bijection DEF ExistsBijection
<1>5. Cardinality(A) \in Nat /\ Cardinality(A) # 0
  <2>1. {} \in A
    OBVIOUS
  <2> QED
    BY <1>2, <2>1, FS_CardinalityType, FS_EmptySet
<1>6. Cardinality(A \cup B) = Cardinality(A) + Cardinality(B) - Cardinality(A \cap B)
  BY <1>2, <1>4, FS_Union
<1> HIDE DEF A, B
<1>7. Cardinality(A \cup B) = Cardinality(SUBSET (1 .. n + 1)) /\ Cardinality(A \cap B) = 0
  BY <1>3, FS_EmptySet, Zenon
<1>8. 2 ^ (n + 1) = Cardinality(A) + Cardinality(A)
  BY <1>2, <1>4, <1>5, <1>6, <1>7
<1> QED
  BY <1>2, <1>5, <1>8

\* The halves of a branch: below its middle and above, half as wide at most.
LEMMA HalvesFacts ==
  ASSUME NEW b \in Branch, NEW n \in Nat, b.lo < b.hi, b.hi - b.lo < 2 ^ (n + 1)
  PROVE  LET upper == Halves(b)[1]
             lower == Halves(b)[2]
         IN  /\ upper \in Branch /\ lower \in Branch
             /\ lower.lo = b.lo /\ upper.lo = lower.hi + 1 /\ upper.hi = b.hi
             /\ lower.lo <= lower.hi /\ upper.lo <= upper.hi
             /\ lower.hi - lower.lo < 2 ^ n /\ upper.hi - upper.lo < 2 ^ n
<1> DEFINE mid == (b.lo + b.hi) \div 2
<1>1. 2 ^ n \in Nat /\ 2 ^ (n + 1) = 2 * 2 ^ n
  BY TwoPower
<1>2. b.lo \in Nat /\ b.hi \in Nat /\ mid \in Nat
  BY DEF Branch
<1>3. 2 * mid <= b.lo + b.hi /\ b.lo + b.hi <= 2 * mid + 1
  BY <1>2
<1>4. Halves(b)[1] = [lo |-> mid + 1, hi |-> b.hi] /\ Halves(b)[2] = [lo |-> b.lo, hi |-> mid]
  BY DEF Halves
<1> HIDE DEF mid
<1> QED
  BY <1>1, <1>2, <1>3, <1>4 DEF Branch

\* Quotient and remainder.
LEMMA DivMod ==
  ASSUME NEW a \in Nat, NEW d \in Nat \ {0}
  PROVE  /\ a \div d \in Nat /\ a % d \in 0 .. d - 1
         /\ a = d * (a \div d) + (a % d)
  OBVIOUS

\* A request to an address reaches no device above it, and a device alone unless the
\* address is a broadcast address.
LEMMA TargetFacts ==
  ASSUME NEW u \in Uid, NEW a \in Nat, rdm_uid_is_target(u, a)
  PROVE  u <= a /\ (u = a \/ rdm_uid_is_broadcast(a))
<1>1. DevCount \in Nat \ {0}
  BY TwoPower, DiscoveryAssumption DEF DevCount
<1>2. u \in Nat
  BY DEF Uid
<1>3. CASE u = a
  BY <1>2, <1>3
<1>4. CASE rdm_uid_is_broadcast(a) /\ u \div DevCount = a \div DevCount
  <2> DEFINE D == DevCount
             p == D * (u \div D)
             r == u % D
  <2>1. u = p + r /\ r \in 0 .. D - 1 /\ p \in Int
    BY <1>1, <1>2, DivMod
  <2>2. a = D * (a \div D) + (a % D)
    BY <1>1, DivMod
  <2>3. a = p + (D - 1)
    BY <1>4, <2>2 DEF rdm_uid_is_broadcast
  <2> HIDE DEF D, p, r
  <2>4. u <= a
    BY <1>1, <2>1, <2>3 DEF D
  <2> QED
    BY <1>4, <2>4
<1> QED
  BY <1>3, <1>4 DEF rdm_uid_is_target

\* The bits of a UID are numbers, and the largest UID is not the first.
LEMMA BitsFacts == /\ Bits \in Nat /\ Bits >= 2 /\ STACK \in Nat /\ STACK >= Bits + 1
                   /\ RDM_UID_MAX \in Nat /\ RDM_UID_MAX < 2 ^ Bits
                   /\ ATTEMPTS \in Nat /\ ATTEMPTS > 0 /\ MaxFaults \in Nat
<1>1. /\ Bits \in Nat /\ Bits >= 2 /\ STACK \in Nat /\ STACK >= Bits + 1
      /\ ATTEMPTS \in Nat /\ ATTEMPTS > 0 /\ MaxFaults \in Nat
  BY DiscoveryAssumption DEF Bits
<1>2. 2 ^ (Bits - 1) \in Nat \ {0} /\ 2 ^ ((Bits - 1) + 1) = 2 * 2 ^ (Bits - 1)
  BY <1>1, TwoPower
<1>3. (Bits - 1) + 1 = Bits
  BY <1>1
<1> QED
  BY <1>1, <1>2, <1>3 DEF RDM_UID_MAX, Bits

-----------------------------------------------------------------------------
(* The invariant is kept.                                                   *)

\* Before the un-mute request all addresses are pending.
LEMMA InitSearch == Init => Inv
<1> SUFFICES ASSUME Init PROVE Inv
  OBVIOUS
<1> USE BitsFacts
<1>1. TypeOK
  <2>1. stack \in [0 .. STACK - 1 -> Branch] /\ branch \in Branch /\ stack_size \in Nat
    BY DEF Init, Branch
  <2>2. ack \in Ack /\ found \in Seq(Uid)
    BY DEF Init, Ack, Uid
  <2>3. attempts \in 0 .. ATTEMPTS /\ faults \in 0 .. MaxFaults
    BY DEF Init
  <2> QED
    BY <2>1, <2>2, <2>3 DEF Init, TypeOK
<1>2. stack_size = 1 /\ stack[0] = [lo |-> 0, hi |-> RDM_UID_MAX] /\ found = << >> /\ pc = "un_mute"
  BY DEF Init
<1>3. Pending = {0}
  BY <1>2 DEF Pending
<1>4. StackOK
  <2>1. Bits - 0 = Bits
    OBVIOUS
  <2> QED
    BY <1>2, <1>3, <2>1 DEF StackOK
<1>5. BranchesDisjoint
  BY <1>2, <1>3 DEF BranchesDisjoint, Pending
<1>6. BranchOK /\ FoundOK /\ MutedOK /\ AttemptsOK /\ CoverOK
  BY <1>2 DEF BranchOK, FoundOK, MutedOK, AttemptsOK, CoverOK, Busy
<1>7. BusOK
  BY <1>2 DEF Init, BusOK
<1> QED
  BY <1>1, <1>4, <1>5, <1>6, <1>7 DEF Inv

\* Every device on the bus that hears the request can answer again.
LEMMA UnMuteKeeps ==
  ASSUME Inv, UnMute
  PROVE  Inv'
<1> USE BitsFacts
<1>0. TypeOK /\ StackOK /\ BranchesDisjoint /\ BusOK
  BY DEF Inv
<1>1. PICK s \in SUBSET muted : /\ Fault(IF s = muted THEN 0 ELSE 1)
                                /\ muted' = muted \ s /\ unheard' = muted \ s
  BY DEF UnMute
<1>2. faults' \in 0 .. MaxFaults
  BY <1>0, <1>1 DEF Fault, TypeOK
<1>3. TypeOK'
  BY <1>0, <1>1, <1>2 DEF TypeOK, UnMute
<1>4. /\ pc' = "pop" /\ stack' = stack /\ stack_size' = stack_size /\ Pending' = {0} /\ found' = << >>
      /\ stack[0] = [lo |-> 0, hi |-> RDM_UID_MAX] /\ Pending' = Pending
  BY <1>0 DEF UnMute, BusOK, Pending
<1>5. StackOK' /\ BranchesDisjoint' /\ BranchOK' /\ FoundOK' /\ AttemptsOK' /\ BusOK'
  BY <1>0, <1>4 DEF StackOK, BranchesDisjoint, Pending, BranchOK, FoundOK, AttemptsOK, BusOK, Busy,
     UnMute, TypeOK
<1>6. Heard' \cap muted' = {} /\ Heard' \subseteq Uid
  BY <1>0, <1>1 DEF Heard, UnMute, TypeOK
<1>7. MutedOK'
  BY <1>4, <1>6 DEF MutedOK
<1>8. CoverOK'
  BY <1>4, <1>6 DEF CoverOK, Within, Uid
<1> QED
  BY <1>3, <1>5, <1>7, <1>8 DEF Inv

\* The branch on top is the lowest one; it takes its place in what is covered.
LEMMA PopKeeps ==
  ASSUME Inv, Pop
  PROVE  Inv'
<1> USE BitsFacts
<1>0. /\ TypeOK /\ StackOK /\ BranchesDisjoint /\ FoundOK /\ MutedOK /\ CoverOK /\ BusOK
      /\ pc = "pop" /\ stack' = stack /\ found' = found /\ unsent' = unsent /\ faults' = faults
      /\ Heard' = Heard /\ muted' = muted /\ Reported' = Reported /\ present' = present
  BY DEF Inv, Pop, bus, Heard, Reported
<1>1. CASE stack_size = 0
  <2>1. pc' = "done" /\ stack_size' = 0 /\ branch' = branch /\ attempts' = attempts
    BY <1>1 DEF Pop
  <2>2. TypeOK'
    BY <1>0, <2>1 DEF TypeOK, Pop, bus
  <2>3. Pending' = Pending /\ ~Busy /\ ~Busy'
    BY <1>0, <1>1, <2>1 DEF Pending, Busy
  <2>4. StackOK' /\ BranchesDisjoint' /\ BranchOK' /\ FoundOK' /\ MutedOK' /\ AttemptsOK' /\ CoverOK'
        /\ BusOK'
    BY <1>0, <1>1, <2>1, <2>3 DEF StackOK, BranchesDisjoint, BranchOK, FoundOK, MutedOK, AttemptsOK,
       CoverOK, BusOK, Pending
  <2> QED
    BY <2>2, <2>4 DEF Inv
<1>2. CASE stack_size # 0
  <2> DEFINE n == stack_size - 1
             b == stack[n]
  <2>1. /\ n \in Nat /\ n <= Bits /\ n \in Pending /\ n \in 0 .. STACK - 1 /\ b \in Branch
    BY <1>0, <1>2 DEF TypeOK, StackOK, Pending
  <2>2. /\ stack_size' = n /\ branch' = b /\ attempts' = 0
        /\ pc' = (IF b.lo = b.hi THEN "mute" ELSE "branch")
    BY <1>2 DEF Pop
  <2>3. /\ Pending = Pending' \cup {n} /\ n \notin Pending' /\ Busy' /\ pc' \in {"mute", "branch"}
        /\ \A i \in Pending' : i \in Pending /\ i < n
    BY <1>0, <2>1, <2>2 DEF Pending, Busy, TypeOK
  <2>4. TypeOK'
    BY <1>0, <2>1, <2>2, <2>3 DEF TypeOK, Pop, bus
  <2>5. /\ b.lo <= b.hi /\ b.hi - b.lo < 2 ^ (Bits - n)
    BY <1>0, <2>1 DEF StackOK
  <2>6. \A i \in Pending' : b.hi < stack[i].lo
    BY <1>0, <2>1, <2>3 DEF BranchesDisjoint, Pending
  <2> HIDE DEF n, b
  <2>7. StackOK'
    BY <1>0, <2>1, <2>2, <2>3 DEF StackOK
  <2>8. BranchesDisjoint'
    BY <1>0, <2>3 DEF BranchesDisjoint, Pending
  <2>9. BranchOK'
    BY <1>0, <2>1, <2>2, <2>3, <2>5, <2>6 DEF BranchOK, Branch
  <2>10. FoundOK'
    BY <1>0, <2>1, <2>2, <2>3 DEF FoundOK, b
  <2>11. MutedOK'
    BY <1>0, <2>1, <2>2, <2>3 DEF MutedOK, b
  <2>12. AttemptsOK'
    BY <1>0, <2>2 DEF AttemptsOK, TypeOK
  <2>13. CoverOK'
    BY <1>0, <2>1, <2>2, <2>3 DEF CoverOK, Busy, b
  <2>14. BusOK'
    BY <1>0, <2>3 DEF BusOK
  <2> QED
    BY <2>4, <2>7, <2>8, <2>9, <2>10, <2>11, <2>12, <2>13, <2>14 DEF Inv
<1> QED
  BY <1>1, <1>2

\* A branch that is halved is still covered, and each half is half as wide at most.
LEMMA SplitKeeps ==
  ASSUME Inv, Split
  PROVE  Inv'
<1> USE BitsFacts
<1>0. /\ TypeOK /\ StackOK /\ BranchesDisjoint /\ BranchOK /\ FoundOK /\ MutedOK /\ CoverOK /\ BusOK
      /\ pc = "split" /\ pc' = "pop" /\ found' = found /\ unsent' = unsent /\ faults' = faults
      /\ Heard' = Heard /\ muted' = muted /\ Reported' = Reported /\ present' = present
      /\ Busy /\ ~Busy'
  BY DEF Inv, Split, bus, Heard, Reported, Busy
<1> DEFINE n == stack_size
           upper == Halves(branch)[1]
           lower == Halves(branch)[2]
<1>1. /\ n \in Nat /\ n <= Bits /\ branch.lo < branch.hi /\ branch \in Branch
      /\ branch.hi - branch.lo < 2 ^ (Bits - n) /\ \A i \in Pending : branch.hi < stack[i].lo
  BY <1>0 DEF BranchOK, TypeOK
<1>2. n < Bits
  <2>1. CASE n = Bits
    <3>1. Bits - n = 0 /\ 2 ^ 0 = 1
      BY <2>1
    <3>2. 2 ^ (Bits - n) = 1
      BY <3>1, Zenon
    <3> QED
      BY <1>1, <3>2 DEF Branch
  <2> QED
    BY <1>1, <2>1
<1>3. /\ upper \in Branch /\ lower \in Branch
      /\ lower.lo = branch.lo /\ upper.lo = lower.hi + 1 /\ upper.hi = branch.hi
      /\ lower.lo <= lower.hi /\ upper.lo <= upper.hi
      /\ lower.hi - lower.lo < 2 ^ (Bits - n - 1) /\ upper.hi - upper.lo < 2 ^ (Bits - n - 1)
  <2>1. Bits - n - 1 \in Nat /\ (Bits - n - 1) + 1 = Bits - n
    BY <1>1, <1>2
  <2> QED
    BY <1>1, <2>1, HalvesFacts
<1>4. /\ stack' = [stack EXCEPT ![n] = upper, ![n + 1] = lower] /\ stack_size' = n + 2
      /\ branch' = branch
  BY DEF Split, Pushed
<1> HIDE DEF upper, lower
<1>5. /\ n \in 0 .. STACK - 1 /\ n + 1 \in 0 .. STACK - 1 /\ Pending' = Pending \cup {n, n + 1}
      /\ Pending \subseteq 0 .. STACK - 1 /\ \A i \in Pending : i \in Nat /\ i < n
  BY <1>1, <1>2, <1>4 DEF Pending
<1>6. /\ stack' \in [0 .. STACK - 1 -> Branch] /\ stack'[n] = upper /\ stack'[n + 1] = lower
      /\ \A i \in Pending : stack'[i] = stack[i]
  BY <1>0, <1>1, <1>3, <1>4, <1>5 DEF TypeOK
<1>b. \A i \in Pending : stack[i] \in Branch
  BY <1>0, <1>5 DEF TypeOK
<1>7. TypeOK'
  BY <1>0, <1>1, <1>4, <1>6 DEF TypeOK, Split, bus
<1>8. StackOK'
  <2>1. 2 ^ (Bits - n) = 2 * 2 ^ (Bits - n - 1) /\ 2 ^ (Bits - n - 1) \in Nat
    <3>1. Bits - n - 1 \in Nat /\ (Bits - n - 1) + 1 = Bits - n
      BY <1>1, <1>2
    <3> QED
      BY <3>1, TwoPower
  <2>2. Bits - (n + 1) = Bits - n - 1
    BY <1>1
  <2>3. ASSUME NEW i \in Pending' PROVE stack'[i].lo <= stack'[i].hi /\ stack'[i].hi - stack'[i].lo < 2 ^ (Bits - i)
    <3>1. CASE i \in Pending
      BY <1>0, <1>6, <3>1 DEF StackOK
    <3>2. CASE i = n
      <4>1. upper.hi - upper.lo < 2 ^ (Bits - n)
        BY <1>3, <2>1 DEF Branch
      <4> QED
        BY <1>3, <1>6, <3>2, <4>1
    <3>3. CASE i = n + 1
      BY <1>3, <1>6, <2>2, <3>3
    <3> QED
      BY <1>5, <3>1, <3>2, <3>3
  <2>4. stack_size' <= Bits + 1 /\ pc' # "done"
    BY <1>0, <1>1, <1>2, <1>4
  <2> QED
    BY <2>3, <2>4 DEF StackOK
<1>9. BranchesDisjoint'
  <2>1. \A i, j \in Pending' : i < j => stack'[j].hi < stack'[i].lo
    <3>1. \A i, j \in Pending : i < j => stack'[j].hi < stack'[i].lo
      BY <1>0, <1>6 DEF BranchesDisjoint, Pending
    <3>2. \A i \in Pending : upper.hi < stack[i].lo /\ lower.hi < stack[i].lo
      BY <1>1, <1>3, <1>b DEF Branch
    <3>3. lower.hi < upper.lo
      BY <1>3 DEF Branch
    <3> QED
      BY <1>1, <1>5, <1>6, <3>1, <3>2, <3>3
  <2> QED
    BY <2>1 DEF BranchesDisjoint, Pending
<1>10. BranchOK' /\ AttemptsOK' /\ BusOK'
  BY <1>0 DEF BranchOK, AttemptsOK, BusOK, Busy
<1>11. FoundOK'
  <2>1. \A i \in DOMAIN found : found[i] \in Nat
    BY <1>0 DEF TypeOK, Uid
  <2>2. ASSUME ~unsent, NEW i \in DOMAIN found PROVE \A j \in Pending' : found[i] < stack'[j].lo
    <3>1. found[i] < branch.lo /\ \A j \in Pending : found[i] < stack[j].lo
      BY <1>0, <2>2 DEF FoundOK
    <3>2. found[i] < upper.lo /\ found[i] < lower.lo
      BY <1>1, <1>3, <2>1, <3>1 DEF Branch
    <3> QED
      BY <1>5, <1>6, <3>1, <3>2
  <2> QED
    BY <1>0, <2>2 DEF FoundOK
<1>12. \A u \in Heard : Within(u, branch) <=> Within(u, lower) \/ Within(u, upper)
  <2>1. Heard \subseteq Nat
    BY <1>0 DEF Heard, TypeOK, Uid
  <2>2. /\ branch.lo \in Nat /\ branch.hi \in Nat /\ lower.hi \in Nat
        /\ lower.lo = branch.lo /\ upper.lo = lower.hi + 1 /\ upper.hi = branch.hi
        /\ lower.lo <= lower.hi /\ upper.lo <= upper.hi
    BY <1>1, <1>3 DEF Branch
  <2> HIDE DEF lower, upper
  <2>3. ASSUME NEW u \in Heard
        PROVE  Within(u, branch) <=> Within(u, lower) \/ Within(u, upper)
    BY <2>1, <2>2 DEF Within
  <2> QED
    BY <2>3
<1>13. MutedOK'
  BY <1>0, <1>5, <1>6, <1>12 DEF MutedOK
<1>14. CoverOK'
  BY <1>0, <1>5, <1>6, <1>12 DEF CoverOK
<1> QED
  BY <1>7, <1>8, <1>9, <1>10, <1>11, <1>13, <1>14 DEF Inv

\* What no exchange touches: the stack, the branch and what was found.
LEMMA ExchangeKeeps ==
  ASSUME Inv, pc \in {"branch", "mute"}, Busy' \/ pc' = "pop", pc' \notin {"un_mute", "done"},
         UNCHANGED <<stack, stack_size, branch, found, present, unheard>>
  PROVE  /\ StackOK' /\ BranchesDisjoint' /\ BusOK'
         /\ Pending' = Pending /\ Heard' = Heard /\ Reported' = Reported
         /\ \A u : Within(u, branch)' <=> Within(u, branch)
         /\ \A u : \A i \in Pending : Within(u, stack[i])' <=> Within(u, stack[i])
<1>1. Pending' = Pending /\ Heard' = Heard /\ Reported' = Reported
  BY DEF Pending, Heard, Reported
<1>2. StackOK' /\ BranchesDisjoint' /\ BusOK'
  BY <1>1 DEF Inv, StackOK, BranchesDisjoint, BusOK, Pending
<1> QED
  BY <1>1, <1>2 DEF Within

\* What the controller reads is one of the answers, noise, or nothing where nobody answers.
LEMMA ReceivedFacts ==
  ASSUME NEW s \in SUBSET Uid, NEW a \in Received(s)
  PROVE  /\ a \in Ack
         /\ a.type = "ACK" => a.src \in s
         /\ a.type = "NONE" => s = {}
         /\ \A u : s = {u} => a.type = "ACK"
<1>0. 0 \in Uid
  BY BitsFacts DEF Uid
<1>1. CASE s = {}
  <2>1. a = [type |-> "NONE", src |-> 0]
    BY <1>1 DEF Received
  <2> QED
    BY <1>0, <1>1, <2>1 DEF Ack, AckType
<1>2. CASE s # {} /\ \E u \in s : a = [type |-> "ACK", src |-> u]
  BY <1>2 DEF Ack, AckType
<1>3. CASE s # {} /\ Cardinality(s) > 1 /\ a = [type |-> "INVALID", src |-> 0]
  <2>1. \A u : s = {u} => Cardinality(s) = 1
    BY FS_Singleton
  <2> QED
    BY <1>0, <1>3, <2>1 DEF Ack, AckType
<1> QED
  BY <1>1, <1>2, <1>3 DEF Received

\* A branch is given up after as many attempts as there were faults, when somebody is
\* in it to answer.
LEMMA SendBranchKeeps ==
  ASSUME Inv, SendBranch
  PROVE  Inv'
<1> USE BitsFacts
<1>0. /\ TypeOK /\ BranchOK /\ FoundOK /\ MutedOK /\ AttemptsOK /\ CoverOK /\ BusOK
      /\ pc = "branch" /\ Busy /\ attempts < ATTEMPTS /\ attempts \in Nat /\ faults \in Nat
  BY DEF Inv, SendBranch, Busy, BranchOK, TypeOK
<1>1. /\ UNCHANGED <<stack, stack_size, branch, found, present, unheard, muted>>
      /\ ack' \in Ack /\ faults' \in faults .. MaxFaults /\ unsent' \in BOOLEAN /\ (unsent => unsent')
      /\ ack'.type = "NONE" /\ faults' = faults /\ ~unsent' => Answers(branch.lo, branch.hi) = {}
  <2>0. UNCHANGED <<stack, stack_size, branch, found, present, unheard, muted>>
    BY DEF SendBranch, BranchExchange, NotSent
  <2>1. CASE NotSent
    BY <1>0, <2>0, <2>1 DEF NotSent, Fault, TypeOK
  <2>2. CASE BranchExchange /\ Fault(0) /\ ack' \in Received(Answers(branch.lo, branch.hi))
    <3>1. Answers(branch.lo, branch.hi) \in SUBSET Uid
      BY <1>0 DEF Answers, TypeOK
    <3> QED
      BY <1>0, <2>0, <2>2, <3>1, ReceivedFacts DEF BranchExchange, Fault, TypeOK
  <2>3. CASE BranchExchange /\ Fault(1) /\ ack' \in [type : {"NONE", "INVALID"}, src : {0}]
    <3>1. ack' \in Ack
      BY <2>3 DEF Ack, AckType, Uid
    <3> QED
      BY <1>0, <2>0, <2>3, <3>1 DEF BranchExchange, Fault, TypeOK
  <2> QED
    BY <2>1, <2>2, <2>3 DEF SendBranch, BranchExchange
<1>2. /\ pc' \in {"branch", "pop", "split"} /\ attempts' \in 0 .. ATTEMPTS
      /\ pc' = "branch" => attempts' = attempts + 1 /\ attempts' < ATTEMPTS /\ ack'.type = "NONE"
      /\ pc' = "pop" => attempts + 1 >= ATTEMPTS /\ ack'.type = "NONE"
  BY <1>0 DEF SendBranch, Repeat
<1>3. /\ StackOK' /\ BranchesDisjoint' /\ BusOK'
      /\ Pending' = Pending /\ Heard' = Heard /\ Reported' = Reported
      /\ Busy' <=> pc' # "pop"
  BY <1>0, <1>1, <1>2, ExchangeKeeps DEF Busy
<1>4. TypeOK'
  BY <1>0, <1>1, <1>2 DEF TypeOK
<1>5. BranchOK'
  BY <1>0, <1>1, <1>2, <1>3 DEF BranchOK
<1>6. FoundOK'
  BY <1>0, <1>1, <1>2, <1>3 DEF FoundOK
<1>7. MutedOK'
  BY <1>0, <1>1, <1>2, <1>3 DEF MutedOK
<1>8. ASSUME ~unsent', ack'.type = "NONE", NEW u \in Heard, Within(u, branch) PROVE attempts + 1 <= faults'
  <2>1. u \in Answers(branch.lo, branch.hi)
    BY <1>0, <1>8 DEF MutedOK, Heard, Answers, Within
  <2>2. faults' # faults
    BY <1>1, <1>8, <2>1
  <2>3. attempts <= faults
    BY <1>0, <1>1, <1>8 DEF AttemptsOK
  <2> QED
    BY <1>0, <1>1, <2>2, <2>3
<1>9. AttemptsOK'
  BY <1>1, <1>2, <1>3, <1>8 DEF AttemptsOK
<1>10. CoverOK'
  <2> SUFFICES ASSUME ~unsent', faults' < ATTEMPTS, NEW u \in Heard
               PROVE  \/ u \in Reported
                      \/ \E i \in Pending : Within(u, stack[i])
                      \/ Busy' /\ Within(u, branch)
    BY <1>1, <1>3 DEF CoverOK
  <2>1. \/ u \in Reported
        \/ \E i \in Pending : Within(u, stack[i])
        \/ Within(u, branch)
    BY <1>0, <1>1 DEF CoverOK
  <2>2. CASE Within(u, branch) /\ pc' = "pop"
    BY <1>0, <1>1, <1>2, <1>8, <2>2
  <2> QED
    BY <1>3, <2>1, <2>2
<1> QED
  BY <1>3, <1>4, <1>5, <1>6, <1>7, <1>9, <1>10 DEF Inv

\* Muting an address silences no device that is still pending, and who answers is the
\* device at that address.
LEMMA SendMuteKeeps ==
  ASSUME Inv, SendMute
  PROVE  Inv'
<1> USE BitsFacts
<1> DEFINE targets == {u \in present : rdm_uid_is_target(u, branch.lo)}
           answer == IF rdm_uid_is_broadcast(branch.lo) THEN {} ELSE targets
<1>0. /\ TypeOK /\ BranchOK /\ FoundOK /\ MutedOK /\ AttemptsOK /\ CoverOK /\ BusOK
      /\ pc = "mute" /\ Busy /\ attempts < ATTEMPTS /\ attempts \in Nat /\ faults \in Nat
      /\ branch \in Branch /\ branch.lo \in Nat /\ branch.lo = branch.hi
      /\ targets \in SUBSET Uid /\ answer \in SUBSET Uid
  BY DEF Inv, SendMute, Busy, BranchOK, TypeOK, Branch
<1>1. \A u \in targets : u <= branch.lo
  BY <1>0, TargetFacts
<1>2. \A u \in answer : u = branch.lo
  BY <1>0, TargetFacts
<1>3. branch.lo \in present => answer = {branch.lo}
  BY <1>0, <1>2 DEF BusOK, rdm_uid_is_target
<1> HIDE DEF targets, answer
<1>4. /\ UNCHANGED <<stack, stack_size, branch, found, present, unheard>>
      /\ muted' \in {muted, muted \cup targets}
      /\ ack' \in Ack /\ faults' \in faults .. MaxFaults /\ unsent' \in BOOLEAN /\ (unsent => unsent')
      /\ ~unsent' /\ ack'.type = "ACK" => ack'.src = branch.lo
      /\ ~unsent' /\ ack'.type # "ACK" /\ faults' = faults => branch.lo \notin present
  <2>0. UNCHANGED <<stack, stack_size, branch, found, present, unheard>>
    BY DEF SendMute, MuteExchange, NotSent
  <2>1. CASE NotSent
    BY <1>0, <2>0, <2>1 DEF NotSent, Fault, TypeOK
  <2>2. CASE MuteExchange /\ Fault(0) /\ muted' = muted \cup targets /\ ack' \in Received(answer)
    <3>1. /\ ack' \in Ack
          /\ ack'.type = "ACK" => ack'.src \in answer
          /\ \A u : answer = {u} => ack'.type = "ACK"
      BY <1>0, <2>2, ReceivedFacts
    <3>2. branch.lo \in present => ack'.type = "ACK"
      BY <1>3, <3>1
    <3>3. unsent' = unsent /\ unsent \in BOOLEAN
      BY <1>0, <2>2 DEF MuteExchange, TypeOK
    <3> QED
      BY <1>0, <1>2, <2>0, <2>2, <3>1, <3>2, <3>3 DEF Fault, TypeOK
  <2>3. CASE /\ MuteExchange /\ Fault(1) /\ muted' \in {muted, muted \cup targets}
             /\ ack' \in [type : {"NONE", "INVALID"}, src : {0}]
    <3>1. ack' \in Ack /\ ack'.type # "ACK"
      BY <2>3 DEF Ack, AckType, Uid
    <3> QED
      BY <1>0, <2>0, <2>3, <3>1 DEF MuteExchange, Fault, TypeOK
  <2> QED
    BY <2>1, <2>2, <2>3 DEF SendMute, MuteExchange, targets, answer
<1>5. /\ pc' \in {"mute", "pop", "report"} /\ attempts' \in 0 .. ATTEMPTS
      /\ pc' = "mute" => attempts' = attempts + 1 /\ attempts' < ATTEMPTS /\ ack'.type # "ACK"
      /\ pc' = "pop" => attempts + 1 >= ATTEMPTS /\ ack'.type # "ACK"
      /\ pc' = "report" => ack'.type = "ACK"
  BY <1>0 DEF SendMute, Repeat
<1>6. /\ StackOK' /\ BranchesDisjoint' /\ BusOK'
      /\ Pending' = Pending /\ Heard' = Heard /\ Reported' = Reported
      /\ Busy' <=> pc' # "pop"
  BY <1>0, <1>4, <1>5, ExchangeKeeps DEF Busy
<1>7. TypeOK'
  BY <1>0, <1>4, <1>5 DEF TypeOK, targets
<1>8. BranchOK'
  BY <1>0, <1>4, <1>5, <1>6 DEF BranchOK
<1>9. FoundOK'
  BY <1>0, <1>4, <1>5, <1>6 DEF FoundOK
<1>10. MutedOK'
  <2> SUFFICES ASSUME NEW u \in Heard, NEW i \in Pending, Within(u, stack[i]) PROVE u \notin muted'
    BY <1>4, <1>5, <1>6 DEF MutedOK
  <2>1. u \notin muted
    BY <1>0 DEF MutedOK
  <2>2. branch.lo < u
    <3>1. branch.lo < stack[i].lo /\ stack[i].lo <= u
      BY <1>0 DEF BranchOK, Within
    <3>2. u \in Nat
      BY <1>0 DEF Heard, TypeOK, Uid
    <3>3. stack[i].lo \in Nat
      <4>1. i \in 0 .. STACK - 1
        BY <1>0 DEF Pending, BranchOK, TypeOK
      <4> QED
        BY <1>0, <4>1 DEF TypeOK, Branch
    <3> QED
      BY <1>0, <3>1, <3>2, <3>3
  <2>3. u \notin targets
    <3>1. u \in Nat
      BY <1>0 DEF Heard, TypeOK, Uid
    <3> QED
      BY <1>0, <1>1, <2>2, <3>1
  <2> QED
    BY <1>4, <2>1, <2>3
<1>11. ASSUME ~unsent', ack'.type # "ACK", NEW u \in Heard, Within(u, branch) PROVE attempts + 1 <= faults'
  <2>1. u = branch.lo
    <3>1. u \in Nat
      BY <1>0 DEF Heard, TypeOK, Uid
    <3> QED
      BY <1>0, <1>11, <3>1 DEF Within
  <2>2. faults' # faults
    BY <1>4, <1>11, <2>1 DEF Heard
  <2>3. attempts <= faults
    BY <1>0, <1>4, <1>11 DEF AttemptsOK
  <2> QED
    BY <1>0, <1>4, <2>2, <2>3
<1>12. AttemptsOK'
  BY <1>4, <1>5, <1>6, <1>11 DEF AttemptsOK
<1>13. CoverOK'
  <2> SUFFICES ASSUME ~unsent', faults' < ATTEMPTS, NEW u \in Heard
               PROVE  \/ u \in Reported
                      \/ \E i \in Pending : Within(u, stack[i])
                      \/ Busy' /\ Within(u, branch)
    BY <1>4, <1>6 DEF CoverOK
  <2>1. \/ u \in Reported
        \/ \E i \in Pending : Within(u, stack[i])
        \/ Within(u, branch)
    BY <1>0, <1>4 DEF CoverOK
  <2>2. CASE Within(u, branch) /\ pc' = "pop"
    BY <1>0, <1>4, <1>5, <1>11, <2>2
  <2> QED
    BY <1>6, <2>1, <2>2
<1> QED
  BY <1>6, <1>7, <1>8, <1>9, <1>10, <1>12, <1>13 DEF Inv

\* What is reported lies above what was found before and below what is pending.
LEMMA ReportKeeps ==
  ASSUME Inv, Report
  PROVE  Inv'
<1> USE BitsFacts
<1>0. /\ TypeOK /\ StackOK /\ BranchesDisjoint /\ BranchOK /\ FoundOK /\ MutedOK /\ CoverOK /\ BusOK
      /\ pc = "report" /\ pc' = "pop" /\ unsent' = unsent /\ faults' = faults /\ branch' = branch
      /\ Heard' = Heard /\ muted' = muted /\ present' = present /\ stack' = stack /\ Busy /\ ~Busy'
      /\ Pending' = Pending /\ stack_size' = stack_size
  BY DEF Inv, Report, bus, Heard, Busy, Pending
<1>1. /\ found' = Append(found, ack.src) /\ found \in Seq(Uid) /\ ack.src \in Uid
  BY <1>0 DEF Report, TypeOK, Ack
<1>2. /\ found' \in Seq(Uid) /\ DOMAIN found' = DOMAIN found \cup {Len(found) + 1}
      /\ found'[Len(found) + 1] = ack.src
      /\ \A i \in DOMAIN found : i \in Nat /\ i <= Len(found) /\ found'[i] = found[i]
  BY <1>1
<1>3. TypeOK'
  BY <1>0, <1>2 DEF TypeOK, Report, bus
<1>4. StackOK' /\ BranchesDisjoint' /\ BranchOK' /\ MutedOK' /\ AttemptsOK' /\ BusOK'
  BY <1>0 DEF StackOK, BranchesDisjoint, BranchOK, MutedOK, AttemptsOK, BusOK, Pending
<1>5. Reported' = Reported \cup {ack.src}
  BY <1>2 DEF Reported
<1>6. FoundOK'
  <2> SUFFICES ASSUME ~unsent
               PROVE  /\ \A i, j \in DOMAIN found' : i < j => found'[i] < found'[j]
                      /\ \A i \in DOMAIN found' : \A j \in Pending : found'[i] < stack[j].lo
    BY <1>0 DEF FoundOK
  <2>1. /\ ack.src = branch.lo /\ branch.lo = branch.hi
        /\ \A j \in Pending : branch.hi < stack[j].lo
    BY <1>0 DEF FoundOK, BranchOK
  <2>2. /\ \A i \in DOMAIN found : found'[i] < ack.src
        /\ \A i, j \in DOMAIN found : i < j => found'[i] < found'[j]
        /\ \A i \in DOMAIN found, j \in Pending : found'[i] < stack[j].lo
    BY <1>0, <1>2, <2>1 DEF FoundOK
  <2>3. Len(found) \in Nat
    BY <1>1
  <2> QED
    BY <1>2, <2>1, <2>2, <2>3
<1>7. CoverOK'
  <2> SUFFICES ASSUME ~unsent, faults < ATTEMPTS, NEW u \in Heard
               PROVE  u \in Reported' \/ \E i \in Pending : Within(u, stack[i])
    BY <1>0 DEF CoverOK
  <2>1. \/ u \in Reported
        \/ \E i \in Pending : Within(u, stack[i])
        \/ Within(u, branch)
    BY <1>0 DEF CoverOK
  <2>2. CASE Within(u, branch)
    <3>1. u \in Nat /\ branch.lo \in Nat /\ branch.lo = branch.hi /\ ack.src = branch.lo
      BY <1>0 DEF Heard, TypeOK, Uid, Branch, BranchOK, FoundOK
    <3>2. u = ack.src
      BY <2>2, <3>1 DEF Within
    <3> QED
      BY <1>5, <3>2
  <2> QED
    BY <1>5, <2>1, <2>2
<1> QED
  BY <1>3, <1>4, <1>6, <1>7 DEF Inv

\* A device that is unplugged asks for nothing more.
LEMMA LeaveKeeps ==
  ASSUME Inv, Leave
  PROVE  Inv'
<1> USE BitsFacts
<1>0. TypeOK /\ StackOK /\ BranchesDisjoint /\ BranchOK /\ FoundOK /\ MutedOK /\ AttemptsOK /\ CoverOK /\ BusOK
  BY DEF Inv
<1>1. /\ UNCHANGED <<pc, stack, stack_size, branch, attempts, ack, found, unsent, unheard>>
      /\ present' \subseteq present /\ muted' \subseteq muted /\ muted' \subseteq present'
      /\ faults' = faults + 1 /\ faults' \in 0 .. MaxFaults /\ faults \in Nat /\ attempts \in Nat
  BY <1>0 DEF Leave, Fault, TypeOK
<1>2. /\ Pending' = Pending /\ Reported' = Reported /\ (Busy' <=> Busy) /\ Heard' \subseteq Heard
  BY <1>1 DEF Pending, Reported, Busy, Heard
<1>3. TypeOK'
  BY <1>0, <1>1 DEF TypeOK
<1>4. StackOK' /\ BranchesDisjoint' /\ BranchOK' /\ FoundOK' /\ BusOK'
  BY <1>0, <1>1, <1>2 DEF StackOK, BranchesDisjoint, BranchOK, FoundOK, BusOK, Pending
<1>5. MutedOK'
  BY <1>0, <1>1, <1>2 DEF MutedOK
<1>6. AttemptsOK'
  BY <1>0, <1>1, <1>2 DEF AttemptsOK
<1>7. CoverOK'
  BY <1>0, <1>1, <1>2 DEF CoverOK
<1> QED
  BY <1>3, <1>4, <1>5, <1>6, <1>7 DEF Inv

\* The invariant of the search.
LEMMA SearchInvariant == Spec => []Inv
<1>1. Inv /\ [Next]_vars => Inv'
  <2>1. Inv /\ UNCHANGED vars => Inv'
    BY DEF vars, Inv, TypeOK, StackOK, BranchesDisjoint, BranchOK, FoundOK, MutedOK, AttemptsOK,
       CoverOK, BusOK, Pending, Busy, Heard, Reported
  <2> QED
    BY <2>1, UnMuteKeeps, PopKeeps, SendBranchKeeps, SendMuteKeeps, SplitKeeps, ReportKeeps,
       LeaveKeeps DEF Next, Done
<1> QED
  BY <1>1, InitSearch, PTL DEF Spec

-----------------------------------------------------------------------------
(* Theorems.                                                                *)

\* A list in which no element comes twice is as long as the set of its elements.
LEMMA DistinctCount ==
  ASSUME TypeOK, \A i, j \in DOMAIN found : i < j => found[i] < found[j]
  PROVE  Len(found) = Cardinality(Reported)
<1>1. found \in Seq(Uid) /\ Len(found) \in Nat /\ DOMAIN found = 1 .. Len(found)
  BY DEF TypeOK
<1>2. IsFiniteSet(1 .. Len(found)) /\ Cardinality(1 .. Len(found)) = Len(found)
  BY <1>1, FS_Interval
<1>3. \A i, j \in DOMAIN found : found[i] = found[j] => i = j
  <2>1. \A i \in DOMAIN found : found[i] \in Nat /\ i \in Nat
    BY <1>1, BitsFacts DEF Uid
  <2> QED
    BY <2>1
<1>4. found \in [1 .. Len(found) -> Reported] /\ \A u \in Reported : \E i \in 1 .. Len(found) : found[i] = u
  BY <1>1 DEF Reported
<1>5. found \in Bijection(1 .. Len(found), Reported)
  BY <1>1, <1>3, <1>4 DEF Bijection, Injection, Surjection, IsInjective
<1> QED
  BY <1>2, <1>5, FS_Bijection DEF ExistsBijection

\* For UIDs of any width, any devices and whatever the bus makes of the answers, the
\* stack of rdm_discover_with_callback does not overflow, no address is searched twice
\* and no device is reported twice.
THEOREM SearchSafe == Spec => []SearchInv
<1>1. Inv => SearchInv
  <2> SUFFICES ASSUME Inv PROVE SearchInv
    OBVIOUS
  <2>1. TypeOK /\ StackOK /\ BranchesDisjoint /\ FoundOK
    BY DEF Inv
  <2>2. StackFits
    BY <2>1, BitsFacts DEF StackFits, StackOK, Bits, TypeOK
  <2>3. FoundOnce
    BY <2>1, DistinctCount DEF FoundOnce, FoundOK
  <2> QED
    BY <2>1, <2>2, <2>3 DEF SearchInv
<1> QED
  BY <1>1, SearchInvariant, PTL

\* Fewer faults than a request has attempts hide no device that heard the un-mute
\* request: when the search ends, all of them were reported.
THEOREM SearchComplete == Spec => []Complete
<1>1. Inv => Complete
  <2> SUFFICES ASSUME Inv, pc = "done", ~unsent, faults < ATTEMPTS PROVE Heard \subseteq Reported
    BY DEF Complete, Heard
  <2>1. Pending = {} /\ ~Busy
    BY DEF Inv, StackOK, Pending, Busy
  <2> QED
    BY <2>1 DEF Inv, CoverOK
<1> QED
  BY <1>1, SearchInvariant, PTL

-----------------------------------------------------------------------------
(* The responder: the table of its parameters.                               *)

\* Every registration of the library that this model has.
Declared ==
  {rdm_register_disc_unique_branch, rdm_register_disc_mute, rdm_register_disc_un_mute,
   rdm_register_device_info, rdm_register_software_version_label,
   rdm_register_manufacturer_label, rdm_register_device_model_description,
   rdm_register_device_label, rdm_register_identify_device, rdm_register_reset_device,
   rdm_register_dmx_start_address, rdm_register_dmx_personality,
   rdm_register_dmx_personality_description, rdm_register_device_hours,
   rdm_register_lamp_hours, rdm_register_queued_message,
   rdm_register_supported_parameters, rdm_register_parameter_description}

\* What dmx_driver_install and the application register is declared somewhere.
LEMMA WantedType ==
  ASSUME NEW extras
  PROVE  /\ Installs \in Seq(Declared) /\ Len(Installs) = 14
         /\ Installs[1] = rdm_register_disc_unique_branch
         /\ Installs[2] = rdm_register_disc_mute
         /\ Optional(extras) \in Seq(Declared)
<1>1. Installs \in Seq(Declared) /\ Len(Installs) = 14
  BY DEF Installs, Declared
<1>2. Installs[1] = rdm_register_disc_unique_branch /\ Installs[2] = rdm_register_disc_mute
  BY DEF Installs
<1> DEFINE Wanted(p) == IF p.pid \in extras THEN <<p>> ELSE << >>
<1>3. ASSUME NEW p \in Declared PROVE Wanted(p) \in Seq(Declared)
  OBVIOUS
<1> HIDE DEF Wanted
<1>4. /\ Wanted(rdm_register_device_model_description) \in Seq(Declared)
      /\ Wanted(rdm_register_device_hours) \in Seq(Declared)
      /\ Wanted(rdm_register_lamp_hours) \in Seq(Declared)
      /\ Wanted(rdm_register_reset_device) \in Seq(Declared)
  BY <1>3 DEF Declared
<1>5. Wanted(rdm_register_device_model_description) \o Wanted(rdm_register_device_hours)
      \o Wanted(rdm_register_lamp_hours) \o Wanted(rdm_register_reset_device)
        \in Seq(Declared)
  BY <1>4
<1> QED
  BY <1>1, <1>2, <1>5 DEF Optional, Wanted

\* The table of a device holds declared parameters, and with two entries or more it has
\* the first two that dmx_driver_install registers.
LEMMA EntriesType ==
  /\ Entries \in Seq(Declared)
  /\ Capacity >= 2 => /\ 1 \in DOMAIN Entries /\ Entries[1] = rdm_register_disc_unique_branch
                      /\ 2 \in DOMAIN Entries /\ Entries[2] = rdm_register_disc_mute
  /\ Capacity = 0 => DOMAIN Entries = {}
<1> DEFINE wanted == Installs \o Optional(Extras)
           n == IF Capacity < Len(wanted) THEN Capacity ELSE Len(wanted)
<1>1. /\ wanted \in Seq(Declared) /\ Len(wanted) >= 14 /\ Len(wanted) \in Nat
      /\ wanted[1] = rdm_register_disc_unique_branch /\ wanted[2] = rdm_register_disc_mute
  <2>1. ASSUME NEW s \in Seq(Declared), NEW t \in Seq(Declared), Len(s) = 14
        PROVE  /\ s \o t \in Seq(Declared) /\ Len(s \o t) = 14 + Len(t) /\ Len(t) \in Nat
               /\ (s \o t)[1] = s[1] /\ (s \o t)[2] = s[2]
    <3>1. Len(t) \in Nat
      OBVIOUS
    <3>2. /\ s \o t \in Seq(Declared) /\ Len(s \o t) = Len(s) + Len(t)
          /\ \A i \in 1 .. Len(s) + Len(t) :
               (s \o t)[i] = IF i <= Len(s) THEN s[i] ELSE t[i - Len(s)]
      BY ConcatProperties
    <3>3. 1 \in 1 .. Len(s) + Len(t) /\ 2 \in 1 .. Len(s) + Len(t)
      BY <2>1, <3>1
    <3> QED
      BY <2>1, <3>1, <3>2, <3>3
  <2>2. /\ Installs \in Seq(Declared) /\ Len(Installs) = 14 /\ Optional(Extras) \in Seq(Declared)
        /\ Installs[1] = rdm_register_disc_unique_branch
        /\ Installs[2] = rdm_register_disc_mute
    BY WantedType
  <2>3. Len(Optional(Extras)) \in Nat
    BY <2>2
  <2>4. 14 + Len(Optional(Extras)) >= 14
    BY <2>3
  <2> QED
    BY <2>1, <2>2, <2>3, <2>4
<1>2. Entries = SubSeq(wanted, 1, n)
  BY DEF Entries, Table
<1>3. n \in 0 .. Len(wanted)
  BY <1>1, ResponderAssumption
<1> HIDE DEF wanted
<1>4. ASSUME NEW s \in Seq(Declared), NEW m \in 0 .. Len(s)
      PROVE  /\ SubSeq(s, 1, m) \in Seq(Declared) /\ DOMAIN SubSeq(s, 1, m) = 1 .. m
             /\ \A i \in 1 .. m : SubSeq(s, 1, m)[i] = s[i]
  BY <1>4
<1>5. DOMAIN Entries = 1 .. n /\ \A i \in 1 .. n : Entries[i] = wanted[i]
  BY <1>1, <1>2, <1>3, <1>4
<1>6. Entries \in Seq(Declared)
  BY <1>1, <1>2, <1>3, <1>4
<1>7. Capacity >= 2 => n >= 2
  BY <1>1, ResponderAssumption
<1>8. Capacity = 0 => n = 0
  BY <1>1
<1> QED
  BY <1>1, <1>3, <1>5, <1>6, <1>7, <1>8

\* The entry of a registered PID is a declared one of that PID.
LEMMA EntryType ==
  ASSUME NEW pid \in Registered
  PROVE  Entry[pid] \in Declared /\ Entry[pid].pid = pid
<1>1. \E i \in DOMAIN Entries : Entries[i].pid = pid
  BY DEF Registered
<1> DEFINE i == CHOOSE i \in DOMAIN Entries : Entries[i].pid = pid
<1>2. i \in DOMAIN Entries /\ Entries[i].pid = pid
  BY <1>1
<1>3. Entry[pid] = Entries[i]
  BY DEF Entry
<1> HIDE DEF i
<1>4. Entries[i] \in Declared
  BY <1>2, EntriesType
<1> QED
  BY <1>2, <1>3, <1>4

\* What a parameter takes and which handlers it has goes with its PID.
LEMMA Classes ==
  ASSUME NEW e \in Declared
  PROVE  \/ /\ e.cc = "DISC" /\ e.get = "discovery"
            /\ e.pid \in {"DISC_UNIQUE_BRANCH", "DISC_MUTE", "DISC_UN_MUTE"}
         \/ /\ e.cc = "GET" /\ e.pid \notin {"DISC_MUTE", "DISC_UN_MUTE", "RESET_DEVICE"}
            /\ e.get \in {"simple", "device_info", "description", "queued", "supported",
                          "parameter_description"}
         \/ /\ e.cc = "GET_SET" /\ e.get = "simple" /\ e.set = "simple"
            /\ e.pid \in {"DEVICE_LABEL", "IDENTIFY_DEVICE", "DMX_START_ADDRESS",
                          "DEVICE_HOURS", "LAMP_HOURS"}
         \/ /\ e.cc = "GET_SET" /\ e.get = "simple" /\ e.set = "personality"
            /\ e.pid = "DMX_PERSONALITY"
         \/ e.cc = "SET" /\ e.set = "reset" /\ e.pid = "RESET_DEVICE"
<1> USE DEF Parameter
<1>1. CASE e \in {rdm_register_disc_unique_branch, rdm_register_disc_mute,
                  rdm_register_disc_un_mute}
  BY <1>1 DEF rdm_register_disc_unique_branch, rdm_register_disc_mute,
              rdm_register_disc_un_mute
<1>2. CASE e \in {rdm_register_device_info, rdm_register_software_version_label,
                  rdm_register_manufacturer_label, rdm_register_device_model_description}
  BY <1>2 DEF rdm_register_device_info, rdm_register_software_version_label,
              rdm_register_manufacturer_label, rdm_register_device_model_description
<1>3. CASE e \in {rdm_register_dmx_personality_description, rdm_register_queued_message,
                  rdm_register_supported_parameters, rdm_register_parameter_description}
  BY <1>3 DEF rdm_register_dmx_personality_description, rdm_register_queued_message,
              rdm_register_supported_parameters, rdm_register_parameter_description
<1>4. CASE e \in {rdm_register_device_label, rdm_register_identify_device,
                  rdm_register_dmx_start_address, rdm_register_device_hours,
                  rdm_register_lamp_hours}
  BY <1>4 DEF rdm_register_device_label, rdm_register_identify_device,
              rdm_register_dmx_start_address, rdm_register_device_hours,
              rdm_register_lamp_hours
<1>5. CASE e \in {rdm_register_dmx_personality, rdm_register_reset_device}
  BY <1>5 DEF rdm_register_dmx_personality, rdm_register_reset_device
<1> QED
  BY <1>1, <1>2, <1>3, <1>4, <1>5 DEF Declared

\* Of the parameters whose value changes, all but the mute byte are kept in flash.
LEMMA StoredTypes ==
  ASSUME NEW e \in Declared,
         e.pid \in {"DISC_MUTE", "IDENTIFY_DEVICE", "DMX_START_ADDRESS", "DMX_PERSONALITY",
                    "DEVICE_LABEL", "DEVICE_HOURS", "LAMP_HOURS", "RESET_DEVICE"}
  PROVE  /\ e.init \in {0, 1}
         /\ e.pid = "DISC_MUTE" => e.type = "DYNAMIC" /\ e.init = 0
         /\ e.pid # "DISC_MUTE" => e.type = "NON_VOLATILE"
<1> USE DEF Parameter
<1>1. CASE e \in {rdm_register_disc_unique_branch, rdm_register_disc_mute,
                  rdm_register_disc_un_mute}
  BY <1>1 DEF rdm_register_disc_unique_branch, rdm_register_disc_mute,
              rdm_register_disc_un_mute
<1>2. CASE e \in {rdm_register_device_info, rdm_register_software_version_label,
                  rdm_register_manufacturer_label, rdm_register_device_model_description}
  BY <1>2 DEF rdm_register_device_info, rdm_register_software_version_label,
              rdm_register_manufacturer_label, rdm_register_device_model_description
<1>3. CASE e \in {rdm_register_dmx_personality_description, rdm_register_queued_message,
                  rdm_register_supported_parameters, rdm_register_parameter_description}
  BY <1>3 DEF rdm_register_dmx_personality_description, rdm_register_queued_message,
              rdm_register_supported_parameters, rdm_register_parameter_description
<1>4. CASE e \in {rdm_register_device_label, rdm_register_identify_device,
                  rdm_register_dmx_start_address, rdm_register_device_hours,
                  rdm_register_lamp_hours}
  BY <1>4 DEF rdm_register_device_label, rdm_register_identify_device,
              rdm_register_dmx_start_address, rdm_register_device_hours,
              rdm_register_lamp_hours
<1>5. CASE e \in {rdm_register_dmx_personality, rdm_register_reset_device}
  BY <1>5 DEF rdm_register_dmx_personality, rdm_register_reset_device
<1> QED
  BY <1>1, <1>2, <1>3, <1>4, <1>5 DEF Declared

\* The same of the table: the types and first values of what it stores.
LEMMA StoredEntries ==
  /\ NonVolatile = Stored \ {"DISC_MUTE"}
  /\ \A p \in Stored : /\ p \in Registered /\ Entry[p].init \in {0, 1}
                       /\ Entry[p].type = IF p = "DISC_MUTE" THEN "DYNAMIC" ELSE "NON_VOLATILE"
  /\ "DISC_MUTE" \in Stored => Entry["DISC_MUTE"].init = 0
  /\ "none" \notin Stored
  /\ IsFiniteSet(NonVolatile)
<1> DEFINE All == {"DISC_MUTE", "IDENTIFY_DEVICE", "DMX_START_ADDRESS", "DMX_PERSONALITY",
                   "DEVICE_LABEL", "DEVICE_HOURS", "LAMP_HOURS", "RESET_DEVICE"}
<1>1. Stored = All \cap Registered
  BY DEF Stored
<1>2. ASSUME NEW p \in Stored
      PROVE  /\ p \in Registered /\ Entry[p].init \in {0, 1}
             /\ Entry[p].type = IF p = "DISC_MUTE" THEN "DYNAMIC" ELSE "NON_VOLATILE"
             /\ p = "DISC_MUTE" => Entry[p].init = 0
  BY <1>1, EntryType, StoredTypes
<1>3. NonVolatile = Stored \ {"DISC_MUTE"}
  BY <1>2 DEF NonVolatile
<1>4. IsFiniteSet(All)
  <2>1. IsFiniteSet({})
    BY FS_EmptySet
  <2>2. ASSUME NEW S, NEW x, IsFiniteSet(S) PROVE IsFiniteSet(S \cup {x})
    BY <2>2, FS_AddElement
  <2>3. IsFiniteSet({} \cup {"DISC_MUTE"} \cup {"IDENTIFY_DEVICE"} \cup {"DMX_START_ADDRESS"}
                    \cup {"DMX_PERSONALITY"} \cup {"DEVICE_LABEL"} \cup {"DEVICE_HOURS"}
                    \cup {"LAMP_HOURS"} \cup {"RESET_DEVICE"})
    BY <2>1, <2>2
  <2>4. All = {} \cup {"DISC_MUTE"} \cup {"IDENTIFY_DEVICE"} \cup {"DMX_START_ADDRESS"}
              \cup {"DMX_PERSONALITY"} \cup {"DEVICE_LABEL"} \cup {"DEVICE_HOURS"}
              \cup {"LAMP_HOURS"} \cup {"RESET_DEVICE"}
    OBVIOUS
  <2> QED
    BY <2>3, <2>4
<1>5. IsFiniteSet(NonVolatile)
  BY <1>1, <1>3, <1>4, FS_Subset
<1> QED
  BY <1>1, <1>2, <1>3, <1>5

-----------------------------------------------------------------------------
(* A device: what dmx_parameter_set and dmx_parameter_commit make of one.    *)

\* Devices, with any number of staged entries.
Device ==
  [data : [Stored -> Value], type : [Stored -> Types], staged : Nat,
   count : Counts \cup {0}]

\* The entries that wait to be written.
StagedOf(d) == {p \in NonVolatile : d.type[p] = "NON_VOLATILE_STAGED"}

\* An entry is of the type it was registered with, or staged, and the count is right.
DeviceOK(d) ==
  /\ d \in Device
  /\ \A p \in NonVolatile : d.type[p] \in {"NON_VOLATILE", "NON_VOLATILE_STAGED"}
  /\ "DISC_MUTE" \in Stored => d.type["DISC_MUTE"] = "DYNAMIC"
  /\ d.staged = Cardinality(StagedOf(d))

\* What dmx_parameter_set makes of a device, field by field.
SetCell(d, c, v) ==
  [data |-> [d.data EXCEPT ![c] = v],
   type |-> [d.type EXCEPT ![c] = IF d.type[c] = "NON_VOLATILE" THEN "NON_VOLATILE_STAGED"
                                  ELSE d.type[c]],
   staged |-> d.staged + (IF d.type[c] = "NON_VOLATILE" THEN 1 ELSE 0),
   count |-> d.count]

\* Which is what dmx_parameter_set does.
LEMMA SetIsSetCell ==
  ASSUME NEW d \in Device, NEW p, NEW v, Cell(p) \in Stored
  PROVE  dmx_parameter_set(d, p, v) = SetCell(d, Cell(p), v)
<1> DEFINE c == Cell(p)
           x == dmx_parameter_set(d, p, v)
<1>1. /\ d = [data |-> d.data, type |-> d.type, staged |-> d.staged, count |-> d.count]
      /\ d.type \in [Stored -> Types] /\ DOMAIN d.data = Stored
  BY DEF Device
<1>2. x = [d EXCEPT !.data[c] = v,
                    !.type[c] = IF @ = "NON_VOLATILE" THEN "NON_VOLATILE_STAGED" ELSE @,
                    !.staged = @ + IF d.type[c] = "NON_VOLATILE" THEN 1 ELSE 0]
  BY DEF dmx_parameter_set
<1> HIDE DEF c, x
<1>3. DOMAIN x = {"data", "type", "staged", "count"}
  BY <1>1, <1>2
<1>4. x.count = d.count
  BY <1>1, <1>2
<1>5. x.data = [d.data EXCEPT ![c] = v]
  BY <1>1, <1>2
<1>6. x.staged = d.staged + IF d.type[c] = "NON_VOLATILE" THEN 1 ELSE 0
  BY <1>1, <1>2
<1>7. x.type = [d.type EXCEPT ![c] = IF d.type[c] = "NON_VOLATILE" THEN "NON_VOLATILE_STAGED"
                                     ELSE d.type[c]]
  BY <1>1, <1>2
<1> QED
  BY <1>2, <1>3, <1>4, <1>5, <1>6, <1>7 DEF SetCell, c, x

\* The number of staged entries of a device is within the bounds of its type.
LEMMA StagedBounds ==
  ASSUME NEW d, DeviceOK(d)
  PROVE  /\ IsFiniteSet(StagedOf(d)) /\ d.staged \in 0 .. Cardinality(NonVolatile)
         /\ d \in [data : [Stored -> Value], type : [Stored -> Types],
                   staged : 0 .. Cardinality(NonVolatile), count : Counts \cup {0}]
<1>1. StagedOf(d) \subseteq NonVolatile
  BY DEF StagedOf
<1>2. IsFiniteSet(NonVolatile)
  BY StoredEntries
<1>3. /\ IsFiniteSet(StagedOf(d)) /\ Cardinality(StagedOf(d)) <= Cardinality(NonVolatile)
  BY <1>1, <1>2, FS_Subset
<1>4. Cardinality(StagedOf(d)) \in Nat /\ Cardinality(NonVolatile) \in Nat
  BY <1>2, <1>3, FS_CardinalityType
<1>5. d.staged \in 0 .. Cardinality(NonVolatile)
  BY <1>3, <1>4 DEF DeviceOK
<1> QED
  BY <1>3, <1>5 DEF DeviceOK, Device

\* Setting a parameter stages its entry, counts it once, and changes no other entry.
LEMMA SetCellOK ==
  ASSUME NEW d, DeviceOK(d), NEW c \in Stored, NEW v \in Value
  PROVE  LET e == SetCell(d, c, v)
         IN  /\ DeviceOK(e)
             /\ e.count = d.count /\ e.data[c] = v
             /\ \A p \in Stored \ {c} : e.data[p] = d.data[p] /\ e.type[p] = d.type[p]
             /\ c \in NonVolatile => e.type[c] = "NON_VOLATILE_STAGED"
<1> DEFINE e == SetCell(d, c, v)
           t == IF d.type[c] = "NON_VOLATILE" THEN "NON_VOLATILE_STAGED" ELSE d.type[c]
<1>1. /\ d.data \in [Stored -> Value] /\ d.type \in [Stored -> Types] /\ d.staged \in Nat
      /\ d.count \in Counts \cup {0} /\ d.type[c] \in Types
  BY DEF DeviceOK, Device
<1>2. t \in Types
  BY <1>1 DEF Types
<1>3. /\ e.count = d.count /\ e.data = [d.data EXCEPT ![c] = v]
      /\ e.type = [d.type EXCEPT ![c] = t]
      /\ e.staged = d.staged + (IF d.type[c] = "NON_VOLATILE" THEN 1 ELSE 0)
      /\ e = [data |-> e.data, type |-> e.type, staged |-> e.staged, count |-> e.count]
  BY DEF SetCell
<1> HIDE DEF e
<1>4. e \in Device
  BY <1>1, <1>2, <1>3 DEF Device
<1>5. /\ e.data[c] = v /\ e.type[c] = t
      /\ \A p \in Stored \ {c} : e.data[p] = d.data[p] /\ e.type[p] = d.type[p]
  BY <1>1, <1>3
<1>6. NonVolatile = Stored \ {"DISC_MUTE"}
  BY StoredEntries
<1>7. c \in NonVolatile => d.type[c] \in {"NON_VOLATILE", "NON_VOLATILE_STAGED"}
  BY DEF DeviceOK
<1>8. c \in NonVolatile => e.type[c] = "NON_VOLATILE_STAGED"
  BY <1>5, <1>7
<1>9. c \notin NonVolatile => c = "DISC_MUTE" /\ d.type[c] = "DYNAMIC" /\ e.type[c] = "DYNAMIC"
  BY <1>5, <1>6 DEF DeviceOK
<1>10. /\ \A p \in NonVolatile : e.type[p] \in {"NON_VOLATILE", "NON_VOLATILE_STAGED"}
       /\ "DISC_MUTE" \in Stored => e.type["DISC_MUTE"] = "DYNAMIC"
  <2>1. ASSUME NEW p \in NonVolatile
        PROVE  e.type[p] \in {"NON_VOLATILE", "NON_VOLATILE_STAGED"}
    BY <1>5, <1>6, <1>8 DEF DeviceOK
  <2>2. ASSUME "DISC_MUTE" \in Stored PROVE e.type["DISC_MUTE"] = "DYNAMIC"
    BY <1>5, <1>6, <1>9, <2>2 DEF DeviceOK
  <2> QED
    BY <2>1, <2>2
<1>11. e.staged = Cardinality(StagedOf(e))
  <2>0. d.staged = Cardinality(StagedOf(d)) /\ IsFiniteSet(StagedOf(d))
    BY StagedBounds DEF DeviceOK
  <2>1. CASE d.type[c] = "NON_VOLATILE"
    <3>1. c \in NonVolatile /\ c \notin StagedOf(d)
      BY <1>9, <2>1 DEF StagedOf
    <3>2. StagedOf(e) = StagedOf(d) \cup {c}
      BY <1>5, <1>6, <1>8, <3>1 DEF StagedOf
    <3>3. Cardinality(StagedOf(e)) = Cardinality(StagedOf(d)) + 1
      BY <2>0, <3>1, <3>2, FS_AddElement
    <3> QED
      BY <1>3, <2>0, <2>1, <3>3
  <2>2. CASE d.type[c] # "NON_VOLATILE"
    <3>1. e.type[c] = d.type[c]
      BY <1>5, <2>2
    <3>2. StagedOf(e) = StagedOf(d)
      BY <1>5, <1>6, <3>1 DEF StagedOf
    <3> QED
      BY <1>1, <1>3, <2>0, <2>2, <3>2
  <2> QED
    BY <2>1, <2>2
<1> QED
  BY <1>3, <1>4, <1>5, <1>8, <1>10, <1>11 DEF DeviceOK, e

-----------------------------------------------------------------------------
(* The requests, and what their handlers set.                                *)

\* A request carries a value or none.
LEMMA RequestType ==
  ASSUME NEW r \in Requests
  PROVE  r.cc \in {"GET", "SET", "DISC"} /\ r.value \in Value \cup {None}
  BY DEF Requests, Request, Value

\* Everything that a handler can answer, by the class of the parameter it belongs to.
LEMMA HandlerWrites ==
  ASSUME NEW r, NEW h
  PROVE  /\ h \in {"device_info", "description", "queued", "supported",
                   "parameter_description"} => Handled(h, r).writes = << >>
         /\ h = "simple" =>
              Handled(h, r) =
                rdm_write_ack(IF r.cc = "GET" \/ r.value = None THEN << >>
                              ELSE << <<r.pid, r.value>> >>)
         /\ h = "personality" =>
              Handled(h, r) =
                IF r.value = None \/ r.value \notin 1 .. dev.count THEN Nack
                ELSE rdm_write_ack(<< <<r.pid, r.value>> >>)
         /\ h = "reset" =>
              Handled(h, r) =
                IF r.value = None \/ r.value \notin ResetTypes THEN Nack
                ELSE rdm_write_ack(<< <<r.pid, r.value>>, <<"DISC_MUTE", 0>> >>)
         /\ h = "discovery" => Handled(h, r) = rdm_rhd_discovery(r)
<1>1. CASE h = "device_info"
  BY <1>1 DEF Handled, rdm_rhd_get_device_info, rdm_write_ack
<1>2. CASE h = "description"
  BY <1>2 DEF Handled, rdm_rhd_get_dmx_personality_description, rdm_write_ack, Nack
<1>3. CASE h = "queued"
  BY <1>3 DEF Handled, rdm_rhd_get_queued_message, Nack
<1>4. CASE h = "supported"
  BY <1>4 DEF Handled, rdm_rhd_get_supported_parameters, rdm_write_ack
<1>5. CASE h = "parameter_description"
  BY <1>5 DEF Handled, rdm_rhd_get_parameter_description, Nack
<1>6. CASE h = "simple"
  BY <1>6 DEF Handled, rdm_simple_response_handler
<1>7. CASE h = "personality"
  BY <1>7 DEF Handled, rdm_rhd_set_dmx_personality
<1>8. CASE h = "reset"
  BY <1>8 DEF Handled, rdm_rhd_set_reset_device
<1>9. CASE h = "discovery"
  BY <1>9 DEF Handled
<1> QED
  BY <1>1, <1>2, <1>3, <1>4, <1>5, <1>6, <1>7, <1>8, <1>9

\* The answers to the three discovery commands.
LEMMA DiscoveryWrites ==
  ASSUME NEW r
  PROVE  /\ r.pid = "DISC_UNIQUE_BRANCH" =>
              rdm_rhd_discovery(r) =
                IF dev.data["DISC_MUTE"] # 0 \/ r.value = None \/ ~r.inside
                THEN Silence ELSE rdm_write_ack(<< >>)
         /\ r.pid = "DISC_MUTE" => rdm_rhd_discovery(r) = rdm_write_ack(<< <<"DISC_MUTE", 1>> >>)
         /\ r.pid = "DISC_UN_MUTE" =>
              rdm_rhd_discovery(r) = rdm_write_ack(<< <<"DISC_UN_MUTE", 0>> >>)
<1>1. CASE r.pid = "DISC_UNIQUE_BRANCH"
  BY <1>1 DEF rdm_rhd_discovery
<1>2. CASE r.pid = "DISC_MUTE"
  BY <1>2 DEF rdm_rhd_discovery
<1>3. CASE r.pid = "DISC_UN_MUTE"
  BY <1>3 DEF rdm_rhd_discovery
<1> QED
  BY <1>1, <1>2, <1>3

\* The five things that a request can make the device do.
Harmless(r) ==
  /\ Reply(r).writes = << >>
  /\ Reply(r).reply = "ack" => r.pid \notin {"DISC_MUTE", "DISC_UN_MUTE", "RESET_DEVICE"}
Mutes(r) ==
  /\ Reply(r) = rdm_write_ack(<< <<"DISC_MUTE", 1>> >>)
  /\ r.pid = "DISC_MUTE" /\ "DISC_MUTE" \in Stored
UnMutes(r) ==
  /\ Reply(r) = rdm_write_ack(<< <<"DISC_UN_MUTE", 0>> >>)
  /\ r.pid = "DISC_UN_MUTE"
SetsOne(r) ==
  /\ Reply(r) = rdm_write_ack(<< <<r.pid, r.value>> >>)
  /\ r.pid \in Stored \ {"DISC_MUTE", "DISC_UN_MUTE", "RESET_DEVICE"} /\ r.value \in Value
  /\ r.pid = "DMX_PERSONALITY" => r.value \in 1 .. dev.count
Resets(r) ==
  /\ Reply(r) = rdm_write_ack(<< <<"RESET_DEVICE", r.value>>, <<"DISC_MUTE", 0>> >>)
  /\ r.pid = "RESET_DEVICE" /\ r.pid \in Stored /\ r.value \in Value

\* Whatever is asked of a responder, rdm_send_response does one of them.
LEMMA ReplyCases ==
  ASSUME NEW r \in Requests
  PROVE  Harmless(r) \/ Mutes(r) \/ UnMutes(r) \/ SetsOne(r) \/ Resets(r)
<1>1. CASE r.sub # "ROOT" \/ r.pid \notin Registered
  BY <1>1 DEF Reply, Harmless, Nack
<1>2. CASE r.sub = "ROOT" /\ r.pid \in Registered
  <2> DEFINE entry == Entry[r.pid]
             h == IF r.cc = "SET" THEN entry.set ELSE entry.get
  <2>1. entry \in Declared /\ entry.pid = r.pid
    BY <1>2, EntryType
  <2>2. Reply(r) = CASE entry.cc = "DISC" /\ r.cc # "DISC" -> Silence
                     [] WrongClass(entry.cc, r) -> Nack
                     [] OTHER -> Handled(h, r)
    BY <1>2 DEF Reply
  <2> HIDE DEF entry
  <2>3. CASE entry.cc = "DISC" /\ r.cc # "DISC"
    <3>1. ~WrongClass(entry.cc, r)
      BY <2>3 DEF WrongClass
    <3>2. Reply(r) = Silence
      BY <2>2, <2>3, <3>1
    <3> QED
      BY <3>2 DEF Harmless, Silence
  <2>4. CASE WrongClass(entry.cc, r)
    <3>1. ~(entry.cc = "DISC" /\ r.cc # "DISC")
      BY <2>4 DEF WrongClass
    <3>2. Reply(r) = Nack
      BY <2>2, <2>4, <3>1
    <3> QED
      BY <3>2 DEF Harmless, Nack
  <2>5. CASE ~(entry.cc = "DISC" /\ r.cc # "DISC") /\ ~WrongClass(entry.cc, r)
    <3>0. Reply(r) = Handled(h, r)
      BY <2>2, <2>5
    <3>1. CASE /\ entry.cc = "DISC" /\ entry.get = "discovery"
               /\ entry.pid \in {"DISC_UNIQUE_BRANCH", "DISC_MUTE", "DISC_UN_MUTE"}
      <4>1. Reply(r) = rdm_rhd_discovery(r)
        BY <2>5, <3>0, <3>1, HandlerWrites
      <4>2. r.pid = "DISC_UNIQUE_BRANCH" => Harmless(r)
        BY <4>1, DiscoveryWrites DEF Harmless, Silence, rdm_write_ack
      <4>3. r.pid = "DISC_MUTE" => Mutes(r)
        BY <1>2, <4>1, DiscoveryWrites DEF Mutes, Stored
      <4>4. r.pid = "DISC_UN_MUTE" => UnMutes(r)
        BY <4>1, DiscoveryWrites DEF UnMutes
      <4> QED
        BY <2>1, <3>1, <4>2, <4>3, <4>4
    <3>2. CASE /\ entry.cc = "GET"
               /\ entry.pid \notin {"DISC_MUTE", "DISC_UN_MUTE", "RESET_DEVICE"}
               /\ entry.get \in {"simple", "device_info", "description", "queued", "supported",
                                 "parameter_description"}
      <4>1. r.cc = "GET" /\ h = entry.get
        BY <2>5, <3>2 DEF WrongClass
      <4>2. Reply(r).writes = << >>
        BY <3>0, <3>2, <4>1, HandlerWrites DEF rdm_write_ack
      <4> QED
        BY <2>1, <3>2, <4>2 DEF Harmless
    <3>3. CASE /\ entry.cc = "GET_SET" /\ entry.get = "simple" /\ entry.set = "simple"
               /\ entry.pid \in {"DEVICE_LABEL", "IDENTIFY_DEVICE", "DMX_START_ADDRESS",
                                 "DEVICE_HOURS", "LAMP_HOURS"}
      <4>1. h = "simple"
        BY <3>3
      <4>2. Reply(r) = rdm_write_ack(IF r.cc = "GET" \/ r.value = None THEN << >>
                                     ELSE << <<r.pid, r.value>> >>)
        BY <3>0, <4>1, HandlerWrites
      <4>3. r.cc = "GET" \/ r.value = None => Harmless(r)
        BY <2>1, <3>3, <4>2 DEF Harmless, rdm_write_ack
      <4>4. ~(r.cc = "GET" \/ r.value = None) => SetsOne(r)
        BY <1>2, <2>1, <3>3, <4>2, RequestType DEF SetsOne, Stored
      <4> QED
        BY <4>3, <4>4
    <3>4. CASE /\ entry.cc = "GET_SET" /\ entry.get = "simple" /\ entry.set = "personality"
               /\ entry.pid = "DMX_PERSONALITY"
      <4>1. CASE r.cc = "SET"
        <5>1. Reply(r) = IF r.value = None \/ r.value \notin 1 .. dev.count THEN Nack
                         ELSE rdm_write_ack(<< <<r.pid, r.value>> >>)
          BY <3>0, <3>4, <4>1, HandlerWrites
        <5>2. r.value = None \/ r.value \notin 1 .. dev.count => Harmless(r)
          BY <2>1, <3>4, <5>1 DEF Harmless, Nack
        <5>3. ~(r.value = None \/ r.value \notin 1 .. dev.count) => SetsOne(r)
          BY <1>2, <2>1, <3>4, <5>1, RequestType DEF SetsOne, Stored
        <5> QED
          BY <5>2, <5>3
      <4>2. CASE r.cc # "SET"
        <5>1. r.cc = "GET" /\ h = "simple"
          BY <2>5, <3>4, <4>2, RequestType DEF WrongClass
        <5>2. Reply(r) = rdm_write_ack(<< >>)
          BY <3>0, <5>1, HandlerWrites
        <5> QED
          BY <2>1, <3>4, <5>2 DEF Harmless, rdm_write_ack
      <4> QED
        BY <4>1, <4>2
    <3>5. CASE entry.cc = "SET" /\ entry.set = "reset" /\ entry.pid = "RESET_DEVICE"
      <4>1. r.cc = "SET" /\ h = "reset"
        BY <2>5, <3>5 DEF WrongClass
      <4>2. Reply(r) = IF r.value = None \/ r.value \notin ResetTypes THEN Nack
                       ELSE rdm_write_ack(<< <<r.pid, r.value>>, <<"DISC_MUTE", 0>> >>)
        BY <3>0, <4>1, HandlerWrites
      <4>3. r.value = None \/ r.value \notin ResetTypes => Harmless(r)
        BY <4>2 DEF Harmless, Nack
      <4>4. ~(r.value = None \/ r.value \notin ResetTypes) => Resets(r)
        BY <1>2, <2>1, <3>5, <4>2, RequestType DEF Resets, Stored
      <4> QED
        BY <4>3, <4>4
    <3> QED
      BY <2>1, <3>1, <3>2, <3>3, <3>4, <3>5, Classes
  <2> QED
    BY <2>3, <2>4, <2>5
<1> QED
  BY <1>1, <1>2

-----------------------------------------------------------------------------
(* A running device d, of which t has been set and that was muted last if h. *)

\* A value that was set, and whose write did not fail, is staged, being written or in flash.
Kept(d, t) ==
  \A p \in t :
    \/ d.type[p] = "NON_VOLATILE_STAGED" \/ committing = p
    \/ nvs[p] # None /\ nvs[p].value = d.data[p]

\* The personality is one of the firmware's.
HasPersonality(d) ==
  "DMX_PERSONALITY" \in Stored => d.data["DMX_PERSONALITY"] \in 1 .. d.count

\* The mute byte says what the last mute, un-mute or reset said.
MuteByte(d, h) ==
  /\ h \in BOOLEAN
  /\ h => "DISC_MUTE" \in Stored
  /\ "DISC_MUTE" \in Stored => (d.data["DISC_MUTE"] # 0 <=> h)

\* A device d whose parameters t were set and whose last discovery command muted it if h.
Running(d, t, h) ==
  /\ DeviceOK(d) /\ t \subseteq NonVolatile
  /\ Kept(d, t) /\ HasPersonality(d) /\ MuteByte(d, h)

\* A parameter that is set, by whichever task, leaves such a device.
LEMMA SetKeeps ==
  ASSUME NEW d, NEW t, NEW h, Running(d, t, h), NEW c \in Stored, NEW v \in Value,
         c = "DMX_PERSONALITY" => v \in 1 .. d.count
  PROVE  Running(SetCell(d, c, v), t \cup ({c} \cap NonVolatile),
                 IF c = "DISC_MUTE" THEN v # 0 ELSE h)
<1> DEFINE e == SetCell(d, c, v)
           g == IF c = "DISC_MUTE" THEN v # 0 ELSE h
<1>1. /\ DeviceOK(e) /\ e.count = d.count /\ e.data[c] = v
      /\ \A p \in Stored \ {c} : e.data[p] = d.data[p] /\ e.type[p] = d.type[p]
      /\ c \in NonVolatile => e.type[c] = "NON_VOLATILE_STAGED"
  BY SetCellOK DEF Running
<1> HIDE DEF e
<1>2. NonVolatile \subseteq Stored
  BY StoredEntries
<1>3. Kept(e, t \cup ({c} \cap NonVolatile))
  <2> SUFFICES ASSUME NEW p \in t \cup ({c} \cap NonVolatile)
               PROVE  \/ e.type[p] = "NON_VOLATILE_STAGED" \/ committing = p
                      \/ nvs[p] # None /\ nvs[p].value = e.data[p]
    BY DEF Kept
  <2>1. CASE p = c
    BY <1>1, <2>1 DEF Running
  <2>2. CASE p # c
    <3>1. p \in t /\ p \in Stored \ {c}
      BY <1>2, <2>2 DEF Running
    <3>2. e.data[p] = d.data[p] /\ e.type[p] = d.type[p]
      BY <1>1, <3>1
    <3> QED
      BY <3>1, <3>2 DEF Running, Kept
  <2> QED
    BY <2>1, <2>2
<1>4. HasPersonality(e)
  <2> SUFFICES ASSUME "DMX_PERSONALITY" \in Stored
               PROVE  e.data["DMX_PERSONALITY"] \in 1 .. e.count
    BY DEF HasPersonality
  <2>1. CASE c = "DMX_PERSONALITY"
    BY <1>1, <2>1
  <2>2. CASE c # "DMX_PERSONALITY"
    BY <1>1, <2>2 DEF Running, HasPersonality
  <2> QED
    BY <2>1, <2>2
<1>5. MuteByte(e, g)
  <2>1. CASE c = "DISC_MUTE"
    BY <1>1, <2>1 DEF MuteByte
  <2>2. CASE c # "DISC_MUTE"
    BY <1>1, <2>2 DEF Running, MuteByte
  <2> QED
    BY <2>1, <2>2
<1> QED
  BY <1>1, <1>3, <1>4, <1>5 DEF Running, e

\* What a request that does not abort does to a running device.
LEMMA ResponseKeeps ==
  ASSUME Running(dev, touched, hushed), NEW r \in Requests, rdm_send_response(r), ~Aborts(r)
  PROVE  Running(dev', touched', hushed')
<1> DEFINE writes == Reply(r).writes
           written == {Cell(writes[i][1]) : i \in DOMAIN writes} \cap Stored
           Hushed == IF /\ Reply(r).reply = "ack"
                        /\ r.pid \in {"DISC_MUTE", "DISC_UN_MUTE", "RESET_DEVICE"}
                     THEN r.pid = "DISC_MUTE" ELSE hushed
<1>1. /\ dev' = ApplyWrites(dev, writes) /\ hushed' = Hushed
      /\ touched' = touched \cup (written \cap NonVolatile)
  BY DEF rdm_send_response
<1>2. dev \in Device /\ hushed \in BOOLEAN /\ (hushed => "DISC_MUTE" \in Stored)
  BY DEF Running, DeviceOK, MuteByte
<1>3. ASSUME NEW w PROVE ApplyWrites(dev, <<w>>) = Write(dev, w) /\ Len(<<w>>) = 1
  <2>1. Len(<<w>>) = 1 /\ <<w>>[1] = w
    OBVIOUS
  <2> QED
    BY <2>1 DEF ApplyWrites
<1>4. CASE Harmless(r)
  <2>1. writes = << >> /\ Len(<< >>) = 0
    BY <1>4 DEF Harmless
  <2>2. dev' = dev
    BY <1>1, <2>1 DEF ApplyWrites
  <2>3. touched' = touched
    BY <1>1, <2>1
  <2>4. hushed' = hushed
    BY <1>1, <1>4 DEF Harmless
  <2> QED
    BY <2>2, <2>3, <2>4
<1>5. CASE Mutes(r)
  <2> DEFINE w == <<"DISC_MUTE", 1>>
  <2>1. writes = <<w>> /\ Reply(r).reply = "ack" /\ Cell(w[1]) = "DISC_MUTE" /\ w[2] = 1
    BY <1>5 DEF Mutes, rdm_write_ack, Cell
  <2>2. dev' = SetCell(dev, "DISC_MUTE", 1)
    <3>1. Write(dev, w) = dmx_parameter_set(dev, "DISC_MUTE", 1)
      BY <1>5, <2>1 DEF Write, Mutes
    <3> QED
      BY <1>1, <1>2, <1>3, <1>5, <2>1, <3>1, SetIsSetCell DEF Mutes
  <2>3. touched' = touched \cup ({"DISC_MUTE"} \cap NonVolatile)
    BY <1>1, <1>5, <2>1 DEF Mutes
  <2>4. hushed' = TRUE
    BY <1>1, <1>5, <2>1 DEF Mutes
  <2>5. 1 \in Value
    BY DEF Value
  <2>6. Running(SetCell(dev, "DISC_MUTE", 1), touched \cup ({"DISC_MUTE"} \cap NonVolatile),
                IF "DISC_MUTE" = "DISC_MUTE" THEN 1 # 0 ELSE hushed)
    BY <1>5, <2>5, SetKeeps DEF Mutes
  <2>7. (IF "DISC_MUTE" = "DISC_MUTE" THEN 1 # 0 ELSE hushed) = TRUE
    OBVIOUS
  <2> QED
    BY <2>2, <2>3, <2>4, <2>6, <2>7
<1>6. CASE UnMutes(r)
  <2> DEFINE w == <<"DISC_UN_MUTE", 0>>
  <2>1. writes = <<w>> /\ Reply(r).reply = "ack" /\ Cell(w[1]) = "DISC_MUTE" /\ w[2] = 0
    BY <1>6 DEF UnMutes, rdm_write_ack, Cell
  <2>2. hushed' = FALSE
    BY <1>1, <1>6, <2>1 DEF UnMutes
  <2>3. 0 \in Value
    BY DEF Value
  <2>4. CASE "DISC_MUTE" \in Stored
    <3>1. dev' = SetCell(dev, "DISC_MUTE", 0)
      <4>1. Write(dev, w) = dmx_parameter_set(dev, "DISC_UN_MUTE", 0)
        BY <2>1, <2>4 DEF Write
      <4>2. Cell("DISC_UN_MUTE") = "DISC_MUTE"
        BY DEF Cell
      <4> QED
        BY <1>1, <1>2, <1>3, <2>1, <2>4, <4>1, <4>2, SetIsSetCell
    <3>2. touched' = touched \cup ({"DISC_MUTE"} \cap NonVolatile)
      BY <1>1, <2>1, <2>4
    <3> QED
      BY <2>2, <2>3, <2>4, <3>1, <3>2, SetKeeps
  <2>5. CASE "DISC_MUTE" \notin Stored
    <3>1. dev' = dev
      BY <1>1, <1>3, <2>1, <2>5 DEF Write
    <3>2. touched' = touched
      BY <1>1, <2>1, <2>5
    <3>3. hushed' = hushed
      BY <1>2, <2>2, <2>5
    <3> QED
      BY <3>1, <3>2, <3>3
  <2> QED
    BY <2>4, <2>5
<1>7. CASE SetsOne(r)
  <2> DEFINE w == <<r.pid, r.value>>
  <2>1. writes = <<w>> /\ Cell(w[1]) = r.pid /\ w[2] = r.value /\ r.pid \in Stored
    BY <1>7 DEF SetsOne, rdm_write_ack, Cell
  <2>2. dev' = SetCell(dev, r.pid, r.value)
    <3>1. Write(dev, w) = dmx_parameter_set(dev, r.pid, r.value)
      BY <2>1 DEF Write
    <3> QED
      BY <1>1, <1>2, <1>3, <2>1, <3>1, SetIsSetCell
  <2>3. touched' = touched \cup ({r.pid} \cap NonVolatile)
    BY <1>1, <2>1
  <2>4. hushed' = hushed
    BY <1>1, <1>7 DEF SetsOne
  <2> QED
    BY <1>7, <2>1, <2>2, <2>3, <2>4, SetKeeps DEF SetsOne
<1>8. CASE Resets(r)
  <2> DEFINE w == <<"RESET_DEVICE", r.value>>
             u == <<"DISC_MUTE", 0>>
             d == SetCell(dev, "RESET_DEVICE", r.value)
  <2>1. /\ writes = <<w, u>> /\ Reply(r).reply = "ack" /\ "RESET_DEVICE" \in Stored
        /\ Cell(w[1]) = "RESET_DEVICE" /\ w[2] = r.value /\ r.value \in Value
        /\ Cell(u[1]) = "DISC_MUTE" /\ u[2] = 0
    BY <1>8 DEF Resets, rdm_write_ack, Cell
  <2>2. Write(dev, w) = d
    <3>1. Write(dev, w) = dmx_parameter_set(dev, "RESET_DEVICE", r.value)
      BY <2>1 DEF Write
    <3> QED
      BY <1>2, <2>1, <3>1, SetIsSetCell
  <2>3. Len(<<w, u>>) = 2 /\ <<w, u>>[1] = w /\ <<w, u>>[2] = u
    OBVIOUS
  <2>4. dev' = Write(d, u)
    BY <1>1, <2>1, <2>2, <2>3 DEF ApplyWrites
  <2>5. hushed' = FALSE
    BY <1>1, <1>8, <2>1 DEF Resets
  <2>6. Running(d, touched \cup ({"RESET_DEVICE"} \cap NonVolatile), hushed)
    BY <2>1, SetKeeps
  <2>7. written = {"RESET_DEVICE", "DISC_MUTE"} \cap Stored
    <3>1. {Cell(writes[i][1]) : i \in DOMAIN writes} = {"RESET_DEVICE", "DISC_MUTE"}
      BY <2>1
    <3> QED
      BY <3>1
  <2> HIDE DEF d, w, u
  <2>8. CASE "DISC_MUTE" \in Stored
    <3>1. d \in Device /\ 0 \in Value
      BY <2>6 DEF Running, DeviceOK, Value
    <3>2. dev' = SetCell(d, "DISC_MUTE", 0)
      <4>1. Write(d, u) = dmx_parameter_set(d, "DISC_MUTE", 0)
        BY <2>1, <2>8 DEF Write, u
      <4>2. Cell("DISC_MUTE") = "DISC_MUTE"
        BY DEF Cell
      <4> QED
        BY <2>4, <2>8, <3>1, <4>1, <4>2, SetIsSetCell
    <3>3. touched' = touched \cup ({"RESET_DEVICE"} \cap NonVolatile) \cup ({"DISC_MUTE"} \cap NonVolatile)
      BY <1>1, <2>1, <2>7, <2>8
    <3> QED
      BY <2>5, <2>6, <2>8, <3>1, <3>2, <3>3, SetKeeps
  <2>9. CASE "DISC_MUTE" \notin Stored
    <3>1. dev' = d
      BY <2>1, <2>4, <2>9 DEF Write
    <3>2. touched' = touched \cup ({"RESET_DEVICE"} \cap NonVolatile)
      BY <1>1, <2>1, <2>7, <2>9
    <3>3. hushed' = hushed
      BY <1>2, <2>5, <2>9
    <3> QED
      BY <2>6, <3>1, <3>2, <3>3
  <2> QED
    BY <2>8, <2>9
<1> QED
  BY <1>4, <1>5, <1>6, <1>7, <1>8, ReplyCases

-----------------------------------------------------------------------------
(* The ring of queued PIDs.                                                  *)

\* How many entries there are between a tail t and a head h.
RingSize(h, t) == IF h >= t THEN h - t ELSE h - t + QueueMax

\* An index that has gone past the end of the ring comes out at its start.
LEMMA RingIndex ==
  ASSUME NEW t \in Slot, NEW k \in 0 .. QueueMax
  PROVE  /\ (t + k) % QueueMax = IF t + k < QueueMax THEN t + k ELSE t + k - QueueMax
         /\ (t + k) % QueueMax \in Slot
<1> USE ResponderAssumption DEF Slot
<1>1. CASE t + k < QueueMax
  BY <1>1
<1>2. CASE t + k >= QueueMax
  <2> DEFINE m == t + k - QueueMax
  <2>1. m \in 0 .. QueueMax - 1 /\ t + k = m + QueueMax
    BY <1>2
  <2>2. (m + QueueMax) % QueueMax = m
    BY <2>1
  <2> QED
    BY <1>2, <2>1, <2>2
<1> QED
  BY <1>1, <1>2

\* The head lies behind the last entry, and moves on by one when there is room.
LEMMA RingPush ==
  ASSUME NEW h \in Slot, NEW t \in Slot
  PROVE  /\ RingSize(h, t) \in 0 .. QueueMax - 1
         /\ (t + RingSize(h, t)) % QueueMax = h
         /\ \A k \in 0 .. RingSize(h, t) - 1 : (t + k) % QueueMax # h
         /\ (h + 1) % QueueMax # t =>
              RingSize((h + 1) % QueueMax, t) = RingSize(h, t) + 1
<1> USE ResponderAssumption
<1>1. RingSize(h, t) \in 0 .. QueueMax - 1
  BY DEF RingSize, Slot
<1>2. (t + RingSize(h, t)) % QueueMax = h
  <2>1. (t + RingSize(h, t)) % QueueMax =
          IF t + RingSize(h, t) < QueueMax THEN t + RingSize(h, t)
          ELSE t + RingSize(h, t) - QueueMax
    BY <1>1, RingIndex
  <2> QED
    BY <2>1 DEF RingSize, Slot
<1>3. ASSUME NEW k \in 0 .. RingSize(h, t) - 1 PROVE (t + k) % QueueMax # h
  <2>1. k \in 0 .. QueueMax
    BY <1>1
  <2>2. (t + k) % QueueMax = IF t + k < QueueMax THEN t + k ELSE t + k - QueueMax
    BY <2>1, RingIndex
  <2> QED
    BY <2>1, <2>2 DEF RingSize, Slot
<1>4. ASSUME (h + 1) % QueueMax # t
      PROVE  RingSize((h + 1) % QueueMax, t) = RingSize(h, t) + 1
  <2>1. (h + 1) % QueueMax = IF h + 1 < QueueMax THEN h + 1 ELSE h + 1 - QueueMax
    BY RingIndex
  <2> QED
    BY <1>4, <2>1 DEF RingSize, Slot
<1> QED
  BY <1>1, <1>2, <1>3, <1>4

\* When the tail moves on, every entry but the first keeps its place in the ring.
LEMMA RingPop ==
  ASSUME NEW h \in Slot, NEW t \in Slot, RingSize(h, t) > 0
  PROVE  /\ RingSize(h, (t + 1) % QueueMax) = RingSize(h, t) - 1
         /\ \A k \in 0 .. RingSize(h, t) - 2 :
              (((t + 1) % QueueMax) + k) % QueueMax = (t + (k + 1)) % QueueMax
<1> USE ResponderAssumption
<1>1. RingSize(h, t) \in 0 .. QueueMax - 1
  BY RingPush
<1>2. /\ (t + 1) % QueueMax = IF t + 1 < QueueMax THEN t + 1 ELSE t + 1 - QueueMax
      /\ (t + 1) % QueueMax \in Slot
  BY RingIndex
<1>3. RingSize(h, (t + 1) % QueueMax) = RingSize(h, t) - 1
  BY <1>2 DEF RingSize, Slot
<1>4. ASSUME NEW k \in 0 .. RingSize(h, t) - 2
      PROVE  (((t + 1) % QueueMax) + k) % QueueMax = (t + (k + 1)) % QueueMax
  <2>1. k \in 0 .. QueueMax /\ k + 1 \in 0 .. QueueMax
    BY <1>1
  <2> DEFINE s == (t + 1) % QueueMax
  <2>2. (s + k) % QueueMax = IF s + k < QueueMax THEN s + k ELSE s + k - QueueMax
    BY <1>2, <2>1, RingIndex
  <2>3. (t + (k + 1)) % QueueMax =
          IF t + (k + 1) < QueueMax THEN t + (k + 1) ELSE t + (k + 1) - QueueMax
    BY <2>1, RingIndex
  <2> HIDE DEF s
  <2>4. s = IF t + 1 < QueueMax THEN t + 1 ELSE t + 1 - QueueMax
    BY <1>2 DEF s
  <2>5. (s + k) % QueueMax = (t + (k + 1)) % QueueMax
    BY <2>1, <2>2, <2>3, <2>4 DEF Slot
  <2> QED
    BY <2>5 DEF s
<1> QED
  BY <1>3, <1>4

\* The entries of the queue are PIDs, each at one place.
QueueOK ==
  /\ queue \in [head : Slot, tail : Slot, data : [Slot -> Stored \cup {"none"}]]
  /\ \A k \in 0 .. rdm_queue_size - 1 : queue.data[QueueIndex(k)] \in Stored
  /\ \A j, k \in 0 .. rdm_queue_size - 1 :
       queue.data[QueueIndex(j)] = queue.data[QueueIndex(k)] => j = k

\* So there are as many PIDs in it as rdm_queue_size counts.
LEMMA QueueIsOnce == QueueOK => QueueOnce
<1> SUFFICES ASSUME QueueOK PROVE QueueOnce
  OBVIOUS
<1> DEFINE n == rdm_queue_size
           f == [i \in 1 .. n |-> queue.data[QueueIndex(i - 1)]]
<1>1. n \in Nat
  <2>1. queue.head \in Slot /\ queue.tail \in Slot
    BY DEF QueueOK
  <2>2. RingSize(queue.head, queue.tail) \in 0 .. QueueMax - 1
    BY <2>1, RingPush
  <2> QED
    BY <2>2, ResponderAssumption DEF rdm_queue_size, RingSize
<1>2. /\ Queued = {queue.data[QueueIndex(k)] : k \in 0 .. n - 1}
      /\ \A k \in 0 .. n - 1 : queue.data[QueueIndex(k)] \in Stored
      /\ \A j, k \in 0 .. n - 1 :
           queue.data[QueueIndex(j)] = queue.data[QueueIndex(k)] => j = k
  BY DEF QueueOK, Queued
<1> HIDE DEF n
<1>3. f \in [1 .. n -> Queued]
  <2>1. ASSUME NEW i \in 1 .. n PROVE f[i] \in Queued
    <3>1. i - 1 \in 0 .. n - 1
      BY <1>1
    <3> QED
      BY <1>2, <3>1
  <2> QED
    BY <2>1
<1>4. \A i, j \in 1 .. n : f[i] = f[j] => i = j
  <2> SUFFICES ASSUME NEW i \in 1 .. n, NEW j \in 1 .. n, f[i] = f[j] PROVE i = j
    OBVIOUS
  <2>1. i - 1 \in 0 .. n - 1 /\ j - 1 \in 0 .. n - 1
    BY <1>1
  <2>2. queue.data[QueueIndex(i - 1)] = queue.data[QueueIndex(j - 1)]
    OBVIOUS
  <2>3. i - 1 = j - 1
    BY <1>2, <2>1, <2>2
  <2> QED
    BY <1>1, <2>3
<1>5. \A q \in Queued : \E i \in 1 .. n : f[i] = q
  <2> SUFFICES ASSUME NEW q \in Queued PROVE \E i \in 1 .. n : f[i] = q
    OBVIOUS
  <2>1. PICK k \in 0 .. n - 1 : q = queue.data[QueueIndex(k)]
    BY <1>2
  <2>2. k + 1 \in 1 .. n /\ (k + 1) - 1 = k
    BY <1>1
  <2>3. f[k + 1] = queue.data[QueueIndex((k + 1) - 1)]
    BY <2>2
  <2> QED
    BY <2>1, <2>2, <2>3
<1>6. f \in Bijection(1 .. n, Queued)
  <2>1. DOMAIN f = 1 .. n
    OBVIOUS
  <2> HIDE DEF f
  <2> QED
    BY <1>3, <1>4, <1>5, <2>1 DEF Bijection, Injection, Surjection, IsInjective
<1>7. Cardinality(Queued) = n
  BY <1>1, <1>6, FS_CountingElements DEF ExistsBijection
<1>8. "none" \notin Queued
  BY <1>2, StoredEntries
<1> QED
  BY <1>7, <1>8 DEF QueueOnce, n

-----------------------------------------------------------------------------
(* The inductive invariant.                                                  *)

\* What the flash holds of a personality is one that the firmware that stored it had.
FlashOK ==
  /\ nvs \in [NonVolatile -> {None} \cup [value : Value, count : Counts \cup {0}]]
  /\ ("DMX_PERSONALITY" \in NonVolatile /\ nvs["DMX_PERSONALITY"] # None) =>
       nvs["DMX_PERSONALITY"].value \in 1 .. nvs["DMX_PERSONALITY"].count

\* Nothing is under way while there is no driver.
AtRest ==
  /\ dev = NoDevice /\ touched = {} /\ hushed = FALSE
  /\ app = "idle" /\ committing = "none"

\* The invariant that every step keeps.
ResponderInd ==
  /\ installed \in BOOLEAN /\ sets \in 0 .. MaxSets /\ pushes \in 0 .. MaxPushes
  /\ app \in Stored \cup {"idle", "hung"} /\ committing \in NonVolatile \cup {"none", "due"}
  /\ FlashOK /\ QueueOK
  /\ installed => Running(dev, touched, hushed)
  /\ ~installed => AtRest

\* No PID has the name of a state of the application.
LEMMA PidNames ==
  /\ "idle" \notin Stored /\ "hung" \notin Stored
  /\ "none" \notin Stored /\ "due" \notin Stored
  BY DEF Stored

\* A device of registered parameters that nobody has set is well formed.
LEMMA FreshDevice ==
  ASSUME NEW d, d \in Device, d.staged = 0, \A p \in Stored : d.type[p] = Entry[p].type
  PROVE  DeviceOK(d)
<1>1. NonVolatile = Stored \ {"DISC_MUTE"}
  BY StoredEntries
<1>2. \A p \in NonVolatile : d.type[p] = "NON_VOLATILE"
  BY <1>1, StoredEntries
<1>3. "DISC_MUTE" \in Stored => d.type["DISC_MUTE"] = "DYNAMIC"
  BY StoredEntries
<1>4. StagedOf(d) = {}
  BY <1>2 DEF StagedOf
<1>5. Cardinality(StagedOf(d)) = 0
  BY <1>4, FS_EmptySet
<1> QED
  BY <1>2, <1>3, <1>5 DEF DeviceOK

\* So is the device of a driver that is not installed.
LEMMA NoDeviceOK == DeviceOK(NoDevice)
<1>1. [p \in Stored |-> Entry[p].type] \in [Stored -> Types]
  BY StoredEntries DEF Types
<1>2. [p \in Stored |-> 0] \in [Stored -> Value]
  BY DEF Value
<1>3. NoDevice \in Device
  BY <1>1, <1>2 DEF NoDevice, Device
<1>4. NoDevice.staged = 0 /\ \A p \in Stored : NoDevice.type[p] = Entry[p].type
  BY DEF NoDevice
<1> QED
  BY <1>3, <1>4, FreshDevice

\* An empty queue is a queue.
LEMMA EmptyQueueOK == queue = EmptyQueue => QueueOK
<1> SUFFICES ASSUME queue = EmptyQueue PROVE QueueOK
  OBVIOUS
<1>1. 0 \in Slot
  BY ResponderAssumption DEF Slot
<1>2. queue.head = 0 /\ queue.tail = 0
  BY DEF EmptyQueue
<1>3. queue \in [head : Slot, tail : Slot, data : [Slot -> Stored \cup {"none"}]]
  BY <1>1 DEF EmptyQueue, Slot
<1>4. rdm_queue_size = 0
  BY <1>2 DEF rdm_queue_size
<1>5. 0 .. rdm_queue_size - 1 = {}
  BY <1>4
<1> QED
  BY <1>3, <1>5 DEF QueueOK

\* The invariant holds before the driver is installed for the first time.
LEMMA ResponderStarts == ResponderInit => ResponderInd
<1> SUFFICES ASSUME ResponderInit PROVE ResponderInd
  OBVIOUS
<1> USE DEF ResponderInit
<1>1. sets \in 0 .. MaxSets /\ pushes \in 0 .. MaxPushes
  BY ResponderAssumption
<1>2. FlashOK
  BY DEF FlashOK
<1>3. QueueOK
  BY EmptyQueueOK
<1>4. AtRest
  BY DEF AtRest
<1> QED
  BY <1>1, <1>2, <1>3, <1>4 DEF ResponderInd

\* A restart keeps the flash.
LEMMA RestartKeeps ==
  ASSUME ResponderInd, Restart
  PROVE  ResponderInd'
<1>1. /\ installed' \in BOOLEAN /\ sets' \in 0 .. MaxSets /\ pushes' \in 0 .. MaxPushes
      /\ app' \in Stored \cup {"idle", "hung"} /\ committing' \in NonVolatile \cup {"none", "due"}
  BY DEF ResponderInd, Restart
<1>2. FlashOK'
  BY DEF ResponderInd, FlashOK, Restart
<1>3. QueueOK'
  <2>1. (queue = EmptyQueue)'
    BY DEF Restart
  <2> QED
    BY <2>1, EmptyQueueOK, PTL
<1>4. AtRest' /\ ~installed'
  BY DEF AtRest, Restart
<1> QED
  BY <1>1, <1>2, <1>3, <1>4 DEF ResponderInd

\* The frame of an action that leaves the queue alone.
LEMMA QueueFrame == QueueOK /\ UNCHANGED queue => QueueOK'
  BY DEF QueueOK, rdm_queue_size, QueueIndex

\* The frame of an action that leaves the flash alone.
LEMMA FlashFrame == FlashOK /\ UNCHANGED nvs => FlashOK'
  BY DEF FlashOK

\* The frame of an action that changes at most the device and its histories.
LEMMA RunningFrame ==
  ASSUME Running(dev', touched', hushed'), UNCHANGED <<nvs, committing>>
  PROVE  Running(dev, touched, hushed)'
<1>1. /\ DeviceOK(dev') /\ touched' \subseteq NonVolatile
      /\ Kept(dev', touched') /\ HasPersonality(dev') /\ MuteByte(dev', hushed')
  BY DEF Running
<1>2. Kept(dev, touched)'
  BY <1>1 DEF Kept
<1> QED
  BY <1>1, <1>2 DEF Running, DeviceOK, Device, StagedOf, HasPersonality, MuteByte

\* Installing: a value comes out of the flash or is the first one, nothing is staged, and
\* a personality of another firmware is not used.
LEMMA InstallKeeps ==
  ASSUME ResponderInd, Install
  PROVE  ResponderInd'
<1>1. PICK n \in Counts :
        dev' = [data |-> [p \in Stored |-> IF p \in NonVolatile THEN Loaded(p, n)
                                           ELSE Entry[p].init],
                type |-> [p \in Stored |-> Entry[p].type], staged |-> 0, count |-> n]
  BY DEF Install
<1>2. /\ ~installed /\ installed' = TRUE
      /\ UNCHANGED <<nvs, queue, app, committing, sets, pushes, touched, hushed>>
  BY DEF Install
<1>3. AtRest /\ FlashOK /\ QueueOK
  BY <1>2 DEF ResponderInd
<1>4. \A p \in NonVolatile : nvs[p] = None \/ nvs[p] \in [value : Value, count : Counts \cup {0}]
  BY <1>3 DEF FlashOK
<1>5. ASSUME NEW p \in NonVolatile
      PROVE  /\ Loaded(p, n) \in Value
             /\ p = "DMX_PERSONALITY" => Loaded(p, n) \in 1 .. n
  <2>0. 1 \in Value /\ n \in Nat /\ n >= 1 /\ p \in Stored
    BY ResponderAssumption, StoredEntries DEF Value
  <2>1. CASE p = "DMX_PERSONALITY"
    <3>1. Loaded(p, n) = LoadPersonality(nvs[p], n)
      BY <2>1 DEF Loaded
    <3>2. CASE nvs[p] # None /\ nvs[p].count = n
      BY <1>3, <1>4, <2>1, <3>1, <3>2 DEF LoadPersonality, FlashOK
    <3>3. CASE ~ (nvs[p] # None /\ nvs[p].count = n)
      BY <2>0, <3>1, <3>3 DEF LoadPersonality
    <3> QED
      BY <3>2, <3>3
  <2>2. CASE p = "DMX_START_ADDRESS"
    <3>1. Loaded(p, n) = LoadAddress(nvs[p], dmx_get_current_personality(n))
      BY <2>2 DEF Loaded
    <3>2. Loaded(p, n) = 1 \/ (nvs[p] # None /\ Loaded(p, n) = nvs[p].value)
      BY <3>1 DEF LoadAddress
    <3> QED
      BY <1>4, <2>0, <2>2, <3>2
  <2>3. CASE p \notin {"DMX_PERSONALITY", "DMX_START_ADDRESS"}
    <3>1. Loaded(p, n) = IF Entry[p].loads /\ nvs[p] # None THEN nvs[p].value
                         ELSE Entry[p].init
      BY <2>3 DEF Loaded
    <3>2. Entry[p].init \in Value
      BY <2>0, StoredEntries DEF Value
    <3> QED
      BY <1>4, <2>3, <3>1, <3>2
  <2> QED
    BY <2>1, <2>2, <2>3
<1>6. \A p \in Stored : Entry[p].init \in Value /\ Entry[p].type \in Types
  BY StoredEntries DEF Value, Types
<1> DEFINE data == [p \in Stored |-> IF p \in NonVolatile THEN Loaded(p, n) ELSE Entry[p].init]
           type == [p \in Stored |-> Entry[p].type]
<1>7. /\ dev'.data = data /\ dev'.type = type /\ dev'.staged = 0 /\ dev'.count = n
      /\ dev' = [data |-> data, type |-> type, staged |-> 0, count |-> n]
  BY <1>1
<1>8. data \in [Stored -> Value] /\ type \in [Stored -> Types]
  BY <1>5, <1>6
<1>9. /\ \A p \in Stored : type[p] = Entry[p].type
      /\ "DMX_PERSONALITY" \in NonVolatile => data["DMX_PERSONALITY"] \in 1 .. n
      /\ "DISC_MUTE" \in Stored => data["DISC_MUTE"] = 0
  <2>1. "DISC_MUTE" \notin NonVolatile /\ NonVolatile \subseteq Stored
    BY StoredEntries
  <2> QED
    BY <1>5, <2>1, StoredEntries
<1> HIDE DEF data, type
<1>10. dev' \in Device
  BY <1>7, <1>8 DEF Device
<1>11. DeviceOK(dev')
  BY <1>7, <1>9, <1>10, FreshDevice
<1>12. HasPersonality(dev')
  BY <1>7, <1>9, StoredEntries DEF HasPersonality
<1>13. touched' = {} /\ hushed' = FALSE
  BY <1>2, <1>3 DEF AtRest
<1>14. Kept(dev', touched') /\ MuteByte(dev', hushed')
  BY <1>7, <1>9, <1>13 DEF Kept, MuteByte
<1>15. Running(dev', touched', hushed')
  BY <1>11, <1>12, <1>13, <1>14 DEF Running
<1>16. Running(dev, touched, hushed)'
  BY <1>2, <1>15, RunningFrame
<1>17. FlashOK' /\ QueueOK'
  BY <1>2, <1>3, FlashFrame, QueueFrame
<1> QED
  BY <1>2, <1>16, <1>17 DEF ResponderInd

\* An answer, or the abort of a request that cannot be answered.
LEMMA SendResponseKeeps ==
  ASSUME ResponderInd, NEW r \in Requests, rdm_send_response(r)
  PROVE  ResponderInd'
<1>1. CASE Aborts(r)
  BY <1>1, RestartKeeps DEF rdm_send_response
<1>2. CASE ~Aborts(r)
  <2>1. /\ installed
        /\ UNCHANGED <<installed, nvs, queue, app, committing, pushes>>
    BY <1>2 DEF rdm_send_response
  <2>2. sets' = sets \/ (sets < MaxSets /\ sets' = sets + 1)
    BY <1>2 DEF rdm_send_response, Counted
  <2>3. sets' \in 0 .. MaxSets
    BY <2>2, ResponderAssumption DEF ResponderInd
  <2>4. Running(dev, touched, hushed)
    BY <2>1 DEF ResponderInd
  <2>5. Running(dev', touched', hushed')
    BY <1>2, <2>4, ResponseKeeps
  <2>6. Running(dev, touched, hushed)'
    BY <2>1, <2>5, RunningFrame
  <2>7. FlashOK' /\ QueueOK'
    BY <2>1, FlashFrame, QueueFrame DEF ResponderInd
  <2> QED
    BY <2>1, <2>3, <2>6, <2>7 DEF ResponderInd
<1> QED
  BY <1>1, <1>2

\* A set of numbers that is not empty has a least one.
LEMMA Least ==
  ASSUME NEW T \in SUBSET Nat, T # {}
  PROVE  \E x \in T : \A y \in T : x <= y
<1>0. IsWellFoundedOn(OpToRel(<, Nat), Nat)
  BY NatLessThanWellFounded, Zenon
<1> DEFINE R == OpToRel(<, Nat)
<1>1. IsWellFoundedOn(R, Nat)
  BY <1>0, Zenon
<1>2. \A x, y \in Nat : y < x => <<y, x>> \in R
  BY DEF OpToRel
<1> HIDE DEF R
<1>3. PICK x \in T : \A y \in T : ~ (<<y, x>> \in R)
  BY <1>1, WFMin
<1>4. ASSUME NEW y \in T PROVE x <= y
  <2>1. x \in Nat /\ y \in Nat
    OBVIOUS
  <2>2. ~ (y < x)
    BY <1>2, <1>3, <2>1
  <2> QED
    BY <2>1, <2>2
<1> QED
  BY <1>4

\* When the count says so, dmx_parameter_commit finds a staged entry.
LEMMA FirstIsStaged ==
  ASSUME DeviceOK(dev), ~NothingStaged
  PROVE  FirstStaged \in StagedOf(dev)
<1> DEFINE S == {i \in DOMAIN Entries :
                   /\ Entries[i].pid \in Stored
                   /\ dev.type[Entries[i].pid] = "NON_VOLATILE_STAGED"}
<1>1. IsFiniteSet(StagedOf(dev)) /\ Cardinality(StagedOf(dev)) # 0
  BY StagedBounds DEF DeviceOK, NothingStaged
<1>2. PICK p : p \in StagedOf(dev)
  BY <1>1, FS_EmptySet
<1>3. p \in NonVolatile /\ p \in Stored /\ p \in Registered
      /\ dev.type[p] = "NON_VOLATILE_STAGED"
  BY <1>2, StoredEntries DEF StagedOf
<1>4. PICK i \in DOMAIN Entries : Entries[i].pid = p
  BY <1>3 DEF Registered
<1>5. i \in S
  BY <1>3, <1>4
<1>6. S \subseteq Nat
  BY EntriesType
<1> DEFINE f == CHOOSE j \in S : \A k \in S : j <= k
<1>7. f \in S
  BY <1>5, <1>6, Least
<1>8. FirstStaged = Entries[f].pid
  BY DEF FirstStaged
<1> HIDE DEF f
<1>9. FirstStaged \in Stored /\ dev.type[FirstStaged] = "NON_VOLATILE_STAGED"
  BY <1>7, <1>8
<1>10. FirstStaged # "DISC_MUTE"
  BY <1>9 DEF DeviceOK
<1> QED
  BY <1>9, <1>10, StoredEntries DEF StagedOf

\* A receive that times out, and a commit that finds nothing to write, change the receiving
\* task only.
LEMMA NoCommitKeeps ==
  ASSUME ResponderInd, ReceiveExpires \/ (CommitPick /\ NothingStaged)
  PROVE  ResponderInd'
<1>1. /\ installed /\ committing \in {"none", "due"} /\ committing' \in {"none", "due"}
      /\ UNCHANGED <<installed, dev, nvs, queue, app, sets, pushes, touched, hushed>>
  BY DEF ReceiveExpires, CommitPick
<1>2. Running(dev, touched, hushed)
  BY <1>1 DEF ResponderInd
<1>3. Kept(dev, touched)'
  <2> SUFFICES ASSUME NEW p \in touched
               PROVE  \/ dev.type[p] = "NON_VOLATILE_STAGED" \/ committing' = p
                      \/ nvs[p] # None /\ nvs[p].value = dev.data[p]
    BY <1>1 DEF Kept
  <2>1. committing # p
    BY <1>1, <1>2, PidNames, StoredEntries DEF Running
  <2> QED
    BY <1>2, <2>1 DEF Running, Kept
<1>4. /\ DeviceOK(dev') /\ touched' \subseteq NonVolatile
      /\ HasPersonality(dev') /\ MuteByte(dev', hushed')
  BY <1>1, <1>2 DEF Running
<1>5. Running(dev, touched, hushed)'
  BY <1>3, <1>4 DEF Running, DeviceOK, Device, StagedOf, HasPersonality, MuteByte
<1>6. FlashOK' /\ QueueOK'
  BY <1>1, FlashFrame, QueueFrame DEF ResponderInd
<1> QED
  BY <1>1, <1>5, <1>6 DEF ResponderInd

\* dmx_parameter_commit takes one entry out of the staged ones, and counts it.
LEMMA CommitPickKeeps ==
  ASSUME ResponderInd, CommitPick, ~NothingStaged
  PROVE  ResponderInd'
<1> DEFINE f == FirstStaged
<1>1. /\ installed /\ committing = "due" /\ committing' = f
      /\ dev' = [dev EXCEPT !.type[f] = "NON_VOLATILE", !.staged = @ - 1]
      /\ UNCHANGED <<installed, nvs, queue, app, sets, pushes, touched, hushed>>
  BY DEF CommitPick
<1>2. DeviceOK(dev) /\ touched \subseteq NonVolatile /\ Kept(dev, touched) /\ HasPersonality(dev)
      /\ MuteByte(dev, hushed)
  BY <1>1 DEF ResponderInd, Running
<1>3. f \in StagedOf(dev)
  BY <1>1, <1>2, FirstIsStaged
<1> HIDE DEF f
<1>4. f \in NonVolatile /\ f \in Stored /\ f # "DISC_MUTE"
  BY <1>3, StoredEntries DEF StagedOf
<1>5. /\ dev.data \in [Stored -> Value] /\ dev.type \in [Stored -> Types] /\ dev.staged \in Nat
      /\ dev.count \in Counts \cup {0}
      /\ dev = [data |-> dev.data, type |-> dev.type, staged |-> dev.staged,
                count |-> dev.count]
  BY <1>2 DEF DeviceOK, Device
<1>6. /\ dev'.data = dev.data /\ dev'.type = [dev.type EXCEPT ![f] = "NON_VOLATILE"]
      /\ dev'.staged = dev.staged - 1 /\ dev'.count = dev.count
  BY <1>1, <1>5
<1>7. dev' = [data |-> dev'.data, type |-> dev'.type, staged |-> dev'.staged,
              count |-> dev'.count]
  BY <1>1, <1>5
<1>8. /\ IsFiniteSet(StagedOf(dev)) /\ dev.staged = Cardinality(StagedOf(dev))
      /\ StagedOf(dev') = StagedOf(dev) \ {f}
  <2>1. /\ dev'.type[f] = "NON_VOLATILE"
        /\ \A p \in Stored \ {f} : dev'.type[p] = dev.type[p]
    BY <1>4, <1>5, <1>6
  <2>2. NonVolatile \subseteq Stored
    BY StoredEntries
  <2>3. StagedOf(dev') = StagedOf(dev) \ {f}
    BY <2>1, <2>2 DEF StagedOf
  <2> QED
    BY <1>2, <2>3, StagedBounds DEF DeviceOK
<1>9. dev'.staged = Cardinality(StagedOf(dev'))
  <2>1. Cardinality(StagedOf(dev) \ {f}) = Cardinality(StagedOf(dev)) - 1
    BY <1>3, <1>8, FS_RemoveElement
  <2> QED
    BY <1>6, <1>8, <2>1
<1>10. dev' \in Device
  <2>1. dev'.type \in [Stored -> Types]
    BY <1>4, <1>5, <1>6 DEF Types
  <2>2. dev'.staged \in Nat
    BY <1>1, <1>5, <1>6 DEF NothingStaged
  <2> QED
    BY <1>5, <1>6, <1>7, <2>1, <2>2 DEF Device
<1>11. DeviceOK(dev')
  <2>1. \A p \in NonVolatile : dev'.type[p] \in {"NON_VOLATILE", "NON_VOLATILE_STAGED"}
    BY <1>2, <1>4, <1>5, <1>6, StoredEntries DEF DeviceOK
  <2>2. "DISC_MUTE" \in Stored => dev'.type["DISC_MUTE"] = "DYNAMIC"
    BY <1>2, <1>4, <1>5, <1>6 DEF DeviceOK
  <2> QED
    BY <1>9, <1>10, <2>1, <2>2 DEF DeviceOK
<1>12. Kept(dev, touched)'
  <2> SUFFICES ASSUME NEW p \in touched
               PROVE  \/ dev'.type[p] = "NON_VOLATILE_STAGED" \/ f = p
                      \/ nvs[p] # None /\ nvs[p].value = dev'.data[p]
    BY <1>1 DEF Kept
  <2>1. p # f => dev'.type[p] = dev.type[p] /\ dev'.data[p] = dev.data[p]
    BY <1>4, <1>5, <1>6, StoredEntries
  <2>2. committing # p
    BY <1>1, <1>2, PidNames, StoredEntries
  <2> QED
    BY <1>2, <2>1, <2>2 DEF Kept
<1>13. HasPersonality(dev') /\ MuteByte(dev', hushed')
  BY <1>1, <1>2, <1>6 DEF HasPersonality, MuteByte
<1>14. Running(dev, touched, hushed)'
  <2>1. touched' \subseteq NonVolatile
    BY <1>1, <1>2
  <2> QED
    BY <1>11, <1>12, <1>13, <2>1 DEF Running, DeviceOK, Device, StagedOf, HasPersonality, MuteByte
<1>15. FlashOK' /\ QueueOK'
  BY <1>1, FlashFrame, QueueFrame DEF ResponderInd
<1> QED
  BY <1>1, <1>4, <1>14, <1>15 DEF ResponderInd

\* The write to flash: it stores the value of the moment, or fails and the value is lost.
LEMMA CommitWriteKeeps ==
  ASSUME ResponderInd, NEW ok \in BOOLEAN, CommitWrite(ok)
  PROVE  ResponderInd'
<1> DEFINE c == committing
           v == [value |-> dev.data[c],
                 count |-> IF c = "DMX_PERSONALITY" THEN dev.count ELSE 0]
<1>1. /\ installed /\ c \in NonVolatile /\ committing' = "none"
      /\ nvs' = IF ok THEN [nvs EXCEPT ![c] = v] ELSE nvs
      /\ touched' = IF ok THEN touched ELSE touched \ {c}
      /\ UNCHANGED <<installed, dev, queue, app, sets, pushes, hushed>>
  BY DEF CommitWrite
<1>2. c \in NonVolatile /\ c \in Stored
  BY <1>1, StoredEntries DEF ResponderInd
<1>3. DeviceOK(dev) /\ touched \subseteq NonVolatile /\ Kept(dev, touched) /\ HasPersonality(dev)
      /\ MuteByte(dev, hushed)
  BY <1>1 DEF ResponderInd, Running
<1>4. FlashOK /\ DOMAIN nvs = NonVolatile
  BY DEF ResponderInd, FlashOK
<1>5. /\ v \in [value : Value, count : Counts \cup {0}] /\ v.value = dev.data[c]
      /\ c = "DMX_PERSONALITY" => v.value \in 1 .. v.count
      /\ v # None
  <2>1. dev.data[c] \in Value /\ dev.count \in Counts \cup {0}
    BY <1>2, <1>3 DEF DeviceOK, Device
  <2>2. v \in [value : Value, count : Counts \cup {0}] /\ v.value = dev.data[c]
    BY <2>1
  <2>3. c = "DMX_PERSONALITY" => v.value \in 1 .. v.count
    BY <1>2, <1>3, <2>2 DEF HasPersonality
  <2>4. v # None
    BY <2>2, ResponderAssumption DEF Value
  <2> QED
    BY <2>2, <2>3, <2>4
<1> HIDE DEF v, c
<1>6. touched' \subseteq touched
  BY <1>1
<1>7. FlashOK'
  <2>1. CASE ok
    <3>1. nvs' = [nvs EXCEPT ![c] = v]
      BY <1>1, <2>1
    <3>2. nvs' \in [NonVolatile -> {None} \cup [value : Value, count : Counts \cup {0}]]
      BY <1>4, <1>5, <3>1 DEF FlashOK
    <3>3. ASSUME "DMX_PERSONALITY" \in NonVolatile, nvs'["DMX_PERSONALITY"] # None
          PROVE  nvs'["DMX_PERSONALITY"].value \in 1 .. nvs'["DMX_PERSONALITY"].count
      <4>1. CASE c = "DMX_PERSONALITY"
        <5>1. nvs'["DMX_PERSONALITY"] = v
          BY <1>2, <1>4, <3>1, <4>1
        <5> QED
          BY <1>5, <4>1, <5>1
      <4>2. CASE c # "DMX_PERSONALITY"
        <5>1. nvs'["DMX_PERSONALITY"] = nvs["DMX_PERSONALITY"]
          BY <1>4, <3>1, <4>2
        <5> QED
          BY <1>4, <3>3, <5>1 DEF FlashOK
      <4> QED
        BY <4>1, <4>2
    <3> QED
      BY <3>2, <3>3 DEF FlashOK
  <2>2. CASE ~ok
    BY <1>1, <1>4, <2>2, FlashFrame
  <2> QED
    BY <2>1, <2>2
<1>8. Kept(dev, touched)'
  <2> SUFFICES ASSUME NEW p \in touched'
               PROVE  \/ dev.type[p] = "NON_VOLATILE_STAGED"
                      \/ nvs'[p] # None /\ nvs'[p].value = dev.data[p]
    BY <1>1 DEF Kept
  <2>1. CASE ok /\ p = c
    <3>1. nvs'[p] = v
      BY <1>1, <1>2, <1>4, <2>1
    <3> QED
      BY <1>5, <2>1, <3>1
  <2>2. CASE p # c
    <3>1. nvs'[p] = nvs[p]
      BY <1>1, <1>4, <2>2
    <3>2. p \in touched /\ committing # p
      BY <1>1, <1>6, <2>2 DEF c
    <3> QED
      BY <1>3, <3>1, <3>2 DEF Kept
  <2>3. CASE ~ok /\ p = c
    BY <1>1, <2>3
  <2> QED
    BY <2>1, <2>2, <2>3
<1>9. DeviceOK(dev') /\ touched' \subseteq NonVolatile /\ HasPersonality(dev') /\ MuteByte(dev', hushed')
  BY <1>1, <1>3, <1>6
<1>10. Running(dev, touched, hushed)'
  BY <1>8, <1>9 DEF Running, DeviceOK, Device, StagedOf, HasPersonality, MuteByte
<1>11. QueueOK'
  BY <1>1, QueueFrame DEF ResponderInd
<1> QED
  BY <1>1, <1>6, <1>7, <1>10, <1>11 DEF ResponderInd

\* The application sets a parameter: its own memory, never the byte of DISC_MUTE.
LEMMA AppSetKeeps ==
  ASSUME ResponderInd, NEW p \in Announced, NEW v \in Values, AppSet(p, v)
  PROVE  ResponderInd'
<1>1. /\ installed /\ sets < MaxSets /\ Accepts(p, v)
      /\ dev' = dmx_parameter_set(dev, p, v) /\ app' = p
      /\ sets' = sets + 1 /\ touched' = touched \cup {p}
      /\ UNCHANGED <<installed, nvs, queue, committing, pushes, hushed>>
  BY DEF AppSet
<1>2. Running(dev, touched, hushed) /\ dev \in Device
  BY <1>1 DEF ResponderInd, Running, DeviceOK
<1>3. p \in Stored /\ p \in Registered /\ Entry[p].cc = "GET_SET"
  BY StoredEntries DEF Announced
<1>4. p # "DISC_MUTE" /\ p # "DISC_UN_MUTE"
  <2>1. Entry[p] \in Declared /\ Entry[p].pid = p
    BY <1>3, EntryType
  <2> QED
    BY <1>3, <2>1, Classes
<1>5. Cell(p) = p /\ v \in Value
  BY <1>4 DEF Cell, Value
<1>6. p = "DMX_PERSONALITY" => v \in 1 .. dev.count
  BY <1>1 DEF Accepts
<1>7. dev' = SetCell(dev, p, v)
  BY <1>1, <1>2, <1>3, <1>5, SetIsSetCell
<1>8. Running(SetCell(dev, p, v), touched \cup ({p} \cap NonVolatile),
              IF p = "DISC_MUTE" THEN v # 0 ELSE hushed)
  BY <1>2, <1>3, <1>5, <1>6, SetKeeps
<1>9. (IF p = "DISC_MUTE" THEN v # 0 ELSE hushed) = hushed
  BY <1>4
<1>10. Running(dev', touched', hushed')
  <2>1. {p} \cap NonVolatile = {p}
    BY <1>3, <1>4, StoredEntries
  <2> QED
    BY <1>1, <1>7, <1>8, <1>9, <2>1
<1>11. Running(dev, touched, hushed)'
  BY <1>1, <1>10, RunningFrame
<1>12. sets' \in 0 .. MaxSets
  BY <1>1, ResponderAssumption DEF ResponderInd
<1>13. FlashOK' /\ QueueOK'
  BY <1>1, FlashFrame, QueueFrame DEF ResponderInd
<1> QED
  BY <1>1, <1>3, <1>11, <1>12, <1>13 DEF ResponderInd

\* The ring of a queue q: the same as QueueOK, for any q.
RingOK(q) ==
  /\ q \in [head : Slot, tail : Slot, data : [Slot -> Stored \cup {"none"}]]
  /\ \A k \in 0 .. RingSize(q.head, q.tail) - 1 : q.data[(q.tail + k) % QueueMax] \in Stored
  /\ \A j, k \in 0 .. RingSize(q.head, q.tail) - 1 :
       q.data[(q.tail + j) % QueueMax] = q.data[(q.tail + k) % QueueMax] => j = k

\* It is the same.
LEMMA QueueIsRing == (QueueOK <=> RingOK(queue)) /\ (QueueOK' <=> RingOK(queue'))
  BY DEF QueueOK, RingOK, RingSize, rdm_queue_size, QueueIndex

\* A PID that is not in the ring goes behind the last one, when there is room.
LEMMA PushRing ==
  ASSUME NEW q, RingOK(q), NEW p \in Stored, (q.head + 1) % QueueMax # q.tail,
         \A k \in 0 .. RingSize(q.head, q.tail) - 1 : q.data[(q.tail + k) % QueueMax] # p
  PROVE  LET x == [q EXCEPT !.data[q.head] = p, !.head = (@ + 1) % QueueMax]
         IN  /\ RingOK(x)
             /\ \E k \in 0 .. RingSize(x.head, x.tail) - 1 :
                  x.data[(x.tail + k) % QueueMax] = p
<1> DEFINE x == [q EXCEPT !.data[q.head] = p, !.head = (@ + 1) % QueueMax]
           n == RingSize(q.head, q.tail)
           At(k) == (q.tail + k) % QueueMax
<1> USE ResponderAssumption
<1>1. /\ q.head \in Slot /\ q.tail \in Slot /\ q.data \in [Slot -> Stored \cup {"none"}]
      /\ q = [head |-> q.head, tail |-> q.tail, data |-> q.data]
  BY DEF RingOK
<1>2. /\ x.head = (q.head + 1) % QueueMax /\ x.tail = q.tail
      /\ x.data = [q.data EXCEPT ![q.head] = p]
      /\ x = [head |-> x.head, tail |-> x.tail, data |-> x.data]
  <2>1. x = [q EXCEPT !.data[q.head] = p, !.head = (@ + 1) % QueueMax]
    OBVIOUS
  <2> HIDE DEF x
  <2>2. x.head = (q.head + 1) % QueueMax
    BY <1>1, <2>1
  <2>3. x.tail = q.tail
    BY <1>1, <2>1
  <2>4. x.data = [q.data EXCEPT ![q.head] = p]
    BY <1>1, <2>1
  <2>5. x = [head |-> x.head, tail |-> x.tail, data |-> x.data]
    BY <1>1, <2>1
  <2> QED
    BY <2>2, <2>3, <2>4, <2>5
<1>3. /\ n \in 0 .. QueueMax - 1 /\ At(n) = q.head
      /\ \A k \in 0 .. n - 1 : At(k) # q.head
      /\ RingSize((q.head + 1) % QueueMax, q.tail) = n + 1
  BY <1>1, RingPush
<1>4. /\ \A k \in 0 .. n - 1 : q.data[At(k)] \in Stored
      /\ \A j, k \in 0 .. n - 1 : q.data[At(j)] = q.data[At(k)] => j = k
      /\ \A k \in 0 .. n - 1 : q.data[At(k)] # p
  BY DEF RingOK
<1>5. (q.head + 1) % QueueMax \in Slot
  BY <1>1, RingIndex
<1>6. x \in [head : Slot, tail : Slot, data : [Slot -> Stored \cup {"none"}]]
  BY <1>1, <1>2, <1>5
<1>7. ASSUME NEW k \in 0 .. n - 1 PROVE At(k) \in Slot
  <2>1. k \in 0 .. QueueMax
    BY <1>3
  <2> QED
    BY <1>1, <2>1, RingIndex
<1>8. RingSize(x.head, x.tail) = n + 1
  BY <1>2, <1>3
<1>9. \A k : (x.tail + k) % QueueMax = At(k)
  BY <1>2
<1> HIDE DEF x, n, At
<1>10. x.data[At(n)] = p
  BY <1>1, <1>2, <1>3
<1>11. \A k \in 0 .. n - 1 : x.data[At(k)] = q.data[At(k)]
  BY <1>1, <1>2, <1>3, <1>7
<1>12. \A k \in 0 .. n : k = n \/ k \in 0 .. n - 1
  BY <1>3
<1>13. \A k \in 0 .. n : x.data[At(k)] \in Stored
  BY <1>4, <1>10, <1>11, <1>12
<1>14. \A j, k \in 0 .. n : x.data[At(j)] = x.data[At(k)] => j = k
  BY <1>4, <1>10, <1>11, <1>12
<1>15. 0 .. RingSize(x.head, x.tail) - 1 = 0 .. n /\ n \in 0 .. n
  BY <1>3, <1>8
<1>16. RingOK(x)
  BY <1>6, <1>9, <1>13, <1>14, <1>15 DEF RingOK
<1>17. \E k \in 0 .. RingSize(x.head, x.tail) - 1 : x.data[(x.tail + k) % QueueMax] = p
  BY <1>9, <1>10, <1>15
<1> QED
  BY <1>16, <1>17 DEF x

\* A PID is taken out of the ring at its tail.
LEMMA PopRing ==
  ASSUME NEW q, RingOK(q), RingSize(q.head, q.tail) > 0
  PROVE  RingOK([q EXCEPT !.tail = (@ + 1) % QueueMax])
<1> DEFINE x == [q EXCEPT !.tail = (@ + 1) % QueueMax]
           n == RingSize(q.head, q.tail)
           At(k) == (q.tail + k) % QueueMax
<1> USE ResponderAssumption
<1>1. /\ q.head \in Slot /\ q.tail \in Slot /\ q.data \in [Slot -> Stored \cup {"none"}]
      /\ q = [head |-> q.head, tail |-> q.tail, data |-> q.data]
  BY DEF RingOK
<1>2. /\ x.head = q.head /\ x.tail = (q.tail + 1) % QueueMax /\ x.data = q.data
      /\ x = [head |-> x.head, tail |-> x.tail, data |-> x.data]
  BY <1>1
<1>3. n \in 0 .. QueueMax - 1
  BY <1>1, RingPush
<1>4. /\ \A k \in 0 .. n - 1 : q.data[At(k)] \in Stored
      /\ \A j, k \in 0 .. n - 1 : q.data[At(j)] = q.data[At(k)] => j = k
  BY DEF RingOK
<1>5. /\ RingSize(x.head, x.tail) = n - 1
      /\ \A k \in 0 .. n - 2 : (x.tail + k) % QueueMax = At(k + 1)
  BY <1>1, <1>2, RingPop
<1>6. (q.tail + 1) % QueueMax \in Slot
  BY <1>1, RingIndex
<1>7. x \in [head : Slot, tail : Slot, data : [Slot -> Stored \cup {"none"}]]
  BY <1>1, <1>2, <1>6
<1> HIDE DEF x, n, At
<1>8. 0 .. RingSize(x.head, x.tail) - 1 = 0 .. n - 2
  BY <1>3, <1>5
<1>9. \A k \in 0 .. n - 2 : k + 1 \in 0 .. n - 1
  BY <1>3
<1>10. \A k \in 0 .. n - 2 : x.data[(x.tail + k) % QueueMax] = q.data[At(k + 1)]
  BY <1>2, <1>5
<1>11. \A k \in 0 .. n - 2 : x.data[(x.tail + k) % QueueMax] \in Stored
  BY <1>4, <1>9, <1>10
<1>12. ASSUME NEW j \in 0 .. n - 2, NEW k \in 0 .. n - 2,
              x.data[(x.tail + j) % QueueMax] = x.data[(x.tail + k) % QueueMax]
       PROVE  j = k
  <2>1. j + 1 = k + 1
    BY <1>4, <1>9, <1>10, <1>12
  <2> QED
    BY <1>3, <2>1
<1> QED
  BY <1>7, <1>8, <1>11, <1>12 DEF RingOK, x

\* rdm_queue_push reads every place of the ring that is in use, so what it adds is new.
LEMMA QueuePushKeeps ==
  ASSUME ResponderInd, NEW p \in Announced, rdm_queue_push(p)
  PROVE  ResponderInd'
<1>1. /\ installed
      /\ \/ UNCHANGED pushes
         \/ pushes < MaxPushes /\ pushes' = pushes + 1
      /\ app' \in {"idle", "hung"}
      /\ UNCHANGED <<installed, dev, nvs, committing, sets, touched, hushed>>
  BY DEF rdm_queue_push
<1>2. p \in Stored /\ RingOK(queue)
  BY QueueIsRing DEF Announced, ResponderInd
<1>3. QueueOK'
  <2>1. CASE queue' = queue
    BY <2>1, QueueFrame DEF ResponderInd
  <2>2. CASE queue' # queue
    <3>1. ~already_queued(p) /\ ~NeverMeetsHead /\ queue' = Enqueued(p)
      BY <2>2 DEF rdm_queue_push
    <3>2. /\ ~QueueFull
          /\ queue' = [queue EXCEPT !.data[queue.head] = p, !.head = (@ + 1) % QueueMax]
      BY <2>2, <3>1 DEF Enqueued
    <3>3. \A k \in 0 .. RingSize(queue.head, queue.tail) - 1 :
            queue.data[(queue.tail + k) % QueueMax] # p
      BY <3>1 DEF already_queued, Scanned, RingSize, rdm_queue_size, QueueIndex
    <3>4. RingOK(queue')
      BY <1>2, <3>2, <3>3, PushRing DEF QueueFull
    <3> QED
      BY <3>4, QueueIsRing
  <2> QED
    BY <2>1, <2>2
<1>4. pushes' \in 0 .. MaxPushes
  BY <1>1, ResponderAssumption DEF ResponderInd
<1>5. Running(dev, touched, hushed)'
  <2>1. Running(dev', touched', hushed')
    BY <1>1 DEF ResponderInd
  <2> QED
    BY <1>1, <2>1, RunningFrame
<1>6. FlashOK'
  BY <1>1, FlashFrame DEF ResponderInd
<1> QED
  BY <1>1, <1>3, <1>4, <1>5, <1>6 DEF ResponderInd

\* rdm_queue_pop takes one out.
LEMMA QueuePopKeeps ==
  ASSUME ResponderInd, rdm_queue_pop
  PROVE  ResponderInd'
<1>1. /\ installed /\ rdm_queue_size > 0
      /\ queue' = [queue EXCEPT !.tail = (@ + 1) % QueueMax]
      /\ UNCHANGED <<installed, dev, nvs, app, committing, sets, pushes, touched,
                     hushed>>
  BY DEF rdm_queue_pop
<1>2. QueueOK'
  <2>1. RingOK(queue) /\ RingSize(queue.head, queue.tail) > 0
    BY <1>1, QueueIsRing DEF ResponderInd, RingSize, rdm_queue_size
  <2>2. RingOK(queue')
    BY <1>1, <2>1, PopRing
  <2> QED
    BY <2>2, QueueIsRing
<1>3. Running(dev, touched, hushed)'
  <2>1. Running(dev', touched', hushed')
    BY <1>1 DEF ResponderInd
  <2> QED
    BY <1>1, <2>1, RunningFrame
<1>4. FlashOK'
  BY <1>1, FlashFrame DEF ResponderInd
<1> QED
  BY <1>1, <1>2, <1>3, <1>4 DEF ResponderInd

\* A step that changes nothing.
LEMMA ResponderFrame == ResponderInd /\ UNCHANGED responderVars => ResponderInd'
<1> SUFFICES ASSUME ResponderInd, UNCHANGED responderVars PROVE ResponderInd'
  OBVIOUS
<1>1. UNCHANGED <<installed, dev, nvs, queue, app, committing, sets, pushes, touched,
                  hushed>>
  BY DEF responderVars
<1>2. FlashOK' /\ QueueOK'
  BY <1>1, FlashFrame, QueueFrame DEF ResponderInd
<1>3. CASE installed
  <2>1. Running(dev', touched', hushed')
    BY <1>1, <1>3 DEF ResponderInd
  <2>2. Running(dev, touched, hushed)'
    BY <1>1, <2>1, RunningFrame
  <2> QED
    BY <1>1, <1>2, <1>3, <2>2 DEF ResponderInd
<1>4. CASE ~installed
  <2>1. AtRest'
    BY <1>1, <1>4 DEF ResponderInd, AtRest
  <2> QED
    BY <1>1, <1>2, <1>4, <2>1 DEF ResponderInd
<1> QED
  BY <1>3, <1>4

\* Every step of the responder keeps the invariant.
LEMMA ResponderStep == ResponderInd /\ [ResponderNext]_responderVars => ResponderInd'
<1> SUFFICES ASSUME ResponderInd, [ResponderNext]_responderVars PROVE ResponderInd'
  OBVIOUS
<1>1. CASE Install
  BY <1>1, InstallKeeps
<1>2. CASE Stops \/ Watchdog
  BY <1>2, RestartKeeps DEF Stops, Watchdog
<1>3. CASE \E r \in Requests : rdm_send_response(r)
  BY <1>3, SendResponseKeeps
<1>4. CASE ReceiveExpires \/ CommitPick
  BY <1>4, CommitPickKeeps, NoCommitKeeps
<1>5. CASE \E ok \in BOOLEAN : CommitWrite(ok)
  BY <1>5, CommitWriteKeeps
<1>6. CASE \E p \in Announced, v \in Values : AppSet(p, v)
  BY <1>6, AppSetKeeps
<1>7. CASE \E p \in Announced : rdm_queue_push(p)
  BY <1>7, QueuePushKeeps
<1>8. CASE rdm_queue_pop
  BY <1>8, QueuePopKeeps
<1>9. CASE UNCHANGED responderVars
  BY <1>9, ResponderFrame
<1> QED
  BY <1>1, <1>2, <1>3, <1>4, <1>5, <1>6, <1>7, <1>8, <1>9 DEF ResponderNext

\* So it always holds.
LEMMA ResponderAlways == ResponderSpec => []ResponderInd
  BY ResponderStarts, ResponderStep, PTL DEF ResponderSpec

\* The count of staged parameters is right, every value that was set is in flash, staged
\* or being written unless its write failed, and the queue holds each PID once: for every
\* table of parameters, size of the queue, versions of the firmware and sequence of
\* requests, sets, commits and restarts.
THEOREM ResponderSafe == ResponderSpec => []ResponderInv
<1>1. ResponderInd => ResponderInv
  <2> SUFFICES ASSUME ResponderInd PROVE ResponderInv
    OBVIOUS
  <2>1. DeviceOK(dev) /\ touched \subseteq NonVolatile /\ hushed \in BOOLEAN
    BY NoDeviceOK DEF ResponderInd, Running, MuteByte, AtRest
  <2>2. ResponderTypeOK
    BY <2>1, StagedBounds DEF ResponderTypeOK, ResponderInd, FlashOK, QueueOK
  <2>3. StagedCount
    BY <2>1 DEF StagedCount, DeviceOK, StagedOf
  <2>4. NothingForgotten
    BY DEF NothingForgotten, ResponderInd, Running, Kept
  <2>5. QueueOnce
    BY QueueIsOnce DEF ResponderInd
  <2> QED
    BY <2>2, <2>3, <2>4, <2>5 DEF ResponderInv
<1> QED
  BY <1>1, ResponderAlways, PTL

\* The personality is always one that this firmware has.
THEOREM PersonalityAlwaysExists == ResponderSpec => []PersonalityExists
<1>1. ResponderInd => PersonalityExists
  BY DEF ResponderInd, Running, HasPersonality, PersonalityExists
<1> QED
  BY <1>1, ResponderAlways, PTL

\* A branch that holds the device is answered exactly when the device is not muted.
LEMMA BranchReply ==
  ASSUME "DISC_UNIQUE_BRANCH" \in Registered
  PROVE  Sends(Request("DISC", "DISC_UNIQUE_BRANCH", "broadcast", "ROOT", 0, TRUE))
           <=> dev.data["DISC_MUTE"] = 0
<1> DEFINE r == Request("DISC", "DISC_UNIQUE_BRANCH", "broadcast", "ROOT", 0, TRUE)
           entry == Entry["DISC_UNIQUE_BRANCH"]
<1>1. /\ r.cc = "DISC" /\ r.pid = "DISC_UNIQUE_BRANCH" /\ r.dest = "broadcast"
      /\ r.sub = "ROOT" /\ r.value = 0 /\ r.inside = TRUE
  BY DEF Request
<1>2. entry.cc = "DISC" /\ entry.get = "discovery"
  <2>1. entry \in Declared /\ entry.pid = "DISC_UNIQUE_BRANCH"
    BY EntryType
  <2>2. \A e \in Declared : e.pid = "DISC_UNIQUE_BRANCH" => e = rdm_register_disc_unique_branch
    BY DEF Declared, Parameter, rdm_register_disc_unique_branch, rdm_register_disc_mute,
           rdm_register_disc_un_mute, rdm_register_device_info,
           rdm_register_software_version_label, rdm_register_manufacturer_label,
           rdm_register_device_model_description, rdm_register_device_label,
           rdm_register_identify_device, rdm_register_reset_device,
           rdm_register_dmx_start_address, rdm_register_dmx_personality,
           rdm_register_dmx_personality_description, rdm_register_device_hours,
           rdm_register_lamp_hours, rdm_register_queued_message,
           rdm_register_supported_parameters, rdm_register_parameter_description
  <2> QED
    BY <2>1, <2>2 DEF rdm_register_disc_unique_branch, Parameter
<1> HIDE DEF r
<1>3. ~WrongClass(entry.cc, r) /\ ~(entry.cc = "DISC" /\ r.cc # "DISC")
  BY <1>1, <1>2 DEF WrongClass
<1>4. Reply(r) = Handled("discovery", r)
  BY <1>1, <1>2, <1>3 DEF Reply
<1>5. Handled("discovery", r) = rdm_rhd_discovery(r)
  BY DEF Handled
<1>6. rdm_rhd_discovery(r) = IF dev.data["DISC_MUTE"] # 0 \/ r.value = None \/ ~r.inside
                             THEN Silence ELSE rdm_write_ack(<< >>)
  BY <1>1, DiscoveryWrites
<1>7. r.value # None
  BY <1>1, ResponderAssumption
<1>8. Reply(r).reply = IF dev.data["DISC_MUTE"] # 0 THEN "none" ELSE "ack"
  BY <1>1, <1>4, <1>5, <1>6, <1>7 DEF Silence, rdm_write_ack
<1>9. ~HandlerFault(r)
  BY <1>1 DEF HandlerFault
<1> QED
  BY <1>1, <1>8, <1>9 DEF Sends, r

\* A device answers a branch that holds it until it is muted and is silent until it is
\* un-muted or reset.  A table of one entry has the branch without the mute byte; the
\* driver is meant to have none or at least seven (driver.c:101-106).
THEOREM MutedSilent == Capacity # 1 => (ResponderSpec => []MutedIsSilent)
<1> SUFFICES ASSUME Capacity # 1 PROVE ResponderSpec => []MutedIsSilent
  OBVIOUS
<1>1. ResponderInd => MutedIsSilent
  <2> SUFFICES ASSUME ResponderInd, installed
               PROVE  Sends(Request("DISC", "DISC_UNIQUE_BRANCH", "broadcast", "ROOT", 0, TRUE))
                        <=> ~hushed
    BY DEF MutedIsSilent
  <2>1. MuteByte(dev, hushed)
    BY DEF ResponderInd, Running
  <2>2. CASE Capacity >= 2
    <3>1. "DISC_UNIQUE_BRANCH" \in Registered /\ "DISC_MUTE" \in Registered
      BY <2>2, EntriesType DEF Registered, rdm_register_disc_unique_branch,
         rdm_register_disc_mute, Parameter
    <3>2. "DISC_MUTE" \in Stored
      BY <3>1 DEF Stored
    <3> QED
      BY <2>1, <3>1, <3>2, BranchReply DEF MuteByte
  <2>3. CASE Capacity = 0
    <3> DEFINE r == Request("DISC", "DISC_UNIQUE_BRANCH", "broadcast", "ROOT", 0, TRUE)
    <3>1. Registered = {} /\ "DISC_MUTE" \notin Stored
      BY <2>3, EntriesType DEF Registered, Stored
    <3>2. hushed = FALSE
      BY <2>1, <3>1 DEF MuteByte
    <3>3. Reply(r).reply = "nack" /\ r.pid = "DISC_UNIQUE_BRANCH"
      BY <3>1 DEF Reply, Nack, Request
    <3>4. Sends(r)
      BY <3>3 DEF Sends
    <3> QED
      BY <3>2, <3>4
  <2>4. Capacity = 0 \/ Capacity >= 2
    BY ResponderAssumption
  <2> QED
    BY <2>2, <2>3, <2>4
<1> QED
  BY <1>1, ResponderAlways, PTL

\* When rdm_queue_push returns from a set, its PID is queued, unless the queue was full or
\* its head had wrapped to 0.
THEOREM ChangesQueued == ResponderSpec => ChangeIsQueued
<1> DEFINE Step == (app \in Stored /\ app' = "idle" /\ installed') =>
                     (app \in Queued' \/ QueueFull \/ NeverMeetsHead)
<1>1. ResponderInd /\ ResponderInd' /\ [ResponderNext]_responderVars => [Step]_responderVars
  <2> SUFFICES ASSUME ResponderInd, ResponderNext, app \in Stored, app' = "idle", installed',
                      ~QueueFull, ~NeverMeetsHead
               PROVE  app \in Queued'
    OBVIOUS
  <2>0. app # "idle" /\ app # "hung" /\ app' # app
    BY PidNames
  <2>1. CASE Install
    BY <2>0, <2>1 DEF Install
  <2>2. CASE Stops \/ Watchdog
    BY <2>2 DEF Stops, Watchdog, Restart
  <2>3. CASE \E r \in Requests : rdm_send_response(r)
    BY <2>0, <2>3 DEF rdm_send_response, Restart
  <2>4. CASE \/ ReceiveExpires \/ CommitPick
             \/ (\E ok \in BOOLEAN : CommitWrite(ok)) \/ rdm_queue_pop
    BY <2>0, <2>4 DEF ReceiveExpires, CommitPick, CommitWrite, rdm_queue_pop
  <2>5. CASE \E p \in Announced, v \in Values : AppSet(p, v)
    BY <2>0, <2>5 DEF AppSet
  <2>6. CASE \E p \in Announced : rdm_queue_push(p)
    <3>1. PICK p \in Announced : rdm_queue_push(p)
      BY <2>6
    <3>2. app = p /\ p \in Stored
      BY <2>0, <3>1 DEF rdm_queue_push
    <3>3. RingOK(queue)
      BY QueueIsRing DEF ResponderInd
    <3>4. CASE already_queued(p)
      <4>1. queue' = queue
        BY <3>1, <3>4 DEF rdm_queue_push
      <4>2. PICK k \in 0 .. rdm_queue_size - 1 : queue.data[QueueIndex(k)] = p
        BY <3>4 DEF already_queued, Scanned
      <4>3. p \in Queued
        BY <4>2 DEF Queued
      <4>4. Queued' = Queued
        BY <4>1 DEF Queued, rdm_queue_size, QueueIndex
      <4> QED
        BY <3>2, <4>3, <4>4
    <3>5. CASE ~already_queued(p)
      <4>1. queue' = [queue EXCEPT !.data[queue.head] = p, !.head = (@ + 1) % QueueMax]
        BY <3>1, <3>5 DEF rdm_queue_push, Enqueued
      <4>2. \A k \in 0 .. RingSize(queue.head, queue.tail) - 1 :
              queue.data[(queue.tail + k) % QueueMax] # p
        BY <3>5 DEF already_queued, Scanned, RingSize, rdm_queue_size, QueueIndex
      <4>3. \E k \in 0 .. RingSize(queue'.head, queue'.tail) - 1 :
              queue'.data[(queue'.tail + k) % QueueMax] = p
        <5> DEFINE x == [queue EXCEPT !.data[queue.head] = p, !.head = (@ + 1) % QueueMax]
        <5>1. (queue.head + 1) % QueueMax # queue.tail
          BY DEF QueueFull
        <5>2. \E k \in 0 .. RingSize(x.head, x.tail) - 1 :
                x.data[(x.tail + k) % QueueMax] = p
          BY <3>2, <3>3, <4>2, <5>1, PushRing, Zenon
        <5> HIDE DEF x
        <5> QED
          BY <4>1, <5>2 DEF x
      <4>4. rdm_queue_size' = RingSize(queue'.head, queue'.tail)
        BY DEF RingSize, rdm_queue_size
      <4>5. PICK k \in 0 .. rdm_queue_size' - 1 : queue'.data[(queue'.tail + k) % QueueMax] = p
        BY <4>3, <4>4
      <4>6. p \in Queued'
        BY <4>5 DEF Queued, QueueIndex
      <4> QED
        BY <3>2, <4>6
    <3> QED
      BY <3>4, <3>5
  <2> QED
    BY <2>1, <2>2, <2>3, <2>4, <2>5, <2>6 DEF ResponderNext
<1>2. ResponderSpec => [][ResponderNext]_responderVars
  BY PTL DEF ResponderSpec
<1> QED
  BY <1>1, <1>2, ResponderAlways, PTL DEF ChangeIsQueued
=============================================================================
