----------------------------- MODULE FleetProofs ----------------------------
(***************************************************************************)
(* Proofs about fleet control: for every fleet and every table, queue      *)
(* length and number of consoles, the last command for everyone is what    *)
(* the fleet shows once it has arrived, whatever became of earlier ones.   *)
(***************************************************************************)
EXTENDS Fleet, FiniteSetTheorems, TLAPS

Open == {c \in Consoles : web[c] # Idle}

\* A command is forwarded once at most, and a number is given to one command.
CountOK ==
  /\ queue \in [Consoles -> Seq(Entry)]
  /\ sends + Cardinality(Open) <= cmds
  /\ \A c \in Consoles :
       /\ \A i \in DOMAIN queue[c] : queue[c][i].no <= sends
       /\ task[c].entry.no <= sends
       /\ task[c].left # {} => task[c].entry # NoEntry
  /\ \A r \in net : r.no <= sends
  /\ \A k \in Kind : last[k].no <= sends

\* No console forwards to itself.
OthersOK ==
  /\ \A c \in Consoles :
       /\ c \notin table[c] /\ c \notin task[c].left
       /\ \A i \in DOMAIN queue[c] : queue[c][i].to # c
  /\ \A r \in net : r.to # r.from

\* The queue and the task of a console keep the order of the commands.
OrderOK ==
  \A c \in Consoles :
    \A j \in DOMAIN queue[c] :
      /\ task[c].entry.no < queue[c][j].no
      /\ \A i \in DOMAIN queue[c] : i < j => queue[c][i].no < queue[c][j].no

\* Entry e of console c is no later than the last command of its kind, or is a copy of it.
CopyOK(c, e, k) ==
  e.kind = k => /\ e.no <= last[k].no
                /\ e.no = last[k].no => e.cmd = last[k].cmd /\ e.to = Everyone /\ c = last[k].from

\* The web task of n is not between the two halves of a command of kind k.
Calm(n, k) == n \in Consoles => web[n].kind # k

Shows(n, k) == heard[n][k] = last[k].no /\ (Calm(n, k) => shown[n][k] = last[k].cmd)

\* The command is on its way to n, or n shows it and no older one is on its way from
\* the same console.
Reaches(n, k) ==
  LET t == task[last[k].from]
  IN  \/ t.entry.kind = k /\ t.entry.no = last[k].no /\ n \in t.left
      \/ \E r \in net : r.to = n /\ r.kind = k /\ r.no = last[k].no
      \/ /\ Shows(n, k)
         /\ \A q \in net : q.to = n /\ q.kind = k /\ q.no < last[k].no => q.from # last[k].from

\* Nothing that looks like the last command of kind k is anything but a copy of it.
CopiesOK(k) ==
  /\ \A c \in Consoles : /\ \A i \in DOMAIN queue[c] : CopyOK(c, queue[c][i], k)
                         /\ CopyOK(c, task[c].entry, k)
  /\ \A r \in net : r.kind = k =>
       /\ r.no <= last[k].no
       /\ r.no = last[k].no => r.cmd = last[k].cmd /\ r.from = last[k].from

\* Once bcastTask has taken the command, its console sends nothing older any more.
TakenOK(k) ==
  told[k] # {} =>
    /\ \A i \in DOMAIN queue[last[k].from] : queue[last[k].from][i].no > last[k].no
    /\ task[last[k].from].entry # NoEntry => task[last[k].from].entry.no >= last[k].no

\* What clean says of the last command for everyone.
CleanOK(k) ==
  clean[k] =>
    /\ last[k].from \in Consoles
    /\ CopiesOK(k)
    /\ TakenOK(k)
    /\ Shows(last[k].from, k)
    /\ \A n \in told[k] : Reaches(n, k)

\* The inductive invariant.
Inv == TypeOK /\ CountOK /\ OthersOK /\ OrderOK /\ \A k \in Kind : CleanOK(k)

-----------------------------------------------------------------------------
(* Queues.                                                                  *)

\* An entry that is accepted is the last one of its queue.
LEMMA EnqueueFacts ==
  ASSUME TypeOK, CountOK, NEW c \in Consoles, NEW e \in Entry, queue' = enqueueBcast(c, e)
  PROVE  /\ queue' \in [Consoles -> Seq(Entry)]
         /\ \A d \in Consoles : Len(queue'[d]) <= BCAST_CAP
         /\ \A d \in Consoles : \A i \in DOMAIN queue'[d] :
              \/ i \in DOMAIN queue[d] /\ queue'[d][i] = queue[d][i]
              \/ d = c /\ i = Len(queue[c]) + 1 /\ queue'[d][i] = e
<1>1. queue[c] \in Seq(Entry) /\ BCAST_CAP \in Nat
  BY FleetAssumption DEF CountOK
<1>2. CASE queue' = queue
  BY <1>2 DEF TypeOK, CountOK
<1>3. CASE HasRoom(c) /\ queue' = [queue EXCEPT ![c] = Append(@, e)]
  <2>1. queue'[c] = Append(queue[c], e) /\ \A d \in Consoles \ {c} : queue'[d] = queue[d]
    BY <1>3 DEF CountOK
  <2>2. /\ queue'[c] \in Seq(Entry) /\ Len(queue'[c]) <= BCAST_CAP
        /\ \A i \in DOMAIN queue'[c] : \/ i \in DOMAIN queue[c] /\ queue'[c][i] = queue[c][i]
                                       \/ i = Len(queue[c]) + 1 /\ queue'[c][i] = e
    <3>1. \A q \in Seq(Entry) : Append(q, e) \in Seq(Entry) /\ Len(Append(q, e)) = Len(q) + 1
      OBVIOUS
    <3>2. \A q \in Seq(Entry) : \A i \in DOMAIN Append(q, e) :
            \/ i \in DOMAIN q /\ Append(q, e)[i] = q[i]
            \/ i = Len(q) + 1 /\ Append(q, e)[i] = e
      <4> TAKE q \in Seq(Entry)
      <4>1. DOMAIN Append(q, e) = 1 .. (Len(q) + 1) /\ DOMAIN q = 1 .. Len(q) /\ Len(q) \in Nat
        OBVIOUS
      <4>2. \A i \in 1 .. Len(q) : Append(q, e)[i] = q[i]
        OBVIOUS
      <4>3. Append(q, e)[Len(q) + 1] = e
        OBVIOUS
      <4>4. \A i \in 1 .. (Len(q) + 1) : i \in 1 .. Len(q) \/ i = Len(q) + 1
        BY <4>1
      <4> QED
        BY <4>1, <4>2, <4>3, <4>4
    <3>3. Len(queue[c]) + 1 <= BCAST_CAP
      BY <1>1, <1>3 DEF HasRoom
    <3>4. queue'[c] \in Seq(Entry) /\ Len(queue'[c]) = Len(queue[c]) + 1
      BY <1>1, <2>1, <3>1
    <3>5. \A i \in DOMAIN queue'[c] : \/ i \in DOMAIN queue[c] /\ queue'[c][i] = queue[c][i]
                                      \/ i = Len(queue[c]) + 1 /\ queue'[c][i] = e
      BY <1>1, <2>1, <3>2, Zenon
    <3> QED
      BY <3>3, <3>4, <3>5
  <2>3. queue' \in [Consoles -> Seq(Entry)]
    BY <1>3, <2>2 DEF CountOK
  <2> QED
    BY <2>1, <2>2, <2>3 DEF TypeOK
<1> QED
  BY <1>2, <1>3 DEF enqueueBcast

\* The first entry leaves, the others move up.
LEMMA DequeueFacts ==
  ASSUME TypeOK, CountOK, NEW c \in Consoles, queue[c] # << >>, queue' = [queue EXCEPT ![c] = Tail(@)]
  PROVE  /\ queue' \in [Consoles -> Seq(Entry)]
         /\ \A d \in Consoles : Len(queue'[d]) <= BCAST_CAP
         /\ Head(queue[c]) \in Entry /\ 1 \in DOMAIN queue[c] /\ Head(queue[c]) = queue[c][1]
         /\ \A i \in DOMAIN queue'[c] : /\ i + 1 \in DOMAIN queue[c] /\ 1 < i + 1 /\ i \in Nat
                                        /\ queue'[c][i] = queue[c][i + 1]
         /\ \A d \in Consoles \ {c} : queue'[d] = queue[d]
<1>1. queue[c] \in Seq(Entry) /\ BCAST_CAP \in Nat
  BY FleetAssumption DEF CountOK
<1>2. queue'[c] = Tail(queue[c]) /\ \A d \in Consoles \ {c} : queue'[d] = queue[d]
  BY DEF CountOK
<1>3. /\ queue'[c] \in Seq(Entry) /\ Len(queue'[c]) <= Len(queue[c])
      /\ Head(queue[c]) \in Entry /\ 1 \in DOMAIN queue[c] /\ Head(queue[c]) = queue[c][1]
      /\ \A i \in DOMAIN queue'[c] : /\ i + 1 \in DOMAIN queue[c] /\ 1 < i + 1 /\ i \in Nat
                                     /\ queue'[c][i] = queue[c][i + 1]
  <2>1. queue[c] # << >>
    OBVIOUS
  <2>2. \A q \in Seq(Entry) : q # << >> =>
          Tail(q) \in Seq(Entry) /\ Len(Tail(q)) = Len(q) - 1 /\ Len(q) \in Nat \ {0}
    OBVIOUS
  <2>3. \A q \in Seq(Entry) : q # << >> => Head(q) \in Entry /\ 1 \in DOMAIN q /\ Head(q) = q[1]
    OBVIOUS
  <2>4. \A q \in Seq(Entry) : q # << >> => \A i \in DOMAIN Tail(q) :
          i + 1 \in DOMAIN q /\ i \in Nat \ {0} /\ Tail(q)[i] = q[i + 1]
    OBVIOUS
  <2>5. \A i \in Nat \ {0} : 1 < i + 1
    OBVIOUS
  <2>6. Len(queue'[c]) <= Len(queue[c])
    BY <1>1, <1>2, <2>1, <2>2
  <2>7. \A i \in DOMAIN queue'[c] : i + 1 \in DOMAIN queue[c] /\ i \in Nat \ {0}
                                   /\ queue'[c][i] = queue[c][i + 1]
    BY <1>1, <1>2, <2>1, <2>4, Zenon
  <2>8. queue'[c] \in Seq(Entry)
    BY <1>1, <1>2, <2>1, <2>2, Zenon
  <2>9. Head(queue[c]) \in Entry /\ 1 \in DOMAIN queue[c] /\ Head(queue[c]) = queue[c][1]
    BY <1>1, <2>1, <2>3, Zenon
  <2> QED
    BY <2>5, <2>6, <2>7, <2>8, <2>9
<1>4. queue' \in [Consoles -> Seq(Entry)]
  BY <1>3 DEF CountOK
<1>5. Len(queue'[c]) <= BCAST_CAP
  <2>1. Len(queue[c]) <= BCAST_CAP
    BY DEF TypeOK
  <2>2. Len(queue'[c]) \in Nat /\ Len(queue[c]) \in Nat
    BY <1>1, <1>3
  <2> QED
    BY <1>1, <1>3, <2>1, <2>2
<1> QED
  BY <1>2, <1>3, <1>4, <1>5 DEF TypeOK

\* An idle web task forwards nothing.
LEMMA WebFacts ==
  ASSUME TypeOK, NEW c \in Consoles
  PROVE  /\ web[c] # Idle => web[c].kind \in Kind /\ web[c].cmd \in Numbers
         /\ web[c] = Idle => web[c].kind \notin Kind
         /\ c \in Node
  BY FleetAssumption DEF TypeOK, Idle, Kind

\* What NetForward puts into the queue is an entry of its type.
LEMMA ForwardFacts ==
  ASSUME TypeOK, CountOK, NEW c \in Consoles, NetForward(c)
  PROVE  /\ web[c].kind \in Kind /\ Path(c) \in Numbers /\ sends' = sends + 1 /\ sends' \in Numbers
         /\ [kind |-> web[c].kind, cmd |-> Path(c), no |-> sends', to |-> Everyone] \in Entry
<1>1. web[c].kind \in Kind /\ web[c].cmd \in Numbers /\ c \in Node
  BY WebFacts DEF NetForward
<1>2. Path(c) \in Numbers
  BY <1>1 DEF Path, TypeOK, Kind
<1>3. c \in Open /\ IsFiniteSet(Open)
  <2>1. IsFiniteSet(Consoles)
    BY FleetAssumption, FS_Subset
  <2> QED
    BY <2>1, FS_Subset DEF Open, NetForward
<1>4. Cardinality(Open) \in Nat \ {0}
  BY <1>3, FS_CardinalityType, FS_EmptySet
<1>5. sends' = sends + 1 /\ sends' \in Numbers
  BY <1>4, FleetAssumption DEF NetForward, CountOK, TypeOK, Numbers
<1> QED
  BY <1>1, <1>2, <1>5 DEF Entry

\* So is what PeerCmd puts into it.
LEMMA PeerFacts ==
  ASSUME TypeOK, CountOK, NEW c \in Consoles, NEW p \in Node, NEW k \in Kind, PeerCmd(c, p, k)
  PROVE  /\ sends' = sends + 1 /\ sends' \in Numbers /\ cmds' \in Numbers
         /\ [kind |-> k, cmd |-> cmds', no |-> sends', to |-> p] \in Entry
<1>1. Cardinality(Open) \in Nat
  <2>1. IsFiniteSet(Open)
    BY FleetAssumption, FS_Subset DEF Open
  <2> QED
    BY <2>1, FS_CardinalityType
<1>2. sends' = sends + 1 /\ sends' \in Numbers /\ cmds' \in Numbers
  BY <1>1, FleetAssumption DEF PeerCmd, CountOK, TypeOK, Numbers
<1> QED
  BY <1>2 DEF Entry

-----------------------------------------------------------------------------
(* Types.                                                                   *)

\* Every step keeps the types.
LEMMA TypeKept ==
  ASSUME TypeOK, CountOK, Next
  PROVE  TypeOK'
<1> USE FleetAssumption
<1>0. cmds < MaxCmds => cmds + 1 \in Numbers
  BY DEF TypeOK, Numbers
<1>1. ASSUME NEW n \in Node, NEW k \in Kind, Command(n, k) PROVE TypeOK'
  <2>1. cmds' \in Numbers
    BY <1>0, <1>1 DEF Command
  <2>2. shown' \in [Node -> [Kind -> Numbers]] /\ clean' \in [Kind -> BOOLEAN]
    BY <1>1, <2>1 DEF Command, TypeOK
  <2> QED
    BY <1>1, <2>1, <2>2 DEF Command, TypeOK
<1>2. ASSUME NEW c \in Consoles, NEW k \in Kind, NetChange(c, k) PROVE TypeOK'
  <2>1. cmds' \in Numbers
    BY <1>0, <1>2 DEF NetChange
  <2>2. /\ shown' \in [Node -> [Kind -> Numbers]]
        /\ web' \in [Consoles -> [kind : Kind, cmd : Numbers] \cup {Idle}]
    BY <1>2, <2>1 DEF NetChange, TypeOK
  <2> QED
    BY <1>2, <2>1, <2>2 DEF NetChange, TypeOK, history
<1>3. ASSUME NEW c \in Consoles, NetSync(c) PROVE TypeOK'
  <2>1. cmds' \in Numbers
    BY <1>0, <1>3 DEF NetSync
  <2>2. web' \in [Consoles -> [kind : Kind, cmd : Numbers] \cup {Idle}]
    <3>1. shown[c]["master"] \in Numbers /\ "master" \in Kind
      BY DEF TypeOK, Kind
    <3> QED
      BY <1>3, <3>1 DEF NetSync, TypeOK
  <2> QED
    BY <1>3, <2>1, <2>2 DEF NetSync, TypeOK, history
<1>4. ASSUME NEW c \in Consoles, NetForward(c) PROVE TypeOK'
  <2> DEFINE k == web[c].kind
  <2>1. k \in Kind /\ sends' \in Numbers /\ c \in Node /\ shown[c][k] \in Numbers
    <3>1. k \in Kind /\ sends' \in Numbers /\ c \in Node
      BY <1>4, ForwardFacts
    <3> HIDE DEF k
    <3> QED
      BY <3>1 DEF TypeOK
  <2>2. \A d \in Consoles : queue'[d] \in Seq(Entry) /\ Len(queue'[d]) <= BCAST_CAP
    BY <1>4, ForwardFacts, EnqueueFacts DEF NetForward
  <2>3. web' \in [Consoles -> [kind : Kind, cmd : Numbers] \cup {Idle}]
    BY <1>4 DEF NetForward, TypeOK
  <2>4. heard' \in [Node -> [Kind -> Numbers]] /\ told' \in [Kind -> SUBSET Node]
    <3>1. heard' = [heard EXCEPT ![c][k] = sends'] /\ told' = [told EXCEPT ![k] = {}]
      BY <1>4 DEF NetForward
    <3>2. heard \in [Node -> [Kind -> Numbers]] /\ told \in [Kind -> SUBSET Node]
      BY DEF TypeOK
    <3> HIDE DEF k
    <3> QED
      BY <2>1, <3>1, <3>2
  <2>5. last' \in [Kind -> [no : Numbers, cmd : Numbers, from : Consoles \cup {Nobody}]]
    <3>1. [no |-> sends', cmd |-> shown[c][k], from |-> c] \in [no : Numbers, cmd : Numbers, from : Consoles \cup {Nobody}]
      BY <2>1
    <3>2. last' = [last EXCEPT ![k] = [no |-> sends', cmd |-> shown[c][k], from |-> c]]
      BY <1>4 DEF NetForward
    <3> QED
      BY <2>1, <3>1, <3>2 DEF TypeOK
  <2>6. clean' \in [Kind -> BOOLEAN]
    <3>1. PICK b \in BOOLEAN : clean' = [clean EXCEPT ![k] = b]
      BY <1>4 DEF NetForward
    <3> QED
      BY <3>1 DEF TypeOK
  <2> QED
    BY <1>4, <2>1, <2>2, <2>3, <2>4, <2>5, <2>6 DEF NetForward, TypeOK
<1>5. ASSUME NEW c \in Consoles, NEW p \in Node \ {c}, NEW k \in Kind, PeerCmd(c, p, k) PROVE TypeOK'
  <2>1. sends' \in Numbers /\ cmds' \in Numbers
    BY <1>5, PeerFacts
  <2>2. \A d \in Consoles : queue'[d] \in Seq(Entry) /\ Len(queue'[d]) <= BCAST_CAP
    BY <1>5, PeerFacts, EnqueueFacts DEF PeerCmd
  <2>3. clean' \in [Kind -> BOOLEAN]
    BY <1>5 DEF PeerCmd, TypeOK
  <2> QED
    BY <1>5, <2>1, <2>2, <2>3 DEF PeerCmd, TypeOK
<1>6. ASSUME NEW c \in Consoles, TakeEntry(c) PROVE TypeOK'
  <2> DEFINE e == Head(queue[c])
             left == IF e.to = Everyone THEN table[c] ELSE {e.to}
  <2>1. /\ e \in Entry /\ \A d \in Consoles : queue'[d] \in Seq(Entry) /\ Len(queue'[d]) <= BCAST_CAP
    BY <1>6, DequeueFacts DEF TakeEntry
  <2>2. left \subseteq Node
    BY <2>1 DEF Entry, TypeOK
  <2>3. PICK x \in Entry \cup {NoEntry} : task' = [task EXCEPT ![c] = [entry |-> x, left |-> left]]
    BY <1>6, <2>1 DEF TakeEntry
  <2>4. told' \in [Kind -> SUBSET Node]
    BY <1>6, <2>1 DEF TakeEntry, TypeOK
  <2> HIDE DEF e, left
  <2>5. task' \in [Consoles -> [entry : Entry \cup {NoEntry}, left : SUBSET Node]]
    BY <2>2, <2>3 DEF TypeOK
  <2> QED
    BY <1>6, <2>1, <2>4, <2>5 DEF TakeEntry, TypeOK
<1>7. ASSUME NEW c \in Consoles, TakeBusy(c) PROVE TypeOK'
  <2>1. \A d \in Consoles : queue'[d] \in Seq(Entry) /\ Len(queue'[d]) <= BCAST_CAP
    BY <1>7, DequeueFacts DEF TakeBusy
  <2>2. clean' \in [Kind -> BOOLEAN]
    BY <1>7, DequeueFacts DEF TakeBusy, Spoiled, TypeOK, Entry
  <2> QED
    BY <1>7, <2>1, <2>2 DEF TakeBusy, TypeOK
<1>8. ASSUME NEW c \in Consoles, NEW p \in Node, p \in task[c].left, task' = [task EXCEPT ![c] = AfterPeer(c, p)]
      PROVE  task' \in [Consoles -> [entry : Entry \cup {NoEntry}, left : SUBSET Node]]
  <2>1. AfterPeer(c, p) \in [entry : Entry \cup {NoEntry}, left : SUBSET Node]
    BY DEF AfterPeer, TypeOK
  <2> QED
    BY <1>8, <2>1 DEF TypeOK
<1>9. ASSUME NEW c \in Consoles, NEW p \in Node, sendPeerGet(c, p) PROVE TypeOK'
  <2>1. [kind |-> task[c].entry.kind, cmd |-> task[c].entry.cmd, no |-> task[c].entry.no,
         from |-> c, to |-> p] \in Request
    <3>1. task[c].entry \in Entry
      BY <1>9 DEF sendPeerGet, TypeOK, CountOK
    <3> QED
      BY <3>1 DEF Entry, Request
  <2>2. net' \subseteq Request
    BY <1>9, <2>1 DEF sendPeerGet, TypeOK
  <2> QED
    BY <1>8, <1>9, <2>2 DEF sendPeerGet, TypeOK, history
<1>10. ASSUME NEW c \in Consoles, NEW p \in Node, SendFails(c, p) PROVE TypeOK'
  <2>1. clean' \in [Kind -> BOOLEAN]
    BY <1>10 DEF SendFails, Spoiled, TypeOK
  <2> QED
    BY <1>8, <1>10, <2>1 DEF SendFails, TypeOK
<1>11. ASSUME NEW c \in Consoles, NEW p \in Movers \ {c}, TableChanges(c, p) PROVE TypeOK'
  <2>1. table' \in [Consoles -> SUBSET Node]
    BY <1>11 DEF TableChanges, TypeOK
  <2> QED
    BY <1>11, <2>1 DEF TableChanges, TypeOK, history
<1>12. ASSUME NEW r \in net, Handle(r) PROVE TypeOK'
  <2>1. r \in Request
    BY DEF TypeOK
  <2>2. shown' \in [Node -> [Kind -> Numbers]] /\ heard' \in [Node -> [Kind -> Numbers]]
    BY <1>12, <2>1 DEF Handle, TypeOK, Request
  <2>3. clean' \in [Kind -> BOOLEAN]
    <3>1. PICK b \in BOOLEAN : clean' = [clean EXCEPT ![r.kind] = b]
      BY <1>12, <2>1 DEF Handle, TypeOK, Request
    <3> QED
      BY <3>1 DEF TypeOK
  <2> QED
    BY <1>12, <2>2, <2>3 DEF Handle, TypeOK
<1>13. ASSUME NEW r \in net, Lose(r) PROVE TypeOK'
  <2>1. clean' \in [Kind -> BOOLEAN]
    BY <1>13 DEF Lose, Spoiled, TypeOK, Request
  <2> QED
    BY <1>13, <2>1 DEF Lose, TypeOK
<1> QED
  BY <1>1, <1>2, <1>3, <1>4, <1>5, <1>6, <1>7, <1>9, <1>10, <1>11, <1>12, <1>13 DEF Next

-----------------------------------------------------------------------------
(* Numbers.                                                                 *)

\* The numbers that the invariant compares.
LEMMA NumberFacts ==
  ASSUME TypeOK, CountOK
  PROVE  /\ sends \in Nat /\ cmds \in Nat
         /\ \A c \in Consoles : task[c].entry.no \in Nat
         /\ \A c \in Consoles : \A i \in DOMAIN queue[c] :
              queue[c][i] \in Entry /\ queue[c][i].no \in Nat /\ i \in Nat
         /\ \A r \in net : r \in Request /\ r.no \in Nat
         /\ \A k \in Kind : last[k].no \in Nat
         /\ \A n \in Node : \A k \in Kind : heard[n][k] \in Nat
<1>1. Numbers \subseteq Nat
  BY FleetAssumption DEF Numbers
<1>2. \A c \in Consoles : task[c].entry.no \in Nat
  <2>1. \A c \in Consoles : task[c].entry \in Entry \cup {NoEntry}
    BY DEF TypeOK
  <2>2. \A e \in Entry : e.no \in Nat
    BY <1>1 DEF Entry
  <2>3. NoEntry.no \in Nat
    BY DEF NoEntry
  <2> QED
    BY <2>1, <2>2, <2>3
<1>3. \A c \in Consoles : \A i \in DOMAIN queue[c] :
        queue[c][i] \in Entry /\ queue[c][i].no \in Nat /\ i \in Nat
  <2>1. \A c \in Consoles : queue[c] \in Seq(Entry)
    BY DEF TypeOK
  <2>2. \A q \in Seq(Entry) : \A i \in DOMAIN q : q[i] \in Entry /\ i \in Nat
    OBVIOUS
  <2>3. \A e \in Entry : e.no \in Nat
    BY <1>1 DEF Entry
  <2> QED
    BY <2>1, <2>2, <2>3
<1>4. \A r \in net : r \in Request /\ r.no \in Nat
  BY <1>1 DEF TypeOK, Request
<1>5. \A k \in Kind : last[k].no \in Nat
  BY <1>1 DEF TypeOK
<1>6. \A n \in Node : \A k \in Kind : heard[n][k] \in Nat
  <2>1. heard \in [Node -> [Kind -> Numbers]]
    BY DEF TypeOK
  <2> QED
    BY <1>1, <2>1
<1> QED
  BY <1>1, <1>2, <1>3, <1>4, <1>5, <1>6 DEF TypeOK

\* Consoles whose web task has a command to forward are counted in cmds, not in sends.
LEMMA OpenFacts ==
  ASSUME TypeOK, NEW c \in Consoles, NEW x, web' = [web EXCEPT ![c] = x]
  PROVE  /\ IsFiniteSet(Open) /\ Cardinality(Open) \in Nat
         /\ web[c] = Idle /\ x # Idle => Cardinality(Open') = Cardinality(Open) + 1
         /\ web[c] # Idle /\ x = Idle => Cardinality(Open') = Cardinality(Open) - 1
<1>1. IsFiniteSet(Open) /\ Cardinality(Open) \in Nat
  <2>1. IsFiniteSet(Open)
    BY FleetAssumption, FS_Subset DEF Open
  <2> QED
    BY <2>1, FS_CardinalityType
<1>2. ASSUME web[c] = Idle, x # Idle PROVE Cardinality(Open') = Cardinality(Open) + 1
  <2>1. Open' = Open \cup {c} /\ c \notin Open
    BY <1>2 DEF Open, TypeOK
  <2> QED
    BY <1>1, <2>1, FS_AddElement
<1>3. ASSUME web[c] # Idle, x = Idle PROVE Cardinality(Open') = Cardinality(Open) - 1
  <2>1. Open' = Open \ {c} /\ c \in Open
    BY <1>3 DEF Open, TypeOK
  <2> QED
    BY <1>1, <2>1, FS_RemoveElement
<1> QED
  BY <1>1, <1>2, <1>3

\* Every step keeps the numbers in order with the number of commands.
LEMMA CountKept ==
  ASSUME TypeOK, CountOK, Next
  PROVE  CountOK'
<1>0. /\ Cardinality(Open) \in Nat
      /\ UNCHANGED web => Open' = Open
  <2>1. IsFiniteSet(Open)
    BY FleetAssumption, FS_Subset DEF Open
  <2> QED
    BY <2>1, FS_CardinalityType DEF Open
<1>1. ASSUME NEW n \in Node, NEW k \in Kind, Command(n, k) PROVE CountOK'
  BY <1>0, <1>1, NumberFacts DEF Command, CountOK
<1>2. ASSUME NEW c \in Consoles, NEW x, x # Idle, web[c] = Idle, web' = [web EXCEPT ![c] = x],
             cmds' = cmds + 1, UNCHANGED <<queue, task, net, sends, last>>
      PROVE  CountOK'
  <2>1. sends' + Cardinality(Open') <= cmds'
    <3>1. Cardinality(Open') = Cardinality(Open) + 1
      BY <1>2, OpenFacts
    <3> QED
      BY <1>0, <1>2, <3>1, NumberFacts DEF CountOK
  <2> QED
    BY <1>2, <2>1 DEF CountOK
<1>3. ASSUME NEW c \in Consoles, NEW k \in Kind, NetChange(c, k) PROVE CountOK'
  BY <1>2, <1>3 DEF NetChange, history, Kind, Idle
<1>4. ASSUME NEW c \in Consoles, NetSync(c) PROVE CountOK'
  BY <1>2, <1>4 DEF NetSync, history, Kind, Idle
<1>5. ASSUME NEW c \in Consoles, NEW e \in Entry, queue' = enqueueBcast(c, e), e.no = sends',
             sends' = sends + 1, sends' + Cardinality(Open') <= cmds', UNCHANGED <<task, net>>,
             \A k \in Kind : last'[k].no <= sends'
      PROVE  CountOK'
  <2>1. \A d \in Consoles : \A i \in DOMAIN queue'[d] : queue'[d][i].no <= sends'
    <3> TAKE d \in Consoles
    <3> TAKE i \in DOMAIN queue'[d]
    <3>2. CASE i \in DOMAIN queue[d] /\ queue'[d][i] = queue[d][i]
      BY <1>5, <3>2, NumberFacts DEF CountOK
    <3>3. CASE queue'[d][i] = e
      BY <1>5, <3>3, NumberFacts
    <3> QED
      BY <1>5, <3>2, <3>3, EnqueueFacts
  <2>2. queue' \in [Consoles -> Seq(Entry)]
    BY <1>5, EnqueueFacts
  <2>3. /\ \A d \in Consoles : task'[d].entry.no <= sends' /\ (task'[d].left # {} => task'[d].entry # NoEntry)
        /\ \A r \in net' : r.no <= sends'
    BY <1>5, NumberFacts DEF CountOK
  <2> QED
    BY <1>5, <2>1, <2>2, <2>3 DEF CountOK
<1>6. ASSUME NEW c \in Consoles, NetForward(c) PROVE CountOK'
  <2>1. Cardinality(Open') = Cardinality(Open) - 1
    BY <1>6, OpenFacts DEF NetForward
  <2>2. sends' + Cardinality(Open') <= cmds'
    BY <1>0, <1>6, <2>1, NumberFacts DEF NetForward, CountOK
  <2>3. \A k \in Kind : last'[k].no <= sends'
    <3>1. last' = [last EXCEPT ![web[c].kind] = [no |-> sends', cmd |-> shown[c][web[c].kind], from |-> c]]
      BY <1>6 DEF NetForward
    <3>2. \A k \in Kind : last'[k].no = sends' \/ last'[k] = last[k]
      BY <3>1 DEF TypeOK
    <3>3. sends' = sends + 1
      BY <1>6 DEF NetForward
    <3> QED
      BY <3>2, <3>3, NumberFacts DEF CountOK
  <2> QED
    BY <1>5, <1>6, <2>2, <2>3, ForwardFacts DEF NetForward
<1>7. ASSUME NEW c \in Consoles, NEW p \in Node \ {c}, NEW k \in Kind, PeerCmd(c, p, k) PROVE CountOK'
  <2>1. sends' + Cardinality(Open') <= cmds'
    BY <1>0, <1>7, NumberFacts DEF PeerCmd, CountOK
  <2>2. \A k1 \in Kind : last'[k1].no <= sends'
    BY <1>7, NumberFacts DEF PeerCmd, CountOK
  <2> QED
    BY <1>5, <1>7, <2>1, <2>2, PeerFacts DEF PeerCmd
<1>8. ASSUME NEW c \in Consoles, queue[c] # << >>, queue' = [queue EXCEPT ![c] = Tail(@)],
             UNCHANGED <<web, net, sends, cmds, last>>,
             \A d \in Consoles : \/ UNCHANGED task[d]
                                 \/ /\ task'[d].entry = NoEntry \/ task'[d].entry.no <= sends
                                    /\ task'[d].left # {} => task'[d].entry # NoEntry
      PROVE  CountOK'
  <2>1. \A d \in Consoles : \A i \in DOMAIN queue'[d] : queue'[d][i].no <= sends'
    BY <1>8, DequeueFacts DEF CountOK
  <2>2. queue' \in [Consoles -> Seq(Entry)]
    BY <1>8, DequeueFacts
  <2>3. \A d \in Consoles : task'[d].entry.no <= sends' /\ (task'[d].left # {} => task'[d].entry # NoEntry)
    <3>1. NoEntry.no <= sends
      BY NumberFacts DEF NoEntry
    <3> QED
      BY <1>8, <3>1 DEF CountOK
  <2> QED
    BY <1>0, <1>8, <2>1, <2>2, <2>3 DEF CountOK
<1>9. ASSUME NEW c \in Consoles, TakeEntry(c) PROVE CountOK'
  <2> DEFINE e == Head(queue[c])
             left == IF e.to = Everyone THEN table[c] ELSE {e.to}
  <2>1. e \in Entry /\ e.no <= sends /\ e # NoEntry
    <3>1. e \in Entry /\ 1 \in DOMAIN queue[c] /\ e = queue[c][1]
      BY <1>9, DequeueFacts DEF TakeEntry
    <3>2. e # NoEntry
      BY <3>1 DEF Entry, NoEntry, Kind
    <3> QED
      BY <3>1, <3>2 DEF CountOK
  <2>2. task' = [task EXCEPT ![c] = [entry |-> IF left = {} THEN NoEntry ELSE e, left |-> left]]
    BY <1>9 DEF TakeEntry
  <2> HIDE DEF e, left
  <2>3. /\ task'[c].entry = IF left = {} THEN NoEntry ELSE e
        /\ task'[c].left = left
        /\ \A d \in Consoles \ {c} : task'[d] = task[d]
    BY <2>2 DEF TypeOK
  <2>4. \A d \in Consoles : \/ UNCHANGED task[d]
                            \/ /\ task'[d].entry = NoEntry \/ task'[d].entry.no <= sends
                               /\ task'[d].left # {} => task'[d].entry # NoEntry
    BY <2>1, <2>3
  <2> QED
    BY <1>8, <1>9, <2>4 DEF TakeEntry
<1>10. ASSUME NEW c \in Consoles, TakeBusy(c) PROVE CountOK'
  BY <1>8, <1>10 DEF TakeBusy
<1>11. ASSUME NEW c \in Consoles, NEW p \in Node, p \in task[c].left, task' = [task EXCEPT ![c] = AfterPeer(c, p)],
              \A r \in net' : r \in net \/ r.no = task[c].entry.no, UNCHANGED <<web, queue, cmds, sends, last>>
       PROVE  CountOK'
  <2>1. /\ task'[c].entry = IF task[c].left = {p} THEN NoEntry ELSE task[c].entry
        /\ task'[c].left = task[c].left \ {p}
        /\ \A d \in Consoles \ {c} : task'[d] = task[d]
    BY <1>11 DEF TypeOK, AfterPeer
  <2>2. NoEntry.no <= sends
    BY NumberFacts DEF NoEntry
  <2>3. \A d \in Consoles : task'[d].entry.no <= sends' /\ (task'[d].left # {} => task'[d].entry # NoEntry)
    BY <1>11, <2>1, <2>2 DEF CountOK
  <2>4. \A r \in net' : r.no <= sends'
    BY <1>11 DEF CountOK
  <2> QED
    BY <1>0, <1>11, <2>3, <2>4 DEF CountOK
<1>12. ASSUME NEW c \in Consoles, NEW p \in Node, sendPeerGet(c, p) \/ SendFails(c, p) PROVE CountOK'
  BY <1>11, <1>12 DEF sendPeerGet, SendFails, history
<1>13. ASSUME NEW c \in Consoles, NEW p \in Movers \ {c}, TableChanges(c, p) PROVE CountOK'
  BY <1>0, <1>13 DEF TableChanges, CountOK, history
<1>14. ASSUME NEW r \in net, Handle(r) \/ Lose(r) PROVE CountOK'
  BY <1>0, <1>14 DEF Handle, Lose, CountOK
<1> QED
  BY <1>1, <1>3, <1>4, <1>6, <1>7, <1>9, <1>10, <1>12, <1>13, <1>14 DEF Next

\* What bcastTask does when it takes an entry.
LEMMA TakeFacts ==
  ASSUME TypeOK, CountOK, NEW c \in Consoles, TakeEntry(c)
  PROVE  LET e == Head(queue[c])
             left == IF e.to = Everyone THEN table[c] ELSE {e.to}
         IN  /\ e \in Entry /\ e # NoEntry /\ 1 \in DOMAIN queue[c] /\ e = queue[c][1]
             /\ task'[c].entry = IF left = {} THEN NoEntry ELSE e
             /\ task'[c].left = left
             /\ \A d \in Consoles \ {c} : task'[d] = task[d]
             /\ task[c].entry = NoEntry /\ task[c].left = {}
<1> DEFINE e == Head(queue[c])
           left == IF e.to = Everyone THEN table[c] ELSE {e.to}
<1>1. e \in Entry /\ 1 \in DOMAIN queue[c] /\ e = queue[c][1]
  BY DequeueFacts DEF TakeEntry
<1>2. e # NoEntry
  BY <1>1 DEF Entry, NoEntry, Kind
<1>3. task' = [task EXCEPT ![c] = [entry |-> IF left = {} THEN NoEntry ELSE e, left |-> left]]
  BY DEF TakeEntry
<1>4. task[c].entry = NoEntry /\ task[c].left = {}
  BY DEF TakeEntry, CountOK
<1> HIDE DEF e, left
<1>5. /\ task'[c].entry = IF left = {} THEN NoEntry ELSE e
      /\ task'[c].left = left
      /\ \A d \in Consoles \ {c} : task'[d] = task[d]
  BY <1>3 DEF TypeOK
<1> QED
  BY <1>1, <1>2, <1>4, <1>5 DEF e, left

\* What it does with one peer.
LEMMA AfterPeerFacts ==
  ASSUME TypeOK, NEW c \in Consoles, NEW p \in Node, task' = [task EXCEPT ![c] = AfterPeer(c, p)]
  PROVE  /\ task'[c].entry = IF task[c].left = {p} THEN NoEntry ELSE task[c].entry
         /\ task'[c].left = task[c].left \ {p}
         /\ \A d \in Consoles \ {c} : task'[d] = task[d]
BY DEF TypeOK, AfterPeer

\* Every step keeps consoles from forwarding to themselves.
LEMMA OthersKept ==
  ASSUME TypeOK, CountOK, OthersOK, Next
  PROVE  OthersOK'
<1>1. ASSUME UNCHANGED <<queue, task>>, \A c \in Consoles : c \notin table'[c], net' \subseteq net
      PROVE  OthersOK'
  BY <1>1 DEF OthersOK
<1>2. ASSUME NEW n \in Node, NEW k \in Kind, Command(n, k) PROVE OthersOK'
  BY <1>1, <1>2 DEF Command, OthersOK
<1>3. ASSUME NEW c \in Consoles, NEW k \in Kind, NetChange(c, k) PROVE OthersOK'
  BY <1>1, <1>3 DEF NetChange, OthersOK, history
<1>4. ASSUME NEW c \in Consoles, NetSync(c) PROVE OthersOK'
  BY <1>1, <1>4 DEF NetSync, OthersOK, history
<1>5. ASSUME NEW c \in Consoles, NEW e \in Entry, queue' = enqueueBcast(c, e), e.to # c,
             UNCHANGED <<table, task, net>>
      PROVE  OthersOK'
  <2>1. \A d \in Consoles : \A i \in DOMAIN queue'[d] : queue'[d][i].to # d
    BY <1>5, EnqueueFacts DEF OthersOK
  <2> QED
    BY <1>5, <2>1 DEF OthersOK
<1>6. ASSUME NEW c \in Consoles, NetForward(c) PROVE OthersOK'
  <2>1. Everyone # c
    BY FleetAssumption
  <2> QED
    BY <1>5, <1>6, <2>1, ForwardFacts DEF NetForward
<1>7. ASSUME NEW c \in Consoles, NEW p \in Node \ {c}, NEW k \in Kind, PeerCmd(c, p, k) PROVE OthersOK'
  BY <1>5, <1>7, PeerFacts DEF PeerCmd
<1>8. ASSUME NEW c \in Consoles, queue[c] # << >>, queue' = [queue EXCEPT ![c] = Tail(@)],
             \A d \in Consoles : d \notin task'[d].left, UNCHANGED <<table, net>>
      PROVE  OthersOK'
  <2>1. \A d \in Consoles : \A i \in DOMAIN queue'[d] : queue'[d][i].to # d
    <3> SUFFICES ASSUME NEW d \in Consoles, NEW i \in DOMAIN queue'[d] PROVE queue'[d][i].to # d
      OBVIOUS
    <3>1. PICK j \in DOMAIN queue[d] : queue'[d][i] = queue[d][j]
      <4>1. CASE d = c
        <5>1. i + 1 \in DOMAIN queue[c] /\ queue'[c][i] = queue[c][i + 1]
          BY <1>8, <4>1, DequeueFacts
        <5> QED
          BY <4>1, <5>1
      <4>2. CASE d # c
        BY <1>8, <4>2, DequeueFacts
      <4> QED
        BY <4>1, <4>2
    <3> QED
      BY <3>1 DEF OthersOK
  <2> QED
    BY <1>8, <2>1 DEF OthersOK
<1>9. ASSUME NEW c \in Consoles, TakeEntry(c) PROVE OthersOK'
  <2>1. \A d \in Consoles : d \notin task'[d].left
    <3>1. /\ 1 \in DOMAIN queue[c]
          /\ task'[c].left = table[c] \/ task'[c].left = {queue[c][1].to}
          /\ \A d \in Consoles \ {c} : task'[d] = task[d]
      BY <1>9, TakeFacts
    <3> QED
      BY <3>1 DEF OthersOK
  <2> QED
    BY <1>8, <1>9, <2>1 DEF TakeEntry
<1>10. ASSUME NEW c \in Consoles, TakeBusy(c) PROVE OthersOK'
  BY <1>8, <1>10 DEF TakeBusy, OthersOK
<1>11. ASSUME NEW c \in Consoles, NEW p \in Node, sendPeerGet(c, p) \/ SendFails(c, p) PROVE OthersOK'
  <2>1. p \in task[c].left /\ task' = [task EXCEPT ![c] = AfterPeer(c, p)] /\ UNCHANGED <<table, queue>>
    BY <1>11 DEF sendPeerGet, SendFails
  <2>2. \A d \in Consoles : d \notin task'[d].left
    BY <2>1, AfterPeerFacts DEF OthersOK
  <2>3. \A r \in net' : r.to # r.from
    BY <1>11, <2>1 DEF sendPeerGet, SendFails, OthersOK
  <2> QED
    BY <2>1, <2>2, <2>3 DEF OthersOK
<1>12. ASSUME NEW c \in Consoles, NEW p \in Movers \ {c}, TableChanges(c, p) PROVE OthersOK'
  <2>1. \A d \in Consoles : d \notin table'[d]
    BY <1>12 DEF TableChanges, OthersOK, TypeOK
  <2> QED
    BY <1>1, <1>12, <2>1 DEF TableChanges
<1>13. ASSUME NEW r \in net, Handle(r) \/ Lose(r) PROVE OthersOK'
  BY <1>1, <1>13 DEF Handle, Lose, OthersOK
<1> QED
  BY <1>2, <1>3, <1>4, <1>6, <1>7, <1>9, <1>10, <1>11, <1>12, <1>13 DEF Next

\* Every step keeps the order of the queues.
LEMMA OrderKept ==
  ASSUME TypeOK, CountOK, OrderOK, Next
  PROVE  OrderOK'
<1>1. ASSUME UNCHANGED <<queue, task>> PROVE OrderOK'
  BY <1>1 DEF OrderOK
<1>2. ASSUME NEW n \in Node, NEW k \in Kind, Command(n, k) PROVE OrderOK'
  BY <1>1, <1>2 DEF Command
<1>3. ASSUME NEW c \in Consoles, NEW k \in Kind, NetChange(c, k) PROVE OrderOK'
  BY <1>1, <1>3 DEF NetChange
<1>4. ASSUME NEW c \in Consoles, NetSync(c) PROVE OrderOK'
  BY <1>1, <1>4 DEF NetSync
<1>5. ASSUME NEW c \in Consoles, NEW e \in Entry, queue' = enqueueBcast(c, e), e.no = sends + 1, UNCHANGED task
      PROVE  OrderOK'
  <2> SUFFICES ASSUME NEW d \in Consoles, NEW j \in DOMAIN queue'[d]
               PROVE  /\ task'[d].entry.no < queue'[d][j].no
                      /\ \A i \in DOMAIN queue'[d] : i < j => queue'[d][i].no < queue'[d][j].no
    BY DEF OrderOK
  <2>1. \A i \in DOMAIN queue'[d] : \/ i \in DOMAIN queue[d] /\ queue'[d][i] = queue[d][i]
                                    \/ d = c /\ i = Len(queue[c]) + 1 /\ queue'[d][i] = e
    BY <1>5, EnqueueFacts
  <2>2. \A i \in DOMAIN queue[d] : i <= Len(queue[d]) /\ i \in Nat /\ queue[d][i].no <= sends
                                   /\ queue[d][i].no \in Nat
    <3>1. \A q \in Seq(Entry) : \A i \in DOMAIN q : i <= Len(q)
      OBVIOUS
    <3>2. queue[d] \in Seq(Entry) /\ \A i \in DOMAIN queue[d] : queue[d][i].no <= sends
      BY DEF CountOK
    <3>3. \A i \in DOMAIN queue[d] : i <= Len(queue[d])
      BY <3>1, <3>2, Zenon
    <3>4. \A i \in DOMAIN queue[d] : i \in Nat /\ queue[d][i].no \in Nat
      BY NumberFacts, Zenon
    <3> QED
      BY <3>2, <3>3, <3>4, Zenon
  <2>3. task'[d].entry.no \in Nat /\ task'[d].entry.no <= sends /\ sends \in Nat /\ Len(queue[d]) \in Nat
    <3>1. \A q \in Seq(Entry) : Len(q) \in Nat
      OBVIOUS
    <3>2. queue[d] \in Seq(Entry) /\ task[d].entry.no <= sends
      BY DEF CountOK
    <3>3. Len(queue[d]) \in Nat
      BY <3>1, <3>2, Zenon
    <3> QED
      BY <1>5, <3>2, <3>3, NumberFacts
  <2>4. CASE j \in DOMAIN queue[d] /\ queue'[d][j] = queue[d][j]
    <3>1. task'[d].entry.no < queue'[d][j].no
      BY <1>5, <2>4 DEF OrderOK
    <3>2. ASSUME NEW i \in DOMAIN queue'[d], i < j PROVE queue'[d][i].no < queue'[d][j].no
      <4>1. i \in DOMAIN queue[d] /\ queue'[d][i] = queue[d][i]
        BY <2>1, <2>2, <2>3, <2>4, <3>2
      <4> QED
        BY <2>4, <3>2, <4>1 DEF OrderOK
    <3> QED
      BY <3>1, <3>2
  <2>5. CASE d = c /\ j = Len(queue[c]) + 1 /\ queue'[d][j] = e
    <3>1. task'[d].entry.no < queue'[d][j].no
      BY <1>5, <2>3, <2>5
    <3>2. ASSUME NEW i \in DOMAIN queue'[d], i < j PROVE queue'[d][i].no < queue'[d][j].no
      <4>1. i \in DOMAIN queue[d] /\ queue'[d][i] = queue[d][i]
        BY <2>1, <2>3, <2>5, <3>2
      <4> QED
        BY <1>5, <2>2, <2>3, <2>5, <4>1
    <3> QED
      BY <3>1, <3>2
  <2> QED
    BY <2>1, <2>4, <2>5
<1>6. ASSUME NEW c \in Consoles, NetForward(c) PROVE OrderOK'
  BY <1>5, <1>6, ForwardFacts DEF NetForward
<1>7. ASSUME NEW c \in Consoles, NEW p \in Node \ {c}, NEW k \in Kind, PeerCmd(c, p, k) PROVE OrderOK'
  BY <1>5, <1>7, PeerFacts DEF PeerCmd
<1>8. ASSUME NEW c \in Consoles, queue[c] # << >>, queue' = [queue EXCEPT ![c] = Tail(@)],
             \A d \in Consoles \ {c} : task'[d] = task[d],
             task'[c].entry \in {task[c].entry, NoEntry, queue[c][1]}
      PROVE  OrderOK'
  <2>1. ASSUME NEW d \in Consoles \ {c}, NEW j \in DOMAIN queue'[d]
        PROVE  /\ task'[d].entry.no < queue'[d][j].no
               /\ \A i \in DOMAIN queue'[d] : i < j => queue'[d][i].no < queue'[d][j].no
    BY <1>8, <2>1, DequeueFacts DEF OrderOK
  <2>2. ASSUME NEW j \in DOMAIN queue'[c]
        PROVE  /\ task'[c].entry.no < queue'[c][j].no
               /\ \A i \in DOMAIN queue'[c] : i < j => queue'[c][i].no < queue'[c][j].no
    <3>1. \A i \in DOMAIN queue'[c] : i + 1 \in DOMAIN queue[c] /\ 1 < i + 1 /\ i \in Nat
                                      /\ queue'[c][i] = queue[c][i + 1]
      BY <1>8, DequeueFacts
    <3>2. 1 \in DOMAIN queue[c]
      BY <1>8, DequeueFacts
    <3>3. queue[c][1].no < queue[c][j + 1].no /\ task[c].entry.no < queue[c][j + 1].no
      BY <2>2, <3>1, <3>2 DEF OrderOK
    <3>4. NoEntry.no < queue[c][j + 1].no
      <4>1. task[c].entry.no \in Nat /\ queue[c][j + 1].no \in Nat
        BY <2>2, <3>1, NumberFacts
      <4> QED
        BY <3>3, <4>1 DEF NoEntry
    <3>5. task'[c].entry.no < queue'[c][j].no
      BY <1>8, <2>2, <3>1, <3>3, <3>4
    <3>6. ASSUME NEW i \in DOMAIN queue'[c], i < j PROVE queue'[c][i].no < queue'[c][j].no
      <4>1. i + 1 < j + 1
        BY <2>2, <3>1, <3>6
      <4> QED
        BY <2>2, <3>1, <3>6, <4>1 DEF OrderOK
    <3> QED
      BY <3>5, <3>6
  <2> QED
    BY <2>1, <2>2 DEF OrderOK
<1>9. ASSUME NEW c \in Consoles, TakeEntry(c) PROVE OrderOK'
  <2>1. /\ \A d \in Consoles \ {c} : task'[d] = task[d]
        /\ task'[c].entry \in {task[c].entry, NoEntry, queue[c][1]}
    BY <1>9, TakeFacts
  <2> QED
    BY <1>8, <1>9, <2>1 DEF TakeEntry
<1>10. ASSUME NEW c \in Consoles, TakeBusy(c) PROVE OrderOK'
  BY <1>8, <1>10 DEF TakeBusy
<1>11. ASSUME NEW c \in Consoles, NEW p \in Node, sendPeerGet(c, p) \/ SendFails(c, p) PROVE OrderOK'
  <2>1. task' = [task EXCEPT ![c] = AfterPeer(c, p)] /\ UNCHANGED queue
    BY <1>11 DEF sendPeerGet, SendFails
  <2>2. \A d \in Consoles : task'[d].entry \in {task[d].entry, NoEntry}
    BY <2>1, AfterPeerFacts
  <2>3. ASSUME NEW d \in Consoles, NEW j \in DOMAIN queue'[d] PROVE task'[d].entry.no < queue'[d][j].no
    <3>1. task[d].entry.no < queue'[d][j].no
      BY <2>1, <2>3 DEF OrderOK
    <3>2. task[d].entry.no \in Nat /\ queue'[d][j].no \in Nat
      BY <2>1, <2>3, NumberFacts
    <3>3. NoEntry.no < queue'[d][j].no
      BY <3>1, <3>2 DEF NoEntry
    <3> QED
      BY <2>2, <3>1, <3>3
  <2> QED
    BY <2>1, <2>3 DEF OrderOK
<1>12. ASSUME NEW c \in Consoles, NEW p \in Movers \ {c}, TableChanges(c, p) PROVE OrderOK'
  BY <1>1, <1>12 DEF TableChanges
<1>13. ASSUME NEW r \in net, Handle(r) \/ Lose(r) PROVE OrderOK'
  BY <1>1, <1>13 DEF Handle, Lose
<1> QED
  BY <1>2, <1>3, <1>4, <1>6, <1>7, <1>9, <1>10, <1>11, <1>12, <1>13 DEF Next

-----------------------------------------------------------------------------
(* The last command for everyone.                                           *)

\* No step but NetForward, TakeEntry and Handle touches what the nodes show of kind k, the
\* last command of this kind or its table.
Quiet(k) ==
  /\ last'[k] = last[k] /\ told'[k] = told[k]
  /\ \A n \in Node : /\ heard'[n][k] = heard[n][k]
                     /\ Calm(n, k)' => Calm(n, k) /\ shown'[n][k] = shown[n][k]

\* A quiet step has to care for the copies of the command only.
LEMMA QuietFacts ==
  ASSUME TypeOK, NEW k \in Kind, Quiet(k), CleanOK(k), clean[k],
         CopiesOK(k)', TakenOK(k)',
         ASSUME NEW n \in told[k], Shows(n, k) => Shows(n, k)', Reaches(n, k) PROVE Reaches(n, k)'
  PROVE  CleanOK(k)'
<1>1. \A n \in Node : Shows(n, k) => Shows(n, k)'
  BY DEF Quiet, Shows
<1>2. last[k].from \in Consoles /\ Shows(last[k].from, k) /\ \A n \in told[k] : Reaches(n, k)
  BY DEF CleanOK
<1>3. last[k].from \in Node /\ told[k] \subseteq Node
  BY <1>2, FleetAssumption DEF TypeOK
<1>4. last'[k] = last[k] /\ told'[k] = told[k]
  BY DEF Quiet
<1>5. Shows(last[k].from, k)'
  BY <1>1, <1>2, <1>3, <1>4 DEF Shows
<1>6. \A n \in told'[k] : Reaches(n, k)'
  BY <1>1, <1>2, <1>3, <1>4
<1> QED
  BY <1>2, <1>4, <1>5, <1>6 DEF CleanOK

\* Commands to one node, and changes of the table, leave the copies alone.
LEMMA StillFacts ==
  ASSUME TypeOK, NEW k \in Kind, Quiet(k), CleanOK(k), clean[k], UNCHANGED <<queue, task, net>>
  PROVE  CleanOK(k)'
<1>1. last'[k] = last[k] /\ told'[k] = told[k]
  BY DEF Quiet
<1>2. CopiesOK(k)' /\ TakenOK(k)'
  BY <1>1 DEF CleanOK, CopiesOK, CopyOK, TakenOK
<1>3. ASSUME NEW n \in told[k], Shows(n, k) => Shows(n, k)', Reaches(n, k) PROVE Reaches(n, k)'
  BY <1>1, <1>3 DEF Reaches
<1> QED
  BY <1>2, <1>3, QuietFacts

\* An entry for one peer, or of the other kind, is later than the last command.
LEMMA EnqueueKeeps ==
  ASSUME TypeOK, CountOK, NEW k \in Kind, Quiet(k), CleanOK(k), clean[k],
         NEW c \in Consoles, NEW e \in Entry, queue' = enqueueBcast(c, e),
         e.kind # k, e.no = sends + 1, UNCHANGED <<task, net>>
  PROVE  CleanOK(k)'
<1>1. last'[k] = last[k] /\ told'[k] = told[k]
  BY DEF Quiet
<1>2. CopiesOK(k)
  BY DEF CleanOK
<1>3. ASSUME NEW d \in Consoles, NEW i \in DOMAIN queue'[d]
      PROVE  \/ i \in DOMAIN queue[d] /\ queue'[d][i] = queue[d][i]
             \/ queue'[d][i] = e
  BY <1>3, EnqueueFacts
<1>4. ASSUME NEW d \in Consoles, NEW i \in DOMAIN queue'[d] PROVE CopyOK(d, queue[d][i], k)'
  <2>1. CASE i \in DOMAIN queue[d] /\ queue'[d][i] = queue[d][i]
    BY <1>1, <1>2, <2>1 DEF CopiesOK, CopyOK
  <2>2. CASE queue'[d][i] = e
    BY <2>2 DEF CopyOK
  <2> QED
    BY <1>3, <1>4, <2>1, <2>2
<1>5. CopiesOK(k)'
  BY <1>1, <1>2, <1>4 DEF CopiesOK, CopyOK
<1>6. TakenOK(k)'
  <2> DEFINE f == last[k].from
  <2> SUFFICES ASSUME told[k] # {}
               PROVE  /\ \A i \in DOMAIN queue'[f] : queue'[f][i].no > last[k].no
                      /\ task[f].entry # NoEntry => task[f].entry.no >= last[k].no
    BY <1>1 DEF TakenOK
  <2>1. f \in Consoles /\ TakenOK(k)
    BY DEF CleanOK
  <2>2. e.no > last[k].no
    BY NumberFacts DEF CountOK
  <2> QED
    BY <1>3, <2>1, <2>2 DEF TakenOK
<1>7. ASSUME NEW n \in told[k], Shows(n, k) => Shows(n, k)', Reaches(n, k) PROVE Reaches(n, k)'
  BY <1>1, <1>7 DEF Reaches
<1> QED
  BY <1>5, <1>6, <1>7, QuietFacts

\* A command of the kind itself becomes the last one.
LEMMA ForwardKeeps ==
  ASSUME TypeOK, CountOK, NEW c \in Consoles, NEW k \in Kind, k = web[c].kind, NetForward(c), clean'[k]
  PROVE  CleanOK(k)'
<1> DEFINE e == [kind |-> k, cmd |-> Path(c), no |-> sends', to |-> Everyone]
<1>1. k \in Kind /\ e \in Entry /\ sends' = sends + 1 /\ sends' \in Numbers /\ c \in Node
  BY ForwardFacts, WebFacts
<1>2. /\ queue' = enqueueBcast(c, e) /\ UNCHANGED <<shown, task, net>>
      /\ heard' = [heard EXCEPT ![c][k] = sends']
      /\ last' = [last EXCEPT ![k] = [no |-> sends', cmd |-> shown[c][k], from |-> c]]
      /\ told' = [told EXCEPT ![k] = {}]
  BY DEF NetForward
<1>3. k = "look" => shown[c][k] = web[c].cmd
  BY <1>1 DEF NetForward, TypeOK
<1>4. e.cmd = shown[c][k] /\ e.no = sends' /\ e.to = Everyone
  BY <1>1, <1>3 DEF Path, Kind
<1> HIDE DEF e
<1>5. /\ last'[k] = [no |-> sends', cmd |-> shown[c][k], from |-> c] /\ told'[k] = {}
      /\ heard'[c][k] = sends'
  <2>1. last'[k] = [no |-> sends', cmd |-> shown[c][k], from |-> c] /\ told'[k] = {}
    BY <1>1, <1>2 DEF TypeOK
  <2>2. heard'[c][k] = sends'
    BY <1>1, <1>2 DEF TypeOK
  <2> QED
    BY <2>1, <2>2
<1>6. \A x \in Nat : x <= sends => x <= sends' /\ x # sends'
  BY <1>1, NumberFacts
<1>7. ASSUME NEW d \in Consoles, NEW i \in DOMAIN queue'[d] PROVE CopyOK(d, queue[d][i], k)'
  <2>1. CASE i \in DOMAIN queue[d] /\ queue'[d][i] = queue[d][i]
    BY <1>5, <1>6, <2>1, NumberFacts DEF CountOK, CopyOK
  <2>2. CASE d = c /\ queue'[d][i] = e
    <3>1. sends' <= sends'
      BY <1>1, NumberFacts
    <3> QED
      BY <1>4, <1>5, <2>2, <3>1 DEF CopyOK
  <2> QED
    BY <1>1, <1>2, <1>7, <2>1, <2>2, EnqueueFacts
<1>8. CopiesOK(k)'
  <2>1. \A d \in Consoles : CopyOK(d, task[d].entry, k)'
    BY <1>2, <1>5, <1>6, NumberFacts DEF CountOK, CopyOK
  <2>2. \A r \in net' : r.kind = k => r.no <= last'[k].no /\ r.no # last'[k].no
    BY <1>2, <1>5, <1>6, NumberFacts DEF CountOK
  <2> QED
    BY <1>7, <2>1, <2>2 DEF CopiesOK
<1>9. TakenOK(k)' /\ Shows(last[k].from, k)'
  BY <1>2, <1>5 DEF TakenOK, Shows
<1> QED
  BY <1>5, <1>8, <1>9 DEF CleanOK

\* An entry that leaves the queue leaves later ones behind.
LEMMA DequeueKeeps ==
  ASSUME TypeOK, CountOK, NEW k \in Kind, CopiesOK(k), NEW c \in Consoles,
         queue[c] # << >>, queue' = [queue EXCEPT ![c] = Tail(@)], last'[k] = last[k]
  PROVE  /\ \A d \in Consoles : \A i \in DOMAIN queue'[d] : CopyOK(d, queue[d][i], k)'
         /\ CopyOK(c, queue[c][1], k)
         /\ (\A i \in DOMAIN queue[last[k].from] : queue[last[k].from][i].no > last[k].no) =>
            (\A i \in DOMAIN queue'[last[k].from] : last[k].from \in Consoles =>
               queue'[last[k].from][i].no > last[k].no)
<1>1. ASSUME NEW d \in Consoles, NEW i \in DOMAIN queue'[d]
      PROVE  \E j \in DOMAIN queue[d] : queue'[d][i] = queue[d][j]
  <2>1. CASE d = c
    <3>1. i + 1 \in DOMAIN queue[c] /\ queue'[c][i] = queue[c][i + 1]
      BY <1>1, <2>1, DequeueFacts
    <3> QED
      BY <2>1, <3>1
  <2>2. CASE d # c
    <3>1. queue'[d] = queue[d]
      BY <1>1, <2>2, DequeueFacts
    <3> QED
      BY <1>1, <3>1
  <2> QED
    BY <2>1, <2>2
<1>2. ASSUME NEW d \in Consoles, NEW i \in DOMAIN queue'[d] PROVE CopyOK(d, queue[d][i], k)'
  <2>1. PICK j \in DOMAIN queue[d] : queue'[d][i] = queue[d][j]
    BY <1>1, <1>2
  <2>2. CopyOK(d, queue[d][j], k)
    BY DEF CopiesOK
  <2> QED
    BY <2>1, <2>2 DEF CopyOK
<1>3. CopyOK(c, queue[c][1], k)
  BY DequeueFacts DEF CopiesOK
<1> QED
  BY <1>1, <1>2, <1>3

\* The command is taken, or another entry is.
LEMMA TakeKeeps ==
  ASSUME TypeOK, CountOK, OrderOK, NEW k \in Kind, CleanOK(k), NEW c \in Consoles, TakeEntry(c), clean'[k]
  PROVE  CleanOK(k)'
<1> DEFINE e == Head(queue[c])
           left == IF e.to = Everyone THEN table[c] ELSE {e.to}
           f == last[k].from
<1>1. /\ UNCHANGED <<table, shown, web, net, sends, heard, last, clean>>
      /\ queue' = [queue EXCEPT ![c] = Tail(@)] /\ queue[c] # << >>
      /\ told' = IF e.no = last[e.kind].no THEN [told EXCEPT ![e.kind] = table[c]] ELSE told
  BY DEF TakeEntry
<1>2. /\ e \in Entry /\ e # NoEntry /\ 1 \in DOMAIN queue[c] /\ e = queue[c][1]
      /\ task'[c].entry = IF left = {} THEN NoEntry ELSE e
      /\ task'[c].left = left
      /\ \A d \in Consoles \ {c} : task'[d] = task[d]
      /\ task[c].entry = NoEntry /\ task[c].left = {}
  BY TakeFacts
<1>3. /\ f \in Consoles /\ CopiesOK(k) /\ TakenOK(k) /\ Shows(f, k)
      /\ \A n \in told[k] : Reaches(n, k)
  BY <1>1 DEF CleanOK
<1>4. /\ \A d \in Consoles : \A i \in DOMAIN queue'[d] : CopyOK(d, queue[d][i], k)'
      /\ CopyOK(c, e, k)
      /\ (\A i \in DOMAIN queue[f] : queue[f][i].no > last[k].no) =>
            (\A i \in DOMAIN queue'[f] : queue'[f][i].no > last[k].no)
  BY <1>1, <1>2, <1>3, DequeueKeeps
<1> HIDE DEF e, left
<1>5. CopiesOK(k)'
  <2>1. \A d \in Consoles : CopyOK(d, task[d].entry, k)'
    <3> SUFFICES ASSUME NEW d \in Consoles PROVE CopyOK(d, task[d].entry, k)'
      OBVIOUS
    <3>1. NoEntry.kind # k
      BY DEF NoEntry, Kind
    <3>2. CopyOK(d, task[d].entry, k)
      BY <1>3 DEF CopiesOK
    <3> QED
      BY <1>1, <1>2, <1>4, <3>1, <3>2 DEF CopyOK
  <2> QED
    BY <1>1, <1>3, <1>4, <2>1 DEF CopiesOK
<1>6. Shows(f, k)'
  BY <1>1, <1>3 DEF Shows, Calm
<1>7. CASE e.kind = k /\ e.no = last[k].no
  <2>1. e.to = Everyone /\ c = f /\ left = table[c]
    BY <1>4, <1>7 DEF CopyOK, left
  <2>2. told'[k] = table[c]
    BY <1>1, <1>7 DEF TypeOK
  <2>3. TakenOK(k)'
    <3>1. ASSUME NEW i \in DOMAIN queue'[c] PROVE queue'[c][i].no > last[k].no
      <4>1. i + 1 \in DOMAIN queue[c] /\ 1 < i + 1 /\ queue'[c][i] = queue[c][i + 1]
        BY <1>1, <3>1, DequeueFacts
      <4>2. queue[c][1].no < queue[c][i + 1].no
        BY <1>2, <4>1 DEF OrderOK
      <4> QED
        BY <1>2, <1>7, <4>1, <4>2
    <3>2. task'[c].entry # NoEntry => task'[c].entry.no >= last[k].no
      BY <1>2, <1>7, NumberFacts
    <3> QED
      BY <1>1, <2>1, <3>1, <3>2 DEF TakenOK
  <2>4. ASSUME NEW n \in told'[k] PROVE Reaches(n, k)'
    BY <1>1, <1>2, <1>7, <2>1, <2>2, <2>4 DEF Reaches
  <2> QED
    BY <1>1, <1>3, <1>5, <1>6, <2>3, <2>4 DEF CleanOK
<1>8. CASE ~(e.kind = k /\ e.no = last[k].no)
  <2>1. told'[k] = told[k]
    BY <1>1, <1>2, <1>8 DEF TypeOK, Entry
  <2>2. TakenOK(k)'
    <3> SUFFICES ASSUME told[k] # {}
                 PROVE  /\ \A i \in DOMAIN queue'[f] : queue'[f][i].no > last[k].no
                        /\ task'[f].entry # NoEntry => task'[f].entry.no >= last[k].no
      BY <1>1, <2>1 DEF TakenOK
    <3>1. \A i \in DOMAIN queue[f] : queue[f][i].no > last[k].no
      BY <1>3 DEF TakenOK
    <3>2. CASE f = c
      <4>1. e.no > last[k].no /\ e.no \in Nat /\ last[k].no \in Nat
        BY <1>2, <3>1, <3>2, NumberFacts
      <4> QED
        BY <1>2, <1>4, <3>1, <3>2, <4>1
    <3>3. CASE f # c
      BY <1>2, <1>3, <1>4, <3>1, <3>3 DEF TakenOK
    <3> QED
      BY <3>2, <3>3
  <2>3. ASSUME NEW n \in told'[k] PROVE Reaches(n, k)'
    <3>1. Reaches(n, k)
      BY <1>3, <2>1, <2>3
    <3>2. task[f].entry.kind = k => task'[f] = task[f]
      BY <1>2, <1>3 DEF NoEntry, Kind
    <3>3. Shows(n, k) => Shows(n, k)'
      BY <1>1 DEF Shows, Calm
    <3> QED
      BY <1>1, <3>1, <3>2, <3>3 DEF Reaches
  <2> QED
    BY <1>1, <1>3, <1>5, <1>6, <2>2, <2>3 DEF CleanOK
<1> QED
  BY <1>7, <1>8

\* An entry is dropped: at most the last command itself, before any table was copied.
LEMMA BusyKeeps ==
  ASSUME TypeOK, CountOK, NEW k \in Kind, CleanOK(k), clean[k], NEW c \in Consoles, TakeBusy(c)
  PROVE  CleanOK(k)'
<1>1. /\ UNCHANGED <<table, shown, web, task, net, heard, last, told>>
      /\ queue' = [queue EXCEPT ![c] = Tail(@)] /\ queue[c] # << >>
  BY DEF TakeBusy
<1>2. Quiet(k)
  BY <1>1 DEF Quiet, Calm
<1>3. last[k].from \in Consoles /\ CopiesOK(k) /\ TakenOK(k)
  BY DEF CleanOK
<1>4. CopiesOK(k)'
  BY <1>1, <1>3, DequeueKeeps DEF CopiesOK, CopyOK
<1>5. TakenOK(k)'
  BY <1>1, <1>3, DequeueKeeps DEF TakenOK
<1>6. ASSUME NEW n \in told[k], Shows(n, k) => Shows(n, k)', Reaches(n, k) PROVE Reaches(n, k)'
  BY <1>1, <1>6 DEF Reaches
<1> QED
  BY <1>2, <1>4, <1>5, <1>6, QuietFacts

\* What becomes of one peer in the task.
LEMMA PeerKeeps ==
  ASSUME TypeOK, CountOK, NEW k \in Kind, CopiesOK(k), TakenOK(k), NEW c \in Consoles, NEW p \in Node,
         p \in task[c].left, task' = [task EXCEPT ![c] = AfterPeer(c, p)], UNCHANGED queue,
         last'[k] = last[k], told'[k] = told[k], last[k].from \in Consoles
  PROVE  /\ \A d \in Consoles : \A i \in DOMAIN queue'[d] : CopyOK(d, queue[d][i], k)'
         /\ \A d \in Consoles : CopyOK(d, task[d].entry, k)'
         /\ TakenOK(k)'
<1>1. \A d \in Consoles : task'[d].entry \in {task[d].entry, NoEntry}
  BY AfterPeerFacts
<1>2. NoEntry.kind # k
  BY DEF NoEntry, Kind
<1>3. \A d \in Consoles : CopyOK(d, task[d].entry, k)'
  BY <1>1, <1>2 DEF CopiesOK, CopyOK
<1>4. TakenOK(k)'
  BY <1>1 DEF TakenOK
<1>5. \A d \in Consoles : \A i \in DOMAIN queue'[d] : CopyOK(d, queue[d][i], k)'
  BY DEF CopiesOK, CopyOK
<1> QED
  BY <1>3, <1>4, <1>5

\* The command moves from the task to the network, or another request is sent.
LEMMA SendKeeps ==
  ASSUME TypeOK, CountOK, NEW k \in Kind, CleanOK(k), clean[k],
         NEW c \in Consoles, NEW p \in Node, sendPeerGet(c, p)
  PROVE  CleanOK(k)'
<1> DEFINE e == task[c].entry
           r == [kind |-> e.kind, cmd |-> e.cmd, no |-> e.no, from |-> c, to |-> p]
           f == last[k].from
<1>1. /\ UNCHANGED <<table, shown, web, queue, sends, heard, last, told>>
      /\ net' = net \cup {r} /\ p \in task[c].left /\ task' = [task EXCEPT ![c] = AfterPeer(c, p)]
  BY DEF sendPeerGet, history
<1>2. /\ f \in Consoles /\ CopiesOK(k) /\ TakenOK(k)
      /\ \A n \in told[k] : Reaches(n, k)
  BY DEF CleanOK
<1>3. /\ \A d \in Consoles : \A i \in DOMAIN queue'[d] : CopyOK(d, queue[d][i], k)'
      /\ \A d \in Consoles : CopyOK(d, task[d].entry, k)'
      /\ TakenOK(k)'
  BY <1>1, <1>2, PeerKeeps
<1>4. /\ task'[c].entry = IF task[c].left = {p} THEN NoEntry ELSE e
      /\ task'[c].left = task[c].left \ {p}
      /\ \A d \in Consoles \ {c} : task'[d] = task[d]
  BY <1>1, AfterPeerFacts
<1>5. r.kind = e.kind /\ r.cmd = e.cmd /\ r.no = e.no /\ r.from = c /\ r.to = p
  OBVIOUS
<1>6. e # NoEntry
  BY <1>1 DEF CountOK
<1>7. CopyOK(c, e, k)
  BY <1>2 DEF CopiesOK
<1> HIDE DEF e, r
<1>8. CopiesOK(k)'
  BY <1>1, <1>2, <1>3, <1>5, <1>7 DEF CopiesOK, CopyOK
<1>9. ASSUME NEW n \in told[k], Shows(n, k) => Shows(n, k)', Reaches(n, k) PROVE Reaches(n, k)'
  <2>1. CASE task[f].entry.kind = k /\ task[f].entry.no = last[k].no /\ n \in task[f].left
    <3>1. CASE f = c /\ n = p
      <4>1. r \in net' /\ r.to = n /\ r.kind = k /\ r.no = last[k].no
        BY <1>1, <1>5, <2>1, <3>1 DEF e
      <4> QED
        BY <1>1, <4>1 DEF Reaches
    <3>2. CASE f = c /\ n # p
      <4>1. n \in task'[c].left /\ task'[c].entry = e
        BY <1>4, <2>1, <3>2
      <4> QED
        BY <1>1, <2>1, <3>2, <4>1 DEF Reaches, e
    <3>3. CASE f # c
      <4>1. task'[f] = task[f]
        BY <1>2, <1>4, <3>3
      <4> QED
        BY <1>1, <2>1, <4>1 DEF Reaches
    <3> QED
      BY <3>1, <3>2, <3>3
  <2>2. CASE \E q \in net : q.to = n /\ q.kind = k /\ q.no = last[k].no
    BY <1>1, <2>2 DEF Reaches
  <2>3. CASE Shows(n, k) /\ \A q \in net : q.to = n /\ q.kind = k /\ q.no < last[k].no => q.from # f
    <3>1. r.no < last[k].no => r.from # f
      <4> SUFFICES ASSUME r.no < last[k].no, r.from = f PROVE FALSE
        OBVIOUS
      <4>1. e.no >= last[k].no
        BY <1>2, <1>5, <1>6, <1>9 DEF TakenOK, e
      <4> QED
        BY <1>5, <4>1, NumberFacts DEF e
    <3>2. \A q \in net' : q.to = n /\ q.kind = k /\ q.no < last[k].no => q.from # f
      BY <1>1, <2>3, <3>1
    <3> QED
      BY <1>1, <1>9, <2>3, <3>2 DEF Reaches
  <2> QED
    BY <1>9, <2>1, <2>2, <2>3 DEF Reaches
<1>10. Quiet(k)
  BY <1>1 DEF Quiet, Calm
<1> QED
  BY <1>3, <1>8, <1>9, <1>10, QuietFacts

\* No connection: not with the last command in hand.
LEMMA FailKeeps ==
  ASSUME TypeOK, CountOK, NEW k \in Kind, CleanOK(k), clean[k],
         NEW c \in Consoles, NEW p \in Node, SendFails(c, p), clean'[k]
  PROVE  CleanOK(k)'
<1> DEFINE e == task[c].entry
           f == last[k].from
<1>1. /\ UNCHANGED <<table, shown, web, queue, net, heard, last, told>>
      /\ p \in task[c].left /\ task' = [task EXCEPT ![c] = AfterPeer(c, p)]
      /\ clean' = [clean EXCEPT ![e.kind] = clean[e.kind] /\ e.no # last[e.kind].no]
  BY DEF SendFails, Spoiled
<1>2. f \in Consoles /\ CopiesOK(k) /\ TakenOK(k)
  BY DEF CleanOK
<1>3. /\ \A d \in Consoles : \A i \in DOMAIN queue'[d] : CopyOK(d, queue[d][i], k)'
      /\ \A d \in Consoles : CopyOK(d, task[d].entry, k)'
      /\ TakenOK(k)'
  BY <1>1, <1>2, PeerKeeps
<1>4. \A d \in Consoles \ {c} : task'[d] = task[d]
  BY <1>1, AfterPeerFacts
<1>5. ~(e.kind = k /\ e.no = last[k].no)
  BY <1>1 DEF TypeOK
<1>6. CopiesOK(k)'
  BY <1>1, <1>2, <1>3 DEF CopiesOK
<1>7. ASSUME NEW n \in told[k], Shows(n, k) => Shows(n, k)', Reaches(n, k) PROVE Reaches(n, k)'
  <2>1. task[f].entry.kind = k /\ task[f].entry.no = last[k].no => task'[f] = task[f]
    BY <1>2, <1>4, <1>5
  <2> QED
    BY <1>1, <1>7, <2>1 DEF Reaches
<1>8. Quiet(k)
  BY <1>1 DEF Quiet, Calm
<1> QED
  BY <1>3, <1>6, <1>7, <1>8, QuietFacts

\* A request is lost: not the last command.
LEMMA LoseKeeps ==
  ASSUME TypeOK, CountOK, NEW k \in Kind, CleanOK(k), clean[k], NEW r \in net, Lose(r), clean'[k]
  PROVE  CleanOK(k)'
<1>1. /\ UNCHANGED <<table, shown, web, queue, task, heard, last, told>>
      /\ net' = net \ {r}
      /\ clean' = [clean EXCEPT ![r.kind] = clean[r.kind] /\ r.no # last[r.kind].no]
  BY DEF Lose, Spoiled
<1>2. CopiesOK(k) /\ TakenOK(k)
  BY DEF CleanOK
<1>3. ~(r.kind = k /\ r.no = last[k].no)
  BY <1>1 DEF TypeOK
<1>4. CopiesOK(k)' /\ TakenOK(k)'
  BY <1>1, <1>2 DEF CopiesOK, CopyOK, TakenOK
<1>5. ASSUME NEW n \in told[k], Shows(n, k) => Shows(n, k)', Reaches(n, k) PROVE Reaches(n, k)'
  BY <1>1, <1>3, <1>5 DEF Reaches
<1>6. Quiet(k)
  BY <1>1 DEF Quiet, Calm
<1> QED
  BY <1>4, <1>5, <1>6, QuietFacts

\* A peer carries out a request: the last command, or an older one that it does not hold
\* against it.
LEMMA HandleKeeps ==
  ASSUME TypeOK, CountOK, OthersOK, NEW k \in Kind, CleanOK(k), clean[k],
         NEW r \in net, Handle(r), clean'[k]
  PROVE  CleanOK(k)'
<1> DEFINE f == last[k].from
<1>1. /\ UNCHANGED <<table, web, queue, task, last, told>>
      /\ net' = net \ {r}
      /\ shown' = [shown EXCEPT ![r.to][r.kind] = r.cmd]
      /\ heard' = [heard EXCEPT ![r.to][r.kind] = r.no]
      /\ clean' = [clean EXCEPT ![r.kind] = clean[r.kind] /\ ~Disordered(r)]
  BY DEF Handle
<1>2. /\ f \in Consoles /\ CopiesOK(k) /\ TakenOK(k) /\ Shows(f, k)
      /\ \A n \in told[k] : Reaches(n, k)
  BY DEF CleanOK
<1>3. /\ r \in Request /\ r.to \in Node /\ r.kind \in Kind /\ r.to # r.from
      /\ r.no \in Nat /\ last[k].no \in Nat /\ f \in Node /\ told[k] \subseteq Node
  BY <1>2, NumberFacts, FleetAssumption DEF Request, OthersOK, TypeOK
<1>4. CopiesOK(k)' /\ TakenOK(k)'
  BY <1>1, <1>2 DEF CopiesOK, CopyOK, TakenOK
<1>5. CASE r.kind # k
  <2>1. \A n \in Node : heard'[n][k] = heard[n][k] /\ shown'[n][k] = shown[n][k]
    BY <1>1, <1>3, <1>5 DEF TypeOK
  <2>2. Quiet(k)
    BY <1>1, <2>1 DEF Quiet, Calm
  <2>3. ASSUME NEW n \in told[k], Shows(n, k) => Shows(n, k)', Reaches(n, k) PROVE Reaches(n, k)'
    BY <1>1, <1>5, <2>3 DEF Reaches
  <2> QED
    BY <1>4, <2>2, <2>3, QuietFacts
<1>6. CASE r.kind = k
  <2>1. ~Disordered(r)
    BY <1>1, <1>6 DEF TypeOK
  <2>2. /\ \A n \in Node \ {r.to} : heard'[n][k] = heard[n][k] /\ shown'[n][k] = shown[n][k]
        /\ heard'[r.to][k] = r.no /\ shown'[r.to][k] = r.cmd
    BY <1>1, <1>3, <1>6 DEF TypeOK
  <2>3. ASSUME NEW n \in Node \ {r.to}, Shows(n, k) PROVE Shows(n, k)'
    BY <1>1, <2>2, <2>3 DEF Shows, Calm
  <2>4. r.no <= last[k].no /\ (r.no = last[k].no => r.cmd = last[k].cmd /\ r.from = f)
    BY <1>2, <1>6 DEF CopiesOK
  <2>5. r.to # f
    <3> SUFFICES ASSUME r.to = f PROVE FALSE
      OBVIOUS
    <3>1. r.from # f
      BY <1>3
    <3>2. r.no < heard[r.to][r.kind]
      BY <1>2, <1>3, <1>6, <2>4, <3>1 DEF Shows
    <3> QED
      BY <1>6, <2>1, <3>1, <3>2 DEF Disordered
  <2>6. Shows(f, k)'
    BY <1>1, <1>2, <1>3, <2>2, <2>5 DEF Shows, Calm
  <2>7. ASSUME NEW n \in told[k] PROVE Reaches(n, k)'
    <3>0. n \in Node /\ Reaches(n, k)
      BY <1>2, <1>3, <2>7
    <3>1. CASE n # r.to
      BY <1>1, <2>3, <3>0, <3>1 DEF Reaches
    <3>2. CASE n = r.to /\ r.no = last[k].no
      <4>1. Shows(n, k)'
        BY <1>1, <2>2, <2>4, <3>2 DEF Shows
      <4>2. \A q \in net' : q.to = n /\ q.kind = k /\ q.no < last[k].no => q.from # f
        BY <1>1, <1>6, <2>1, <3>2 DEF Disordered
      <4> QED
        BY <1>1, <4>1, <4>2 DEF Reaches
    <3>3. CASE n = r.to /\ r.no < last[k].no
      <4>1. ~(Shows(n, k) /\ \A q \in net : q.to = n /\ q.kind = k /\ q.no < last[k].no => q.from # f)
        BY <1>6, <2>1, <3>3 DEF Disordered, Shows
      <4>2. r.no # last[k].no
        BY <1>3, <3>3
      <4> QED
        BY <1>1, <3>0, <4>1, <4>2 DEF Reaches
    <3> QED
      BY <1>3, <2>4, <3>1, <3>2, <3>3
  <2> QED
    BY <1>1, <1>2, <1>4, <2>6, <2>7 DEF CleanOK
<1> QED
  BY <1>5, <1>6

\* Every step keeps what clean says.
LEMMA CleanKept ==
  ASSUME TypeOK, CountOK, OthersOK, OrderOK, NEW k \in Kind, CleanOK(k), Next
  PROVE  CleanOK(k)'
<1> SUFFICES ASSUME clean'[k] PROVE CleanOK(k)'
  BY DEF CleanOK
<1>1. ASSUME NEW n \in Node, NEW j \in Kind, Command(n, j) PROVE CleanOK(k)'
  <2>1. j # k /\ clean[k]
    BY <1>1 DEF Command, TypeOK
  <2>2. \A m \in Node : shown'[m][k] = shown[m][k]
    BY <1>1, <2>1 DEF Command, TypeOK
  <2>3. Quiet(k)
    BY <1>1, <2>2 DEF Quiet, Calm, Command
  <2> QED
    BY <1>1, <2>1, <2>3, StillFacts DEF Command
<1>2. ASSUME NEW c \in Consoles, NEW j \in Kind, NetChange(c, j) PROVE CleanOK(k)'
  <2>1. \A m \in Node : Calm(m, k)' => Calm(m, k) /\ shown'[m][k] = shown[m][k]
    <3> SUFFICES ASSUME NEW m \in Node, Calm(m, k)' PROVE Calm(m, k) /\ shown'[m][k] = shown[m][k]
      OBVIOUS
    <3>1. web' = [web EXCEPT ![c] = [kind |-> j, cmd |-> cmds']]
      BY <1>2 DEF NetChange
    <3>2. web[c].kind # k
      BY <1>2, WebFacts DEF NetChange
    <3>3. \A d \in Consoles \ {c} : web'[d] = web[d]
      BY <3>1 DEF TypeOK
    <3>4. Calm(m, k)
      BY <3>2, <3>3 DEF Calm
    <3>5. m = c => j # k
      BY <3>1 DEF Calm, TypeOK
    <3>6. shown'[m][k] = shown[m][k]
      <4>1. shown' = [shown EXCEPT ![c][j] = cmds']
        BY <1>2 DEF NetChange
      <4> QED
        BY <3>5, <4>1 DEF TypeOK
    <3> QED
      BY <3>4, <3>6
  <2>2. Quiet(k) /\ clean[k]
    BY <1>2, <2>1 DEF Quiet, NetChange, history
  <2> QED
    BY <1>2, <2>2, StillFacts DEF NetChange
<1>3. ASSUME NEW c \in Consoles, NetSync(c) PROVE CleanOK(k)'
  <2>1. \A m \in Node : Calm(m, k)' => Calm(m, k)
    <3>1. web[c].kind # k
      BY <1>3, WebFacts DEF NetSync
    <3>2. \A d \in Consoles \ {c} : web'[d] = web[d]
      BY <1>3 DEF NetSync, TypeOK
    <3> QED
      BY <3>1, <3>2 DEF Calm
  <2>2. Quiet(k) /\ clean[k]
    BY <1>3, <2>1 DEF Quiet, NetSync, history
  <2> QED
    BY <1>3, <2>2, StillFacts DEF NetSync
<1>4. ASSUME NEW c \in Consoles, NetForward(c) PROVE CleanOK(k)'
  <2>1. CASE web[c].kind = k
    BY <1>4, <2>1, ForwardKeeps
  <2>2. CASE web[c].kind # k
    <3> DEFINE j == web[c].kind
    <3>1. j \in Kind /\ c \in Node
      BY <1>4, ForwardFacts, WebFacts
    <3> HIDE DEF j
    <3>2. /\ heard' = [heard EXCEPT ![c][j] = sends'] /\ told' = [told EXCEPT ![j] = {}]
          /\ last' = [last EXCEPT ![j] = [no |-> sends', cmd |-> shown[c][j], from |-> c]]
          /\ web' = [web EXCEPT ![c] = Idle] /\ shown' = shown
          /\ \E b \in BOOLEAN : clean' = [clean EXCEPT ![j] = b]
      BY <1>4 DEF NetForward, j
    <3>3. j # k
      BY <2>2 DEF j
    <3>4. last'[k] = last[k] /\ told'[k] = told[k] /\ clean[k]
      BY <3>1, <3>2, <3>3 DEF TypeOK
    <3>5. \A m \in Node : heard'[m][k] = heard[m][k]
      BY <3>1, <3>2, <3>3 DEF TypeOK
    <3>6. \A m \in Node : Calm(m, k)' => Calm(m, k)
      <4>1. \A d \in Consoles \ {c} : web'[d] = web[d]
        BY <3>2 DEF TypeOK
      <4> QED
        BY <2>2, <4>1 DEF Calm
    <3>7. Quiet(k)
      BY <3>2, <3>4, <3>5, <3>6 DEF Quiet
    <3>8. PICK e \in Entry : /\ queue' = enqueueBcast(c, e) /\ e.no = sends + 1 /\ e.kind # k
                             /\ UNCHANGED <<task, net>>
      BY <1>4, <2>2, ForwardFacts DEF NetForward
    <3> QED
      BY <3>4, <3>7, <3>8, EnqueueKeeps
  <2> QED
    BY <2>1, <2>2
<1>5. ASSUME NEW c \in Consoles, NEW p \in Node \ {c}, NEW j \in Kind, PeerCmd(c, p, j) PROVE CleanOK(k)'
  <2>1. j # k /\ clean[k]
    BY <1>5 DEF PeerCmd, TypeOK
  <2>2. Quiet(k)
    BY <1>5 DEF Quiet, Calm, PeerCmd
  <2>3. PICK e \in Entry : /\ queue' = enqueueBcast(c, e) /\ e.no = sends + 1 /\ e.kind # k
                           /\ UNCHANGED <<task, net>>
    BY <1>5, <2>1, PeerFacts DEF PeerCmd
  <2> QED
    BY <2>1, <2>2, <2>3, EnqueueKeeps
<1>6. ASSUME NEW c \in Consoles, TakeEntry(c) PROVE CleanOK(k)'
  BY <1>6, TakeKeeps
<1>7. ASSUME NEW c \in Consoles, TakeBusy(c) PROVE CleanOK(k)'
  <2>1. clean[k]
    BY <1>7 DEF TakeBusy, Spoiled, TypeOK
  <2> QED
    BY <1>7, <2>1, BusyKeeps
<1>8. ASSUME NEW c \in Consoles, NEW p \in Node, sendPeerGet(c, p) PROVE CleanOK(k)'
  BY <1>8, SendKeeps DEF sendPeerGet, history
<1>9. ASSUME NEW c \in Consoles, NEW p \in Node, SendFails(c, p) PROVE CleanOK(k)'
  <2>1. clean[k]
    BY <1>9 DEF SendFails, Spoiled, TypeOK
  <2> QED
    BY <1>9, <2>1, FailKeeps
<1>10. ASSUME NEW c \in Consoles, NEW p \in Movers \ {c}, TableChanges(c, p) PROVE CleanOK(k)'
  <2>1. Quiet(k) /\ clean[k]
    BY <1>10 DEF Quiet, Calm, TableChanges, history
  <2> QED
    BY <1>10, <2>1, StillFacts DEF TableChanges
<1>11. ASSUME NEW r \in net, Handle(r) PROVE CleanOK(k)'
  <2>1. clean[k]
    BY <1>11 DEF Handle, TypeOK
  <2> QED
    BY <1>11, <2>1, HandleKeeps
<1>12. ASSUME NEW r \in net, Lose(r) PROVE CleanOK(k)'
  <2>1. clean[k]
    BY <1>12 DEF Lose, Spoiled, TypeOK
  <2> QED
    BY <1>12, <2>1, LoseKeeps
<1> QED
  BY <1>1, <1>2, <1>3, <1>4, <1>5, <1>6, <1>7, <1>8, <1>9, <1>10, <1>11, <1>12 DEF Next

-----------------------------------------------------------------------------
(* The theorem.                                                             *)

\* The nodes have met and nothing is on its way.
LEMMA InitFleet == Init => Inv
<1> SUFFICES ASSUME Init PROVE Inv
  OBVIOUS
<1> USE FleetAssumption
<1>1. TypeOK
  <2>1. 0 \in Numbers
    BY DEF Numbers
  <2>2. /\ ready \subseteq Consoles /\ table \in [Consoles -> SUBSET Node]
        /\ shown \in [Node -> [Kind -> Numbers]] /\ heard \in [Node -> [Kind -> Numbers]]
        /\ web \in [Consoles -> [kind : Kind, cmd : Numbers] \cup {Idle}]
    BY <2>1 DEF Init
  <2>3. /\ task \in [Consoles -> [entry : Entry \cup {NoEntry}, left : SUBSET Node]]
        /\ net \subseteq Request /\ cmds \in Numbers /\ sends \in Numbers
    BY <2>1 DEF Init
  <2>4. /\ last \in [Kind -> [no : Numbers, cmd : Numbers, from : Consoles \cup {Nobody}]]
        /\ told \in [Kind -> SUBSET Node] /\ clean \in [Kind -> BOOLEAN]
    BY <2>1 DEF Init
  <2>5. \A c \in Consoles : queue[c] \in Seq(Entry) /\ Len(queue[c]) <= BCAST_CAP
    BY DEF Init
  <2> QED
    BY <2>2, <2>3, <2>4, <2>5 DEF TypeOK
<1>2. CountOK
  <2>1. Open = {}
    BY DEF Init, Open
  <2>2. Cardinality(Open) = 0
    BY <2>1, FS_EmptySet
  <2>3. queue \in [Consoles -> Seq(Entry)] /\ \A c \in Consoles : DOMAIN queue[c] = {}
    BY DEF Init
  <2> QED
    BY <2>2, <2>3 DEF Init, CountOK, NoEntry
<1>3. OthersOK /\ OrderOK
  <2>1. \A c \in Consoles : DOMAIN queue[c] = {}
    BY DEF Init
  <2> QED
    BY <2>1 DEF Init, OthersOK, OrderOK
<1>4. \A k \in Kind : CleanOK(k)
  BY DEF Init, CleanOK
<1> QED
  BY <1>1, <1>2, <1>3, <1>4 DEF Inv

\* Every step keeps the inductive invariant.
LEMMA StepFleet == Inv /\ [Next]_vars => Inv'
<1> SUFFICES ASSUME Inv, [Next]_vars PROVE Inv'
  OBVIOUS
<1>1. CASE Next
  <2>1. TypeOK' /\ CountOK' /\ OthersOK' /\ OrderOK'
    BY <1>1, TypeKept, CountKept, OthersKept, OrderKept DEF Inv
  <2>2. ASSUME NEW k \in Kind PROVE CleanOK(k)'
    BY <1>1, CleanKept DEF Inv
  <2> QED
    BY <2>1, <2>2 DEF Inv
<1>2. CASE UNCHANGED vars
  BY <1>2 DEF vars, Inv, TypeOK, CountOK, Open, OthersOK, OrderOK, CleanOK, CopiesOK, CopyOK,
              TakenOK, Shows, Calm, Reaches
<1> QED
  BY <1>1, <1>2

\* The invariant says what the fleet shows once the command has arrived.
LEMMA InvFleet == Inv => FleetInv
<1> SUFFICES ASSUME Inv, NEW k \in Kind, clean[k], Arrived(k), NEW n \in told[k] \cup {last[k].from}
             PROVE  shown[n][k] = last[k].cmd
  BY DEF Inv, FleetInv, LastWins
<1>1. /\ TypeOK /\ last[k].from \in Consoles /\ Shows(last[k].from, k)
      /\ \A m \in told[k] : Reaches(m, k)
  BY DEF Inv, CleanOK
<1>2. Calm(n, k)
  BY DEF Arrived, Calm
<1>3. Shows(n, k)
  BY <1>1 DEF Arrived, Reaches
<1> QED
  BY <1>2, <1>3 DEF Shows

\* Whatever the tasks of the consoles and the network do, for any fleet, the queues and the
\* tables stay in their types, and a fleet command that has arrived, and that nothing in
\* clean became of, is what its console and every peer of its table show (enqueueBcast,
\* bcastTask, sendPeerGet).
THEOREM FleetSafe == Spec => []FleetInv
<1>1. Spec => []Inv
  BY InitFleet, StepFleet, PTL DEF Spec
<1> QED
  BY <1>1, InvFleet, PTL

=============================================================================
