-------------------------------- MODULE Fleet -------------------------------
(***************************************************************************)
(* Fleet control (src/main.cpp): a command on one node is carried out      *)
(* there, put into a queue of BCAST_CAP entries and forwarded by bcastTask *)
(* to the peers, one connection each, without waiting for an answer.       *)
(*                                                                         *)
(* On each console three tasks run: the web task serves one request at a   *)
(* time, the loop task carries out OSC messages, bcastTask forwards.  A    *)
(* connection may be refused, its request may get lost or meet a busy      *)
(* peer, and requests on two connections may overtake each other.          *)
(*                                                                         *)
(* A command is a number.  What it makes of a node is abstracted to        *)
(* shown[n][k] = the command that the node shows last, k being the look    *)
(* (/blackout, /full, /scene/recall) or the master dimmer (/master).       *)
(***************************************************************************)
EXTENDS Naturals, Sequences, FiniteSets

CONSTANTS
  Node,
  Consoles,     \* nodes whose /net and /peer routes are used
  Unready,      \* consoles whose startBcastTask may fail
  Movers,       \* nodes that come and go
  BCAST_CAP,    \* 8
  MaxCmds,      \* bound: commands in a behaviour
  Everyone, Nobody

ASSUME FleetAssumption ==
  /\ IsFiniteSet(Node) /\ Consoles \subseteq Node
  /\ Unready \subseteq Consoles /\ Movers \subseteq Node
  /\ BCAST_CAP \in Nat \ {0} /\ MaxCmds \in Nat
  /\ Everyone \notin Node /\ Nobody \notin Node

\* what the paths that isAllowedPeerPath lets through set
Kind == {"look", "master"}

VARIABLES
  ready,    \* consoles whose queue and task exist
  table,    \* the peers in the table of each console
  shown,
  web,      \* the web task of a console: "idle", or the command to forward
  queue, task,
  net,      \* requests that peers have not handled yet
  cmds,     \* number of commands so far
  sends,    \* history: number of commands that were to be forwarded
  heard,    \* history: the number, among these, of what a node shows
  last,     \* history: the last command for everyone
  told,     \* history: the table when it was forwarded
  clean     \* history: has nothing disturbed the last command for everyone?

vars == <<ready, table, shown, web, queue, task, net, cmds, sends, heard, last, told, clean>>
history == <<sends, heard, last, told, clean>>

Numbers == 0 .. MaxCmds
Idle == [kind |-> "none", cmd |-> 0]
NoEntry == [kind |-> "none", cmd |-> 0, no |-> 0, to |-> Nobody]
Entry == [kind : Kind, cmd : Numbers, no : Numbers, to : Node \cup {Everyone}]
Request == [kind : Kind, cmd : Numbers, no : Numbers, from : Consoles, to : Node]

TypeOK ==
  /\ ready \subseteq Consoles
  /\ table \in [Consoles -> SUBSET Node]
  /\ shown \in [Node -> [Kind -> Numbers]] /\ heard \in [Node -> [Kind -> Numbers]]
  /\ web \in [Consoles -> [kind : Kind, cmd : Numbers] \cup {Idle}]
  /\ \A c \in Consoles : queue[c] \in Seq(Entry) /\ Len(queue[c]) <= BCAST_CAP
  /\ task \in [Consoles -> [entry : Entry \cup {NoEntry}, left : SUBSET Node]]
  /\ net \subseteq Request
  /\ cmds \in Numbers /\ sends \in Numbers
  /\ last \in [Kind -> [no : Numbers, cmd : Numbers, from : Consoles \cup {Nobody}]]
  /\ told \in [Kind -> SUBSET Node] /\ clean \in [Kind -> BOOLEAN]

\* startBcastTask may not get its memory; the nodes have met
Init ==
  /\ ready \in {Consoles, Consoles \ Unready}
  /\ table = [c \in Consoles |-> Node \ {c}]
  /\ shown = [n \in Node |-> [k \in Kind |-> 0]]
  /\ web = [c \in Consoles |-> Idle]
  /\ queue = [c \in Consoles |-> << >>]
  /\ task = [c \in Consoles |-> [entry |-> NoEntry, left |-> {}]]
  /\ net = {} /\ cmds = 0
  /\ sends = 0
  /\ heard = shown
  /\ last = [k \in Kind |-> [no |-> 0, cmd |-> 0, from |-> Nobody]]
  /\ told = [k \in Kind |-> {}] /\ clean = [k \in Kind |-> FALSE]

-----------------------------------------------------------------------------
(* Commands.                                                                *)

\* a plain route, or an OSC message of the loop task: this node alone
Command(n, k) ==
  /\ cmds < MaxCmds
  /\ cmds' = cmds + 1
  /\ shown' = [shown EXCEPT ![n][k] = cmds']
  /\ clean' = [clean EXCEPT ![k] = FALSE]
  /\ UNCHANGED <<ready, table, web, queue, task, net, sends, heard, last, told>>

\* routeNetBlackout, routeNetFull, routeNetSceneRecall, routeNetMaster with v: under gLock
NetChange(c, k) ==
  /\ web[c] = Idle
  /\ cmds < MaxCmds
  /\ cmds' = cmds + 1
  /\ shown' = [shown EXCEPT ![c][k] = cmds']
  /\ web' = [web EXCEPT ![c] = [kind |-> k, cmd |-> cmds']]
  /\ UNCHANGED <<ready, table, queue, task, net, history>>

\* routeNetMaster without v: the present master is for everyone
NetSync(c) ==
  /\ web[c] = Idle
  /\ cmds < MaxCmds
  /\ cmds' = cmds + 1
  /\ web' = [web EXCEPT ![c] = [kind |-> "master", cmd |-> shown[c]["master"]]]
  /\ UNCHANGED <<ready, table, shown, queue, task, net, history>>

\* mutant: the argument of the request is forwarded
PathArg(c) == web[c].cmd

\* the path of routeNetMaster holds masterDimmer as it is after the lock was given back
Path(c) == IF web[c].kind = "master" THEN shown[c]["master"] ELSE web[c].cmd

\* mutant: one entry too many
HasRoomOffByOne(c) == Len(queue[c]) <= BCAST_CAP

HasRoom(c) == Len(queue[c]) < BCAST_CAP

enqueueBcast(c, entry) ==
  IF c \in ready /\ HasRoom(c) THEN [queue EXCEPT ![c] = Append(@, entry)] ELSE queue

\* the rest of the route: enqueueBcast, which fails (503) when the queue is full
NetForward(c) ==
  LET k == web[c].kind
  IN  /\ web[c] # Idle
      /\ web' = [web EXCEPT ![c] = Idle]
      /\ sends' = sends + 1
      /\ queue' = enqueueBcast(c, [kind |-> k, cmd |-> Path(c), no |-> sends', to |-> Everyone])
      /\ heard' = [heard EXCEPT ![c][k] = sends']
      /\ last' = [last EXCEPT ![k] = [no |-> sends', cmd |-> shown[c][k], from |-> c]]
      /\ told' = [told EXCEPT ![k] = {}]
      /\ clean' = [clean EXCEPT ![k] = /\ queue' # queue
                                       /\ k = "look" => shown[c][k] = web[c].cmd]
      /\ UNCHANGED <<ready, table, shown, task, net, cmds>>

\* /peer/cmd: for one peer that is in the table
PeerCmd(c, p, k) ==
  /\ web[c] = Idle
  /\ p \in table[c]
  /\ cmds < MaxCmds
  /\ cmds' = cmds + 1
  /\ sends' = sends + 1
  /\ queue' = enqueueBcast(c, [kind |-> k, cmd |-> cmds', no |-> sends', to |-> p])
  /\ clean' = [clean EXCEPT ![k] = FALSE]
  /\ UNCHANGED <<ready, table, shown, web, task, net, heard, last, told>>

-----------------------------------------------------------------------------
(* bcastTask.                                                               *)

\* what happens to a copy of the last command for everyone is what clean is about
Spoiled(e) == [clean EXCEPT ![e.kind] = @ /\ e.no # last[e.kind].no]

\* an entry for one peer, or one for the peers in the table, copied under gLock
TakeEntry(c) ==
  /\ task[c].entry = NoEntry /\ queue[c] # << >>
  /\ LET e == Head(queue[c])
         left == IF e.to = Everyone THEN table[c] ELSE {e.to}
     IN  /\ task' = [task EXCEPT ![c] = [entry |-> IF left = {} THEN NoEntry ELSE e,
                                         left |-> left]]
         /\ told' = IF e.no = last[e.kind].no THEN [told EXCEPT ![e.kind] = table[c]] ELSE told
  /\ queue' = [queue EXCEPT ![c] = Tail(@)]
  /\ UNCHANGED <<ready, table, shown, web, net, cmds, sends, heard, last, clean>>

\* gLock is not got in 10 ms: the entry is gone
TakeBusy(c) ==
  /\ task[c].entry = NoEntry /\ queue[c] # << >> /\ Head(queue[c]).to = Everyone
  /\ queue' = [queue EXCEPT ![c] = Tail(@)]
  /\ clean' = Spoiled(Head(queue[c]))
  /\ UNCHANGED <<ready, table, shown, web, task, net, cmds, sends, heard, last, told>>

\* mutant: the loop over the peers does not end
AfterPeerStuck(c, p) == [entry |-> task[c].entry, left |-> task[c].left \ {p}]

AfterPeer(c, p) ==
  [entry |-> IF task[c].left = {p} THEN NoEntry ELSE task[c].entry, left |-> task[c].left \ {p}]

\* sendPeerGet: connect, write the request, close
sendPeerGet(c, p) ==
  /\ p \in task[c].left
  /\ LET e == task[c].entry
     IN  net' = net \cup {[kind |-> e.kind, cmd |-> e.cmd, no |-> e.no, from |-> c, to |-> p]}
  /\ task' = [task EXCEPT ![c] = AfterPeer(c, p)]
  /\ UNCHANGED <<ready, table, shown, web, queue, cmds, history>>

\* no connection within 120 ms
SendFails(c, p) ==
  /\ p \in task[c].left
  /\ task' = [task EXCEPT ![c] = AfterPeer(c, p)]
  /\ clean' = Spoiled(task[c].entry)
  /\ UNCHANGED <<ready, table, shown, web, queue, net, cmds, sends, heard, last, told>>

-----------------------------------------------------------------------------
(* The peers.                                                               *)

\* an older request is overtaken on the network, or comes from another console
Disordered(r) ==
  \/ r.no = last[r.kind].no
     /\ \E q \in net : q.to = r.to /\ q.kind = r.kind /\ q.no < r.no
  \/ r.no < heard[r.to][r.kind] /\ r.from # last[r.kind].from

\* the plain route, on the web task of the peer
Handle(r) ==
  /\ r.to \in Consoles => web[r.to] = Idle
  /\ net' = net \ {r}
  /\ shown' = [shown EXCEPT ![r.to][r.kind] = r.cmd]
  /\ heard' = [heard EXCEPT ![r.to][r.kind] = r.no]
  /\ clean' = [clean EXCEPT ![r.kind] = @ /\ ~Disordered(r)]
  /\ UNCHANGED <<ready, table, web, queue, task, cmds, sends, last, told>>

\* the request is lost, or the peer is busy and answers 503 to nobody
Lose(r) ==
  /\ net' = net \ {r}
  /\ clean' = Spoiled(r)
  /\ UNCHANGED <<ready, table, shown, web, queue, task, cmds, sends, heard, last, told>>

\* beacons and the sweep change the table (PeerTable)
TableChanges(c, p) ==
  /\ table' = [table EXCEPT ![c] = IF p \in @ THEN @ \ {p} ELSE @ \cup {p}]
  /\ UNCHANGED <<ready, shown, web, queue, task, net, cmds, history>>

Next ==
  \/ \E n \in Node, k \in Kind : Command(n, k)
  \/ \E c \in Consoles :
       \/ \E k \in Kind : NetChange(c, k)
       \/ NetSync(c)
       \/ NetForward(c)
       \/ \E p \in Node \ {c}, k \in Kind : PeerCmd(c, p, k)
       \/ TakeEntry(c)
       \/ TakeBusy(c)
       \/ \E p \in Node : sendPeerGet(c, p) \/ SendFails(c, p)
       \/ \E p \in Movers \ {c} : TableChanges(c, p)
  \/ \E r \in net : Handle(r) \/ Lose(r)

(***************************************************************************)
(* A route ends, bcastTask runs and a connection takes 120 ms at most, and *)
(* a request arrives or is lost.                                           *)
(***************************************************************************)
Fairness ==
  /\ \A c \in Consoles :
       /\ WF_vars(NetForward(c))
       /\ WF_vars(TakeEntry(c) \/ TakeBusy(c))
       /\ WF_vars(\E p \in Node : sendPeerGet(c, p) \/ SendFails(c, p))
  /\ WF_vars(\E r \in net : Handle(r) \/ Lose(r))

Spec == Init /\ [][Next]_vars /\ Fairness

-----------------------------------------------------------------------------
(* Properties.                                                              *)

\* no copy of the last command for everyone is still on its way
Arrived(k) ==
  /\ \A c \in Consoles :
       /\ web[c].kind # k
       /\ \A i \in DOMAIN queue[c] : queue[c][i].no # last[k].no
       /\ task[c].entry.no # last[k].no
  /\ \A r \in net : r.no # last[k].no

\* The last fleet command wins: once it has arrived, the console and all the peers of
\* its table show it, whatever became of earlier commands (lost entries, refused
\* connections, changes of the table) and whatever OSC did between the two halves of
\* /net/master.  Excepted, by clean: a full queue or missing task, a busy lock, a peer
\* that could not be reached, a later command to one node, requests that overtook each
\* other (enqueueBcast, bcastTask, sendPeerGet).
LastWins ==
  \A k \in Kind : clean[k] /\ Arrived(k) =>
    \A n \in told[k] \cup {last[k].from} : shown[n][k] = last[k].cmd

\* The queue, the task and the tables stay in their types, and where every forwarded
\* command arrived the last one is what the fleet shows.
FleetInv == TypeOK /\ LastWins

\* An accepted fleet command arrives, or something becomes of it that clean records:
\* no peer that is gone, and no empty table, holds the queue up (bcastTask).
LastArrives == \A k \in Kind : clean[k] ~> (Arrived(k) \/ ~clean[k])
=============================================================================
