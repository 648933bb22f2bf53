----------------------------- MODULE Discovery ------------------------------
(***************************************************************************)
(* Nodes that discover each other over one network (src/main.cpp): the     *)
(* 30 s beacon of loop(), the beacon on a new WiFi link and of /discover,  *)
(* and the beacon that pollDiscovery sends in answer to every beacon of    *)
(* another node.  Beacons are UDP broadcasts: they may be lost and they    *)
(* may overtake each other; a beacon in flight twice to the same node is   *)
(* one beacon here.  The peer table is abstracted to the set of peers it   *)
(* holds (PeerTable has the table itself).                                 *)
(***************************************************************************)
EXTENDS Integers, FiniteSets

CONSTANTS
  Node,
  MAX_PEERS,       \* 4
  Lossy,           \* may a beacon be lost and a peer be forgotten?
  LinkChanges,     \* may WiFi links go up and down?
  WebDiscover      \* does anybody ask for /discover?

ASSUME DiscoveryAssumption ==
  /\ IsFiniteSet(Node)
  /\ MAX_PEERS \in Nat
  /\ Lossy \in BOOLEAN
  /\ LinkChanges \in BOOLEAN
  /\ WebDiscover \in BOOLEAN

VARIABLES
  up,        \* nodes whose STA link is up
  net,       \* beacons in flight: <<sender, receiver>>
  known      \* the peers in the table of each node

vars == <<up, net, known>>

TypeOK ==
  /\ up \subseteq Node
  /\ net \subseteq {<<n, m>> \in Node \X Node : n # m}
  /\ known \in [Node -> SUBSET Node]

Init ==
  /\ up \in IF LinkChanges THEN SUBSET Node ELSE {Node}
  /\ net = {}
  /\ known = [n \in Node |-> {}]

\* sendBeacon: to every other node on the network, if the link is up
Beacons(n) == IF n \in up THEN {<<n, m>> : m \in Node \ {n}} ELSE {}

\* now - lastBeacon >= 30000
BeaconTimer(n) ==
  /\ net' = net \cup Beacons(n)
  /\ UNCHANGED <<up, known>>

\* GET /discover: the answer, then a beacon
routeDiscover(n) ==
  /\ WebDiscover
  /\ net' = net \cup Beacons(n)
  /\ UNCHANGED <<up, known>>

\* mutant: the last slot of the table is never used
LearnedShort(n, m) ==
  IF Cardinality(known[n]) < MAX_PEERS - 1 THEN known[n] \cup {m} ELSE known[n]

\* an unknown peer is added while the table has room
Learned(n, m) ==
  IF m \in known[n] \/ Cardinality(known[n]) < MAX_PEERS THEN known[n] \cup {m}
  ELSE known[n]

\* pollDiscovery: the sender is learned, then answered with a broadcast
pollDiscovery(n, m) ==
  /\ n \in up
  /\ <<m, n>> \in net
  /\ known' = [known EXCEPT ![n] = Learned(n, m)]
  /\ net' = (net \ {<<m, n>>}) \cup Beacons(n)
  /\ UNCHANGED up

\* The network, or a receiver that does not get gLock in time, drops a beacon.
Lose(n, m) ==
  /\ Lossy
  /\ <<m, n>> \in net
  /\ net' = net \ {<<m, n>>}
  /\ UNCHANGED <<up, known>>

\* The sweep of loop() forgets a peer (of which too many beacons were lost).
Expire(n, m) ==
  /\ Lossy
  /\ m \in known[n]
  /\ known' = [known EXCEPT ![n] = @ \ {m}]
  /\ UNCHANGED <<up, net>>

\* loop() sees the link come up: it announces the node at once
LinkUp(n) ==
  /\ LinkChanges
  /\ n \notin up
  /\ up' = up \cup {n}
  /\ net' = net \cup {<<n, m>> : m \in Node \ {n}}
  /\ UNCHANGED known

\* what was on its way to the node is lost with the link
LinkDown(n) ==
  /\ LinkChanges
  /\ n \in up
  /\ up' = up \ {n}
  /\ net' = {b \in net : b[2] # n}
  /\ UNCHANGED known

Next ==
  \E n \in Node :
    \/ BeaconTimer(n)
    \/ routeDiscover(n)
    \/ LinkUp(n)
    \/ LinkDown(n)
    \/ \E m \in Node : pollDiscovery(n, m) \/ Lose(n, m) \/ Expire(n, m)

Spec == Init /\ [][Next]_vars

(* Fairness: a node that is up and is sent beacons again and again reads     *)
(* one of each sender in the end (the network is lossy, not broken).         *)
Delivery == \A n \in Node : \A m \in Node \ {n} : SF_vars(pollDiscovery(n, m))

\* The 30 s timer of every node keeps firing.
Timers == \A n \in Node : WF_vars(BeaconTimer(n))

FairSpec == Spec /\ Delivery /\ Timers

-----------------------------------------------------------------------------
(* Properties.                                                              *)

\* Whoever stays on the network is found again and again by every other node that
\* stays, through losses, expiries and link changes of the others.
AllMeet ==
  \A n, m \in Node : n # m =>
    (<>[](n \in up /\ m \in up) => []<>(m \in known[n]))
=============================================================================
