----------------------------- MODULE PeerTable ------------------------------
(***************************************************************************)
(* The peer table of one node (src/main.cpp): pollDiscovery, which learns  *)
(* peers from their UDP beacons, and the sweep of loop() that forgets them *)
(* after PEER_EXPIRE_MS of silence.                                        *)
(*                                                                         *)
(* Both run on the loop task, one after the other, but on two readings of  *)
(* the clock: the sweep uses the now that loop() took at its top, a beacon *)
(* is stamped with the millis() of the moment it is read, after the DMX    *)
(* frame has been sent.  All subtractions are in uint32_t.  Beacons come   *)
(* from the network in any order and number, any of them may be lost, a    *)
(* peer may change its address, and firmware that predates the "mac" field *)
(* may send one without.                                                   *)
(***************************************************************************)
EXTENDS Integers, Sequences, FiniteSets

CONSTANTS
  MAX_PEERS,        \* 4
  PEER_EXPIRE_MS,   \* 90 s
  SWEEP_MS,         \* period of the sweep: 10 s
  U32,              \* number of values of millis()
  MaxLag,           \* bound: the longest iteration of loop()
  MaxMissed,        \* bound: sweeps in a row that miss the lock
  Macs, Ips,        \* peers and addresses
  NoMac             \* the empty mac of a beacon without that field

ASSUME PeerAssumption ==
  /\ MAX_PEERS \in Nat \ {0}
  /\ PEER_EXPIRE_MS \in Nat \ {0}
  /\ SWEEP_MS \in Nat
  /\ MaxLag \in Nat
  /\ MaxMissed \in Nat
  /\ U32 \in Nat
  /\ PEER_EXPIRE_MS + (MaxMissed + 1) * (SWEEP_MS + MaxLag) < U32
  /\ NoMac \notin Macs

VARIABLES
  clock,        \* millis()
  loopNow,      \* now of loop()
  pc,           \* "top" of loop(), or about to "poll" and sweep
  lastExpiry,   \* when the last sweep was due
  missed,       \* sweeps missed since the last one
  peers         \* peers[0 .. peerCount-1], in table order

tableVars == <<clock, loopNow, pc, lastExpiry, missed, peers>>

Instant == 0 .. U32 - 1
Minus(a, b) == (a - b) % U32        \* uint32_t subtraction

\* age is a history field: the true time since the peer was heard, counted up to AgeCap
AgeCap == PEER_EXPIRE_MS
Peer == [mac : Macs \cup {NoMac}, ip : Ips, lastSeenMs : Instant, age : 0 .. AgeCap]

TableTypeOK ==
  /\ clock \in Instant
  /\ loopNow \in Instant
  /\ pc \in {"top", "poll"}
  /\ lastExpiry \in Instant
  /\ missed \in 0 .. MaxMissed
  /\ peers \in Seq(Peer)
  /\ Len(peers) <= MAX_PEERS

TableInit ==
  /\ clock = 0 /\ loopNow = 0 /\ pc = "top" /\ lastExpiry = 0 /\ missed = 0
  /\ peers = << >>

\* Time passes for the node and for the history; loop() comes round within MaxLag.
ClockTick ==
  /\ Minus(clock, loopNow) < MaxLag
  /\ clock' = (clock + 1) % U32
  /\ peers' = [i \in DOMAIN peers |->
                 [peers[i] EXCEPT !.age = IF @ < AgeCap THEN @ + 1 ELSE @]]
  /\ UNCHANGED <<loopNow, pc, lastExpiry, missed>>

\* const uint32_t now = millis()
LoopTop ==
  /\ pc = "top"
  /\ loopNow' = clock
  /\ pc' = "poll"
  /\ UNCHANGED <<clock, lastExpiry, missed, peers>>

\* mutant: peers are told apart by address only
MatchesByIp(p, mac, ip) == p.ip = ip

\* by MAC first, by address when the beacon has no MAC
Matches(p, mac, ip) == IF mac # NoMac THEN p.mac = mac ELSE p.ip = ip

HasRoom == Len(peers) < MAX_PEERS

\* pollDiscovery: one beacon of another node is read and its peer updated or added; the
\* first match wins, a full table drops a new peer.  (A node's own beacon, and one for
\* which gLock is not got in time, change nothing.)
Beacon(mac, ip) ==
  /\ pc = "poll"
  /\ LET heard == [mac |-> mac, ip |-> ip, lastSeenMs |-> clock, age |-> 0]
         found == {i \in DOMAIN peers : Matches(peers[i], mac, ip)}
     IN  \/ \E i \in found :
              /\ \A j \in found : i <= j
              /\ peers' = [peers EXCEPT ![i] = heard]
         \/ /\ found = {} /\ HasRoom
            /\ peers' = Append(peers, heard)
  /\ UNCHANGED <<clock, loopNow, pc, lastExpiry, missed>>

\* mutant: the ages are compared without the 32-bit wrap of a subtraction
AliveNoWrap(p) == loopNow - p.lastSeenMs < PEER_EXPIRE_MS

\* mutant: a peer is dropped one unit too early
AliveEarly(p) == Minus(loopNow, p.lastSeenMs) < PEER_EXPIRE_MS - 1

Alive(p) == Minus(loopNow, p.lastSeenMs) < PEER_EXPIRE_MS

\* where the peers are that the sweep keeps
Kept == {i \in DOMAIN peers : Alive(peers[i])}

SweepDue == Minus(loopNow, lastExpiry) >= SWEEP_MS

\* the rest of the iteration: the sweep, when it is due, moves the live peers up over the
\* dead ones and keeps their order; from[k] is where the peer at place k was
Sweep ==
  /\ pc = "poll"
  /\ SweepDue
  /\ lastExpiry' = loopNow
  /\ \E from \in [1 .. Cardinality(Kept) -> Kept] :
       /\ \A j, k \in DOMAIN from : j < k => from[j] < from[k]
       /\ peers' = [k \in DOMAIN from |-> peers[from[k]]]
  /\ missed' = 0
  /\ pc' = "top"
  /\ UNCHANGED <<clock, loopNow>>

\* gLock is not got in time: the sweep is put off to the next period
SweepBusy ==
  /\ pc = "poll"
  /\ SweepDue
  /\ missed < MaxMissed
  /\ missed' = missed + 1
  /\ lastExpiry' = loopNow
  /\ pc' = "top"
  /\ UNCHANGED <<clock, loopNow, peers>>

NoSweep ==
  /\ pc = "poll"
  /\ ~SweepDue
  /\ pc' = "top"
  /\ UNCHANGED <<clock, loopNow, lastExpiry, missed, peers>>

TableNext ==
  \/ ClockTick
  \/ LoopTop
  \/ \E mac \in Macs \cup {NoMac}, ip \in Ips : Beacon(mac, ip)
  \/ Sweep
  \/ SweepBusy
  \/ NoSweep

TableSpec == TableInit /\ [][TableNext]_tableVars

(* TableFairness: loop() runs for ever and time passes.  No beacon is ever owed.  *)
TableFairness ==
  /\ WF_tableVars(ClockTick)
  /\ WF_tableVars(LoopTop)
  /\ WF_tableVars(Sweep \/ SweepBusy \/ NoSweep)

FairTableSpec == TableSpec /\ TableFairness

-----------------------------------------------------------------------------
(* Properties.                                                              *)

\* A MAC is in the table at most once, whatever the beacons, address changes and
\* sweeps (pollDiscovery: "used for dedup and identity").
MacUnique ==
  \A i, j \in DOMAIN peers : peers[i].mac = peers[j].mac /\ peers[i].mac # NoMac => i = j

\* The table of pollDiscovery and of the sweep: at most MAX_PEERS entries, each node once.
TableInv == TableTypeOK /\ MacUnique

InTable(t, mac) == \E i \in DOMAIN t : t[i].mac = mac

\* A sweep forgets only a peer that has been silent for PEER_EXPIRE_MS (CURRENT.md:
\* "expire after 90s"), also across a wrap of millis(); or one that was heard in this
\* very iteration of loop(), after its now was taken: its age is -1, which is huge.
DropsOnlyStale ==
  [][\A i \in DOMAIN peers :
       (/\ peers[i].mac # NoMac /\ ~InTable(peers', peers[i].mac)
        /\ Sweep)
       => peers[i].age >= PEER_EXPIRE_MS \/ peers[i].age < Minus(clock, loopNow)]_tableVars

\* A peer that has fallen silent leaves the table, although any one sweep may miss
\* the lock, and wherever millis() wraps.
Silent(mac) == [][~\E ip \in Ips : Beacon(mac, ip)]_tableVars
StaleGoes ==
  \A mac \in Macs : <>Silent(mac) => <>[]~InTable(peers, mac)
=============================================================================
