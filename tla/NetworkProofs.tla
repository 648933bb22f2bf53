---------------------------- MODULE NetworkProofs ---------------------------
(***************************************************************************)
(* A node on its network: the WiFi link and the peer table.                *)
(*                                                                         *)
(* WifiInv of WifiLink, for every set of networks and any number of        *)
(* requests.  What makes it inductive is ApKept: ensureStaInterface closes *)
(* an access point only on a node that booted without a station interface  *)
(* and is in STA_ONLY now, which takes a /netmode/set, and that one has a  *)
(* reboot under way.                                                       *)
(*                                                                         *)
(* LibraryFollows, from Follow: what is still due to be joined or          *)
(* forgotten decides where the library will end up.                        *)
(*                                                                         *)
(* TableInv of PeerTable, for every size of the table, every set of peers  *)
(* and addresses and every width of millis(), and DropsOnlyStale, from     *)
(* AgeTrue: the stamp of a peer tells its age as long as it is young, so   *)
(* that the subtraction of the sweep goes wrong only when it starts from   *)
(* an older reading than the stamp.                                        *)
(***************************************************************************)
EXTENDS WifiLink, PeerTable, FiniteSetTheorems, TLAPS

\* What the flash holds: a mode that no firmware of today writes, or settings.
SavedOK ==
  saved \in [netMode : NetMode \cup {"UNKNOWN"}, ssid : Networks \cup {NoNetwork},
             webEnabled : BOOLEAN]

RebootPending == "reboot" \in flags \cup {web}

\* A node that is up has an interface (startWiFi); one with an access point only and
\* in STA_ONLY is about to restart (routeNetModeSet).
ApKept ==
  booted => /\ wifiMode # "OFF"
            /\ wifiMode = "AP" /\ cfg.netMode = "STA_ONLY" => RebootPending

Inv == WifiInv /\ SavedOK /\ ApKept

\* The settings of a blank node are settings.
LEMMA DefaultsType == Defaults \in Config
  BY DEF Defaults, Config, NetMode

\* What loadConfig returns has a mode that the firmware knows.
LEMMA LoadedType == SavedOK => loadConfig \in Config
  BY DEF SavedOK, loadConfig, Config, NetMode

\* The invariant holds before the first boot.
LEMMA InitWifi == Init => Inv
<1> SUFFICES ASSUME Init PROVE Inv
  OBVIOUS
<1>1. SavedOK
  BY DEF Init, SavedOK, Defaults, NetMode
<1>2. TypeOK
  <2>1. saved.ssid \in Networks \cup {NoNetwork} /\ saved.webEnabled \in BOOLEAN
    BY <1>1 DEF SavedOK
  <2>2. requests \in 0 .. MaxRequests
    BY WifiAssumption DEF Init
  <2> QED
    BY <2>1, <2>2, DefaultsType DEF Init, TypeOK
<1> QED
  BY <1>1, <1>2 DEF Init, Inv, WifiInv, Recoverable, ApKept

\* setup() opens an interface, and an access point unless the network was joined.
LEMMA BootKeeps ==
  ASSUME Inv, NEW joined \in BOOLEAN, Boot(joined)
  PROVE  Inv'
<1> USE DEF Inv, WifiInv
<1> DEFINE c == loadConfig
<1>1. c \in Config
  BY LoadedType
<1>2. cfg' = c /\ wifiMode' = startWiFi(c, joined) /\ joinedAtBoot' = joined /\ saved' = saved
  BY DEF Boot
<1>3. joining' \in Networks \cup {NoNetwork}
  BY <1>1 DEF Boot, Config
<1>4. wifiMode' \in {"AP", "STA", "AP_STA"}
  BY <1>2 DEF startWiFi
<1>5. TypeOK'
  BY <1>1, <1>2, <1>3, <1>4 DEF Boot, TypeOK
<1>6. Recoverable'
  BY <1>2 DEF Recoverable, HasAp, startWiFi
<1>7. ApKept'
  BY <1>2, <1>4 DEF ApKept, startWiFi
<1> QED
  BY <1>2, <1>5, <1>6, <1>7 DEF SavedOK

\* A restart, asked for or not, leaves nothing in RAM to keep.
LEMMA RestartKeeps == Inv /\ Restart => Inv'
  BY DEF Inv, WifiInv, SavedOK, Restart, TypeOK, Recoverable, ApKept

\* A route that changes a setting keeps the invariant, unless it takes the node to
\* STA_ONLY without asking for a reboot.
LEMMA ChangeKeeps ==
  ASSUME Inv, NEW c \in Config, NEW flag \in Flag, Change(c, flag),
         c.netMode = "STA_ONLY" => cfg.netMode = "STA_ONLY" \/ flag = "reboot"
  PROVE  Inv'
<1> USE DEF Inv, WifiInv
<1>1. requests' \in 0 .. MaxRequests
  BY WifiAssumption DEF Change, TypeOK
<1>2. TypeOK'
  BY <1>1 DEF Change, TypeOK
<1>3. Recoverable'
  BY DEF Change, Recoverable, HasAp
<1>4. ApKept'
  BY DEF Change, ApKept, RebootPending
<1> QED
  BY <1>2, <1>3, <1>4 DEF Change, SavedOK

\* A scan or a join is given a station interface, and an access point that is open is
\* closed only on a node that is about to restart.
LEMMA StaKeeps ==
  ASSUME Inv, booted
  PROVE  /\ ensureStaInterface \in {"STA", "AP_STA"}
         /\ ensureStaInterface = "STA" => joinedAtBoot \/ RebootPending
  BY DEF Inv, WifiInv, TypeOK, ensureStaInterface, ApKept, Recoverable, HasAp, RebootPending

\* Every step of the web task, the loop task, the library and the power keeps it.
LEMMA NextWifi == Inv /\ [Next]_vars => Inv'
<1> SUFFICES ASSUME Inv, [Next]_vars PROVE Inv'
  OBVIOUS
<1>1. ASSUME NEW joined \in BOOLEAN, Boot(joined) PROVE Inv'
  BY <1>1, BootKeeps
<1>2. CASE PowerFails
  BY <1>2, RestartKeeps DEF PowerFails
<1>3. CASE LinkUp \/ LinkLost
  <2>1. TypeOK' /\ SavedOK'
    <3>1. link' \in BOOLEAN
      BY <1>3 DEF LinkUp, LinkLost
    <3>2. UNCHANGED <<booted, cfg, saved, wifiMode, joining, flags, web, loop, scan,
                      wifiScanActive, asked, requests, joinedAtBoot, lastJoin>>
      BY <1>3 DEF LinkUp, LinkLost
    <3> QED
      BY <3>1, <3>2 DEF Inv, WifiInv, SavedOK, TypeOK
  <2>2. Recoverable' /\ ApKept'
    BY <1>3 DEF LinkUp, LinkLost, Inv, WifiInv, Recoverable, HasAp, ApKept, RebootPending
  <2> QED
    BY <2>1, <2>2 DEF Inv, WifiInv
<1>4. ASSUME NEW ssid \in Networks \cup {NoNetwork}, routeWifiSet(ssid) PROVE Inv'
  <2> DEFINE c == [cfg EXCEPT !.ssid = ssid,
                              !.netMode = IF @ = "AP_ONLY" THEN "AP_STA" ELSE @]
  <2>1. cfg \in Config
    BY DEF Inv, WifiInv, TypeOK
  <2>2. c \in Config /\ (c.netMode = "STA_ONLY" => cfg.netMode = "STA_ONLY")
    BY <2>1 DEF Config, NetMode
  <2>3. Change(c, "reconnect")
    BY <1>4 DEF routeWifiSet
  <2> QED
    BY <2>2, <2>3, ChangeKeeps DEF Flag
<1>5. CASE routeWifiForget
  <2> DEFINE c == [cfg EXCEPT !.ssid = NoNetwork]
  <2>1. cfg \in Config
    BY DEF Inv, WifiInv, TypeOK
  <2>2. c \in Config /\ c.netMode = cfg.netMode
    BY <2>1 DEF Config
  <2>3. Change(c, "forget")
    BY <1>5 DEF routeWifiForget
  <2> QED
    BY <2>2, <2>3, ChangeKeeps DEF Flag
<1>6. ASSUME NEW m \in NetMode, routeNetModeSet(m) PROVE Inv'
  <2>1. [cfg EXCEPT !.netMode = m] \in Config
    BY DEF Inv, WifiInv, TypeOK, Config
  <2> QED
    BY <1>6, <2>1, ChangeKeeps DEF routeNetModeSet, Flag
<1>7. ASSUME NEW en \in BOOLEAN, routeWebSet(en) PROVE Inv'
  <2>1. [cfg EXCEPT !.webEnabled = en] \in Config
    BY DEF Inv, WifiInv, TypeOK, Config
  <2> QED
    BY <1>7, <2>1, ChangeKeeps DEF routeWebSet, Flag
<1>8. CASE SaveAndFlag
  <2>1. cfg \in Config
    BY DEF Inv, WifiInv, TypeOK
  <2>2. SavedOK'
    BY <1>8, <2>1 DEF SaveAndFlag, SavedOK, Config
  <2>3. TypeOK'
    BY <1>8, <2>1 DEF SaveAndFlag, Inv, WifiInv, TypeOK, Config
  <2> QED
    BY <1>8, <2>2, <2>3 DEF SaveAndFlag, Inv, WifiInv, Recoverable, HasAp, ApKept, RebootPending
<1>9. CASE AskForScan
  BY <1>9 DEF AskForScan, Inv, WifiInv, SavedOK, TypeOK, Recoverable, HasAp, ApKept,
              RebootPending
<1>10. CASE wifiScanJSON
  <2>1. booted /\ wifiMode' \in {wifiMode, ensureStaInterface}
    BY <1>10 DEF wifiScanJSON, Reached
  <2>2. TypeOK' /\ SavedOK'
    <3>1. wifiMode' \in {"OFF", "AP", "STA", "AP_STA"}
      BY <2>1, StaKeeps DEF Inv, WifiInv, TypeOK
    <3>2. /\ scan' \in {"none", "running", "done"}
          /\ wifiScanActive' \in BOOLEAN /\ asked' \in BOOLEAN
      BY <1>10 DEF wifiScanJSON, Inv, WifiInv, TypeOK
    <3> QED
      BY <1>10, <3>1, <3>2 DEF wifiScanJSON, Inv, WifiInv, SavedOK, TypeOK
  <2>3. Recoverable' /\ ApKept'
    BY <1>10, <2>1, StaKeeps DEF wifiScanJSON, Inv, WifiInv, TypeOK, Recoverable, HasAp,
                                 ApKept, RebootPending
  <2> QED
    BY <2>2, <2>3 DEF Inv, WifiInv
<1>11. CASE ScanEnds
  BY <1>11 DEF ScanEnds, Inv, WifiInv, SavedOK, TypeOK, Recoverable, HasAp, ApKept,
               RebootPending
<1>12. CASE LoopReboot
  BY <1>12, RestartKeeps DEF LoopReboot
<1>13. CASE LoopForget \/ LoopDisconnect \/ LoopReconnect
  <2>1. UNCHANGED <<booted, cfg, saved, web, asked, requests, joinedAtBoot, lastJoin, wifiMode,
                    scan, wifiScanActive>>
    BY <1>13 DEF LoopForget, LoopDisconnect, LoopReconnect, Rest
  <2>2. /\ flags' \subseteq flags /\ ("reboot" \in flags => "reboot" \in flags')
        /\ loop' \in {"top", "disconnect", "past", "begin"}
        /\ joining' \in {joining, NoNetwork}
    BY <1>13 DEF LoopForget, AfterForget, LoopDisconnect, LoopReconnect
  <2> link' \in BOOLEAN
    BY <1>13 DEF LoopForget, LoopDisconnect, LoopReconnect, Inv, WifiInv, TypeOK
  <2>3. TypeOK' /\ SavedOK'
    BY <2>1, <2>2 DEF Inv, WifiInv, SavedOK, TypeOK
  <2>4. Recoverable' /\ ApKept'
    BY <2>1, <2>2 DEF Inv, WifiInv, Recoverable, HasAp, ApKept, RebootPending
  <2> QED
    BY <2>3, <2>4 DEF Inv, WifiInv
<1>14. CASE LoopBegin
  <2>1. cfg \in Config /\ cfg.ssid \in Networks \cup {NoNetwork}
    BY DEF Inv, WifiInv, TypeOK, Config
  <2>2. TypeOK' /\ SavedOK'
    <3>1. wifiMode' \in {"OFF", "AP", "STA", "AP_STA"}
      BY <1>14 DEF LoopBegin, Inv, WifiInv, TypeOK, ensureStaInterface
    <3>2. scan' \in {"none", "running", "done"} /\ lastJoin' \in {"plain", "crossed", "empty"}
      BY <1>14 DEF LoopBegin, Inv, WifiInv, TypeOK
    <3> QED
      BY <1>14, <2>1, <3>1, <3>2 DEF LoopBegin, Rest, Inv, WifiInv, SavedOK, TypeOK
  <2>3. Recoverable' /\ ApKept'
    BY <1>14, StaKeeps DEF LoopBegin, Rest, Inv, WifiInv, TypeOK, Recoverable, HasAp,
                           ApKept, RebootPending
  <2> QED
    BY <2>2, <2>3 DEF Inv, WifiInv
<1>15. CASE UNCHANGED vars
  BY <1>15 DEF vars, Inv, WifiInv, SavedOK, TypeOK, Recoverable, HasAp, ApKept,
               RebootPending
<1> QED
  BY <1>1, <1>2, <1>3, <1>4, <1>5, <1>6, <1>7, <1>8, <1>9, <1>10, <1>11, <1>12, <1>13,
     <1>14, <1>15 DEF Next, LoopStep

\* In every order of routes, scans, restarts and link changes the link keeps its type,
\* and a node without access point has joined its network when it booted or is about to
\* restart (startWiFi, ensureStaInterface, the flags of loop()).
THEOREM WifiSafe == Spec => []WifiInv
<1>1. Init => Inv
  BY InitWifi
<1>2. Inv /\ [Next]_vars => Inv'
  BY NextWifi
<1>3. Inv => WifiInv
  BY DEF Inv
<1> QED
  BY <1>1, <1>2, <1>3, PTL DEF Spec

\* A join that is still to be made, and a disconnect that is still to be made.
JoinDue == "reconnect" \in flags \cup {web} \/ loop = "begin"
ForgetDue == "forget" \in flags \cup {web} \/ loop = "disconnect"

\* Why the library ends up where the settings say.  A reboot or a join that is due will
\* read them.  Otherwise a forget that is due is the last word on them, or it crossed the
\* join that should have followed it; and when none is due the library is there, or was
\* given an empty SSID and refused it.
Follow ==
  /\ ~booted => flags = {} /\ web = "idle" /\ loop = "top"
  /\ web = "forget" => cfg.ssid = NoNetwork
  /\ (booted /\ cfg.netMode # "AP_ONLY" /\ ~RebootPending /\ ~JoinDue) =>
       IF ForgetDue THEN lastJoin = "crossed" \/ cfg.ssid = NoNetwork
       ELSE \/ joining = cfg.ssid
            \/ lastJoin = "crossed" /\ joining = NoNetwork
            \/ lastJoin = "empty" /\ cfg.ssid = NoNetwork

FollowInv == Inv /\ Follow

\* The library has been told nothing before the first boot.
LEMMA InitFollow == Init => Follow
  BY DEF Init, Follow

\* A route that changes a setting asks for a reboot, asks for a join, or empties the
\* network and asks for the disconnect.
LEMMA ChangeFollow ==
  ASSUME FollowInv, NEW c \in Config, NEW flag \in Flag, Change(c, flag),
         flag = "forget" => c.ssid = NoNetwork
  PROVE  Follow'
  BY DEF FollowInv, Follow, Change, Reached, Flag, RebootPending, JoinDue, ForgetDue

\* Every step of the web task and of the loop task keeps it.
LEMMA NextFollow == FollowInv /\ [Next]_vars => Follow'
<1> SUFFICES ASSUME FollowInv, [Next]_vars PROVE Follow'
  OBVIOUS
<1> USE DEF FollowInv
<1>1. ASSUME NEW joined \in BOOLEAN, Boot(joined) PROVE Follow'
  BY <1>1 DEF Boot, Follow, JoinDue, ForgetDue, RebootPending
<1>2. CASE PowerFails
  BY <1>2 DEF PowerFails, Restart, Follow
<1>3. CASE LinkUp \/ LinkLost \/ AskForScan \/ wifiScanJSON \/ ScanEnds \/ UNCHANGED vars
  <2>1. UNCHANGED <<booted, cfg, joining, flags, web, loop, lastJoin>>
    BY <1>3 DEF LinkUp, LinkLost, AskForScan, wifiScanJSON, ScanEnds, vars
  <2> QED
    BY <2>1 DEF Follow, JoinDue, ForgetDue, RebootPending
<1>4. ASSUME NEW ssid \in Networks \cup {NoNetwork}, routeWifiSet(ssid) PROVE Follow'
  <2> DEFINE c == [cfg EXCEPT !.ssid = ssid,
                              !.netMode = IF @ = "AP_ONLY" THEN "AP_STA" ELSE @]
  <2>1. c \in Config
    BY DEF Inv, WifiInv, TypeOK, Config, NetMode
  <2>2. Change(c, "reconnect")
    BY <1>4 DEF routeWifiSet
  <2> QED
    BY <2>1, <2>2, ChangeFollow DEF Flag
<1>5. CASE routeWifiForget
  <2> DEFINE c == [cfg EXCEPT !.ssid = NoNetwork]
  <2>1. c \in Config /\ c.ssid = NoNetwork
    BY DEF Inv, WifiInv, TypeOK, Config
  <2>2. Change(c, "forget")
    BY <1>5 DEF routeWifiForget
  <2> QED
    BY <2>1, <2>2, ChangeFollow DEF Flag
<1>6. ASSUME NEW m \in NetMode, routeNetModeSet(m) PROVE Follow'
  <2>1. [cfg EXCEPT !.netMode = m] \in Config
    BY DEF Inv, WifiInv, TypeOK, Config
  <2> QED
    BY <1>6, <2>1, ChangeFollow DEF routeNetModeSet, Flag
<1>7. ASSUME NEW en \in BOOLEAN, routeWebSet(en) PROVE Follow'
  <2>1. [cfg EXCEPT !.webEnabled = en] \in Config
    BY DEF Inv, WifiInv, TypeOK, Config
  <2> QED
    BY <1>7, <2>1, ChangeFollow DEF routeWebSet, Flag
<1>8. CASE SaveAndFlag
  BY <1>8 DEF SaveAndFlag, Follow, JoinDue, ForgetDue, RebootPending
<1>9. CASE LoopReboot
  BY <1>9 DEF LoopReboot, Restart, Follow
<1>10. CASE LoopForget
  BY <1>10 DEF LoopForget, AfterForget, Rest, Follow, JoinDue, ForgetDue, RebootPending
<1>11. CASE LoopDisconnect
  BY <1>11 DEF LoopDisconnect, Rest, Follow, JoinDue, ForgetDue, RebootPending
<1>12. CASE LoopReconnect
  BY <1>12 DEF LoopReconnect, Rest, Follow, JoinDue, ForgetDue, RebootPending
<1>13. CASE LoopBegin
  BY <1>13 DEF LoopBegin, Rest, Follow, JoinDue, ForgetDue, RebootPending
<1> QED
  BY <1>1, <1>2, <1>3, <1>4, <1>5, <1>6, <1>7, <1>8, <1>9, <1>10, <1>11, <1>12, <1>13
     DEF Next, LoopStep

\* Whatever the order of /wifi/set, /wifi/forget, reboots and the turns of loop() that
\* serve them, a node with nothing under way joins the network of its settings, or none
\* after a forget and a set that crossed between the two tests of loop(), or the one it
\* had after a /wifi/set with an empty SSID.
THEOREM LibraryFollowsSettings == Spec => []LibraryFollows
<1>1. Init => FollowInv
  BY InitWifi, InitFollow DEF FollowInv
<1>2. FollowInv /\ [Next]_vars => FollowInv'
  BY NextWifi, NextFollow DEF FollowInv
<1>3. FollowInv => LibraryFollows
  BY DEF FollowInv, Follow, LibraryFollows, RebootPending, JoinDue, ForgetDue
<1> QED
  BY <1>1, <1>2, <1>3, PTL DEF Spec

-----------------------------------------------------------------------------
(* The peer table.                                                          *)

\* A function on 1 .. m is a sequence of length m.
LEMMA FunctionIsSeq ==
  ASSUME NEW S, NEW m \in Nat, NEW f, f = [k \in 1 .. m |-> f[k]],
         \A k \in 1 .. m : f[k] \in S
  PROVE  f \in Seq(S) /\ Len(f) = m
<1>1. f \in [1 .. m -> S]
  OBVIOUS
<1> QED
  BY <1>1

\* All subtractions of two readings of millis() are readings again (uint32_t).
LEMMA MinusType == \A a, b \in Instant : Minus(a, b) \in Instant
  BY PeerAssumption DEF Minus, Instant

\* The clock stays a uint32_t when it goes on.
LEMMA TickType == \A a \in Instant : (a + 1) % U32 \in Instant
  BY PeerAssumption DEF Instant

\* PEER_EXPIRE_MS fits into millis() with room to spare.
LEMMA ExpireFits == PEER_EXPIRE_MS < U32
<1>1. (MaxMissed + 1) * (SWEEP_MS + MaxLag) \in Nat
  BY PeerAssumption
<1> QED
  BY <1>1, PeerAssumption

\* One more unit of time makes every difference to the clock one larger, also where the
\* clock wraps.
LEMMA MinusTick ==
  ASSUME NEW a \in Instant, NEW b \in Instant, Minus(a, b) + 1 < U32
  PROVE  Minus((a + 1) % U32, b) = Minus(a, b) + 1
<1> USE PeerAssumption DEF Instant
<1>1. CASE a >= b
  <2>1. Minus(a, b) = a - b
    BY <1>1 DEF Minus
  <2>2. CASE a + 1 < U32
    BY <1>1, <2>1, <2>2 DEF Minus
  <2>3. CASE a + 1 = U32
    <3>1. (a + 1) % U32 = 0
      BY <2>3
    <3>2. (0 - b) % U32 = (IF b = 0 THEN 0 ELSE U32 - b)
      OBVIOUS
    <3> QED
      BY <1>1, <2>1, <2>3, <3>1, <3>2 DEF Minus
  <2> QED
    BY <2>2, <2>3
<1>2. CASE a < b
  <2>1. Minus(a, b) = a - b + U32
    BY <1>2 DEF Minus
  <2>2. (a + 1) % U32 = a + 1
    BY <1>2
  <2>3. a + 1 < b
    BY <2>1, <1>2
  <2> QED
    BY <2>1, <2>2, <2>3 DEF Minus
<1> QED
  BY <1>1, <1>2

\* Of three readings: the difference to an older reading of the clock is the difference to
\* the clock less the one between the two readings, when that is no more.
LEMMA MinusChain ==
  ASSUME NEW a \in Instant, NEW b \in Instant, NEW c \in Instant,
         Minus(a, b) <= Minus(a, c)
  PROVE  Minus(b, c) = Minus(a, c) - Minus(a, b)
<1> USE PeerAssumption DEF Instant
<1>1. Minus(a, b) = IF a >= b THEN a - b ELSE a - b + U32
  BY DEF Minus
<1>2. Minus(a, c) = IF a >= c THEN a - c ELSE a - c + U32
  BY DEF Minus
<1>3. Minus(b, c) = IF b >= c THEN b - c ELSE b - c + U32
  BY DEF Minus
<1> QED
  BY <1>1, <1>2, <1>3

\* The stamp of a peer tells its age, until it is as old as a peer may become.
AgeTrue ==
  \A i \in DOMAIN peers :
    peers[i].age < PEER_EXPIRE_MS => Minus(clock, peers[i].lastSeenMs) = peers[i].age

PeerInv == TableInv /\ AgeTrue

\* The table of a node that boots is empty.
LEMMA InitPeers == TableInit => PeerInv
<1> SUFFICES ASSUME TableInit PROVE PeerInv
  OBVIOUS
<1> USE PeerAssumption DEF TableInit
<1>1. TableTypeOK
  BY DEF TableTypeOK, Instant
<1>2. MacUnique /\ AgeTrue
  BY DEF MacUnique, AgeTrue
<1> QED
  BY <1>1, <1>2 DEF PeerInv, TableInv

\* What the conjuncts of the invariant say of a place of the table.
LEMMA PlaceType ==
  ASSUME TableTypeOK, NEW i \in DOMAIN peers
  PROVE  /\ peers[i] \in Peer
         /\ peers[i].lastSeenMs \in Instant
         /\ peers[i].age \in 0 .. AgeCap
         /\ peers[i] = [mac |-> peers[i].mac, ip |-> peers[i].ip,
                        lastSeenMs |-> peers[i].lastSeenMs, age |-> peers[i].age]
<1>1. peers \in Seq(Peer)
  BY DEF TableTypeOK
<1>2. peers[i] \in Peer
  BY <1>1
<1> QED
  BY <1>2 DEF Peer

\* Time makes every peer of the table older, and changes nothing else of it.
LEMMA ClockTickPeers ==
  ASSUME PeerInv, ClockTick
  PROVE  PeerInv'
<1> USE PeerAssumption DEF PeerInv, TableInv
<1> DEFINE older(a) == IF a < AgeCap THEN a + 1 ELSE a
<1>0. clock \in Instant /\ clock' = (clock + 1) % U32
  BY DEF ClockTick, TableTypeOK
<1>1. clock' \in Instant
  BY <1>0, TickType
<1>2. DOMAIN peers' = DOMAIN peers /\ DOMAIN peers = 1 .. Len(peers) /\ Len(peers) \in Nat
  BY DEF ClockTick, TableTypeOK
<1>3. ASSUME NEW i \in DOMAIN peers
      PROVE  /\ peers'[i] = [mac |-> peers[i].mac, ip |-> peers[i].ip,
                            lastSeenMs |-> peers[i].lastSeenMs, age |-> older(peers[i].age)]
             /\ peers'[i] \in Peer
  <2>1. peers'[i] = [peers[i] EXCEPT !.age = older(@)]
    BY DEF ClockTick
  <2>2. peers'[i] = [mac |-> peers[i].mac, ip |-> peers[i].ip,
                     lastSeenMs |-> peers[i].lastSeenMs, age |-> older(peers[i].age)]
    BY <2>1, PlaceType DEF Peer
  <2>3. older(peers[i].age) \in 0 .. AgeCap
    BY PlaceType DEF AgeCap
  <2> QED
    BY <2>2, <2>3, PlaceType DEF Peer
<1>4. peers' = [i \in 1 .. Len(peers) |-> peers'[i]]
  BY <1>2 DEF ClockTick
<1>5. peers' \in Seq(Peer) /\ Len(peers') = Len(peers)
  BY <1>2, <1>3, <1>4
<1>6. TableTypeOK'
  BY <1>1, <1>5 DEF ClockTick, TableTypeOK
<1>7. MacUnique'
  BY <1>2, <1>3 DEF MacUnique
<1>8. AgeTrue'
  <2> SUFFICES ASSUME NEW i \in DOMAIN peers', peers'[i].age < PEER_EXPIRE_MS
               PROVE  Minus(clock', peers'[i].lastSeenMs) = peers'[i].age
    BY DEF AgeTrue
  <2>1. /\ peers'[i].age = older(peers[i].age) /\ peers'[i].lastSeenMs = peers[i].lastSeenMs
        /\ peers[i].age \in 0 .. AgeCap /\ peers[i].lastSeenMs \in Instant
    BY <1>2, <1>3, PlaceType
  <2>2. peers[i].age < PEER_EXPIRE_MS /\ peers'[i].age = peers[i].age + 1
    BY <2>1 DEF AgeCap
  <2>3. Minus(clock, peers[i].lastSeenMs) = peers[i].age
    BY <1>2, <2>2 DEF AgeTrue
  <2>4. Minus(clock, peers[i].lastSeenMs) + 1 < U32
    BY <2>1, <2>2, <2>3, ExpireFits
  <2> QED
    BY <1>0, <2>1, <2>2, <2>3, <2>4, MinusTick
<1> QED
  BY <1>6, <1>7, <1>8

\* A beacon is written over the place of its peer, or behind the last one.
LEMMA BeaconPeers ==
  ASSUME PeerInv, NEW mac \in Macs \cup {NoMac}, NEW ip \in Ips, Beacon(mac, ip)
  PROVE  PeerInv'
<1> USE PeerAssumption DEF PeerInv, TableInv
<1> DEFINE heard == [mac |-> mac, ip |-> ip, lastSeenMs |-> clock, age |-> 0]
           found == {i \in DOMAIN peers : Matches(peers[i], mac, ip)}
<1>1. heard \in Peer
  BY DEF Peer, AgeCap, TableTypeOK
<1>2. clock' = clock /\ clock \in Instant /\ Minus(clock, clock) = 0
  BY DEF Beacon, TableTypeOK, Minus, Instant
<1>3. peers \in Seq(Peer) /\ DOMAIN peers = 1 .. Len(peers) /\ Len(peers) \in Nat
  BY DEF TableTypeOK
<1>4. CASE \E i \in found : peers' = [peers EXCEPT ![i] = heard]
  <2>1. PICK i \in found : peers' = [peers EXCEPT ![i] = heard]
    BY <1>4
  <2>2. i \in DOMAIN peers /\ Matches(peers[i], mac, ip)
    OBVIOUS
  <2>3. peers' \in Seq(Peer) /\ Len(peers') = Len(peers) /\ DOMAIN peers' = DOMAIN peers
    BY <1>1, <1>3, <2>1, <2>2
  <2>4. /\ peers'[i].mac = mac /\ peers'[i].age = 0 /\ peers'[i].lastSeenMs = clock
        /\ \A j \in DOMAIN peers : j # i => peers'[j] = peers[j]
    BY <2>1, <2>2
  <2>5. TableTypeOK'
    BY <2>3 DEF Beacon, TableTypeOK
  <2>6. MacUnique'
    <3> SUFFICES ASSUME NEW j \in DOMAIN peers, NEW k \in DOMAIN peers, peers'[k].mac # NoMac,
                        peers'[j].mac = peers'[k].mac
                 PROVE  j = k
      BY <2>3 DEF MacUnique
    <3>1. mac # NoMac => peers[i].mac = mac
      BY <2>2 DEF Matches
    <3> QED
      BY <2>2, <2>4, <3>1 DEF MacUnique
  <2>7. AgeTrue'
    BY <1>2, <2>2, <2>3, <2>4 DEF AgeTrue
  <2> QED
    BY <2>5, <2>6, <2>7
<1>5. CASE found = {} /\ HasRoom /\ peers' = Append(peers, heard)
  <2> DEFINE last == Len(peers) + 1
  <2>1. /\ peers' \in Seq(Peer) /\ Len(peers') = last /\ DOMAIN peers' = 1 .. last
        /\ peers'[last] = heard /\ \A j \in DOMAIN peers : peers'[j] = peers[j]
    BY <1>1, <1>3, <1>5
  <2>2. peers'[last].mac = mac /\ peers'[last].age = 0 /\ peers'[last].lastSeenMs = clock
    BY <2>1
  <2>3. TableTypeOK'
    <3>1. Len(peers') <= MAX_PEERS
      BY <1>3, <1>5, <2>1 DEF HasRoom
    <3> QED
      BY <2>1, <3>1 DEF Beacon, TableTypeOK
  <2>4. \A j \in DOMAIN peers : mac # NoMac => peers[j].mac # mac
    BY <1>5 DEF Matches
  <2>5. \A j \in DOMAIN peers' : j \in DOMAIN peers \/ j = last
    BY <1>3, <2>1
  <2>6. MacUnique'
    BY <2>1, <2>2, <2>4, <2>5 DEF MacUnique
  <2>7. AgeTrue'
    BY <1>2, <2>1, <2>2, <2>5 DEF AgeTrue
  <2> QED
    BY <2>3, <2>6, <2>7
<1> QED
  BY <1>4, <1>5 DEF Beacon

\* A sweep keeps the live peers, all of them, at most as many as there were and each once.
LEMMA SweepKeeps ==
  ASSUME TableTypeOK, Sweep
  PROVE  \E from \in [1 .. Cardinality(Kept) -> Kept] :
           /\ Cardinality(Kept) \in 0 .. Len(peers)
           /\ \A j, k \in DOMAIN from : from[j] = from[k] => j = k
           /\ \A i \in Kept : \E k \in DOMAIN from : from[k] = i
           /\ peers' = [k \in 1 .. Cardinality(Kept) |-> peers[from[k]]]
<1>1. PICK from \in [1 .. Cardinality(Kept) -> Kept] :
        /\ \A j, k \in DOMAIN from : j < k => from[j] < from[k]
        /\ peers' = [k \in DOMAIN from |-> peers[from[k]]]
  BY DEF Sweep
<1>0. Len(peers) \in Nat /\ DOMAIN peers = 1 .. Len(peers)
  BY DEF TableTypeOK
<1>2. IsFiniteSet(1 .. Len(peers)) /\ Cardinality(1 .. Len(peers)) = Len(peers)
  <2>1. ASSUME NEW m \in Nat PROVE IsFiniteSet(1 .. m) /\ Cardinality(1 .. m) = m
    BY FS_Interval
  <2> QED
    BY <1>0, <2>1
<1>3. Kept \subseteq 1 .. Len(peers)
  BY <1>0 DEF Kept
<1>4. IsFiniteSet(Kept) /\ Cardinality(Kept) \in Nat /\ Cardinality(Kept) <= Len(peers)
  <2>1. IsFiniteSet(Kept) /\ Cardinality(Kept) <= Cardinality(1 .. Len(peers))
    BY <1>2, <1>3, FS_Subset
  <2> QED
    BY <1>2, <2>1, FS_CardinalityType
<1> DEFINE n == Cardinality(Kept)
<1> HIDE DEF n
<1>5. n \in Nat /\ from \in [1 .. n -> Kept] /\ DOMAIN from = 1 .. n
  BY <1>4 DEF n
<1>6. \A j, k \in 1 .. n : from[j] = from[k] => j = k
  <2> SUFFICES ASSUME NEW j \in 1 .. n, NEW k \in 1 .. n, from[j] = from[k] PROVE j = k
    OBVIOUS
  <2>1. from[j] \in Int /\ from[k] \in Int
    <3>1. from[j] \in Kept /\ from[k] \in Kept
      BY <1>5
    <3>2. \A i \in Kept : i \in Int
      BY <1>3
    <3> QED
      BY <3>1, <3>2
  <2> QED
    BY <1>1, <1>5, <2>1
<1>7. \A i \in Kept : \E k \in 1 .. n : from[k] = i
  <2>1. IsFiniteSet(1 .. n) /\ Cardinality(1 .. n) = n
    BY <1>5, FS_Interval
  <2>2. from \in Injection(1 .. n, Kept)
    BY <1>5, <1>6 DEF Injection, IsInjective
  <2>3. from \in Surjection(1 .. n, Kept)
    BY <1>4, <2>1, <2>2, FS_Injection DEF n
  <2> QED
    BY <2>3 DEF Surjection
<1> QED
  BY <1>1, <1>4, <1>5, <1>6, <1>7 DEF n

\* A sweep drops peers and changes none.
LEMMA SweepPeers ==
  ASSUME PeerInv, Sweep
  PROVE  PeerInv'
<1> USE PeerAssumption DEF PeerInv, TableInv
<1> DEFINE n == Cardinality(Kept)
<1>1. PICK from \in [1 .. n -> Kept] :
        /\ n \in 0 .. Len(peers)
        /\ \A j, k \in DOMAIN from : from[j] = from[k] => j = k
        /\ peers' = [k \in 1 .. n |-> peers[from[k]]]
  BY SweepKeeps
<1>2. peers \in Seq(Peer) /\ DOMAIN peers = 1 .. Len(peers) /\ Len(peers) \in Nat
  BY DEF TableTypeOK
<1> HIDE DEF n
<1>3. n \in Nat /\ n <= Len(peers) /\ DOMAIN peers' = 1 .. n
  BY <1>1, <1>2
<1>4. ASSUME NEW k \in 1 .. n
      PROVE  from[k] \in DOMAIN peers /\ peers'[k] = peers[from[k]] /\ peers'[k] \in Peer
  <2>1. from[k] \in DOMAIN peers
    BY <1>1, <1>4 DEF Kept
  <2> QED
    BY <1>1, <1>2, <2>1, PlaceType
<1>5. peers' = [k \in 1 .. n |-> peers'[k]]
  BY <1>1
<1>6. peers' \in Seq(Peer) /\ Len(peers') = n
  BY <1>3, <1>4, <1>5, FunctionIsSeq
<1>7. TableTypeOK'
  <2>1. Len(peers') <= MAX_PEERS
    BY <1>2, <1>3, <1>6 DEF TableTypeOK
  <2>2. /\ clock' = clock /\ loopNow' = loopNow /\ pc' = "top"
        /\ lastExpiry' = loopNow /\ missed' = 0
    BY DEF Sweep
  <2> QED
    BY <1>6, <2>1, <2>2 DEF TableTypeOK
<1>8. MacUnique'
  <2> SUFFICES ASSUME NEW j \in 1 .. n, NEW k \in 1 .. n,
                      peers'[j].mac = peers'[k].mac /\ peers'[j].mac # NoMac
               PROVE  j = k
    BY <1>3 DEF MacUnique
  <2>1. from[j] = from[k]
    BY <1>4 DEF MacUnique
  <2> QED
    BY <1>1, <2>1
<1>9. AgeTrue'
  <2> SUFFICES ASSUME NEW k \in 1 .. n, peers'[k].age < PEER_EXPIRE_MS
               PROVE  Minus(clock, peers'[k].lastSeenMs) = peers'[k].age
    BY <1>3 DEF AgeTrue, Sweep
  <2> QED
    BY <1>4 DEF AgeTrue
<1> QED
  BY <1>7, <1>8, <1>9

\* Every step of loop(), a beacon and the clock keep the invariant.
LEMMA NextPeers == PeerInv /\ [TableNext]_tableVars => PeerInv'
<1> SUFFICES ASSUME PeerInv, [TableNext]_tableVars PROVE PeerInv'
  OBVIOUS
<1> USE DEF PeerInv, TableInv
<1>1. CASE ClockTick
  BY <1>1, ClockTickPeers
<1>2. CASE LoopTop
  BY <1>2 DEF LoopTop, TableTypeOK, MacUnique, AgeTrue
<1>3. ASSUME NEW mac \in Macs \cup {NoMac}, NEW ip \in Ips, Beacon(mac, ip) PROVE PeerInv'
  BY <1>3, BeaconPeers
<1>4. CASE Sweep
  BY <1>4, SweepPeers
<1>5. CASE SweepBusy
  <2>1. missed' \in 0 .. MaxMissed /\ lastExpiry' \in Instant
    BY <1>5, PeerAssumption DEF SweepBusy, TableTypeOK
  <2> QED
    BY <1>5, <2>1 DEF SweepBusy, TableTypeOK, MacUnique, AgeTrue
<1>6. CASE NoSweep
  BY <1>6 DEF NoSweep, TableTypeOK, MacUnique, AgeTrue
<1>7. CASE UNCHANGED tableVars
  BY <1>7 DEF tableVars, TableTypeOK, MacUnique, AgeTrue
<1> QED
  BY <1>1, <1>2, <1>3, <1>4, <1>5, <1>6, <1>7 DEF TableNext

\* pollDiscovery and the sweep never write past the table and never list a MAC twice, for
\* every size of the table, set of peers and addresses, and width of millis().
THEOREM PeerTableSafe == TableSpec => []TableInv
<1>1. PeerInv => TableInv
  BY DEF PeerInv
<1> QED
  BY <1>1, InitPeers, NextPeers, PTL DEF TableSpec

\* A sweep forgets a peer only when PEER_EXPIRE_MS have really passed since its last
\* beacon, or when that beacon was read after loop() took its now.
THEOREM SweepDropsOnlyStale == TableSpec => DropsOnlyStale
<1> DEFINE Drop ==
      \A i \in DOMAIN peers :
        (/\ peers[i].mac # NoMac /\ ~InTable(peers', peers[i].mac)
         /\ Sweep)
        => peers[i].age >= PEER_EXPIRE_MS \/ peers[i].age < Minus(clock, loopNow)
<1>1. PeerInv => Drop
  <2> SUFFICES ASSUME PeerInv, NEW i \in DOMAIN peers, ~InTable(peers', peers[i].mac), Sweep,
                      peers[i].age < PEER_EXPIRE_MS, Minus(clock, loopNow) <= peers[i].age
               PROVE  FALSE
    <3>1. ASSUME PeerInv, NEW i \in DOMAIN peers
          PROVE  peers[i].age \in Int /\ PEER_EXPIRE_MS \in Int /\ Minus(clock, loopNow) \in Int
      BY <3>1, PeerAssumption, PlaceType, MinusType DEF PeerInv, TableInv, TableTypeOK, Instant
    <3> QED
      BY <3>1
  <2>1. TableTypeOK /\ AgeTrue /\ clock \in Instant /\ loopNow \in Instant
    BY DEF PeerInv, TableInv, TableTypeOK
  <2>2. peers[i].lastSeenMs \in Instant /\ peers[i].age \in Nat
    BY <2>1, PlaceType
  <2>3. Minus(clock, peers[i].lastSeenMs) = peers[i].age
    BY <2>1 DEF AgeTrue
  <2>4. Minus(loopNow, peers[i].lastSeenMs) = peers[i].age - Minus(clock, loopNow)
    BY <2>1, <2>2, <2>3, MinusChain
  <2>5. Minus(clock, loopNow) \in Nat
    BY <2>1, MinusType DEF Instant
  <2>6. i \in Kept
    BY <2>2, <2>4, <2>5, PeerAssumption DEF Kept, Alive
  <2>7. PICK k \in DOMAIN peers' : peers'[k] = peers[i]
    BY <2>1, <2>6, SweepKeeps
  <2> QED
    BY <2>7 DEF InTable
<1>2. PeerInv => [Drop]_tableVars
  BY <1>1
<1>3. TableSpec => []PeerInv
  BY InitPeers, NextPeers, PTL DEF TableSpec
<1> QED
  BY <1>2, <1>3, PTL DEF DropsOnlyStale
=============================================================================
