--------------------------- MODULE DmxSendProofs ----------------------------
(***************************************************************************)
(* Proofs about the transmit path: for every number of tasks, every packet *)
(* length, FIFO and distance, sendDMX and rdm_send_request share mutex,    *)
(* buffer, notifications and wire without harm, up to the first wait that  *)
(* ends late and leaves a notification or a level of the mutex behind.     *)
(***************************************************************************)
EXTENDS DmxSend, TLAPS

\* Where the callers and the library calls they are in can stand together.
CtlOK ==
  /\ place[Loop] \in LoopPlaces
  /\ \A t \in RdmTasks : place[t] \in RdmPlaces
  /\ \A t \in Tasks :
       /\ inner[t] = "copy" => Writes(t)
       /\ inner[t] \in {"wait_sent", "arm", "alarm", "start"} => Sends(t)
       /\ inner[t] \in {"blocked", "ok", "failed"} => Waits(t) \/ place[t] = "send"
       /\ inner[t] = "listening" => place[t] = "listen"

\* The levels of the mutex that a task holds: its own, that of dmx_send, that of
\* dmx_wait_sent or dmx_receive.
Level(t) ==
  (IF t # Loop /\ place[t] # "take" THEN 1 ELSE 0)
  + (IF Sends(t) /\ inner[t] # "call" THEN 1 ELSE 0)
  + (IF inner[t] \in {"blocked", "ok", "failed", "listening"} THEN 1 ELSE 0)

\* The mutex is held by the one task that has levels, as often as it has.
MuxOK ==
  \A t \in Tasks :
    IF Level(t) = 0 THEN mux.owner # t ELSE mux = [owner |-> t, depth |-> Level(t)]

\* Who waits is registered, who was told has a free line, and who is about to begin a
\* packet has kept the distance to the last one.
NoteOK ==
  /\ \A t \in Tasks :
       inner[t] \in {"blocked", "ok", "failed", "listening", "alarm"} => waiting = t
  /\ \A t \in note : /\ inner[t] \in {"blocked", "alarm", "listening"}
                     /\ inner[t] = "alarm" => ~timer.on /\ since >= timer_alarm
                     /\ dmx.status # "SENDING"
  /\ \A t \in Tasks :
       /\ inner[t] \in {"ok", "arm", "alarm", "start"} => dmx.status # "SENDING"
       /\ inner[t] = "alarm" /\ timer.on => since + timer.left >= timer_alarm
       /\ inner[t] = "start" => since >= timer_alarm

\* The driver's record: the last packet, or that an answer to it was not understood; the
\* transceiver is the driver's while a packet is sent, and the interrupt that ended one is
\* done before the next can begin.
DriverOK ==
  /\ line.kind # "RESPONSE"
  /\ \/ dmx.last_controller_pid = PidOf(line.kind)
     \/ dmx.last_controller_pid = "0" /\ line.kind \in {"DUB", "GET"}
  /\ dmx.last_request_was_broadcast = (line.kind \in {"BCAST", "DUB"})
  /\ uart.enabled # {} => dmx.status = "SENDING" /\ 0 <= dmx.head /\ dmx.head <= dmx.size
  /\ dmx.status = "SENDING" => uart.rts = 0
  /\ uart.turning => dmx.status # "SENDING" /\ since = 0

\* The record follows the wire, unless the FIFO ever ran dry: the slots sent and those in
\* the FIFO are those written, and TX_DONE comes after the last one.
WireOK ==
  ~uart.dry =>
    /\ (dmx.status = "SENDING") <=> (line.at # "MARK")
    /\ line.at # "DATA" => uart.fifo = 0 /\ uart.enabled = {}
    /\ line.at = "BREAK" => dmx.progress = "IN_BREAK" /\ line.sent = 0
    /\ line.at = "MAB" => dmx.progress = "IN_MAB" /\ line.sent = 0
    /\ line.at # "MARK" => dmx.size = SlotsOf(line.kind)
    /\ line.at = "DATA" =>
         /\ ~timer.on
         /\ line.sent + uart.fifo = dmx.head /\ dmx.head <= dmx.size
         /\ dmx.head < dmx.size => "TX_DATA" \in uart.enabled
    /\ "TX_DONE" \in uart.raised => line.at = "DATA" /\ uart.fifo = 0 /\ dmx.head = dmx.size

\* Between the request that rdm_send_request writes and the old data that it restores.
Borrows(t) == place[t] \in {"rdm_send", "done", "sent", "listen", "restore"}

\* The shared buffer: it holds a DMX frame unless a request borrowed it, and what was
\* saved and will be restored is a DMX frame.
BufOK ==
  /\ inner[Loop] \in {"alarm", "start"} => request[Loop].header = "DMX"
  /\ (\A t \in RdmTasks : ~Borrows(t)) => data = "DMX"
  /\ \A t \in Tasks : inner[t] = "failed" => line.kind = "DMX"
  /\ \A t \in RdmTasks :
       /\ request[t].kind # "RESPONSE"
       /\ Borrows(t) => request[t].old = "DMX"
       /\ place[t] \in {"rdm_write", "rdm_send", "listen"} => dmx.status # "SENDING"
       /\ place[t] \in {"rdm_send", "done"} => data # "RESPONSE"
       /\ inner[t] \in {"alarm", "start"} =>
            request[t].header # "RESPONSE" /\ (request[t].header = "DMX" => data = "DMX")
       /\ place[t] \in {"done", "sent"} /\ line.kind = "DMX" => data = "DMX"
       /\ place[t] = "restore" /\ dmx.status = "SENDING" => data = "DMX"

\* The inductive invariant, until a wait ends late.
Inv == TypeOK /\ CtlOK /\ MuxOK /\ NoteOK /\ DriverOK /\ WireOK /\ BufOK

-----------------------------------------------------------------------------
(* The mutex and the callers.                                               *)

\* A task that returns from a call goes on at one place of its own; the others stay.
LEMMA ReturnFacts ==
  ASSUME TypeOK, CtlOK, NEW t \in Tasks, NEW ok \in BOOLEAN, Return(t, ok)
  PROVE  /\ place' \in [Tasks -> LoopPlaces \union RdmPlaces]
         /\ inner' \in [Tasks -> Inner]
         /\ t = Loop => place'[t] = sendDMX(place[t]) /\ place'[t] \in LoopPlaces
         /\ t # Loop => /\ place'[t] = rdm_send_request(place[t], request[t].kind, ok)
                        /\ place'[t] \in RdmPlaces
         /\ inner'[t] = "call"
         /\ \A u \in Tasks \ {t} : place'[u] = place[u] /\ inner'[u] = inner[u]
<1>1. t = Loop => sendDMX(place[t]) \in LoopPlaces
  BY DEF CtlOK, sendDMX, LoopPlaces
<1>2. t # Loop => rdm_send_request(place[t], request[t].kind, ok) \in RdmPlaces
  <2> SUFFICES ASSUME t # Loop PROVE rdm_send_request(place[t], request[t].kind, ok) \in RdmPlaces
    OBVIOUS
  <2>1. place[t] \in RdmPlaces
    BY DEF CtlOK, Tasks
  <2> QED
    BY <2>1 DEF rdm_send_request, RdmPlaces
<1> QED
  BY <1>1, <1>2 DEF Return, TypeOK, Inner

\* A task that goes on inside its call stays at its place.
LEMMA GoToFacts ==
  ASSUME TypeOK, NEW t \in Tasks, NEW i \in Inner, GoTo(t, i)
  PROVE  /\ place' = place
         /\ inner' \in [Tasks -> Inner]
         /\ inner'[t] = i
         /\ \A u \in Tasks \ {t} : inner'[u] = inner[u]
  BY DEF GoTo, TypeOK

\* The levels are counted in numbers.
LEMMA LevelType ==
  ASSUME NEW t \in Tasks
  PROVE  Level(t) \in 0 .. 3
  BY DEF Level

\* Two tasks never hold levels at the same time.
LEMMA Exclusive ==
  ASSUME MuxOK, NEW t \in Tasks, NEW u \in Tasks, Level(t) # 0, Level(u) # 0
  PROVE  t = u
<1>1. mux.owner = t /\ mux.owner = u
  BY DEF MuxOK
<1> QED
  BY <1>1

\* Nothing is said of a task that stays where it is.
LEMMA LevelSame ==
  ASSUME NEW t \in Tasks, place'[t] = place[t], inner'[t] = inner[t]
  PROVE  Level(t)' = Level(t)
  BY DEF Level, Sends

\* A level that is taken is the task's alone.
LEMMA MuxTaken ==
  ASSUME TypeOK, MuxOK, NEW t \in Tasks, Free(t), mux' = Taken(t),
         Level(t)' = Level(t) + 1, \A u \in Tasks \ {t} : Level(u)' = Level(u)
  PROVE  /\ MuxOK'
         /\ mux' \in [owner : Tasks \union {None}, depth : Nat]
         /\ (mux'.owner = None) <=> (mux'.depth = 0)
<1>1. mux \in [owner : Tasks \union {None}, depth : Nat] /\ None \notin Tasks
  BY SendAssumption DEF TypeOK
<1>2. Level(t) \in Nat
  BY LevelType
<1>3. mux.depth = Level(t)
  BY <1>1, <1>2 DEF MuxOK, Free, TypeOK
<1>4. mux' = [owner |-> t, depth |-> Level(t) + 1]
  BY <1>3 DEF Taken
<1>5. ASSUME NEW u \in Tasks \ {t} PROVE Level(u)' = 0
  BY <1>1, <1>5 DEF MuxOK, Free
<1>6. MuxOK'
  BY <1>2, <1>4, <1>5 DEF MuxOK
<1> QED
  BY <1>1, <1>2, <1>4, <1>6

\* Giving one level back, or two.
LEMMA MuxGiven ==
  ASSUME TypeOK, MuxOK, NEW t \in Tasks, NEW n \in {1, 2}, n <= Level(t),
         mux' = [owner |-> IF mux.depth = n THEN None ELSE mux.owner, depth |-> mux.depth - n],
         Level(t)' = Level(t) - n, \A u \in Tasks \ {t} : Level(u)' = Level(u)
  PROVE  /\ MuxOK'
         /\ mux' \in [owner : Tasks \union {None}, depth : Nat]
         /\ (mux'.owner = None) <=> (mux'.depth = 0)
<1>1. None \notin Tasks
  BY SendAssumption
<1>2. Level(t) \in Nat /\ Level(t) # 0
  BY LevelType
<1>3. mux.owner = t /\ mux.depth = Level(t)
  BY <1>2 DEF MuxOK
<1>4. mux' = [owner |-> IF Level(t)' = 0 THEN None ELSE t, depth |-> Level(t)']
  BY <1>2, <1>3
<1>5. ASSUME NEW u \in Tasks \ {t} PROVE Level(u)' = 0
  BY <1>3, <1>5 DEF MuxOK
<1>6. MuxOK'
  BY <1>1, <1>2, <1>4, <1>5 DEF MuxOK
<1> QED
  BY <1>1, <1>2, <1>4, <1>6

\* The wire is not touched by a step of a caller that leaves driver and hardware alone.
LEMMA WireSame ==
  ASSUME DriverOK, WireOK, UNCHANGED <<dmx, uart, timer, line, since>>
  PROVE  DriverOK' /\ WireOK'
  BY DEF DriverOK, WireOK, SlotsOf, PidOf

\* A holder keeps every other task out: requests wait at "take", sendDMX holds nothing.
LEMMA HolderAlone ==
  ASSUME MuxOK, NEW t \in Tasks, Level(t) # 0
  PROVE  \A u \in Tasks \ {t} :
           /\ u # Loop => place[u] = "take"
           /\ inner[u] \notin {"blocked", "ok", "failed", "listening"}
           /\ Sends(u) => inner[u] = "call"
<1> SUFFICES ASSUME NEW u \in Tasks \ {t} PROVE Level(u) = 0
  BY DEF Level
<1> QED
  BY Exclusive

-----------------------------------------------------------------------------
(* rdm_send_request                                                         *)

\* A request takes the mutex only when no other task holds a level of it.
LEMMA RdmTakeKeeps ==
  ASSUME Inv, stale = 0, stale' = 0, NEW t \in RdmTasks, RdmTake(t)
  PROVE  Inv'
<1>0. t \in Tasks /\ t # Loop /\ TypeOK /\ CtlOK /\ DriverOK /\ WireOK /\ BufOK /\ MuxOK /\ NoteOK
  BY SendAssumption DEF Inv, Tasks
<1>1. /\ place'[t] = "first" /\ inner'[t] = "call" /\ inner[t] = "call"
      /\ \A u \in Tasks \ {t} : place'[u] = place[u] /\ inner'[u] = inner[u]
      /\ place' \in [Tasks -> LoopPlaces \union RdmPlaces] /\ inner' \in [Tasks -> Inner]
  <2>1. inner[t] = "call"
    BY <1>0 DEF RdmTake, CtlOK, Writes, Waits, Sends, TypeOK, Inner
  <2> QED
    BY <1>0, <2>1, ReturnFacts DEF RdmTake, rdm_send_request
<1>2. /\ request' \in [Tasks -> [kind : Kinds, old : Kinds, header : Kinds]]
      /\ request'[t].kind # "RESPONSE"
      /\ \A u \in Tasks \ {t} : request'[u] = request[u]
  <2>1. PICK k \in Requests : request' = [request EXCEPT ![t].kind = k]
    BY DEF RdmTake
  <2>2. k \in Kinds /\ k # "RESPONSE"
    BY SendAssumption DEF Kinds
  <2> QED
    BY <1>0, <2>1, <2>2 DEF TypeOK
<1>3. Level(t)' = Level(t) + 1 /\ \A u \in Tasks \ {t} : Level(u)' = Level(u)
  <2>1. \A u \in Tasks \ {t} : Level(u)' = Level(u)
    BY <1>1, LevelSame
  <2>2. Level(t) = 0 /\ Level(t)' = 1
    BY <1>0, <1>1 DEF Level, RdmTake, Sends
  <2> QED
    BY <2>1, <2>2
<1>4. /\ MuxOK' /\ mux' \in [owner : Tasks \union {None}, depth : Nat]
      /\ (mux'.owner = None) <=> (mux'.depth = 0)
  BY <1>0, <1>3, MuxTaken DEF RdmTake
<1>5. TypeOK'
  BY <1>0, <1>1, <1>2, <1>4 DEF TypeOK, RdmTake
<1>6. CtlOK'
  BY <1>0, <1>1 DEF CtlOK, RdmPlaces, Writes, Sends, Waits, RdmTake, Tasks
<1>7. DriverOK' /\ WireOK'
  BY <1>0, WireSame DEF RdmTake
<1>8. NoteOK'
  BY <1>0, <1>1 DEF NoteOK, RdmTake, timer_alarm, TypeOK
<1>9. BufOK'
  BY <1>0, <1>1, <1>2 DEF BufOK, RdmTake, Borrows, Tasks
<1> QED
  BY <1>4, <1>5, <1>6, <1>7, <1>8, <1>9 DEF Inv

\* A request is written over a DMX frame that no packet is being sent from.
LEMMA RdmWriteKeeps ==
  ASSUME Inv, stale = 0, stale' = 0, NEW t \in RdmTasks, RdmWrite(t)
  PROVE  Inv'
<1>0. t \in Tasks /\ t # Loop /\ TypeOK /\ CtlOK /\ DriverOK /\ WireOK /\ BufOK /\ MuxOK /\ NoteOK
  BY SendAssumption DEF Inv, Tasks
<1>1. /\ place'[t] = "rdm_send" /\ inner'[t] = "call" /\ inner[t] = "call"
      /\ \A u \in Tasks \ {t} : place'[u] = place[u] /\ inner'[u] = inner[u]
      /\ place' \in [Tasks -> LoopPlaces \union RdmPlaces] /\ inner' \in [Tasks -> Inner]
  <2>1. inner[t] = "call"
    BY <1>0 DEF RdmWrite, CtlOK, Writes, Waits, Sends, TypeOK, Inner
  <2> QED
    BY <1>0, <2>1, ReturnFacts DEF RdmWrite, rdm_send_request
<1>2. /\ request' \in [Tasks -> [kind : Kinds, old : Kinds, header : Kinds]]
      /\ request'[t].kind = request[t].kind /\ request'[t].old = data
      /\ \A u \in Tasks \ {t} : request'[u] = request[u]
  BY <1>0 DEF TypeOK, RdmWrite
<1>3. Level(t) # 0 /\ \A u \in Tasks : Level(u)' = Level(u)
  <2>1. \A u \in Tasks \ {t} : Level(u)' = Level(u)
    BY <1>1, LevelSame
  <2>2. Level(t) = 1 /\ Level(t)' = 1
    BY <1>0, <1>1 DEF Level, RdmWrite, Sends
  <2> QED
    BY <2>1, <2>2
<1>4. MuxOK'
  BY <1>0, <1>3 DEF MuxOK, RdmWrite
<1>5. data = "DMX" /\ \A u \in RdmTasks \ {t} : place[u] = "take"
  <2>1. \A u \in RdmTasks \ {t} : place[u] = "take"
    BY <1>0, <1>3, HolderAlone, SendAssumption DEF Tasks
  <2> QED
    BY <1>0, <2>1 DEF BufOK, Borrows, RdmWrite
<1>6. TypeOK'
  <2>1. data' \in Kinds
    BY <1>0 DEF RdmWrite, TypeOK
  <2> QED
    BY <1>0, <1>1, <1>2, <2>1 DEF TypeOK, RdmWrite
<1>7. CtlOK'
  BY <1>0, <1>1 DEF CtlOK, RdmPlaces, Writes, Sends, Waits, RdmWrite, Tasks
<1>8. DriverOK' /\ WireOK'
  BY <1>0, WireSame DEF RdmWrite
<1>9. NoteOK'
  BY <1>0, <1>1 DEF NoteOK, RdmWrite, timer_alarm, TypeOK
<1>10. BufOK'
  <2>1. Borrows(t)' /\ data' # "RESPONSE"
    BY <1>0, <1>1 DEF Borrows, BufOK, RdmWrite
  <2>2. request'[Loop] = request[Loop] /\ inner'[Loop] = inner[Loop] /\ line' = line
    BY <1>0, <1>1, <1>2 DEF Tasks, RdmWrite
  <2>3. \A u \in RdmTasks \ {t} : place'[u] = "take" /\ inner'[u] = inner[u] /\ ~Borrows(u)'
                                 /\ inner[u] = "call" /\ request'[u] = request[u]
    BY <1>0, <1>1, <1>2, <1>5 DEF Borrows, Tasks, CtlOK, Sends, Waits, Writes, TypeOK, Inner
  <2> QED
    BY <1>0, <1>1, <1>2, <1>5, <2>1, <2>2, <2>3 DEF BufOK, RdmWrite
<1> QED
  BY <1>4, <1>6, <1>7, <1>8, <1>9, <1>10 DEF Inv

\* A request gives the mutex back when its buffer holds the frame again.
LEMMA RdmGiveKeeps ==
  ASSUME Inv, stale = 0, stale' = 0, NEW t \in RdmTasks, RdmGive(t)
  PROVE  Inv'
<1>0. t \in Tasks /\ t # Loop /\ TypeOK /\ CtlOK /\ DriverOK /\ WireOK /\ BufOK /\ MuxOK /\ NoteOK
  BY SendAssumption DEF Inv, Tasks
<1>1. /\ place'[t] = "take" /\ inner'[t] = "call" /\ inner[t] = "call"
      /\ \A u \in Tasks \ {t} : place'[u] = place[u] /\ inner'[u] = inner[u]
      /\ place' \in [Tasks -> LoopPlaces \union RdmPlaces] /\ inner' \in [Tasks -> Inner]
  <2>1. inner[t] = "call"
    BY <1>0 DEF RdmGive, CtlOK, Writes, Waits, Sends, TypeOK, Inner
  <2> QED
    BY <1>0, <2>1, ReturnFacts DEF RdmGive, rdm_send_request
<1>2. /\ Level(t) = 1 /\ Level(t)' = 0 /\ \A u \in Tasks \ {t} : Level(u)' = Level(u)
  <2>1. \A u \in Tasks \ {t} : Level(u)' = Level(u)
    BY <1>1, LevelSame
  <2> QED
    BY <1>0, <1>1, <2>1 DEF Level, RdmGive, Sends
<1>r. /\ request' \in [Tasks -> [kind : Kinds, old : Kinds, header : Kinds]]
      /\ request'[t].kind # "RESPONSE" /\ \A u \in Tasks \ {t} : request'[u] = request[u]
  BY <1>0 DEF TypeOK, RdmGive, Kinds
<1>3. /\ MuxOK' /\ mux' \in [owner : Tasks \union {None}, depth : Nat]
      /\ (mux'.owner = None) <=> (mux'.depth = 0)
  BY <1>0, <1>2, MuxGiven DEF RdmGive, Given
<1>4. TypeOK'
  BY <1>0, <1>1, <1>3, <1>r DEF TypeOK, RdmGive
<1>5. CtlOK'
  BY <1>0, <1>1 DEF CtlOK, RdmPlaces, Writes, Sends, Waits, RdmGive, Tasks
<1>6. DriverOK' /\ WireOK'
  BY <1>0, WireSame DEF RdmGive
<1>7. NoteOK'
  BY <1>0, <1>1 DEF NoteOK, RdmGive, timer_alarm, TypeOK
<1>8. BufOK'
  BY <1>0, <1>1, <1>r DEF BufOK, RdmGive, Borrows, Tasks
<1> QED
  BY <1>3, <1>4, <1>5, <1>6, <1>7, <1>8 DEF Inv

\* What dmx_receive does to the driver before it waits, or when it does not.
LEMMA RdmListenFacts ==
  ASSUME Inv, NEW t \in RdmTasks, RdmListen(t)
  PROVE  /\ dmx' \in Dmx /\ dmx'.status = dmx.status /\ dmx'.size = dmx.size
         /\ dmx'.last_controller_pid = dmx.last_controller_pid
         /\ dmx'.last_request_was_broadcast = dmx.last_request_was_broadcast
         /\ dmx'.responder_sent_last = dmx.responder_sent_last
         /\ uart' \in Uart /\ uart' = [uart EXCEPT !.rts = 1]
         /\ note' \subseteq note
         /\ UNCHANGED <<data, line, since, request>>
<1>1. dmx \in Dmx /\ uart \in Uart
  BY DEF Inv, TypeOK
<1>2. PICK p \in {"STALE", dmx.progress}, h \in {-1, dmx.head} :
        dmx' = [dmx EXCEPT !.progress = p, !.head = h]
  BY <1>1 DEF RdmListen, Dmx
<1>3. p \in {"STALE", "IN_BREAK", "IN_MAB", "IN_DATA", "COMPLETE"} /\ h \in Int
  BY <1>1 DEF Dmx
<1>4. /\ dmx' \in Dmx /\ dmx'.status = dmx.status /\ dmx'.size = dmx.size
      /\ dmx'.last_controller_pid = dmx.last_controller_pid
      /\ dmx'.last_request_was_broadcast = dmx.last_request_was_broadcast
      /\ dmx'.responder_sent_last = dmx.responder_sent_last
  BY <1>1, <1>2, <1>3 DEF Dmx
<1>5. uart' = [uart EXCEPT !.rts = 1] /\ uart' \in Uart
  BY <1>1 DEF RdmListen, Uart
<1> QED
  BY <1>4, <1>5 DEF RdmListen

\* dmx_receive turns the bus around when nothing is sent, and waits with the mutex.
LEMMA RdmListenKeeps ==
  ASSUME Inv, stale = 0, stale' = 0, NEW t \in RdmTasks, RdmListen(t)
  PROVE  Inv'
<1>0. t \in Tasks /\ t # Loop /\ TypeOK /\ CtlOK /\ DriverOK /\ WireOK /\ BufOK /\ MuxOK /\ NoteOK
  BY SendAssumption DEF Inv, Tasks
<1>1. place[t] = "listen" /\ inner[t] = "call" /\ dmx.status # "SENDING" /\ t \notin note
  BY <1>0 DEF RdmListen, BufOK, NoteOK
<1>2. /\ \/ place'[t] = "restore" /\ inner'[t] = "call" /\ mux' = mux
            /\ timer' = timer /\ waiting' \in {waiting, t}
         \/ place'[t] = "listen" /\ inner'[t] = "listening" /\ mux' = Taken(t)
            /\ timer' = [on |-> TRUE, left |-> REQUEST_TO_RESPONSE_MAX - since]
            /\ since <= REQUEST_TO_RESPONSE_MAX /\ waiting' = t
      /\ \A u \in Tasks \ {t} : place'[u] = place[u] /\ inner'[u] = inner[u]
      /\ place' \in [Tasks -> LoopPlaces \union RdmPlaces] /\ inner' \in [Tasks -> Inner]
  <2>1. CASE /\ Return(t, TRUE) /\ UNCHANGED <<timer, mux>> /\ waiting' \in {waiting, t}
    <3>1. place'[t] = "restore"
      BY <1>0, <1>1, <2>1, ReturnFacts DEF rdm_send_request
    <3> QED
      BY <1>0, <2>1, <3>1, ReturnFacts
  <2>2. CASE /\ GoTo(t, "listening") /\ mux' = Taken(t) /\ waiting' = t
             /\ timer' = [on |-> TRUE, left |-> REQUEST_TO_RESPONSE_MAX - since]
             /\ since <= REQUEST_TO_RESPONSE_MAX
    BY <1>0, <1>1, <2>2, GoToFacts DEF Inner, TypeOK
  <2> QED
    BY <2>1, <2>2 DEF RdmListen
<1>3. Level(t) = 1 /\ Level(t)' = (IF inner'[t] = "listening" THEN 2 ELSE 1)
      /\ \A u \in Tasks \ {t} : Level(u)' = Level(u)
  <2>1. \A u \in Tasks \ {t} : Level(u)' = Level(u)
    BY <1>2, LevelSame
  <2> QED
    BY <1>0, <1>1, <1>2, <2>1 DEF Level, Sends
<1>4. /\ MuxOK' /\ mux' \in [owner : Tasks \union {None}, depth : Nat]
      /\ (mux'.owner = None) <=> (mux'.depth = 0)
  <2>1. CASE inner'[t] = "listening"
    <3>1. Level(t)' = Level(t) + 1 /\ Free(t) /\ mux' = Taken(t)
      BY <1>0, <1>2, <1>3, <2>1 DEF MuxOK, Free
    <3> QED
      BY <1>0, <1>3, <3>1, MuxTaken
  <2>2. CASE inner'[t] # "listening"
    BY <1>0, <1>2, <1>3, <2>2 DEF MuxOK, TypeOK
  <2> QED
    BY <2>1, <2>2
<1>5. /\ dmx' \in Dmx /\ dmx'.status = dmx.status /\ dmx'.size = dmx.size
      /\ dmx'.last_controller_pid = dmx.last_controller_pid
      /\ dmx'.last_request_was_broadcast = dmx.last_request_was_broadcast
      /\ uart' \in Uart /\ uart' = [uart EXCEPT !.rts = 1] /\ note' \subseteq note
      /\ UNCHANGED <<data, line, since, request>>
  BY RdmListenFacts
<1>6. /\ uart'.fifo = uart.fifo /\ uart'.enabled = uart.enabled /\ uart'.raised = uart.raised
      /\ uart'.turning = uart.turning /\ uart'.dry = uart.dry
  BY <1>0, <1>5 DEF TypeOK, Uart
<1>7. \A u \in Tasks \ {t} : /\ u # Loop => place[u] = "take"
                             /\ inner[u] \notin {"blocked", "ok", "failed", "listening", "alarm",
                                                 "arm", "start"}
  BY <1>0, <1>3, HolderAlone DEF CtlOK
<1>8. timer' \in [on : BOOLEAN, left : Nat] /\ waiting' \in Tasks \union {None}
  <2>1. since \in Nat /\ REQUEST_TO_RESPONSE_MAX \in Nat
    BY <1>0, SendAssumption DEF TypeOK
  <2>2. CASE inner'[t] = "listening"
    <3> DEFINE left == REQUEST_TO_RESPONSE_MAX - since
    <3>1. left \in Nat /\ timer' = [on |-> TRUE, left |-> left] /\ waiting' = t
      BY <1>2, <2>1, <2>2
    <3> HIDE DEF left
    <3> QED
      BY <1>0, <3>1
  <2>3. CASE inner'[t] # "listening"
    BY <1>0, <1>2, <2>3 DEF TypeOK
  <2> QED
    BY <2>2, <2>3
<1>9. TypeOK'
  <2>1. note' \subseteq Tasks
    BY <1>0, <1>5 DEF TypeOK
  <2> QED
    BY <1>0, <1>2, <1>4, <1>5, <1>8, <2>1 DEF TypeOK
<1>10. CtlOK'
  BY <1>0, <1>1, <1>2 DEF CtlOK, RdmPlaces, Writes, Sends, Waits, Tasks
<1>11. DriverOK' /\ WireOK'
  <2>1. uart.enabled = {}
    BY <1>0, <1>1 DEF DriverOK
  <2>2. DriverOK'
    BY <1>0, <1>1, <1>5, <1>6, <2>1 DEF DriverOK
  <2>3. ASSUME ~uart.dry PROVE line.at = "MARK" /\ uart.fifo = 0 /\ "TX_DONE" \notin uart.raised
    BY <1>0, <1>1, <2>3 DEF WireOK
  <2>4. WireOK'
    BY <1>1, <1>5, <1>6, <2>1, <2>3 DEF WireOK
  <2> QED
    BY <2>2, <2>4
<1>12. NoteOK'
  <2>1. note' = {}
    BY <1>0, <1>1, <1>5, <1>7 DEF NoteOK, TypeOK
  <2>2. \A u \in Tasks : inner'[u] \notin {"ok", "arm", "alarm", "start"}
    BY <1>2, <1>7
  <2>3. \A u \in Tasks :
          inner'[u] \in {"blocked", "ok", "failed", "listening", "alarm"} => waiting' = u
    BY <1>2, <1>7
  <2> QED
    BY <2>1, <2>2, <2>3 DEF NoteOK
<1>13. BufOK'
  <2>1. Borrows(t) /\ Borrows(t)' /\ request[t].old = "DMX"
    BY <1>0, <1>1, <1>2 DEF Borrows, BufOK
  <2>2. inner'[Loop] = inner[Loop]
    BY <1>0, <1>2 DEF Tasks
  <2>3. \A u \in RdmTasks \ {t} : place'[u] = "take" /\ inner'[u] = inner[u] /\ ~Borrows(u)'
    BY <1>0, <1>2, <1>7, SendAssumption DEF Borrows, Tasks
  <2>4. inner'[t] \notin {"failed", "alarm", "start"} /\ \A u \in Tasks \ {t} : inner'[u] = inner[u]
    BY <1>2
  <2> QED
    BY <1>0, <1>1, <1>2, <1>5, <2>1, <2>2, <2>3, <2>4 DEF BufOK
<1> QED
  BY <1>4, <1>9, <1>10, <1>11, <1>12, <1>13 DEF Inv

\* The wait of dmx_receive gives back its level and nothing else.
LEMMA RdmHeardKeeps ==
  ASSUME Inv, stale = 0, stale' = 0, NEW t \in RdmTasks, RdmHeard(t)
  PROVE  Inv'
<1>0. t \in Tasks /\ t # Loop /\ TypeOK /\ CtlOK /\ DriverOK /\ WireOK /\ BufOK /\ MuxOK /\ NoteOK
  BY SendAssumption DEF Inv, Tasks
<1>1. inner[t] = "listening" /\ place[t] = "listen" /\ dmx.status # "SENDING"
  BY <1>0 DEF RdmHeard, CtlOK, BufOK
<1>2. /\ place'[t] = "restore" /\ inner'[t] = "call"
      /\ \A u \in Tasks \ {t} : place'[u] = place[u] /\ inner'[u] = inner[u]
      /\ place' \in [Tasks -> LoopPlaces \union RdmPlaces] /\ inner' \in [Tasks -> Inner]
  BY <1>0, <1>1, ReturnFacts DEF RdmHeard, rdm_send_request
<1>3. /\ Level(t) = 2 /\ Level(t)' = Level(t) - 1
      /\ \A u \in Tasks \ {t} : Level(u)' = Level(u)
  <2>1. \A u \in Tasks \ {t} : Level(u)' = Level(u)
    BY <1>2, LevelSame
  <2> QED
    BY <1>0, <1>1, <1>2, <2>1 DEF Level, Sends
<1>4. /\ MuxOK' /\ mux' \in [owner : Tasks \union {None}, depth : Nat]
      /\ (mux'.owner = None) <=> (mux'.depth = 0)
  BY <1>0, <1>3, MuxGiven DEF RdmHeard, Given
<1>5. /\ dmx' \in Dmx /\ dmx'.status = dmx.status /\ dmx'.size = dmx.size
      /\ dmx'.head = dmx.head
      /\ dmx'.last_controller_pid = dmx.last_controller_pid
      /\ dmx'.last_request_was_broadcast = dmx.last_request_was_broadcast
  BY <1>0 DEF RdmHeard, TypeOK, Dmx
<1>6. /\ waiting' = None /\ note' = note \ {t}
      /\ UNCHANGED <<data, uart, timer, line, since, request>>
  BY DEF RdmHeard
<1>7. \A u \in Tasks \ {t} : /\ u # Loop => place[u] = "take"
                             /\ inner[u] \notin {"blocked", "ok", "failed", "listening", "alarm",
                                                 "arm", "start"}
  BY <1>0, <1>3, HolderAlone DEF CtlOK
<1>8. TypeOK'
  BY <1>0, <1>2, <1>4, <1>5, <1>6 DEF TypeOK
<1>9. CtlOK'
  BY <1>0, <1>1, <1>2 DEF CtlOK, RdmPlaces, Writes, Sends, Waits, Tasks
<1>10. DriverOK' /\ WireOK'
  <2>1. DriverOK'
    BY <1>0, <1>5, <1>6 DEF DriverOK
  <2>2. WireOK'
    BY <1>0, <1>1, <1>5, <1>6 DEF WireOK
  <2> QED
    BY <2>1, <2>2
<1>11. NoteOK'
  <2>1. note' = {}
    BY <1>0, <1>6, <1>7 DEF NoteOK, TypeOK
  <2>2. \A u \in Tasks : inner'[u] \notin {"blocked", "ok", "failed", "listening", "arm", "alarm",
                                           "start"}
    BY <1>2, <1>7
  <2> QED
    BY <2>1, <2>2 DEF NoteOK
<1>12. BufOK'
  <2>1. Borrows(t) /\ Borrows(t)' /\ request[t].old = "DMX"
    BY <1>0, <1>1, <1>2 DEF Borrows, BufOK
  <2>2. inner'[Loop] = inner[Loop]
    BY <1>0, <1>2 DEF Tasks
  <2>3. \A u \in RdmTasks \ {t} : place'[u] = "take" /\ inner'[u] = inner[u] /\ ~Borrows(u)'
    BY <1>0, <1>2, <1>7, SendAssumption DEF Borrows, Tasks
  <2> QED
    BY <1>0, <1>1, <1>2, <1>5, <1>6, <2>1, <2>2, <2>3 DEF BufOK
<1> QED
  BY <1>4, <1>8, <1>9, <1>10, <1>11, <1>12 DEF Inv

-----------------------------------------------------------------------------
(* dmx_write                                                                *)

\* dmx_write goes on, or is refused and its caller does not ask.
LEMMA WriteCheckKeeps ==
  ASSUME Inv, stale = 0, stale' = 0, NEW t \in Tasks, WriteCheck(t)
  PROVE  Inv'
<1>0. TypeOK /\ CtlOK /\ DriverOK /\ WireOK /\ BufOK /\ MuxOK /\ NoteOK
  BY DEF Inv
<1>1. /\ \/ t = Loop /\ place[t] = "write" /\ place'[t] = "send" /\ inner'[t] = "call"
         \/ place'[t] = place[t] /\ inner'[t] = "copy"
      /\ \A u \in Tasks \ {t} : place'[u] = place[u] /\ inner'[u] = inner[u]
      /\ place' \in [Tasks -> LoopPlaces \union RdmPlaces] /\ inner' \in [Tasks -> Inner]
  <2>1. CASE Refused
    <3>1. t = Loop
      BY <1>0, <2>1 DEF WriteCheck, Writes, Refused, BufOK, CtlOK, Tasks, LoopPlaces, RdmPlaces
    <3>2. place[t] = "write"
      BY <1>0, <3>1 DEF WriteCheck, Writes, CtlOK, LoopPlaces
    <3> QED
      BY <1>0, <2>1, <3>1, <3>2, ReturnFacts DEF WriteCheck, sendDMX
  <2>2. CASE ~Refused
    BY <1>0, <2>2, GoToFacts DEF WriteCheck, Inner, TypeOK
  <2> QED
    BY <2>1, <2>2
<1>2. inner[t] = "call" /\ Writes(t)
  BY DEF WriteCheck
<1>3. \A u \in Tasks : Level(u)' = Level(u)
  <2>1. \A u \in Tasks \ {t} : Level(u)' = Level(u)
    BY <1>1, LevelSame
  <2>2. Level(t)' = Level(t)
    BY <1>1, <1>2 DEF Level, Sends, Writes
  <2> QED
    BY <2>1, <2>2
<1>4. MuxOK'
  BY <1>0, <1>3 DEF MuxOK, WriteCheck
<1>5. TypeOK'
  BY <1>0, <1>1 DEF TypeOK, WriteCheck
<1>6. CtlOK'
  BY <1>0, <1>1, <1>2, SendAssumption DEF CtlOK, LoopPlaces, Writes, Sends, Waits, Tasks
<1>7. DriverOK' /\ WireOK'
  BY <1>0, WireSame DEF WriteCheck
<1>8. NoteOK'
  BY <1>0, <1>1, <1>2 DEF NoteOK, WriteCheck, timer_alarm, TypeOK
<1>9. BufOK'
  BY <1>0, <1>1, <1>2, SendAssumption DEF BufOK, WriteCheck, Borrows, Tasks
<1> QED
  BY <1>4, <1>5, <1>6, <1>7, <1>8, <1>9 DEF Inv

\* What dmx_write puts into the buffer is a DMX frame: the own one, or the one saved.
LEMMA WriteCopyKeeps ==
  ASSUME Inv, stale = 0, stale' = 0, NEW t \in Tasks, WriteCopy(t)
  PROVE  Inv'
<1>0. TypeOK /\ CtlOK /\ DriverOK /\ WireOK /\ BufOK /\ MuxOK /\ NoteOK
  BY DEF Inv
<1>1. /\ \/ t = Loop /\ place[t] = "write" /\ place'[t] = "send"
         \/ t # Loop /\ place[t] = "restore" /\ place'[t] = "give"
      /\ inner'[t] = "call"
      /\ \A u \in Tasks \ {t} : place'[u] = place[u] /\ inner'[u] = inner[u]
      /\ place' \in [Tasks -> LoopPlaces \union RdmPlaces] /\ inner' \in [Tasks -> Inner]
  <2>1. place[t] = IF t = Loop THEN "write" ELSE "restore"
    BY <1>0 DEF WriteCopy, Writes, CtlOK, Tasks, LoopPlaces, RdmPlaces
  <2> QED
    BY <1>0, <2>1, ReturnFacts DEF WriteCopy, sendDMX, rdm_send_request
<1>2. inner[t] = "copy"
  BY DEF WriteCopy
<1>3. \A u \in Tasks : Level(u)' = Level(u)
  <2>1. \A u \in Tasks \ {t} : Level(u)' = Level(u)
    BY <1>1, LevelSame
  <2>2. Level(t)' = Level(t)
    BY <1>1, <1>2 DEF Level, Sends
  <2> QED
    BY <2>1, <2>2
<1>4. MuxOK'
  BY <1>0, <1>3 DEF MuxOK, WriteCopy
<1>5. data' = "DMX" /\ uart' \in Uart /\ uart' = [uart EXCEPT !.rts = 0]
  BY <1>0, <1>1 DEF WriteCopy, Source, BufOK, Borrows, Tasks, TypeOK, Uart
<1>6. TypeOK'
  BY <1>0, <1>1, <1>5 DEF TypeOK, WriteCopy, Kinds
<1>7. CtlOK'
  BY <1>0, <1>1, <1>2, SendAssumption DEF CtlOK, LoopPlaces, RdmPlaces, Writes, Sends, Waits,
                                         Tasks
<1>8. DriverOK' /\ WireOK'
  <2>1. /\ uart'.rts = 0 /\ uart'.fifo = uart.fifo /\ uart'.enabled = uart.enabled
        /\ uart'.raised = uart.raised /\ uart'.turning = uart.turning /\ uart'.dry = uart.dry
        /\ UNCHANGED <<dmx, timer, line, since>>
    BY <1>0, <1>5 DEF WriteCopy, TypeOK, Uart
  <2>2. DriverOK'
    BY <1>0, <2>1 DEF DriverOK, PidOf
  <2>3. WireOK'
    BY <1>0, <2>1 DEF WireOK, SlotsOf
  <2> QED
    BY <2>2, <2>3
<1>9. NoteOK'
  BY <1>0, <1>1, <1>2 DEF NoteOK, WriteCopy, timer_alarm, TypeOK
<1>10. BufOK'
  <2>1. uart'.rts = 0 /\ UNCHANGED <<dmx, line, request>>
    BY <1>0, <1>5 DEF WriteCopy, TypeOK, Uart
  <2> QED
    BY <1>0, <1>1, <1>2, <1>5, <2>1, SendAssumption DEF BufOK, Borrows, Tasks
<1> QED
  BY <1>4, <1>6, <1>7, <1>8, <1>9, <1>10 DEF Inv

-----------------------------------------------------------------------------
(* dmx_wait_sent                                                            *)

\* Where a task stands when dmx_wait_sent is over.
LEMMA WaitOverFacts ==
  ASSUME TypeOK, CtlOK, NEW t \in Tasks, NEW ok \in BOOLEAN, WaitOver(t, ok),
         Waits(t) \/ Sends(t), t # Loop => Waits(t) \/ ok
  PROVE  /\ \/ place[t] = "wait" /\ place'[t] = "write" /\ inner'[t] = "call"
            \/ place[t] = "first" /\ ok /\ place'[t] = "rdm_write" /\ inner'[t] = "call"
            \/ place[t] = "first" /\ ~ok /\ place'[t] = "give" /\ inner'[t] = "call"
            \/ place[t] = "done" /\ place'[t] = "restore" /\ inner'[t] = "call"
            \/ place[t] = "sent" /\ ok /\ place'[t] = "listen" /\ inner'[t] = "call"
            \/ place[t] = "sent" /\ ~ok /\ place'[t] = "restore" /\ inner'[t] = "call"
            \/ Sends(t) /\ ok /\ place'[t] = place[t] /\ inner'[t] = "arm"
            \/ place[t] = "send" /\ ~ok /\ place'[t] = "wait" /\ inner'[t] = "call"
         /\ \A u \in Tasks \ {t} : place'[u] = place[u] /\ inner'[u] = inner[u]
         /\ place' \in [Tasks -> LoopPlaces \union RdmPlaces] /\ inner' \in [Tasks -> Inner]
         /\ CtlOK'
<1>1. place[t] \in IF t = Loop THEN LoopPlaces ELSE RdmPlaces
  BY DEF CtlOK, Tasks
<1>2. /\ \/ place[t] = "wait" /\ place'[t] = "write" /\ inner'[t] = "call"
         \/ place[t] = "first" /\ ok /\ place'[t] = "rdm_write" /\ inner'[t] = "call"
         \/ place[t] = "first" /\ ~ok /\ place'[t] = "give" /\ inner'[t] = "call"
         \/ place[t] = "done" /\ place'[t] = "restore" /\ inner'[t] = "call"
         \/ place[t] = "sent" /\ ok /\ place'[t] = "listen" /\ inner'[t] = "call"
         \/ place[t] = "sent" /\ ~ok /\ place'[t] = "restore" /\ inner'[t] = "call"
         \/ Sends(t) /\ ok /\ place'[t] = place[t] /\ inner'[t] = "arm"
         \/ place[t] = "send" /\ ~ok /\ place'[t] = "wait" /\ inner'[t] = "call"
      /\ \A u \in Tasks \ {t} : place'[u] = place[u] /\ inner'[u] = inner[u]
      /\ place' \in [Tasks -> LoopPlaces \union RdmPlaces] /\ inner' \in [Tasks -> Inner]
  <2>1. CASE Sends(t) /\ ok
    BY <2>1, GoToFacts DEF WaitOver, Inner, TypeOK
  <2>2. CASE Sends(t) /\ ~ok
    <3>1. t = Loop /\ place[t] = "send"
      BY <1>1, <2>2 DEF Sends, Waits, LoopPlaces
    <3> QED
      BY <2>2, <3>1, ReturnFacts DEF WaitOver, sendDMX
  <2>3. CASE ~Sends(t)
    <3>1. Return(t, ok) /\ place[t] \in {"wait", "first", "done", "sent"}
      BY <2>3 DEF WaitOver, Waits
    <3>2. place[t] = "wait" <=> t = Loop
      BY <1>1, <3>1 DEF LoopPlaces, RdmPlaces
    <3> QED
      BY <3>1, <3>2, ReturnFacts DEF sendDMX, rdm_send_request
  <2> QED
    BY <2>1, <2>2, <2>3
<1>3. place'[t] \in IF t = Loop THEN LoopPlaces ELSE RdmPlaces
  BY <1>1, <1>2 DEF LoopPlaces, RdmPlaces
<1>4. CtlOK'
  BY <1>2, <1>3, SendAssumption DEF CtlOK, Writes, Sends, Waits, Tasks
<1> QED
  BY <1>2, <1>4

\* Who finds the mutex free finds nobody inside a wait or a send.
LEMMA FreeAlone ==
  ASSUME MuxOK, CtlOK, NEW t \in Tasks, Free(t)
  PROVE  \A u \in Tasks \ {t} : /\ Level(u) = 0
                                /\ inner[u] \notin {"blocked", "ok", "failed", "listening", "alarm"}
<1> SUFFICES ASSUME NEW u \in Tasks \ {t}
             PROVE  Level(u) = 0 /\ inner[u] \notin {"blocked", "ok", "failed", "listening", "alarm"}
  OBVIOUS
<1>1. Level(u) = 0
  BY SendAssumption DEF MuxOK, Free
<1> QED
  BY <1>1 DEF Level, CtlOK

\* A wait that returns at once took no level; one that blocks holds one and is registered.
LEMMA WaitEnterKeeps ==
  ASSUME Inv, stale = 0, stale' = 0, NEW t \in Tasks, WaitEnter(t)
  PROVE  Inv'
<1>0. TypeOK /\ CtlOK /\ DriverOK /\ WireOK /\ BufOK /\ MuxOK /\ NoteOK
  BY DEF Inv
<1>1. DriverOK' /\ WireOK'
  BY <1>0, WireSame DEF WaitEnter
<1>2. CASE StillSending
  <2>1. /\ place' = place /\ inner'[t] = "blocked" /\ inner' \in [Tasks -> Inner]
        /\ \A u \in Tasks \ {t} : inner'[u] = inner[u]
        /\ mux' = Taken(t) /\ waiting' = t
    BY <1>0, <1>2, GoToFacts DEF WaitEnter, Inner
  <2>2. Waits(t) \/ place[t] = "send"
    BY <1>0, <1>2 DEF WaitEnter, Waiting, Waits, Sends, StillSending, BufOK, CtlOK, Tasks,
                      LoopPlaces
  <2>3. Level(t)' = Level(t) + 1 /\ \A u \in Tasks \ {t} : Level(u)' = Level(u)
    <3>1. \A u \in Tasks \ {t} : Level(u)' = Level(u)
      BY <2>1, LevelSame
    <3>2. inner[t] = IF Sends(t) THEN "wait_sent" ELSE "call"
      BY DEF WaitEnter, Waiting, Waits, Sends
    <3>3. Level(t)' = Level(t) + 1
      BY <2>1, <3>2 DEF Level, Sends
    <3> QED
      BY <3>1, <3>3
  <2>4. /\ MuxOK' /\ mux' \in [owner : Tasks \union {None}, depth : Nat]
        /\ (mux'.owner = None) <=> (mux'.depth = 0)
    BY <1>0, <2>1, <2>3, MuxTaken DEF WaitEnter
  <2>5. TypeOK'
    BY <1>0, <2>1, <2>4 DEF TypeOK, WaitEnter
  <2>6. CtlOK'
    BY <1>0, <2>1, <2>2 DEF CtlOK, Writes, Sends, Waits
  <2>7. NoteOK'
    <3>1. t \notin note
      BY <1>0 DEF NoteOK, WaitEnter, Waiting
    <3>2. \A u \in Tasks \ {t} : inner[u] \notin {"blocked", "ok", "failed", "listening", "alarm"}
      BY <1>0, FreeAlone DEF WaitEnter
    <3> QED
      BY <1>0, <2>1, <3>1, <3>2 DEF NoteOK, WaitEnter, timer_alarm, TypeOK
  <2>8. BufOK'
    BY <1>0, <2>1 DEF BufOK, WaitEnter, Borrows, Tasks
  <2> QED
    BY <1>1, <2>4, <2>5, <2>6, <2>7, <2>8 DEF Inv
<1>3. CASE ~StillSending
  <2>1. WaitOver(t, TRUE) /\ UNCHANGED <<mux, waiting>> /\ dmx.status # "SENDING"
    BY <1>3 DEF WaitEnter, StillSending
  <2>2. /\ \/ place[t] = "wait" /\ place'[t] = "write" /\ inner'[t] = "call"
           \/ place[t] = "first" /\ place'[t] = "rdm_write" /\ inner'[t] = "call"
           \/ place[t] = "done" /\ place'[t] = "restore" /\ inner'[t] = "call"
           \/ place[t] = "sent" /\ place'[t] = "listen" /\ inner'[t] = "call"
           \/ Sends(t) /\ place'[t] = place[t] /\ inner'[t] = "arm"
        /\ \A u \in Tasks \ {t} : place'[u] = place[u] /\ inner'[u] = inner[u]
        /\ place' \in [Tasks -> LoopPlaces \union RdmPlaces] /\ inner' \in [Tasks -> Inner]
        /\ CtlOK'
    BY <1>0, <2>1, WaitOverFacts DEF WaitEnter, Waiting
  <2>3. inner[t] = IF Sends(t) THEN "wait_sent" ELSE "call"
    BY DEF WaitEnter, Waiting, Waits, Sends
  <2>4. \A u \in Tasks : Level(u)' = Level(u)
    <3>1. \A u \in Tasks \ {t} : Level(u)' = Level(u)
      BY <2>2, LevelSame
    <3>2. Level(t)' = Level(t)
      BY <2>2, <2>3 DEF Level, Sends
    <3> QED
      BY <3>1, <3>2
  <2>5. MuxOK'
    BY <1>0, <2>1, <2>4 DEF MuxOK
  <2>6. TypeOK'
    BY <1>0, <2>1, <2>2 DEF TypeOK, WaitEnter
  <2>7. NoteOK'
    BY <1>0, <2>1, <2>2, <2>3 DEF NoteOK, WaitEnter, timer_alarm, TypeOK
  <2>8. BufOK'
    BY <1>0, <2>1, <2>2, <2>3 DEF BufOK, WaitEnter, Borrows, Tasks, Sends
  <2> QED
    BY <1>1, <2>2, <2>5, <2>6, <2>7, <2>8 DEF Inv
<1> QED
  BY <1>2, <1>3

\* Only sendDMX can wait in vain for the mutex: a request holds it.
LEMMA WaitNoMuxKeeps ==
  ASSUME Inv, stale = 0, stale' = 0, NEW t \in Tasks, WaitNoMux(t)
  PROVE  Inv'
<1>0. TypeOK /\ CtlOK /\ DriverOK /\ WireOK /\ BufOK /\ MuxOK /\ NoteOK
  BY DEF Inv
<1>1. Level(t) = 0
  BY <1>0 DEF MuxOK, WaitNoMux, Free
<1>2. t = Loop /\ place[t] = "wait" /\ inner[t] = "call"
  BY <1>0, <1>1 DEF Level, WaitNoMux, Waiting, Waits, Sends, CtlOK, Tasks, LoopPlaces, RdmPlaces
<1>3. /\ place'[t] = "write" /\ inner'[t] = "call"
      /\ \A u \in Tasks \ {t} : place'[u] = place[u] /\ inner'[u] = inner[u]
      /\ place' \in [Tasks -> LoopPlaces \union RdmPlaces] /\ inner' \in [Tasks -> Inner]
      /\ CtlOK'
  BY <1>0, <1>2, WaitOverFacts DEF WaitNoMux, Waits, Sends
<1>4. \A u \in Tasks : Level(u)' = Level(u)
  <2>1. \A u \in Tasks \ {t} : Level(u)' = Level(u)
    BY <1>3, LevelSame
  <2>2. Level(t)' = Level(t)
    BY <1>2, <1>3 DEF Level, Sends
  <2> QED
    BY <2>1, <2>2
<1>5. MuxOK'
  BY <1>0, <1>4 DEF MuxOK, WaitNoMux
<1>6. TypeOK'
  BY <1>0, <1>3 DEF TypeOK, WaitNoMux
<1>7. DriverOK' /\ WireOK'
  BY <1>0, WireSame DEF WaitNoMux
<1>8. NoteOK'
  BY <1>0, <1>2, <1>3 DEF NoteOK, WaitNoMux, timer_alarm, TypeOK
<1>9. BufOK'
  BY <1>0, <1>2, <1>3, SendAssumption DEF BufOK, WaitNoMux, Borrows, Tasks
<1> QED
  BY <1>3, <1>5, <1>6, <1>7, <1>8, <1>9 DEF Inv

\* Who wakes by a notification finds the line free.
LEMMA WaitNotifiedKeeps ==
  ASSUME Inv, stale = 0, stale' = 0, NEW t \in Tasks, WaitNotified(t)
  PROVE  Inv'
<1>0. TypeOK /\ CtlOK /\ DriverOK /\ WireOK /\ BufOK /\ MuxOK /\ NoteOK
  BY DEF Inv
<1>1. /\ place' = place /\ inner[t] = "blocked" /\ inner'[t] = "ok"
      /\ inner' \in [Tasks -> Inner] /\ \A u \in Tasks \ {t} : inner'[u] = inner[u]
  BY <1>0, GoToFacts DEF WaitNotified, Inner
<1>2. \A u \in Tasks : Level(u)' = Level(u)
  <2>1. \A u \in Tasks \ {t} : Level(u)' = Level(u)
    BY <1>1, LevelSame
  <2>2. Level(t)' = Level(t)
    BY <1>1 DEF Level, Sends
  <2> QED
    BY <2>1, <2>2
<1>3. MuxOK'
  BY <1>0, <1>2 DEF MuxOK, WaitNotified
<1>4. TypeOK'
  BY <1>0, <1>1 DEF TypeOK, WaitNotified
<1>5. CtlOK'
  BY <1>0, <1>1 DEF CtlOK, Writes, Sends, Waits
<1>6. DriverOK' /\ WireOK'
  BY <1>0, WireSame DEF WaitNotified
<1>7. NoteOK'
  BY <1>0, <1>1 DEF NoteOK, WaitNotified, timer_alarm, TypeOK
<1>8. BufOK'
  BY <1>0, <1>1 DEF BufOK, WaitNotified, Borrows, Tasks
<1> QED
  BY <1>3, <1>4, <1>5, <1>6, <1>7, <1>8 DEF Inv

\* A wait runs out only while a DMX frame is on the line.
LEMMA WaitExpiresKeeps ==
  ASSUME Inv, stale = 0, stale' = 0, NEW t \in Tasks, WaitExpires(t)
  PROVE  Inv'
<1>0. TypeOK /\ CtlOK /\ DriverOK /\ WireOK /\ BufOK /\ MuxOK /\ NoteOK
  BY DEF Inv
<1>1. /\ place' = place /\ inner[t] = "blocked" /\ inner'[t] = "failed"
      /\ inner' \in [Tasks -> Inner] /\ \A u \in Tasks \ {t} : inner'[u] = inner[u]
  BY <1>0, GoToFacts DEF WaitExpires, Inner
<1>2. \A u \in Tasks : Level(u)' = Level(u)
  <2>1. \A u \in Tasks \ {t} : Level(u)' = Level(u)
    BY <1>1, LevelSame
  <2>2. Level(t)' = Level(t)
    BY <1>1 DEF Level, Sends
  <2> QED
    BY <2>1, <2>2
<1>3. MuxOK'
  BY <1>0, <1>2 DEF MuxOK, WaitExpires
<1>4. TypeOK'
  BY <1>0, <1>1 DEF TypeOK, WaitExpires
<1>5. CtlOK'
  BY <1>0, <1>1 DEF CtlOK, Writes, Sends, Waits
<1>6. DriverOK' /\ WireOK'
  BY <1>0, WireSame DEF WaitExpires
<1>7. NoteOK'
  BY <1>0, <1>1 DEF NoteOK, WaitExpires, timer_alarm, TypeOK
<1>8. BufOK'
  BY <1>0, <1>1 DEF BufOK, WaitExpires, Borrows, Tasks
<1> QED
  BY <1>3, <1>4, <1>5, <1>6, <1>7, <1>8 DEF Inv

\* The end of a wait gives back its level, and that of dmx_send when it failed.
LEMMA WaitReturnsKeeps ==
  ASSUME Inv, stale = 0, stale' = 0, NEW t \in Tasks, WaitReturns(t)
  PROVE  Inv'
<1>0. TypeOK /\ CtlOK /\ DriverOK /\ WireOK /\ BufOK /\ MuxOK /\ NoteOK
  BY DEF Inv
<1> DEFINE ok == inner[t] = "ok"
<1>1. /\ ok \in BOOLEAN /\ inner[t] \in {"ok", "failed"} /\ waiting' = None
      /\ mux' = GivenAfter(t, ok) /\ WaitOver(t, ok)
      /\ UNCHANGED <<dmx, data, uart, timer, line, since, note, request, stale>>
      /\ Waits(t) \/ place[t] = "send"
  BY <1>0 DEF WaitReturns, CtlOK
<1>2. /\ \/ place[t] = "wait" /\ place'[t] = "write" /\ inner'[t] = "call"
         \/ place[t] = "first" /\ ok /\ place'[t] = "rdm_write" /\ inner'[t] = "call"
         \/ place[t] = "first" /\ ~ok /\ place'[t] = "give" /\ inner'[t] = "call"
         \/ place[t] = "done" /\ place'[t] = "restore" /\ inner'[t] = "call"
         \/ place[t] = "sent" /\ ok /\ place'[t] = "listen" /\ inner'[t] = "call"
         \/ place[t] = "sent" /\ ~ok /\ place'[t] = "restore" /\ inner'[t] = "call"
         \/ place[t] = "send" /\ ok /\ place'[t] = place[t] /\ inner'[t] = "arm"
         \/ place[t] = "send" /\ ~ok /\ place'[t] = "wait" /\ inner'[t] = "call"
      /\ \A u \in Tasks \ {t} : place'[u] = place[u] /\ inner'[u] = inner[u]
      /\ place' \in [Tasks -> LoopPlaces \union RdmPlaces] /\ inner' \in [Tasks -> Inner]
      /\ CtlOK'
  <2>1. t # Loop => Waits(t)
    BY <1>0, <1>1 DEF CtlOK, Tasks, RdmPlaces
  <2>2. Waits(t) \/ Sends(t)
    BY <1>1 DEF Sends
  <2> HIDE DEF ok
  <2>3. Sends(t) => place[t] = "send"
    BY <1>1 DEF Sends, Waits
  <2> QED
    BY <1>0, <1>1, <2>1, <2>2, <2>3, WaitOverFacts
<1>3. ok => dmx.status # "SENDING"
  BY <1>0 DEF NoteOK
<1>4. ~ok => line.kind = "DMX"
  BY <1>0, <1>1 DEF BufOK
<1>5. \A u \in Tasks \ {t} : Level(u)' = Level(u)
  BY <1>2, LevelSame
<1>6. /\ MuxOK' /\ mux' \in [owner : Tasks \union {None}, depth : Nat]
      /\ (mux'.owner = None) <=> (mux'.depth = 0)
  <2>1. CASE Sends(t) /\ ~ok
    <3>1. Level(t) = 2 /\ Level(t)' = 0
      BY <1>0, <1>1, <1>2, <2>1, SendAssumption DEF Level, Sends, CtlOK, Tasks, RdmPlaces
    <3>2. mux' = [owner |-> IF mux.depth = 2 THEN None ELSE mux.owner, depth |-> mux.depth - 2]
      BY <1>1, <2>1 DEF GivenAfter
    <3> QED
      BY <1>0, <1>5, <3>1, <3>2, MuxGiven
  <2>2. CASE ~(Sends(t) /\ ~ok)
    <3>1. 1 <= Level(t) /\ Level(t)' = Level(t) - 1
      BY <1>0, <1>1, <1>2, <2>2 DEF Level, Sends, CtlOK, Tasks, LoopPlaces
    <3>2. mux' = [owner |-> IF mux.depth = 1 THEN None ELSE mux.owner, depth |-> mux.depth - 1]
      BY <1>1, <2>2 DEF GivenAfter, Given
    <3> QED
      BY <1>0, <1>5, <3>1, <3>2, MuxGiven
  <2> QED
    BY <2>1, <2>2
<1> HIDE DEF ok
<1>7. TypeOK'
  BY <1>0, <1>1, <1>2, <1>6 DEF TypeOK
<1>8. DriverOK' /\ WireOK'
  BY <1>0, <1>1, WireSame
<1>9. NoteOK'
  <2>1. \A u \in Tasks \ {t} : inner[u] \notin {"blocked", "ok", "failed", "listening", "alarm"}
    BY <1>0, <1>1 DEF NoteOK
  <2>2. None \notin Tasks
    BY SendAssumption
  <2> QED
    BY <1>0, <1>1, <1>2, <1>3, <2>1, <2>2 DEF NoteOK, timer_alarm, TypeOK
<1>10. BufOK'
  BY <1>0, <1>1, <1>2, <1>3, <1>4 DEF BufOK, Borrows, Tasks
<1> QED
  BY <1>2, <1>6, <1>7, <1>8, <1>9, <1>10 DEF Inv

-----------------------------------------------------------------------------
(* dmx_send                                                                 *)

\* dmx_send takes its level, or gives up.
LEMMA SendTakeKeeps ==
  ASSUME Inv, stale = 0, stale' = 0, NEW t \in Tasks, SendTake(t)
  PROVE  Inv'
<1>0. TypeOK /\ CtlOK /\ DriverOK /\ WireOK /\ BufOK /\ MuxOK /\ NoteOK
  BY DEF Inv
<1>1. Sends(t) /\ inner[t] = "call"
  BY DEF SendTake
<1>2. /\ \/ Free(t) /\ place'[t] = place[t] /\ inner'[t] = "wait_sent" /\ mux' = Taken(t)
         \/ t = Loop /\ place'[t] = "wait" /\ inner'[t] = "call" /\ mux' = mux
      /\ \A u \in Tasks \ {t} : place'[u] = place[u] /\ inner'[u] = inner[u]
      /\ place' \in [Tasks -> LoopPlaces \union RdmPlaces] /\ inner' \in [Tasks -> Inner]
  <2>1. CASE Free(t)
    BY <1>0, <2>1, GoToFacts DEF SendTake, Inner, TypeOK
  <2>2. CASE ~Free(t)
    <3>1. Level(t) = 0
      BY <1>0, <2>2 DEF MuxOK, Free
    <3>2. t = Loop /\ place[t] = "send"
      BY <1>0, <1>1, <3>1 DEF Level, Sends, CtlOK, LoopPlaces
    <3> QED
      BY <1>0, <2>2, <3>2, ReturnFacts DEF SendTake, sendDMX
  <2> QED
    BY <2>1, <2>2
<1>3. \A u \in Tasks \ {t} : Level(u)' = Level(u)
  BY <1>2, LevelSame
<1>4. /\ MuxOK' /\ mux' \in [owner : Tasks \union {None}, depth : Nat]
      /\ (mux'.owner = None) <=> (mux'.depth = 0)
  <2>1. CASE Free(t) /\ place'[t] = place[t] /\ inner'[t] = "wait_sent" /\ mux' = Taken(t)
    <3>1. Level(t)' = Level(t) + 1
      BY <1>1, <2>1 DEF Level, Sends
    <3> QED
      BY <1>0, <1>3, <2>1, <3>1, MuxTaken
  <2>2. CASE t = Loop /\ place'[t] = "wait" /\ inner'[t] = "call" /\ mux' = mux
    <3>1. Level(t)' = Level(t)
      BY <1>1, <2>2 DEF Level, Sends
    <3> QED
      BY <1>0, <1>3, <2>2, <3>1 DEF MuxOK, TypeOK
  <2> QED
    BY <1>2, <2>1, <2>2
<1>5. TypeOK'
  BY <1>0, <1>2, <1>4 DEF TypeOK, SendTake
<1>6. CtlOK'
  BY <1>0, <1>1, <1>2, SendAssumption DEF CtlOK, LoopPlaces, Writes, Sends, Waits, Tasks
<1>7. DriverOK' /\ WireOK'
  BY <1>0, WireSame DEF SendTake
<1>8. NoteOK'
  BY <1>0, <1>1, <1>2 DEF NoteOK, SendTake, timer_alarm, TypeOK
<1>9. BufOK'
  BY <1>0, <1>1, <1>2, SendAssumption DEF BufOK, SendTake, Borrows, Tasks
<1> QED
  BY <1>4, <1>5, <1>6, <1>7, <1>8, <1>9 DEF Inv

\* The alarm is set to the rest of the distance to the packet before.
LEMMA SendArmKeeps ==
  ASSUME Inv, stale = 0, stale' = 0, NEW t \in Tasks, SendArm(t)
  PROVE  Inv'
<1>0. TypeOK /\ CtlOK /\ DriverOK /\ WireOK /\ BufOK /\ MuxOK /\ NoteOK
  BY DEF Inv
<1>1. Sends(t) /\ inner[t] = "arm" /\ dmx.status # "SENDING"
  BY <1>0 DEF SendArm, NoteOK
<1>2. timer_alarm \in Nat /\ since \in Nat
  BY <1>0, SendAssumption DEF timer_alarm, TypeOK
<1>3. /\ place' = place /\ inner' \in [Tasks -> Inner] /\ inner'[t] \in {"alarm", "start"}
      /\ \A u \in Tasks \ {t} : inner'[u] = inner[u]
      /\ inner'[t] = "alarm" => /\ timer' = [on |-> TRUE, left |-> timer_alarm - since]
                                /\ since < timer_alarm /\ waiting' = t
      /\ inner'[t] = "start" => since >= timer_alarm /\ UNCHANGED <<timer, waiting>>
  <2>1. CASE since < timer_alarm
    BY <1>0, <2>1, GoToFacts DEF SendArm, Inner
  <2>2. CASE ~(since < timer_alarm)
    BY <1>0, <1>2, <2>2, GoToFacts DEF SendArm, Inner
  <2> QED
    BY <2>1, <2>2
<1>4. /\ request' \in [Tasks -> [kind : Kinds, old : Kinds, header : Kinds]]
      /\ request'[t].kind = request[t].kind /\ request'[t].old = request[t].old
      /\ request'[t].header = data
      /\ \A u \in Tasks \ {t} : request'[u] = request[u]
  BY <1>0 DEF TypeOK, SendArm
<1>5. Level(t) # 0 /\ \A u \in Tasks : Level(u)' = Level(u)
  <2>1. \A u \in Tasks \ {t} : Level(u)' = Level(u)
    BY <1>3, LevelSame
  <2>2. Level(t)' = Level(t) /\ Level(t) # 0
    BY <1>1, <1>3 DEF Level, Sends
  <2> QED
    BY <2>1, <2>2
<1>6. \A u \in Tasks \ {t} : /\ inner[u] \notin {"blocked", "ok", "failed", "listening", "alarm"}
                             /\ u # Loop => place[u] = "take"
  BY <1>0, <1>5, HolderAlone DEF CtlOK
<1>7. MuxOK'
  BY <1>0, <1>5 DEF MuxOK, SendArm
<1>8. timer' \in [on : BOOLEAN, left : Nat] /\ waiting' \in Tasks \union {None}
  <2>1. CASE inner'[t] = "alarm"
    <3> DEFINE left == timer_alarm - since
    <3>1. left \in Nat /\ timer' = [on |-> TRUE, left |-> left] /\ waiting' = t
      BY <1>2, <1>3, <2>1
    <3> HIDE DEF left
    <3> QED
      BY <3>1
  <2>2. CASE inner'[t] = "start"
    BY <1>0, <1>3, <2>2 DEF TypeOK
  <2> QED
    BY <1>3, <2>1, <2>2
<1>9. TypeOK'
  BY <1>0, <1>3, <1>4, <1>8 DEF TypeOK, SendArm
<1>10. CtlOK'
  BY <1>0, <1>1, <1>3 DEF CtlOK, Writes, Sends, Waits
<1>11. DriverOK' /\ WireOK'
  <2>1. UNCHANGED <<dmx, uart, line, since>>
    BY DEF SendArm
  <2>2. DriverOK'
    BY <1>0, <2>1 DEF DriverOK, PidOf
  <2>3. WireOK'
    BY <1>0, <1>1, <2>1 DEF WireOK, SlotsOf
  <2> QED
    BY <2>2, <2>3
<1>12. NoteOK'
  <2>1. note = {} /\ note' = {}
    BY <1>0, <1>1, <1>6 DEF NoteOK, SendArm, TypeOK
  <2>2. timer_alarm' = timer_alarm /\ since' = since /\ dmx' = dmx
    BY DEF timer_alarm, SendArm
  <2>4. \A u \in Tasks :
          inner'[u] \in {"blocked", "ok", "failed", "listening", "alarm"} => waiting' = u
    BY <1>3, <1>6
  <2>5. inner'[t] = "alarm" => since + timer'.left >= timer_alarm
    BY <1>2, <1>3
  <2> QED
    BY <1>0, <1>1, <1>3, <1>6, <2>1, <2>2, <2>4, <2>5 DEF NoteOK
<1>13. BufOK'
  <2>1. t = Loop => data = "DMX"
    BY <1>0, <1>6, SendAssumption DEF BufOK, Borrows, Tasks
  <2>2. t # Loop => place[t] = "rdm_send"
    BY <1>0, <1>1 DEF Sends, CtlOK, Tasks, RdmPlaces
  <2>3. UNCHANGED <<dmx, data, uart, line>>
    BY DEF SendArm
  <2>4. \A u \in RdmTasks : u \in Tasks /\ u # Loop
    BY SendAssumption DEF Tasks
  <2> QED
    BY <1>0, <1>3, <1>4, <1>6, <2>1, <2>2, <2>3, <2>4 DEF BufOK, Borrows, Tasks
<1> QED
  BY <1>7, <1>9, <1>10, <1>11, <1>12, <1>13 DEF Inv

\* dmx_send goes on when the alarm has come, so when the distance is kept.
LEMMA SendAlarmKeeps ==
  ASSUME Inv, stale = 0, stale' = 0, NEW t \in Tasks, SendAlarm(t)
  PROVE  Inv'
<1>0. TypeOK /\ CtlOK /\ DriverOK /\ WireOK /\ BufOK /\ MuxOK /\ NoteOK
  BY DEF Inv
<1>1. /\ place' = place /\ inner[t] = "alarm" /\ inner'[t] = "start" /\ t \in note
      /\ inner' \in [Tasks -> Inner] /\ \A u \in Tasks \ {t} : inner'[u] = inner[u]
  BY <1>0, GoToFacts DEF SendAlarm, Inner
<1>2. \A u \in Tasks : Level(u)' = Level(u)
  <2>1. \A u \in Tasks \ {t} : Level(u)' = Level(u)
    BY <1>1, LevelSame
  <2>2. Level(t)' = Level(t)
    BY <1>1 DEF Level, Sends
  <2> QED
    BY <2>1, <2>2
<1>3. MuxOK'
  BY <1>0, <1>2 DEF MuxOK, SendAlarm
<1>4. TypeOK'
  BY <1>0, <1>1 DEF TypeOK, SendAlarm
<1>5. CtlOK'
  BY <1>0, <1>1 DEF CtlOK, Writes, Sends, Waits
<1>6. DriverOK' /\ WireOK'
  BY <1>0, WireSame DEF SendAlarm
<1>7. NoteOK'
  <2>1. \A u \in Tasks \ {t} : inner[u] \notin {"blocked", "ok", "failed", "listening", "alarm"}
    BY <1>0, <1>1 DEF NoteOK
  <2> QED
    BY <1>0, <1>1, <2>1, SendAssumption DEF NoteOK, SendAlarm, timer_alarm, TypeOK
<1>8. BufOK'
  BY <1>0, <1>1 DEF BufOK, SendAlarm, Borrows, Tasks
<1> QED
  BY <1>3, <1>4, <1>5, <1>6, <1>7, <1>8 DEF Inv

\* The packet that is begun is the one recorded, and the bus is turned to it.
LEMMA SendStartKeeps ==
  ASSUME Inv, stale = 0, stale' = 0, NEW t \in Tasks, SendStart(t)
  PROVE  Inv'
<1>0. TypeOK /\ CtlOK /\ DriverOK /\ WireOK /\ BufOK /\ MuxOK /\ NoteOK
  BY DEF Inv
<1> DEFINE kind == request[t].header
<1>1. /\ Sends(t) /\ inner[t] = "start" /\ dmx.status # "SENDING" /\ kind \in Kinds
      /\ uart.enabled = {} /\ since >= timer_alarm
  BY <1>0 DEF SendStart, NoteOK, DriverOK, TypeOK
<1>2. /\ place'[t] \in IF t = Loop THEN {"wait"} ELSE {"done", "sent"}
      /\ place[t] = IF t = Loop THEN "send" ELSE "rdm_send"
      /\ inner'[t] = "call"
      /\ \A u \in Tasks \ {t} : place'[u] = place[u] /\ inner'[u] = inner[u]
      /\ place' \in [Tasks -> LoopPlaces \union RdmPlaces] /\ inner' \in [Tasks -> Inner]
  <2>1. place[t] = IF t = Loop THEN "send" ELSE "rdm_send"
    BY <1>0, <1>1 DEF Sends, CtlOK, Tasks, LoopPlaces, RdmPlaces
  <2> QED
    BY <1>0, <2>1, ReturnFacts DEF SendStart, sendDMX, rdm_send_request
<1>3. kind # "RESPONSE" /\ (t = Loop => kind = "DMX") /\ (kind = "DMX" => data = "DMX")
  <2>1. CASE t = Loop
    <3>1. Level(t) # 0
      BY <1>1 DEF Level
    <3>2. \A u \in RdmTasks : place[u] = "take"
      BY <1>0, <2>1, <3>1, HolderAlone, SendAssumption DEF Tasks
    <3> QED
      BY <1>0, <1>1, <2>1, <3>2 DEF BufOK, Borrows
  <2>2. CASE t # Loop
    BY <1>0, <1>1, <2>2 DEF BufOK, Tasks
  <2> QED
    BY <2>1, <2>2
<1>4. /\ dmx' \in Dmx /\ dmx'.status = "SENDING" /\ dmx'.progress = "IN_BREAK"
      /\ dmx'.size = SlotsOf(kind) /\ dmx'.last_controller_pid = PidOf(kind)
      /\ dmx'.last_request_was_broadcast = (kind \in {"BCAST", "DUB"})
      /\ uart' \in Uart /\ uart'.rts = 0 /\ uart'.fifo = uart.fifo
      /\ uart'.enabled = uart.enabled /\ uart'.raised = uart.raised
      /\ uart'.turning = uart.turning /\ uart'.dry = uart.dry
      /\ dmx'.head = 0
      /\ timer' = [on |-> TRUE, left |-> BREAK_LEN]
      /\ line' = [at |-> "BREAK", kind |-> kind, sent |-> 0]
      /\ UNCHANGED <<data, since, waiting, note, request, stale>>
  <2>1. SlotsOf(kind) \in Nat /\ PidOf(kind) \in Pids
    BY SendAssumption DEF SlotsOf, PidOf, Pids
  <2> DEFINE bcast == kind \in {"BCAST", "DUB"}
  <2>2. bcast \in BOOLEAN
    OBVIOUS
  <2> HIDE DEF kind
  <2>3. dmx' = [dmx EXCEPT !.size = SlotsOf(kind), !.head = 0,
               !.progress = "IN_BREAK", !.status = "SENDING",
               !.last_controller_pid = PidOf(kind),
               !.last_request_was_broadcast = bcast,
               !.responder_sent_last = FALSE]
    BY DEF SendStart, kind
  <2> HIDE DEF bcast
  <2>4. dmx' \in Dmx
    <3>1. PICK n \in Nat, pid \in Pids, b \in BOOLEAN :
            dmx' = [dmx EXCEPT !.size = n, !.head = 0, !.progress = "IN_BREAK",
                      !.status = "SENDING", !.last_controller_pid = pid,
                      !.last_request_was_broadcast = b, !.responder_sent_last = FALSE]
      BY <2>1, <2>2, <2>3, Zenon
    <3>2. dmx \in Dmx
      BY <1>0 DEF TypeOK
    <3>3. dmx' = [head |-> 0, size |-> n, status |-> "SENDING", progress |-> "IN_BREAK",
                  last_controller_pid |-> pid, responder_sent_last |-> FALSE,
                  last_request_was_broadcast |-> b]
      BY <3>1, <3>2 DEF Dmx
    <3> QED
      BY <3>3 DEF Dmx
  <2>5. /\ dmx'.status = "SENDING" /\ dmx'.progress = "IN_BREAK"
        /\ dmx'.size = SlotsOf(kind) /\ dmx'.last_controller_pid = PidOf(kind)
        /\ dmx'.last_request_was_broadcast = bcast /\ dmx'.head = 0
    BY <1>0, <2>3 DEF TypeOK, Dmx
  <2>6. /\ uart' \in Uart /\ uart'.rts = 0 /\ uart'.fifo = uart.fifo
        /\ uart'.enabled = uart.enabled /\ uart'.raised = uart.raised
        /\ uart'.turning = uart.turning /\ uart'.dry = uart.dry
    BY <1>0 DEF TypeOK, Uart, SendStart, turned_around
  <2> QED
    BY <2>4, <2>5, <2>6 DEF SendStart, kind, bcast
<1>5. Level(t) # 0 /\ Level(t)' = Level(t) - 1 /\ 1 <= Level(t)
      /\ \A u \in Tasks \ {t} : Level(u)' = Level(u)
  <2>1. \A u \in Tasks \ {t} : Level(u)' = Level(u)
    BY <1>2, LevelSame
  <2> QED
    BY <1>1, <1>2, <2>1 DEF Level, Sends
<1>6. /\ MuxOK' /\ mux' \in [owner : Tasks \union {None}, depth : Nat]
      /\ (mux'.owner = None) <=> (mux'.depth = 0)
  BY <1>0, <1>5, MuxGiven DEF SendStart, Given
<1>7. \A u \in Tasks \ {t} : /\ inner[u] \notin {"blocked", "ok", "failed", "listening", "alarm", "arm", "start"}
                             /\ u # Loop => place[u] = "take"
  BY <1>0, <1>5, HolderAlone DEF CtlOK
<1> HIDE DEF kind
<1>8. TypeOK'
  <2>1. line' \in Line /\ timer' \in [on : BOOLEAN, left : Nat]
    BY <1>1, <1>4, SendAssumption DEF Line
  <2> QED
    BY <1>0, <1>2, <1>4, <1>6, <2>1 DEF TypeOK
<1>9. CtlOK'
  BY <1>0, <1>2, SendAssumption DEF CtlOK, LoopPlaces, RdmPlaces, Writes, Sends, Waits, Tasks
<1>10. DriverOK' /\ WireOK'
  <2>1. ~uart.turning
    <3>1. timer_alarm >= 1
      BY SendAssumption DEF timer_alarm
    <3>2. since \in Nat /\ timer_alarm \in Nat /\ since # 0
      BY <1>0, <1>1, <3>1, SendAssumption DEF timer_alarm, TypeOK
    <3> QED
      BY <1>0, <3>2 DEF DriverOK
  <2>2. DriverOK'
    <3>1. line'.kind = kind
      BY <1>4
    <3>2. line'.kind # "RESPONSE" /\ dmx'.last_controller_pid = PidOf(line'.kind)
      BY <1>3, <1>4, <3>1
    <3>3. dmx'.last_request_was_broadcast = (line'.kind \in {"BCAST", "DUB"})
      BY <1>4, <3>1
    <3>4. uart'.enabled = {} /\ uart'.rts = 0 /\ ~uart'.turning
      BY <1>1, <1>4, <2>1
    <3> QED
      BY <3>2, <3>3, <3>4 DEF DriverOK
  <2>3. ASSUME ~uart.dry PROVE line.at = "MARK" /\ uart.fifo = 0 /\ "TX_DONE" \notin uart.raised
    BY <1>0, <1>1, <2>3 DEF WireOK
  <2>4. WireOK'
    BY <1>1, <1>4, <2>3 DEF WireOK
  <2> QED
    BY <2>2, <2>4
<1>11. NoteOK'
  <2>1. note = {}
    BY <1>0, <1>1, <1>7 DEF NoteOK, TypeOK
  <2> QED
    BY <1>0, <1>1, <1>2, <1>4, <1>7, <2>1 DEF NoteOK
<1>12. BufOK'
  <2>1. \A u \in RdmTasks : u \in Tasks /\ u # Loop
    BY SendAssumption DEF Tasks
  <2>2. \A u \in Tasks : inner'[u] \notin {"failed", "alarm", "start"}
    BY <1>2, <1>7
  <2> QED
    BY <1>0, <1>1, <1>2, <1>3, <1>4, <1>7, <2>1, <2>2 DEF BufOK, Borrows, Tasks
<1> QED
  BY <1>6, <1>8, <1>9, <1>10, <1>11, <1>12 DEF Inv

-----------------------------------------------------------------------------
(* Interrupts and hardware.                                                 *)

\* What is said of callers and buffer survives an interrupt that leaves them and the
\* packet on the wire alone.
LEMMA CallersSame ==
  ASSUME Inv, UNCHANGED <<data, mux, place, inner, request>>,
         dmx'.status = "SENDING" => dmx.status = "SENDING", line'.kind = line.kind
  PROVE  CtlOK' /\ MuxOK' /\ BufOK'
<1>1. CtlOK'
  BY DEF Inv, CtlOK, Writes, Sends, Waits
<1>2. MuxOK'
  BY DEF Inv, MuxOK, Level, Sends
<1>3. BufOK'
  BY DEF Inv, BufOK, Borrows
<1> QED
  BY <1>1, <1>2, <1>3

\* The break ends: nothing is in the FIFO yet.
LEMMA TimerBreakKeeps ==
  ASSUME Inv, stale = 0, stale' = 0, TimerBreak
  PROVE  Inv'
<1>0. TypeOK /\ CtlOK /\ DriverOK /\ WireOK /\ BufOK /\ MuxOK /\ NoteOK
  BY DEF Inv
<1>1. /\ dmx.status = "SENDING" /\ dmx.progress = "IN_BREAK"
      /\ ~uart.dry => line.at = "BREAK" \/ line.at = "DATA"
  BY <1>0 DEF TimerBreak, WireOK, TypeOK, Line
<1>2. /\ dmx' \in Dmx /\ timer' \in [on : BOOLEAN, left : Nat] /\ line' \in Line
      /\ dmx'.status = "SENDING" /\ dmx'.progress = "IN_MAB" /\ dmx'.size = dmx.size
      /\ dmx'.head = dmx.head /\ dmx'.last_controller_pid = dmx.last_controller_pid
      /\ dmx'.last_request_was_broadcast = dmx.last_request_was_broadcast
      /\ line'.at = "MAB" /\ line'.kind = line.kind /\ line'.sent = line.sent
  BY <1>0, <1>1, SendAssumption DEF TimerBreak, TypeOK, Dmx, Line
<1>3. UNCHANGED <<data, uart, since, mux, waiting, note, place, inner, request>>
  BY DEF TimerBreak, callVars
<1>4. TypeOK'
  BY <1>0, <1>2, <1>3 DEF TypeOK
<1>5. DriverOK'
  BY <1>0, <1>1, <1>2, <1>3 DEF DriverOK
<1>6. WireOK'
  <2>1. ~uart.dry => ~(line.at = "DATA")
    BY <1>0 DEF WireOK, TimerBreak
  <2> QED
    BY <1>0, <1>1, <1>2, <1>3, <2>1 DEF WireOK
<1>7. NoteOK'
  BY <1>0, <1>1, <1>2, <1>3 DEF NoteOK
<1>8. CtlOK' /\ MuxOK' /\ BufOK'
  BY <1>1, <1>2, <1>3, CallersSame
<1> QED
  BY <1>4, <1>5, <1>6, <1>7, <1>8 DEF Inv

\* What is written to the FIFO fits.
LEMMA FillFacts ==
  ASSUME NEW have \in 0 .. FIFO_LEN, NEW want \in Nat
  PROVE  /\ Fill(have, want) \in 0 .. want /\ have + Fill(have, want) \in 0 .. FIFO_LEN
         /\ Fill(have, want) < want => have + Fill(have, want) = FIFO_LEN
         /\ FIFO_LEN >= 2
  BY SendAssumption DEF Fill

\* The mark ends: as many slots as fit go into the FIFO.
LEMMA TimerMabKeeps ==
  ASSUME Inv, stale = 0, stale' = 0, TimerMab
  PROVE  Inv'
<1>0. TypeOK /\ CtlOK /\ DriverOK /\ WireOK /\ BufOK /\ MuxOK /\ NoteOK
  BY DEF Inv
<1>1. /\ dmx.status = "SENDING" /\ dmx.progress # "IN_BREAK" /\ timer.on
      /\ dmx \in Dmx /\ uart \in Uart /\ line \in Line /\ dmx.size \in Nat
      /\ uart.fifo \in 0 .. FIFO_LEN
  BY <1>0 DEF TimerMab, TypeOK, Dmx, Uart
<1> DEFINE n == Fill(uart.fifo, dmx.size)
<1>2. /\ n \in 0 .. dmx.size /\ uart.fifo + n \in 0 .. FIFO_LEN /\ n \in Int
      /\ 0 <= n /\ n <= dmx.size
  <2>1. n \in 0 .. dmx.size /\ uart.fifo + n \in 0 .. FIFO_LEN
    BY <1>1, FillFacts
  <2> HIDE DEF n
  <2> QED
    BY <1>1, <2>1
<1>3. /\ dmx' = [dmx EXCEPT !.head = n]
      /\ uart' = [uart EXCEPT !.fifo = uart.fifo + n, !.enabled = TxInts]
      /\ timer' = [timer EXCEPT !.on = FALSE] /\ line' = [line EXCEPT !.at = "DATA"]
      /\ UNCHANGED <<data, since, mux, waiting, note, place, inner, request>>
  BY DEF TimerMab, callVars
<1> HIDE DEF n
<1>4. /\ dmx' \in Dmx /\ uart' \in Uart /\ timer' \in [on : BOOLEAN, left : Nat]
      /\ line' \in Line /\ dmx'.status = "SENDING" /\ dmx'.size = dmx.size /\ dmx'.head = n
      /\ dmx'.last_controller_pid = dmx.last_controller_pid
      /\ dmx'.last_request_was_broadcast = dmx.last_request_was_broadcast
      /\ line'.at = "DATA" /\ line'.kind = line.kind /\ line'.sent = line.sent
      /\ timer'.on = FALSE
      /\ uart'.fifo = uart.fifo + n /\ uart'.enabled = TxInts /\ uart'.raised = uart.raised
      /\ uart'.rts = uart.rts /\ uart'.turning = uart.turning /\ uart'.dry = uart.dry
  BY <1>0, <1>1, <1>2, <1>3 DEF TypeOK, Dmx, Line, Uart
<1>5. TypeOK'
  BY <1>0, <1>3, <1>4 DEF TypeOK
<1>6. DriverOK'
  BY <1>0, <1>1, <1>2, <1>3, <1>4 DEF DriverOK
<1>7. WireOK'
  <2> SUFFICES ASSUME ~uart.dry PROVE WireOK'
    BY <1>4 DEF WireOK
  <2>1. line.at = "MAB" /\ line.sent = 0 /\ uart.fifo = 0 /\ "TX_DONE" \notin uart.raised
    BY <1>0, <1>1 DEF WireOK, Line
  <2>2. dmx.size = SlotsOf(line.kind)
    BY <1>0, <2>1 DEF WireOK
  <2>3. line'.sent + uart'.fifo = dmx'.head
    BY <1>2, <1>4, <2>1
  <2> QED
    BY <1>2, <1>4, <2>1, <2>2, <2>3 DEF WireOK, TxInts
<1>8. NoteOK'
  BY <1>0, <1>1, <1>3, <1>4 DEF NoteOK
<1>9. CtlOK' /\ MuxOK' /\ BufOK'
  BY <1>1, <1>3, <1>4, CallersSame
<1> QED
  BY <1>5, <1>6, <1>7, <1>8, <1>9 DEF Inv

\* An interrupt tells the task that is registered; when it is not waiting any more, the
\* notification stays behind.
LEMMA NotifyFacts ==
  ASSUME TypeOK, stale = 0, stale' = 0, Notify
  PROVE  /\ note' \subseteq Tasks /\ note \subseteq note'
         /\ \A u \in note' \ note : waiting = u /\ inner[u] \in {"blocked", "alarm", "listening"}
  BY SendAssumption DEF Notify, TypeOK

\* An alarm while nothing is sent is the one of the task that waits for it.
LEMMA TimerWakeKeeps ==
  ASSUME Inv, stale = 0, stale' = 0, TimerWake
  PROVE  Inv'
<1>0. TypeOK /\ CtlOK /\ DriverOK /\ WireOK /\ BufOK /\ MuxOK /\ NoteOK
  BY DEF Inv
<1>1. dmx.status # "SENDING" /\ timer.on /\ timer.left = 0
  BY DEF TimerWake
<1>2. timer' \in [on : BOOLEAN, left : Nat] /\ timer'.on = FALSE
  BY <1>0 DEF TimerWake, TypeOK
<1>3. /\ note' \subseteq Tasks /\ note \subseteq note'
      /\ \A u \in note' \ note : waiting = u /\ inner[u] \in {"blocked", "alarm", "listening"}
  BY <1>0, NotifyFacts DEF TimerWake
<1>4. UNCHANGED <<dmx, data, uart, line, since, mux, waiting, place, inner, request>>
  BY DEF TimerWake, callVars
<1>5. TypeOK'
  BY <1>0, <1>2, <1>3, <1>4 DEF TypeOK
<1>6. DriverOK' /\ WireOK'
  <2>1. DriverOK'
    BY <1>0, <1>4 DEF DriverOK, PidOf
  <2>2. WireOK'
    BY <1>0, <1>1, <1>2, <1>4 DEF WireOK, SlotsOf
  <2> QED
    BY <2>1, <2>2
<1>7. NoteOK'
  <2>1. since \in Nat /\ timer_alarm' = timer_alarm /\ timer_alarm \in Nat
    BY <1>0, <1>4, SendAssumption DEF TypeOK, timer_alarm
  <2>2. \A u \in note' : /\ u \in Tasks /\ inner[u] \in {"blocked", "alarm", "listening"}
    BY <1>0, <1>3 DEF NoteOK
  <2>3. \A u \in Tasks : inner[u] = "alarm" => since >= timer_alarm
    BY <1>0, <1>1, <2>1 DEF NoteOK
  <2> QED
    BY <1>0, <1>1, <1>2, <1>4, <2>1, <2>2, <2>3 DEF NoteOK
<1>8. CtlOK' /\ MuxOK' /\ BufOK'
  BY <1>4, CallersSame
<1> QED
  BY <1>5, <1>6, <1>7, <1>8 DEF Inv

\* A slot leaves the FIFO: it runs empty only when all slots were written, or it is dry.
LEMMA ShiftKeeps ==
  ASSUME Inv, stale = 0, stale' = 0, Shift
  PROVE  Inv'
<1>0. TypeOK /\ CtlOK /\ DriverOK /\ WireOK /\ BufOK /\ MuxOK /\ NoteOK
  BY DEF Inv
<1>1. /\ uart.fifo \in 1 .. FIFO_LEN /\ dmx.head \in Int /\ dmx.size \in Nat
      /\ uart \in Uart /\ line \in Line /\ line.sent \in Nat
  BY <1>0, SendAssumption DEF Shift, TypeOK, Uart, Line, Dmx
<1> DEFINE low == IF uart.fifo - 1 <= EMPTY_DEFAULT THEN {"TX_DATA"} ELSE {}
           out == IF uart.fifo = 1 THEN {"TX_DONE"} ELSE {}
           raised == uart.raised \union low \union out
           dry == uart.dry \/ (uart.fifo = 1 /\ dmx.head < dmx.size)
<1>2. uart' = [uart EXCEPT !.fifo = uart.fifo - 1, !.raised = raised, !.dry = dry]
  BY DEF Shift
<1>3. raised \subseteq TxInts /\ dry \in BOOLEAN
  BY <1>1 DEF Uart, TxInts
<1>4. "TX_DONE" \in raised => "TX_DONE" \in uart.raised \/ uart.fifo = 1
  OBVIOUS
<1>5. ~dry => ~uart.dry /\ (uart.fifo = 1 => ~(dmx.head < dmx.size))
  OBVIOUS
<1> HIDE DEF low, out, raised, dry
<1>6. /\ uart' \in Uart /\ uart'.fifo = uart.fifo - 1 /\ uart'.raised = raised
      /\ uart'.enabled = uart.enabled /\ uart'.rts = uart.rts
      /\ uart'.turning = uart.turning /\ uart'.dry = dry
  <2>1. uart.fifo - 1 \in 0 .. FIFO_LEN
    BY <1>1, SendAssumption
  <2> QED
    BY <1>1, <1>2, <1>3, <2>1 DEF Uart
<1>7. /\ line' \in Line /\ line'.kind = line.kind
      /\ line.at = "DATA" /\ dmx.status = "SENDING" =>
           line'.at = "DATA" /\ line'.sent = line.sent + 1
  <2>1. CASE line.at # "DATA"
    BY <1>1, <2>1 DEF Shift
  <2>2. CASE line.at = "DATA"
    <3>1. PICK a \in {"MARK", "DATA"} :
            /\ line' = [line EXCEPT !.sent = line.sent + 1, !.at = a]
            /\ dmx.status = "SENDING" => a = "DATA"
      BY <2>2 DEF Shift
    <3>2. line.sent + 1 \in Nat
      BY <1>1
    <3> QED
      BY <1>1, <3>1, <3>2 DEF Line
  <2> QED
    BY <2>1, <2>2
<1>8. UNCHANGED <<dmx, data, timer, since, mux, waiting, note, place, inner, request>>
  BY DEF Shift, callVars
<1>9. TypeOK'
  BY <1>0, <1>6, <1>7, <1>8 DEF TypeOK
<1>10. DriverOK'
  BY <1>0, <1>6, <1>7, <1>8 DEF DriverOK
<1>11. WireOK'
  <2> SUFFICES ASSUME ~dry PROVE WireOK'
    BY <1>6 DEF WireOK
  <2>1. line.at = "DATA" /\ dmx.status = "SENDING" /\ "TX_DONE" \notin uart.raised
    BY <1>0, <1>1, <1>5 DEF WireOK
  <2>2. /\ line.sent + uart.fifo = dmx.head /\ dmx.head <= dmx.size /\ ~timer.on
        /\ dmx.head < dmx.size => "TX_DATA" \in uart.enabled
        /\ dmx.size = SlotsOf(line.kind)
    BY <1>0, <1>5, <2>1 DEF WireOK
  <2>3. line'.sent + uart'.fifo = dmx.head
    BY <1>1, <1>6, <1>7, <2>1, <2>2
  <2>4. "TX_DONE" \in raised => uart'.fifo = 0 /\ dmx.head = dmx.size
    BY <1>1, <1>4, <1>5, <1>6, <2>1, <2>2
  <2> QED
    BY <1>6, <1>7, <1>8, <2>1, <2>2, <2>3, <2>4 DEF WireOK
<1>12. NoteOK'
  BY <1>0, <1>8 DEF NoteOK, timer_alarm
<1>13. CtlOK' /\ MuxOK' /\ BufOK'
  BY <1>7, <1>8, CallersSame
<1> QED
  BY <1>9, <1>10, <1>11, <1>12, <1>13 DEF Inv

\* The FIFO is filled up again: no slot is written twice or left out.
LEMMA UartDataKeeps ==
  ASSUME Inv, stale = 0, stale' = 0, UartData
  PROVE  Inv'
<1>0. TypeOK /\ CtlOK /\ DriverOK /\ WireOK /\ BufOK /\ MuxOK /\ NoteOK
  BY DEF Inv
<1>1. /\ dmx \in Dmx /\ uart \in Uart /\ dmx.head \in Int /\ dmx.size \in Nat
      /\ uart.fifo \in 0 .. FIFO_LEN /\ dmx.status = "SENDING" /\ uart.enabled # {}
      /\ 0 <= dmx.head /\ dmx.head <= dmx.size /\ "TX_DATA" \in uart.enabled
  BY <1>0 DEF UartData, DriverOK, TypeOK, Uart, Dmx
<1> DEFINE want == dmx.size - dmx.head
           n == Fill(uart.fifo, want)
<1>2. want \in Nat
  BY <1>1
<1>3. n \in 0 .. want /\ uart.fifo + n \in 0 .. FIFO_LEN
  <2> HIDE DEF want
  <2> QED
    BY <1>1, <1>2, FillFacts
<1>4. /\ dmx' = [dmx EXCEPT !.head = dmx.head + n]
      /\ uart' = [uart EXCEPT !.fifo = uart.fifo + n, !.raised = uart.raised \ {"TX_DATA"},
                    !.enabled = IF dmx.head + n = dmx.size THEN Written ELSE uart.enabled]
      /\ UNCHANGED <<data, timer, line, since, mux, waiting, note, place, inner, request>>
  BY DEF UartData, callVars
<1> HIDE DEF n
<1>5. /\ dmx.head + n \in Int /\ 0 <= dmx.head + n /\ dmx.head + n <= dmx.size
  BY <1>1, <1>2, <1>3
<1>6. /\ dmx' \in Dmx /\ dmx'.head = dmx.head + n /\ dmx'.size = dmx.size
      /\ dmx'.status = dmx.status /\ dmx'.progress = dmx.progress
      /\ dmx'.last_controller_pid = dmx.last_controller_pid
      /\ dmx'.last_request_was_broadcast = dmx.last_request_was_broadcast
  BY <1>1, <1>4, <1>5 DEF Dmx
<1>7. /\ uart' \in Uart /\ uart'.fifo = uart.fifo + n /\ uart'.rts = uart.rts
      /\ uart'.raised = uart.raised \ {"TX_DATA"}
      /\ dmx.head + n # dmx.size => uart'.enabled = uart.enabled
      /\ uart'.turning = uart.turning /\ uart'.dry = uart.dry
  BY <1>1, <1>3, <1>4 DEF Uart, Written
<1>8. TypeOK'
  BY <1>0, <1>4, <1>6, <1>7 DEF TypeOK
<1>9. DriverOK'
  BY <1>0, <1>1, <1>4, <1>5, <1>6, <1>7 DEF DriverOK
<1>10. WireOK'
  <2> SUFFICES ASSUME ~uart.dry PROVE WireOK'
    BY <1>7 DEF WireOK
  <2>1. line.at = "DATA" /\ ~timer.on /\ line.sent + uart.fifo = dmx.head
        /\ dmx.size = SlotsOf(line.kind) /\ line.sent \in Nat
    BY <1>0, <1>1 DEF WireOK, TypeOK, Line
  <2>2. dmx'.head < dmx'.size => "TX_DATA" \in uart'.enabled
    BY <1>1, <1>5, <1>6, <1>7
  <2>3. "TX_DONE" \in uart'.raised => uart'.fifo = 0 /\ dmx'.head = dmx'.size
    <3> SUFFICES ASSUME "TX_DONE" \in uart'.raised PROVE uart'.fifo = 0 /\ dmx'.head = dmx'.size
      OBVIOUS
    <3>1. uart.fifo = 0 /\ dmx.head = dmx.size
      BY <1>0, <1>7 DEF WireOK
    <3>2. n = 0
      BY <1>1, <1>3, <3>1 DEF want
    <3> QED
      BY <1>1, <1>6, <1>7, <3>1, <3>2
  <2>4. line'.sent + uart'.fifo = dmx'.head
    <3>1. n \in Nat /\ uart.fifo \in Nat
      BY <1>1, <1>2, <1>3
    <3> QED
      BY <1>1, <1>4, <1>6, <1>7, <2>1, <3>1
  <2> QED
    BY <1>1, <1>4, <1>5, <1>6, <1>7, <2>1, <2>2, <2>3, <2>4 DEF WireOK
<1>11. NoteOK'
  BY <1>0, <1>1, <1>4, <1>6 DEF NoteOK
<1>12. CtlOK' /\ MuxOK' /\ BufOK'
  BY <1>4, <1>6, CallersSame
<1> QED
  BY <1>8, <1>9, <1>10, <1>11, <1>12 DEF Inv

\* TX_DONE ends the packet and tells its waiter; the interrupt has still to turn around.
LEMMA UartDoneKeeps ==
  ASSUME Inv, stale = 0, stale' = 0, UartDone
  PROVE  Inv'
<1>0. TypeOK /\ CtlOK /\ DriverOK /\ WireOK /\ BufOK /\ MuxOK /\ NoteOK
  BY DEF Inv
<1>1. /\ dmx \in Dmx /\ uart \in Uart /\ line \in Line /\ dmx.status = "SENDING"
      /\ "TX_DONE" \in uart.raised
  BY <1>0 DEF UartDone, DriverOK, TypeOK
<1>2. /\ dmx' \in Dmx /\ dmx'.status = "IDLE" /\ dmx'.size = dmx.size /\ dmx'.head = dmx.head
      /\ dmx'.last_controller_pid = dmx.last_controller_pid
      /\ dmx'.last_request_was_broadcast = dmx.last_request_was_broadcast
  BY <1>1 DEF UartDone, Dmx
<1>3. /\ uart' \in Uart /\ uart'.fifo = uart.fifo /\ uart'.enabled = {}
      /\ uart'.raised = uart.raised \ {"TX_DONE"} /\ uart'.rts = uart.rts
      /\ uart'.turning = TRUE /\ uart'.dry = uart.dry
  BY <1>1 DEF UartDone, Uart
<1>4. line' \in Line /\ line'.kind = line.kind /\ (uart.fifo = 0 => line'.at = "MARK")
  BY <1>1 DEF UartDone, Line
<1>5. /\ note' \subseteq Tasks /\ note \subseteq note'
      /\ \A u \in note' \ note : waiting = u /\ inner[u] \in {"blocked", "alarm", "listening"}
  BY <1>0, NotifyFacts DEF UartDone
<1>6. UNCHANGED <<data, timer, mux, waiting, place, inner, request>> /\ since' = 0
  BY DEF UartDone, callVars
<1>7. TypeOK'
  BY <1>0, <1>2, <1>3, <1>4, <1>5, <1>6, SendAssumption DEF TypeOK
<1>8. DriverOK'
  BY <1>0, <1>2, <1>3, <1>4, <1>6 DEF DriverOK
<1>9. WireOK'
  <2> SUFFICES ASSUME ~uart.dry PROVE WireOK'
    BY <1>3 DEF WireOK
  <2>1. uart.fifo = 0
    BY <1>0, <1>1 DEF WireOK
  <2> QED
    BY <1>2, <1>3, <1>4, <2>1 DEF WireOK
<1>10. \A u \in Tasks : inner[u] \notin {"ok", "arm", "alarm", "start"}
  BY <1>0, <1>1 DEF NoteOK
<1>11. NoteOK'
  <2>1. \A u \in note' : u \in Tasks /\ inner[u] \in {"blocked", "listening"}
    BY <1>0, <1>5, <1>10 DEF NoteOK
  <2> QED
    BY <1>0, <1>2, <1>6, <1>10, <2>1 DEF NoteOK
<1>12. CtlOK' /\ MuxOK' /\ BufOK'
  BY <1>1, <1>4, <1>6, CallersSame
<1> QED
  BY <1>7, <1>8, <1>9, <1>11, <1>12 DEF Inv

\* The bus is turned around after the end of a request, before any packet can begin.
LEMMA UartTurnKeeps ==
  ASSUME Inv, stale = 0, stale' = 0, UartTurn
  PROVE  Inv'
<1>0. TypeOK /\ CtlOK /\ DriverOK /\ WireOK /\ BufOK /\ MuxOK /\ NoteOK
  BY DEF Inv
<1>1. /\ dmx \in Dmx /\ uart \in Uart /\ dmx.status # "SENDING" /\ uart.enabled = {}
  BY <1>0 DEF UartTurn, DriverOK, TypeOK
<1>2. /\ dmx' \in Dmx /\ dmx'.status = dmx.status /\ dmx'.size = dmx.size
      /\ dmx'.last_controller_pid = dmx.last_controller_pid
      /\ dmx'.responder_sent_last = dmx.responder_sent_last
      /\ dmx'.last_request_was_broadcast = dmx.last_request_was_broadcast
  <2>1. PICK p \in {"IN_DATA", "STALE", dmx.progress}, h \in {0, -1, dmx.head} :
          dmx' = [dmx EXCEPT !.progress = p, !.head = h]
    BY <1>1 DEF UartTurn, Dmx
  <2>2. h \in Int /\ p \in {"STALE", "IN_BREAK", "IN_MAB", "IN_DATA", "COMPLETE"}
    BY <1>1, <2>1 DEF Dmx
  <2> QED
    BY <1>1, <2>1, <2>2 DEF Dmx
<1>3. /\ uart' \in Uart /\ uart'.fifo = uart.fifo /\ uart'.enabled = uart.enabled
      /\ uart'.raised = uart.raised /\ uart'.turning = FALSE /\ uart'.dry = uart.dry
  BY <1>1 DEF UartTurn, Uart
<1>4. UNCHANGED <<data, timer, line, since, mux, waiting, note, place, inner, request>>
  BY DEF UartTurn, callVars
<1>5. TypeOK'
  BY <1>0, <1>2, <1>3, <1>4 DEF TypeOK
<1>6. DriverOK' /\ WireOK'
  <2>1. DriverOK'
    BY <1>0, <1>1, <1>2, <1>3, <1>4 DEF DriverOK
  <2>2. WireOK'
    <3>1. ~uart.dry => line.at = "MARK"
      BY <1>0, <1>1 DEF WireOK
    <3> QED
      BY <1>0, <1>1, <1>2, <1>3, <1>4, <3>1 DEF WireOK
  <2> QED
    BY <2>1, <2>2
<1>7. NoteOK'
  <2>1. timer_alarm' = timer_alarm
    BY <1>2 DEF timer_alarm
  <2> QED
    BY <1>0, <1>2, <1>4, <2>1 DEF NoteOK
<1>8. CtlOK' /\ MuxOK' /\ BufOK'
  BY <1>2, <1>4, CallersSame
<1> QED
  BY <1>5, <1>6, <1>7, <1>8 DEF Inv

\* Time that passes is taken from the alarm and added to the distance.
LEMMA TickKeeps ==
  ASSUME Inv, stale = 0, stale' = 0, Tick
  PROVE  Inv'
<1>0. TypeOK /\ CtlOK /\ DriverOK /\ WireOK /\ BufOK /\ MuxOK /\ NoteOK
  BY DEF Inv
<1>1. UNCHANGED <<dmx, data, uart, line, mux, waiting, note, place, inner, request>>
      /\ ~uart.turning
  BY DEF Tick, callVars
<1>2. since \in Nat /\ MaxSince \in Nat /\ timer_alarm \in 0 .. MaxSince /\ timer.left \in Nat
  BY <1>0, SendAssumption DEF TypeOK, timer_alarm
<1>3. /\ since' \in 0 .. MaxSince /\ since' >= since
      /\ since' = since + 1 \/ since' = MaxSince
  <2>1. since' = IF since < MaxSince THEN since + 1 ELSE since
    BY DEF Tick
  <2>2. since \in 0 .. MaxSince
    BY <1>0 DEF TypeOK
  <2> QED
    BY <1>2, <2>1, <2>2
<1>4. /\ timer' \in [on : BOOLEAN, left : Nat] /\ timer'.on = timer.on
      /\ timer.on => timer.left > 0 /\ timer'.left = timer.left - 1
  BY <1>0 DEF Tick, TypeOK
<1>5. TypeOK'
  BY <1>0, <1>1, <1>3, <1>4 DEF TypeOK
<1>6. DriverOK' /\ WireOK'
  <2>1. DriverOK'
    BY <1>0, <1>1 DEF DriverOK, PidOf
  <2>2. WireOK'
    BY <1>0, <1>1, <1>4 DEF WireOK, SlotsOf
  <2> QED
    BY <2>1, <2>2
<1>7. NoteOK'
  <2>1. timer_alarm' = timer_alarm
    BY <1>1 DEF timer_alarm
  <2>2. since >= timer_alarm => since' >= timer_alarm
    BY <1>2, <1>3
  <2>3. timer.on /\ since + timer.left >= timer_alarm => since' + timer'.left >= timer_alarm
    BY <1>2, <1>3, <1>4
  <2> QED
    BY <1>0, <1>1, <1>4, <2>1, <2>2, <2>3 DEF NoteOK
<1>8. CtlOK' /\ MuxOK' /\ BufOK'
  BY <1>1, CallersSame
<1> QED
  BY <1>5, <1>6, <1>7, <1>8 DEF Inv

-----------------------------------------------------------------------------
(* What is received.                                                        *)

\* What arrives while an answer is due: the record keeps the packet that was sent or says
\* that the answer was not understood, and the one task that can be told is the asking one.
LEMMA ReceivedKeeps ==
  ASSUME Inv, stale = 0, stale' = 0, NEW t \in RdmTasks, Receiving(t),
         dmx' \in Dmx, dmx'.status = dmx.status, dmx'.size = dmx.size, dmx'.head = dmx.head,
         dmx'.last_controller_pid \in {dmx.last_controller_pid, "0"},
         dmx'.last_request_was_broadcast = dmx.last_request_was_broadcast,
         data' = "RESPONSE", since' \in {since, 0}, PacketComplete \/ UNCHANGED <<timer, note>>,
         UNCHANGED <<uart, line, mux, waiting, callVars>>
  PROVE  Inv'
<1>0. t \in Tasks /\ t # Loop /\ TypeOK /\ CtlOK /\ DriverOK /\ WireOK /\ BufOK /\ MuxOK /\ NoteOK
  BY SendAssumption DEF Inv, Tasks
<1>1. /\ place[t] \in {"sent", "listen"} /\ line.kind \in {"DUB", "GET"} /\ ~uart.turning
      /\ dmx.status # "SENDING" /\ uart.enabled = {}
      /\ UNCHANGED <<place, inner, request>>
  BY <1>0 DEF Receiving, DriverOK, callVars
<1>2. Level(t) # 0
  BY <1>0, <1>1 DEF Level
<1>3. \A u \in Tasks \ {t} : /\ u # Loop => place[u] = "take"
                             /\ inner[u] \notin {"blocked", "ok", "failed", "listening", "alarm",
                                                 "arm", "start"}
  BY <1>0, <1>2, HolderAlone DEF CtlOK
<1>4. inner[t] \notin {"arm", "alarm", "start"}
  BY <1>0, <1>1 DEF CtlOK, Sends
<1>5. /\ timer' \in [on : BOOLEAN, left : Nat] /\ note' \subseteq Tasks
      /\ \A u \in note' : inner[u] \in {"blocked", "listening"}
  <2>1. \A u \in note : inner[u] \in {"blocked", "listening"}
    BY <1>0, <1>3, <1>4 DEF NoteOK, TypeOK
  <2>2. CASE PacketComplete
    <3>1. /\ note' \subseteq Tasks
          /\ \A u \in note' \ note : inner[u] \in {"blocked", "alarm", "listening"}
      BY <1>0, <2>2, NotifyFacts DEF PacketComplete
    <3>2. \A u \in note' \ note : inner[u] \in {"blocked", "listening"}
      BY <1>3, <1>4, <3>1
    <3> QED
      BY <2>1, <2>2, <3>1, <3>2 DEF PacketComplete
  <2>3. CASE UNCHANGED <<timer, note>>
    BY <1>0, <2>1, <2>3 DEF TypeOK
  <2> QED
    BY <2>2, <2>3
<1>6. TypeOK'
  BY <1>0, <1>1, <1>5, SendAssumption DEF TypeOK, Kinds
<1>7. CtlOK' /\ MuxOK'
  BY <1>0, <1>1 DEF CtlOK, Writes, Sends, Waits, MuxOK, Level
<1>8. DriverOK'
  BY <1>0, <1>1 DEF DriverOK, PidOf
<1>9. WireOK'
  <2>1. ~uart.dry => line.at = "MARK"
    BY <1>0, <1>1 DEF WireOK
  <2> QED
    BY <1>0, <1>1, <2>1 DEF WireOK
<1>10. NoteOK'
  BY <1>0, <1>1, <1>3, <1>4, <1>5 DEF NoteOK
<1>11. BufOK'
  <2>1. inner[Loop] \notin {"alarm", "start"}
    BY <1>0, <1>3 DEF Tasks
  <2>2. Borrows(t)'
    BY <1>1 DEF Borrows
  <2>3. \A u \in RdmTasks \ {t} : place[u] = "take"
    BY <1>3, SendAssumption DEF Tasks
  <2> QED
    BY <1>0, <1>1, <1>3, <1>4, <2>1, <2>2, <2>3 DEF BufOK, Borrows, Tasks
<1> QED
  BY <1>6, <1>7, <1>8, <1>9, <1>10, <1>11 DEF Inv

\* An answer is recorded as the last thing sent.
LEMMA RxAnswerKeeps ==
  ASSUME Inv, stale = 0, stale' = 0, NEW t \in RdmTasks, RxAnswer(t)
  PROVE  Inv'
<1>1. /\ dmx' \in Dmx /\ dmx'.status = dmx.status /\ dmx'.size = dmx.size
      /\ dmx'.head = dmx.head /\ dmx'.last_controller_pid = dmx.last_controller_pid
      /\ dmx'.last_request_was_broadcast = dmx.last_request_was_broadcast
  BY DEF RxAnswer, Inv, TypeOK, Dmx
<1>2. /\ Receiving(t) /\ data' = "RESPONSE" /\ since' = since /\ PacketComplete
      /\ UNCHANGED <<uart, line, mux, waiting, callVars>>
  BY DEF RxAnswer
<1> QED
  BY <1>1, <1>2, ReceivedKeeps

\* A garbled answer clears what was recorded of the request, or ends the packet.
LEMMA RxNoiseFacts ==
  ASSUME dmx \in Dmx, NEW t \in RdmTasks, RxNoise(t)
  PROVE  /\ dmx' \in Dmx /\ dmx'.status = dmx.status /\ dmx'.size = dmx.size
         /\ dmx'.head = dmx.head
         /\ dmx'.last_request_was_broadcast = dmx.last_request_was_broadcast
         /\ \/ /\ dmx'.last_controller_pid = dmx.last_controller_pid
               /\ dmx'.responder_sent_last = dmx.responder_sent_last
               /\ since' = since
            \/ dmx'.last_controller_pid = "0" /\ since' \in {since, 0}
         /\ PacketComplete \/ UNCHANGED <<timer, note>>
         /\ Receiving(t) /\ data' = "RESPONSE" /\ UNCHANGED <<uart, line, mux, waiting, callVars>>
<1>1. \/ dmx' = [dmx EXCEPT !.progress = "COMPLETE"] /\ since' = since
      \/ dmx' = [NotRdm EXCEPT !.progress = "COMPLETE"] /\ since' \in {since, 0}
      \/ dmx' = NotRdm /\ since' \in {since, 0}
  BY DEF RxNoise
<1>2. /\ dmx' \in Dmx /\ dmx'.status = dmx.status /\ dmx'.size = dmx.size
      /\ dmx'.head = dmx.head
      /\ dmx'.last_request_was_broadcast = dmx.last_request_was_broadcast
      /\ \/ /\ dmx'.last_controller_pid = dmx.last_controller_pid
            /\ dmx'.responder_sent_last = dmx.responder_sent_last
            /\ since' = since
         \/ dmx'.last_controller_pid = "0" /\ since' \in {since, 0}
  BY <1>1 DEF NotRdm, Dmx, Pids
<1> QED
  BY <1>2 DEF RxNoise

\* A garbled answer keeps the invariant.
LEMMA RxNoiseKeeps ==
  ASSUME Inv, stale = 0, stale' = 0, NEW t \in RdmTasks, RxNoise(t)
  PROVE  Inv'
<1>1. dmx \in Dmx
  BY DEF Inv, TypeOK
<1> QED
  BY <1>1, RxNoiseFacts, ReceivedKeeps

-----------------------------------------------------------------------------
(* Theorems.                                                                *)

\* The port that dmx_driver_install leaves.
LEMMA InitSend == Init => Inv
<1> SUFFICES ASSUME Init PROVE Inv
  OBVIOUS
<1> USE SendAssumption
<1>1. TypeOK
  <2>1. dmx \in Dmx
    BY DEF Init, Dmx, Pids
  <2>2. data \in Kinds /\ line \in Line
    BY DEF Init, Kinds, Line
  <2>3. uart \in Uart /\ timer \in [on : BOOLEAN, left : Nat]
    BY DEF Init, Uart
  <2>4. /\ mux \in [owner : Tasks \union {None}, depth : Nat]
        /\ (mux.owner = None) <=> (mux.depth = 0)
    BY DEF Init
  <2>5. /\ place \in [Tasks -> LoopPlaces \union RdmPlaces] /\ inner \in [Tasks -> Inner]
        /\ request \in [Tasks -> [kind : Kinds, old : Kinds, header : Kinds]]
    BY DEF Init, Kinds, Inner, LoopPlaces, RdmPlaces
  <2>6. since \in 0 .. MaxSince /\ stale \in 0 .. MaxStale + 1
    BY DEF Init
  <2> QED
    BY <2>1, <2>2, <2>3, <2>4, <2>5, <2>6 DEF Init, TypeOK
<1>2. CtlOK
  BY DEF Init, CtlOK, LoopPlaces, RdmPlaces, Tasks
<1>3. DriverOK /\ WireOK
  <2>1. /\ line = [at |-> "MARK", kind |-> "DMX", sent |-> 0]
        /\ dmx.status = "IDLE" /\ dmx.last_controller_pid = "0"
        /\ dmx.last_request_was_broadcast = FALSE
        /\ uart.fifo = 0 /\ uart.enabled = {} /\ uart.raised = {} /\ uart.turning = FALSE
    BY DEF Init
  <2>2. PidOf("DMX") = "0" /\ (line.kind \in {"BCAST", "DUB"}) = FALSE
    BY <2>1 DEF PidOf
  <2>3. dmx.last_request_was_broadcast = (line.kind \in {"BCAST", "DUB"})
    BY <2>1, <2>2, Zenon
  <2>4. dmx.last_controller_pid = PidOf(line.kind) /\ line.at = "MARK"
    BY <2>1, <2>2
  <2> QED
    BY <2>1, <2>3, <2>4 DEF DriverOK, WireOK
<1>4. MuxOK
  BY DEF Init, MuxOK, Level, Sends
<1>5. NoteOK
  BY DEF Init, NoteOK
<1>6. BufOK
  BY DEF Init, BufOK, Borrows, Tasks
<1> QED
  BY <1>1, <1>2, <1>3, <1>4, <1>5, <1>6 DEF Inv

\* Nothing in the invariant is about more than the variables.
LEMMA StutterSend ==
  ASSUME Inv, UNCHANGED vars
  PROVE  Inv'
<1>1. TypeOK' /\ CtlOK' /\ WireOK' /\ DriverOK'
  BY DEF Inv, vars, callVars, TypeOK, CtlOK, WireOK, DriverOK, Writes, Sends, Waits, SlotsOf, PidOf
<1>2. BufOK' /\ MuxOK' /\ NoteOK'
  BY DEF Inv, vars, callVars, BufOK, Borrows, MuxOK, Level, NoteOK, Sends, timer_alarm
<1> QED
  BY <1>1, <1>2 DEF Inv

\* Every step that leaves nothing behind keeps the invariant.
LEMMA StepSend ==
  ASSUME Inv, stale = 0, stale' = 0, Next
  PROVE  Inv'
<1>1. ASSUME NEW t \in Tasks, Call(t) PROVE Inv'
  <2>1. ~WaitTakenLate(t)
    BY DEF WaitTakenLate
  <2> QED
    BY <1>1, <2>1, WriteCheckKeeps, WriteCopyKeeps, WaitEnterKeeps, WaitNoMuxKeeps,
       WaitNotifiedKeeps, WaitExpiresKeeps, WaitReturnsKeeps, SendTakeKeeps, SendArmKeeps,
       SendAlarmKeeps, SendStartKeeps DEF Call
<1>2. ASSUME NEW t \in RdmTasks, Request(t) PROVE Inv'
  BY <1>2, RdmTakeKeeps, RdmWriteKeeps, RdmGiveKeeps, RdmListenKeeps, RdmHeardKeeps DEF Request
<1>3. ASSUME NEW t \in RdmTasks, Receive(t) PROVE Inv'
  BY <1>3, RxAnswerKeeps, RxNoiseKeeps DEF Receive
<1>4. CASE Hardware
  BY <1>4, TimerBreakKeeps, TimerMabKeeps, TimerWakeKeeps, ShiftKeeps, UartDataKeeps,
     UartDoneKeeps, UartTurnKeeps, TickKeeps DEF Hardware
<1>5. CASE UNCHANGED vars
  BY <1>5, StutterSend
<1> QED
  BY <1>1, <1>2, <1>3, <1>4, <1>5 DEF Next

-----------------------------------------------------------------------------
(* What follows from the invariant.                                         *)

\* A step leaves behind nothing, or one thing more.
LEMMA StaleGrows ==
  ASSUME stale \in Nat, [Next]_vars
  PROVE  stale' \in Nat /\ (stale' = 0 => stale = 0)
<1>1. stale' \in {stale, stale + 1}
  <2>1. ASSUME NEW t \in Tasks, Call(t) PROVE stale' \in {stale, stale + 1}
    BY <2>1 DEF Call, WriteCheck, WriteCopy, WaitEnter, WaitNoMux, WaitTakenLate, WaitNotified,
       WaitExpires, WaitReturns, SendTake, SendArm, SendAlarm, SendStart
  <2>2. ASSUME NEW t \in RdmTasks, Request(t) PROVE stale' \in {stale, stale + 1}
    BY <2>2 DEF Request, RdmTake, RdmWrite, RdmGive, RdmListen, RdmHeard
  <2>3. ASSUME NEW t \in RdmTasks, Receive(t) PROVE stale' \in {stale, stale + 1}
    BY <2>3 DEF Receive, RxAnswer, RxNoise, PacketComplete, Notify
  <2>4. ASSUME Hardware PROVE stale' \in {stale, stale + 1}
    BY <2>4 DEF Hardware, TimerBreak, TimerMab, TimerWake, Shift, UartData, UartDone, UartTurn,
       Tick, Notify
  <2>5. ASSUME UNCHANGED vars PROVE stale' = stale
    BY <2>5 DEF vars
  <2> QED
    BY <2>1, <2>2, <2>3, <2>4, <2>5 DEF Next
<1> QED
  BY <1>1

\* As long as no wait has left anything behind, the invariant holds.
CleanInv == stale \in Nat /\ (stale = 0 => Inv)

\* CleanInv is an invariant, whatever the bound on stale.
LEMMA CleanInvariant == Spec => []CleanInv
<1>1. Init => CleanInv
  BY InitSend DEF Init, CleanInv
<1>2. CleanInv /\ [Next]_vars => CleanInv'
  BY StaleGrows, StepSend, StutterSend DEF CleanInv
<1> QED
  BY <1>1, <1>2, PTL DEF Spec

\* The nested takes and gives of dmx_send, dmx_receive and dmx_wait_sent balance on every
\* path of every number of tasks, until a wait ends late (io.c); also when the FIFO runs dry.
THEOREM MuxIsBalanced == Spec => []MuxBalanced
<1>1. CleanInv => MuxBalanced
  <2> SUFFICES ASSUME CleanInv, stale = 0, NEW t \in Tasks, inner[t] = "call"
               PROVE  IF t = Loop \/ place[t] = "take" THEN mux.owner # t
                      ELSE mux = [owner |-> t, depth |-> 1]
    BY DEF MuxBalanced
  <2>1. MuxOK
    BY DEF CleanInv, Inv
  <2>2. Level(t) = IF t = Loop \/ place[t] = "take" THEN 0 ELSE 1
    BY DEF Level
  <2> QED
    BY <2>1, <2>2 DEF MuxOK
<1> QED
  BY <1>1, CleanInvariant, PTL

\* For every number of tasks, packet length and FIFO: the transceiver drives the line
\* while a packet is on it, unless the FIFO ran dry, and sendDMX finds its own frame in the
\* buffer it shares with rdm_send_request; up to the first wait that ends late.
THEOREM SendSafe == Spec => []SendInv
<1>1. CleanInv => SendInv
  <2> SUFFICES ASSUME Inv PROVE TypeOK /\ Driving /\ LoopSendsDmx
    BY DEF CleanInv, SendInv
  <2>1. Driving
    BY DEF Inv, Driving, DriverOK, WireOK
  <2> QED
    BY <2>1 DEF Inv, BufOK, LoopSendsDmx
<1> QED
  BY <1>1, CleanInvariant, PTL

-----------------------------------------------------------------------------
(* The line that the driver implements.                                     *)

\* The distance that dmx_send keeps is the one that the line asks for.
LEMMA AlarmIsGap ==
  ASSUME DriverOK, line \in Line
  PROVE  timer_alarm = L!Gap
<1>1. /\ line.kind \in Kinds \ {"RESPONSE"}
      /\ dmx.last_request_was_broadcast = (line.kind \in {"BCAST", "DUB"})
  BY DEF DriverOK, Line
<1>2. CASE dmx.last_controller_pid # PidOf(line.kind)
  <2>1. dmx.last_controller_pid = "0" /\ line.kind \in {"DUB", "GET"}
    BY <1>2 DEF DriverOK
  <2>2. Heard = "noise"
    BY <2>1 DEF Heard
  <2> QED
    BY <2>1, <2>2 DEF timer_alarm, L!Gap
<1>3. CASE dmx.last_controller_pid = PidOf(line.kind)
  <2>1. Heard = IF dmx.responder_sent_last THEN "answer" ELSE "nothing"
    BY <1>3 DEF Heard, PidOf
  <2>2. CASE line.kind = "DUB"
    BY <1>3, <2>1, <2>2 DEF timer_alarm, L!Gap, PidOf
  <2>3. CASE line.kind = "GET"
    <3>1. ~dmx.last_request_was_broadcast
      BY <1>1, <2>3
    <3> QED
      BY <1>3, <2>1, <2>3, <3>1 DEF timer_alarm, L!Gap, PidOf
  <2>4. CASE line.kind = "BCAST"
    <3>1. dmx.last_request_was_broadcast
      BY <1>1, <2>4
    <3> QED
      BY <1>3, <2>1, <2>4, <3>1 DEF timer_alarm, L!Gap, PidOf
  <2>5. CASE line.kind = "DMX"
    BY <1>3, <2>1, <2>5 DEF timer_alarm, L!Gap, PidOf
  <2> QED
    BY <1>1, <2>2, <2>3, <2>4, <2>5 DEF Kinds
<1> QED
  BY <1>2, <1>3

\* dmx_send begins a packet on a line that is free, and late enough.
LEMMA StartIsBreak ==
  ASSUME Inv, Served, NEW t \in Tasks, SendStart(t)
  PROVE  L!Break
<1>0. TypeOK /\ DriverOK /\ WireOK /\ NoteOK /\ BufOK
  BY DEF Inv
<1>1. line.at = "MARK" /\ since >= timer_alarm
  BY <1>0 DEF SendStart, NoteOK, WireOK, Served
<1>2. request[t].header \in Kinds \ {"RESPONSE"}
  <2>1. request[t].header \in Kinds
    BY <1>0 DEF TypeOK
  <2>2. request[t].header # "RESPONSE"
    BY <1>0 DEF BufOK, SendStart, Tasks
  <2> QED
    BY <2>1, <2>2
<1>3. /\ dmx'.responder_sent_last = FALSE
      /\ dmx'.last_controller_pid = PidOf(request[t].header)
      /\ line'.kind = request[t].header
  BY <1>0 DEF SendStart, TypeOK, Dmx
<1>4. Heard' = "nothing"
  BY <1>3 DEF Heard, PidOf
<1>5. since >= L!Gap
  BY <1>0, <1>1, AlarmIsGap DEF TypeOK
<1> QED
  BY <1>1, <1>2, <1>4, <1>5 DEF L!Break, L!Kinds, Kinds, SendStart

\* What is known of the answer does not change with head and state of the driver.
LEMMA HeardSame ==
  ASSUME line'.kind = line.kind, dmx'.last_controller_pid = dmx.last_controller_pid,
         dmx'.responder_sent_last = dmx.responder_sent_last
  PROVE  Heard' = Heard
  BY DEF Heard

\* The break and the mark after it are timed, the slots shifted out, and the packet
\* ends when the last one has left.
LEMMA HardwareIsLine ==
  ASSUME Inv, Served, Served', Hardware
  PROVE  L!Promise \/ UNCHANGED <<line, since, Heard>>
<1>0. TypeOK /\ DriverOK /\ WireOK /\ ~uart.dry
  BY DEF Inv, Served
<1>t. dmx \in Dmx /\ line \in Line /\ uart \in Uart
  BY <1>0 DEF TypeOK
<1>1. CASE TimerBreak
  <2>1. line.at = "BREAK"
    BY <1>0, <1>1, <1>t DEF TimerBreak, WireOK, Line
  <2>2. Heard' = Heard
    BY <1>1, <1>t, HeardSame DEF TimerBreak, Dmx, Line
  <2> QED
    BY <1>1, <2>1, <2>2 DEF TimerBreak, L!Promise, L!MarkAfterBreak
<1>2. CASE TimerMab
  <2>1. line.at = "MAB"
    BY <1>0, <1>2, <1>t DEF TimerMab, WireOK, Line
  <2>2. Heard' = Heard
    BY <1>2, <1>t, HeardSame DEF TimerMab, Dmx, Line
  <2> QED
    BY <1>2, <2>1, <2>2 DEF TimerMab, L!Promise, L!Begin
<1>3. CASE TimerWake
  BY <1>3, HeardSame DEF TimerWake
<1>4. CASE Shift
  <2>1. /\ line.at = "DATA" /\ line.sent + uart.fifo <= SlotsOf(line.kind) /\ uart.fifo > 0
        /\ dmx.status = "SENDING"
    BY <1>0, <1>4, <1>t DEF Shift, WireOK, Line
  <2>2. line.sent < L!Length(line.kind)
    BY <1>t, <2>1, SendAssumption DEF L!Length, SlotsOf, Line, Uart
  <2>3. line' = [line EXCEPT !.sent = line.sent + 1] /\ line'.kind = line.kind
    <3>1. line' = [line EXCEPT !.sent = line.sent + 1, !.at = line.at]
      BY <1>4, <2>1 DEF Shift
    <3> QED
      BY <1>t, <3>1 DEF Line
  <2>4. Heard' = Heard
    BY <1>4, <2>3, HeardSame DEF Shift
  <2> QED
    BY <1>4, <2>1, <2>2, <2>3, <2>4 DEF Shift, L!Promise, L!Slot
<1>5. CASE UartData
  <2>1. Heard' = Heard
    BY <1>5, <1>t, HeardSame DEF UartData, Dmx
  <2> QED
    BY <1>5, <2>1 DEF UartData
<1>6. CASE UartDone
  <2>1. line.at = "DATA" /\ uart.fifo = 0 /\ dmx.head = dmx.size
    BY <1>0, <1>6 DEF UartDone, WireOK
  <2>2. line.sent = L!Length(line.kind)
    BY <1>0, <1>t, <2>1 DEF WireOK, Line, L!Length, SlotsOf
  <2>3. Heard' = Heard
    BY <1>6, <1>t, <2>1, HeardSame DEF UartDone, Dmx, Line
  <2> QED
    BY <1>6, <2>1, <2>2, <2>3 DEF UartDone, L!Promise, L!End
<1>7. CASE UartTurn
  <2>1. /\ dmx'.last_controller_pid = dmx.last_controller_pid
        /\ dmx'.responder_sent_last = dmx.responder_sent_last
    BY <1>7, <1>t DEF UartTurn, Dmx
  <2> QED
    BY <1>7, <2>1, HeardSame DEF UartTurn
<1>8. CASE Tick
  <2>1. Heard' = Heard
    BY <1>8, HeardSame DEF Tick
  <2> QED
    BY <1>8, <2>1 DEF Tick, L!Promise, L!Wait
<1> QED
  BY <1>1, <1>2, <1>3, <1>4, <1>5, <1>6, <1>7, <1>8 DEF Hardware

\* A task puts a packet on the line with dmx_send alone.
LEMMA CallIsLine ==
  ASSUME Inv, Served, NEW t \in Tasks, Call(t)
  PROVE  L!Promise \/ UNCHANGED <<line, since, Heard>>
<1>1. CASE SendStart(t)
  BY <1>1, StartIsBreak DEF L!Promise
<1>2. CASE ~SendStart(t)
  <2>1. UNCHANGED <<line, since, dmx>>
    BY <1>2 DEF Call, WriteCheck, WriteCopy, WaitEnter, WaitNoMux, WaitTakenLate,
       WaitNotified, WaitExpires, WaitReturns, SendTake, SendArm, SendAlarm
  <2> QED
    BY <2>1, HeardSame
<1> QED
  BY <1>1, <1>2

\* rdm_send_request and dmx_receive leave the line alone.
LEMMA RequestIsLine ==
  ASSUME Inv, NEW t \in RdmTasks, Request(t)
  PROVE  UNCHANGED <<line, since, Heard>>
<1>1. CASE RdmListen(t)
  BY <1>1, RdmListenFacts, HeardSame
<1>2. CASE RdmHeard(t)
  <2>1. /\ dmx'.last_controller_pid = dmx.last_controller_pid
        /\ dmx'.responder_sent_last = dmx.responder_sent_last
    BY <1>2 DEF RdmHeard, Inv, TypeOK, Dmx
  <2> QED
    BY <1>2, <2>1, HeardSame DEF RdmHeard
<1>3. CASE RdmTake(t) \/ RdmWrite(t) \/ RdmGive(t)
  <2>1. UNCHANGED <<line, since, dmx>>
    BY <1>3 DEF RdmTake, RdmWrite, RdmGive
  <2> QED
    BY <2>1, HeardSame
<1> QED
  BY <1>1, <1>2, <1>3 DEF Request

\* Something is received only while the line listens.
LEMMA ReceiveIsLine ==
  ASSUME Inv, Served, NEW t \in RdmTasks, Receive(t)
  PROVE  L!Promise \/ UNCHANGED <<line, since, Heard>>
<1>0. dmx \in Dmx /\ DriverOK /\ WireOK
  BY DEF Inv, TypeOK
<1>1. Receiving(t) /\ line' = line
  BY DEF Receive, RxAnswer, RxNoise
<1>2. L!Listens
  BY <1>0, <1>1 DEF Receiving, WireOK, Served, L!Listens
<1>3. CASE RxAnswer(t)
  <2>1. /\ dmx'.last_controller_pid = dmx.last_controller_pid
        /\ dmx'.responder_sent_last = TRUE /\ since' = since
    BY <1>0, <1>3 DEF RxAnswer, Dmx
  <2>2. Heard' = "answer" \/ Heard' = Heard
    BY <1>1, <2>1 DEF Heard
  <2> QED
    BY <1>1, <1>2, <2>1, <2>2 DEF L!Promise, L!Answer
<1>4. CASE RxNoise(t)
  <2>1. CASE /\ dmx'.last_controller_pid = dmx.last_controller_pid
             /\ dmx'.responder_sent_last = dmx.responder_sent_last
             /\ since' = since
    BY <1>1, <2>1, HeardSame
  <2>2. CASE dmx'.last_controller_pid = "0" /\ since' \in {since, 0}
    <3>1. Heard' = "noise"
      BY <1>1, <2>2 DEF Heard, Receiving
    <3> QED
      BY <1>1, <1>2, <2>2, <3>1 DEF L!Promise, L!Noise
  <2> QED
    BY <1>0, <1>4, <2>1, <2>2, RxNoiseFacts
<1> QED
  BY <1>3, <1>4 DEF Receive

\* Once the driver was served too late, that stays so.
LEMMA ServedBefore ==
  ASSUME CleanInv, [Next]_vars, Served'
  PROVE  Served
<1>1. stale = 0 /\ Inv
  BY StaleGrows DEF Served, CleanInv
<1>2. uart \in Uart /\ ~uart'.dry
  BY <1>1 DEF Inv, TypeOK, Served
<1>. SUFFICES ~uart.dry
  BY <1>1 DEF Served
<1>3. ASSUME NEW t \in Tasks, Call(t) PROVE ~uart.dry
  BY <1>2, <1>3 DEF Uart, turned_around, Call, WriteCheck, WriteCopy, WaitEnter, WaitNoMux,
     WaitTakenLate, WaitNotified, WaitExpires, WaitReturns, SendTake, SendArm, SendAlarm, SendStart
<1>4. ASSUME NEW t \in RdmTasks, Request(t) PROVE ~uart.dry
  BY <1>2, <1>4 DEF Uart, Request, RdmTake, RdmWrite, RdmGive, RdmListen, RdmHeard
<1>5. ASSUME NEW t \in RdmTasks, Receive(t) PROVE ~uart.dry
  BY <1>2, <1>5 DEF Receive, RxAnswer, RxNoise
<1>6. CASE Shift
  <2> DEFINE e == uart.raised \union (IF uart.fifo - 1 <= EMPTY_DEFAULT THEN {"TX_DATA"} ELSE {})
                      \union (IF uart.fifo = 1 THEN {"TX_DONE"} ELSE {})
             d == uart.dry \/ (uart.fifo = 1 /\ dmx.head < dmx.size)
  <2>1. uart' = [uart EXCEPT !.fifo = uart.fifo - 1, !.raised = e, !.dry = d]
    BY <1>6 DEF Shift
  <2>2. ~d => ~uart.dry
    OBVIOUS
  <2> HIDE DEF e, d
  <2>3. uart'.dry = d
    BY <1>2, <2>1 DEF Uart
  <2> QED
    BY <1>2, <2>2, <2>3, Zenon
<1>7. CASE Hardware /\ ~Shift
  <2>1. CASE TimerBreak \/ TimerWake \/ Tick
    BY <1>2, <2>1 DEF TimerBreak, TimerWake, Tick
  <2>2. CASE TimerMab
    BY <1>2, <2>2 DEF TimerMab, Uart
  <2>3. CASE UartData
    BY <1>2, <2>3 DEF UartData, Uart
  <2>4. CASE UartDone
    BY <1>2, <2>4 DEF UartDone, Uart
  <2>5. CASE UartTurn
    BY <1>2, <2>5 DEF UartTurn, Uart
  <2> QED
    BY <1>7, <2>1, <2>2, <2>3, <2>4, <2>5 DEF Hardware
<1>8. CASE UNCHANGED vars
  BY <1>2, <1>8 DEF vars
<1> QED
  BY <1>3, <1>4, <1>5, <1>6, <1>7, <1>8 DEF Next

\* The transmit path implements DmxLine for every number of tasks, all lengths and all
\* distances, and whatever answers are garbled: as long as no wait ends late and the FIFO
\* does not run dry, no packet is begun on a busy line, cut short, or sent too soon after
\* another.
THEOREM SendImplementsLine == Spec => ImplementsDmxLine
<1>1. Init => L!Init
  BY DEF Init, L!Init, Served, Heard
<1>2. CleanInv /\ [Next]_vars => [L!Next]_(L!vars)
  <2> SUFFICES ASSUME CleanInv, [Next]_vars PROVE L!Next \/ UNCHANGED L!vars
    OBVIOUS
  <2>1. CASE ~Served'
    BY <2>1 DEF L!Next
  <2>2. CASE Served'
    <3>1. Served
      BY <2>2, ServedBefore
    <3>2. Inv
      BY <3>1 DEF CleanInv, Served
    <3>3. CASE UNCHANGED vars
      <4>1. UNCHANGED <<line, since, dmx>>
        BY <3>3 DEF vars
      <4> QED
        BY <2>2, <3>1, <4>1, HeardSame DEF L!vars
    <3>4. CASE Next
      <4>1. L!Promise \/ UNCHANGED <<line, since, Heard>>
        <5>1. CASE UNCHANGED vars
          <6>1. UNCHANGED <<line, since, dmx>>
            BY <5>1 DEF vars
          <6> QED
            BY <6>1, HeardSame
        <5>2. CASE ~UNCHANGED vars
          BY <2>2, <3>1, <3>2, <3>4, <5>2, CallIsLine, RequestIsLine, ReceiveIsLine,
             HardwareIsLine DEF Next
        <5> QED
          BY <5>1, <5>2
      <4> QED
        BY <2>2, <3>1, <4>1 DEF L!Next, L!vars
    <3> QED
      BY <3>3, <3>4
  <2> QED
    BY <2>1, <2>2
<1> QED
  BY <1>1, <1>2, CleanInvariant, PTL DEF Spec, L!Spec, ImplementsDmxLine
=============================================================================
