------------------------------ MODULE DmxSend -------------------------------
(***************************************************************************)
(* The transmit path of lib/esp_dmx: dmx_write, dmx_send and dmx_wait_sent *)
(* (dmx/io.c), the timer interrupt that times break and mark-after-break   *)
(* (dmx/hal/timer.c) and the transmit half of the UART interrupt           *)
(* (dmx/hal/uart.c), called by sendDMX of src/main.cpp and by tasks that   *)
(* make RDM requests (rdm_send_request of rdm/controller/utils.c).         *)
(*                                                                         *)
(* Steps of a task are its critical sections and the points at which it    *)
(* blocks; an interrupt is one step.  place[t] is where the caller stands, *)
(* inner[t] where the library call it is in stands.  The contents of the   *)
(* buffer are its kind of packet.  The answer to a request arrives in one  *)
(* step; how packets are received slot by slot is in DmxReceive.           *)
(***************************************************************************)
EXTENDS Integers, FiniteSets

CONSTANTS
  Loop,            \* the task that runs sendDMX
  RdmTasks,        \* tasks that run rdm_send_request
  None,            \* no task
  Requests,        \* subset of {"BCAST", "DUB", "GET"}: the requests they make
  DmxSlots, RdmSlots,  \* length of a DMX frame (513) and of a request
  FIFO_LEN,        \* UART_LL_FIFO length (128)
  EMPTY_DEFAULT,   \* DMX_UART_EMPTY_DEFAULT (8)
  BREAK_LEN, MAB_LEN,
  REQUEST_TO_REQUEST_MIN, RESPONSE_LOST_MIN, DISCOVERY_TO_REQUEST_MIN,
  DISCOVERY_TRANSACTION_MIN, REQUEST_TO_RESPONSE_MAX,
  MaxSince,        \* bound: the age of the last packet is counted up to this
  MaxStale         \* bound: behaviours end when more than this went wrong: notifications or
                   \* levels of the mutex left behind, what came of them (see stale), and the
                   \* FIFO run dry

Tasks == {Loop} \union RdmTasks

ASSUME SendAssumption ==
  /\ None \notin Tasks
  /\ Loop \notin RdmTasks
  /\ Requests \subseteq {"BCAST", "DUB", "GET"}
  /\ {DmxSlots, RdmSlots, FIFO_LEN, BREAK_LEN, MAB_LEN} \subseteq Nat \ {0}
  /\ EMPTY_DEFAULT \in 1 .. FIFO_LEN - 1
  /\ {REQUEST_TO_REQUEST_MIN, RESPONSE_LOST_MIN, DISCOVERY_TO_REQUEST_MIN,
      DISCOVERY_TRANSACTION_MIN, REQUEST_TO_RESPONSE_MAX} \subseteq 1 .. MaxSince
  /\ MaxSince \in Nat
  /\ MaxStale \in Nat

VARIABLES
  dmx,       \* driver->dmx: head, size, status, progress and what was sent last
  data,      \* driver->dmx.data: the kind of packet in the buffer
  uart,      \* rts, slots in the transmit FIFO, interrupts enabled and raised; whether the
             \* interrupt is between its notification and its turn-around; and a history:
             \* did the FIFO ever run dry with slots of the packet left to write?
  timer,     \* the hardware timer: running, and time left to the alarm
  line,      \* what is on the wire: break, mark after break or slots of a packet
  since,     \* time since controller_eop_timestamp
  mux,       \* the recursive mutex: owner and depth
  waiting,   \* driver->task_waiting
  note,      \* tasks with a pending notification
  place, inner,
  request,   \* what rdm_send_request of each task asks, the data it saved, the header that
             \* dmx_send read
  stale      \* history: notifications that met nobody waiting, and levels of the mutex, left
             \* behind by a wait that had ended; then, packets that dmx_receive cut in on

callVars == <<place, inner, request>>
vars == <<dmx, data, uart, timer, line, since, mux, waiting, note, callVars, stale>>

Kinds == {"DMX", "BCAST", "DUB", "GET", "RESPONSE"}
Pids == {"0", "DISC_UNIQUE_BRANCH", "OTHER"}
PidOf(kind) == CASE kind = "DUB" -> "DISC_UNIQUE_BRANCH"
                 [] kind \in {"BCAST", "GET", "RESPONSE"} -> "OTHER"
                 [] OTHER -> "0"
SlotsOf(kind) == IF kind = "DMX" THEN DmxSlots ELSE RdmSlots

Dmx == [head : Int, size : Nat, status : {"IDLE", "RECEIVING", "SENDING"},
        progress : {"STALE", "IN_BREAK", "IN_MAB", "IN_DATA", "COMPLETE"},
        last_controller_pid : Pids, responder_sent_last : BOOLEAN,
        last_request_was_broadcast : BOOLEAN]
TxInts == {"TX_DATA", "TX_DONE"}
Uart == [rts : {0, 1}, fifo : 0 .. FIFO_LEN, enabled : SUBSET TxInts, raised : SUBSET TxInts,
         turning : BOOLEAN, dry : BOOLEAN]
Line == [at : {"MARK", "BREAK", "MAB", "DATA"}, kind : Kinds, sent : Nat]
LoopPlaces == {"write", "send", "wait"}
RdmPlaces == {"take", "first", "rdm_write", "rdm_send", "done", "sent", "listen", "restore",
              "give"}
Inner == {"call", "copy", "wait_sent", "blocked", "ok", "failed", "arm", "alarm", "start",
          "listening"}

TypeOK ==
  /\ dmx \in Dmx
  /\ data \in Kinds
  /\ uart \in Uart
  /\ timer \in [on : BOOLEAN, left : Nat]
  /\ line \in Line
  /\ since \in 0 .. MaxSince
  /\ mux \in [owner : Tasks \union {None}, depth : Nat]
  /\ (mux.owner = None) <=> (mux.depth = 0)
  /\ waiting \in Tasks \union {None}
  /\ note \subseteq Tasks
  /\ place \in [Tasks -> LoopPlaces \union RdmPlaces]
  /\ inner \in [Tasks -> Inner]
  /\ request \in [Tasks -> [kind : Kinds, old : Kinds, header : Kinds]]
  /\ stale \in 0 .. MaxStale + 1

\* dmx_driver_install: the port is idle and listens.
Init ==
  /\ dmx = [head |-> -1, size |-> DmxSlots, status |-> "IDLE", progress |-> "STALE",
            last_controller_pid |-> "0", responder_sent_last |-> FALSE,
            last_request_was_broadcast |-> FALSE]
  /\ data = "DMX"
  /\ uart = [rts |-> 1, fifo |-> 0, enabled |-> {}, raised |-> {},
             turning |-> FALSE, dry |-> FALSE]
  /\ timer = [on |-> FALSE, left |-> 0]
  /\ line = [at |-> "MARK", kind |-> "DMX", sent |-> 0]
  /\ since = 0
  /\ mux = [owner |-> None, depth |-> 0]
  /\ waiting = None
  /\ note = {}
  /\ place = [t \in Tasks |-> IF t = Loop THEN "write" ELSE "take"]
  /\ inner = [t \in Tasks |-> "call"]
  /\ request = [t \in Tasks |-> [kind |-> "DMX", old |-> "DMX", header |-> "DMX"]]
  /\ stale = 0

-----------------------------------------------------------------------------
(* The recursive mutex and the callers.                                    *)

Free(t) == mux.owner \in {None, t}
Taken(t) == [owner |-> t, depth |-> mux.depth + 1]
Given == [owner |-> IF mux.depth = 1 THEN None ELSE mux.owner, depth |-> mux.depth - 1]

\* sendDMX: write, send, wait; results are ignored.
sendDMX(p) == CASE p = "write" -> "send" [] p = "send" -> "wait" [] p = "wait" -> "write"

\* mutant: the mutex is given back before the old data
rdm_send_requestGivesFirst(p, kind, ok) ==
  CASE p = "take" -> "first"
    [] p = "first" -> IF ok THEN "rdm_write" ELSE "give"
    [] p = "rdm_write" -> "rdm_send"
    [] p = "rdm_send" -> IF ok /\ kind # "BCAST" THEN "sent" ELSE "give"
    [] p = "sent" -> IF ok THEN "listen" ELSE "give"
    [] p \in {"done", "listen"} -> "give"
    [] p = "restore" -> "take"
    [] p = "give" -> "restore"

\* rdm_send_request: what follows a call that returned ok.
rdm_send_request(p, kind, ok) ==
  CASE p = "take" -> "first"
    [] p = "first" -> IF ok THEN "rdm_write" ELSE "give"
    [] p = "rdm_write" -> "rdm_send"
    [] p = "rdm_send" -> IF ~ok THEN "restore" ELSE IF kind = "BCAST" THEN "done" ELSE "sent"
    [] p = "sent" -> IF ok THEN "listen" ELSE "restore"
    [] p \in {"done", "listen"} -> "restore"
    [] p = "restore" -> "give"
    [] p = "give" -> "take"

Return(t, ok) ==
  /\ place' = [place EXCEPT ![t] = IF t = Loop THEN sendDMX(@)
                                   ELSE rdm_send_request(@, request[t].kind, ok)]
  /\ inner' = [inner EXCEPT ![t] = "call"]

GoTo(t, i) == inner' = [inner EXCEPT ![t] = i] /\ UNCHANGED place

\* rdm_send_request takes the mutex without a limit ...
RdmTake(t) ==
  /\ place[t] = "take" /\ Free(t)
  /\ mux' = Taken(t)
  /\ \E k \in Requests : request' = [request EXCEPT ![t].kind = k]
  /\ Return(t, TRUE)
  /\ UNCHANGED <<dmx, data, uart, timer, line, since, waiting, note, stale>>

\* ... saves the buffer and writes the request over it ...
RdmWrite(t) ==
  /\ place[t] = "rdm_write"
  /\ request' = [request EXCEPT ![t].old = data]
  /\ data' = request[t].kind
  /\ Return(t, TRUE)
  /\ UNCHANGED <<dmx, uart, timer, line, since, mux, waiting, note, stale>>

\* ... and gives the mutex back; its variables end with it.
RdmGive(t) ==
  /\ place[t] = "give"
  /\ mux' = Given
  /\ request' = [request EXCEPT ![t] = [kind |-> "DMX", old |-> "DMX", header |-> "DMX"]]
  /\ Return(t, TRUE)
  /\ UNCHANGED <<dmx, data, uart, timer, line, since, waiting, note, stale>>

\* dmx_receive of the answer, after its dmx_wait_sent (place "sent").  It turns the bus
\* around unless the interrupt did, and waits with an alarm; or returns at once with what
\* has arrived, or because it is too late, and then it stays registered.
RdmListen(t) ==
  LET tuned == IF uart.rts = 0 THEN [dmx EXCEPT !.progress = "STALE", !.head = -1] ELSE dmx IN
  /\ place[t] = "listen" /\ inner[t] = "call"
  /\ note' = IF uart.rts = 0 THEN note \ {t} ELSE note
  /\ uart' = [uart EXCEPT !.rts = 1]
  /\ \/ /\ tuned.progress = "COMPLETE"
        /\ dmx' = [tuned EXCEPT !.progress = "STALE"]
        /\ Return(t, TRUE)
        /\ UNCHANGED <<timer, mux, waiting>>
     \/ /\ tuned.progress # "COMPLETE" /\ since > REQUEST_TO_RESPONSE_MAX
        /\ dmx' = tuned
        /\ waiting' = t
        /\ Return(t, TRUE)
        /\ UNCHANGED <<timer, mux>>
     \/ /\ tuned.progress # "COMPLETE" /\ since <= REQUEST_TO_RESPONSE_MAX
        /\ dmx' = tuned
        /\ waiting' = t
        /\ timer' = [on |-> TRUE, left |-> REQUEST_TO_RESPONSE_MAX - since]
        /\ mux' = Taken(t)
        /\ GoTo(t, "listening")
  /\ stale' = IF stale > 0 /\ dmx.status = "SENDING" THEN stale + 1 ELSE stale
  /\ UNCHANGED <<data, line, since, request>>

\* The packet or the alarm ends the wait.
RdmHeard(t) ==
  /\ inner[t] = "listening" /\ t \in note
  /\ note' = note \ {t}
  /\ waiting' = None
  /\ dmx' = [dmx EXCEPT !.progress = "STALE"]
  /\ mux' = Given
  /\ Return(t, TRUE)
  /\ UNCHANGED <<data, uart, timer, line, since, request, stale>>

-----------------------------------------------------------------------------
(* dmx_write                                                               *)

Writes(t) == place[t] \in {"write", "restore"}
Source(t) == IF t = Loop THEN "DMX" ELSE request[t].old

\* Writes are refused while an RDM packet is being sent.
Refused == dmx.status = "SENDING" /\ data # "DMX"

WriteCheck(t) ==
  /\ Writes(t) /\ inner[t] = "call"
  /\ IF Refused THEN Return(t, FALSE) ELSE GoTo(t, "copy")
  /\ UNCHANGED <<dmx, data, uart, timer, line, since, mux, waiting, note, request, stale>>

WriteCopy(t) ==
  /\ Writes(t) /\ inner[t] = "copy"
  /\ data' = Source(t)
  /\ uart' = [uart EXCEPT !.rts = 0]
  /\ Return(t, TRUE)
  /\ UNCHANGED <<dmx, timer, line, since, mux, waiting, note, request, stale>>

-----------------------------------------------------------------------------
(* dmx_wait_sent, called by itself, by dmx_send and by dmx_receive         *)

Sends(t) == place[t] \in {"send", "rdm_send"}
Waits(t) == place[t] \in {"wait", "first", "done", "sent"}
Waiting(t) == (Waits(t) /\ inner[t] = "call") \/ (Sends(t) /\ inner[t] = "wait_sent")

\* The end of dmx_wait_sent: back to its caller, or on with dmx_send.
WaitOver(t, ok) ==
  IF Sends(t) THEN IF ok THEN GoTo(t, "arm") ELSE Return(t, FALSE)
              ELSE Return(t, ok)
\* mutant: dmx_send keeps its own level when the wait failed
GivenOnce(t, ok) == Given

\* dmx_send gives its own level of the mutex back when the wait failed.
GivenAfter(t, ok) == IF Sends(t) /\ ~ok
                     THEN [owner |-> IF mux.depth = 2 THEN None ELSE mux.owner, depth |-> mux.depth - 2]
                     ELSE Given

\* mutant: the status is not looked at
StillSendingNever == FALSE

StillSending == dmx.status = "SENDING"

\* The mutex is there: return at once, or register and block.
WaitEnter(t) ==
  /\ Waiting(t) /\ Free(t)
  /\ IF StillSending
     THEN /\ mux' = Taken(t) /\ waiting' = t /\ GoTo(t, "blocked")
     ELSE /\ WaitOver(t, TRUE) /\ UNCHANGED <<mux, waiting>>
  /\ UNCHANGED <<dmx, data, uart, timer, line, since, note, request, stale>>

\* The wait for the mutex runs out ...
WaitNoMux(t) ==
  /\ Waiting(t) /\ ~Free(t)
  /\ WaitOver(t, FALSE)
  /\ UNCHANGED <<dmx, data, uart, timer, line, since, mux, waiting, note, request, stale>>

\* ... or the mutex is got in the tick in which the time is up: it is not given back.
WaitTakenLate(t) ==
  /\ Waits(t) /\ inner[t] = "call" /\ mux.owner = None
  /\ mux' = Taken(t)
  /\ stale' = stale + 1
  /\ Return(t, FALSE)
  /\ UNCHANGED <<dmx, data, uart, timer, line, since, waiting, note, request>>

\* xTaskNotifyWait returns with a notification ...
WaitNotified(t) ==
  /\ inner[t] = "blocked" /\ t \in note
  /\ note' = note \ {t}
  /\ GoTo(t, "ok")
  /\ UNCHANGED <<dmx, data, uart, timer, line, since, mux, waiting, request, stale>>

\* ... or without one.  Only a DMX frame lasts as long as the waits do.
WaitExpires(t) ==
  /\ inner[t] = "blocked" /\ t \notin note
  /\ line.kind = "DMX"
  /\ GoTo(t, "failed")
  /\ UNCHANGED <<dmx, data, uart, timer, line, since, mux, waiting, note, request, stale>>

WaitReturns(t) ==
  /\ inner[t] \in {"ok", "failed"}
  /\ waiting' = None
  /\ mux' = GivenAfter(t, inner[t] = "ok")
  /\ WaitOver(t, inner[t] = "ok")
  /\ UNCHANGED <<dmx, data, uart, timer, line, since, note, request, stale>>

-----------------------------------------------------------------------------
(* dmx_send                                                                *)

\* The mutex is tried once.
SendTake(t) ==
  /\ Sends(t) /\ inner[t] = "call"
  /\ IF Free(t) THEN mux' = Taken(t) /\ GoTo(t, "wait_sent")
                ELSE UNCHANGED mux /\ Return(t, FALSE)
  /\ UNCHANGED <<dmx, data, uart, timer, line, since, waiting, note, request, stale>>

\* The least time between the last packet of the controller and the next one.
timer_alarm ==
  IF dmx.last_controller_pid # "DISC_UNIQUE_BRANCH"
  THEN IF dmx.responder_sent_last \/ dmx.last_controller_pid = "0"
            \/ dmx.last_request_was_broadcast
       THEN REQUEST_TO_REQUEST_MIN ELSE RESPONSE_LOST_MIN
  ELSE IF dmx.responder_sent_last THEN DISCOVERY_TRANSACTION_MIN
       ELSE DISCOVERY_TO_REQUEST_MIN

\* The header is read, and the alarm set when the line needs more time.
SendArm(t) ==
  /\ Sends(t) /\ inner[t] = "arm"
  /\ request' = [request EXCEPT ![t].header = data]
  /\ IF since < timer_alarm
     THEN /\ timer' = [on |-> TRUE, left |-> timer_alarm - since]
          /\ waiting' = t
          /\ GoTo(t, "alarm")
     ELSE /\ GoTo(t, "start") /\ UNCHANGED <<timer, waiting>>
  /\ UNCHANGED <<dmx, data, uart, line, since, mux, note, stale>>

SendAlarm(t) ==
  /\ inner[t] = "alarm" /\ t \in note
  /\ note' = note \ {t}
  /\ waiting' = None
  /\ GoTo(t, "start")
  /\ UNCHANGED <<dmx, data, uart, timer, line, since, mux, request, stale>>

\* mutant: the bus is left as it was
turned_aroundNot == uart

turned_around == [uart EXCEPT !.rts = 0]

\* The bus is turned around, the packet recorded and its break begun.
SendStart(t) ==
  LET kind == request[t].header IN
  /\ Sends(t) /\ inner[t] = "start"
  /\ uart' = turned_around
  /\ dmx' = [dmx EXCEPT !.size = SlotsOf(kind), !.head = 0,
               !.progress = "IN_BREAK", !.status = "SENDING",
               !.last_controller_pid = PidOf(kind),
               !.last_request_was_broadcast = (kind \in {"BCAST", "DUB"}),
               !.responder_sent_last = FALSE]
  /\ timer' = [on |-> TRUE, left |-> BREAK_LEN]
  /\ line' = [at |-> "BREAK", kind |-> kind, sent |-> 0]
  /\ mux' = Given
  /\ Return(t, TRUE)
  /\ UNCHANGED <<data, since, waiting, note, request, stale>>

-----------------------------------------------------------------------------
(* Interrupts and hardware                                                 *)

\* mutant: nobody is told
NotifyNobody == note' = note /\ stale' = stale

\* xTaskNotifyFromISR to whoever is registered.
Notify ==
  /\ note' = IF waiting = None THEN note ELSE note \union {waiting}
  /\ stale' = IF waiting # None /\ inner[waiting] \notin {"blocked", "alarm", "listening"}
              THEN stale + 1 ELSE stale

\* mutant: the room in the FIFO is not asked for
FillUnbounded(have, want) == want

Fill(have, want) == IF want > FIFO_LEN - have THEN FIFO_LEN - have ELSE want

\* dmx_timer_isr
TimerBreak ==
  /\ timer.on /\ timer.left = 0
  /\ dmx.status = "SENDING" /\ dmx.progress = "IN_BREAK"
  /\ dmx' = [dmx EXCEPT !.progress = "IN_MAB"]
  /\ timer' = [timer EXCEPT !.left = MAB_LEN]
  /\ line' = [line EXCEPT !.at = "MAB"]
  /\ UNCHANGED <<data, uart, since, mux, waiting, note, callVars, stale>>

TimerMab ==
  /\ timer.on /\ timer.left = 0
  /\ dmx.status = "SENDING" /\ dmx.progress # "IN_BREAK"
  /\ LET n == Fill(uart.fifo, dmx.size) IN
     /\ dmx' = [dmx EXCEPT !.head = n]
     /\ uart' = [uart EXCEPT !.fifo = @ + n, !.enabled = TxInts]
  /\ timer' = [timer EXCEPT !.on = FALSE]
  /\ line' = [line EXCEPT !.at = "DATA"]
  /\ UNCHANGED <<data, since, mux, waiting, note, callVars, stale>>

TimerWake ==
  /\ timer.on /\ timer.left = 0
  /\ dmx.status # "SENDING"
  /\ Notify
  /\ timer' = [timer EXCEPT !.on = FALSE]
  /\ UNCHANGED <<dmx, data, uart, line, since, mux, waiting, callVars>>

\* The UART shifts one slot out, and out of the line's sight during a break; it raises
\* TX_DATA when the FIFO runs low and TX_DONE when it is empty.  Nothing makes the
\* interrupt refill the FIFO before that.  What is left in it after TX_DONE goes out too.
Shift ==
  /\ uart.fifo > 0
  /\ uart' = [uart EXCEPT !.fifo = @ - 1,
                !.raised = @ \union (IF uart.fifo - 1 <= EMPTY_DEFAULT THEN {"TX_DATA"} ELSE {})
                             \union (IF uart.fifo = 1 THEN {"TX_DONE"} ELSE {}),
                !.dry = @ \/ (uart.fifo = 1 /\ dmx.head < dmx.size)]
  /\ line' = IF line.at # "DATA" THEN line
             ELSE [line EXCEPT !.sent = @ + 1,
                     !.at = IF uart.fifo = 1 /\ dmx.status # "SENDING" THEN "MARK" ELSE @]
  /\ UNCHANGED <<dmx, data, timer, since, mux, waiting, note, callVars, stale>>

\* mutant: both transmit interrupts are disabled
WrittenAll == {}

\* All is written: the FIFO may run empty.
Written == uart.enabled \ {"TX_DATA"}

\* dmx_uart_isr, DMX_INTR_TX_DATA: TX_DATA comes before TX_DONE.
UartData ==
  /\ "TX_DATA" \in uart.raised \intersect uart.enabled
  /\ LET n == Fill(uart.fifo, dmx.size - dmx.head)
         all == dmx.head + n = dmx.size IN
     /\ dmx' = [dmx EXCEPT !.head = @ + n]
     /\ uart' = [uart EXCEPT !.fifo = @ + n, !.raised = @ \ {"TX_DATA"},
                   !.enabled = IF all THEN Written ELSE @]
  /\ UNCHANGED <<data, timer, line, since, mux, waiting, note, callVars, stale>>

\* A request that is answered turns the bus around.
AnswerExpected ==
  /\ dmx.last_controller_pid # "0"
  /\ dmx.last_request_was_broadcast => dmx.last_controller_pid = "DISC_UNIQUE_BRANCH"

\* dmx_uart_isr, DMX_INTR_TX_DONE: the time of the end, the status and the notification ...
UartDone ==
  /\ "TX_DONE" \in uart.raised \intersect uart.enabled
  /\ "TX_DATA" \notin uart.raised \intersect uart.enabled
  /\ since' = 0
  /\ Notify
  /\ line' = IF uart.fifo = 0 THEN [line EXCEPT !.at = "MARK"] ELSE line
  /\ uart' = [uart EXCEPT !.enabled = {}, !.raised = @ \ {"TX_DONE"}, !.turning = TRUE]
  /\ dmx' = [dmx EXCEPT !.status = "IDLE", !.progress = "COMPLETE"]
  /\ UNCHANGED <<data, timer, mux, waiting, callVars>>

\* ... and, outside of that critical section, whether to turn the bus around for an answer.
UartTurn ==
  LET branch == dmx.last_controller_pid = "DISC_UNIQUE_BRANCH" IN
  /\ uart.turning
  /\ uart' = [uart EXCEPT !.turning = FALSE, !.rts = IF AnswerExpected THEN 1 ELSE @]
  /\ dmx' = IF AnswerExpected
            THEN [dmx EXCEPT !.progress = IF branch THEN "IN_DATA" ELSE "STALE",
                             !.head = IF branch THEN 0 ELSE -1]
            ELSE dmx
  /\ UNCHANGED <<data, timer, line, since, mux, waiting, note, callVars, stale>>

-----------------------------------------------------------------------------
(* What the interrupt receives while an answer is due: responders speak    *)
(* only when they are asked, but several may at once.                      *)

Receiving(t) ==
  /\ place[t] \in {"sent", "listen"} /\ line.kind \in {"DUB", "GET"}
  /\ uart.rts = 1 /\ ~uart.turning /\ dmx.status # "SENDING"
  /\ IF line.kind = "DUB" THEN dmx.progress = "IN_DATA" ELSE dmx.progress # "COMPLETE"

\* dmx_timer_stop, and the waiting task is told.
PacketComplete == timer' = [on |-> FALSE, left |-> 0] /\ Notify

RxAnswer(t) ==
  /\ Receiving(t) /\ since < REQUEST_TO_RESPONSE_MAX
  /\ dmx' = [dmx EXCEPT !.responder_sent_last = TRUE, !.progress = "COMPLETE"]
  /\ data' = "RESPONSE"
  /\ PacketComplete
  /\ UNCHANGED <<uart, line, since, mux, waiting, callVars>>

\* A packet that is no RDM is taken for a DMX frame of a controller.
NotRdm == [dmx EXCEPT !.responder_sent_last = FALSE, !.last_controller_pid = "0"]

\* A garbled answer ends the packet with a slot error, or it is not RDM: that one may take
\* the time of the end with it, and end the packet or not.
RxNoise(t) ==
  /\ Receiving(t)
  /\ data' = "RESPONSE"
  /\ \/ /\ dmx' = [dmx EXCEPT !.progress = "COMPLETE"]
        /\ UNCHANGED since
        /\ PacketComplete
     \/ /\ dmx' = [NotRdm EXCEPT !.progress = "COMPLETE"]
        /\ since' \in {since, 0}
        /\ PacketComplete
     \/ /\ dmx' = NotRdm
        /\ since' \in {since, 0}
        /\ UNCHANGED <<timer, note, stale>>
  /\ UNCHANGED <<uart, line, mux, waiting, callVars>>

\* Time passes; an alarm that is due comes first, and an interrupt that has begun ends
\* (the shortest distance between two packets is 176 microseconds).
Tick ==
  /\ timer.on => timer.left > 0
  /\ ~uart.turning
  /\ since' = IF since < MaxSince THEN since + 1 ELSE since
  /\ timer' = IF timer.on THEN [timer EXCEPT !.left = @ - 1] ELSE timer
  /\ UNCHANGED <<dmx, data, uart, line, mux, waiting, note, callVars, stale>>

Call(t) ==
  \/ WriteCheck(t) \/ WriteCopy(t)
  \/ WaitEnter(t) \/ WaitNoMux(t) \/ WaitTakenLate(t)
  \/ WaitNotified(t) \/ WaitExpires(t) \/ WaitReturns(t)
  \/ SendTake(t) \/ SendArm(t) \/ SendAlarm(t) \/ SendStart(t)
Request(t) ==
  \/ RdmTake(t) \/ RdmWrite(t) \/ RdmGive(t)
  \/ RdmListen(t) \/ RdmHeard(t)
Hardware ==
  \/ TimerBreak \/ TimerMab \/ TimerWake \/ Shift \/ UartData \/ UartDone \/ UartTurn \/ Tick
Receive(t) == RxAnswer(t) \/ RxNoise(t)

\* The bound on what goes wrong: a behaviour in which more did is not followed.
Halted == stale + (IF uart.dry THEN 1 ELSE 0) > MaxStale

Next ==
  \/ \E t \in Tasks : ~Halted /\ Call(t)
  \/ \E t \in RdmTasks : ~Halted /\ (Request(t) \/ Receive(t))
  \/ ~Halted /\ Hardware
  \/ Halted /\ UNCHANGED vars

Spec == Init /\ [][Next]_vars

\* Interrupts come, time passes, and the loop task runs.  Nothing is asked of the others:
\* they may stop anywhere, also with the mutex in their hands, and nobody has to answer.
FairSpec == Spec /\ WF_vars(~Halted /\ Hardware) /\ WF_vars(~Halted /\ Call(Loop))

-----------------------------------------------------------------------------
(* Properties                                                              *)

\* Up to the first notification or level of the mutex that is left behind, and the first
\* time that the interrupt comes too late for the FIFO.
Served == stale = 0 /\ ~uart.dry

\* What the driver knows of the answer to the last request.
Heard == IF line.kind \in {"DUB", "GET"} /\ dmx.last_controller_pid = "0" THEN "noise"
         ELSE IF dmx.responder_sent_last THEN "answer" ELSE "nothing"

\* The transmit path implements DmxLine: no packet is started while another one is on the
\* wire, none is cut short, and each keeps its distance to the one before; after an answer
\* that was not understood, the distance of a DMX frame.  DmxLine promises nothing more
\* once a notification was left behind (the next wait returns at once, inside a packet or
\* a distance) or the FIFO ran dry (TX_DONE ends the packet early, and is raised again by
\* what is left in the FIFO, so that it ends the next one too).
L == INSTANCE DmxLine WITH heard <- Heard, served <- Served
ImplementsDmxLine == L!Spec

\* The transceiver drives the line from the first moment of the break to the last
\* slot: dmx_write, dmx_receive and the turn-around of TX_DONE never take it away, unless
\* TX_DONE came early because the FIFO ran dry.
Driving == line.at # "MARK" => uart.rts = 0 \/ uart.dry

\* rdm_send_request borrows the buffer: sendDMX, which ignores whether its dmx_write
\* was refused, still never sends a request or an answer that another task left there.
LoopSendsDmx == inner[Loop] = "start" => request[Loop].header = "DMX"

\* The sending half of the driver as a whole, until something is left behind: types, who
\* drives the line, and what sendDMX finds in the buffer it shares with rdm_send_request.
SendInv == stale = 0 => TypeOK /\ Driving /\ LoopSendsDmx

\* The nested takes and gives of dmx_send and dmx_wait_sent balance on every path:
\* sendDMX holds nothing between its calls, and a request holds exactly its own level.
\* One path does not balance, a take in the tick in which its time is up (WaitTakenLate):
\* it counts as stale.
MuxBalanced ==
  stale = 0 =>
    \A t \in Tasks : inner[t] = "call" =>
      IF t = Loop \/ place[t] = "take" THEN mux.owner # t
      ELSE mux = [owner |-> t, depth |-> 1]

\* sendDMX returns: no wait of loop() lasts for ever, whatever other tasks request, also
\* with a notification left behind and after the FIFO ran dry.
LoopTurns == []<>(place[Loop] = "write" \/ Halted)

=============================================================================
