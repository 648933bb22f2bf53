----------------------------- MODULE DmxReceive -----------------------------
(***************************************************************************)
(* The receive path of lib/esp_dmx: the receive half of the UART interrupt *)
(* (dmx/hal/uart.c), dmx_receive_num (dmx/io.c), the alarm of the          *)
(* controller (dmx/hal/timer.c) and dmx_driver_disable and _enable.        *)
(*                                                                         *)
(* One task receives; the line sends breaks, slots and errors.  A packet   *)
(* is its kind and the number of its slots; what the interrupt reads of it *)
(* is where it ends.  The interrupt comes before the first slot after a    *)
(* break, and may be late for any other slot.  Transmitting is in DmxSend; *)
(* here it is what it leaves behind (Transmit).                            *)
(***************************************************************************)
EXTENDS Integers, FiniteSets

CONSTANTS
  DMX_PACKET_SIZE_MAX,  \* slots in the buffer (513)
  HEADER,               \* slots that tell an RDM packet (26)
  RDM_LEN, DISC_LEN,    \* slots of an RDM packet and of a discovery response
  RXFIFO,               \* slots in the receive FIFO (128)
  Sizes,                \* sizes that dmx_receive_num is asked for
  Lengths,              \* numbers of slots of DMX packets on the line
  RdmKinds,             \* subset of RdmKind: what else is on the line
  MaxStale              \* bound: behaviours end when more notifications came too late

\* RDM requests and responses, discovery responses, and what only begins like RDM
RdmKind == {"RDM", "DISC", "BAD"}

ASSUME ReceiveAssumption ==
  /\ {DMX_PACKET_SIZE_MAX, HEADER, RDM_LEN, DISC_LEN, RXFIFO} \subseteq Nat \ {0}
  /\ HEADER <= RDM_LEN /\ RDM_LEN <= DMX_PACKET_SIZE_MAX /\ DISC_LEN <= DMX_PACKET_SIZE_MAX
  /\ Sizes \subseteq 1 .. DMX_PACKET_SIZE_MAX
  /\ Lengths \subseteq Nat
  /\ RdmKinds \subseteq RdmKind
  /\ MaxStale \in Nat

VARIABLES
  dmx,        \* driver->dmx, the flags is_controller and is_enabled
  buf,        \* kind of the packet whose start code is in data[0]
  uart,       \* rts, slots in the receive FIFO, interrupts raised
  armed,      \* is the hardware timer running?
  line,       \* the packet on the line and its slots to come
  waiting,    \* driver->task_waiting is the receiving task
  note,       \* its pending notification: "NONE" or an error code
  task,       \* where dmx_receive_num stands, its arguments and what it read
  heard,      \* history: slots of the packet in the buffer, complete?, handed out?
  stale       \* history: how often a notification came after the wait had ended

vars == <<dmx, buf, uart, armed, line, waiting, note, task, heard, stale>>

Kinds == {"DMX"} \union RdmKind
RxInts == {"DATA", "BREAK", "OVERFLOW", "FRAMING"}
\* OK_ALARM is DMX_OK as well; the model tells who sent it.
Errs == {"OK", "OK_ALARM", "NOT_ENOUGH_SLOTS", "UART_OVERFLOW", "IMPROPER_SLOT", "TIMEOUT"}
Dmx == [head : Nat \union {-1}, size : Nat,
        progress : {"STALE", "IN_BREAK", "IN_DATA", "COMPLETE"},
        is_controller : BOOLEAN, is_enabled : BOOLEAN]
Pc == {"idle", "turn", "check", "register", "alarm", "blocked", "woken", "parse"}
Task == [pc : Pc, size : Nat, block : BOOLEAN, err : Errs \union {"NONE"}, got : Nat]

\* slots received of the packet in the buffer, is it complete, was it handed out
Heard == [slots : Nat, whole : BOOLEAN, given : BOOLEAN]

TypeOK ==
  /\ dmx \in Dmx
  /\ buf \in Kinds
  /\ uart \in [rts : {0, 1}, fifo : 0 .. RXFIFO, raised : SUBSET RxInts]
  /\ armed \in BOOLEAN
  /\ line \in [kind : Kinds, left : Nat]
  /\ waiting \in BOOLEAN
  /\ note \in Errs \union {"NONE"}
  /\ task \in Task
  /\ heard \in Heard
  /\ stale \in 0 .. MaxStale + 1

Idle == [pc |-> "idle", size |-> 0, block |-> FALSE, err |-> "NONE", got |-> 0]
Nothing == [slots |-> 0, whole |-> FALSE, given |-> FALSE]

\* dmx_driver_install ends with the receiver on.
Init ==
  /\ dmx = [head |-> -1, size |-> DMX_PACKET_SIZE_MAX, progress |-> "STALE",
            is_controller |-> FALSE, is_enabled |-> TRUE]
  /\ buf = "DMX"
  /\ uart = [rts |-> 1, fifo |-> 0, raised |-> {}]
  /\ armed = FALSE
  /\ line = [kind |-> "DMX", left |-> 0]
  /\ waiting = FALSE /\ note = "NONE" /\ task = Idle
  /\ heard = Nothing
  /\ stale = 0

-----------------------------------------------------------------------------
(* The line                                                                *)

\* What happens on the line while the port does not listen is not told apart.
Listens == uart.rts = 1 /\ dmx.is_enabled
Delivered == IF dmx.head < 0 THEN heard ELSE [heard EXCEPT !.slots = @ + 1]
InFifo(n) == IF uart.fifo + n > RXFIFO THEN RXFIFO ELSE uart.fifo + n

\* A break leaves a null slot in the FIFO; a discovery response has no break.
LineBreak ==
  /\ Listens /\ "BREAK" \notin uart.raised
  /\ \E k \in {"DMX"} \union (RdmKinds \ {"DISC"}) :
       \E n \in (IF k = "DMX" THEN Lengths ELSE {RDM_LEN}) : line' = [kind |-> k, left |-> n]
  /\ uart' = [uart EXCEPT !.fifo = InFifo(1), !.raised = @ \union {"BREAK"}]
  /\ UNCHANGED <<dmx, buf, armed, waiting, note, task, heard, stale>>

LineDisc ==
  /\ Listens /\ line.left = 0 /\ "DISC" \in RdmKinds /\ line.kind # "DISC"
  /\ line' = [kind |-> "DISC", left |-> DISC_LEN]
  /\ UNCHANGED <<dmx, buf, uart, armed, waiting, note, task, heard, stale>>

LineSlot ==
  /\ Listens /\ line.left > 0 /\ "BREAK" \notin uart.raised
  /\ line' = [line EXCEPT !.left = @ - 1]
  /\ uart' = [uart EXCEPT !.fifo = InFifo(1),
                !.raised = @ \union {IF uart.fifo = RXFIFO THEN "OVERFLOW" ELSE "DATA"}]
  /\ heard' = Delivered
  /\ UNCHANGED <<dmx, buf, armed, waiting, note, task, stale>>

\* A slot without its stop bits.
LineError ==
  /\ Listens /\ line.left > 0 /\ "BREAK" \notin uart.raised
  /\ line' = [line EXCEPT !.left = 0]
  /\ uart' = [uart EXCEPT !.fifo = InFifo(1), !.raised = @ \union {"FRAMING"}]
  /\ heard' = Delivered
  /\ UNCHANGED <<dmx, buf, armed, waiting, note, task, stale>>

-----------------------------------------------------------------------------
(* dmx_uart_isr                                                            *)

\* Is a notification for this call, or cleared by it?
Awaited == task.pc \in {"alarm", "blocked"} \/ (task.pc = "woken" /\ task.err = "TIMEOUT")

\* xTaskNotifyFromISR with eSetValueWithOverwrite
Notify(err) ==
  /\ note' = IF waiting THEN err ELSE note
  /\ stale' = IF waiting /\ ~Awaited THEN stale + 1 ELSE stale

\* Slots go into the buffer as long as it has room; after that they are counted.
HasRoom(head) == head >= 0 /\ head < DMX_PACKET_SIZE_MAX
ReadLen == IF ~HasRoom(dmx.head) THEN 0
           ELSE IF uart.fifo > DMX_PACKET_SIZE_MAX - dmx.head THEN DMX_PACKET_SIZE_MAX - dmx.head
           ELSE uart.fifo
\* mutant: slots that were read are counted again at the end of the buffer
NewHeadTwice == dmx.head + uart.fifo
NewHead == IF HasRoom(dmx.head) THEN dmx.head + ReadLen
           ELSE IF dmx.head > 0 THEN dmx.head + uart.fifo ELSE dmx.head
Left == IF HasRoom(dmx.head) THEN uart.fifo - ReadLen ELSE 0
Emptied == [uart EXCEPT !.fifo = Left, !.raised = IF Left > 0 THEN {"DATA"} ELSE {}]
Progress == IF dmx.progress = "IN_BREAK" THEN "IN_DATA" ELSE dmx.progress

\* mutant: a packet without slots is shortened as well
IsShortAlways == dmx.progress = "IN_DATA"

\* Is the packet that the break ends shorter than expected?
IsShort == dmx.progress = "IN_DATA" /\ NewHead > 0

\* A break ends a packet that is shorter than expected: its size is corrected.
IsrBreak ==
  /\ "BREAK" \in uart.raised /\ dmx.is_enabled
  /\ uart' = Emptied
  /\ IF IsShort THEN Notify("NOT_ENOUGH_SLOTS") ELSE UNCHANGED <<note, stale>>
  /\ dmx' = [dmx EXCEPT !.size = IF IsShort THEN NewHead - 1 ELSE @,
               !.progress = "IN_BREAK", !.head = 0]
  /\ heard' = [Nothing EXCEPT !.slots = Left]
  /\ UNCHANGED <<buf, armed, line, waiting, task>>

\* Where a packet of this kind ends; one that turns out not to be RDM ends as DMX.
EndsAt(kind, head) ==
  CASE kind = "RDM" -> head >= RDM_LEN
    [] kind = "DISC" -> head >= DISC_LEN
    [] kind = "BAD" -> head >= HEADER /\ head >= dmx.size
    [] kind = "DMX" -> head >= dmx.size

\* Guard against notifying multiple times for the same packet.
NotifiesFor == Progress = "IN_DATA"

IsrSlots ==
  /\ uart.raised # {} /\ "BREAK" \notin uart.raised /\ dmx.is_enabled
  /\ uart' = Emptied
  /\ LET kind == IF dmx.head = 0 /\ ReadLen > 0 THEN line.kind ELSE buf
         bad == uart.raised \intersect {"OVERFLOW", "FRAMING"} # {}
         ends == bad \/ EndsAt(kind, NewHead)
         err == IF "OVERFLOW" \in uart.raised THEN "UART_OVERFLOW"
                ELSE IF bad THEN "IMPROPER_SLOT" ELSE "OK" IN
     /\ buf' = kind
     /\ heard' = [heard EXCEPT !.whole = @ \/ (NotifiesFor /\ ends /\ ~bad)]
     /\ IF NotifiesFor /\ ends
        THEN /\ Notify(err)
             /\ armed' = FALSE
             /\ dmx' = [dmx EXCEPT !.head = NewHead, !.progress = "COMPLETE"]
        ELSE /\ dmx' = [dmx EXCEPT !.head = NewHead, !.progress = Progress]
             /\ UNCHANGED <<armed, note, stale>>
  /\ UNCHANGED <<line, waiting, task>>

\* dmx_timer_isr while nothing is sent: the response or its next slot is late.
TimerWake ==
  /\ armed
  /\ Notify("OK_ALARM")
  /\ armed' = FALSE
  /\ UNCHANGED <<dmx, buf, uart, line, waiting, task, heard>>

-----------------------------------------------------------------------------
(* dmx_receive_num                                                         *)

\* The call; the mutex and dmx_wait_sent are in DmxSend.
Receive ==
  /\ task.pc = "idle" /\ dmx.is_enabled
  /\ \E n \in Sizes \union {dmx.size}, b \in BOOLEAN :
       n >= 0 /\ task' = [Idle EXCEPT !.pc = "turn", !.size = n, !.block = b]
  /\ UNCHANGED <<dmx, buf, uart, armed, line, waiting, note, heard, stale>>

\* The comparison is unsigned: a head of -1, left by dmx_driver_enable, is more than any size.
AtLeast(head, size) == head < 0 \/ head >= size

\* The bus is turned to reading, and the new size applied.
Turn ==
  /\ task.pc = "turn"
  /\ LET deaf == uart.rts = 0
         now == IF deaf THEN [dmx EXCEPT !.progress = "STALE", !.head = -1] ELSE dmx
         full == task.size # now.size /\ now.progress # "STALE" /\ AtLeast(now.head, task.size) IN
     /\ dmx' = [now EXCEPT !.size = task.size, !.progress = IF full THEN "COMPLETE" ELSE @]
     /\ note' = IF deaf THEN "NONE" ELSE note
     /\ heard' = IF deaf THEN Nothing
                 ELSE [heard EXCEPT !.whole = @ \/ (full /\ now.head > 0)]
  /\ uart' = [uart EXCEPT !.rts = 1]
  /\ task' = [task EXCEPT !.pc = "check", !.size = 0]
  /\ UNCHANGED <<buf, armed, line, waiting, stale>>

Check ==
  /\ task.pc = "check"
  /\ task' = IF dmx.progress = "COMPLETE"
             THEN [Idle EXCEPT !.pc = "parse", !.err = "OK", !.got = IF dmx.head < 0 THEN 0 ELSE dmx.head]
             ELSE IF task.block THEN [Idle EXCEPT !.pc = "register"] ELSE Idle
  /\ UNCHANGED <<dmx, buf, uart, armed, line, waiting, note, heard, stale>>

\* The task is registered; a controller arms the alarm of the response.
Register ==
  /\ task.pc = "register"
  /\ waiting' = TRUE
  /\ task' = [task EXCEPT !.pc = IF dmx.is_controller THEN "alarm" ELSE "blocked"]
  /\ UNCHANGED <<dmx, buf, uart, armed, line, note, heard, stale>>

Alarm ==
  /\ task.pc = "alarm"
  /\ armed' = TRUE
  /\ task' = [task EXCEPT !.pc = "blocked"]
  /\ UNCHANGED <<dmx, buf, uart, line, waiting, note, heard, stale>>

\* The response is already too late: the task stays registered.
AlarmTooLate ==
  /\ task.pc = "alarm"
  /\ task' = Idle
  /\ stale' = IF note = "NONE" THEN stale ELSE stale + 1
  /\ UNCHANGED <<dmx, buf, uart, armed, line, waiting, note, heard>>

\* xTaskNotifyWait returns, with or without a notification.
Wake ==
  /\ task.pc = "blocked"
  /\ task' = [task EXCEPT !.pc = "woken", !.err = IF note = "NONE" THEN "TIMEOUT" ELSE note]
  /\ note' = "NONE"
  /\ UNCHANGED <<dmx, buf, uart, armed, line, waiting, heard, stale>>

\* mutant: the notification that came since stays
ClearedNot(n) == n

\* xTaskNotifyStateClear, "Avoid race condition"
Cleared(n) == "NONE"

\* A wait without a notification ends here, and clears one that came since.
Woken ==
  /\ task.pc = "woken"
  /\ waiting' = FALSE
  /\ IF task.err = "TIMEOUT"
     THEN task' = Idle /\ note' = Cleared(note)
     ELSE /\ task' = [task EXCEPT !.pc = "parse", !.got = IF dmx.head < 0 THEN 0 ELSE dmx.head]
          /\ UNCHANGED note
  /\ UNCHANGED <<dmx, buf, uart, armed, line, heard, stale>>

\* Prevent parsing old data.
Parsed == "STALE"

IsOK(err) == err \in {"OK", "OK_ALARM"}

\* The packet is handed to the caller.
Parse ==
  /\ task.pc = "parse"
  /\ dmx' = [dmx EXCEPT !.progress = Parsed]
  /\ heard' = [heard EXCEPT !.given = @ \/ (IsOK(task.err) /\ task.got > 0 /\ heard.whole)]
  /\ task' = Idle
  /\ UNCHANGED <<buf, uart, armed, line, waiting, note, stale>>

-----------------------------------------------------------------------------
(* What else happens to the port                                           *)

\* dmx_send by this task: it leaves the port as DmxSend does, turned around again
\* when a response is expected.
Transmit ==
  /\ task.pc = "idle" /\ dmx.is_enabled
  /\ \/ /\ \E ctl \in BOOLEAN :
             dmx' = [dmx EXCEPT !.head = DMX_PACKET_SIZE_MAX, !.size = DMX_PACKET_SIZE_MAX,
                       !.progress = "COMPLETE", !.is_controller = ctl]
        /\ uart' = [uart EXCEPT !.rts = 0, !.fifo = 0, !.raised = {}]
     \/ /\ \E p \in {"IN_DATA", "STALE"} :
             dmx' = [dmx EXCEPT !.head = IF p = "IN_DATA" THEN 0 ELSE -1, !.size = RDM_LEN,
                       !.progress = p, !.is_controller = TRUE]
        /\ uart' = [uart EXCEPT !.rts = 1, !.fifo = 0, !.raised = {}]
  /\ heard' = Nothing
  /\ armed' = FALSE
  /\ UNCHANGED <<buf, line, waiting, note, task, stale>>

dmx_driver_disable ==
  /\ dmx.is_enabled
  /\ dmx' = [dmx EXCEPT !.is_enabled = FALSE]
  /\ uart' = [uart EXCEPT !.raised = {}]
  /\ UNCHANGED <<buf, armed, line, waiting, note, task, heard, stale>>

dmx_driver_enable ==
  /\ ~dmx.is_enabled
  /\ dmx' = [dmx EXCEPT !.is_enabled = TRUE, !.head = -1]
  /\ uart' = [uart EXCEPT !.fifo = 0, !.raised = {}]
  /\ heard' = [heard EXCEPT !.slots = 0]
  /\ UNCHANGED <<buf, armed, line, waiting, note, task, stale>>

\* The bound on stale: such a behaviour is not followed.
Halted == stale > MaxStale

Bus == LineBreak \/ LineDisc \/ LineSlot \/ LineError
Interrupt == IsrBreak \/ IsrSlots \/ TimerWake
Call == Receive \/ Turn \/ Check \/ Register \/ Alarm \/ AlarmTooLate \/ Wake \/ Woken \/ Parse

Next ==
  \/ ~Halted /\ (Bus \/ Interrupt \/ Call)
  \/ ~Halted /\ (Transmit \/ dmx_driver_disable \/ dmx_driver_enable)
  \/ Halted /\ UNCHANGED vars

Spec == Init /\ [][Next]_vars

-----------------------------------------------------------------------------
(* What receiving promises                                                 *)

(* Does dmx_receive_num return a whole packet in this step? *)
HandsOut == task.pc = "parse" /\ task'.pc = "idle" /\ IsOK(task.err) /\ task.got > 0 /\ heard.whole

(* A packet is handed out once: whatever the interrupts do between two calls, a
   call that no alarm ended never returns a packet that an earlier call has
   returned ("Prevent parsing old data", "Guard against notifying multiple times
   for the same packet", "Avoid race condition").  Behaviours in which a
   notification came after its call are not followed (MaxStale). *)
HandedOutOnce == [][HandsOut /\ task.err = "OK" => ~heard.given]_vars

(* The head, from which packet->size is taken, never counts more slots than the
   UART has delivered since the break (the null slot of the break is one of them
   when the buffer had no room for it): not at the end of the buffer, not after an
   overflow, not when the port was disabled or turned in the middle of a packet. *)
HeadCountsSlots == uart.rts = 1 => dmx.head <= heard.slots

\* The receive interrupt, the timer and the reading task keep the driver's record in its
\* type and its head behind the line.
ReceiveInv == TypeOK /\ HeadCountsSlots
=============================================================================
