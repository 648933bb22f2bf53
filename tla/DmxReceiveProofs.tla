-------------------------- MODULE DmxReceiveProofs --------------------------
(***************************************************************************)
(* Proofs about the receive path: for every buffer, FIFO and packet the    *)
(* head stays behind the line, whatever the driver and the port do between *)
(* two interrupts; and no call returns what an earlier one has returned,   *)
(* up to the first notification that comes after its call.                 *)
(***************************************************************************)
EXTENDS DmxReceive, TLAPS

\* The slots in the FIFO are still to be counted; the null slot of a break that was not
\* handled yet is one too many.
FifoOK ==
  uart.rts = 1 /\ dmx.is_enabled /\ dmx.head >= 0 =>
    dmx.head + uart.fifo <= heard.slots + (IF "BREAK" \in uart.raised THEN 1 ELSE 0)

\* The inductive invariant of the head.
Inv == TypeOK /\ HeadCountsSlots /\ FifoOK

\* A notification is for the call that waits for it, or cleared by it.
NoteOK == note # "NONE" => Awaited

\* A packet that was handed out is neither complete any more nor announced.
GivenOK ==
  heard.given => /\ dmx.progress = "STALE" /\ note # "OK"
                 /\ ~(task.pc \in {"woken", "parse"} /\ task.err = "OK")

\* The inductive invariant of what is handed out.
OnceInv == Inv /\ (stale = 0 => NoteOK /\ GivenOK)

-----------------------------------------------------------------------------
(* The parts of an interrupt.                                               *)

UartType == [rts : {0, 1}, fifo : 0 .. RXFIFO, raised : SUBSET RxInts]

\* The sizes are numbers.
LEMMA Sizes0 == /\ DMX_PACKET_SIZE_MAX \in Nat \ {0} /\ RXFIFO \in Nat \ {0} /\ MaxStale \in Nat
                /\ RDM_LEN \in Nat /\ DISC_LEN \in Nat /\ Sizes \subseteq Nat /\ Lengths \subseteq Nat
  BY ReceiveAssumption

\* A notification is one more late one at most.
LEMMA NotifyFacts ==
  ASSUME TypeOK, ~Halted, NEW err \in Errs, Notify(err)
  PROVE  /\ note' \in Errs \union {"NONE"} /\ stale' \in 0 .. MaxStale + 1
         /\ note' # note => note' = err
         /\ stale' = 0 => stale = 0
  BY Sizes0 DEF Notify, TypeOK, Halted

\* What the interrupt reads it counts, and what it leaves in the FIFO it counts later.
LEMMA ReadFacts ==
  ASSUME TypeOK
  PROVE  /\ Left \in 0 .. uart.fifo /\ NewHead \in Nat \union {-1} /\ Emptied \in UartType
         /\ Emptied.rts = uart.rts /\ Emptied.fifo = Left /\ "BREAK" \notin Emptied.raised
         /\ dmx.head < 0 => NewHead < 0
         /\ dmx.head >= 0 => NewHead + Left <= dmx.head + uart.fifo
<1>1. uart \in UartType /\ uart.fifo \in Nat /\ dmx.head \in Nat \union {-1}
  BY Sizes0 DEF TypeOK, UartType, Dmx
<1>2. /\ Left \in 0 .. uart.fifo /\ NewHead \in Nat \union {-1}
      /\ dmx.head < 0 => NewHead < 0
      /\ dmx.head >= 0 => NewHead + Left <= dmx.head + uart.fifo
  BY <1>1, Sizes0 DEF Left, NewHead, ReadLen, HasRoom
<1>3. Left \in 0 .. RXFIFO
  BY <1>1, <1>2, Sizes0 DEF UartType
<1>4. /\ Emptied \in UartType /\ Emptied.rts = uart.rts /\ Emptied.fifo = Left
      /\ "BREAK" \notin Emptied.raised
  BY <1>1, <1>3 DEF Emptied, UartType, RxInts
<1> QED
  BY <1>2, <1>4

\* The FIFO takes a slot, or is full.
LEMMA InFifoFacts ==
  ASSUME TypeOK, NEW i \in RxInts, uart' = [uart EXCEPT !.fifo = InFifo(1), !.raised = @ \union {i}]
  PROVE  /\ uart' \in UartType /\ uart'.rts = uart.rts
         /\ uart'.fifo \in Nat /\ uart'.fifo <= uart.fifo + 1
         /\ uart'.raised = uart.raised \union {i}
<1>1. uart \in UartType
  BY DEF TypeOK, UartType
<1>2. InFifo(1) \in 0 .. RXFIFO /\ InFifo(1) <= uart.fifo + 1
  BY <1>1, Sizes0 DEF InFifo, UartType
<1>3. uart' = [rts |-> uart.rts, fifo |-> InFifo(1), raised |-> uart.raised \union {i}]
  BY <1>1 DEF UartType
<1>4. uart.raised \union {i} \in SUBSET RxInts /\ uart.rts \in {0, 1}
  BY <1>1 DEF UartType
<1> QED
  BY <1>2, <1>3, <1>4, Sizes0 DEF UartType

-----------------------------------------------------------------------------
(* The head stays behind the line.                                          *)

\* The driver is installed with nothing in the FIFO.
LEMMA InitReceive == Init => OnceInv
<1> SUFFICES ASSUME Init PROVE OnceInv
  OBVIOUS
<1> USE Sizes0
<1>1. dmx \in Dmx /\ dmx.head = -1 /\ task \in Task /\ heard \in Heard /\ heard.given = FALSE /\ heard.slots = 0
  BY DEF Init, Dmx, Task, Pc, Idle, Heard, Nothing, Errs
<1>2. TypeOK
  <2>1. uart \in UartType /\ line \in [kind : Kinds, left : Nat] /\ buf \in Kinds /\ stale \in 0 .. MaxStale + 1
    BY DEF Init, UartType, Kinds
  <2> QED
    BY <1>1, <2>1 DEF Init, TypeOK, UartType
<1>3. HeadCountsSlots /\ FifoOK
  BY <1>1 DEF HeadCountsSlots, FifoOK
<1>4. NoteOK /\ GivenOK
  BY <1>1 DEF Init, NoteOK, GivenOK
<1> QED
  BY <1>2, <1>3, <1>4 DEF OnceInv, Inv

\* What the line sends goes into the FIFO before it is counted by the head.
LEMMA BusKeeps ==
  ASSUME Inv, Bus
  PROVE  Inv'
<1> USE Sizes0
<1>0. /\ TypeOK /\ HeadCountsSlots /\ FifoOK /\ uart \in UartType /\ dmx \in Dmx /\ heard \in Heard
      /\ dmx.head \in Nat \union {-1} /\ heard.slots \in Nat /\ uart.fifo \in Nat
      /\ UNCHANGED <<dmx, buf, armed, waiting, note, task, stale>>
  BY DEF Inv, TypeOK, UartType, Dmx, Heard, Bus, LineBreak, LineDisc, LineSlot, LineError
<1>1. CASE LineBreak
  <2>1. PICK k \in Kinds, n \in Nat : line' = [kind |-> k, left |-> n]
    <3>1. PICK k \in {"DMX"} \union (RdmKinds \ {"DISC"}) :
            \E n \in (IF k = "DMX" THEN Lengths ELSE {RDM_LEN}) : line' = [kind |-> k, left |-> n]
      BY <1>1 DEF LineBreak
    <3>2. k \in Kinds
      BY ReceiveAssumption DEF Kinds
    <3>3. PICK n \in (IF k = "DMX" THEN Lengths ELSE {RDM_LEN}) : line' = [kind |-> k, left |-> n]
      BY <3>1
    <3>4. n \in Nat
      BY ReceiveAssumption
    <3> QED
      BY <3>2, <3>3, <3>4
  <2>2. /\ uart' \in UartType /\ uart'.rts = uart.rts /\ uart'.fifo <= uart.fifo + 1 /\ uart'.fifo \in Nat
        /\ "BREAK" \notin uart.raised /\ "BREAK" \in uart'.raised /\ heard' = heard
    <3>1. "BREAK" \in RxInts /\ uart' = [uart EXCEPT !.fifo = InFifo(1), !.raised = @ \union {"BREAK"}]
      BY <1>1 DEF LineBreak, RxInts
    <3>2. "BREAK" \notin uart.raised /\ heard' = heard
      BY <1>1 DEF LineBreak
    <3> QED
      BY <1>0, <3>1, <3>2, InFifoFacts
  <2>3. TypeOK'
    BY <1>0, <2>1, <2>2 DEF TypeOK, UartType
  <2>4. HeadCountsSlots' /\ FifoOK'
    BY <1>0, <2>2 DEF HeadCountsSlots, FifoOK
  <2> QED
    BY <2>3, <2>4 DEF Inv
<1>2. CASE LineDisc
  <2>1. TypeOK'
    BY <1>0, <1>2 DEF TypeOK, LineDisc, Kinds, RdmKind
  <2>2. HeadCountsSlots' /\ FifoOK'
    BY <1>0, <1>2 DEF HeadCountsSlots, FifoOK, LineDisc
  <2> QED
    BY <2>1, <2>2 DEF Inv
<1>3. CASE LineSlot \/ LineError
  <2>1. line' \in [kind : Kinds, left : Nat]
    BY <1>0, <1>3 DEF LineSlot, LineError, TypeOK
  <2>2. /\ uart' \in UartType /\ uart'.rts = uart.rts /\ uart'.fifo <= uart.fifo + 1 /\ uart'.fifo \in Nat
        /\ "BREAK" \notin uart.raised
    <3>1. PICK i \in {"DATA", "OVERFLOW", "FRAMING"} :
            uart' = [uart EXCEPT !.fifo = InFifo(1), !.raised = @ \union {i}]
      BY <1>3 DEF LineSlot, LineError
    <3>2. "BREAK" \notin uart.raised
      BY <1>3 DEF LineSlot, LineError
    <3> QED
      BY <1>0, <3>1, <3>2, InFifoFacts DEF RxInts
  <2>3. /\ heard' \in Heard /\ heard'.slots \in {heard.slots, heard.slots + 1}
        /\ dmx.head >= 0 => heard'.slots = heard.slots + 1
    BY <1>0, <1>3 DEF LineSlot, LineError, Delivered, Heard
  <2>4. TypeOK'
    BY <1>0, <2>1, <2>2, <2>3 DEF TypeOK, UartType
  <2>5. HeadCountsSlots' /\ FifoOK'
    BY <1>0, <2>2, <2>3 DEF HeadCountsSlots, FifoOK
  <2> QED
    BY <2>4, <2>5 DEF Inv
<1> QED
  BY <1>1, <1>2, <1>3 DEF Bus

\* After a break the head is zero and the line has sent what is left in the FIFO.
LEMMA IsrBreakKeeps ==
  ASSUME Inv, ~Halted, IsrBreak
  PROVE  Inv'
<1> USE Sizes0
<1>0. /\ TypeOK /\ dmx \in Dmx /\ uart \in UartType /\ uart.fifo \in Nat
      /\ UNCHANGED <<buf, armed, line, waiting, task>>
  BY DEF Inv, TypeOK, UartType, IsrBreak
<1>1. uart' \in UartType /\ uart'.fifo = Left /\ Left \in Nat /\ "BREAK" \notin uart'.raised
  BY <1>0, ReadFacts DEF IsrBreak
<1>2. dmx' \in Dmx /\ dmx'.head = 0
  <2>1. IsShort => NewHead - 1 \in Nat
    BY <1>0, ReadFacts DEF IsShort
  <2> QED
    BY <1>0, <2>1 DEF IsrBreak, Dmx
<1>3. heard' \in Heard /\ heard'.slots = Left
  BY <1>1 DEF IsrBreak, Nothing, Heard
<1>4. note' \in Errs \union {"NONE"} /\ stale' \in 0 .. MaxStale + 1
  BY <1>0, NotifyFacts DEF IsrBreak, TypeOK, Errs
<1>5. TypeOK'
  BY <1>0, <1>1, <1>2, <1>3, <1>4 DEF TypeOK, UartType
<1>6. HeadCountsSlots' /\ FifoOK'
  BY <1>1, <1>2, <1>3 DEF HeadCountsSlots, FifoOK
<1> QED
  BY <1>5, <1>6 DEF Inv

\* The interrupt counts what it takes from the FIFO.
LEMMA IsrSlotsKeeps ==
  ASSUME Inv, ~Halted, IsrSlots
  PROVE  Inv'
<1> USE Sizes0
<1>0. /\ TypeOK /\ HeadCountsSlots /\ FifoOK /\ dmx \in Dmx /\ uart \in UartType /\ uart.fifo \in Nat
      /\ heard \in Heard /\ heard.slots \in Nat /\ dmx.head \in Nat \union {-1}
      /\ UNCHANGED <<line, waiting, task>> /\ "BREAK" \notin uart.raised /\ dmx.is_enabled
  BY DEF Inv, TypeOK, UartType, Dmx, Heard, IsrSlots
<1>1. /\ uart' \in UartType /\ uart'.rts = uart.rts /\ uart'.fifo = Left /\ Left \in Nat
      /\ "BREAK" \notin uart'.raised
  BY <1>0, ReadFacts DEF IsrSlots
<1>2. PICK p \in {"STALE", "IN_BREAK", "IN_DATA", "COMPLETE"} :
        dmx' = [dmx EXCEPT !.head = NewHead, !.progress = p]
  BY <1>0 DEF IsrSlots, Progress, Dmx
<1>3. dmx' \in Dmx /\ dmx'.head = NewHead /\ dmx'.is_enabled = dmx.is_enabled
  BY <1>0, <1>2, ReadFacts DEF Dmx
<1>4. buf' \in Kinds
  BY <1>0 DEF IsrSlots, TypeOK
<1>5. heard' \in Heard /\ heard'.slots = heard.slots
  <2>1. PICK w \in BOOLEAN : heard' = [heard EXCEPT !.whole = w]
    BY DEF IsrSlots
  <2> QED
    BY <1>0, <2>1 DEF Heard
<1>6. note' \in Errs \union {"NONE"} /\ stale' \in 0 .. MaxStale + 1 /\ armed' \in BOOLEAN
  <2>1. \/ \E err \in Errs : Notify(err) /\ armed' = FALSE
        \/ UNCHANGED <<armed, note, stale>>
    BY DEF IsrSlots, Errs
  <2> QED
    BY <1>0, <2>1, NotifyFacts DEF TypeOK
<1>7. TypeOK'
  BY <1>0, <1>1, <1>3, <1>4, <1>5, <1>6 DEF TypeOK, UartType
<1>8. HeadCountsSlots' /\ FifoOK'
  <2>1. /\ dmx.head < 0 => NewHead < 0
        /\ dmx.head >= 0 => NewHead + Left <= dmx.head + uart.fifo
        /\ NewHead \in Nat \union {-1}
    BY <1>0, ReadFacts
  <2> QED
    BY <1>0, <1>1, <1>3, <1>5, <2>1 DEF HeadCountsSlots, FifoOK
<1> QED
  BY <1>7, <1>8 DEF Inv

\* The timer has nothing to do with the head.
LEMMA TimerWakeKeeps ==
  ASSUME Inv, ~Halted, TimerWake
  PROVE  Inv'
<1>0. TypeOK /\ UNCHANGED <<dmx, buf, uart, line, waiting, task, heard>> /\ armed' = FALSE
  BY DEF Inv, TimerWake
<1>1. note' \in Errs \union {"NONE"} /\ stale' \in 0 .. MaxStale + 1
  BY <1>0, NotifyFacts DEF TimerWake, Errs
<1> QED
  BY <1>0, <1>1 DEF Inv, TypeOK, HeadCountsSlots, FifoOK

\* What keeps off the buffer and the FIFO keeps the invariant.
LEMMA FrameReceive ==
  ASSUME Inv, UNCHANGED <<dmx, buf, uart, line, heard>>, task' \in Task,
         waiting' \in BOOLEAN, armed' \in BOOLEAN, note' \in Errs \union {"NONE"},
         stale' \in 0 .. MaxStale + 1
  PROVE  Inv'
<1>1. TypeOK'
  BY DEF Inv, TypeOK
<1>2. HeadCountsSlots' /\ FifoOK'
  BY DEF Inv, HeadCountsSlots, FifoOK
<1> QED
  BY <1>1, <1>2 DEF Inv

\* dmx_receive_num moves the head only when it turns the bus, and then to nothing.
LEMMA CallKeeps ==
  ASSUME Inv, ~Halted, Call
  PROVE  Inv'
<1> USE Sizes0
<1>0. /\ TypeOK /\ HeadCountsSlots /\ FifoOK /\ dmx \in Dmx /\ uart \in UartType /\ task \in Task
      /\ heard \in Heard /\ heard.slots \in Nat /\ dmx.head \in Nat \union {-1} /\ stale \in 0 .. MaxStale
      /\ waiting \in BOOLEAN /\ armed \in BOOLEAN /\ note \in Errs \union {"NONE"}
  BY DEF Inv, TypeOK, UartType, Dmx, Heard, Halted
<1>i. Idle \in Task
  BY DEF Idle, Task, Pc
<1>1. CASE Receive
  <2>1. task' \in Task
    <3>1. PICK n \in Sizes \union {dmx.size}, b \in BOOLEAN :
            task' = [Idle EXCEPT !.pc = "turn", !.size = n, !.block = b]
      BY <1>1 DEF Receive
    <3>2. n \in Nat
      BY <1>0 DEF Dmx
    <3> QED
      BY <1>i, <3>1, <3>2 DEF Task, Pc
  <2> QED
    BY <1>0, <1>1, <2>1, FrameReceive DEF Receive
<1>2. CASE Turn
  <2>1. task' \in Task
    BY <1>0, <1>2 DEF Turn, Task, Pc
  <2>2. uart' \in UartType /\ uart'.rts = 1 /\ uart'.fifo = uart.fifo /\ uart'.raised = uart.raised
    BY <1>0, <1>2 DEF Turn, UartType
  <2>3. /\ dmx' \in Dmx /\ dmx'.is_enabled = dmx.is_enabled
        /\ dmx'.head = IF uart.rts = 0 THEN -1 ELSE dmx.head
    BY <1>0, <1>2 DEF Turn, Dmx, Task
  <2>4. heard' \in Heard /\ (uart.rts # 0 => heard'.slots = heard.slots) /\ heard'.slots \in Nat
    <3>1. CASE uart.rts = 0
      BY <1>2, <3>1 DEF Turn, Heard, Nothing
    <3>2. CASE uart.rts # 0
      <4>1. PICK w \in BOOLEAN : heard' = [heard EXCEPT !.whole = w]
        BY <1>2, <3>2 DEF Turn
      <4> QED
        BY <1>0, <3>2, <4>1 DEF Heard
    <3> QED
      BY <3>1, <3>2
  <2>5. note' \in Errs \union {"NONE"} /\ UNCHANGED <<buf, armed, line, waiting, stale>>
    BY <1>0, <1>2 DEF Turn, TypeOK
  <2>6. TypeOK'
    BY <1>0, <2>1, <2>2, <2>3, <2>4, <2>5 DEF TypeOK, UartType
  <2>7. HeadCountsSlots' /\ FifoOK'
    BY <1>0, <2>2, <2>3, <2>4 DEF HeadCountsSlots, FifoOK, UartType
  <2> QED
    BY <2>6, <2>7 DEF Inv
<1>3. CASE Check
  <2>1. task' \in Task
    <3>1. CASE dmx.progress = "COMPLETE"
      <4> DEFINE n == IF dmx.head < 0 THEN 0 ELSE dmx.head
      <4>1. n \in Nat
        BY <1>0
      <4>2. task' = [Idle EXCEPT !.pc = "parse", !.err = "OK", !.got = n]
        BY <1>3, <3>1 DEF Check
      <4> HIDE DEF n
      <4> QED
        BY <1>i, <4>1, <4>2 DEF Task, Pc, Errs
    <3>2. CASE dmx.progress # "COMPLETE"
      <4>1. task' = [Idle EXCEPT !.pc = "register"] \/ task' = Idle
        BY <1>3, <3>2 DEF Check
      <4> QED
        BY <1>i, <4>1 DEF Task, Pc
    <3> QED
      BY <3>1, <3>2
  <2> QED
    BY <1>0, <1>3, <2>1, FrameReceive DEF Check
<1>4. CASE Register \/ Alarm \/ AlarmTooLate \/ Wake
  <2>1. task' \in Task
    <3>1. CASE Register
      BY <1>0, <3>1 DEF Register, Task, Pc
    <3>2. CASE Alarm
      BY <1>0, <3>2 DEF Alarm, Task, Pc
    <3>3. CASE AlarmTooLate
      BY <1>i, <3>3 DEF AlarmTooLate
    <3>4. CASE Wake
      <4>1. PICK e \in Errs : task' = [task EXCEPT !.pc = "woken", !.err = e]
        BY <1>0, <3>4 DEF Wake, Errs
      <4> QED
        BY <1>0, <4>1 DEF Task, Pc
    <3> QED
      BY <1>4, <3>1, <3>2, <3>3, <3>4
  <2>2. waiting' \in BOOLEAN /\ armed' \in BOOLEAN /\ note' \in Errs \union {"NONE"}
    BY <1>0, <1>4 DEF Register, Alarm, AlarmTooLate, Wake
  <2>4. stale' \in 0 .. MaxStale + 1
    BY <1>0, <1>4 DEF Register, Alarm, AlarmTooLate, Wake
  <2>3. UNCHANGED <<dmx, buf, uart, line, heard>>
    BY <1>4 DEF Register, Alarm, AlarmTooLate, Wake
  <2> QED
    BY <2>1, <2>2, <2>3, <2>4, FrameReceive
<1>5. CASE Woken
  <2>1. task' \in Task
    <3>1. CASE task.err = "TIMEOUT"
      BY <1>5, <1>i, <3>1 DEF Woken
    <3>2. CASE task.err # "TIMEOUT"
      <4> DEFINE n == IF dmx.head < 0 THEN 0 ELSE dmx.head
      <4>1. n \in Nat
        BY <1>0
      <4>2. task' = [task EXCEPT !.pc = "parse", !.got = n]
        BY <1>5, <3>2 DEF Woken
      <4> HIDE DEF n
      <4> QED
        BY <1>0, <4>1, <4>2 DEF Task, Pc
    <3> QED
      BY <3>1, <3>2
  <2>2. note' \in Errs \union {"NONE"}
    BY <1>0, <1>5 DEF Woken, Cleared
  <2> QED
    <3>1. waiting' = FALSE /\ UNCHANGED <<dmx, buf, uart, armed, line, heard, stale>>
      BY <1>5 DEF Woken
    <3>2. stale' \in 0 .. MaxStale + 1 /\ armed' \in BOOLEAN
      BY <1>0, <3>1
    <3> QED
      BY <2>1, <2>2, <3>1, <3>2, FrameReceive
<1>6. CASE Parse
  <2>1. dmx' \in Dmx /\ dmx'.head = dmx.head /\ dmx'.is_enabled = dmx.is_enabled
    BY <1>0, <1>6 DEF Parse, Parsed, Dmx
  <2>2. heard' \in Heard /\ heard'.slots = heard.slots
    <3>1. PICK w \in BOOLEAN : heard' = [heard EXCEPT !.given = w]
      BY <1>6 DEF Parse
    <3> QED
      BY <1>0, <3>1 DEF Heard
  <2>3. TypeOK'
    BY <1>0, <1>6, <1>i, <2>1, <2>2 DEF Parse, TypeOK
  <2>4. HeadCountsSlots' /\ FifoOK'
    BY <1>0, <1>6, <2>1, <2>2 DEF Parse, HeadCountsSlots, FifoOK
  <2> QED
    BY <2>3, <2>4 DEF Inv
<1> QED
  BY <1>1, <1>2, <1>3, <1>4, <1>5, <1>6 DEF Call

\* A transmission, and switching the port off and on, leave no slot behind that counts.
LEMMA PortKeeps ==
  ASSUME Inv, Transmit \/ dmx_driver_disable \/ dmx_driver_enable
  PROVE  Inv'
<1> USE Sizes0
<1>0. /\ TypeOK /\ HeadCountsSlots /\ FifoOK /\ dmx \in Dmx /\ uart \in UartType
      /\ heard \in Heard /\ heard.slots \in Nat /\ dmx.head \in Nat \union {-1}
      /\ UNCHANGED <<buf, line, waiting, note, task, stale>>
  BY DEF Inv, TypeOK, UartType, Dmx, Heard, Transmit, dmx_driver_disable, dmx_driver_enable
<1>1. CASE Transmit
  <2>1. /\ dmx' \in Dmx /\ uart' \in UartType /\ uart'.fifo = 0
        /\ uart'.rts = 1 => dmx'.head \in {0, -1}
    <3>1. CASE /\ \E c \in BOOLEAN :
                     dmx' = [dmx EXCEPT !.head = DMX_PACKET_SIZE_MAX, !.size = DMX_PACKET_SIZE_MAX,
                               !.progress = "COMPLETE", !.is_controller = c]
                /\ uart' = [uart EXCEPT !.rts = 0, !.fifo = 0, !.raised = {}]
      <4>1. uart' = [rts |-> 0, fifo |-> 0, raised |-> {}]
        BY <1>0, <3>1 DEF UartType
      <4>2. PICK c \in BOOLEAN :
              dmx' = [head |-> DMX_PACKET_SIZE_MAX, size |-> DMX_PACKET_SIZE_MAX, progress |-> "COMPLETE",
                      is_controller |-> c, is_enabled |-> dmx.is_enabled]
        BY <1>0, <3>1 DEF Dmx
      <4>3. dmx.is_enabled \in BOOLEAN
        BY <1>0 DEF Dmx
      <4> QED
        BY <4>1, <4>2, <4>3 DEF Dmx, UartType
    <3>2. CASE /\ \E p \in {"IN_DATA", "STALE"} :
                     dmx' = [dmx EXCEPT !.head = IF p = "IN_DATA" THEN 0 ELSE -1, !.size = RDM_LEN,
                               !.progress = p, !.is_controller = TRUE]
                /\ uart' = [uart EXCEPT !.rts = 1, !.fifo = 0, !.raised = {}]
      <4>1. uart' = [rts |-> 1, fifo |-> 0, raised |-> {}]
        BY <1>0, <3>2 DEF UartType
      <4>2. PICK p \in {"IN_DATA", "STALE"}, h \in {0, -1} :
              dmx' = [head |-> h, size |-> RDM_LEN, progress |-> p,
                      is_controller |-> TRUE, is_enabled |-> dmx.is_enabled]
        BY <1>0, <3>2 DEF Dmx
      <4>3. dmx.is_enabled \in BOOLEAN
        BY <1>0 DEF Dmx
      <4> QED
        BY <4>1, <4>2, <4>3 DEF Dmx, UartType
    <3> QED
      BY <1>1, <3>1, <3>2 DEF Transmit
  <2>2. heard' \in Heard /\ heard'.slots = 0 /\ armed' = FALSE
    BY <1>1 DEF Transmit, Nothing, Heard
  <2>3. TypeOK'
    BY <1>0, <2>1, <2>2 DEF TypeOK, UartType
  <2>4. HeadCountsSlots' /\ FifoOK'
    BY <2>1, <2>2 DEF HeadCountsSlots, FifoOK
  <2> QED
    BY <2>3, <2>4 DEF Inv
<1>2. CASE dmx_driver_disable
  <2>1. /\ dmx' \in Dmx /\ dmx'.is_enabled = FALSE /\ dmx'.head = dmx.head
        /\ uart' \in UartType /\ uart'.rts = uart.rts /\ heard' = heard /\ armed' = armed
    BY <1>0, <1>2 DEF dmx_driver_disable, Dmx, UartType
  <2> QED
    BY <1>0, <2>1 DEF Inv, TypeOK, UartType, HeadCountsSlots, FifoOK
<1>3. CASE dmx_driver_enable
  <2>1. /\ dmx' \in Dmx /\ dmx'.head = -1
        /\ uart' \in UartType /\ heard' \in Heard /\ heard'.slots = 0 /\ armed' = armed
    <3>1. dmx' \in Dmx /\ dmx'.head = -1
      <4>1. dmx' = [dmx EXCEPT !.is_enabled = TRUE, !.head = -1]
        BY <1>3 DEF dmx_driver_enable
      <4> QED
        BY <1>0, <4>1 DEF Dmx
    <3>2. uart' \in UartType
      <4>1. uart' = [rts |-> uart.rts, fifo |-> 0, raised |-> {}] /\ uart.rts \in {0, 1}
        BY <1>0, <1>3 DEF dmx_driver_enable, UartType
      <4> QED
        BY <4>1, Sizes0 DEF UartType
    <3>3. heard' \in Heard /\ heard'.slots = 0 /\ armed' = armed
      BY <1>0, <1>3 DEF dmx_driver_enable, Heard
    <3> QED
      BY <3>1, <3>2, <3>3
  <2> QED
    BY <1>0, <2>1 DEF Inv, TypeOK, UartType, HeadCountsSlots, FifoOK
<1> QED
  BY <1>1, <1>2, <1>3

\* Every step keeps the head behind the line, whatever the bound on late notifications.
LEMMA StepReceive ==
  ASSUME Inv, [Next]_vars
  PROVE  Inv'
<1>1. CASE UNCHANGED vars
  BY <1>1 DEF vars, Inv, TypeOK, HeadCountsSlots, FifoOK
<1>2. CASE ~Halted /\ Next
  BY <1>2, BusKeeps, IsrBreakKeeps, IsrSlotsKeeps, TimerWakeKeeps, CallKeeps, PortKeeps DEF Next, Interrupt
<1> QED
  BY <1>1, <1>2 DEF Next

-----------------------------------------------------------------------------
(* A packet is handed out once.                                             *)

\* No late notification is taken back.
LEMMA StaleGrows ==
  ASSUME TypeOK, [Next]_vars, stale' = 0
  PROVE  stale = 0
<1>1. stale \in Nat
  BY Sizes0 DEF TypeOK
<1>2. stale' \in {stale, stale + 1}
  <2>1. CASE UNCHANGED vars
    BY <2>1 DEF vars
  <2>2. CASE ~Halted /\ Next
    BY <2>2 DEF Next, Bus, LineBreak, LineDisc, LineSlot, LineError, Interrupt, IsrBreak, IsrSlots,
       TimerWake, Notify, Call, Receive, Turn, Check, Register, Alarm, AlarmTooLate, Wake, Woken, Parse,
       Transmit, dmx_driver_disable, dmx_driver_enable
  <2> QED
    BY <2>1, <2>2 DEF Next
<1> QED
  BY <1>1, <1>2

\* A notification that is not late is for the call that waits.
LEMMA NotifyAwaited ==
  ASSUME NoteOK, NEW err, Notify(err), stale \in Nat, stale' = stale, task' = task
  PROVE  NoteOK' /\ (note' = note \/ note' = err)
  BY DEF Notify, NoteOK, Awaited

\* The line and the interrupts announce a packet only when it is complete for the first time.
LEMMA InterruptOnce ==
  ASSUME Inv, NoteOK, GivenOK, Bus \/ Interrupt, stale = 0, stale' = 0
  PROVE  NoteOK' /\ GivenOK'
<1>0. dmx \in Dmx /\ heard \in Heard
  BY DEF Inv, TypeOK
<1>1. CASE Bus
  <2>1. UNCHANGED <<dmx, note, task>> /\ heard'.given = heard.given
    BY <1>0, <1>1 DEF Bus, LineBreak, LineDisc, LineSlot, LineError, Delivered, Heard
  <2> QED
    BY <2>1 DEF NoteOK, GivenOK, Awaited
<1>2. CASE IsrBreak
  <2>1. heard'.given = FALSE /\ task' = task
    BY <1>2 DEF IsrBreak, Nothing
  <2>2. NoteOK'
    BY <1>2, <2>1, NotifyAwaited DEF IsrBreak, NoteOK, Awaited
  <2> QED
    BY <2>1, <2>2 DEF GivenOK
<1>3. CASE IsrSlots
  <2>1. task' = task /\ heard'.given = heard.given
    <3>1. PICK w \in BOOLEAN : heard' = [heard EXCEPT !.whole = w]
      BY <1>3 DEF IsrSlots
    <3> QED
      BY <1>0, <1>3, <3>1 DEF IsrSlots, Heard
  <2>2. NoteOK'
    <3>1. (\E err \in Errs : Notify(err)) \/ note' = note
      BY <1>3 DEF IsrSlots, Errs
    <3> QED
      BY <2>1, <3>1, NotifyAwaited DEF NoteOK, Awaited
  <2>3. CASE heard.given
    <3>1. dmx.progress = "STALE" /\ ~NotifiesFor
      BY <2>3 DEF GivenOK, NotifiesFor, Progress
    <3>2. note' = note /\ dmx' = [dmx EXCEPT !.head = NewHead, !.progress = Progress]
      BY <1>3, <3>1 DEF IsrSlots
    <3>3. dmx'.progress = "STALE"
      BY <1>0, <3>1, <3>2 DEF Progress, Dmx
    <3> QED
      BY <2>1, <2>2, <3>2, <3>3 DEF GivenOK
  <2>4. CASE ~heard.given
    BY <2>1, <2>2, <2>4 DEF GivenOK
  <2> QED
    BY <2>3, <2>4
<1>4. CASE TimerWake
  <2>1. NoteOK' /\ note' \in {note, "OK_ALARM"}
    BY <1>4, NotifyAwaited DEF TimerWake
  <2> QED
    BY <1>4, <2>1 DEF TimerWake, GivenOK
<1> QED
  BY <1>1, <1>2, <1>3, <1>4 DEF Interrupt

\* dmx_receive_num marks what it hands out as old, and takes its notification with it.
LEMMA CallOnce ==
  ASSUME Inv, NoteOK, GivenOK, Call, stale = 0, stale' = 0
  PROVE  NoteOK' /\ GivenOK'
<1>0. dmx \in Dmx /\ heard \in Heard /\ task \in Task
  BY DEF Inv, TypeOK
<1>i. Idle.pc = "idle"
  BY DEF Idle
<1>1. CASE Receive
  <2>1. task'.pc = "turn" /\ ~Awaited
    BY <1>1 DEF Receive, Idle, Awaited
  <2> QED
    BY <1>1, <2>1 DEF Receive, NoteOK, GivenOK
<1>2. CASE Turn
  <2>1. task'.pc = "check" /\ ~Awaited /\ note' \in {note, "NONE"}
    BY <1>0, <1>2 DEF Turn, Task, Awaited
  <2>2. CASE uart.rts = 0
    <3>1. heard'.given = FALSE
      BY <1>2, <2>2 DEF Turn, Nothing
    <3> QED
      BY <2>1, <3>1 DEF NoteOK, GivenOK
  <2>3. CASE uart.rts # 0
    <3>1. PICK w \in BOOLEAN : heard' = [heard EXCEPT !.whole = w]
      BY <1>2, <2>3 DEF Turn
    <3>2. heard'.given = heard.given
      BY <1>0, <3>1 DEF Heard
    <3>3. dmx.progress = "STALE" => dmx'.progress = "STALE"
      BY <1>0, <1>2, <2>3 DEF Turn, Dmx
    <3> QED
      BY <2>1, <3>2, <3>3 DEF NoteOK, GivenOK
  <2> QED
    BY <2>2, <2>3
<1>3. CASE Check
  <2>1. ~Awaited /\ UNCHANGED <<dmx, note, heard>>
    BY <1>3 DEF Check, Awaited
  <2>2. task'.pc = "parse" => dmx.progress = "COMPLETE"
    BY <1>3 DEF Check, Idle
  <2>3. task'.pc # "woken"
    BY <1>3 DEF Check, Idle
  <2> QED
    BY <2>1, <2>2, <2>3 DEF NoteOK, GivenOK
<1>4. CASE Register
  <2>1. ~Awaited /\ task'.pc \in {"alarm", "blocked"} /\ UNCHANGED <<dmx, note, heard>>
    BY <1>0, <1>4 DEF Register, Awaited, Task
  <2> QED
    BY <2>1 DEF NoteOK, GivenOK
<1>5. CASE Alarm
  <2>1. task'.pc = "blocked" /\ UNCHANGED <<dmx, note, heard>>
    BY <1>0, <1>5 DEF Alarm, Task
  <2> QED
    BY <2>1 DEF NoteOK, GivenOK, Awaited
<1>6. CASE AlarmTooLate
  <2>1. note = "NONE" /\ task'.pc = "idle" /\ UNCHANGED <<dmx, note, heard>>
    BY <1>6, <1>i DEF AlarmTooLate
  <2> QED
    BY <2>1 DEF NoteOK, GivenOK
<1>7. CASE Wake
  <2>1. note' = "NONE" /\ UNCHANGED <<dmx, heard>>
    BY <1>7 DEF Wake
  <2>2. task'.err = "OK" => note = "OK"
    BY <1>0, <1>7 DEF Wake, Task
  <2> QED
    BY <2>1, <2>2 DEF NoteOK, GivenOK
<1>8. CASE Woken
  <2>1. CASE task.err = "TIMEOUT"
    <3>1. note' = "NONE" /\ task'.pc = "idle" /\ UNCHANGED <<dmx, heard>>
      BY <1>8, <1>i, <2>1 DEF Woken, Cleared
    <3> QED
      BY <3>1 DEF NoteOK, GivenOK
  <2>2. CASE task.err # "TIMEOUT"
    <3>1. note' = note /\ task.pc = "woken" /\ UNCHANGED <<dmx, heard>> /\ task'.err = task.err
      BY <1>0, <1>8, <2>2 DEF Woken, Task
    <3>2. note = "NONE"
      BY <2>2, <3>1 DEF NoteOK, Awaited
    <3> QED
      BY <3>1, <3>2 DEF NoteOK, GivenOK
  <2> QED
    BY <2>1, <2>2
<1>9. CASE Parse
  <2>1. note = "NONE" /\ note' = note /\ task'.pc = "idle"
    BY <1>9, <1>i DEF Parse, NoteOK, Awaited
  <2>2. dmx'.progress = "STALE"
    BY <1>0, <1>9 DEF Parse, Parsed, Dmx
  <2> QED
    BY <2>1, <2>2 DEF NoteOK, GivenOK
<1> QED
  BY <1>1, <1>2, <1>3, <1>4, <1>5, <1>6, <1>7, <1>8, <1>9 DEF Call

\* What is sent is not handed out; a port that is switched on begins anew.
LEMMA PortOnce ==
  ASSUME Inv, NoteOK, GivenOK, Transmit \/ dmx_driver_disable \/ dmx_driver_enable
  PROVE  NoteOK' /\ GivenOK'
<1>0. dmx \in Dmx /\ heard \in Heard
  BY DEF Inv, TypeOK
<1>1. UNCHANGED <<note, task>>
  BY DEF Transmit, dmx_driver_disable, dmx_driver_enable
<1>2. CASE Transmit
  <2>1. heard'.given = FALSE
    BY <1>2 DEF Transmit, Nothing
  <2> QED
    BY <1>1, <2>1 DEF NoteOK, GivenOK, Awaited
<1>3. CASE dmx_driver_disable \/ dmx_driver_enable
  <2>1. dmx'.progress = dmx.progress /\ heard'.given = heard.given
    BY <1>0, <1>3 DEF dmx_driver_disable, dmx_driver_enable, Dmx, Heard
  <2> QED
    BY <1>1, <2>1 DEF NoteOK, GivenOK, Awaited
<1> QED
  BY <1>2, <1>3

\* The inductive invariant is kept.
LEMMA StepOnce ==
  ASSUME OnceInv, [Next]_vars
  PROVE  OnceInv'
<1>1. Inv'
  BY StepReceive DEF OnceInv
<1>2. ASSUME stale' = 0 PROVE NoteOK' /\ GivenOK'
  <2>1. stale = 0 /\ NoteOK /\ GivenOK /\ Inv
    BY <1>2, StaleGrows DEF OnceInv, Inv
  <2>2. CASE UNCHANGED vars
    BY <2>1, <2>2 DEF vars, NoteOK, GivenOK, Awaited
  <2>3. CASE Next /\ ~Halted
    BY <1>2, <2>1, <2>3, InterruptOnce, CallOnce, PortOnce DEF Next
  <2>4. CASE Next /\ Halted
    BY <2>2, <2>4 DEF Next
  <2> QED
    BY <2>2, <2>3, <2>4
<1> QED
  BY <1>1, <1>2 DEF OnceInv

-----------------------------------------------------------------------------
(* Theorems.                                                                *)

\* For every buffer, FIFO and packet the head, from which the size of a packet is taken,
\* counts no slot that the line has not sent since its break.
THEOREM ReceiveSafe == Spec => []ReceiveInv
<1>1. Inv => ReceiveInv
  BY DEF Inv, ReceiveInv
<1>2. Init => Inv
  BY InitReceive DEF OnceInv
<1>3. Inv /\ [Next]_vars => Inv'
  BY StepReceive
<1> QED
  BY <1>1, <1>2, <1>3, PTL DEF Spec

\* No packet is handed out twice by calls that no alarm ended.  MaxStale = 0: up to the
\* first notification that comes after its call.
THEOREM PacketsOnce == ASSUME MaxStale = 0 PROVE Spec => HandedOutOnce
<1>1. OnceInv /\ [Next]_vars => [HandsOut /\ task.err = "OK" => ~heard.given]_vars
  <2> SUFFICES ASSUME OnceInv, Next, ~(UNCHANGED vars), HandsOut, task.err = "OK" PROVE ~heard.given
    OBVIOUS
  <2>1. stale = 0
    BY DEF Next, Halted, OnceInv, Inv, TypeOK
  <2> QED
    BY <2>1 DEF OnceInv, GivenOK, HandsOut
<1> QED
  BY <1>1, InitReceive, StepOnce, PTL DEF Spec, HandedOutOnce
=============================================================================
