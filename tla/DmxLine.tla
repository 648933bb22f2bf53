------------------------------ MODULE DmxLine -------------------------------
(***************************************************************************)
(* What a DMX line promises its receivers: a packet is a break, a mark     *)
(* after break and all of its slots; the next break comes no sooner after  *)
(* it than its kind and the answer to it ask for; after an answer that was *)
(* not understood, than any packet asks for.  The promise is kept as long  *)
(* as the driver is served in time.                                        *)
(***************************************************************************)
EXTENDS Integers

CONSTANTS DmxSlots, RdmSlots,
  REQUEST_TO_REQUEST_MIN, RESPONSE_LOST_MIN, DISCOVERY_TO_REQUEST_MIN,
  DISCOVERY_TRANSACTION_MIN

VARIABLES line, since, heard, served
vars == <<line, since, heard, served>>

Kinds == {"DMX", "BCAST", "DUB", "GET", "RESPONSE"}
Length(kind) == IF kind = "DMX" THEN DmxSlots ELSE RdmSlots

Gap == CASE heard = "noise" -> REQUEST_TO_REQUEST_MIN
         [] heard # "noise" /\ line.kind = "DUB" ->
              IF heard = "answer" THEN DISCOVERY_TRANSACTION_MIN ELSE DISCOVERY_TO_REQUEST_MIN
         [] heard # "noise" /\ line.kind = "GET" ->
              IF heard = "answer" THEN REQUEST_TO_REQUEST_MIN ELSE RESPONSE_LOST_MIN
         [] OTHER -> REQUEST_TO_REQUEST_MIN

Init == /\ line = [at |-> "MARK", kind |-> "DMX", sent |-> 0] /\ since = 0
        /\ heard = "nothing" /\ served = TRUE

Break == /\ line.at = "MARK" /\ since >= Gap
         /\ \E k \in Kinds \ {"RESPONSE"} : line' = [at |-> "BREAK", kind |-> k, sent |-> 0]
         /\ heard' = "nothing"
         /\ UNCHANGED since
MarkAfterBreak == line.at = "BREAK" /\ line' = [line EXCEPT !.at = "MAB"] /\ UNCHANGED <<since, heard>>
Begin == line.at = "MAB" /\ line' = [line EXCEPT !.at = "DATA"] /\ UNCHANGED <<since, heard>>
Slot == /\ line.at = "DATA" /\ line.sent < Length(line.kind)
        /\ line' = [line EXCEPT !.sent = @ + 1]
        /\ UNCHANGED <<since, heard>>
End == /\ line.at = "DATA" /\ line.sent = Length(line.kind)
       /\ line' = [line EXCEPT !.at = "MARK"]
       /\ since' = 0
       /\ UNCHANGED heard

\* The line listens after a request that has an answer; noise may count as a packet.
Listens == line.at = "MARK" /\ line.kind \in {"DUB", "GET"}
Answer == Listens /\ heard' = "answer" /\ UNCHANGED <<line, since>>
Noise == Listens /\ heard' = "noise" /\ since' \in {since, 0} /\ UNCHANGED line
Wait == since' = since + 1 /\ UNCHANGED <<line, heard>>

Promise == Break \/ MarkAfterBreak \/ Begin \/ Slot \/ End \/ Answer \/ Noise \/ Wait
Next == (served /\ served' /\ Promise) \/ ~served'
Spec == Init /\ [][Next]_vars
=============================================================================
