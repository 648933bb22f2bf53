---------------------------- MODULE RdmResponder ----------------------------
(***************************************************************************)
(* An RDM responder of lib/esp_dmx: the parameters of the device           *)
(* (dmx/parameter.c, dmx/service.c), their copies in the flash             *)
(* (dmx/hal/nvs.c), the queue of changed parameters                        *)
(* (rdm/responder/queue_status.c) and rdm_send_response (rdm/responder.c)  *)
(* with the handlers it calls.                                             *)
(*                                                                         *)
(* Two tasks: one receives packets, answers requests and, when nothing     *)
(* arrives, commits a parameter; the other is the application, which sets  *)
(* parameters.  One action is one critical section, but for a request,     *)
(* whose handler changes what only it changes.  Power may fail anywhere.   *)
(***************************************************************************)
EXTENDS RdmParameters, FiniteSets

CONSTANTS
  Capacity,     \* root_device_parameter_count
  Extras,       \* PIDs that the application registers
  Asked,        \* PIDs that requests ask for and the application sets
  QueueMax,     \* queue_size_max
  Counts,       \* numbers of personalities of the versions of the firmware
  Values,       \* values that requests carry and the application sets
  None,
  MaxSets,      \* bound: sets of the application, and requests that change a value
  MaxPushes     \* bound: PIDs that the application pushes without setting them

ASSUME ResponderAssumption ==
  /\ Capacity \in Nat /\ QueueMax \in Nat \ {0} /\ MaxSets \in Nat /\ MaxPushes \in Nat
  /\ Counts \subseteq Nat \ {0} /\ Values \subseteq Nat
  /\ None \notin Nat \cup [value : Values \cup {0, 1}, count : Counts \cup {0}]

Entries == Table(Capacity, Extras)
Registered == {Entries[i].pid : i \in DOMAIN Entries}
\* a PID is registered once
Entry == [pid \in Registered |-> Entries[CHOOSE i \in DOMAIN Entries : Entries[i].pid = pid]]

\* PIDs whose value changes, and the PID in whose memory each is kept
Stored == {"DISC_MUTE", "IDENTIFY_DEVICE", "DMX_START_ADDRESS", "DMX_PERSONALITY",
           "DEVICE_LABEL", "DEVICE_HOURS", "LAMP_HOURS", "RESET_DEVICE"} \cap Registered
\* MUTANT: un-mute has memory of its own
CellOwn(pid) == pid

Cell(pid) == IF pid = "DISC_UN_MUTE" THEN "DISC_MUTE" ELSE pid
\* PIDs with a function rdm_set_... for the application
Announced == {p \in Stored \cap Asked : Entry[p].cc = "GET_SET"}
NonVolatile == {p \in Stored : Entry[p].type = "NON_VOLATILE"}

VARIABLES
  installed,
  dev,          \* the device: data and type of each entry, number of staged entries,
                \* and the personality count of the firmware
  nvs,          \* the flash
  queue,
  app,          \* application: "idle", "hung", or the PID that it will push next
  committing,   \* receiving task: "due" when a receive has timed out, then the PID that
                \* it writes to flash; "none" in a receive
  sets, pushes, \* history: sets counted for MaxSets, PIDs pushed by themselves
  touched,      \* history: non-volatile PIDs set since the driver was installed, less those
                \* whose write to the flash failed
  hushed        \* history: was the last of mute, un-mute and reset a mute?

responderVars == <<installed, dev, nvs, queue, app, committing,
          sets, pushes, touched, hushed>>

Slot == 0 .. QueueMax - 1
Value == Values \cup {0, 1}
Types == {"NON_VOLATILE", "NON_VOLATILE_STAGED", "DYNAMIC"}

ResponderTypeOK ==
  /\ installed \in BOOLEAN
  /\ dev \in [data : [Stored -> Value], type : [Stored -> Types],
              staged : 0 .. Cardinality(NonVolatile), count : Counts \cup {0}]
  /\ nvs \in [NonVolatile -> {None} \cup [value : Value, count : Counts \cup {0}]]
  /\ queue \in [head : Slot, tail : Slot, data : [Slot -> Stored \cup {"none"}]]
  /\ app \in Stored \cup {"idle", "hung"} /\ committing \in NonVolatile \cup {"none", "due"}
  /\ sets \in 0 .. MaxSets /\ pushes \in 0 .. MaxPushes
  /\ touched \subseteq NonVolatile
  /\ hushed \in BOOLEAN

(***************************************************************************)
(* dmx_driver_install.  A value in flash is used by the registrations that *)
(* look for one.  A personality is used only if the firmware has as many   *)
(* personalities as the one that stored it.  A start address would be      *)
(* reset to 1 if the channels of the personality did not fit behind it,    *)
(* but the personality is registered later and counts as none.             *)
(***************************************************************************)
DMX_PACKET_SIZE_MAX == 1 + CHOOSE v \in Values : \A w \in Values : w <= v

\* personality n of the application takes n channels
dmx_get_footprint(n) == n

\* MUTANT: whatever the firmware that stored it
LoadPersonalityAny(stored, n) == IF stored # None THEN stored.value ELSE 1

LoadPersonality(stored, n) ==
  IF stored # None /\ stored.count = n THEN stored.value ELSE 1

dmx_get_current_personality(n) ==
  IF \E i, j \in DOMAIN Entries : /\ i < j
                                 /\ Entries[i].pid = "DMX_PERSONALITY"
                                 /\ Entries[j].pid = "DMX_START_ADDRESS"
  THEN LoadPersonality(nvs["DMX_PERSONALITY"], n)
  ELSE 0

LoadAddress(stored, personality) ==
  IF \/ stored = None
     \/ /\ personality > 0
        /\ stored.value + dmx_get_footprint(personality) > DMX_PACKET_SIZE_MAX
  THEN 1
  ELSE stored.value

Loaded(p, n) ==
  CASE p = "DMX_PERSONALITY" -> LoadPersonality(nvs[p], n)
    [] p = "DMX_START_ADDRESS" -> LoadAddress(nvs[p], dmx_get_current_personality(n))
    [] OTHER -> IF Entry[p].loads /\ nvs[p] # None THEN nvs[p].value ELSE Entry[p].init

NoDevice ==
  [data |-> [p \in Stored |-> 0], type |-> [p \in Stored |-> Entry[p].type], staged |-> 0,
   count |-> 0]
EmptyQueue ==
  [head |-> 0, tail |-> 0, data |-> [i \in 0 .. QueueMax - 1 |-> "none"]]

Install ==
  /\ ~installed
  /\ installed' = TRUE
  /\ \E n \in Counts :
       dev' = [data |-> [p \in Stored |-> IF p \in NonVolatile THEN Loaded(p, n)
                                                                  ELSE Entry[p].init],
                  type |-> [p \in Stored |-> Entry[p].type],
                  staged |-> 0, count |-> n]
  /\ UNCHANGED <<nvs, queue, app, committing, sets, pushes, touched,
                 hushed>>

\* dmx_driver_delete, power failure, an abort, the watchdog: what is not in flash is gone
Restart ==
  /\ installed' = FALSE /\ dev' = NoDevice /\ queue' = EmptyQueue
  /\ app' = "idle" /\ committing' = "none"
  /\ touched' = {} /\ hushed' = FALSE
  /\ UNCHANGED <<nvs, sets, pushes>>

Stops == installed /\ app # "hung" /\ Restart
Watchdog == installed /\ app = "hung" /\ Restart

(***************************************************************************)
(* dmx_parameter_set, on a device d                                        *)
(***************************************************************************)
dmx_parameter_set(d, p, v) ==
  [d EXCEPT !.data[Cell(p)] = v,
            !.type[Cell(p)] = IF @ = "NON_VOLATILE" THEN "NON_VOLATILE_STAGED" ELSE @,
            !.staged = @ + IF d.type[Cell(p)] = "NON_VOLATILE" THEN 1 ELSE 0]

(***************************************************************************)
(* The handlers: the reply to a request, and the parameters that it sets.  *)
(* A request carries a value or, when its parameter data is empty, None.   *)
(* They are called for the root device only: no other device exists.       *)
(***************************************************************************)
rdm_write_ack(writes) == [reply |-> "ack", writes |-> writes]
Nack == [reply |-> "nack", writes |-> <<>>]
Silence == [reply |-> "none", writes |-> <<>>]

\* rdm_rhd_discovery.  inside: is the UID within the bounds of the branch?
rdm_rhd_discovery(r) ==
  CASE r.pid = "DISC_UNIQUE_BRANCH" ->
         IF dev.data["DISC_MUTE"] # 0 \/ r.value = None \/ ~r.inside
         THEN Silence ELSE rdm_write_ack(<<>>)
    [] r.pid = "DISC_MUTE" -> rdm_write_ack(<< <<r.pid, 1>> >>)
    [] r.pid = "DISC_UN_MUTE" -> rdm_write_ack(<< <<r.pid, 0>> >>)

\* rdm_simple_response_handler: no range is checked, an empty value sets nothing
rdm_simple_response_handler(r) ==
  rdm_write_ack(IF r.cc = "GET" \/ r.value = None THEN <<>> ELSE << <<r.pid, r.value>> >>)

rdm_rhd_set_dmx_personality(r) ==
  IF r.value = None \/ r.value \notin 1 .. dev.count THEN Nack
  ELSE rdm_write_ack(<< <<r.pid, r.value>> >>)

rdm_rhd_get_dmx_personality_description(r) ==
  IF r.value = None \/ r.value \notin 1 .. dev.count THEN Nack ELSE rdm_write_ack(<<>>)

\* RDM_RESET_TYPE_WARM, RDM_RESET_TYPE_COLD
ResetTypes == {1, 255}

rdm_rhd_set_reset_device(r) ==
  IF r.value = None \/ r.value \notin ResetTypes THEN Nack
  ELSE rdm_write_ack(<< <<r.pid, r.value>>, <<"DISC_MUTE", 0>> >>)

rdm_rhd_get_device_info(r) == rdm_write_ack(<<>>)
rdm_rhd_get_supported_parameters(r) == rdm_write_ack(<<>>)

\* only parameters of a manufacturer are described, and there are none
rdm_rhd_get_parameter_description(r) == Nack

\* without data; with data it never returns, see Aborts
rdm_rhd_get_queued_message(r) == Nack

Handled(handler, r) ==
  CASE handler = "discovery" -> rdm_rhd_discovery(r)
    [] handler = "simple" -> rdm_simple_response_handler(r)
    [] handler = "personality" -> rdm_rhd_set_dmx_personality(r)
    [] handler = "description" -> rdm_rhd_get_dmx_personality_description(r)
    [] handler = "reset" -> rdm_rhd_set_reset_device(r)
    [] handler = "device_info" -> rdm_rhd_get_device_info(r)
    [] handler = "supported" -> rdm_rhd_get_supported_parameters(r)
    [] handler = "parameter_description" -> rdm_rhd_get_parameter_description(r)
    [] handler = "queued" -> rdm_rhd_get_queued_message(r)

(***************************************************************************)
(* rdm_send_response.  What is not for this device changes nothing.        *)
(***************************************************************************)
Request(cc, pid, dest, sub, value, inside) ==
  [cc |-> cc, pid |-> pid, dest |-> dest, sub |-> sub, value |-> value, inside |-> inside]

Requests ==
  {Request("SET", pid, "device", "ROOT", v, TRUE) : pid \in Asked, v \in Values \cup {None}}
  \cup {Request("GET", pid, "device", "ROOT", 0, TRUE) : pid \in Asked}
  \cup {Request("DISC", pid, "broadcast", "ROOT", 0, TRUE) : pid \in Asked}
  \cup {Request("GET", "DMX_PERSONALITY_DESCRIPTION", "device", "ROOT", v, TRUE) : v \in Values}
  \cup {Request("GET", "QUEUED_MESSAGE", "device", "ROOT", v, TRUE) : v \in {0, None}}
  \cup {Request("SET", "IDENTIFY_DEVICE", "device", sub, 0, TRUE) : sub \in {"SUB", "ALL"}}
  \cup {Request("SET", "IDENTIFY_DEVICE", "broadcast", "ROOT", 0, TRUE),
        Request("SET", "RESET_DEVICE", "device", "ROOT", 1, TRUE),
        Request("DISC", "DISC_UNIQUE_BRANCH", "device", "ROOT", 0, TRUE),
        Request("DISC", "DISC_UNIQUE_BRANCH", "broadcast", "ROOT", 0, FALSE),
        Request("GET", "SUPPORTED_PARAMETERS", "device", "ROOT", None, TRUE),
        Request("GET", "UNKNOWN", "device", "ROOT", None, TRUE)}

\* An assertion of dmx_device_get fails for all sub-devices; rdm_read_pd reads the
\* format of a queued message request through a null pointer.
Aborts(r) ==
  \/ r.sub = "ALL"
  \/ r.sub = "ROOT" /\ r.pid = "QUEUED_MESSAGE" /\ r.cc = "GET" /\ r.value # None

WrongClass(cc, r) ==
  \/ cc = "GET_SET" /\ r.cc = "DISC"
  \/ cc = "GET" /\ r.cc # "GET"
  \/ cc = "SET" /\ r.cc # "SET"

Reply(r) ==
  IF r.sub # "ROOT" \/ r.pid \notin Registered THEN Nack
  ELSE LET entry == Entry[r.pid]
       IN  CASE entry.cc = "DISC" /\ r.cc # "DISC" -> Silence
             [] WrongClass(entry.cc, r) -> Nack
             [] OTHER -> Handled(IF r.cc = "SET" THEN entry.set ELSE entry.get, r)

\* a request that the handler leaves unanswered and that is not a broadcast is a fault
HandlerFault(r) ==
  /\ r.sub = "ROOT" /\ r.pid \in Registered /\ r.dest = "device"
  /\ Entry[r.pid].cc = "DISC" => r.cc = "DISC"
  /\ Reply(r).reply = "none"

Sends(r) ==
  /\ Reply(r).reply # "none" \/ HandlerFault(r)
  /\ r.dest = "broadcast" => r.pid = "DISC_UNIQUE_BRANCH"

Write(d, w) == IF Cell(w[1]) \in Stored THEN dmx_parameter_set(d, w[1], w[2]) ELSE d

\* a handler sets two parameters at most
ApplyWrites(d, writes) ==
  CASE Len(writes) = 0 -> d
    [] Len(writes) = 1 -> Write(d, writes[1])
    [] Len(writes) = 2 -> Write(Write(d, writes[1]), writes[2])

\* A request may set the value that is there for ever; the others are counted, for MaxSets.
Counted(pids) ==
  IF \A p \in pids \ {"DISC_MUTE"} : dev'.data[p] = dev.data[p] THEN UNCHANGED sets
  ELSE sets < MaxSets /\ sets' = sets + 1

rdm_send_response(r) ==
  /\ installed /\ app # "hung" /\ committing = "none"
  /\ IF Aborts(r) THEN Restart
     ELSE LET writes == Reply(r).writes
              written == {Cell(writes[i][1]) : i \in DOMAIN writes} \cap Stored
          IN  /\ dev' = ApplyWrites(dev, writes)
              /\ Counted(written)
              /\ touched' = touched \cup (written \cap NonVolatile)
              /\ hushed' = IF /\ Reply(r).reply = "ack"
                              /\ r.pid \in {"DISC_MUTE", "DISC_UN_MUTE", "RESET_DEVICE"}
                           THEN r.pid = "DISC_MUTE" ELSE hushed
              /\ UNCHANGED <<installed, nvs, queue, app, committing, pushes>>

(***************************************************************************)
(* dmx_receive calls dmx_parameter_commit only when its wait ends with no  *)
(* packet (io.c:244-253): not after a packet, nor after one of its earlier *)
(* returns.  The mutex is free by then.  The entry is no longer staged     *)
(* when it is written; its value is read then.                             *)
(***************************************************************************)
FirstStaged ==
  LET S == {i \in DOMAIN Entries :
              /\ Entries[i].pid \in Stored
              /\ dev.type[Entries[i].pid] = "NON_VOLATILE_STAGED"}
  IN  Entries[CHOOSE i \in S : \A j \in S : i <= j].pid

\* MUTANT: skips the last staged entry
NothingStagedLast == dev.staged <= 1

NothingStaged == dev.staged = 0

ReceiveExpires ==
  /\ installed /\ app # "hung" /\ committing = "none"
  /\ committing' = "due"
  /\ UNCHANGED <<installed, dev, nvs, queue, app, sets, pushes, touched, hushed>>

\* MUTANT: nothing stays staged
CommitPickAll ==
  /\ installed /\ app # "hung" /\ committing = "due"
  /\ committing' = IF NothingStaged THEN "none" ELSE FirstStaged
  /\ dev' = [dev EXCEPT !.type = [p \in Stored |-> Entry[p].type], !.staged = 0]
  /\ UNCHANGED <<installed, nvs, queue, app, sets, pushes, touched, hushed>>

CommitPick ==
  /\ installed /\ app # "hung" /\ committing = "due"
  /\ IF NothingStaged THEN committing' = "none" /\ UNCHANGED dev
     ELSE /\ committing' = FirstStaged
          /\ dev' = [dev EXCEPT !.type[FirstStaged] = "NON_VOLATILE", !.staged = @ - 1]
  /\ UNCHANGED <<installed, nvs, queue, app, sets, pushes, touched, hushed>>

\* dmx_nvs_set: the result is not looked at
CommitWrite(ok) ==
  /\ installed /\ app # "hung" /\ committing \in NonVolatile
  /\ nvs' = IF ok THEN [nvs EXCEPT ![committing] =
                          [value |-> dev.data[committing],
                           count |-> IF committing = "DMX_PERSONALITY" THEN dev.count ELSE 0]]
            ELSE nvs
  /\ touched' = IF ok THEN touched ELSE touched \ {committing}
  /\ committing' = "none"
  /\ UNCHANGED <<installed, dev, queue, app, sets, pushes, hushed>>

(***************************************************************************)
(* The queue: a ring of QueueMax entries, of which one stays free.         *)
(***************************************************************************)
rdm_queue_size ==
  IF queue.head >= queue.tail THEN queue.head - queue.tail
  ELSE queue.head - queue.tail + QueueMax

QueueIndex(k) == (queue.tail + k) % QueueMax
Queued == {queue.data[QueueIndex(k)] : k \in 0 .. rdm_queue_size - 1}

(***************************************************************************)
(* The loop of rdm_queue_push that looks for the PID wraps its index       *)
(* inside its body, after the test against the head: when the head is 0    *)
(* and the tail is not, it reads every entry and never meets the head.     *)
(***************************************************************************)
NeverMeetsHead == queue.head = 0 /\ queue.tail > 0

Scanned ==
  IF NeverMeetsHead THEN 0 .. QueueMax - 1
  ELSE {QueueIndex(k) : k \in 0 .. rdm_queue_size - 1}

already_queued(pid) == \E i \in Scanned : queue.data[i] = pid

\* MUTANT: a tail of 0 is not seen
QueueFullNoWrap == queue.head + 1 = queue.tail

QueueFull == (queue.head + 1) % QueueMax = queue.tail

Enqueued(pid) ==
  IF QueueFull THEN queue
  ELSE [queue EXCEPT !.data[queue.head] = pid, !.head = (@ + 1) % QueueMax]

\* after a set, or by itself
rdm_queue_push(p) ==
  /\ installed
  /\ \/ app = p /\ UNCHANGED pushes
     \/ app = "idle" /\ pushes < MaxPushes /\ pushes' = pushes + 1
  /\ IF already_queued(p) THEN app' = "idle" /\ UNCHANGED queue
     ELSE IF NeverMeetsHead THEN app' = "hung" /\ UNCHANGED queue
     ELSE app' = "idle" /\ queue' = Enqueued(p)
  /\ UNCHANGED <<installed, dev, nvs, committing, sets, touched, hushed>>

rdm_queue_pop ==
  /\ installed /\ app = "idle" /\ rdm_queue_size > 0
  /\ queue' = [queue EXCEPT !.tail = (@ + 1) % QueueMax]
  /\ UNCHANGED <<installed, dev, nvs, app, committing, sets, pushes,
                 touched, hushed>>

(***************************************************************************)
(* The application sets a parameter (rdm_set_...), then pushes its PID.    *)
(***************************************************************************)
Accepts(p, v) ==
  CASE p = "DMX_START_ADDRESS" -> v > 0 /\ v < DMX_PACKET_SIZE_MAX
    [] p = "DMX_PERSONALITY" -> v \in 1 .. dev.count
    [] p = "IDENTIFY_DEVICE" -> v \in {0, 1}
    [] OTHER -> TRUE

AppSet(p, v) ==
  /\ installed /\ app = "idle" /\ Accepts(p, v)
  /\ dev' = dmx_parameter_set(dev, p, v)
  /\ sets < MaxSets /\ sets' = sets + 1
  /\ app' = p
  /\ touched' = touched \cup {p}
  /\ UNCHANGED <<installed, nvs, queue, committing, pushes, hushed>>

ResponderInit ==
  /\ installed = FALSE
  /\ dev = NoDevice
  /\ nvs = [p \in NonVolatile |-> None]
  /\ queue = EmptyQueue /\ app = "idle" /\ committing = "none"
  /\ sets = 0 /\ pushes = 0 /\ touched = {} /\ hushed = FALSE

ResponderNext ==
  \/ Install
  \/ Stops
  \/ Watchdog
  \/ \E r \in Requests : rdm_send_response(r)
  \/ ReceiveExpires
  \/ CommitPick
  \/ \E ok \in BOOLEAN : CommitWrite(ok)
  \/ \E p \in Announced, v \in Values : AppSet(p, v)
  \/ \E p \in Announced : rdm_queue_push(p)
  \/ rdm_queue_pop

(***************************************************************************)
(* A task that has called dmx_parameter_commit comes to its end, the       *)
(* interrupt watchdog of the chip restarts it, and so does the system.     *)
(* Whether a receive ever times out is for the line to say.                *)
(***************************************************************************)
ResponderFairness ==
  /\ WF_responderVars(Install) /\ WF_responderVars(Watchdog)
  /\ WF_responderVars(CommitPick) /\ WF_responderVars(CommitWrite(TRUE) \/ CommitWrite(FALSE))

ResponderSpec == ResponderInit /\ [][ResponderNext]_responderVars /\ ResponderFairness

(***************************************************************************)
(* The count that dmx_parameter_commit trusts (parameter.c:172) is the     *)
(* number of entries that are staged, however sets of two tasks and        *)
(* commits interleave.                                                     *)
(***************************************************************************)
StagedCount ==
  installed =>
    dev.staged = Cardinality({p \in NonVolatile : dev.type[p] = "NON_VOLATILE_STAGED"})

(***************************************************************************)
(* A value set since the driver was installed is in the flash, or is       *)
(* staged, or is being written, unless its write failed: a set that comes  *)
(* while the entry is written is not lost (parameter.c:154-160, 183-200).  *)
(***************************************************************************)
NothingForgotten ==
  installed =>
    \A p \in touched :
      \/ dev.type[p] = "NON_VOLATILE_STAGED" \/ committing = p
      \/ nvs[p] # None /\ nvs[p].value = dev.data[p]

(***************************************************************************)
(* The personality is one that this firmware has, whatever an earlier      *)
(* firmware stored (dmx_setup.c:112-119) and whoever sets it.              *)
(***************************************************************************)
PersonalityExists ==
  installed /\ "DMX_PERSONALITY" \in Stored => dev.data["DMX_PERSONALITY"] \in 1 .. dev.count

(***************************************************************************)
(* A PID is queued once, and the queue is never taken for empty when it    *)
(* is full (queue_status.c:117-138).                                       *)
(***************************************************************************)
QueueOnce ==
  /\ Cardinality(Queued) = rdm_queue_size
  /\ "none" \notin Queued

\* The responder at every step: the count of staged parameters is right, every staged
\* value is saved or still staged, and the queue holds each PID once.
ResponderInv == ResponderTypeOK /\ StagedCount /\ NothingForgotten /\ QueueOnce

(***************************************************************************)
(* A device answers a branch that holds it until it is muted, and from     *)
(* then on is silent until it is un-muted or reset: the commands share     *)
(* one byte (discovery.c:119-134, 163-177, device_control.c:24-27).        *)
(***************************************************************************)
MutedIsSilent ==
  installed =>
    (Sends(Request("DISC", "DISC_UNIQUE_BRANCH", "broadcast", "ROOT", 0, TRUE)) <=> ~hushed)

(***************************************************************************)
(* When rdm_queue_push returns, a controller can learn of the change: the  *)
(* PID is in the queue, unless the queue was full or its head had just     *)
(* wrapped to 0, where the search looks at old entries                     *)
(* (queue_status.c:119-131).                                               *)
(***************************************************************************)
ChangeIsQueued ==
  [][(app \in Stored /\ app' = "idle" /\ installed') =>
       (app \in Queued' \/ QueueFull \/ NeverMeetsHead)]_responderVars

(***************************************************************************)
(* Where receives keep timing out, a staged value is written, or the       *)
(* driver starts anew, as long as the parameters registered before it are  *)
(* left alone: each timeout writes one parameter, the first of the table   *)
(* that is staged (parameter.c:183-200).  On a line where a packet arrives *)
(* before each timeout nothing is ever written, and a parameter set again  *)
(* and again keeps the ones behind it from the flash.                      *)
(***************************************************************************)
ReceivesTimeOut == []<>(committing = "due")

Position(pid) == CHOOSE i \in DOMAIN Entries : Entries[i].pid = pid
Earlier(pid) == {p \in NonVolatile : Position(p) < Position(pid)}
Staged(pid) == dev.type[pid] = "NON_VOLATILE_STAGED"
EarlierSet(pid) == \E p \in Earlier(pid) : ~Staged(p) /\ Staged(p)'

AllCommitted ==
  \A p \in Announced \cap NonVolatile :
    /\ ReceivesTimeOut
    /\ <>[][~EarlierSet(p)]_responderVars
    => (installed /\ Staged(p) ~> ~installed \/ ~Staged(p))
=============================================================================
