# A verification project for vizzz.di

vizzz.di is ESP32 firmware that turns WiFi into DMX512: a browser console, OSC,
Art-Net and sACN control up to 512 channels of light.  This directory holds TLA+
modules that model the firmware's own logic (`src/src/main.cpp`,
`src/include/vizzz_core.h`) and the DMX and RDM driver in its tree
(`src/lib/esp_dmx`), TLC configurations that check them on small instances, and
TLAPS proofs.

## 1. Inventory

The firmware is one file and three kinds of tasks.

* The **loop task** (Arduino `loop()`) polls Art-Net, sACN and OSC, ticks the cue
  runner, computes and sends a DMX frame every 23 ms, sends and reads discovery
  beacons, sweeps the peer table, reconnects, reboots and resets.
* The **web task** (AsyncTCP) runs every HTTP route as a callback.
* The **peerBcast task** forwards fleet commands to peers over HTTP.

They share RAM, guarded by one mutex, `gLock`, taken with a timeout of 5 to 20 ms:
on failure a route answers 503 and changes nothing, the loop skips the work.
`prefs` (flash access), the pending flags, the universe and the sockets are shared
without it.

Below, the driver has a recursive mutex per port, a spinlock, one UART and one timer
interrupt, and a task notification by which they wake the task that waits.

| Component | State | Operations | Hard behaviour | Correct when |
|---|---|---|---|---|
| Level arithmetic (`vizzz_core.h`) | none | `applyMaster`, `clampLevel`, `slewToward`, fade interpolation | rounding, 8- and 32-bit widths | results stay in range, slew bounded |
| Light path | `webVals`, fade, groups, colour, effect, `artVals`, `sacnVals`, mode, master, safety profile, `outVals` | 12 routes, 6 OSC messages, two packet polls, timeout, DMX cycle | two tasks write; a recall or a save is split around flash access | ceiling and slew always hold; blackout holds; fades arrive; the output settles |
| Cue runner | `cueList`, `cueCount`, `cueIndex`, `cueRunning`, `cueNextMs` | tick, trigger, run/stop, next, count, set | one step spans three critical sections; lock timeouts; `millis()` wraps | index in range, steps shown for their time, stop stops |
| Peer table | `peers` | beacon, sweep | two clock readings, 32-bit subtraction, table full | no duplicates, only stale peers dropped, stale peers go |
| Discovery between nodes | beacons in flight | timer, answer, link up | loss, reordering, link changes | nodes meet |
| Persistence | NVS namespaces `cfg`, `scenes`, `fixtures`; global `prefs` | save, load, reboot, factory reset | no lock on `prefs`; power loss; reset against save | acknowledged data is kept, nothing lands in the wrong place |
| Fleet | queue of 8, task | `/net/*`, `/peer/cmd` | queue full after the local change, lost entries, overtaking, direct commands | the last command wins everywhere |
| WiFi link, scan | mode, link, pending flags, scan flag | start, set, forget, mode, reconnect, scan | flags tested one after the other by another task, joins that fail, a scan reset under a poll | node stays reachable, library follows the settings, a scan is answered |
| Driver, sending | `driver->dmx`, FIFO, timer, mutex | `dmx_write`, `dmx_send`, `dmx_wait_sent`, two interrupts | tasks against interrupts, timeouts against notifications, a shared buffer | whole packets at legal distances, waits end |
| Driver, receiving | head, progress, FIFO, notification | `dmx_receive_num`, the receive interrupt, disable, enable | the packet ends while the task decides whether to wait; overflow; turning the port | a packet is handed out once, its size is what arrived |
| RDM controller | stack of branches, attempts | discovery search, `rdm_send_request` | collisions, lost and garbled answers | bounded stack, each device once, none missed, it ends |
| RDM responder | parameters, staging, flash, message queue | requests, application sets, commit, install | set during commit, power loss, another firmware's flash, ring at its wrap | nothing set is lost, queue without duplicates, mute silences |
| Network inputs | sockets, stamps | packet filters, freshness test | `0` as "never", wrap, torn universe | only frames of the universe accepted |
| Effects, tap tempo | `fxMode`, `fxBpm`, `fxDepth`, taps | waveforms, tap | divisions, 8-bit wraps | levels in range, tempo in 20..240 |
| Status JSON, console, mDNS, fixtures, host tools | little of their own | formatting, I/O | - | not modelled |

The components interact through shared state: a cue step or a recall goes through
Persistence (load a scene) into the light path (start a fade); discovery fills the
peer table; the fleet task reads it; routes that change a setting call
`saveConfig`; the DMX cycle reads everything and hands its frame to the driver.

`PROJECT.json` lists the hazards at their lines with the properties that cover them.
Known and covered by none: `/set` during a fade is overwritten by the next fade update
(`main.cpp:2300`; the fade owns the layer while it runs, and `LightEngine` models it);
`lastArtnetMs == 0` means never, also in the millisecond in which `millis()` wraps
(`main.cpp:682`; `NetTimeout` may come at any moment, which covers it); the universe is
read without the lock while a route changes it (`main.cpp:2352`; which packets are
accepted is a free choice in the model); fixtures are saved and never loaded, and a
factory reset leaves them (`main.cpp:2889`; not modelled); a packet completed between the
check of `dmx_receive_num` and its registration wakes nobody until the timeout
(`io.c:178`; in `DmxReceive`, and the interface allows a timeout); `rdm_send_response`
keeps the driver's recursive mutex (`responder.c:18`; the task that answers is the one
that receives).

## 2. Plan

| Module | State |
|---|---|
| `VizzzCore`, `SafeOutput`, `LightEngine` | done; proofs in `LightEngineProofs` |
| `CueRunner`, `Settings`, `Fleet` | done; proofs in `CueRunnerProofs`, `SettingsProofs`, `FleetProofs` |
| `WifiLink`, `PeerTable` | done; proofs in `NetworkProofs` |
| `DmxLine`, `DmxSend`, `DmxReceive` | done; proofs in `DmxSendProofs`, `DmxReceiveProofs` |
| `RdmDiscovery`, `RdmParameters`, `RdmResponder` | done; proofs in `RdmProofs` |
| `Discovery` | done, model-checked (its one property is liveness) |
| The packet filters, the waveforms and the tap tempo, the fixtures | only if a property needs them, see section 8 |

Two abstract specifications are stated: `SafeOutput`, the promise to the fixtures,
independent of how a frame is computed; and `DmxLine`, the promise of the line,
independent of tasks, interrupts and buffers.  One is the level that a frame carries,
the other how a frame gets on the wire.

## 3. The modules

### The firmware

**VizzzCore** holds the pure arithmetic.  A level is `0 .. Full` (255 in the
firmware) and a shift by 8 is a multiplication or division by `Full + 1`; a
product of the fade is reduced modulo `U32` where the code computes in
`uint32_t`.

**LightEngine** is the light path of one node.  Each critical section is one
action.  `SetChannel`, `ApplyGroup` and `SetMaster` take the task as a parameter,
because a route and an OSC message have the same effect.  A scene recall is
`RecallLoad` (flash read, no lock), then `RecallStart` or `RecallBusy` (lock
timeout); a scene save is `SaveSnap`, `SaveCommit`; `job[t]` is the stack of task
`t` in between, and a busy task does nothing else.  `DmxCycle` is the whole cycle:
fade update, mix, master, ceiling, effect, slew.  `fadeElapsed` stands for
`millis() - fadeStartMs`.  Abstractions: which effect runs is a choice of levels
per channel and frame; an accepted packet is a frame, the freshness test a flag
that `NetTimeout` clears; a scene is read or written in one step (`Settings` has
the flash); Art-Net OUT sends a copy of the frame and is left out.  `lastCmd` is a
history variable.

**SafeOutput** is the promise: from one frame to the next a channel moves by at
most the slew step of the profile, and is below the ceiling or comes down at the
full rate.  `LightEngine!Promise` instantiates it with
`level <- outVals, burn <- burnSafeMode`.

**CueRunner** is `tickCueEngine` and `triggerCueStep` with one action per critical
section (`tickCueEngine`, `TriggerRead`, `TriggerStart`), on either task, a
`LockTimeout` at each of them, and the commands of both tasks.  Its unit of time is
one iteration of `loop()`: `ClockTick` waits for `SampleNow`.  `onShow` is a history
variable: how long the step on show is due and has been shown, and whether its end
lies beyond the wrap of the clock.

**PeerTable** is `pollDiscovery` and the sweep with both readings of the clock
(`loopNow`, `clock`), all differences modulo `U32`.  The loop of the sweep that moves the
peers up is one step: the peers kept, in their order.  `age` is a history field.

**Discovery** composes several nodes, each with the set of peers that its table
holds, over a network that may lose and reorder beacons.  A beacon in flight twice
to the same node is one beacon.

**Settings** is the flash, one action per call on `prefs`.  What the library does
(a `begin` on an open object fails, a put on a closed or read-only one is ignored,
`end` closes whatever is open) is external and taken from `Preferences`.
`Boot` is `setup()`: `loadConfig` with defaults, and a save of what was loaded.  The code
saves only when the firmware tag asks for it; the two differ in keys that are missing, and
a missing key reads as its default.
A recall shows its scene at once here.  `MCSettings` gives it two of the
settings' keys, enough for a save to be interrupted between two puts.

**Fleet** composes nodes that command each other.  A console's route changes the node
and enqueues (one step, or two where the code leaves the lock between them, as in
`/net/master`); `bcastTask` takes an entry, copies the table under the lock or gives
the entry up, and opens one connection after the other.  A request then is in `net`
until its peer handles it or it is lost.  A command is a number, a node is the last
command that it carried out.  `clean` is a history variable: it turns false when
something came between the last command and its peers that the code does not repair.

**WifiLink** is `startWiFi`, the four routes that change the link, the three pending
flags, the two tests of `loop()` with the call each of them makes as a step of its own,
and the scan with its flag `wifiScanActive`.  The web task acts only for a client that
reaches the node.  `/wifi/set` takes any SSID, also an empty one, which `WiFi.begin`
refuses.  What `WiFi` itself does (join, lose, scan) is external.  `lastJoin` is a history
variable: what the last `WiFi.begin` was given, and whether a forget was under way.

### The driver

**DmxSend** is the transmit path: one step per critical section or blocking point of
`dmx_write`, `dmx_send` and `dmx_wait_sent`, one per interrupt (`TimerBreak`,
`TimerMab`, `TimerWake`, `UartData`), two for the transmit-done interrupt, whose second
critical section turns the bus around (`UartDone`, `UartTurn`), one per slot shifted out of
the FIFO and one per unit of time.  Its callers are `sendDMX` and any number of tasks in
`rdm_send_request`.  An answer arrives in one step: understood (`RxAnswer`), or garbled
(`RxNoise`: a slot error, or bytes that are taken for a DMX frame, whereupon the driver
forgets the request and keeps a shorter distance to the next packet).  The interrupt may
come too late for the FIFO, which then runs dry, and transmit-done ends the packet short
(`uart.dry` records that it happened).  `line` is what is seen on the wire; `stale` counts
notifications and levels of the mutex that were left behind.

**DmxLine** is what the wire promises: break, mark after break, all slots, and after
a packet the distance that its kind and its answer ask for, as long as the driver is
`served`: nothing was left behind by a wait and the FIFO did not run dry.  `DmxSend!L`
instantiates it.

**DmxReceive** is the receive path: the line sends breaks, slots and errors, the
interrupt empties the FIFO when it comes, the task goes through `dmx_receive_num` in
steps (`Receive`, `Turn`, `Check`, `Register`, `Alarm`, `Wake`, `Woken`, `Parse`).
`heard` is a history variable: what has arrived since the break and whether it was
handed out.

**RdmDiscovery** is the search of the controller against a set of responders.  The
controller waits for each answer, so that a request, the responders' part
(`rdm_rhd_discovery`) and the answer are one step, with the faults of the bus among
its outcomes.  `discovery.c:39` hands the address of its local pointer to the request as
the place for the answer's data; what that write may damage is not modelled.

**RdmParameters** is the table of parameters as `dmx_driver_install` registers them;
**RdmResponder** is the device that has them: `Install` (which loads the flash and
checks it), requests with all their refusals, sets by the application, the queue of
changed parameters, the commit in three steps (`ReceiveExpires`: the wait of a
`dmx_receive` times out, the only place from which the code commits; `CommitPick`,
`CommitWrite`), and restarts anywhere.

## 4. The runs

| Run | Bounds | Shows |
|---|---|---|
| `light_output` | 1 channel, levels 0..4, all modes, both profiles, effects, 1 group | `OutputInv` (types, ceiling, group spans), `ImplementsSafeOutput`, `HoldLast`; `MasterKills`, `LineFollows` under fairness |
| `light_fade` | 1 channel, levels 0..3, fades of 3 and 5 ms against `U32 = 16`, so that the longer overflows the shift; two tasks recalling, saving and blacking out | `LookHolds`, `RecallExact`, `FadeBetween`, `FadeMonotone`; `FadeEnds` under fairness |
| `cue_runner` | 2 cues, clock of 4 values (wraps), all commands, lock timeouts anywhere | `RunnerInv`, `HoldTime`; `CueAdvances`, `StopSettles` under fairness |
| `peer_table` | 2 peers, 2 addresses, 2 slots, clock of 8 values, one missed sweep | `TableInv`, `DropsOnlyStale`; `StaleGoes` under fairness |
| `discovery` | 3 nodes, 2 slots, losses, expiries, link changes, `/discover` | `AllMeet` under fairness |
| `settings` | 2 keys, 1 scene, every request, both tasks, restarts anywhere | `FlashInv`, `SaveSticks`, `RecallFaithful` |
| `fleet` | 3 nodes, two of them consoles, one that comes and goes; queue of 1; 2 commands | `FleetInv` (the last command wins); `LastArrives` under fairness |
| `wifi_link` | 2 networks, 3 changes of the settings, any number of scans, link changes and restarts | `WifiInv` (a way in), `LibraryFollows`, with an empty SSID among the settings; `ScanAnswered` under fairness |
| `dmx_send` | `sendDMX` and one RDM task; frames of 3 slots, requests of 2, FIFO of 2, distances of 1 and 2; garbled answers; one thing going wrong (`MaxStale`): a late notification, a leaked level of the mutex, or the FIFO running dry | `SendInv`, `MuxBalanced`, `ImplementsDmxLine`; `LoopTurns` under fairness |
| `dmx_receive` | buffer of 3 slots, packets of 4 and of 2, FIFO of 2, every kind of packet and error | `ReceiveInv`, `HandedOutOnce` |
| `rdm_discovery` | 3-bit UIDs (1 bit of manufacturer), every set of up to 3 devices, 3 faults | `SearchInv`, `Complete`; `Ends` under fairness |
| `rdm_responder` | the installed parameters and one more, queue of 3, two firmware versions, 1 set that changes a value and 3 pushes, any number of sets of the same value | `ResponderInv`, `PersonalityExists`, `MutedIsSilent`, `ChangeIsQueued`; `AllCommitted` under fairness |

Why these bounds are enough.  The channels of a universe do not influence each other
except through groups, the colour wash and whole-frame commands, so one channel shows
the arithmetic.  Level width is a parameter: levels 0..4 have every case of the
ceiling, the slew and the rounding.  A third cue, a third task or a second scene adds
no new kind of interleaving: the actions name one index or one slot each.  A queue of
one entry is full after one command, so that with two commands a full queue, an entry
under way and a later command all meet.  A frame of three slots through a FIFO of two
needs a first fill and a refill, and may run dry between them; what comes of one late
notification (a packet begun inside another, a wait that returns at once) is followed
through any number of calls, until a second thing goes wrong.  A packet of four overflows a
buffer of three; a packet of two ends below it.  Three bits of UID give a stack its full depth
and two manufacturers, and three faults are as many as a request has attempts, so that
both sides of the limit of `Complete` are reached.  A queue of three entries wraps with
three pushes.  Setting a parameter to the value that it has stages it again, so that sets
without end are part of the run and only changes are counted.

Each property has a mutant of the code's definitions (`PROJECT.json`) under which the
same run finds it violated.

## 5. Where the code departs from its documents

Some promises in the documents and comments hold only in part.  The properties state
what does hold, and name the condition; a history variable records where it fails.

* README "hold-last on loss": the held level passes through the master again in every
  frame and decays below full.  `HoldLast` holds with the master at full.
* CURRENT "expire after 90s": the sweep compares with the `now` of the top of `loop()`,
  so that a peer heard later in the same iteration has age -1 and is dropped.
  `DropsOnlyStale` excepts it.
* CURRENT "every 30s": every beacon, also an answer, is answered, without end.
* README "Persistent config": a recall of the loop task during a `saveConfig` makes the
  save write nothing, and the other way round recalls a dark scene.  `SaveSticks` and
  `RecallFaithful` hold while no two uses of `prefs` have overlapped (`clashed`).
* "Factory reset: erase NVS and reboot" (`main.cpp:2537`): a save of the web task during
  the reset, or a pending reboot, which is looked at first, keeps settings.
* README "AP always recoverable": in `STA_ONLY` a node that loses or forgets its network
  after it has booted has no access point until it is restarted.  `Recoverable` says so:
  it has an access point, or had joined when it booted, or is about to restart.
  `/web/set` with `en=0` switches the console off, and nothing switches it on.
* `tickCueEngine` compares `now < cueNextMs` without regard to the wrap: a step whose end
  lies beyond it is due at once.  `HoldTime` holds away from a wrap.  `StopSettles` says
  that a stopped runner falls silent, not at once: a step decided on before the stop is
  still started.
* A `/wifi/forget` and a `/wifi/set` that both fall between the two tests of `loop()` are
  served in the wrong order: the node is told to join, then to disconnect.
  And `/wifi/set` asks only that there is an `ssid` (`main.cpp:2484`): an empty one is
  stored, `WiFi.begin` refuses it, and the node stays on its old network until it is
  restarted.  `LibraryFollows` holds but for these two, which `lastJoin` records.
* Fleet: a full queue answers 503 after the local change; an entry for which the lock is
  not got, or whose peer refuses, is not tried again; requests may overtake.  `LastWins`
  holds where none of it happened to the last command (`clean`).
* Driver: a `dmx_wait_sent` whose take of the mutex succeeds as its timeout ends returns
  without giving it back; a notification that comes after its wait has ended wakes a
  later one, which may then begin a packet inside another.  A FIFO that runs dry ends its
  packet short, and what is refilled afterwards raises transmit-done once more, which ends
  the next packet too.  The run follows one of these (`MaxStale`): `SendInv` and
  `MuxBalanced` hold until a wait leaves something behind, also with the FIFO dry,
  `ImplementsDmxLine` until either, and `LoopTurns` after it.  A receive that the response timer ended may return
  the size of an older packet: `HandedOutOnce` excepts it.
* RDM discovery: a request that was dropped before it was sent leaves the `ack` of an
  earlier one to be read.  `FoundOnce` and `Complete` except it (`unsent`).
* RDM queue: `rdm_queue_push` searches from the tail to the head; when the head has just
  wrapped to 0 it looks at old entries and may take a PID for queued.  `ChangeIsQueued`
  excepts that and a full queue.
* RDM parameters: a value is written to flash only when the wait of a `dmx_receive` times
  out (`io.c:244-253`), one value each time, the first that is staged.  On a line where
  packets keep coming in time nothing is ever written, and a parameter set again and again
  keeps those registered after it from the flash.  `AllCommitted` says what remains.  A
  value whose write fails is forgotten, since it was un-staged before (`touched` leaves it
  out).
* Some hazards of `PROJECT.json` are what the code does, so that a property can only name
  them as its exception; they carry a note instead of a property, or beside it.

## 6. Fairness

* `SF(DmxCycle)`: `loop()` runs for ever, and the packet budgets bring it to the
  DMX cycle however many packets wait (CURRENT.md: "cannot starve the main DMX
  loop"); a cycle that misses the lock is tried again 23 ms later, and sections
  are short.  Strong, because a recall of the loop task disables the cycle for a
  moment.
* `WF` of the clock; `WF` of the second half of a recall or a save: a task that
  left a section reaches the next.
* Cue runner: `SF` of each section, for the same reasons.  `SF(Due /\ tickCueEngine)`
  leaves out a due time in the last milliseconds before a wrap of `millis()`.
* Peer table: `WF` of the clock and of `loop()`; at most `MaxMissed` sweeps in a row
  miss the lock.
* Discovery: `SF` of delivery (a network that loses but does not cut off), `WF` of
  the 30 s timers.
* Fleet: `WF` of a route that has begun, of `bcastTask`, of one connection after the
  other (each succeeds or fails), and of the network, which delivers a request or loses it.
* WiFi link: `WF` of the boot, of a route that has begun, of `loop()` and of the end of a
  scan; `SF` of the poll, because a console polls on while routes come between.
* Driver: `WF` of the hardware as a whole (an interrupt, the shift register, time) and of
  the loop task's own calls.  Nothing is asked of the tasks that make requests, which may
  stop anywhere, also with the mutex in their hands, nor of responders.
* RDM: `WF` of the search; of the install, of the watchdog and of the two steps of a
  commit that has begun.  None of `ReceiveExpires`: that receives time out again and again
  is a premise of `AllCommitted` (`ReceivesTimeOut`), because a busy line owes it to nobody;
  the other premise is that from some point on no earlier registered parameter becomes
  staged.  Requests come or do not.
* No command, packet, recall or request is ever owed.

## 7. Proofs

All theorems hold for every value of the constants that satisfies the named
assumptions of the module.

**LightEngineProofs** begins with lemmas on the arithmetic of `VizzzCore`
(`ApplyMasterBound`, `SlewFacts`, `FadeKBound`, `FadeLevelBetween`, `FadeKMono`,
`FadeLevelMono`), which rest on the floor that `\div` is (`DivBounds`).  The theorems:

* `TypeCorrect`: `Spec => []TypeOK`, one step per action.  The content is that no
  computed level leaves `0 .. Full`.
* `CeilingHolds`, `LookIsHeld`, `RecallIsExact`, `FadeStaysBetween`: from the inductive
  invariant `LightInv == TypeOK /\ Ceiling /\ LookHolds /\ RecallExact /\ FadeBetween`.
  The parts need each other: `LookHolds` makes a frame after a blackout a
  stutter of the web layer, `TypeOK` bounds what the interpolation gets, and
  `RecallExact` survives a frame because the fade is over exactly when its target
  was copied.  `StepKinds` sorts the actions by what they do to these variables.
* `FadeIsMonotone`: the levels are always those of the fade's position (`FadeTrack`, a
  further invariant), the position never goes back as long as the 32-bit shift holds it
  (`FadeKMono`), and a level follows its position (`FadeLevelMono`).
* `HoldsLast`: of the mix, with the master at full, from what `slewToward` returns.
* `SpansAreInside`: from `TypeOK` and the second `constrain` of `GroupSpan`; and
  `OutputSafe`, which puts it together with the types and the ceiling.
* `ImplementsPromise`: `Spec => ImplementsSafeOutput`; every step is a `Frame`, a
  `SwitchProfile` or a stutter of `SafeOutput`, from `TypeOK` and `CycleFacts`.

**CueRunnerProofs**: `RunnerSafe`, `Spec => []RunnerInv`.  `RunnerInv` is inductive as it
stands; the index stays in the list because `cueCount` is never 0, `routeCueCount` resets
an index that it cuts off, and both tasks move it modulo the `cueCount` of the moment.
`HoldTimeKept`, an action property: away from a wrap, the time that the runner waits for
is the end of the step on show, by whichever task it was started (`DueWithShow`).

**SettingsProofs**: `FlashSafe`, `SettingsStick` and `RecallsAreFaithful`, from one
invariant.  It says who owns `prefs`: an object open for writing was opened by the web
task for the namespace that it writes (`Writer`), which alone gives `FlashInv`, through
all clashes.  Without a clash, `prefs` is open exactly while one task is between its
`begin` and its `end` (`Exclusive`), and the first `i - 1` keys of a save under way are in
flash (`Progress`), which gives the other two.

**NetworkProofs**: `WifiSafe`, `Spec => []WifiInv`.  `Recoverable` is not inductive: it
needs `ApKept`, that a node with only an access point and in `STA_ONLY` has a reboot under
way, because only then may `ensureStaInterface` close the access point.
`LibraryFollowsSettings`: whatever the settings ask for that the library was not told is
still with a route, a flag or the half of `loop()` that has tested one (`Follow`), or it is
the empty SSID that `WiFi.begin` refused; the set of networks may or may not hold the empty
one.

For the peer table, `PeerTableSafe`, `TableSpec => []TableInv`: a node stays in one slot
because a beacon changes the first slot that matches it, and because a sweep copies each
kept peer once.  `SweepDropsOnlyStale`, an action property, needs `AgeTrue`: the 32-bit
difference of clock and stamp is the age of a peer that is not yet old enough to be
dropped.

**FleetProofs**: `FleetSafe`, `Spec => []FleetInv`, for any fleet, any set of consoles, any
queue length and any changes of the table.  `LastWins` speaks of the end of a command's
way; the invariant follows it all along:

* `CountOK`: each command is numbered once.  A route between its two halves is counted in
  `cmds` and not yet in `sends`, hence the cardinality in it.
* `OthersOK`: no console sends to itself; `OrderOK`: queue and task of a console keep the
  order of the commands.
* `CleanOK(k)`: for a command that nothing spoiled, what carries its number is a copy of it
  (`CopiesOK`); once it was taken from the queue its console sends nothing older
  (`TakenOK`); and to every peer of the table it is on its way, or the peer shows it and
  nothing older from the same console is on its way (`Reaches`).

Each action either makes `clean` false or keeps these; `Handle` needs the order (an older
request that a peer would obey is one that overtaking or another console sent).

**DmxSendProofs**: seven parts make the invariant `Inv`.  `TypeOK`.  `CtlOK`: where a task and its
inner call can stand together.  `DriverOK`: the driver's record is the last request, or that its
answer was not understood.  `WireOK`: what record, interrupts, FIFO and line know of each
other, unless the FIFO ran dry.  `BufOK`: whose data is in the shared buffer.  `MuxOK`: the
mutex is held as often as its owner has levels to give back; `NoteOK`: who can be woken,
and that who is about to send has kept the distance.  The invariant holds until a wait
leaves something behind (`CleanInv == stale = 0 => Inv`), for every `MaxStale`.

* `MuxIsBalanced` (`MuxBalanced`) and `SendSafe` (`SendInv`), whether the FIFO runs dry or
  not and whatever answers come.
* `SendImplementsLine`: `Spec => ImplementsDmxLine`.  Every action is one of `DmxLine`'s or
  a stutter while `Served`, and that nothing was left behind and the FIFO not dry can only
  end, never begin (`ServedBefore`).

`DmxSend` assumes `EMPTY_DEFAULT < FIFO_LEN` (8 and 128 in the code): the interrupt that
asks for a refill comes while the FIFO still holds something to send.

**DmxReceiveProofs**: `ReceiveSafe`, `Spec => []ReceiveInv`; `HeadCountsSlots` needs that
head and FIFO together are no more than the slots since the break (`FifoOK`), the null slot
of a break not handled yet apart.  `PacketsOnce`, an action property, under `MaxStale = 0`:
a notification belongs to the call that waits (`NoteOK`), and a packet that was handed out
is stale and announced to nobody (`GivenOK`).

**RdmProofs**: `SearchSafe` and `SearchComplete`, for UIDs of any width.  A branch
on the stack is half as wide as the one below (`StackOK`, `BranchOK`; powers of two in
`TwoPower`), which bounds the stack; pending branches are disjoint and above all that was
reported (`FoundOK`); an unreported device is in a pending branch and answers there
(`CoverOK`, `MutedOK`); attempts are used up by faults only (`AttemptsOK`).  That the stack
has one place more than a UID has bits (49) is an assumption of `RdmDiscovery`.

For the responder, the invariant is `ResponderInd`, for every table that the installation
may build (any capacity, any extra parameters), any queue and any versions of the firmware:

* `Running`: the entries of an installed device have the type of their registration or are
  staged, and the count is the number of those that are (`DeviceOK`); a value that was set
  is staged, being written or in flash, unless its write failed (`Kept`); the personality is one
  of the firmware's; the mute byte is what the last discovery command or reset made it
  (`MuteByte`).
* `FlashOK`: a personality in flash is one that the firmware that stored it had.
  `PersonalityAlwaysExists` needs it: at the next installation the two counts are compared,
  and nothing else is.
* `QueueOK`: each place of the ring between tail and head holds a PID, and no two the same.
  `RingPush` and `RingPop` are the arithmetic of the wrap.
* `AtRest`: while there is no driver nothing is set, written or pushed.

`ReplyCases` sorts what requests do into five: nothing, mute, un-mute, set one parameter,
reset; each is one or two uses of `dmx_parameter_set` (`SetKeeps`).  A commit finds a staged
entry whenever the count says that there is one (`FirstIsStaged`).  From the invariant:
`ResponderSafe`, `PersonalityAlwaysExists`, `ChangesQueued` (an action property), and
`MutedSilent` for every capacity but 1.  A table of one entry would hold
`DISC_UNIQUE_BRANCH` without `DISC_MUTE`, whose byte the handler reads; `driver.c:101`
raises a count that is too small, but line 154 stores the one that was asked for.
The firmware leaves it at its default of 32.

Only model-checked: the liveness properties (`MasterKills`, `LineFollows`, `FadeEnds`,
`CueAdvances`, `StopSettles`, `StaleGoes`, `AllMeet`, `LastArrives`, `ScanAnswered`,
`LoopTurns`, `Ends`, `AllCommitted`); fairness is out of the prover's reach.  Every
invariant, action property and refinement that a run checks is a theorem.

## 8. Not modelled

* The packet filters of Art-Net, sACN and OSC: byte comparisons without state.  Accepted
  frames and messages are actions of `LightEngine` and `CueRunner`.
* The waveforms of the effects (one in floating point) and the tap tempo: any level is an
  effect in `LightEngine`, which is all that the promises on the output depend on.
* Fixtures: they shape one effect.
* In the driver: the bytes of a packet and their checksums (a kind and a length here),
  the setters of one register, the sniffer.  In the responder: sensors, language and
  sub-devices, which nothing in the firmware registers; labels and units.
* mDNS, the JSON snapshots, the browser console, the host tools: formatting and I/O, no
  state of the node.
