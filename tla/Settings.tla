------------------------------ MODULE Settings ------------------------------
(***************************************************************************)
(* What survives a restart (src/main.cpp): the settings in the namespace   *)
(* "cfg" and the scenes in the namespace "scenes" of the NVS flash, and    *)
(* the restarts themselves: /reboot, factory reset, loss of power.         *)
(*                                                                         *)
(* Every access but the factory reset's goes through the one global object *)
(* prefs: begin, some gets or puts, end.  No lock guards it, and two tasks *)
(* use it: the web task (saveConfig, saveScene, loadScene) and the loop    *)
(* task (loadScene for OSC and the cue runner).  Each call on prefs is one *)
(* step.  Preferences is a library: begin fails, and changes nothing, when *)
(* the object is already open; a put needs an object open for writing; a   *)
(* get on a missing key returns nothing; end closes whatever is open.      *)
(***************************************************************************)
EXTENDS Integers, Sequences

CONSTANTS
  CfgKeys,       \* the keys of saveConfig, in the order they are written
  Vals, Default, \* values of a setting, and the one of a blank node
  SceneKeys,     \* "s0" .. "s7"
  Looks,         \* looks of the web layer other than Dark
  Dark, Unset,   \* all channels at 0; no such key in flash
  Requests,      \* subset of {"cfg", "look", "save", "recall", "reboot", "reset"}
  LoopRecalls,   \* does the loop task recall scenes (OSC, cues)?
  PowerLoss      \* may the power fail?

ASSUME SettingsAssumption ==
  /\ CfgKeys \in Seq(STRING) /\ CfgKeys # << >>
  /\ Default \in Vals
  /\ \A i \in DOMAIN CfgKeys : CfgKeys[i] \notin SceneKeys
  /\ Unset \notin Vals \cup Looks \cup {Dark}
  /\ Requests \subseteq {"cfg", "look", "save", "recall", "reboot", "reset"}
  /\ LoopRecalls \in BOOLEAN
  /\ PowerLoss \in BOOLEAN

VARIABLES
  ram,           \* the settings in RAM
  webLook,       \* the web layer
  flash,         \* NVS: flash[namespace][key]
  prefs,         \* the global Preferences object
  job,           \* what each task is doing with prefs
  pendingReboot, pendingFactoryReset,
  resetPc,       \* where loop() stands in a factory reset
  everSaved,     \* history: the looks that /scene/save was asked to keep, by key
  clashed        \* history: have two uses of prefs overlapped since the node booted?

vars == <<ram, webLook, flash, prefs, job, pendingReboot, pendingFactoryReset, resetPc,
          everSaved, clashed>>

Task  == {"web", "loop"}
Cfg   == {CfgKeys[i] : i \in DOMAIN CfgKeys}
Names == {"cfg", "scenes"}
AllLooks == Looks \cup {Dark}

Idle == [op |-> "none", stage |-> "begin", i |-> 1, key |-> "none", look |-> Dark,
         reboot |-> FALSE]
Closed == [open |-> FALSE, ns |-> "cfg", ro |-> TRUE]

Job == [op : {"none", "saveConfig", "saveScene", "loadScene"},
        stage : {"begin", "work", "end"}, i : 1 .. Len(CfgKeys) + 1,
        key : SceneKeys \cup {"none"}, look : AllLooks, reboot : BOOLEAN]

TypeOK ==
  /\ ram \in [Cfg -> Vals]
  /\ webLook \in AllLooks
  /\ flash \in [Names -> [Cfg \cup SceneKeys -> Vals \cup AllLooks \cup {Unset}]]
  /\ prefs \in [open : BOOLEAN, ns : Names, ro : BOOLEAN]
  /\ job \in [Task -> Job]
  /\ pendingReboot \in BOOLEAN
  /\ pendingFactoryReset \in BOOLEAN
  /\ resetPc \in {"none", "clearCfg", "clearScenes", "restart"}
  /\ everSaved \in [SceneKeys -> SUBSET AllLooks]
  /\ clashed \in BOOLEAN

Blank == [k \in Cfg \cup SceneKeys |-> Unset]

\* A node that has booted on default settings and no scene.
Init ==
  /\ ram = [k \in Cfg |-> Default]
  /\ webLook = Dark
  /\ flash = [n \in Names |-> IF n = "cfg"
                              THEN [k \in Cfg \cup SceneKeys |-> IF k \in Cfg THEN Default
                                                                 ELSE Unset]
                              ELSE Blank]
  /\ prefs = Closed
  /\ job = [t \in Task |-> Idle]
  /\ pendingReboot = FALSE /\ pendingFactoryReset = FALSE
  /\ resetPc = "none"
  /\ everSaved = [k \in SceneKeys |-> {}]
  /\ clashed = FALSE

Free(t) == job[t].op = "none" /\ (t = "loop" => resetPc = "none")

-----------------------------------------------------------------------------
(* The library calls.                                                       *)

\* mutant: a scene is opened for writing, also to be read
OpenForWriting(op) == FALSE

ReadOnly(op) == op = "loadScene"

\* mutant: a recall opens the namespace of the settings
NamespaceShared(op) == IF op = "saveScene" THEN "scenes" ELSE "cfg"

Namespace(op) == IF op = "saveConfig" THEN "cfg" ELSE "scenes"

\* prefs.begin(namespace, readOnly)
Begin(t) ==
  /\ job[t].op # "none" /\ job[t].stage = "begin"
  /\ prefs' = IF prefs.open THEN prefs
              ELSE [open |-> TRUE, ro |-> ReadOnly(job[t].op), ns |-> Namespace(job[t].op)]
  /\ clashed' = (clashed \/ prefs.open)
  /\ job' = [job EXCEPT ![t].stage = "work"]
  /\ UNCHANGED <<ram, webLook, flash, pendingReboot, pendingFactoryReset, resetPc, everSaved>>

\* flash after a put, which an object that is closed or read-only ignores
Put(key, v) == IF prefs.open /\ ~prefs.ro THEN [flash EXCEPT ![prefs.ns][key] = v] ELSE flash

\* mutant: the last key is left out
saveConfigShort ==
  /\ job["web"].op = "saveConfig" /\ job["web"].stage = "work"
  /\ LET i == job["web"].i
     IN  /\ flash' = IF i < Len(CfgKeys) THEN Put(CfgKeys[i], ram[CfgKeys[i]]) ELSE flash
         /\ job' = [job EXCEPT !["web"].i = i + 1,
                               !["web"].stage = IF i = Len(CfgKeys) THEN "end" ELSE @]
  /\ UNCHANGED <<ram, webLook, prefs, pendingReboot, pendingFactoryReset, resetPc, everSaved, clashed>>

\* saveConfig: one key after the other
saveConfig ==
  /\ job["web"].op = "saveConfig" /\ job["web"].stage = "work"
  /\ LET i == job["web"].i
     IN  /\ flash' = Put(CfgKeys[i], ram[CfgKeys[i]])
         /\ job' = [job EXCEPT !["web"].i = i + 1,
                               !["web"].stage = IF i = Len(CfgKeys) THEN "end" ELSE @]
  /\ UNCHANGED <<ram, webLook, prefs, pendingReboot, pendingFactoryReset, resetPc, everSaved, clashed>>

saveScene ==
  /\ job["web"].op = "saveScene" /\ job["web"].stage = "work"
  /\ flash' = Put(job["web"].key, job["web"].look)
  /\ job' = [job EXCEPT !["web"].stage = "end"]
  /\ UNCHANGED <<ram, webLook, prefs, pendingReboot, pendingFactoryReset, resetPc, everSaved, clashed>>

\* what prefs.getBytes finds
Got(key) == IF prefs.open THEN flash[prefs.ns][key] ELSE Unset

\* mutant: the length that getBytes returns is not looked at, the buffer is not initialised
loadSceneUnchecked(t) ==
  /\ job[t].op = "loadScene" /\ job[t].stage = "work"
  /\ \E buffer \in AllLooks :
       job' = [job EXCEPT ![t].stage = "end",
                          ![t].look = IF Got(job[t].key) = Unset THEN buffer ELSE Got(job[t].key)]
  /\ UNCHANGED <<ram, webLook, flash, prefs, pendingReboot, pendingFactoryReset, resetPc,
                 everSaved, clashed>>

\* mutant: a missing scene is handed on as it is
loadSceneRaw(t) ==
  /\ job[t].op = "loadScene" /\ job[t].stage = "work"
  /\ job' = [job EXCEPT ![t].stage = "end", ![t].look = Got(job[t].key)]
  /\ UNCHANGED <<ram, webLook, flash, prefs, pendingReboot, pendingFactoryReset, resetPc,
                 everSaved, clashed>>

\* loadScene: a scene that is not found whole is dark
loadScene(t) ==
  /\ job[t].op = "loadScene" /\ job[t].stage = "work"
  /\ job' = [job EXCEPT ![t].stage = "end",
                        ![t].look = IF Got(job[t].key) = Unset THEN Dark ELSE Got(job[t].key)]
  /\ UNCHANGED <<ram, webLook, flash, prefs, pendingReboot, pendingFactoryReset, resetPc,
                 everSaved, clashed>>

\* prefs.end(), and what the caller does next: the answer, a reboot, or the recall of
\* the scene (unless gLock is not got in time)
End(t) ==
  /\ job[t].stage = "end"
  /\ prefs' = [prefs EXCEPT !.open = FALSE]
  /\ webLook' \in IF job[t].op = "loadScene" THEN {job[t].look, webLook} ELSE {webLook}
  /\ pendingReboot' = (pendingReboot \/ job[t].reboot)
  /\ job' = [job EXCEPT ![t] = Idle]
  /\ UNCHANGED <<ram, flash, pendingFactoryReset, resetPc, everSaved, clashed>>

-----------------------------------------------------------------------------
(* Requests.                                                                *)

\* the routes that change a setting in RAM and call saveConfig; /netmode/set and
\* /web/set reboot afterwards
SetCfg(k, v, reboot) ==
  /\ Free("web")
  /\ ram' = [ram EXCEPT ![k] = v]
  /\ job' = [job EXCEPT !["web"] = [Idle EXCEPT !.op = "saveConfig", !.reboot = reboot]]
  /\ UNCHANGED <<webLook, flash, prefs, pendingReboot, pendingFactoryReset, resetPc, everSaved, clashed>>

\* any route that writes the web layer
SetLook(look) ==
  /\ Free("web")
  /\ webLook' = look
  /\ UNCHANGED <<ram, flash, prefs, job, pendingReboot, pendingFactoryReset, resetPc, everSaved, clashed>>

routeSceneSave(key) ==
  /\ Free("web")
  /\ job' = [job EXCEPT !["web"] = [Idle EXCEPT !.op = "saveScene", !.key = key,
                                                !.look = webLook]]
  /\ everSaved' = [everSaved EXCEPT ![key] = @ \cup {webLook}]
  /\ UNCHANGED <<ram, webLook, flash, prefs, pendingReboot, pendingFactoryReset, resetPc, clashed>>

Recall(t, key) ==
  /\ Free(t)
  /\ job' = [job EXCEPT ![t] = [Idle EXCEPT !.op = "loadScene", !.key = key]]
  /\ UNCHANGED <<ram, webLook, flash, prefs, pendingReboot, pendingFactoryReset, resetPc,
                 everSaved, clashed>>

routeReboot ==
  /\ Free("web")
  /\ pendingReboot' = TRUE
  /\ UNCHANGED <<ram, webLook, flash, prefs, job, pendingFactoryReset, resetPc, everSaved, clashed>>

routeFactoryReset ==
  /\ Free("web")
  /\ pendingFactoryReset' = TRUE
  /\ UNCHANGED <<ram, webLook, flash, prefs, job, pendingReboot, resetPc, everSaved, clashed>>

-----------------------------------------------------------------------------
(* Restarts.                                                                *)

\* setup() after a restart: loadConfig; everything in RAM starts afresh.  The saveConfig that
\* follows when the stored firmware tag is missing or another writes back what was loaded:
\* it changes flash only where a key is missing, which reads as its default either way.
Boot ==
  /\ ram' = [k \in Cfg |-> IF flash["cfg"][k] = Unset THEN Default ELSE flash["cfg"][k]]
  /\ flash' = [flash EXCEPT !["cfg"] = [k \in Cfg \cup SceneKeys |->
                                          IF k \in Cfg THEN ram'[k] ELSE @[k]]]
  /\ webLook' = Dark
  /\ prefs' = Closed
  /\ job' = [t \in Task |-> Idle]
  /\ pendingReboot' = FALSE /\ pendingFactoryReset' = FALSE
  /\ resetPc' = "none"
  /\ clashed' = FALSE
  /\ UNCHANGED everSaved

\* the first line of loop()
LoopReboot == Free("loop") /\ pendingReboot /\ Boot

PowerFails == PowerLoss /\ Boot

\* pendingFactoryReset is looked at after pendingReboot
FactoryReset ==
  /\ Free("loop")
  /\ pendingFactoryReset /\ ~pendingReboot
  /\ pendingFactoryReset' = FALSE
  /\ resetPc' = "clearCfg"
  /\ UNCHANGED <<ram, webLook, flash, prefs, job, pendingReboot, everSaved, clashed>>

\* cfg.clear() and sc.clear(), on Preferences objects of their own
ResetClear ==
  /\ \/ /\ resetPc = "clearCfg"
        /\ flash' = [flash EXCEPT !["cfg"] = Blank]
        /\ resetPc' = "clearScenes"
     \/ /\ resetPc = "clearScenes"
        /\ flash' = [flash EXCEPT !["scenes"] = Blank]
        /\ resetPc' = "restart"
  /\ UNCHANGED <<ram, webLook, prefs, job, pendingReboot, pendingFactoryReset, everSaved, clashed>>

\* after delay(80)
ResetRestart == resetPc = "restart" /\ Boot

Asked ==
  \/ "cfg" \in Requests /\ \E k \in Cfg, v \in Vals, reboot \in BOOLEAN : SetCfg(k, v, reboot)
  \/ "look" \in Requests /\ \E look \in AllLooks : SetLook(look)
  \/ "save" \in Requests /\ \E key \in SceneKeys : routeSceneSave(key)
  \/ "recall" \in Requests /\ \E key \in SceneKeys : Recall("web", key)
  \/ "reboot" \in Requests /\ routeReboot
  \/ "reset" \in Requests /\ routeFactoryReset
  \/ LoopRecalls /\ \E key \in SceneKeys : Recall("loop", key)

Next ==
  \/ Asked
  \/ \E t \in Task : Begin(t) \/ loadScene(t) \/ End(t)
  \/ saveConfig
  \/ saveScene
  \/ LoopReboot
  \/ PowerFails
  \/ FactoryReset
  \/ ResetClear
  \/ ResetRestart

Spec == Init /\ [][Next]_vars

-----------------------------------------------------------------------------
(* Properties.                                                              *)

\* Whatever the tasks do to each other's prefs, nothing is ever written into the
\* wrong namespace, and a scene slot only ever holds a look it was asked to keep.
NoStrayWrite ==
  /\ \A k \in SceneKeys : flash["cfg"][k] = Unset
  /\ \A k \in Cfg : flash["scenes"][k] = Unset
  /\ \A k \in SceneKeys : flash["scenes"][k] \in everSaved[k] \cup {Unset}

\* A recalled scene is one that was saved in that slot, or dark: never what a
\* failed read left in the buffer (loadScene).
RecallSavedOrDark ==
  \A t \in Task : job[t].op = "loadScene" /\ job[t].stage = "end"
                  => job[t].look \in everSaved[job[t].key] \cup {Dark}

\* What the flash and the two tasks on it keep through restarts at any point: nothing
\* written by a reader, and no look recalled that nobody saved.
FlashInv == TypeOK /\ NoStrayWrite /\ RecallSavedOrDark

\* A setting that was acknowledged is in flash, through reboots, losses of power and
\* factory resets: the node has the same settings after a restart.  Holds as long as no
\* two uses of prefs have overlapped.
SaveSticks ==
  Free("web") /\ resetPc = "none" /\ ~clashed => \A k \in Cfg : flash["cfg"][k] = ram[k]

\* A recall shows what is in flash, under the same condition.
RecallFaithful ==
  [][\A t \in Task : loadScene(t) /\ ~clashed =>
       flash["scenes"][job[t].key] \in {job'[t].look, Unset}]_vars

=============================================================================
