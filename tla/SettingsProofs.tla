--------------------------- MODULE SettingsProofs ---------------------------
(***************************************************************************)
(* What survives a restart, for every list of settings, every set of       *)
(* scenes and every choice of requests and failures: FlashInv, SaveSticks  *)
(* and RecallFaithful of Settings.                                         *)
(*                                                                         *)
(* The strengthening says who owns the global object prefs.  Always: if it *)
(* is open for writing, the web task has opened it, for the namespace that *)
(* it is writing (Writer).  As long as no two uses have overlapped: it is  *)
(* open exactly while one task is between its begin and its end, the way   *)
(* that task has opened it (Exclusive), and what saveConfig has got        *)
(* through is in flash (Progress).                                         *)
(***************************************************************************)
EXTENDS Settings, TLAPS

Keys == Cfg \cup SceneKeys
Value == Vals \cup AllLooks \cup {Unset}

\* The keys of the settings hold settings.
CfgValues == \A k \in Cfg : flash["cfg"][k] \in Vals \cup {Unset}

\* What a task carries on its stack.
JobOK ==
  /\ job["loop"].op \in {"none", "loadScene"}
  /\ \A t \in Task :
       /\ job[t].op = "none" => job[t].stage = "begin"
       /\ job[t].op = "saveConfig" => CASE job[t].stage = "begin" -> job[t].i = 1
                                        [] job[t].stage = "work" -> job[t].i <= Len(CfgKeys)
                                        [] OTHER -> job[t].i = Len(CfgKeys) + 1
       /\ job[t].op = "saveScene" => /\ job[t].key \in SceneKeys
                                     /\ job[t].look \in everSaved[job[t].key]
       /\ job[t].op = "loadScene" => job[t].key \in SceneKeys

Using(t) == job[t].stage # "begin"

Writer ==
  prefs.open /\ ~prefs.ro =>
    /\ Using("web") /\ job["web"].op \in {"saveConfig", "saveScene"}
    /\ prefs.ns = Namespace(job["web"].op)

Exclusive ==
  ~clashed =>
    /\ ~(Using("web") /\ Using("loop"))
    /\ prefs.open => Using("web") \/ Using("loop")
    /\ \A t \in Task : Using(t) => /\ prefs.open
                                   /\ prefs.ro = ReadOnly(job[t].op)
                                   /\ prefs.ns = Namespace(job[t].op)

InFlash(k) == flash["cfg"][k] = ram[k]

Progress ==
  ~clashed /\ resetPc = "none" =>
    IF job["web"].op = "saveConfig" THEN \A j \in 1 .. job["web"].i - 1 : InFlash(CfgKeys[j])
    ELSE \A k \in Cfg : InFlash(k)

Inv == FlashInv /\ CfgValues /\ JobOK /\ Writer /\ Exclusive /\ Progress

-----------------------------------------------------------------------------

\* The list of keys that saveConfig walks through, as a set.
LEMMA KeyFacts ==
  /\ Len(CfgKeys) \in Nat \ {0}
  /\ \A i \in 1 .. Len(CfgKeys) : CfgKeys[i] \in Cfg
  /\ \A k \in Cfg : \E i \in 1 .. Len(CfgKeys) : k = CfgKeys[i]
  /\ \A k \in Cfg : k \notin SceneKeys
<1>1. /\ CfgKeys \in Seq(STRING) /\ CfgKeys # << >>
      /\ \A i \in DOMAIN CfgKeys : CfgKeys[i] \notin SceneKeys
  BY SettingsAssumption
<1>2. DOMAIN CfgKeys = 1 .. Len(CfgKeys) /\ Len(CfgKeys) \in Nat \ {0}
  BY <1>1
<1> QED
  BY <1>1, <1>2 DEF Cfg

\* An idle task, and the requests that put it to work, are jobs.
LEMMA IdleType == Idle \in Job
  BY KeyFacts DEF Idle, Job, AllLooks

\* One put changes at most its key, in the namespace of an object open for writing.
LEMMA PutAt ==
  ASSUME TypeOK, NEW key \in Keys, NEW v \in Value
  PROVE  /\ Put(key, v) \in [Names -> [Keys -> Value]]
         /\ \A n \in Names, k \in Keys :
              Put(key, v)[n][k] =
                IF prefs.open /\ ~prefs.ro /\ n = prefs.ns /\ k = key THEN v
                ELSE flash[n][k]
<1>1. flash \in [Names -> [Keys -> Value]] /\ prefs.ns \in Names
  BY DEF TypeOK, Keys, Value
<1>2. CASE prefs.open /\ ~prefs.ro
  <2>1. Put(key, v) = [flash EXCEPT ![prefs.ns] = [flash[prefs.ns] EXCEPT ![key] = v]]
    BY <1>1, <1>2 DEF Put
  <2>2. [flash[prefs.ns] EXCEPT ![key] = v] \in [Keys -> Value]
    BY <1>1
  <2> QED
    BY <1>1, <1>2, <2>1, <2>2
<1>3. CASE ~(prefs.open /\ ~prefs.ro)
  BY <1>1, <1>3 DEF Put
<1> QED
  BY <1>2, <1>3

\* A node that has booted on a blank flash satisfies the invariant.
LEMMA InitInv == Init => Inv
<1> SUFFICES ASSUME Init PROVE Inv
  OBVIOUS
<1>1. /\ flash \in [Names -> [Keys -> Value]]
      /\ \A k \in Cfg : flash["cfg"][k] = Default
      /\ \A k \in SceneKeys : flash["cfg"][k] = Unset
      /\ \A k \in Keys : flash["scenes"][k] = Unset
  BY KeyFacts, SettingsAssumption DEF Init, Names, Keys, Value, Blank
<1>2. TypeOK
  BY <1>1, IdleType, SettingsAssumption DEF Init, TypeOK, Closed, Names, AllLooks, Keys, Value
<1>3. NoStrayWrite /\ CfgValues
  BY <1>1, SettingsAssumption DEF NoStrayWrite, CfgValues, Keys
<1>4. \A t \in Task : job[t].op = "none" /\ job[t].stage = "begin"
  BY DEF Init, Idle
<1>5. RecallSavedOrDark /\ JobOK
  BY <1>4 DEF RecallSavedOrDark, JobOK, Task
<1>6. Writer /\ Exclusive
  BY <1>4 DEF Init, Closed, Writer, Exclusive, Using, Task
<1>7. Progress
  BY <1>1, <1>4 DEF Init, Progress, InFlash, Task
<1> QED
  BY <1>2, <1>3, <1>5, <1>6, <1>7 DEF Inv, FlashInv

-----------------------------------------------------------------------------
(* Requests.                                                                *)

\* A request that puts a free task to work, and does not touch prefs yet, keeps the
\* invariant (SetCfg, routeSceneSave, Recall).
LEMMA StartKeeps ==
  ASSUME Inv, NEW t \in Task, NEW j \in Job,
         Free(t), job' = [job EXCEPT ![t] = j], j.stage = "begin",
         j.op \in {"saveConfig", "saveScene"} => t = "web",
         IF j.op = "saveConfig" THEN j.i = 1 ELSE ram' = ram,
         j.op \in {"saveScene", "loadScene"} => j.key \in SceneKeys,
         j.op = "saveScene" => j.look \in everSaved'[j.key],
         ram' \in [Cfg -> Vals],
         everSaved' \in [SceneKeys -> SUBSET AllLooks],
         \A k \in SceneKeys : everSaved[k] \subseteq everSaved'[k],
         UNCHANGED <<webLook, flash, prefs, pendingReboot, pendingFactoryReset, resetPc, clashed>>
  PROVE  Inv'
<1> USE DEF Inv, FlashInv
<1>1. job \in [Task -> Job] /\ "web" \in Task /\ "loop" \in Task
  BY DEF TypeOK, Task
<1>2. /\ job' \in [Task -> Job] /\ job'[t] = j
      /\ \A u \in Task \ {t} : job'[u] = job[u]
  BY <1>1
<1>3. job[t].op = "none" /\ job[t].stage = "begin"
  BY DEF Free, JobOK
<1>4. TypeOK'
  BY <1>2 DEF TypeOK
<1>5. NoStrayWrite' /\ CfgValues'
  BY DEF NoStrayWrite, CfgValues
<1>6. RecallSavedOrDark'
  <2> SUFFICES ASSUME NEW u \in Task, job'[u].op = "loadScene", job'[u].stage = "end"
               PROVE  job'[u].look \in everSaved'[job'[u].key] \cup {Dark}
    BY DEF RecallSavedOrDark
  <2>1. u # t /\ job'[u] = job[u]
    BY <1>2
  <2>2. job[u].key \in SceneKeys /\ job[u].look \in everSaved[job[u].key] \cup {Dark}
    BY <2>1 DEF RecallSavedOrDark, JobOK
  <2> QED
    BY <2>1, <2>2
<1>7. JobOK'
  <2>1. job'["loop"].op \in {"none", "loadScene"}
    <3>1. CASE t = "loop"
      BY <1>2, <3>1 DEF Job
    <3>2. CASE t # "loop"
      BY <1>1, <1>2, <3>2 DEF JobOK
    <3> QED
      BY <3>1, <3>2
  <2>2. ASSUME NEW u \in Task
        PROVE  /\ job'[u].op = "none" => job'[u].stage = "begin"
               /\ job'[u].op = "saveConfig" =>
                    CASE job'[u].stage = "begin" -> job'[u].i = 1
                      [] job'[u].stage = "work" -> job'[u].i <= Len(CfgKeys)
                      [] OTHER -> job'[u].i = Len(CfgKeys) + 1
               /\ job'[u].op = "saveScene" => /\ job'[u].key \in SceneKeys
                                              /\ job'[u].look \in everSaved'[job'[u].key]
               /\ job'[u].op = "loadScene" => job'[u].key \in SceneKeys
    <3>1. CASE u = t
      BY <1>2, <3>1
    <3>2. CASE u # t
      BY <1>2, <3>2 DEF JobOK
    <3> QED
      BY <3>1, <3>2
  <2> QED
    BY <2>1, <2>2 DEF JobOK
<1>8. \A u \in Task : Using(u)' <=> Using(u)
  BY <1>2, <1>3 DEF Using
<1>9. \A u \in Task : Using(u) => job'[u] = job[u]
  BY <1>2, <1>3 DEF Using
<1>10. Writer' /\ Exclusive'
  BY <1>1, <1>8, <1>9 DEF Writer, Exclusive
<1>11. Progress'
  <2>1. CASE t = "web"
    BY <1>1, <1>2, <1>3, <2>1, KeyFacts DEF Progress, InFlash
  <2>2. CASE t = "loop"
    BY <1>1, <1>2, <2>2 DEF Progress, InFlash
  <2> QED
    BY <2>1, <2>2 DEF Task
<1> QED
  BY <1>4, <1>5, <1>6, <1>7, <1>10, <1>11

\* SetCfg, routeSceneSave and Recall are such requests.
LEMMA RequestsKeep == Inv /\ Asked => Inv'
<1> SUFFICES ASSUME Inv, Asked PROVE Inv'
  OBVIOUS
<1>0. TypeOK /\ "web" \in Task /\ "loop" \in Task
  BY DEF Inv, FlashInv, Task
<1>1. ASSUME NEW k \in Cfg, NEW v \in Vals, NEW reboot \in BOOLEAN, SetCfg(k, v, reboot)
      PROVE  Inv'
  <2> DEFINE j == [Idle EXCEPT !.op = "saveConfig", !.reboot = reboot]
  <2>1. j \in Job /\ j.op = "saveConfig" /\ j.stage = "begin" /\ j.i = 1
    BY IdleType DEF Idle, Job
  <2>2. ram' \in [Cfg -> Vals]
    BY <1>0, <1>1 DEF SetCfg, TypeOK
  <2> HIDE DEF j
  <2>3. /\ Free("web") /\ job' = [job EXCEPT !["web"] = j] /\ everSaved' = everSaved
        /\ UNCHANGED <<webLook, flash, prefs, pendingReboot, pendingFactoryReset, resetPc, clashed>>
    BY <1>1 DEF SetCfg, j
  <2> QED
    BY <1>0, <2>1, <2>2, <2>3, StartKeeps DEF TypeOK
<1>2. ASSUME NEW look \in AllLooks, SetLook(look) PROVE Inv'
  BY <1>2 DEF SetLook, Inv, FlashInv, TypeOK, NoStrayWrite, CfgValues, RecallSavedOrDark, JobOK,
              Writer, Exclusive, Using, Progress, InFlash
<1>3. ASSUME NEW key \in SceneKeys, routeSceneSave(key) PROVE Inv'
  <2> DEFINE j == [Idle EXCEPT !.op = "saveScene", !.key = key, !.look = webLook]
  <2>1. j \in Job /\ j.op = "saveScene" /\ j.stage = "begin" /\ j.key = key /\ j.look = webLook
    BY <1>0, IdleType DEF Idle, Job, TypeOK
  <2>2. /\ everSaved' \in [SceneKeys -> SUBSET AllLooks]
        /\ \A k \in SceneKeys : everSaved[k] \subseteq everSaved'[k]
        /\ webLook \in everSaved'[key]
    BY <1>0, <1>3 DEF routeSceneSave, TypeOK
  <2> HIDE DEF j
  <2>3. /\ Free("web") /\ job' = [job EXCEPT !["web"] = j] /\ ram' = ram
        /\ UNCHANGED <<webLook, flash, prefs, pendingReboot, pendingFactoryReset, resetPc, clashed>>
    BY <1>3 DEF routeSceneSave, j
  <2> QED
    BY <1>0, <2>1, <2>2, <2>3, StartKeeps DEF TypeOK
<1>4. ASSUME NEW t \in Task, NEW key \in SceneKeys, Recall(t, key) PROVE Inv'
  <2> DEFINE j == [Idle EXCEPT !.op = "loadScene", !.key = key]
  <2>1. j \in Job /\ j.op = "loadScene" /\ j.stage = "begin" /\ j.key = key
    BY IdleType DEF Idle, Job
  <2> HIDE DEF j
  <2>2. /\ Free(t) /\ job' = [job EXCEPT ![t] = j] /\ ram' = ram /\ everSaved' = everSaved
        /\ UNCHANGED <<webLook, flash, prefs, pendingReboot, pendingFactoryReset, resetPc, clashed>>
    BY <1>4 DEF Recall, j
  <2> QED
    BY <1>0, <2>1, <2>2, StartKeeps DEF TypeOK
<1>5. CASE routeReboot \/ routeFactoryReset
  <2>1. pendingReboot' \in BOOLEAN /\ pendingFactoryReset' \in BOOLEAN
    BY <1>0, <1>5 DEF routeReboot, routeFactoryReset, TypeOK
  <2>2. UNCHANGED <<ram, webLook, flash, prefs, job, resetPc, everSaved, clashed>>
    BY <1>5 DEF routeReboot, routeFactoryReset
  <2> QED
    BY <2>1, <2>2 DEF Inv, FlashInv, TypeOK, NoStrayWrite, CfgValues, RecallSavedOrDark, JobOK,
                      Writer, Exclusive, Using, Progress, InFlash
<1> QED
  BY <1>0, <1>1, <1>2, <1>3, <1>4, <1>5 DEF Asked

-----------------------------------------------------------------------------
(* The calls on prefs.                                                      *)

\* prefs.begin: an object that is open stays as it is, and two uses have overlapped.
LEMMA BeginKeeps ==
  ASSUME Inv, NEW t \in Task, Begin(t)
  PROVE  Inv'
<1> USE DEF Inv, FlashInv
<1>1. job \in [Task -> Job] /\ "web" \in Task /\ "loop" \in Task
  BY DEF TypeOK, Task
<1>2. /\ job' \in [Task -> Job]
      /\ job'[t].op = job[t].op /\ job'[t].stage = "work" /\ job'[t].i = job[t].i
      /\ job'[t].key = job[t].key /\ job'[t].look = job[t].look
      /\ \A u \in Task \ {t} : job'[u] = job[u]
  BY <1>1 DEF Begin, Job
<1>3. job[t].op # "none" /\ job[t].stage = "begin"
  BY DEF Begin
<1>4. TypeOK'
  <2>1. prefs' \in [open : BOOLEAN, ns : Names, ro : BOOLEAN]
    BY DEF Begin, TypeOK, ReadOnly, Namespace, Names
  <2>2. clashed' \in BOOLEAN
    BY DEF Begin, TypeOK
  <2> QED
    BY <1>2, <2>1, <2>2 DEF Begin, TypeOK
<1>5. NoStrayWrite' /\ CfgValues'
  BY DEF Begin, NoStrayWrite, CfgValues
<1>6. RecallSavedOrDark'
  BY <1>2 DEF Begin, RecallSavedOrDark
<1>7. JobOK'
  BY <1>1, <1>2, <1>3, KeyFacts DEF Begin, JobOK
<1>8. Writer'
  <2>1. CASE prefs.open
    BY <1>1, <1>2, <1>3, <2>1 DEF Begin, Writer, Using
  <2>2. CASE ~prefs.open
    <3>1. prefs'.ro = ReadOnly(job[t].op) /\ prefs'.ns = Namespace(job[t].op)
      BY <2>2 DEF Begin
    <3>2. job[t].op # "loadScene" => t = "web" /\ job[t].op \in {"saveConfig", "saveScene"}
      BY <1>1, <1>3 DEF JobOK, Job, Task
    <3> QED
      BY <1>2, <3>1, <3>2 DEF Writer, Using, ReadOnly
  <2> QED
    BY <2>1, <2>2
<1>9. Exclusive'
  <2> SUFFICES ASSUME ~clashed' PROVE Exclusive'
    BY DEF Exclusive
  <2>1. ~clashed /\ ~prefs.open
    BY DEF Begin
  <2>2. prefs'.open /\ prefs'.ro = ReadOnly(job[t].op) /\ prefs'.ns = Namespace(job[t].op)
    BY <2>1 DEF Begin
  <2>3. \A u \in Task : ~Using(u)
    BY <2>1 DEF Exclusive
  <2>4. \A u \in Task : Using(u)' => u = t
    BY <1>2, <2>3 DEF Using
  <2>5. Using(t)'
    BY <1>2 DEF Using
  <2> QED
    BY <1>2, <2>2, <2>4, <2>5 DEF Exclusive, Task
<1>10. Progress'
  <2>1. job'["web"].op = job["web"].op /\ job'["web"].i = job["web"].i
    BY <1>1, <1>2
  <2>2. ~clashed' => ~clashed
    BY DEF Begin
  <2>3. UNCHANGED <<ram, flash, resetPc>>
    BY DEF Begin
  <2> QED
    BY <2>1, <2>2, <2>3 DEF Progress, InFlash
<1> QED
  BY <1>4, <1>5, <1>6, <1>7, <1>8, <1>9, <1>10

\* The two writers: a put goes to the namespace that its own task has opened, or nowhere.
LEMMA saveConfigKeeps == Inv /\ saveConfig => Inv'
<1> SUFFICES ASSUME Inv, saveConfig PROVE Inv'
  OBVIOUS
<1> USE DEF Inv, FlashInv
<1> DEFINE i == job["web"].i
<1>1. job \in [Task -> Job] /\ "web" \in Task /\ "loop" \in Task /\ TypeOK
  BY DEF TypeOK, Task
<1>2. /\ job["web"].op = "saveConfig" /\ job["web"].stage = "work"
      /\ i \in 1 .. Len(CfgKeys)
  BY <1>1, KeyFacts DEF saveConfig, JobOK, Job
<1>3. /\ job' \in [Task -> Job] /\ job'["loop"] = job["loop"]
      /\ job'["web"].op = "saveConfig" /\ job'["web"].i = i + 1
      /\ job'["web"].stage = IF i = Len(CfgKeys) THEN "end" ELSE "work"
  <2> DEFINE w == [job["web"] EXCEPT !.i = i + 1,
                                     !.stage = IF i = Len(CfgKeys) THEN "end" ELSE @]
  <2>1. job' = [job EXCEPT !["web"] = w]
    BY <1>1 DEF saveConfig
  <2>2. job["web"] \in Job /\ i + 1 \in 1 .. Len(CfgKeys) + 1
    BY <1>1, <1>2, KeyFacts
  <2>3. /\ w \in Job /\ w.op = "saveConfig" /\ w.i = i + 1
        /\ w.stage = IF i = Len(CfgKeys) THEN "end" ELSE "work"
    BY <1>2, <2>2 DEF Job
  <2> HIDE DEF w
  <2> QED
    BY <1>1, <2>1, <2>3
<1>4. /\ UNCHANGED <<ram, webLook, prefs, pendingReboot, pendingFactoryReset, resetPc,
                     everSaved, clashed>>
      /\ flash' = Put(CfgKeys[i], ram[CfgKeys[i]])
  BY DEF saveConfig
<1> HIDE DEF i
<1> DEFINE key == CfgKeys[i]
           v == ram[key]
<1>5. key \in Cfg /\ key \in Keys /\ v \in Vals /\ v \in Value /\ key \notin SceneKeys
  BY <1>1, <1>2, KeyFacts DEF TypeOK, Keys, Value
<1> HIDE DEF key, v
<1>6. /\ flash' \in [Names -> [Keys -> Value]]
      /\ \A n \in Names, k \in Keys :
           flash'[n][k] = IF prefs.open /\ ~prefs.ro /\ n = prefs.ns /\ k = key THEN v
                          ELSE flash[n][k]
  BY <1>1, <1>4, <1>5, PutAt DEF key, v
<1>7. prefs.open /\ ~prefs.ro => prefs.ns = "cfg"
  BY <1>2 DEF Writer, Namespace
<1>8. TypeOK'
  BY <1>3, <1>4, <1>6 DEF TypeOK, Keys, Value
<1>9. NoStrayWrite' /\ CfgValues'
  BY <1>4, <1>5, <1>6, <1>7 DEF NoStrayWrite, CfgValues, Names, Keys
<1>10. RecallSavedOrDark'
  BY <1>3, <1>4 DEF RecallSavedOrDark, Task
<1>11. JobOK'
  BY <1>2, <1>3, <1>4 DEF JobOK, Task
<1>12. Writer' /\ Exclusive'
  BY <1>2, <1>3, <1>4 DEF Writer, Exclusive, Using, Task
<1>13. Progress'
  <2> SUFFICES ASSUME ~clashed, resetPc = "none", NEW j \in 1 .. i
               PROVE  InFlash(CfgKeys[j])'
    BY <1>2, <1>3, <1>4 DEF Progress
  <2>1. prefs.open /\ ~prefs.ro /\ prefs.ns = "cfg"
    BY <1>1, <1>2 DEF Exclusive, Using, ReadOnly, Namespace
  <2>2. CfgKeys[j] \in Cfg /\ CfgKeys[j] \in Keys
    BY <1>2, KeyFacts DEF Keys
  <2>3. j < i => flash["cfg"][CfgKeys[j]] = ram[CfgKeys[j]]
    BY <1>2 DEF Progress, InFlash, i
  <2>4. flash'["cfg"][CfgKeys[j]] = IF CfgKeys[j] = key THEN v ELSE flash["cfg"][CfgKeys[j]]
    BY <1>6, <2>1, <2>2 DEF Names
  <2> QED
    BY <1>2, <1>4, <2>3, <2>4 DEF InFlash, key, v
<1> QED
  BY <1>8, <1>9, <1>10, <1>11, <1>12, <1>13

\* The same for a scene.
LEMMA saveSceneKeeps == Inv /\ saveScene => Inv'
<1> SUFFICES ASSUME Inv, saveScene PROVE Inv'
  OBVIOUS
<1> USE DEF Inv, FlashInv
<1>1. job \in [Task -> Job] /\ "web" \in Task /\ "loop" \in Task /\ TypeOK
  BY DEF TypeOK, Task
<1>2. job["web"].op = "saveScene" /\ job["web"].stage = "work"
  BY DEF saveScene
<1>3. /\ job' \in [Task -> Job] /\ job'["loop"] = job["loop"]
      /\ job'["web"].op = "saveScene" /\ job'["web"].stage = "end"
      /\ job'["web"].key = job["web"].key /\ job'["web"].look = job["web"].look
  BY <1>1, <1>2 DEF saveScene, Job, Task
<1> DEFINE key == job["web"].key
           v == job["web"].look
<1>4. /\ UNCHANGED <<ram, webLook, prefs, pendingReboot, pendingFactoryReset, resetPc,
                     everSaved, clashed>>
      /\ flash' = Put(key, v)
  BY DEF saveScene
<1>5. key \in SceneKeys /\ key \in Keys /\ key \notin Cfg /\ v \in everSaved[key] /\ v \in Value
  BY <1>1, <1>2, KeyFacts DEF JobOK, Job, Keys, Value
<1> HIDE DEF key, v
<1>6. /\ flash' \in [Names -> [Keys -> Value]]
      /\ \A n \in Names, k \in Keys :
           flash'[n][k] = IF prefs.open /\ ~prefs.ro /\ n = prefs.ns /\ k = key THEN v
                          ELSE flash[n][k]
  BY <1>1, <1>4, <1>5, PutAt
<1>7. prefs.open /\ ~prefs.ro => prefs.ns = "scenes"
  BY <1>2 DEF Writer, Namespace
<1>8. TypeOK'
  BY <1>3, <1>4, <1>6 DEF TypeOK, Keys, Value
<1>9. NoStrayWrite' /\ CfgValues'
  BY <1>4, <1>5, <1>6, <1>7 DEF NoStrayWrite, CfgValues, Names, Keys
<1>10. RecallSavedOrDark'
  BY <1>3, <1>4 DEF RecallSavedOrDark, Task
<1>11. JobOK'
  BY <1>2, <1>3, <1>4 DEF JobOK, Task
<1>12. Writer' /\ Exclusive'
  BY <1>2, <1>3, <1>4 DEF Writer, Exclusive, Using, Task
<1>13. \A k \in Cfg : flash'["cfg"][k] = flash["cfg"][k]
  BY <1>5, <1>6 DEF Names, Keys
<1>14. Progress'
  BY <1>2, <1>3, <1>4, <1>13 DEF Progress, InFlash
<1> QED
  BY <1>8, <1>9, <1>10, <1>11, <1>12, <1>14

\* What a read of a scene can find: a look that was saved there, or nothing.
LEMMA GotSaved ==
  ASSUME Inv, NEW key \in SceneKeys
  PROVE  Got(key) \in everSaved[key] \cup {Unset}
  BY DEF Inv, FlashInv, TypeOK, NoStrayWrite, Got, Names

\* The reader: whatever namespace it finds open, it takes a look that was saved, or dark.
LEMMA loadSceneKeeps ==
  ASSUME Inv, NEW t \in Task, loadScene(t)
  PROVE  Inv'
<1> USE DEF Inv, FlashInv
<1>1. job \in [Task -> Job] /\ "web" \in Task /\ "loop" \in Task /\ TypeOK
  BY DEF TypeOK, Task
<1>2. job[t].op = "loadScene" /\ job[t].stage = "work" /\ job[t].key \in SceneKeys
  BY DEF loadScene, JobOK
<1> DEFINE look == IF Got(job[t].key) = Unset THEN Dark ELSE Got(job[t].key)
<1>3. look \in everSaved[job[t].key] \cup {Dark} /\ look \in AllLooks
  BY <1>1, <1>2, GotSaved DEF TypeOK, AllLooks
<1>4. /\ job' \in [Task -> Job]
      /\ job'[t].op = "loadScene" /\ job'[t].stage = "end" /\ job'[t].key = job[t].key
      /\ job'[t].look = look
      /\ \A u \in Task \ {t} : job'[u] = job[u]
  <2> DEFINE w == [job[t] EXCEPT !.stage = "end", !.look = look]
  <2>1. job' = [job EXCEPT ![t] = w]
    BY <1>1 DEF loadScene
  <2> HIDE DEF look
  <2>2. /\ w \in Job /\ w.op = "loadScene" /\ w.stage = "end" /\ w.key = job[t].key
        /\ w.look = look
    BY <1>1, <1>2, <1>3 DEF Job
  <2> HIDE DEF w
  <2> QED
    BY <1>1, <2>1, <2>2
<1> HIDE DEF look
<1>5. UNCHANGED <<ram, webLook, flash, prefs, pendingReboot, pendingFactoryReset, resetPc,
                  everSaved, clashed>>
  BY DEF loadScene
<1>6. TypeOK'
  BY <1>4, <1>5 DEF TypeOK
<1>7. NoStrayWrite' /\ CfgValues'
  BY <1>5 DEF NoStrayWrite, CfgValues
<1>8. RecallSavedOrDark'
  BY <1>3, <1>4, <1>5 DEF RecallSavedOrDark
<1>9. JobOK'
  BY <1>1, <1>2, <1>4, <1>5 DEF JobOK
<1>10. \A u \in Task : Using(u)' = Using(u) /\ job'[u].op = job[u].op /\ job'[u].i = job[u].i
  <2>1. job'[t].i = job[t].i
    BY <1>1 DEF loadScene, Job
  <2> QED
    BY <1>2, <1>4, <2>1 DEF Using
<1>11. Writer' /\ Exclusive'
  BY <1>1, <1>5, <1>10 DEF Writer, Exclusive
<1>12. Progress'
  BY <1>1, <1>5, <1>10 DEF Progress, InFlash
<1> QED
  BY <1>6, <1>7, <1>8, <1>9, <1>11, <1>12

\* prefs.end closes the object, whoever has opened it.
LEMMA EndKeeps ==
  ASSUME Inv, NEW t \in Task, End(t)
  PROVE  Inv'
<1> USE DEF Inv, FlashInv
<1>1. job \in [Task -> Job] /\ "web" \in Task /\ "loop" \in Task /\ TypeOK
  BY DEF TypeOK, Task
<1>2. /\ job' = [job EXCEPT ![t] = Idle] /\ job[t].stage = "end" /\ job[t] \in Job
      /\ UNCHANGED <<ram, flash, pendingFactoryReset, resetPc, everSaved, clashed>>
  BY <1>1 DEF End
<1>3. /\ job' \in [Task -> Job] /\ job'[t] = Idle
      /\ \A u \in Task \ {t} : job'[u] = job[u]
  BY <1>1, <1>2, IdleType
<1>4. Idle.op = "none" /\ Idle.stage = "begin"
  BY DEF Idle
<1>5. prefs' \in [open : BOOLEAN, ns : Names, ro : BOOLEAN] /\ ~prefs'.open
  BY <1>1 DEF End, TypeOK
<1>6. TypeOK'
  <2>1. webLook' \in AllLooks
    BY <1>1, <1>2 DEF End, TypeOK, Job
  <2>2. pendingReboot' \in BOOLEAN
    BY DEF End
  <2> QED
    BY <1>1, <1>2, <1>3, <1>5, <2>1, <2>2 DEF TypeOK
<1>7. NoStrayWrite' /\ CfgValues'
  BY <1>2 DEF NoStrayWrite, CfgValues
<1>8. RecallSavedOrDark'
  BY <1>2, <1>3, <1>4 DEF RecallSavedOrDark
<1>9. JobOK'
  BY <1>1, <1>2, <1>3, <1>4 DEF JobOK
<1>10. Writer'
  BY <1>5 DEF Writer
<1>11. Exclusive'
  <2> SUFFICES ASSUME ~clashed PROVE \A u \in Task : ~Using(u)'
    BY <1>1, <1>2, <1>5 DEF Exclusive
  <2>1. Using(t) /\ ~Using(t)'
    BY <1>2, <1>3, <1>4 DEF Using
  <2>2. \A u \in Task \ {t} : ~Using(u)
    BY <2>1 DEF Exclusive, Task
  <2> QED
    BY <1>3, <2>1, <2>2 DEF Using
<1>12. Progress'
  <2> SUFFICES ASSUME ~clashed, resetPc = "none" PROVE Progress'
    BY <1>2 DEF Progress
  <2>1. CASE t = "loop"
    BY <1>1, <1>2, <1>3, <2>1 DEF Progress, InFlash
  <2>2. CASE t = "web" /\ job["web"].op = "saveConfig"
    <3>1. job["web"].i = Len(CfgKeys) + 1
      BY <1>1, <1>2, <2>2 DEF JobOK
    <3>2. \A j \in 1 .. Len(CfgKeys) : InFlash(CfgKeys[j])
      BY <2>2, <3>1, KeyFacts DEF Progress
    <3>3. \A k \in Cfg : InFlash(k)
      BY <3>2, KeyFacts
    <3> QED
      BY <1>2, <1>3, <1>4, <2>2, <3>3 DEF Progress, InFlash
  <2>3. CASE t = "web" /\ job["web"].op # "saveConfig"
    BY <1>2, <1>3, <1>4, <2>3 DEF Progress, InFlash
  <2> QED
    BY <2>1, <2>2, <2>3 DEF Task
<1> QED
  BY <1>6, <1>7, <1>8, <1>9, <1>10, <1>11, <1>12

-----------------------------------------------------------------------------
(* Restarts.                                                                *)

\* setup() brings RAM and flash together again, whatever was interrupted.
LEMMA BootKeeps == Inv /\ Boot => Inv'
<1> SUFFICES ASSUME Inv, Boot PROVE Inv'
  OBVIOUS
<1> USE DEF Inv, FlashInv
<1>1. /\ TypeOK /\ "web" \in Task /\ "loop" \in Task
      /\ flash \in [Names -> [Keys -> Value]] /\ "cfg" \in Names /\ "scenes" \in Names
  BY DEF TypeOK, Task, Keys, Value, Names
<1>2. ram' \in [Cfg -> Vals]
  <2>1. \A k \in Cfg : (IF flash["cfg"][k] = Unset THEN Default ELSE flash["cfg"][k]) \in Vals
    BY SettingsAssumption DEF CfgValues
  <2>2. ram' = [k \in Cfg |-> IF flash["cfg"][k] = Unset THEN Default ELSE flash["cfg"][k]]
    BY DEF Boot
  <2> QED
    BY <2>1, <2>2
<1>3. /\ flash' \in [Names -> [Keys -> Value]]
      /\ \A k \in Cfg : flash'["cfg"][k] = ram'[k]
      /\ \A k \in SceneKeys : flash'["cfg"][k] = flash["cfg"][k]
      /\ \A k \in Keys : flash'["scenes"][k] = flash["scenes"][k]
  <2> DEFINE f == [k \in Keys |-> IF k \in Cfg THEN ram'[k] ELSE flash["cfg"][k]]
  <2>1. flash' = [flash EXCEPT !["cfg"] = f]
    BY <1>1 DEF Boot, Keys
  <2>2. f \in [Keys -> Value]
    BY <1>1, <1>2 DEF Value
  <2>3. /\ \A k \in Cfg : f[k] = ram'[k]
        /\ \A k \in SceneKeys : f[k] = flash["cfg"][k]
    BY KeyFacts DEF Keys
  <2> HIDE DEF f
  <2> QED
    BY <1>1, <2>1, <2>2, <2>3
<1>4. /\ job' = [u \in Task |-> Idle] /\ everSaved' = everSaved /\ prefs' = Closed
      /\ webLook' = Dark /\ pendingReboot' = FALSE /\ pendingFactoryReset' = FALSE
      /\ resetPc' = "none" /\ clashed' = FALSE
  BY DEF Boot
<1>5. job' \in [Task -> Job] /\ \A u \in Task : job'[u].op = "none" /\ job'[u].stage = "begin"
  BY <1>4, IdleType DEF Idle
<1>6. prefs' \in [open : BOOLEAN, ns : Names, ro : BOOLEAN] /\ ~prefs'.open
  BY <1>4 DEF Closed, Names
<1>7. TypeOK'
  BY <1>1, <1>2, <1>3, <1>4, <1>5, <1>6 DEF TypeOK, Keys, Value, AllLooks
<1>8. NoStrayWrite' /\ CfgValues'
  BY <1>2, <1>3, <1>4 DEF NoStrayWrite, CfgValues, Keys
<1>9. RecallSavedOrDark' /\ JobOK'
  BY <1>1, <1>5 DEF RecallSavedOrDark, JobOK
<1>10. Writer' /\ Exclusive'
  BY <1>1, <1>5, <1>6 DEF Writer, Exclusive, Using
<1>11. Progress'
  BY <1>1, <1>3, <1>5 DEF Progress, InFlash
<1> QED
  BY <1>7, <1>8, <1>9, <1>10, <1>11

\* A factory reset erases settings and scenes behind the back of the web task, and ends
\* in a restart.
LEMMA ResetKeeps == Inv /\ (FactoryReset \/ ResetClear) => Inv'
<1> SUFFICES ASSUME Inv, FactoryReset \/ ResetClear PROVE Inv'
  OBVIOUS
<1> USE DEF Inv, FlashInv
<1>1. TypeOK /\ flash \in [Names -> [Keys -> Value]] /\ "cfg" \in Names /\ "scenes" \in Names
  BY DEF TypeOK, Keys, Value, Names
<1>2. Blank \in [Keys -> Value] /\ \A k \in Keys : Blank[k] = Unset
  BY DEF Blank, Keys, Value
<1>3. UNCHANGED <<ram, webLook, prefs, job, pendingReboot, everSaved, clashed>>
  BY DEF FactoryReset, ResetClear
<1>4. /\ resetPc' \in {"clearCfg", "clearScenes", "restart"}
      /\ pendingFactoryReset' \in BOOLEAN
  BY <1>1 DEF FactoryReset, ResetClear, TypeOK
<1>5. flash' \in {flash, [flash EXCEPT !["cfg"] = Blank], [flash EXCEPT !["scenes"] = Blank]}
  BY DEF FactoryReset, ResetClear
<1>6. /\ flash' \in [Names -> [Keys -> Value]]
      /\ \A n \in Names, k \in Keys : flash'[n][k] \in {flash[n][k], Unset}
  BY <1>1, <1>2, <1>5
<1>7. TypeOK'
  BY <1>1, <1>3, <1>4, <1>6 DEF TypeOK, Keys, Value
<1>8. NoStrayWrite' /\ CfgValues'
  BY <1>1, <1>3, <1>6 DEF NoStrayWrite, CfgValues, Keys
<1>9. RecallSavedOrDark' /\ JobOK' /\ Writer' /\ Exclusive'
  BY <1>3 DEF RecallSavedOrDark, JobOK, Writer, Exclusive, Using
<1>10. Progress'
  BY <1>4 DEF Progress
<1> QED
  BY <1>7, <1>8, <1>9, <1>10

-----------------------------------------------------------------------------
(* The theorems.                                                            *)

\* Every step keeps the invariant.
LEMMA NextInv == Inv /\ [Next]_vars => Inv'
<1> SUFFICES ASSUME Inv, [Next]_vars PROVE Inv'
  OBVIOUS
<1>1. CASE UNCHANGED vars
  BY <1>1 DEF vars, Inv, FlashInv, TypeOK, NoStrayWrite, CfgValues, RecallSavedOrDark, JobOK,
              Writer, Exclusive, Using, Progress, InFlash
<1>2. CASE Next
  BY <1>2, RequestsKeep, BeginKeeps, loadSceneKeeps, EndKeeps, saveConfigKeeps,
     saveSceneKeeps, BootKeeps, ResetKeeps DEF Next, LoopReboot, PowerFails, ResetRestart
<1> QED
  BY <1>1, <1>2

\* In every interleaving of the two tasks on prefs, and through restarts at any point.
LEMMA InvHolds == Spec => []Inv
  BY InitInv, NextInv, PTL DEF Spec

\* However two tasks use the one object prefs, and wherever a restart or a factory reset
\* cuts in: nothing is written into the wrong namespace, a scene slot holds only looks
\* that it was asked to keep, and a recall shows one of them or dark (saveConfig,
\* saveScene, loadScene).
THEOREM FlashSafe == Spec => []FlashInv
<1>1. Inv => FlashInv
  BY DEF Inv
<1> QED
  BY <1>1, InvHolds, PTL

\* A setting that was acknowledged is in flash as long as no two uses of prefs have
\* overlapped since the boot (saveConfig, loadConfig).
THEOREM SettingsStick == Spec => []SaveSticks
<1>1. Inv => SaveSticks
  BY DEF Inv, Progress, SaveSticks, Free, InFlash
<1> QED
  BY <1>1, InvHolds, PTL

\* A recall shows what is in flash, under the same condition (loadScene).
THEOREM RecallsAreFaithful == Spec => RecallFaithful
<1>1. ASSUME Inv, NEW t \in Task, loadScene(t), ~clashed
      PROVE  flash["scenes"][job[t].key] \in {job'[t].look, Unset}
  <2>1. job \in [Task -> Job] /\ job[t].op = "loadScene" /\ job[t].stage = "work"
    BY <1>1 DEF Inv, FlashInv, TypeOK, loadScene
  <2>2. prefs.open /\ prefs.ns = "scenes"
    BY <1>1, <2>1 DEF Inv, Exclusive, Using, Namespace
  <2>3. Got(job[t].key) = flash["scenes"][job[t].key]
    BY <2>2 DEF Got
  <2>4. job'[t].look = IF Got(job[t].key) = Unset THEN Dark ELSE Got(job[t].key)
    BY <1>1, <2>1 DEF loadScene, Job
  <2> QED
    BY <2>3, <2>4
<1>2. Inv => [\A t \in Task : loadScene(t) /\ ~clashed =>
                flash["scenes"][job[t].key] \in {job'[t].look, Unset}]_vars
  BY <1>1
<1> QED
  BY <1>2, InvHolds, PTL DEF RecallFaithful
=============================================================================
