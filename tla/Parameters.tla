----------------------------- MODULE Parameters ------------------------------
(***************************************************************************)
(* CameraParametersManager under the initial information of the server:    *)
(* parseAndSaveInitialInfo, which applies four sections and saves them,    *)
(* the change callbacks, and the store of face features with its           *)
(* directories; and what getHamiCamInitialInfo of the command handler      *)
(* hands to the system service.  Another thread, the agent's, calls        *)
(* setters and saves meanwhile.                                            *)
(*                                                                         *)
(* One parameter stands for all parameters of a section; its value is the  *)
(* number of the change that wrote it, which all sections of an info share.*)
(* A callback may call a setter on its own thread: m_mutex is recursive.   *)
(* Callbacks that save, or that register others, are not modelled; those   *)
(* in the repository print what they are told.                             *)
(***************************************************************************)
EXTENDS Integers, Sequences, FiniteSets

CONSTANTS
  Infos,        \* what the server may send to parseAndSaveInitialInfo
  Responses,    \* what it may answer to getHamiCamInitialInfo
  Manual,       \* ids of features added one by one
  MaxFeatures,  \* 20 in the code
  FeatureBytes, \* 2048 in the code
  MaxChanges,   \* bound on changes
  MaxCrashes    \* bound on crashes

ASSUME BoundAssumption == MaxChanges \in Nat /\ MaxCrashes \in Nat /\ MaxFeatures \in Nat
ASSUME FeatureAssumption == FeatureBytes \in Nat \ {0}
\* GetIntMember throws on anything but an int.
ASSUME ResponseAssumption == \A r \in Responses : r.n \in Int

Sections == {"cam", "settings", "ai", "system"}
InOrder  == <<"cam", "settings", "ai", "system">>
Keys     == Sections \cup {"identificationFeatures"}
AnyKey   == ""           \* the key of a callback for all parameters
NoCall   == <<>>         \* no callback runs
Absent   == {"absent"}   \* a directory that does not exist

\* A text is a sequence of base64 digits, pad signs, white space and others.
Pad    == 64
Space  == 65
Other  == 66
Failed == -1

\* An entry whose text is missing or no string is not complete.
ASSUME TextAssumption ==
  \A i \in Infos : \A f \in i.features : f.complete => f.text \in Seq(0..Other)
ASSUME FaceAssumption == \A i \in Infos : \A f \in i.features : f.id \notin Absent

VARIABLES
  mem,        \* m_parameters
  file,       \* the configuration file ...
  readable,   \* ... unless a save was cut off
  m_mutex,    \* its holder between steps
  pc,         \* where each thread is
  info,       \* what parseAndSaveInitialInfo works on
  infoChange, \* ... and the number of its change
  todo,       \* the sections left
  allSuccess,
  changes,    \* changes so far
  m_callbacks,  \* keys of the registered callbacks
  calling,    \* keys a thread is telling callbacks about, the innermost call first
  features,   \* ids in m_identificationFeatures
  newFeatures,
  unwritten,  \* history: ids whose text decodes but whose file could not be written
  saveDir, tmpDir,   \* files in /mnt/model/matrixs and in /tmp/matrixs
  accepted,   \* history: the ids of the update whose files replaced the others
  torn,       \* history: rm or mv failed, or the process died between them
  written,    \* history: sections and change of the last info that reached the file
  sent,       \* what the system service was last given by getHamiCamInitialInfo
  crashes

memVars  == <<mem, file, readable, changes, written>>
infoVars == <<info, infoChange, todo, allSuccess>>
featVars == <<features, newFeatures, unwritten, saveDir, tmpDir, accepted, torn>>
vars == <<memVars, infoVars, featVars, m_mutex, pc, m_callbacks, calling, sent, crashes>>

Threads == {"app", "ctl"}
NoInfo  == [s \in Sections |-> "empty"]
NotSent == <<>>
Defaults == [s \in Sections |-> 0]

\* The steps of parseAndSaveInitialInfo up to its save, and all steps.
Applying == {"parse", "dirs", "files", "remove", "move", "swap", "cleanup"}
AppSteps == Applying \cup {"off", "idle", "save", "write"}

TypeOK ==
  /\ mem \in [Sections -> 0..MaxChanges] /\ file \in [Sections -> 0..MaxChanges]
  /\ readable \in BOOLEAN /\ allSuccess \in BOOLEAN /\ torn \in BOOLEAN
  /\ m_mutex \in Threads \cup {"free"}
  /\ pc \in [Threads -> AppSteps]
  /\ pc["ctl"] \in {"off", "idle", "save", "write"}
  /\ changes \in 0..MaxChanges /\ infoChange \in 0..MaxChanges /\ crashes \in 0..MaxCrashes
  /\ m_callbacks \subseteq {"settings", AnyKey}
  /\ calling \in [Threads -> Seq(Keys)]
  /\ written \in [sections : SUBSET Sections, change : 0..MaxChanges]

Init ==
  /\ mem = Defaults /\ file = Defaults /\ readable = TRUE /\ changes = 0
  /\ m_mutex = "free" /\ pc = [t \in Threads |-> "idle"]
  /\ info = NoInfo /\ infoChange = 0 /\ todo = <<>> /\ allSuccess = TRUE
  /\ m_callbacks = {} /\ calling = [t \in Threads |-> NoCall]
  /\ features = {} /\ newFeatures = {} /\ unwritten = {} /\ saveDir = Absent /\ tmpDir = Absent
  /\ accepted = {} /\ torn = FALSE /\ written = [sections |-> {}, change |-> 0]
  /\ sent = NotSent /\ crashes = 0

Goto(t, label) == pc' = [pc EXCEPT ![t] = label]

\* Thread t may go on: no callback of its runs.
At(t, label) == pc[t] = label /\ calling[t] = NoCall

-----------------------------------------------------------------------------
(* setParameter and its callbacks *)

\* notifyParameterChanged calls the callbacks for the key and those for any key.
Notify(t, key) ==
  calling' = [calling EXCEPT ![t] = IF m_callbacks \cap {key, AnyKey} # {} THEN <<key>> \o @ ELSE @]

SetParameter(t, key, n) ==
  /\ mem' = [mem EXCEPT ![key] = n]
  /\ Notify(t, key)

\* A callback calls a setter: its thread owns m_mutex already.
CallbackSets(t) ==
  /\ calling[t] # NoCall /\ m_mutex \in {"free", t} /\ changes < MaxChanges
  /\ changes' = changes + 1
  /\ SetParameter(t, "settings", changes + 1)
  /\ UNCHANGED <<file, readable, written, infoVars, featVars, m_mutex, pc, m_callbacks, sent,
                 crashes>>

\* A callback returns; after the last one a thread that held m_mutex for its setter
\* only leaves it.
CallbackReturns(t) ==
  /\ calling[t] # NoCall
  /\ calling' = [calling EXCEPT ![t] = Tail(@)]
  /\ m_mutex' = IF calling'[t] = NoCall /\ m_mutex = t /\ pc[t] \in {"idle", "save"}
                   THEN "free" ELSE m_mutex
  /\ UNCHANGED <<memVars, infoVars, featVars, pc, m_callbacks, sent, crashes>>

RegisterParameterChangeCallback(key) ==
  /\ At("app", "idle") /\ m_mutex = "free"
  /\ m_callbacks' = m_callbacks \cup {key}
  /\ UNCHANGED <<memVars, infoVars, featVars, m_mutex, pc, calling, sent, crashes>>

UnregisterParameterChangeCallback(key) ==
  /\ At("app", "idle") /\ m_mutex = "free" /\ key \in m_callbacks
  /\ m_callbacks' = m_callbacks \ {key}
  /\ UNCHANGED <<memVars, infoVars, featVars, m_mutex, pc, calling, sent, crashes>>

\* Held(t) is the mutex after a setter: the callback runs inside it.
Held(t) == IF calling'[t] = NoCall THEN "free" ELSE t

\* Mutant of SetByControl: the mutex is released before the callbacks are called.
SetByControlUnlocked ==
  /\ At("ctl", "idle") /\ m_mutex = "free" /\ changes < MaxChanges
  /\ changes' = changes + 1
  /\ SetParameter("ctl", "settings", changes + 1)
  /\ Goto("ctl", "save")
  /\ UNCHANGED <<file, readable, written, m_mutex, infoVars, featVars, m_callbacks, sent,
                 crashes>>

\* A handler's setter on the agent's thread, to be followed by a save.
SetByControl ==
  /\ At("ctl", "idle") /\ m_mutex = "free" /\ changes < MaxChanges
  /\ changes' = changes + 1
  /\ SetParameter("ctl", "settings", changes + 1)
  /\ m_mutex' = Held("ctl")
  /\ Goto("ctl", "save")
  /\ UNCHANGED <<file, readable, written, infoVars, featVars, m_callbacks, sent, crashes>>

-----------------------------------------------------------------------------
(* parseAndSaveInitialInfo, under m_mutex from its first step to its last *)

ParseAndSaveInitialInfo(i) ==
  /\ At("app", "idle") /\ m_mutex = "free" /\ changes < MaxChanges
  /\ m_mutex' = "app" /\ info' = i /\ todo' = InOrder /\ allSuccess' = TRUE
  /\ changes' = changes + 1 /\ infoChange' = changes + 1
  /\ Goto("app", "parse")
  /\ UNCHANGED <<mem, file, readable, written, featVars, m_callbacks, calling, sent, crashes>>

\* A parser: an empty section is skipped, one that is not JSON fails, and the
\* others are applied all the same.
Parse(s, next) ==
  /\ At("app", "parse") /\ todo # <<>> /\ Head(todo) = s
  /\ todo' = Tail(todo)
  /\ allSuccess' = (allSuccess /\ info[s] # "bad")
  /\ IF info[s] = "good" THEN SetParameter("app", s, infoChange)
     ELSE UNCHANGED <<mem, calling>>
  /\ Goto("app", IF info[s] = "good" THEN next ELSE "parse")
  /\ UNCHANGED <<file, readable, changes, written, info, infoChange, featVars, m_mutex, m_callbacks,
                 sent, crashes>>

ParseHamiCamInfo        == Parse("cam", "parse")
ParseHamiSettings       == Parse("settings", "parse")
ParseHamiAiSettings     == Parse("ai", "dirs")   \* updateIdentificationFeature comes next
ParseHamiSystemSettings == Parse("system", "parse")

\* The result is allSuccess, whatever became of the save.
Return(saved) ==
  /\ m_mutex' = "free" /\ info' = NoInfo /\ infoChange' = 0
  /\ written' = IF saved THEN [sections |-> {s \in Sections : info[s] = "good"},
                               change |-> infoChange] ELSE written
  /\ Goto("app", "idle")

ParseFails ==
  /\ At("app", "parse") /\ todo = <<>> /\ ~allSuccess
  /\ Return(FALSE)
  /\ UNCHANGED <<mem, file, readable, changes, todo, allSuccess, featVars, m_callbacks,
                 calling, sent, crashes>>

\* Mutant of ParseDone: the info is not saved.
ParseDoneUnsaved ==
  /\ At("app", "parse") /\ todo = <<>> /\ allSuccess
  /\ Return(TRUE)
  /\ UNCHANGED <<mem, file, readable, changes, todo, allSuccess, featVars, m_callbacks,
                 calling, sent, crashes>>

ParseDone ==
  /\ At("app", "parse") /\ todo = <<>> /\ allSuccess
  /\ Goto("app", "save")
  /\ UNCHANGED <<memVars, infoVars, featVars, m_mutex, m_callbacks, calling, sent, crashes>>

-----------------------------------------------------------------------------
(* saveToFile, inside the info's critical section or in one of its own *)

\* Mutant of SaveOpens: without the lock.
SaveOpensUnlocked(t) ==
  /\ At(t, "save")
  /\ readable' = FALSE
  /\ Goto(t, "write")
  /\ UNCHANGED <<mem, file, changes, written, infoVars, featVars, m_mutex, m_callbacks,
                 calling, sent, crashes>>

SaveOpens(t) ==
  /\ At(t, "save") /\ m_mutex \in {"free", t}
  /\ m_mutex' = t /\ readable' = FALSE
  /\ Goto(t, "write")
  /\ UNCHANGED <<mem, file, changes, written, infoVars, featVars, m_callbacks, calling,
                 sent, crashes>>

\* Whether the write went well is not asked: a full disk leaves a file cut off, and
\* the result is the same.
SaveWrites(t) ==
  /\ At(t, "write")
  /\ \/ file' = mem /\ readable' = TRUE
     \/ UNCHANGED <<file, readable>>
  /\ IF t = "app" THEN Return(readable')
     ELSE m_mutex' = "free" /\ Goto(t, "idle") /\ UNCHANGED <<info, infoChange, written>>
  /\ UNCHANGED <<mem, changes, todo, allSuccess, featVars, m_callbacks, calling, sent, crashes>>

\* The file cannot be opened: the backup that is written is never read.  Nobody
\* looks at the result, and parseAndSaveInitialInfo returns true all the same.
SaveFails(t) ==
  /\ At(t, "save") /\ m_mutex \in {"free", t}
  /\ IF t = "app" THEN Return(FALSE)
     ELSE m_mutex' = "free" /\ Goto(t, "idle") /\ UNCHANGED <<info, infoChange, written>>
  /\ UNCHANGED <<mem, file, readable, changes, todo, allSuccess, featVars, m_callbacks,
                 calling, sent, crashes>>

-----------------------------------------------------------------------------
(* updateIdentificationFeature(aiSettingJson) *)

OtherVars == <<memVars, infoVars, m_mutex, m_callbacks, calling, sent, crashes>>

Made(dir) == IF dir = Absent THEN {} ELSE dir

EnsureDirs ==
  /\ At("app", "dirs")
  /\ tmpDir' = Made(tmpDir) /\ saveDir' = Made(saveDir)
  /\ Goto("app", "files")
  /\ UNCHANGED <<OtherVars, features, newFeatures, unwritten, accepted, torn>>

\* Mutant of DecodeBase64: a pad sign ends the text whatever comes after it.
DecodeBase64Lax(s) ==
  LET from[at \in (1..Len(s) + 1) \X (0..3) \X Nat] ==
        LET i == at[1] qn == at[2] n == at[3] IN
        IF i > Len(s) THEN (IF qn = 0 THEN n ELSE Failed)
        ELSE IF s[i] = Space THEN from[<<i + 1, qn, n>>]
        ELSE IF s[i] = Other THEN Failed
        ELSE IF s[i] = Pad THEN (IF qn < 2 THEN Failed ELSE n + qn - 1)
        ELSE IF qn = 3 THEN from[<<i + 1, 0, n + 3>>] ELSE from[<<i + 1, qn + 1, n>>]
  IN from[<<1, 0, 0>>]

\* The pad sign at i ends a text with qn digits in the quartet: nothing but white
\* space and at most one more pad sign comes after it, which two digits need.
PadsEnd(s, i, qn) ==
  LET rest == {j \in i + 1..Len(s) : s[j] # Space} IN
  /\ qn >= 2
  /\ \A j \in rest : s[j] = Pad
  /\ Cardinality(rest) <= 1
  /\ qn = 2 => rest # {}

\* decodeBase64: the number of bytes, or Failed.  from is the loop at character i
\* with qn digits in the quartet and n bytes out; a pad sign ends it.
DecodeBase64(s) ==
  LET from[at \in (1..Len(s) + 1) \X (0..3) \X Nat] ==
        LET i == at[1] qn == at[2] n == at[3] IN
        IF i > Len(s) THEN (IF qn = 0 THEN n ELSE Failed)
        ELSE IF s[i] = Space THEN from[<<i + 1, qn, n>>]
        ELSE IF s[i] = Other THEN Failed
        ELSE IF s[i] = Pad THEN (IF PadsEnd(s, i, qn) THEN n + qn - 1 ELSE Failed)
        ELSE IF qn = 3 THEN from[<<i + 1, 0, n + 3>>] ELSE from[<<i + 1, qn + 1, n>>]
  IN from[<<1, 0, 0>>]

\* A complete entry whose text decodes to FeatureBytes bytes is kept; one whose
\* text does not decode leaves a file behind all the same; others are passed over,
\* as is one whose file cannot be opened, or is left incomplete.  What an earlier,
\* cut off update left in the directory stays.
WriteFiles ==
  LET decoded(n) == {f.id : f \in {x \in info.features :
                                     x.complete /\ DecodeBase64(x.text) = n}} IN
  /\ At("app", "files")
  /\ unwritten' \in SUBSET decoded(FeatureBytes)
  /\ newFeatures' = decoded(FeatureBytes) \ unwritten'
  /\ \E incomplete \in SUBSET unwritten' :
       tmpDir' = tmpDir \cup newFeatures' \cup incomplete \cup decoded(Failed)
  /\ Goto("app", IF newFeatures' = {} THEN "cleanup" ELSE "remove")
  /\ UNCHANGED <<OtherVars, features, saveDir, accepted, torn>>

RemoveSaveDir ==
  /\ At("app", "remove")
  /\ \/ saveDir' = Absent /\ UNCHANGED torn
     \/ torn' = TRUE /\ UNCHANGED saveDir
  /\ accepted' = newFeatures
  /\ Goto("app", "move")
  /\ UNCHANGED <<OtherVars, features, newFeatures, unwritten, tmpDir>>

\* mv into a directory that is still there makes a directory inside it.
MoveSaveDir ==
  /\ At("app", "move")
  /\ \/ /\ tmpDir' = Absent
        /\ saveDir' = IF saveDir = Absent THEN tmpDir ELSE saveDir
        /\ UNCHANGED torn
     \/ torn' = TRUE /\ UNCHANGED <<saveDir, tmpDir>>
  /\ Goto("app", "swap")
  /\ UNCHANGED <<OtherVars, features, newFeatures, unwritten, accepted>>

SwapFeatures ==
  /\ At("app", "swap")
  /\ features' = newFeatures /\ newFeatures' = features
  /\ Goto("app", "cleanup")
  /\ UNCHANGED <<OtherVars, unwritten, saveDir, tmpDir, accepted, torn>>

\* Mutant of RemoveTmpDir: the wrong directory goes.
RemoveTmpDirSaved ==
  /\ At("app", "cleanup")
  /\ saveDir' = Absent /\ tmpDir' = Absent /\ newFeatures' = {} /\ unwritten' = {}
  /\ Goto("app", "parse")
  /\ UNCHANGED <<OtherVars, features, accepted, torn>>

RemoveTmpDir ==
  /\ At("app", "cleanup")
  /\ tmpDir' \in {Absent, tmpDir} /\ newFeatures' = {} /\ unwritten' = {}
  /\ Goto("app", "parse")
  /\ UNCHANGED <<OtherVars, features, saveDir, accepted, torn>>

-----------------------------------------------------------------------------
(* Features one by one: memory only *)

FeatureStep(change) ==
  /\ At("app", "idle") /\ m_mutex = "free" /\ change
  /\ UNCHANGED <<memVars, infoVars, newFeatures, unwritten, saveDir, tmpDir, accepted, torn, pc,
                 m_callbacks, sent, crashes>>
  /\ Notify("app", "identificationFeatures") /\ m_mutex' = Held("app")

AddIdentificationFeature(id) ==
  FeatureStep(/\ id \notin features /\ Cardinality(features) < MaxFeatures
              /\ features' = features \cup {id})

RemoveIdentificationFeature(id) ==
  FeatureStep(id \in features /\ features' = features \ {id})

\* The entry is replaced in its place.
UpdateIdentificationFeature(id) == FeatureStep(id \in features /\ UNCHANGED features)

-----------------------------------------------------------------------------
(* getHamiCamInitialInfo of the command handler *)

RewriteIntParam(org, minVal, maxVal, hasDefault, defaultVal) ==
  IF org < minVal THEN (IF hasDefault THEN defaultVal ELSE minVal)
  ELSE IF org > maxVal THEN (IF hasDefault THEN defaultVal ELSE maxVal) ELSE org

\* What is thrown on: a member that is missing or of another type; the ids of
\* another camera; a schedule that is not a range of times; a fence outside.
\* The alerts are looked for in hamiSettings, and GetObjectMember throws on an
\* identificationFeatures that is an array, so only an object gets by, and is
\* then passed over: the verify levels in it are never looked at.
Usable(r) ==
  /\ r.complete /\ r.alertsIn = "hamiSettings" /\ r.features = "object"
  /\ r.sameCamera /\ r.schedules /\ r.fence >= 0

\* One field for each pair of range and default: a switch, a mode, a volume, the
\* days an event and another record are kept, the power, the stay of a tour, what
\* the pan does, and the tracking, which the header knows as 0 and 1 only ...
ConvertSettings(n) ==
  [switch |-> RewriteIntParam(n, 0, 1, FALSE, -1), mode  |-> RewriteIntParam(n, 0, 2, TRUE, 1),
   volume |-> RewriteIntParam(n, 0, 10, TRUE, 3),  days  |-> RewriteIntParam(n, 0, 30, TRUE, 7),
   power  |-> RewriteIntParam(n, 0, 100, TRUE, 50), stay |-> RewriteIntParam(n, 1, 5, TRUE, 5),
   eventDays |-> RewriteIntParam(n, 0, 30, TRUE, 15), ptzStatus |-> RewriteIntParam(n, 0, 4, TRUE, 0),
   tracking  |-> RewriteIntParam(n, 0, 2, TRUE, 0)]

\* ... and an alert, a sensitivity, the time of a fall, the direction of the fence.
ConvertAiSettings(n) ==
  [alert    |-> RewriteIntParam(n, 0, 1, FALSE, -1), sen |-> RewriteIntParam(n, 0, 2, TRUE, 1),
   fallTime |-> RewriteIntParam(n, 1, 5, TRUE, 3), fenceDir |-> RewriteIntParam(n, 0, 1, FALSE, -1)]

\* sendCommand is CommandHandler's; here it succeeds with r, or nothing happens.
GetHamiCamInitialInfo(r) ==
  /\ At("app", "idle") /\ m_mutex = "free"
  /\ sent' = IF Usable(r) THEN <<ConvertSettings(r.n), ConvertAiSettings(r.n)>> ELSE sent
  /\ UNCHANGED <<memVars, infoVars, featVars, m_mutex, pc, m_callbacks, calling, crashes>>

-----------------------------------------------------------------------------
(* The process dies, and starts again; the directories stay *)

Crash ==
  /\ pc["app"] # "off" /\ crashes < MaxCrashes
  /\ crashes' = crashes + 1
  /\ pc' = [t \in Threads |-> "off"] /\ m_mutex' = "free"
  /\ info' = NoInfo /\ infoChange' = 0 /\ todo' = <<>> /\ allSuccess' = TRUE
  /\ m_callbacks' = {} /\ calling' = [t \in Threads |-> NoCall]
  /\ features' = {} /\ newFeatures' = {} /\ unwritten' = {} /\ sent' = NotSent
  /\ torn' = (torn \/ pc["app"] = "move")
  /\ UNCHANGED <<memVars, saveDir, tmpDir, accepted>>

\* initialize: loadFromFile, or the defaults, which are saved.
Start ==
  /\ pc["app"] = "off"
  /\ mem' = (IF readable THEN file ELSE Defaults)
  /\ file' = mem' /\ readable' = TRUE
  /\ written' = IF readable THEN written ELSE [sections |-> {}, change |-> 0]
  /\ pc' = [t \in Threads |-> "idle"]
  /\ UNCHANGED <<changes, infoVars, featVars, m_mutex, m_callbacks, calling, sent, crashes>>

-----------------------------------------------------------------------------
Next ==
  \/ \E t \in Threads : \/ CallbackSets(t) \/ CallbackReturns(t)
                        \/ SaveOpens(t) \/ SaveWrites(t) \/ SaveFails(t)
  \/ \E key \in {"settings", AnyKey} : \/ RegisterParameterChangeCallback(key)
                                    \/ UnregisterParameterChangeCallback(key)
  \/ SetByControl
  \/ \E i \in Infos : ParseAndSaveInitialInfo(i)
  \/ ParseHamiCamInfo \/ ParseHamiSettings \/ ParseHamiAiSettings \/ ParseHamiSystemSettings
  \/ ParseFails \/ ParseDone
  \/ EnsureDirs \/ WriteFiles \/ RemoveSaveDir \/ MoveSaveDir \/ SwapFeatures \/ RemoveTmpDir
  \/ \E id \in Manual : \/ AddIdentificationFeature(id) \/ RemoveIdentificationFeature(id)
                        \/ UpdateIdentificationFeature(id)
  \/ \E r \in Responses : GetHamiCamInitialInfo(r)
  \/ Crash \/ Start

Spec == Init /\ [][Next]_vars

-----------------------------------------------------------------------------
(* Properties *)

\* From the moment a setter stores a value until the last callback it calls has
\* returned, nobody changes a parameter but the setters these callbacks call
\* themselves.  It holds because the callbacks run inside the setter's critical
\* section of the recursive m_mutex (camera_parameters_manager.cpp:1170-1195,
\* 1304-1345); the comments at 1326 and 1328 say that the mutex is released there
\* and not held, and if they were right it would not hold.
CallbackUndisturbed ==
  [][\A t \in Threads : calling[t] # NoCall /\ mem' # mem => Len(calling'[t]) > Len(calling[t])]_vars

\* Once an info has reached the file, the file is never behind it in any section the
\* info gave, whatever the other thread sets and saves and wherever the process
\* dies; only a save that is cut off, by a crash or by a write that fails, loses it.
\* The code reports more: its result is true even when the file could not be opened
\* or written (camera_parameters_manager.cpp:1513-1573, 1461-1465).
InfoDurable ==
  readable => \A s \in written.sections : file[s] >= written.change

\* While an info is being applied no part of it reaches the file: a save of the
\* agent's thread waits for the whole of it (camera_parameters_manager.cpp:1525,
\* 1410-1466).  What a failed info left in memory may be saved later.
NoHalfInfo ==
  pc["app"] \in Applying => \A s \in Sections : file[s] < infoChange

\* The face files of one whole update, the old or the new, are on disk at every
\* moment, in the one directory or the other, wherever the process dies, unless
\* rm or mv fails or the process dies between the two
\* (camera_parameters_manager.cpp:2569-2587).
FeaturesOnDisk == torn \/ accepted \subseteq saveDir \cup tmpDir

\* White space aside, text is base64 digits for n bytes and after them the pad signs
\* that fill them up to four, or one pad sign too many.
Encodes(text, n) ==
  LET D == {i \in DOMAIN text : text[i] < Pad}
      P == {i \in DOMAIN text : text[i] = Pad}
      d == Cardinality(D)
      pads == Cardinality(P)
  IN /\ \A i \in DOMAIN text : text[i] # Other
     /\ \A i \in D, j \in P : i < j
     /\ (6 * d) \div 8 = n
     /\ pads = (4 - (d % 4)) % 4 \/ (pads = 2 /\ d % 4 = 3)
     /\ d % 4 # 1

\* The faces taken over are those whose text is base64 of exactly the right number
\* of bytes, wherever white space and pad signs stand, and whose file could be
\* written: the decoder neither lets a truncated text through nor loses a good one
\* (camera_parameters_manager.cpp:1712-1795, 2529-2530).
FacesDecode ==
  pc["app"] = "remove" =>
    newFeatures \cup unwritten =
      {f.id : f \in {x \in info.features : x.complete /\ Encodes(x.text, FeatureBytes)}}

=============================================================================
