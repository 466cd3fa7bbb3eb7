-------------------------- MODULE ParametersProofs ---------------------------
(***************************************************************************)
(* Theorems about Parameters, for any infos, responses, features and       *)
(* numbers of changes and crashes.                                         *)
(***************************************************************************)
EXTENDS Parameters, SequenceTheorems, FiniteSetTheorems, WellFoundedInduction, TLAPS

Saving == {"save", "write"}

\* Who holds m_mutex: parseAndSaveInitialInfo from its first step to its last, a
\* save while it writes, a setter while its callback runs.
LockInv ==
  /\ pc["app"] \in Applying \cup Saving => m_mutex = "app"
  /\ pc["ctl"] = "write" => m_mutex = "ctl"
  /\ \A t \in Threads : pc[t] = "write" => ~readable
  /\ \A t \in Threads : calling[t] # NoCall => m_mutex = t /\ m_callbacks # {}
  /\ calling["ctl"] # NoCall => pc["ctl"] = "save"
  /\ calling["app"] # NoCall => pc["app"] \in {"idle", "parse", "dirs"}
  /\ pc["app"] = "off" <=> pc["ctl"] = "off"
  /\ pc["app"] = "off" => m_mutex = "free"

\* No value is newer than the last change, and the info being applied is newer than
\* the one written.
AgeInv ==
  /\ \A s \in Sections : mem[s] <= changes /\ file[s] <= changes
  /\ written.change <= changes /\ infoChange <= changes
  /\ pc["app"] \in Applying \cup Saving => written.change <= infoChange

Left(s) == \E i \in DOMAIN todo : todo[i] = s

\* The sections of the info that is being applied are in memory or still left.
AppliedInv ==
  /\ todo \in Seq(Sections)
  /\ pc["app"] \in Applying \cup Saving =>
       /\ info \in Infos
       /\ \A s \in Sections : info[s] = "good" => mem[s] >= infoChange \/ Left(s)
  /\ pc["app"] \in Saving => todo = <<>>

\* What was written is in memory too, while the process runs.
WrittenInv ==
  pc["app"] # "off" => \A s \in written.sections : mem[s] >= written.change

\* Between rm and mv the accepted faces are in the one directory, and before and
\* after in the other.
DiskInv ==
  /\ pc["app"] = "remove" => newFeatures \subseteq tmpDir /\ newFeatures \cap Absent = {}
  /\ accepted \cap Absent = {}
  /\ pc["app"] = "move" /\ ~torn => saveDir = Absent /\ accepted \subseteq tmpDir
  /\ pc["app"] # "move" /\ ~torn => accepted \subseteq saveDir

Inv == /\ TypeOK /\ LockInv /\ AgeInv /\ AppliedInv /\ WrittenInv
       /\ InfoDurable /\ NoHalfInfo

\* The calls of a thread with one more ...
LEMMA PushCall ==
  ASSUME NEW k \in Keys, NEW c \in Seq(Keys)
  PROVE  <<k>> \o c \in Seq(Keys) /\ <<k>> \o c # NoCall /\ Len(<<k>> \o c) > Len(c)
<1>1. <<k>> \in Seq(Keys) /\ Len(<<k>>) = 1
  OBVIOUS
<1>2. <<k>> \o c \in Seq(Keys) /\ Len(<<k>> \o c) = 1 + Len(c) /\ Len(c) \in Nat
  BY <1>1, ConcatProperties, LenProperties
<1>3. Len(<<k>> \o c) > 0 /\ Len(NoCall) = 0
  BY <1>2 DEF NoCall
<1> QED
  BY <1>2, <1>3

\* ... and without the innermost.
LEMMA PopCall ==
  ASSUME NEW c \in Seq(Keys), c # NoCall
  PROVE  Tail(c) \in Seq(Keys)
BY HeadTailProperties DEF NoCall

\* No calls, or those of one thread with one more.
LEMMA NotifyCalls ==
  ASSUME Inv, NEW t \in Threads, NEW k \in Keys, Notify(t, k)
  PROVE  /\ calling' \in [Threads -> Seq(Keys)]
         /\ \A u \in Threads \ {t} : calling'[u] = calling[u]
         /\ calling'[t] = calling[t] \/ (calling'[t] # NoCall /\ m_callbacks # {}
                                         /\ Len(calling'[t]) > Len(calling[t]))
         /\ m_callbacks \cap {k, AnyKey} # {} => calling'[t] # calling[t]
<1>1. calling \in [Threads -> Seq(Keys)]
  BY DEF Inv, TypeOK
<1>2. calling[t] \in Seq(Keys)
  BY <1>1
<1>3. PICK c \in Seq(Keys) : /\ calling' = [calling EXCEPT ![t] = c]
                             /\ c = IF m_callbacks \cap {k, AnyKey} # {} THEN <<k>> \o calling[t] ELSE calling[t]
  BY <1>2, PushCall DEF Notify
<1>4. calling'[t] = c /\ calling' \in [Threads -> Seq(Keys)] /\ \A u \in Threads \ {t} : calling'[u] = calling[u]
  BY <1>1, <1>3
<1>5. CASE m_callbacks \cap {k, AnyKey} # {}
  <2>1. c # NoCall /\ Len(c) > Len(calling[t]) /\ Len(calling[t]) \in Nat
    BY <1>2, <1>3, <1>5, PushCall, LenProperties
  <2>2. m_callbacks # {}
    BY <1>5
  <2>3. c # calling[t]
    BY <2>1
  <2> QED
    BY <1>4, <2>1, <2>2, <2>3
<1>6. CASE ~ (m_callbacks \cap {k, AnyKey} # {})
  BY <1>3, <1>4, <1>6
<1> QED
  BY <1>5, <1>6

\* The initial states satisfy the invariant.
LEMMA InitInv == Init => Inv
<1> SUFFICES ASSUME Init PROVE Inv
  OBVIOUS
<1>1. /\ mem \in [Sections -> 0..MaxChanges] /\ file \in [Sections -> 0..MaxChanges]
      /\ changes = 0 /\ changes \in 0..MaxChanges /\ crashes \in 0..MaxCrashes
      /\ \A s \in Sections : mem[s] = 0 /\ file[s] = 0
  BY BoundAssumption DEF Init, Defaults
<1>2. written \in [sections : SUBSET Sections, change : 0..MaxChanges]
  BY BoundAssumption DEF Init
<1>3. TypeOK
  <2>1. calling \in [Threads -> Seq(Keys)] /\ infoChange \in 0..MaxChanges
    BY EmptySeq, BoundAssumption DEF Init, NoCall
  <2> QED
    BY <1>1, <1>2, <2>1 DEF Init, TypeOK, Threads, AppSteps
<1>4. LockInv /\ NoHalfInfo
  BY DEF Init, LockInv, NoHalfInfo, Applying, Saving, Threads
<1>5. AgeInv /\ AppliedInv /\ WrittenInv /\ InfoDurable
  BY <1>1, EmptySeq DEF Init, AgeInv, AppliedInv, WrittenInv, InfoDurable, Applying, Saving, Threads
<1> QED
  BY <1>3, <1>4, <1>5 DEF Inv

\* Steps that leave the parameters, the info and the threads' places alone.
LEMMA RestKeeps ==
  ASSUME Inv,
         \/ \E key \in {"settings", AnyKey} : \/ RegisterParameterChangeCallback(key)
                                           \/ UnregisterParameterChangeCallback(key)
         \/ \E r \in Responses : GetHamiCamInitialInfo(r)
         \/ UNCHANGED vars
  PROVE  Inv'
<1>1. UNCHANGED <<memVars, infoVars, m_mutex, pc, calling, crashes, torn>>
      /\ m_callbacks' \subseteq {"settings", AnyKey}
      /\ (m_callbacks' = m_callbacks \/ m_mutex = "free")
  BY DEF Inv, TypeOK, RegisterParameterChangeCallback, UnregisterParameterChangeCallback,
     GetHamiCamInitialInfo, vars, featVars
<1>2. TypeOK' /\ LockInv' /\ AgeInv'
  <2>1. TypeOK' /\ AgeInv'
    BY <1>1 DEF Inv, TypeOK, AgeInv, memVars, infoVars
  <2>2. \A t \in Threads : calling[t] # NoCall => m_mutex = t /\ m_callbacks' # {}
    BY <1>1 DEF Inv, LockInv, Threads
  <2>3. LockInv'
    BY <1>1, <2>2 DEF Inv, LockInv, memVars
  <2> QED
    BY <2>1, <2>3
<1>3. AppliedInv' /\ WrittenInv' /\ InfoDurable' /\ NoHalfInfo'
  BY <1>1 DEF Inv, AppliedInv, Left, WrittenInv, InfoDurable, NoHalfInfo, memVars, infoVars
<1> QED
  BY <1>2, <1>3 DEF Inv

\* A feature added, removed or updated by itself: only its callback is called.
LEMMA FeatureKeeps ==
  ASSUME Inv, NEW id, AddIdentificationFeature(id) \/ RemoveIdentificationFeature(id)
                        \/ UpdateIdentificationFeature(id)
  PROVE  Inv'
<1>1. /\ pc["app"] = "idle" /\ calling["app"] = NoCall /\ m_mutex = "free"
      /\ UNCHANGED <<memVars, infoVars, pc, m_callbacks, crashes, torn>>
      /\ Notify("app", "identificationFeatures") /\ m_mutex' = Held("app")
  BY DEF AddIdentificationFeature, RemoveIdentificationFeature, UpdateIdentificationFeature, FeatureStep, At
<1>2. m_mutex' \in {"free", "app"} /\ (calling'["app"] # NoCall => m_mutex' = "app")
  BY <1>1 DEF Held
<1>3. /\ calling' \in [Threads -> Seq(Keys)] /\ calling'["ctl"] = calling["ctl"]
      /\ calling'["app"] # NoCall => m_callbacks # {}
  BY <1>1, NotifyCalls DEF Threads, Keys
<1>4. calling["ctl"] = NoCall
  BY <1>1 DEF Inv, LockInv, Threads
<1>5. TypeOK'
  BY <1>1, <1>2, <1>3 DEF Inv, TypeOK, memVars, infoVars, Threads
<1>6. LockInv'
  BY <1>1, <1>2, <1>3, <1>4 DEF Inv, LockInv, Threads, Applying, Saving
<1>7. AgeInv' /\ AppliedInv' /\ WrittenInv' /\ InfoDurable' /\ NoHalfInfo'
  BY <1>1 DEF Inv, AgeInv, AppliedInv, Left, WrittenInv, InfoDurable, NoHalfInfo, memVars, infoVars
<1> QED
  BY <1>5, <1>6, <1>7 DEF Inv

\* A callback returns.
LEMMA ReturnKeeps ==
  ASSUME Inv, NEW t \in Threads, CallbackReturns(t)
  PROVE  Inv'
<1>1. /\ calling[t] # NoCall /\ calling' = [calling EXCEPT ![t] = Tail(@)] /\ m_mutex = t
      /\ m_mutex' = IF calling'[t] = NoCall /\ pc[t] \in {"idle", "save"} THEN "free" ELSE t
      /\ UNCHANGED <<memVars, infoVars, pc, m_callbacks, crashes, torn>>
  BY DEF CallbackReturns, Inv, LockInv, featVars
<1>2. /\ calling \in [Threads -> Seq(Keys)] /\ calling' \in [Threads -> Seq(Keys)]
      /\ \A u \in Threads \ {t} : calling'[u] = calling[u]
  <2>1. calling \in [Threads -> Seq(Keys)] /\ calling[t] \in Seq(Keys)
    BY DEF Inv, TypeOK
  <2>2. Tail(calling[t]) \in Seq(Keys)
    BY <1>1, <2>1, PopCall
  <2> QED
    BY <1>1, <2>1, <2>2
<1>3. TypeOK'
  BY <1>1, <1>2 DEF Inv, TypeOK, memVars, infoVars, Threads
<1>4. LockInv'
  BY <1>1, <1>2 DEF Inv, LockInv, Threads, Applying, Saving
<1>5. AgeInv' /\ AppliedInv' /\ WrittenInv' /\ InfoDurable' /\ NoHalfInfo'
  BY <1>1 DEF Inv, AgeInv, AppliedInv, Left, WrittenInv, InfoDurable, NoHalfInfo, memVars, infoVars
<1> QED
  BY <1>3, <1>4, <1>5 DEF Inv

\* A setter called by a callback: its thread has m_mutex, and the info, if it is
\* applying one, only gets newer values.
LEMMA NestedKeeps ==
  ASSUME Inv, NEW t \in Threads, CallbackSets(t)
  PROVE  Inv'
<1>1. /\ calling[t] # NoCall /\ m_mutex = t /\ changes < MaxChanges
      /\ changes' = changes + 1 /\ mem' = [mem EXCEPT !["settings"] = changes + 1]
      /\ Notify(t, "settings")
      /\ UNCHANGED <<file, readable, written, infoVars, m_mutex, pc, m_callbacks, crashes, torn>>
  BY DEF CallbackSets, SetParameter, featVars, Inv, LockInv
<1>2. /\ calling' \in [Threads -> Seq(Keys)]
      /\ \A u \in Threads : calling'[u] # NoCall => calling[u] # NoCall
  BY <1>1, NotifyCalls DEF Keys, Sections
<1>3. /\ changes \in 0..MaxChanges /\ infoChange \in 0..MaxChanges
      /\ mem \in [Sections -> 0..MaxChanges] /\ file \in [Sections -> 0..MaxChanges]
      /\ written \in [sections : SUBSET Sections, change : 0..MaxChanges]
  BY DEF Inv, TypeOK
<1>4. /\ changes' \in 0..MaxChanges /\ mem' \in [Sections -> 0..MaxChanges]
      /\ \A s \in Sections : mem'[s] = mem[s] \/ mem'[s] = changes + 1
  BY <1>1, <1>3, BoundAssumption DEF Sections
<1>5. TypeOK'
  BY <1>1, <1>2, <1>4 DEF Inv, TypeOK, infoVars
<1>6. LockInv'
  BY <1>1, <1>2 DEF Inv, LockInv, Threads
<1>7. AgeInv' /\ InfoDurable' /\ NoHalfInfo'
  BY <1>1, <1>3, <1>4, BoundAssumption DEF Inv, AgeInv, InfoDurable, NoHalfInfo, infoVars
<1>8. \A s \in Sections : mem'[s] >= mem[s]
  BY <1>3, <1>4, BoundAssumption DEF Inv, AgeInv
<1>9. AppliedInv'
  <2>1. ASSUME NEW s \in Sections, mem[s] >= infoChange PROVE mem'[s] >= infoChange
    BY <1>3, <1>4, <1>8, <2>1, BoundAssumption
  <2> QED
    BY <1>1, <2>1 DEF Inv, AppliedInv, Left, infoVars
<1>10. WrittenInv'
  <2>1. ASSUME NEW s \in written.sections, mem[s] >= written.change PROVE mem'[s] >= written.change
    BY <1>3, <1>4, <1>8, <2>1, BoundAssumption
  <2> QED
    BY <1>1, <2>1 DEF Inv, WrittenInv
<1> QED
  BY <1>5, <1>6, <1>7, <1>9, <1>10 DEF Inv

\* A setter of the agent's thread comes between no other change and its callback.
LEMMA SetterKeeps ==
  ASSUME Inv, SetByControl
  PROVE  Inv'
<1>1. /\ pc["ctl"] = "idle" /\ calling["ctl"] = NoCall /\ m_mutex = "free" /\ changes < MaxChanges
      /\ changes' = changes + 1 /\ mem' = [mem EXCEPT !["settings"] = changes + 1]
      /\ m_mutex' = Held("ctl") /\ pc' = [pc EXCEPT !["ctl"] = "save"]
      /\ UNCHANGED <<file, readable, written, infoVars, m_callbacks, crashes, torn>>
      /\ Notify("ctl", "settings")
  BY DEF SetByControl, SetParameter, Goto, At, featVars
<1>2. /\ calling' \in [Threads -> Seq(Keys)] /\ calling'["app"] = calling["app"]
      /\ calling'["ctl"] # NoCall => m_callbacks # {}
  BY <1>1, NotifyCalls DEF Threads, Keys, Sections
<1>3. /\ changes \in 0..MaxChanges /\ infoChange \in 0..MaxChanges
      /\ mem \in [Sections -> 0..MaxChanges] /\ file \in [Sections -> 0..MaxChanges]
      /\ pc \in [Threads -> AppSteps] /\ written \in [sections : SUBSET Sections, change : 0..MaxChanges]
  BY DEF Inv, TypeOK
<1>4. /\ changes' \in 0..MaxChanges /\ mem' \in [Sections -> 0..MaxChanges]
      /\ \A s \in Sections : mem'[s] = mem[s] \/ mem'[s] = changes + 1
  BY <1>1, <1>3, BoundAssumption DEF Sections
<1>6. calling["app"] = NoCall
  BY <1>1 DEF Threads, Inv, LockInv
<1>7. m_mutex' \in {"free", "ctl"} /\ (calling'["ctl"] # NoCall => m_mutex' = "ctl")
  BY <1>1 DEF Held
<1>8. pc["app"] = "idle" /\ pc'["app"] = "idle" /\ pc'["ctl"] = "save"
  BY <1>1, <1>3 DEF Inv, LockInv, Threads, AppSteps, Saving
<1>9. TypeOK'
  BY <1>1, <1>2, <1>3, <1>4, <1>7 DEF Inv, TypeOK, infoVars, Threads, AppSteps
<1>10. LockInv'
  BY <1>1, <1>2, <1>6, <1>7, <1>8 DEF LockInv, Threads, Applying, Saving
<1>12. AgeInv'
  BY <1>1, <1>3, <1>4, <1>8, BoundAssumption DEF Inv, AgeInv, infoVars, Applying, Saving
<1>13. AppliedInv' /\ NoHalfInfo'
  BY <1>1, <1>8 DEF Inv, AppliedInv, NoHalfInfo, infoVars, Applying, Saving
<1>14. WrittenInv'
  <2> SUFFICES ASSUME NEW s \in written.sections PROVE mem'[s] >= written.change
    BY <1>1 DEF WrittenInv
  <2>1. s \in Sections /\ mem[s] >= written.change /\ written.change <= changes
    BY <1>3, <1>8 DEF Inv, WrittenInv, AgeInv
  <2> QED
    BY <1>3, <1>4, <2>1, BoundAssumption
<1>15. InfoDurable'
  BY <1>1 DEF Inv, InfoDurable
<1> QED
  BY <1>9, <1>10, <1>12, <1>13, <1>14, <1>15 DEF Inv

\* parseAndSaveInitialInfo begins: every section is left.
LEMMA BeginKeeps ==
  ASSUME Inv, NEW i \in Infos, ParseAndSaveInitialInfo(i)
  PROVE  Inv'
<1>1. /\ pc["app"] = "idle" /\ calling["app"] = NoCall /\ m_mutex = "free" /\ changes < MaxChanges
      /\ m_mutex' = "app" /\ info' = i /\ todo' = InOrder /\ allSuccess' = TRUE
      /\ changes' = changes + 1 /\ infoChange' = changes + 1 /\ pc' = [pc EXCEPT !["app"] = "parse"]
      /\ UNCHANGED <<mem, file, readable, written, m_callbacks, calling, crashes, torn>>
  BY DEF ParseAndSaveInitialInfo, Goto, At, featVars
<1>2. /\ changes \in 0..MaxChanges /\ pc \in [Threads -> AppSteps]
      /\ mem \in [Sections -> 0..MaxChanges] /\ file \in [Sections -> 0..MaxChanges]
      /\ written \in [sections : SUBSET Sections, change : 0..MaxChanges]
  BY DEF Inv, TypeOK
<1>3. changes' \in 0..MaxChanges
  BY <1>1, <1>2, BoundAssumption
<1>4. pc'["app"] = "parse" /\ pc'["ctl"] = pc["ctl"] /\ pc["ctl"] # "write" /\ pc["ctl"] # "off"
  BY <1>1, <1>2 DEF Threads, Inv, LockInv
<1>5. \A t \in Threads : calling[t] = NoCall
  BY <1>1 DEF Inv, LockInv, Threads
<1>6. InOrder \in Seq(Sections) /\ \A s \in Sections : \E k \in DOMAIN InOrder : InOrder[k] = s
  <2>1. InOrder \in Seq(Sections)
    BY DEF InOrder, Sections
  <2>2. /\ Len(InOrder) = 4 /\ InOrder[1] = "cam" /\ InOrder[2] = "settings"
        /\ InOrder[3] = "ai" /\ InOrder[4] = "system"
    BY DEF InOrder
  <2>3. DOMAIN InOrder = 1..4
    BY <2>1, <2>2, LenProperties
  <2> QED
    BY <2>1, <2>2, <2>3 DEF Sections
<1>7. TypeOK'
  BY <1>1, <1>2, <1>3, <1>4 DEF Inv, TypeOK, Threads, AppSteps, Applying
<1>8. LockInv'
  BY <1>1, <1>4, <1>5 DEF LockInv, Threads, Applying, Saving
<1>9. AgeInv'
  BY <1>1, <1>2, BoundAssumption DEF Inv, AgeInv
<1>10. NoHalfInfo'
  BY <1>1, <1>2, BoundAssumption DEF Inv, AgeInv, NoHalfInfo
<1>11. AppliedInv'
  BY <1>1, <1>4, <1>6 DEF AppliedInv, Left, Saving
<1>12. WrittenInv' /\ InfoDurable'
  BY <1>1 DEF Inv, WrittenInv, InfoDurable
<1> QED
  BY <1>7, <1>8, <1>9, <1>10, <1>11, <1>12 DEF Inv

\* The first of the sections left, and the others.
LEMMA FirstLeft ==
  ASSUME todo \in Seq(Sections), todo # <<>>
  PROVE  /\ Tail(todo) \in Seq(Sections) /\ Head(todo) \in Sections
         /\ \A s : Left(s) => s = Head(todo) \/ \E i \in DOMAIN Tail(todo) : Tail(todo)[i] = s
<1>2. /\ Head(todo) \in Sections /\ Tail(todo) \in Seq(Sections)
      /\ Len(Tail(todo)) = Len(todo) - 1
      /\ \A i \in 1..Len(Tail(todo)) : Tail(todo)[i] = todo[i + 1]
  BY HeadTailProperties
<1>3. /\ Len(todo) \in Nat /\ DOMAIN todo = 1..Len(todo) /\ Head(todo) = todo[1]
      /\ DOMAIN Tail(todo) = 1..(Len(todo) - 1)
  BY <1>2, LenProperties
<1>4. ASSUME NEW i \in DOMAIN todo, i # 1
      PROVE  i - 1 \in DOMAIN Tail(todo) /\ Tail(todo)[i - 1] = todo[i]
  <2>1. i - 1 \in 1..(Len(todo) - 1) /\ (i - 1) + 1 = i
    BY <1>3, <1>4
  <2> QED
    BY <1>2, <1>3, <2>1
<1> QED
  BY <1>2, <1>3, <1>4 DEF Left

\* A parser applies its section, or leaves it out; a section applied has the number
\* of the change.
LEMMA ParseKeeps ==
  ASSUME Inv, NEW s \in Sections, NEW next \in {"parse", "dirs"}, Parse(s, next)
  PROVE  Inv'
<1>1. /\ pc["app"] = "parse" /\ calling["app"] = NoCall /\ todo # <<>> /\ Head(todo) = s
      /\ todo' = Tail(todo) /\ allSuccess' = (allSuccess /\ info[s] # "bad")
      /\ IF info[s] = "good" THEN SetParameter("app", s, infoChange) ELSE UNCHANGED <<mem, calling>>
      /\ pc' = [pc EXCEPT !["app"] = IF info[s] = "good" THEN next ELSE "parse"]
      /\ UNCHANGED <<file, readable, changes, written, info, infoChange, m_mutex, m_callbacks, crashes, torn>>
  BY DEF Parse, Goto, At, featVars
<1>2. /\ changes \in 0..MaxChanges /\ infoChange \in 0..MaxChanges /\ pc \in [Threads -> AppSteps]
      /\ mem \in [Sections -> 0..MaxChanges] /\ file \in [Sections -> 0..MaxChanges]
      /\ written \in [sections : SUBSET Sections, change : 0..MaxChanges]
      /\ calling \in [Threads -> Seq(Keys)]
  BY DEF Inv, TypeOK
<1>3. /\ m_mutex = "app" /\ calling["ctl"] = NoCall /\ info \in Infos /\ todo \in Seq(Sections)
      /\ pc["ctl"] # "write" /\ pc["ctl"] # "off"
  BY <1>1 DEF Inv, LockInv, AppliedInv, Applying, Threads
<1>4. pc'["app"] \in {"parse", "dirs"} /\ pc'["ctl"] = pc["ctl"]
  BY <1>1, <1>2 DEF Threads
<1>5. /\ mem' \in [Sections -> 0..MaxChanges]
      /\ \A k \in Sections : mem'[k] = mem[k] \/ mem'[k] = infoChange
      /\ info[s] = "good" => mem'[s] = infoChange
  BY <1>1, <1>2 DEF SetParameter
<1>6. /\ calling' \in [Threads -> Seq(Keys)] /\ calling'["ctl"] = NoCall
      /\ calling'["app"] # NoCall => m_callbacks # {}
  <2>1. CASE info[s] = "good"
    <3>1. Notify("app", s)
      BY <1>1, <2>1 DEF SetParameter
    <3> QED
      BY <1>1, <1>3, <3>1, NotifyCalls DEF Threads, Keys
  <2>2. CASE info[s] # "good"
    BY <1>1, <1>2, <1>3, <2>2
  <2> QED
    BY <2>1, <2>2
<1>9. TypeOK'
  <2>2. pc' \in [Threads -> AppSteps] /\ pc'["ctl"] \in {"off", "idle", "save", "write"}
    BY <1>1, <1>2, <1>4 DEF AppSteps, Applying, Inv, TypeOK
  <2>3. allSuccess' \in BOOLEAN
    BY <1>1 DEF Inv, TypeOK
  <2> QED
    BY <1>1, <1>5, <1>6, <2>2, <2>3 DEF Inv, TypeOK
<1>10. LockInv'
  BY <1>1, <1>3, <1>4, <1>6 DEF LockInv, Threads, Applying, Saving
<1>12. AgeInv' /\ InfoDurable'
  <2>1. AgeInv /\ InfoDurable /\ changes \in Int /\ changes' = changes /\ file' = file
        /\ readable' = readable /\ written' = written /\ infoChange' = infoChange
    BY <1>1, <1>2 DEF Inv
  <2>2. \A k \in Sections : mem'[k] <= changes
    BY <1>5, <2>1 DEF AgeInv
  <2>3. written.change <= infoChange
    BY <1>1, <2>1 DEF AgeInv, Applying
  <2> QED
    BY <2>1, <2>2, <2>3 DEF AgeInv, InfoDurable
<1>13. NoHalfInfo'
  BY <1>1, <1>4 DEF Inv, NoHalfInfo, Applying
<1>14. AppliedInv'
  <2>1. \A k \in Sections : info[k] = "good" => mem[k] >= infoChange \/ Left(k)
    BY <1>1 DEF Inv, AppliedInv, Applying
  <2>2. ASSUME NEW k \in Sections, info[k] = "good" PROVE mem'[k] >= infoChange \/ Left(k)'
    <3>1. CASE k = s
      BY <1>2, <1>5, <2>2, <3>1
    <3>2. CASE k # s
      <4>1. mem[k] >= infoChange => mem'[k] >= infoChange
        BY <1>2, <1>5, BoundAssumption
      <4>2. Left(k) => Left(k)'
        BY <1>1, <1>3, <3>2, FirstLeft DEF Left
      <4> QED
        BY <2>1, <2>2, <4>1, <4>2
    <3> QED
      BY <3>1, <3>2
  <2>3. todo' \in Seq(Sections) /\ pc'["app"] \notin Saving
    BY <1>1, <1>3, <1>4, FirstLeft DEF Saving
  <2> QED
    BY <1>1, <1>3, <2>2, <2>3 DEF AppliedInv
<1>15. WrittenInv'
  <2> SUFFICES ASSUME NEW k \in written.sections PROVE mem'[k] >= written.change
    BY <1>1 DEF WrittenInv
  <2>1. k \in Sections /\ mem[k] >= written.change /\ written.change <= infoChange
    BY <1>1, <1>2 DEF Inv, WrittenInv, AgeInv, Applying
  <2> QED
    BY <1>2, <1>5, <2>1, BoundAssumption
<1> QED
  BY <1>9, <1>10, <1>12, <1>13, <1>14, <1>15 DEF Inv

\* The steps of an update of the faces, and the end of the parsing, only move on.
LEMMA MoveOnKeeps ==
  ASSUME Inv,
         \/ EnsureDirs \/ WriteFiles \/ RemoveSaveDir \/ MoveSaveDir \/ SwapFeatures \/ RemoveTmpDir
         \/ ParseDone
  PROVE  Inv'
<1>1. PICK label \in Applying \cup {"save"} : pc' = [pc EXCEPT !["app"] = label] /\ (label = "save" => todo = <<>>)
  BY DEF EnsureDirs, WriteFiles, RemoveSaveDir, MoveSaveDir, SwapFeatures, RemoveTmpDir, ParseDone, Goto, Applying
<1>2. /\ pc["app"] \in Applying /\ calling["app"] = NoCall
      /\ UNCHANGED <<memVars, infoVars, m_mutex, m_callbacks, calling, crashes>>
  BY DEF EnsureDirs, WriteFiles, RemoveSaveDir, MoveSaveDir, SwapFeatures, RemoveTmpDir, ParseDone,
     OtherVars, At, Applying
<1>3. torn' \in BOOLEAN
  BY DEF EnsureDirs, WriteFiles, RemoveSaveDir, MoveSaveDir, SwapFeatures, RemoveTmpDir, ParseDone,
     featVars, Inv, TypeOK
<1>4. pc \in [Threads -> AppSteps] /\ pc' \in [Threads -> AppSteps] /\ pc'["app"] = label /\ pc'["ctl"] = pc["ctl"]
  BY <1>1 DEF Inv, TypeOK, Threads, AppSteps
<1>5. TypeOK'
  BY <1>2, <1>3, <1>4 DEF Inv, TypeOK, memVars, infoVars
<1>6. LockInv'
  BY <1>1, <1>2, <1>4 DEF Inv, LockInv, Applying, Saving, Threads
<1>7. AgeInv' /\ InfoDurable'
  BY <1>1, <1>2, <1>4 DEF Inv, AgeInv, InfoDurable, memVars, infoVars, Applying, Saving
<1>8. NoHalfInfo' /\ WrittenInv'
  BY <1>1, <1>2, <1>4 DEF Inv, NoHalfInfo, WrittenInv, memVars, infoVars, Applying
<1>9. AppliedInv'
  BY <1>1, <1>2, <1>4 DEF Inv, AppliedInv, Left, memVars, infoVars, Applying, Saving
<1> QED
  BY <1>5, <1>6, <1>7, <1>8, <1>9 DEF Inv

\* The info is given up, or not saved, or cut off: what was written stays the same info.
LEMMA ReturnsFalse ==
  ASSUME Inv, ParseFails \/ SaveFails("app") \/ (SaveWrites("app") /\ UNCHANGED <<file, readable>>)
  PROVE  Inv'
<1>1. /\ calling["app"] = NoCall /\ m_mutex = "app" /\ pc["app"] \notin {"idle", "off"}
      /\ m_mutex' = "free" /\ written' = written /\ pc' = [pc EXCEPT !["app"] = "idle"]
      /\ infoChange' = 0
      /\ UNCHANGED <<mem, file, readable, changes, todo, allSuccess, m_callbacks, calling, crashes, torn>>
  BY DEF ParseFails, SaveFails, SaveWrites, Return, Goto, At, featVars, Inv, LockInv, Applying, Saving, Threads
<1>2. pc \in [Threads -> AppSteps] /\ pc'["app"] = "idle" /\ pc'["ctl"] = pc["ctl"]
  BY <1>1 DEF Inv, TypeOK, Threads
<1>3. TypeOK'
  BY <1>1, <1>2, BoundAssumption DEF Inv, TypeOK, AppSteps, Threads
<1>4. LockInv'
  BY <1>1, <1>2 DEF Inv, LockInv, Threads, Applying, Saving
<1>5. AgeInv' /\ InfoDurable'
  <2>1. 0 <= changes
    BY BoundAssumption DEF Inv, TypeOK
  <2> QED
    BY <1>1, <1>2, <2>1 DEF Inv, AgeInv, InfoDurable, Applying, Saving
<1>6. NoHalfInfo' /\ WrittenInv' /\ AppliedInv'
  BY <1>1, <1>2 DEF Inv, NoHalfInfo, WrittenInv, AppliedInv, Applying, Saving
<1> QED
  BY <1>3, <1>4, <1>5, <1>6 DEF Inv

\* A save begins: the file is empty until it is written.
LEMMA OpensKeeps ==
  ASSUME Inv, NEW t \in Threads, SaveOpens(t)
  PROVE  Inv'
<1>1. /\ pc[t] = "save" /\ calling[t] = NoCall /\ m_mutex \in {"free", t} /\ m_mutex' = t
      /\ readable' = FALSE /\ pc' = [pc EXCEPT ![t] = "write"]
      /\ UNCHANGED <<mem, file, changes, written, infoVars, m_callbacks, calling, crashes, torn>>
  BY DEF SaveOpens, Goto, At, featVars
<1>2. pc \in [Threads -> AppSteps] /\ pc'[t] = "write" /\ \A u \in Threads \ {t} : pc'[u] = pc[u]
  BY <1>1 DEF Inv, TypeOK, Threads
<1>3. TypeOK'
  BY <1>1, <1>2 DEF Inv, TypeOK, AppSteps, Threads, infoVars
<1>4. LockInv'
  BY <1>1, <1>2 DEF Inv, LockInv, Threads, Applying, Saving
<1>5. AgeInv' /\ InfoDurable'
  BY <1>1, <1>2 DEF Inv, AgeInv, InfoDurable, infoVars, Threads, Applying, Saving
<1>6. NoHalfInfo' /\ WrittenInv'
  BY <1>1, <1>2 DEF Inv, NoHalfInfo, WrittenInv, infoVars, Threads, Applying
<1>7. AppliedInv'
  BY <1>1, <1>2 DEF Inv, AppliedInv, Left, infoVars, Threads, Applying, Saving
<1> QED
  BY <1>3, <1>4, <1>5, <1>6, <1>7 DEF Inv

\* The agent's save ends: it comes while no info is applied, and what it writes is
\* no older than the info written before.
LEMMA ControlSaveKeeps ==
  ASSUME Inv, SaveWrites("ctl") \/ SaveFails("ctl")
  PROVE  Inv'
<1>1. /\ pc["ctl"] \in {"save", "write"} /\ calling["ctl"] = NoCall /\ m_mutex' = "free"
      /\ pc' = [pc EXCEPT !["ctl"] = "idle"]
      /\ (file' = mem /\ readable' = TRUE) \/ UNCHANGED <<file, readable>>
      /\ UNCHANGED <<mem, changes, written, infoVars, m_callbacks, calling, crashes, torn>>
  BY DEF SaveWrites, SaveFails, Goto, At, featVars, infoVars
<1>2. m_mutex \in {"free", "ctl"}
  BY DEF SaveWrites, SaveFails, At, Inv, LockInv
<1>3. pc \in [Threads -> AppSteps] /\ pc'["ctl"] = "idle" /\ pc'["app"] = pc["app"] /\ pc["app"] = "idle"
  BY <1>1, <1>2 DEF Inv, TypeOK, LockInv, Threads, AppSteps, Saving
<1>4. TypeOK'
  BY <1>1, <1>3 DEF Inv, TypeOK, AppSteps, Threads, infoVars
<1>5. LockInv'
  BY <1>1, <1>2, <1>3 DEF Inv, LockInv, Threads, Applying, Saving
<1>6. AgeInv' /\ InfoDurable'
  BY <1>1, <1>3 DEF Inv, AgeInv, InfoDurable, WrittenInv, infoVars, Applying, Saving
<1>7. NoHalfInfo' /\ WrittenInv' /\ AppliedInv'
  BY <1>1, <1>3 DEF Inv, NoHalfInfo, WrittenInv, AppliedInv, infoVars, Applying, Saving
<1> QED
  BY <1>4, <1>5, <1>6, <1>7 DEF Inv

\* The info's save ends: all its sections are in memory, and now in the file.
LEMMA InfoSaveKeeps ==
  ASSUME Inv, SaveWrites("app"), file' = mem, readable' = TRUE
  PROVE  Inv'
<1> DEFINE good == {s \in Sections : info[s] = "good"}
<1>1. /\ pc["app"] = "write" /\ calling["app"] = NoCall /\ m_mutex' = "free"
      /\ pc' = [pc EXCEPT !["app"] = "idle"] /\ file' = mem /\ readable' = TRUE
      /\ written' = [sections |-> good, change |-> infoChange] /\ infoChange' = 0
      /\ UNCHANGED <<mem, changes, todo, allSuccess, m_callbacks, calling, crashes, torn>>
  BY DEF SaveWrites, Return, Goto, At, featVars
<1>2. /\ infoChange \in 0..MaxChanges /\ pc \in [Threads -> AppSteps] /\ m_mutex = "app"
      /\ mem \in [Sections -> 0..MaxChanges] /\ todo = <<>> /\ infoChange <= changes
      /\ changes \in 0..MaxChanges
      /\ \A s \in Sections : info[s] = "good" => mem[s] >= infoChange \/ Left(s)
  BY <1>1 DEF Inv, TypeOK, LockInv, AppliedInv, AgeInv, Saving
<1>3. \A s \in good : mem[s] >= infoChange
  BY <1>2 DEF Left
<1>4. pc'["app"] = "idle" /\ pc'["ctl"] = pc["ctl"]
  BY <1>1, <1>2 DEF Threads
<1>5. written'.sections = good /\ written'.change = infoChange
      /\ written' \in [sections : SUBSET Sections, change : 0..MaxChanges]
  BY <1>1, <1>2
<1> HIDE DEF good
<1>6. TypeOK'
  BY <1>1, <1>2, <1>4, <1>5, BoundAssumption DEF Inv, TypeOK, AppSteps, Threads
<1>7. LockInv'
  BY <1>1, <1>2, <1>4 DEF Inv, LockInv, Threads, Applying, Saving
<1>8. AgeInv'
  BY <1>1, <1>2, <1>4, <1>5, BoundAssumption DEF Inv, AgeInv, Applying, Saving
<1>9. InfoDurable' /\ WrittenInv'
  BY <1>1, <1>2, <1>3, <1>5, BoundAssumption DEF InfoDurable, WrittenInv
<1>10. NoHalfInfo' /\ AppliedInv'
  BY <1>1, <1>4 DEF Inv, NoHalfInfo, AppliedInv, Applying, Saving
<1> QED
  BY <1>6, <1>7, <1>8, <1>9, <1>10 DEF Inv

\* The process dies and starts again: the file, or the defaults, are in memory.
LEMMA LifeKeeps ==
  ASSUME Inv, Crash \/ Start
  PROVE  Inv'
<1>1. CASE Crash
  <2>1. /\ pc' = [t \in Threads |-> "off"] /\ m_mutex' = "free" /\ infoChange' = 0 /\ todo' = <<>> /\ allSuccess' = TRUE
        /\ m_callbacks' = {} /\ calling' = [t \in Threads |-> NoCall] /\ torn' \in BOOLEAN
        /\ crashes < MaxCrashes /\ crashes' = crashes + 1 /\ UNCHANGED memVars
    BY <1>1 DEF Crash, Inv, TypeOK
  <2>2. crashes' \in 0..MaxCrashes
    BY <2>1, BoundAssumption DEF Inv, TypeOK
  <2>3. TypeOK'
    <3>1. calling' \in [Threads -> Seq(Keys)] /\ infoChange' \in 0..MaxChanges
      BY <2>1, EmptySeq, BoundAssumption DEF NoCall
    <3> QED
      BY <2>1, <2>2, <3>1 DEF Inv, TypeOK, memVars, Threads, AppSteps
  <2>4. 0 <= changes
    BY BoundAssumption DEF Inv, TypeOK
  <2>5. LockInv' /\ AgeInv' /\ WrittenInv' /\ InfoDurable' /\ NoHalfInfo'
    BY <2>1, <2>4 DEF Inv, LockInv, AgeInv, WrittenInv, InfoDurable, NoHalfInfo, memVars,
       Threads, Applying, Saving
  <2>6. AppliedInv'
    BY <2>1, EmptySeq DEF AppliedInv, Threads, Applying, Saving
  <2> QED
    BY <2>3, <2>5, <2>6 DEF Inv
<1>2. CASE Start
  <2>1. /\ pc["app"] = "off" /\ mem' = (IF readable THEN file ELSE Defaults) /\ file' = mem'
        /\ readable' = TRUE /\ pc' = [t \in Threads |-> "idle"]
        /\ written' = IF readable THEN written ELSE [sections |-> {}, change |-> 0]
        /\ UNCHANGED <<changes, infoVars, m_mutex, m_callbacks, calling, crashes, torn>>
    BY <1>2 DEF Start, featVars
  <2>2. /\ Defaults \in [Sections -> 0..MaxChanges] /\ \A s \in Sections : Defaults[s] = 0
        /\ changes \in 0..MaxChanges /\ file \in [Sections -> 0..MaxChanges]
        /\ written \in [sections : SUBSET Sections, change : 0..MaxChanges]
    BY BoundAssumption DEF Defaults, Inv, TypeOK
  <2>3. /\ mem' \in [Sections -> 0..MaxChanges] /\ file' \in [Sections -> 0..MaxChanges]
        /\ written' \in [sections : SUBSET Sections, change : 0..MaxChanges]
        /\ \A s \in Sections : mem'[s] <= changes
        /\ written'.change <= changes
    BY <2>1, <2>2, BoundAssumption DEF Inv, AgeInv
  <2>4. \A s \in written'.sections : mem'[s] >= written'.change
    BY <2>1, <2>2 DEF Inv, InfoDurable
  <2>5. \A t \in Threads : calling[t] = NoCall
    BY <2>1 DEF Inv, LockInv, Threads
  <2>6. TypeOK'
    BY <2>1, <2>3 DEF Inv, TypeOK, infoVars, Threads, AppSteps
  <2>7. LockInv'
    BY <2>1, <2>5 DEF Inv, LockInv, Threads, Applying, Saving
  <2>8. AgeInv' /\ WrittenInv' /\ InfoDurable'
    BY <2>1, <2>3, <2>4 DEF Inv, AgeInv, WrittenInv, InfoDurable, infoVars, Threads, Applying, Saving
  <2>9. NoHalfInfo' /\ AppliedInv'
    BY <2>1 DEF Inv, NoHalfInfo, AppliedInv, infoVars, Threads, Applying, Saving
  <2> QED
    BY <2>6, <2>7, <2>8, <2>9 DEF Inv
<1> QED
  BY <1>1, <1>2

\* Inv is an inductive invariant.
LEMMA Invariance == Spec => []Inv
<1>1. Inv /\ [Next]_vars => Inv'
  <2> SUFFICES ASSUME Inv, [Next]_vars PROVE Inv'
    OBVIOUS
  <2>1. CASE ParseHamiCamInfo \/ ParseHamiSettings \/ ParseHamiAiSettings \/ ParseHamiSystemSettings
    BY <2>1, ParseKeeps DEF ParseHamiCamInfo, ParseHamiSettings, ParseHamiAiSettings,
       ParseHamiSystemSettings, Sections
  <2>2. CASE \E t \in Threads : \/ CallbackSets(t) \/ CallbackReturns(t)
                                \/ SaveOpens(t) \/ SaveWrites(t) \/ SaveFails(t)
    <3>1. CASE SaveWrites("app")
      BY <3>1, InfoSaveKeeps, ReturnsFalse DEF SaveWrites
    <3> QED
      BY <2>2, <3>1, NestedKeeps, ReturnKeeps, OpensKeeps, ControlSaveKeeps, ReturnsFalse DEF Threads
  <2>3. CASE \E id \in Manual : \/ AddIdentificationFeature(id) \/ RemoveIdentificationFeature(id)
                                \/ UpdateIdentificationFeature(id)
    BY <2>3, FeatureKeeps
  <2>4. CASE \/ EnsureDirs \/ WriteFiles \/ RemoveSaveDir \/ MoveSaveDir \/ SwapFeatures \/ RemoveTmpDir
             \/ ParseDone
    BY <2>4, MoveOnKeeps
  <2>5. CASE \/ \E key \in {"settings", AnyKey} : \/ RegisterParameterChangeCallback(key)
                                               \/ UnregisterParameterChangeCallback(key)
             \/ \E r \in Responses : GetHamiCamInitialInfo(r)
             \/ UNCHANGED vars
    BY <2>5, RestKeeps
  <2>6. CASE SetByControl \/ ParseFails \/ Crash \/ Start \/ \E i \in Infos : ParseAndSaveInitialInfo(i)
    BY <2>6, SetterKeeps, ReturnsFalse, LifeKeeps, BeginKeeps
  <2> QED
    BY <2>1, <2>2, <2>3, <2>4, <2>5, <2>6 DEF Next
<1> QED
  BY <1>1, InitInv, PTL DEF Spec

\* Every variable of the parameters keeps its type.
THEOREM TypeInvariance == Spec => []TypeOK
<1>1. Inv => TypeOK
  BY DEF Inv
<1> QED
  BY <1>1, Invariance, PTL

\* From a setter to the return of its last callback no other thread changes a
\* parameter: whoever does holds m_mutex, and so does the thread whose callback runs.
THEOREM CallbackUndisturbedHolds == Spec => CallbackUndisturbed
<1>1. ASSUME Inv, [Next]_vars, NEW t \in Threads, calling[t] # NoCall, mem' # mem
      PROVE  Len(calling'[t]) > Len(calling[t])
  <2>1. /\ m_mutex = t /\ m_callbacks # {} /\ m_callbacks \subseteq {"settings", AnyKey}
        /\ t # "free" /\ pc["app"] # "off"
        /\ pc["app"] \in Applying => t = "app"
    BY <1>1 DEF Inv, TypeOK, LockInv, Threads
  <2>2. PICK u \in Threads : CallbackSets(u)
    <3>1. ~ SetByControl
      BY <2>1, <1>1 DEF SetByControl, Threads, At
    <3>2. ASSUME NEW s, NEW next PROVE ~ Parse(s, next)
      BY <2>1, <1>1 DEF Parse, At, Applying
    <3>3. ~ Start
      BY <2>1 DEF Start
    <3>4. ~ (ParseHamiCamInfo \/ ParseHamiSettings \/ ParseHamiAiSettings \/ ParseHamiSystemSettings)
      BY <3>2 DEF ParseHamiCamInfo, ParseHamiSettings, ParseHamiAiSettings, ParseHamiSystemSettings
    <3> QED
      BY <1>1, <3>1, <3>3, <3>4 DEF Next, vars, memVars, CallbackReturns, SaveOpens, SaveWrites, SaveFails,
         RegisterParameterChangeCallback, UnregisterParameterChangeCallback, ParseAndSaveInitialInfo,
         ParseFails, ParseDone, EnsureDirs, WriteFiles, RemoveSaveDir, MoveSaveDir, SwapFeatures,
         RemoveTmpDir, AddIdentificationFeature, RemoveIdentificationFeature,
         UpdateIdentificationFeature, FeatureStep, OtherVars, Crash, GetHamiCamInitialInfo
  <2>3. u = t /\ Notify(t, "settings")
    BY <2>1, <2>2 DEF CallbackSets, SetParameter, Threads
  <2>4. m_callbacks \cap {"settings", AnyKey} # {}
    BY <2>1
  <2> QED
    BY <1>1, <2>3, <2>4, NotifyCalls DEF Keys, Sections
<1>2. Inv /\ [Next]_vars =>
        [\A t \in Threads : calling[t] # NoCall /\ mem' # mem => Len(calling'[t]) > Len(calling[t])]_vars
  BY <1>1
<1> QED
  BY <1>2, Invariance, PTL DEF Spec, CallbackUndisturbed

\* An info that has reached the file stays in it, through the other thread's setters
\* and saves and through crashes, unless a save is cut off.
THEOREM InfoDurableHolds == Spec => []InfoDurable
<1>1. Inv => InfoDurable
  BY DEF Inv
<1> QED
  BY <1>1, Invariance, PTL

\* No part of an info reaches the file while the info is being applied.
THEOREM NoHalfInfoHolds == Spec => []NoHalfInfo
<1>1. Inv => NoHalfInfo
  BY DEF Inv
<1> QED
  BY <1>1, Invariance, PTL

-----------------------------------------------------------------------------
(* The faces on disk *)

\* A step that leaves directories and faces alone and does not stand between rm
\* and mv keeps the files.
LEMMA DiskSame ==
  ASSUME DiskInv, UNCHANGED <<saveDir, tmpDir, accepted, torn>>,
         pc'["app"] \notin {"remove", "move"}, pc["app"] # "move"
  PROVE  DiskInv'
BY DEF DiskInv

\* No step of an update, and no crash, loses the faces that were accepted last.
LEMMA DiskStep == Inv /\ DiskInv /\ [Next]_vars => DiskInv'
<1> SUFFICES ASSUME Inv, DiskInv, [Next]_vars PROVE DiskInv'
  OBVIOUS
<1>0. pc \in [Threads -> AppSteps] /\ (pc["app"] \in Applying => info \in Infos) /\ torn \in BOOLEAN
  BY DEF Inv, TypeOK, AppliedInv
<1>1. CASE \/ \E id \in Manual : \/ AddIdentificationFeature(id) \/ RemoveIdentificationFeature(id)
                                 \/ UpdateIdentificationFeature(id)
           \/ \E key \in {"settings", AnyKey} : \/ RegisterParameterChangeCallback(key)
                                             \/ UnregisterParameterChangeCallback(key)
           \/ \E r \in Responses : GetHamiCamInitialInfo(r)
           \/ \E t \in Threads : CallbackSets(t) \/ CallbackReturns(t)
           \/ UNCHANGED vars
  BY <1>1 DEF AddIdentificationFeature, RemoveIdentificationFeature, UpdateIdentificationFeature, FeatureStep,
     RegisterParameterChangeCallback, UnregisterParameterChangeCallback, GetHamiCamInitialInfo,
     CallbackSets, CallbackReturns, vars, featVars, DiskInv
<1>2. CASE SetByControl \/ \E t \in Threads : SaveOpens(t) \/ SaveWrites(t) \/ SaveFails(t)
  <2>1. UNCHANGED featVars
    BY <1>2 DEF SetByControl, SaveOpens, SaveWrites, SaveFails
  <2>2. pc'["app"] = pc["app"] \/ (pc'["app"] \in {"idle", "write"} /\ pc["app"] \in {"save", "write"})
    BY <1>0, <1>2 DEF SetByControl, SaveOpens, SaveWrites, SaveFails, Return, Goto, At, Threads
  <2> QED
    BY <2>1, <2>2 DEF DiskInv, featVars
<1>3. CASE \/ ParseFails \/ ParseDone \/ Start \/ \E i \in Infos : ParseAndSaveInitialInfo(i)
           \/ ParseHamiCamInfo \/ ParseHamiSettings \/ ParseHamiAiSettings \/ ParseHamiSystemSettings
  <2>1. UNCHANGED featVars
    BY <1>3 DEF ParseFails, ParseDone, Start, ParseAndSaveInitialInfo, ParseHamiCamInfo, ParseHamiSettings,
       ParseHamiAiSettings, ParseHamiSystemSettings, Parse
  <2>2. pc'["app"] \notin {"remove", "move"} /\ pc["app"] # "move"
    BY <1>0, <1>3 DEF ParseFails, ParseDone, Start, ParseAndSaveInitialInfo, ParseHamiCamInfo,
       ParseHamiSettings, ParseHamiAiSettings, ParseHamiSystemSettings, Parse, Return, Goto, At, Threads
  <2> QED
    BY <2>1, <2>2, DiskSame DEF featVars
<1>4. CASE EnsureDirs
  <2>1. /\ pc["app"] = "dirs" /\ pc'["app"] = "files" /\ saveDir' = Made(saveDir)
        /\ UNCHANGED <<accepted, torn>>
    BY <1>0, <1>4 DEF EnsureDirs, At, Goto, Threads
  <2>2. ~torn => accepted \subseteq saveDir'
    BY <2>1 DEF DiskInv, Made, Absent
  <2> QED
    BY <2>1, <2>2 DEF DiskInv
<1>5. CASE WriteFiles
  <2>1. /\ pc["app"] = "files" /\ pc'["app"] \in {"remove", "cleanup"}
        /\ newFeatures' \subseteq tmpDir' /\ UNCHANGED <<saveDir, accepted, torn>>
    BY <1>0, <1>5 DEF WriteFiles, At, Goto, Threads
  <2>2. newFeatures' \subseteq {f.id : f \in info.features}
    BY <1>5 DEF WriteFiles
  <2>3. newFeatures' \cap Absent = {}
    BY <1>0, <2>1, <2>2, FaceAssumption DEF Applying
  <2> QED
    BY <2>1, <2>3 DEF DiskInv
<1>6. CASE RemoveSaveDir
  <2>1. /\ pc["app"] = "remove" /\ pc'["app"] = "move" /\ accepted' = newFeatures
    BY <1>0, <1>6 DEF RemoveSaveDir, At, Goto, Threads
  <2>2. UNCHANGED <<newFeatures, tmpDir>> /\ (saveDir' = Absent \/ torn' = TRUE)
    BY <1>6 DEF RemoveSaveDir
  <2> QED
    BY <2>1, <2>2 DEF DiskInv
<1>7. CASE MoveSaveDir
  <2>1. /\ pc["app"] = "move" /\ pc'["app"] = "swap" /\ accepted' = accepted
        /\ \/ saveDir' = (IF saveDir = Absent THEN tmpDir ELSE saveDir) /\ torn' = torn
           \/ torn' = TRUE
    BY <1>0, <1>7 DEF MoveSaveDir, At, Goto, Threads
  <2> QED
    BY <2>1 DEF DiskInv
<1>8. CASE SwapFeatures \/ RemoveTmpDir
  <2>1. /\ pc["app"] \in {"swap", "cleanup"} /\ pc'["app"] \in {"cleanup", "parse"}
        /\ UNCHANGED <<saveDir, accepted, torn>>
    BY <1>0, <1>8 DEF SwapFeatures, RemoveTmpDir, At, Goto, Threads
  <2> QED
    BY <2>1 DEF DiskInv
<1>9. CASE Crash
  <2>1. /\ pc'["app"] = "off" /\ UNCHANGED <<saveDir, accepted>> /\ torn' = (torn \/ pc["app"] = "move")
    BY <1>9 DEF Crash, Threads
  <2> QED
    BY <2>1, <1>0 DEF DiskInv
<1> QED
  BY <1>1, <1>2, <1>3, <1>4, <1>5, <1>6, <1>7, <1>8, <1>9 DEF Next

\* The files of the faces accepted last are in one of the two directories, wherever
\* the process dies, unless rm or mv fails or it dies between the two.
THEOREM FeaturesOnDiskHolds == Spec => []FeaturesOnDisk
<1>1. Init => DiskInv
  BY DEF Init, DiskInv, Threads
<1>2. DiskInv => FeaturesOnDisk
  BY DEF DiskInv, FeaturesOnDisk
<1> QED
  BY <1>1, <1>2, DiskStep, Invariance, PTL DEF Spec

-----------------------------------------------------------------------------
(* decodeBase64 *)

\* The places of the digits and of the pad signs from character i on.
Digits(s, i) == {j \in i..Len(s) : s[j] < Pad}
Pads(s, i) == {j \in i..Len(s) : s[j] = Pad}

\* So many digits, and pad signs after them, make whole bytes.
Fits(d, pads) ==
  /\ pads = (4 - (d % 4)) % 4 \/ (pads = 2 /\ d % 4 = 3)
  /\ d % 4 # 1

\* From character i on s completes a quartet that has qn digits.
Completes(s, i, qn) ==
  /\ \A j \in i..Len(s) : s[j] # Other
  /\ \A j \in Digits(s, i), k \in Pads(s, i) : j < k
  /\ Fits(Cardinality(Digits(s, i)) + qn, Cardinality(Pads(s, i)))

\* The number of bytes when n are out before it, or Failed.
Size(s, i, qn, n) ==
  IF Completes(s, i, qn) THEN n + (6 * (Cardinality(Digits(s, i)) + qn)) \div 8 ELSE Failed

Texts == Seq(0..Other)

\* A character is a digit, a pad sign, white space or another one.
LEMMA CharKinds ==
  ASSUME NEW s \in Texts, NEW i \in 1..Len(s)
  PROVE  /\ s[i] \in Nat
         /\ s[i] < Pad \/ s[i] = Pad \/ s[i] = Space \/ s[i] = Other
<1>1. PICK c : c = s[i]
  OBVIOUS
<1>2. c \in 0..Other
  BY <1>1, ElementOfSeq DEF Texts
<1>3. c \in Nat /\ (c < Pad \/ c = Pad \/ c = Space \/ c = Other)
  BY <1>2 DEF Pad, Space, Other
<1> QED
  BY <1>1, <1>3

LEMMA KindsDiffer ==
  /\ ~(Space < Pad) /\ ~(Other < Pad) /\ ~(Pad < Pad)
  /\ Space # Pad /\ Other # Pad /\ Space # Other
BY DEF Pad, Space, Other

\* The counts are numbers.
LEMMA Counts ==
  ASSUME NEW s \in Texts, NEW i \in Nat
  PROVE  /\ IsFiniteSet(Digits(s, i)) /\ Cardinality(Digits(s, i)) \in Nat
         /\ IsFiniteSet(Pads(s, i)) /\ Cardinality(Pads(s, i)) \in Nat
<1>1. Len(s) \in Nat
  BY LenProperties DEF Texts
<1>2. IsFiniteSet(i..Len(s))
  BY <1>1, FS_Interval
<1>3. Digits(s, i) \in SUBSET (i..Len(s)) /\ Pads(s, i) \in SUBSET (i..Len(s))
  BY DEF Digits, Pads
<1>4. IsFiniteSet(Digits(s, i)) /\ IsFiniteSet(Pads(s, i))
  BY <1>2, <1>3, FS_Subset
<1> QED
  BY <1>4, FS_CardinalityType

\* The first place of i..n, and the others.
LEMMA FirstPlace ==
  ASSUME NEW n \in Nat, NEW i \in 1..n
  PROVE  /\ i..n = (i + 1..n) \cup {i}
         /\ i \notin i + 1..n
         /\ i + 1 \in 1..n + 1 /\ i + 1 \in Nat
         /\ \A j \in i + 1..n : j \in Nat /\ i < j
OBVIOUS

\* What the character at i adds to the counts.
LEMMA CountsStep ==
  ASSUME NEW s \in Texts, NEW i \in 1..Len(s)
  PROVE  /\ s[i] < Pad => /\ Digits(s, i) = Digits(s, i + 1) \cup {i}
                          /\ Cardinality(Digits(s, i)) = Cardinality(Digits(s, i + 1)) + 1
         /\ ~(s[i] < Pad) => Digits(s, i) = Digits(s, i + 1)
         /\ s[i] = Pad => /\ Pads(s, i) = Pads(s, i + 1) \cup {i}
                          /\ Cardinality(Pads(s, i)) = Cardinality(Pads(s, i + 1)) + 1
         /\ s[i] # Pad => Pads(s, i) = Pads(s, i + 1)
<1>1. Len(s) \in Nat
  BY LenProperties DEF Texts
<1>2. /\ i..Len(s) = (i + 1..Len(s)) \cup {i}
      /\ i \notin i + 1..Len(s) /\ i + 1 \in Nat
  BY <1>1, FirstPlace
<1>3. /\ s[i] < Pad => Digits(s, i) = Digits(s, i + 1) \cup {i}
      /\ ~(s[i] < Pad) => Digits(s, i) = Digits(s, i + 1)
      /\ s[i] = Pad => Pads(s, i) = Pads(s, i + 1) \cup {i}
      /\ s[i] # Pad => Pads(s, i) = Pads(s, i + 1)
  BY <1>2 DEF Digits, Pads
<1>4. i \notin Digits(s, i + 1) /\ i \notin Pads(s, i + 1)
  BY <1>2 DEF Digits, Pads
<1>5. IsFiniteSet(Digits(s, i + 1)) /\ IsFiniteSet(Pads(s, i + 1))
  BY <1>2, Counts
<1>6. /\ Cardinality(Digits(s, i + 1) \cup {i}) = Cardinality(Digits(s, i + 1)) + 1
      /\ Cardinality(Pads(s, i + 1) \cup {i}) = Cardinality(Pads(s, i + 1)) + 1
  BY <1>4, <1>5, FS_AddElement
<1> QED
  BY <1>3, <1>6, Zenon

\* A quartet: four more digits, three more bytes.
LEMMA Quartet ==
  ASSUME NEW d \in Nat, NEW p \in Nat, NEW n \in Nat
  PROVE  /\ Fits(d + 1 + 3, p) <=> Fits(d + 0, p)
         /\ n + (6 * (d + 1 + 3)) \div 8 = (n + 3) + (6 * (d + 0)) \div 8
BY DEF Fits

\* The bytes of a quartet that pad signs end.
LEMMA LastQuartet ==
  ASSUME NEW qn \in 0..3, NEW p \in Nat, NEW n \in Nat
  PROVE  /\ Fits(0 + qn, p + 1) <=> qn >= 2 /\ p <= 1 /\ (qn = 2 => p # 0)
         /\ qn >= 2 => n + (6 * (0 + qn)) \div 8 = n + qn - 1
<1>1. qn = 0 \/ qn = 1 \/ qn = 2 \/ qn = 3
  OBVIOUS
<1> QED
  BY <1>1 DEF Fits

\* At the end a quartet must be empty.
LEMMA SizeEnd ==
  ASSUME NEW s \in Texts, NEW qn \in 0..3, NEW n \in Nat
  PROVE  Size(s, Len(s) + 1, qn, n) = IF qn = 0 THEN n ELSE Failed
<1>1. PICK e : e = Len(s) + 1
  OBVIOUS
<1>2. e..Len(s) = {} /\ e \in Nat
  BY <1>1, LenProperties DEF Texts
<1>3. Digits(s, e) = {} /\ Pads(s, e) = {}
  BY <1>2 DEF Digits, Pads
<1>4. Cardinality(Digits(s, e)) = 0 /\ Cardinality(Pads(s, e)) = 0
  BY <1>3, FS_EmptySet
<1>5. Fits(0 + qn, 0) <=> qn = 0
  BY DEF Fits
<1>6. Completes(s, e, qn) <=> qn = 0
  BY <1>2, <1>3, <1>4, <1>5 DEF Completes
<1>7. Size(s, e, qn, n) = IF qn = 0 THEN n + (6 * (0 + qn)) \div 8 ELSE Failed
  BY <1>4, <1>6 DEF Size
<1>8. n + (6 * (0 + 0)) \div 8 = n
  OBVIOUS
<1> QED
  BY <1>1, <1>7, <1>8

\* White space changes nothing.
LEMMA SizeSpace ==
  ASSUME NEW s \in Texts, NEW i \in 1..Len(s), s[i] = Space, NEW qn, NEW n
  PROVE  Size(s, i, qn, n) = Size(s, i + 1, qn, n)
<1>1. Digits(s, i) = Digits(s, i + 1) /\ Pads(s, i) = Pads(s, i + 1)
  BY CountsStep, KindsDiffer
<1>2. i..Len(s) = (i + 1..Len(s)) \cup {i}
  BY FirstPlace, LenProperties DEF Texts
<1>3. (\A j \in i..Len(s) : s[j] # Other) <=> (\A j \in i + 1..Len(s) : s[j] # Other)
  BY <1>2, KindsDiffer
<1> QED
  BY <1>1, <1>3 DEF Size, Completes

\* Any other character makes the text fail.
LEMMA SizeOther ==
  ASSUME NEW s \in Texts, NEW i \in 1..Len(s), s[i] = Other, NEW qn, NEW n
  PROVE  Size(s, i, qn, n) = Failed
<1>1. i \in i..Len(s)
  BY LenProperties DEF Texts
<1> QED
  BY <1>1 DEF Size, Completes

\* A digit goes into the quartet, and the fourth one puts out its bytes.
LEMMA SizeDigit ==
  ASSUME NEW s \in Texts, NEW i \in 1..Len(s), s[i] < Pad, NEW qn \in 0..3, NEW n \in Nat
  PROVE  Size(s, i, qn, n) =
           IF qn = 3 THEN Size(s, i + 1, 0, n + 3) ELSE Size(s, i + 1, qn + 1, n)
<1>1. PICK d, p : d = Cardinality(Digits(s, i + 1)) /\ p = Cardinality(Pads(s, i + 1))
  OBVIOUS
<1>2. Len(s) \in Nat /\ s[i] # Pad /\ s[i] # Other
  BY KindsDiffer, LenProperties DEF Texts
<1>3. /\ i..Len(s) = (i + 1..Len(s)) \cup {i}
      /\ i + 1 \in Nat /\ \A j \in i + 1..Len(s) : j \in Nat /\ i < j
  BY <1>2, FirstPlace
<1>4. d \in Nat /\ p \in Nat
  BY <1>1, <1>3, Counts
<1>5. /\ Digits(s, i) = Digits(s, i + 1) \cup {i} /\ Cardinality(Digits(s, i)) = d + 1
      /\ Pads(s, i) = Pads(s, i + 1)
  BY <1>1, <1>2, CountsStep
<1>6. (\A j \in i..Len(s) : s[j] # Other) <=> (\A j \in i + 1..Len(s) : s[j] # Other)
  BY <1>2, <1>3
<1>7. \A k \in Pads(s, i + 1) : i < k
  BY <1>3 DEF Pads
<1>8. (\A j \in Digits(s, i), k \in Pads(s, i) : j < k)
        <=> (\A j \in Digits(s, i + 1), k \in Pads(s, i + 1) : j < k)
  BY <1>5, <1>7
<1>9. \A m : Completes(s, i + 1, m) <=>
               /\ \A j \in i..Len(s) : s[j] # Other
               /\ \A j \in Digits(s, i), k \in Pads(s, i) : j < k
               /\ Fits(d + m, p)
  BY <1>1, <1>6, <1>8 DEF Completes
<1>10. Completes(s, i, qn) <=>
               /\ \A j \in i..Len(s) : s[j] # Other
               /\ \A j \in Digits(s, i), k \in Pads(s, i) : j < k
               /\ Fits(d + 1 + qn, p)
  BY <1>1, <1>5 DEF Completes
<1>11. CASE qn = 3
  <2>1. /\ Fits(d + 1 + 3, p) <=> Fits(d + 0, p)
        /\ n + (6 * (d + 1 + 3)) \div 8 = (n + 3) + (6 * (d + 0)) \div 8
    BY <1>4, Quartet
  <2>2. Completes(s, i, 3) <=> Completes(s, i + 1, 0)
    BY <1>9, <1>10, <1>11, <2>1, Zenon
  <2>3. /\ Size(s, i, 3, n) = IF Completes(s, i, 3) THEN n + (6 * (d + 1 + 3)) \div 8 ELSE Failed
        /\ Size(s, i + 1, 0, n + 3) =
             IF Completes(s, i + 1, 0) THEN (n + 3) + (6 * (d + 0)) \div 8 ELSE Failed
    BY <1>1, <1>5, Zenon DEF Size
  <2> QED
    BY <1>11, <2>1, <2>2, <2>3, Zenon
<1>12. CASE qn # 3
  <2>1. d + 1 + qn = d + (qn + 1)
    BY <1>4
  <2>2. Completes(s, i, qn) <=> Completes(s, i + 1, qn + 1)
    BY <1>9, <1>10, <2>1, Zenon
  <2>3. Size(s, i, qn, n) = Size(s, i + 1, qn + 1, n)
    BY <1>1, <1>5, <2>1, <2>2, Zenon DEF Size
  <2> QED
    BY <1>12, <2>3, Zenon
<1> QED
  BY <1>11, <1>12

\* A pad sign ends the text.
LEMMA SizePad ==
  ASSUME NEW s \in Texts, NEW i \in 1..Len(s), s[i] = Pad, NEW qn \in 0..3, NEW n \in Nat
  PROVE  Size(s, i, qn, n) = IF PadsEnd(s, i, qn) THEN n + qn - 1 ELSE Failed
<1>1. PICK rest, p : /\ rest = {j \in i + 1..Len(s) : s[j] # Space}
                     /\ p = Cardinality(Pads(s, i + 1))
  OBVIOUS
<1>2. Len(s) \in Nat /\ ~(s[i] < Pad) /\ s[i] # Other
  BY KindsDiffer, LenProperties DEF Texts
<1>3. /\ i..Len(s) = (i + 1..Len(s)) \cup {i}
      /\ i + 1 \in Nat /\ \A j \in i + 1..Len(s) : j \in Nat /\ i < j /\ j \in 1..Len(s)
  BY <1>2, FirstPlace
<1>4. p \in Nat /\ IsFiniteSet(Pads(s, i + 1))
  BY <1>1, <1>3, Counts
<1>5. /\ Digits(s, i) = Digits(s, i + 1)
      /\ Pads(s, i) = Pads(s, i + 1) \cup {i} /\ Cardinality(Pads(s, i)) = p + 1
  BY <1>1, <1>2, CountsStep
<1>6. \A j \in i + 1..Len(s) :
        s[j] < Pad \/ s[j] = Pad \/ s[j] = Space \/ s[j] = Other
  BY <1>3, CharKinds
<1>7. (\A j \in rest : s[j] = Pad) <=>
        /\ \A j \in i..Len(s) : s[j] # Other
        /\ \A j \in Digits(s, i), k \in Pads(s, i) : j < k
  <2>1. ASSUME \A j \in rest : s[j] = Pad
        PROVE  /\ \A j \in i..Len(s) : s[j] # Other
               /\ \A j \in Digits(s, i), k \in Pads(s, i) : j < k
    <3>1. \A j \in i + 1..Len(s) : s[j] = Pad \/ s[j] = Space
      BY <1>1, <2>1
    <3>2. Digits(s, i + 1) = {}
      BY <3>1, KindsDiffer DEF Digits
    <3>3. \A j \in i..Len(s) : s[j] # Other
      BY <3>1, <1>2, <1>3, KindsDiffer
    <3> QED
      BY <3>2, <3>3, <1>5
  <2>2. ASSUME \A j \in i..Len(s) : s[j] # Other,
               \A j \in Digits(s, i), k \in Pads(s, i) : j < k
        PROVE  \A j \in rest : s[j] = Pad
    <3>1. \A j \in Digits(s, i + 1) : j < i /\ i < j /\ j \in Nat
      BY <2>2, <1>3, <1>5 DEF Digits
    <3>2. Digits(s, i + 1) = {}
      BY <3>1
    <3>3. \A j \in i + 1..Len(s) : ~(s[j] < Pad) /\ s[j] # Other
      BY <3>2, <2>2, <1>3 DEF Digits
    <3> QED
      BY <3>3, <1>1, <1>6
  <2> QED
    BY <2>1, <2>2
<1>8. ASSUME \A j \in rest : s[j] = Pad
      PROVE  /\ rest = Pads(s, i + 1)
             /\ Cardinality(Digits(s, i)) = 0
             /\ p = 0 <=> rest = {}
  <2>1. rest = Pads(s, i + 1)
    BY <1>1, <1>8, KindsDiffer DEF Pads
  <2>2. \A j \in i + 1..Len(s) : s[j] = Pad \/ s[j] = Space
    BY <1>1, <1>8
  <2>3. Digits(s, i) = {}
    BY <2>2, <1>5, KindsDiffer DEF Digits
  <2> QED
    BY <2>1, <2>3, <1>1, <1>4, FS_EmptySet
<1>9. PadsEnd(s, i, qn) <=>
        /\ \A j \in rest : s[j] = Pad
        /\ qn >= 2 /\ p <= 1 /\ (qn = 2 => p # 0)
  <2>1. PadsEnd(s, i, qn) <=>
          /\ qn >= 2
          /\ \A j \in rest : s[j] = Pad
          /\ Cardinality(rest) <= 1
          /\ qn = 2 => rest # {}
    BY <1>1 DEF PadsEnd
  <2> QED
    BY <2>1, <1>1, <1>8
<1>10. Completes(s, i, qn) <=>
         (\A j \in rest : s[j] = Pad) /\ Fits(Cardinality(Digits(s, i)) + qn, p + 1)
  BY <1>5, <1>7 DEF Completes
<1>11. /\ Fits(0 + qn, p + 1) <=> qn >= 2 /\ p <= 1 /\ (qn = 2 => p # 0)
       /\ qn >= 2 => n + (6 * (0 + qn)) \div 8 = n + qn - 1
  BY <1>4, LastQuartet
<1>12. Completes(s, i, qn) <=> PadsEnd(s, i, qn)
  BY <1>8, <1>9, <1>10, <1>11, Zenon
<1>13. CASE PadsEnd(s, i, qn)
  <2>1. Cardinality(Digits(s, i)) = 0 /\ qn >= 2
    BY <1>13, <1>8, <1>9, Zenon
  <2> QED
    BY <2>1, <1>11, <1>12, <1>13, Zenon DEF Size
<1>14. CASE ~PadsEnd(s, i, qn)
  BY <1>12, <1>14, Zenon DEF Size
<1> QED
  BY <1>13, <1>14

\* The step of decodeBase64 at character i, when the loop f does the rest.
DecodeStep(s, f, i, qn, n) ==
  IF i > Len(s) THEN (IF qn = 0 THEN n ELSE Failed)
  ELSE IF s[i] = Space THEN f[<<i + 1, qn, n>>]
  ELSE IF s[i] = Other THEN Failed
  ELSE IF s[i] = Pad THEN (IF PadsEnd(s, i, qn) THEN n + qn - 1 ELSE Failed)
  ELSE IF qn = 3 THEN f[<<i + 1, 0, n + 3>>] ELSE f[<<i + 1, qn + 1, n>>]

\* The loop of decodeBase64, as the recursion defines it.
DecodeLoop(s, f) ==
  f = [at \in (1..Len(s) + 1) \X (0..3) \X Nat |->
         LET i == at[1] qn == at[2] n == at[3] IN
         IF i > Len(s) THEN (IF qn = 0 THEN n ELSE Failed)
         ELSE IF s[i] = Space THEN f[<<i + 1, qn, n>>]
         ELSE IF s[i] = Other THEN Failed
         ELSE IF s[i] = Pad THEN (IF PadsEnd(s, i, qn) THEN n + qn - 1 ELSE Failed)
         ELSE IF qn = 3 THEN f[<<i + 1, 0, n + 3>>] ELSE f[<<i + 1, qn + 1, n>>]]

\* A function is the loop exactly when each of its values is that of a step.
LEMMA LoopBySteps ==
  ASSUME NEW s, NEW f
  PROVE  DecodeLoop(s, f) <=>
           f = [at \in (1..Len(s) + 1) \X (0..3) \X Nat |->
                  DecodeStep(s, f, at[1], at[2], at[3])]
BY Zenon DEF DecodeLoop, DecodeStep

\* The value of the loop at a place.
LEMMA LoopAt ==
  ASSUME NEW s, NEW f, DecodeLoop(s, f),
         NEW i \in 1..Len(s) + 1, NEW qn \in 0..3, NEW n \in Nat
  PROVE  f[<<i, qn, n>>] = DecodeStep(s, f, i, qn, n)
<1>1. PICK at : at = <<i, qn, n>>
  OBVIOUS
<1>2. at \in (1..Len(s) + 1) \X (0..3) \X Nat /\ at[1] = i /\ at[2] = qn /\ at[3] = n
  BY <1>1
<1>3. f = [a \in (1..Len(s) + 1) \X (0..3) \X Nat |-> DecodeStep(s, f, a[1], a[2], a[3])]
  BY LoopBySteps, Zenon
<1>4. f[at] = DecodeStep(s, f, at[1], at[2], at[3])
  BY <1>2, <1>3, Zenon
<1> QED
  BY <1>1, <1>2, <1>4, Zenon

\* The recursion has a solution once one is shown, and DecodeBase64 takes one.
LEMMA LoopIsDefined ==
  ASSUME NEW s, NEW g, DecodeLoop(s, g)
  PROVE  \E f : DecodeLoop(s, f) /\ DecodeBase64(s) = f[<<1, 0, 0>>]
<1>1. PICK f : f = CHOOSE h : DecodeLoop(s, h)
  OBVIOUS
<1>2. DecodeLoop(s, f)
  BY <1>1
<1>3. DecodeBase64(s) = f[<<1, 0, 0>>]
  BY <1>1 DEF DecodeBase64, DecodeLoop
<1> QED
  BY <1>2, <1>3

\* The count of the rest of the text.
Reference(s) ==
  [at \in (1..Len(s) + 1) \X (0..3) \X Nat |-> Size(s, at[1], at[2], at[3])]

LEMMA ReferenceAt ==
  ASSUME NEW s, NEW i \in 1..Len(s) + 1, NEW qn \in 0..3, NEW n \in Nat
  PROVE  Reference(s)[<<i, qn, n>>] = Size(s, i, qn, n)
<1>1. PICK at : at = <<i, qn, n>>
  OBVIOUS
<1>2. at \in (1..Len(s) + 1) \X (0..3) \X Nat /\ at[1] = i /\ at[2] = qn /\ at[3] = n
  BY <1>1
<1>3. Reference(s)[at] = Size(s, at[1], at[2], at[3])
  BY <1>2, Zenon DEF Reference
<1> QED
  BY <1>1, <1>2, <1>3, Zenon

\* The count takes the step of the loop.
LEMMA ReferenceStep ==
  ASSUME NEW s \in Texts, NEW i \in 1..Len(s) + 1, NEW qn \in 0..3, NEW n \in Nat
  PROVE  Size(s, i, qn, n) = DecodeStep(s, Reference(s), i, qn, n)
<1>1. Len(s) \in Nat
  BY LenProperties DEF Texts
<1>2. CASE i = Len(s) + 1
  <2>1. i > Len(s)
    BY <1>1, <1>2
  <2> QED
    BY <1>2, <2>1, SizeEnd, Zenon DEF DecodeStep
<1>3. CASE i \in 1..Len(s)
  <2>1. ~(i > Len(s)) /\ i + 1 \in 1..Len(s) + 1
    BY <1>1, <1>3
  <2>2. CASE s[i] = Space
    <3>1. Reference(s)[<<i + 1, qn, n>>] = Size(s, i + 1, qn, n)
      BY <2>1, ReferenceAt, Zenon
    <3> QED
      BY <3>1, <2>1, <2>2, <1>3, SizeSpace, Zenon DEF DecodeStep
  <2>3. CASE s[i] = Other
    BY <2>1, <2>3, <1>3, SizeOther, KindsDiffer, Zenon DEF DecodeStep
  <2>4. CASE s[i] = Pad
    BY <2>1, <2>4, <1>3, SizePad, KindsDiffer, Zenon DEF DecodeStep
  <2>5. CASE s[i] < Pad
    <3>1. s[i] # Space /\ s[i] # Other /\ s[i] # Pad
      BY <2>5, KindsDiffer
    <3>2. CASE qn = 3
      <4>1. 0 \in 0..3 /\ n + 3 \in Nat
        OBVIOUS
      <4>2. Reference(s)[<<i + 1, 0, n + 3>>] = Size(s, i + 1, 0, n + 3)
        BY <4>1, <2>1, ReferenceAt, Zenon
      <4> QED
        BY <4>2, <3>1, <3>2, <2>1, <2>5, <1>3, SizeDigit, Zenon DEF DecodeStep
    <3>3. CASE qn # 3
      <4>1. qn + 1 \in 0..3
        BY <3>3
      <4>2. Reference(s)[<<i + 1, qn + 1, n>>] = Size(s, i + 1, qn + 1, n)
        BY <4>1, <2>1, ReferenceAt, Zenon
      <4> QED
        BY <4>2, <3>1, <3>3, <2>1, <2>5, <1>3, SizeDigit, Zenon DEF DecodeStep
    <3> QED
      BY <3>2, <3>3
  <2> QED
    BY <2>2, <2>3, <2>4, <2>5, <1>3, CharKinds, Zenon
<1> QED
  BY <1>1, <1>2, <1>3

\* So the count is a loop.
LEMMA ReferenceIsLoop == ASSUME NEW s \in Texts PROVE DecodeLoop(s, Reference(s))
<1>1. PICK g : g = Reference(s)
  OBVIOUS
<1>2. ASSUME NEW at \in (1..Len(s) + 1) \X (0..3) \X Nat
      PROVE  Size(s, at[1], at[2], at[3]) = DecodeStep(s, g, at[1], at[2], at[3])
  <2>1. at[1] \in 1..Len(s) + 1 /\ at[2] \in 0..3 /\ at[3] \in Nat
    OBVIOUS
  <2> QED
    BY <2>1, <1>1, ReferenceStep, Zenon
<1>3. g = [at \in (1..Len(s) + 1) \X (0..3) \X Nat |-> DecodeStep(s, g, at[1], at[2], at[3])]
  BY <1>1, <1>2, Zenon DEF Reference
<1> QED
  BY <1>1, <1>3, LoopBySteps, Zenon

\* Every set of numbers that is not empty has a least one.
LEMMA LeastNatural ==
  ASSUME NEW T \in SUBSET Nat, T # {}
  PROVE  \E x \in T : \A y \in T : x <= y
<1>1. PICK R : R = {ss \in Nat \X Nat : ss[1] < ss[2]}
  OBVIOUS
<1>2. IsWellFoundedOn(R, Nat)
  BY <1>1, NatLessThanWellFounded DEF OpToRel
<1>3. PICK x \in T : \A y \in T : ~ (<<y, x>> \in R)
  BY <1>2, WFMin
<1>4. ASSUME NEW y \in T PROVE x <= y
  <2>1. x \in Nat /\ y \in Nat
    OBVIOUS
  <2>2. y < x => <<y, x>> \in R
    BY <2>1, <1>1
  <2> QED
    BY <2>1, <2>2, <1>3
<1> QED
  BY <1>4

\* The loop and the count agree at a place when they do at the next character.
LEMMA AgreeBackwards ==
  ASSUME NEW s \in Texts, NEW f, DecodeLoop(s, f), NEW i \in 1..Len(s) + 1,
         i <= Len(s) => \A qn \in 0..3, n \in Nat : f[<<i + 1, qn, n>>] = Size(s, i + 1, qn, n),
         NEW qn \in 0..3, NEW n \in Nat
  PROVE  f[<<i, qn, n>>] = Size(s, i, qn, n)
<1>1. PICK g : g = Reference(s)
  OBVIOUS
<1>2. Len(s) \in Nat
  BY LenProperties DEF Texts
<1>3. f[<<i, qn, n>>] = DecodeStep(s, f, i, qn, n)
  BY LoopAt
<1>4. Size(s, i, qn, n) = DecodeStep(s, g, i, qn, n)
  BY <1>1, ReferenceStep
<1>5. CASE i > Len(s)
  BY <1>3, <1>4, <1>5, Zenon DEF DecodeStep
<1>6. CASE ~(i > Len(s))
  <2>1. i <= Len(s) /\ i + 1 \in 1..Len(s) + 1
    BY <1>2, <1>6
  <2>2. \A m \in 0..3, k \in Nat : f[<<i + 1, m, k>>] = g[<<i + 1, m, k>>]
    BY <1>1, <2>1, ReferenceAt, Zenon
  <2>3. f[<<i + 1, qn, n>>] = g[<<i + 1, qn, n>>]
    BY <2>2
  <2>4. f[<<i + 1, 0, n + 3>>] = g[<<i + 1, 0, n + 3>>]
    <3>1. 0 \in 0..3 /\ n + 3 \in Nat
      OBVIOUS
    <3> QED
      BY <2>2, <3>1, Zenon
  <2>5. qn # 3 => f[<<i + 1, qn + 1, n>>] = g[<<i + 1, qn + 1, n>>]
    <3>1. qn # 3 => qn + 1 \in 0..3
      OBVIOUS
    <3> QED
      BY <2>2, <3>1, Zenon
  <2>6. DecodeStep(s, f, i, qn, n) = DecodeStep(s, g, i, qn, n)
    BY <2>3, <2>4, <2>5, Zenon DEF DecodeStep
  <2> QED
    BY <1>3, <1>4, <2>6
<1> QED
  BY <1>5, <1>6

\* The loop and the count agree everywhere: there is no last character at which
\* they differ.
LEMMA LoopIsCount ==
  ASSUME NEW s \in Texts, NEW f, DecodeLoop(s, f)
  PROVE  f[<<1, 0, 0>>] = Size(s, 1, 0, 0)
<1>1. PICK e : e = Len(s) + 1
  OBVIOUS
<1>2. Len(s) \in Nat /\ e \in Nat /\ e >= 1
  BY <1>1, LenProperties DEF Texts
<1>3. PICK T : T = {m \in 0..Len(s) :
                      \E qn \in 0..3, n \in Nat : f[<<e - m, qn, n>>] # Size(s, e - m, qn, n)}
  OBVIOUS
<1>4. ASSUME T # {} PROVE FALSE
  <2>0. T \in SUBSET Nat
    BY <1>2, <1>3
  <2>1. PICK m \in T : \A k \in T : m <= k
    BY <2>0, <1>4, LeastNatural, Zenon
  <2>2. PICK i : i = e - m
    OBVIOUS
  <2>3. m \in Nat /\ m <= Len(s)
    BY <1>2, <1>3, <2>1
  <2>4. i \in 1..Len(s) + 1 /\ (i <= Len(s) => m - 1 \in 0..Len(s) /\ m - 1 < m /\ e - (m - 1) = i + 1)
    BY <1>1, <1>2, <2>2, <2>3
  <2>5. i <= Len(s) => m - 1 \notin T
    <3>1. m - 1 < m => ~(m <= m - 1)
      BY <2>3
    <3> QED
      BY <2>1, <2>4, <3>1, Zenon
  <2>6. i <= Len(s) => \A qn \in 0..3, n \in Nat : f[<<i + 1, qn, n>>] = Size(s, i + 1, qn, n)
    BY <1>3, <2>4, <2>5, Zenon
  <2>7. \A qn \in 0..3, n \in Nat : f[<<i, qn, n>>] = Size(s, i, qn, n)
    BY <2>4, <2>6, AgreeBackwards, Zenon
  <2> QED
    BY <1>3, <2>1, <2>2, <2>7, Zenon
<1>5. Len(s) \in 0..Len(s) /\ e - Len(s) = 1
  BY <1>1, <1>2
<1>6. 0 \in 0..3 /\ 0 \in Nat
  OBVIOUS
<1>7. Len(s) \notin T
  BY <1>4
<1> QED
  BY <1>3, <1>5, <1>6, <1>7, Zenon

\* decodeBase64 finds n bytes exactly in the texts that encode n bytes, wherever
\* white space and pad signs stand, and fails on the others.
THEOREM DecodeBase64IsExact ==
  ASSUME NEW s \in Texts, NEW n \in Nat
  PROVE  DecodeBase64(s) = n <=> Encodes(s, n)
<1>1. PICK f : DecodeLoop(s, f) /\ DecodeBase64(s) = f[<<1, 0, 0>>]
  BY ReferenceIsLoop, LoopIsDefined, Zenon
<1>2. DecodeBase64(s) = Size(s, 1, 0, 0)
  BY <1>1, LoopIsCount
<1>3. PICK d, p : d = Cardinality(Digits(s, 1)) /\ p = Cardinality(Pads(s, 1))
  OBVIOUS
<1>4. d \in Nat /\ p \in Nat
  BY <1>3, Counts
<1>5. /\ {i \in DOMAIN s : s[i] < Pad} = Digits(s, 1)
      /\ {i \in DOMAIN s : s[i] = Pad} = Pads(s, 1)
      /\ DOMAIN s = 1..Len(s)
  BY LenProperties DEF Digits, Pads, Texts
<1>6. Encodes(s, n) <=>
        /\ \A i \in 1..Len(s) : s[i] # Other
        /\ \A i \in Digits(s, 1), j \in Pads(s, 1) : i < j
        /\ (6 * d) \div 8 = n
        /\ p = (4 - (d % 4)) % 4 \/ (p = 2 /\ d % 4 = 3)
        /\ d % 4 # 1
  BY <1>3, <1>5, Zenon DEF Encodes
<1>7. d + 0 = d /\ 0 + (6 * (d + 0)) \div 8 = (6 * d) \div 8
  BY <1>4
<1>8. Encodes(s, n) <=> Completes(s, 1, 0) /\ (6 * d) \div 8 = n
  BY <1>3, <1>6, <1>7, Zenon DEF Completes, Fits
<1>9. Size(s, 1, 0, 0) = IF Completes(s, 1, 0) THEN (6 * d) \div 8 ELSE Failed
  BY <1>3, <1>7, Zenon DEF Size
<1>10. Failed # n
  BY DEF Failed
<1> QED
  BY <1>2, <1>8, <1>9, <1>10, Zenon

\* The faces of an update are those whose texts encode the bytes of a face.
LEMMA FacesWritten ==
  ASSUME info \in Infos, WriteFiles
  PROVE  newFeatures' \cup unwritten' =
           {f.id : f \in {x \in info.features : x.complete /\ Encodes(x.text, FeatureBytes)}}
<1>1. ASSUME NEW x \in info.features, x.complete
      PROVE  DecodeBase64(x.text) = FeatureBytes <=> Encodes(x.text, FeatureBytes)
  <2>1. x.text \in Texts
    BY <1>1, TextAssumption DEF Texts
  <2>2. FeatureBytes \in Nat
    BY FeatureAssumption
  <2> QED
    BY <2>1, <2>2, DecodeBase64IsExact
<1>2. PICK decoded :
        decoded = {f.id : f \in {x \in info.features :
                                   x.complete /\ DecodeBase64(x.text) = FeatureBytes}}
  OBVIOUS
<1>3. decoded = {f.id : f \in {x \in info.features : x.complete /\ Encodes(x.text, FeatureBytes)}}
  BY <1>1, <1>2
<1>4. unwritten' \in SUBSET decoded /\ newFeatures' = decoded \ unwritten'
  BY <1>2 DEF WriteFiles
<1>5. newFeatures' \cup unwritten' = decoded
  BY <1>4
<1> QED
  BY <1>3, <1>5

\* A step that leaves the info and the faces alone while an update stands before
\* rm keeps the property; only WriteFiles leads there.
LEMMA FacesStep == Inv /\ FacesDecode /\ [Next]_vars => FacesDecode'
<1> SUFFICES ASSUME Inv, FacesDecode, [Next]_vars PROVE FacesDecode'
  OBVIOUS
<1>0. pc \in [Threads -> AppSteps] /\ (pc["app"] \in Applying => info \in Infos)
  BY DEF Inv, TypeOK, AppliedInv
<1>1. ASSUME UNCHANGED <<info, newFeatures, unwritten>>, pc'["app"] = pc["app"] PROVE FacesDecode'
  BY <1>1 DEF FacesDecode
<1>2. ASSUME pc'["app"] # "remove" PROVE FacesDecode'
  BY <1>2 DEF FacesDecode
<1>3. CASE \/ \E id \in Manual : \/ AddIdentificationFeature(id) \/ RemoveIdentificationFeature(id)
                                 \/ UpdateIdentificationFeature(id)
           \/ \E key \in {"settings", AnyKey} : \/ RegisterParameterChangeCallback(key)
                                             \/ UnregisterParameterChangeCallback(key)
           \/ \E r \in Responses : GetHamiCamInitialInfo(r)
           \/ \E t \in Threads : CallbackSets(t) \/ CallbackReturns(t)
           \/ UNCHANGED vars
  BY <1>1, <1>3 DEF AddIdentificationFeature, RemoveIdentificationFeature, UpdateIdentificationFeature,
     FeatureStep, RegisterParameterChangeCallback, UnregisterParameterChangeCallback,
     GetHamiCamInitialInfo, CallbackSets, CallbackReturns, vars, featVars, infoVars
<1>4. CASE SetByControl \/ \E t \in Threads : SaveOpens(t) \/ SaveWrites(t) \/ SaveFails(t)
  <2>1. \/ UNCHANGED <<info, newFeatures, unwritten>> /\ pc'["app"] = pc["app"]
        \/ pc'["app"] # "remove"
    BY <1>0, <1>4 DEF SetByControl, SaveOpens, SaveWrites, SaveFails, Return, Goto, At, Threads,
       featVars, infoVars
  <2> QED
    BY <2>1, <1>1, <1>2
<1>5. CASE \/ ParseFails \/ ParseDone \/ Start \/ \E i \in Infos : ParseAndSaveInitialInfo(i)
           \/ ParseHamiCamInfo \/ ParseHamiSettings \/ ParseHamiAiSettings \/ ParseHamiSystemSettings
  BY <1>0, <1>2, <1>5 DEF ParseFails, ParseDone, Start, ParseAndSaveInitialInfo, ParseHamiCamInfo,
     ParseHamiSettings, ParseHamiAiSettings, ParseHamiSystemSettings, Parse, Return, Goto, At, Threads
<1>6. CASE EnsureDirs \/ RemoveSaveDir \/ MoveSaveDir \/ SwapFeatures \/ RemoveTmpDir \/ Crash
  BY <1>0, <1>2, <1>6 DEF EnsureDirs, RemoveSaveDir, MoveSaveDir, SwapFeatures, RemoveTmpDir, Crash,
     Goto, Threads
<1>7. CASE WriteFiles
  <2>1. info \in Infos /\ info' = info
    BY <1>0, <1>7 DEF WriteFiles, At, Applying, OtherVars, infoVars
  <2> QED
    BY <2>1, <1>7, FacesWritten DEF FacesDecode
<1> QED
  BY <1>3, <1>4, <1>5, <1>6, <1>7 DEF Next

\* The faces of an update are those whose texts are base64 of a whole face and
\* whose files could be written, for any texts of any length.
THEOREM FacesDecodeHolds == Spec => []FacesDecode
<1>1. Init => FacesDecode
  BY DEF Init, FacesDecode, Threads
<1> QED
  BY <1>1, FacesStep, Invariance, PTL DEF Spec

=============================================================================
