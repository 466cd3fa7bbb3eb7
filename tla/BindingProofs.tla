---------------------------- MODULE BindingProofs ----------------------------
(***************************************************************************)
(* Theorems about Binding, for any set of users: an unbinding is final,    *)
(* and no control runs on the permission of an earlier run.                *)
(***************************************************************************)
EXTENDS Binding, SequenceTheorems, TLAPS

Settable == BindFields \cup {"publicIp"}

\* Where the threads are in the life of the program, and what is left to set.
LifeInv ==
  /\ pc["app"] \in {"off", "load"} => pc["ctl"] = "off"
  /\ pc["ctl"] \in {"hioss", "save", "write"} => todo["ctl"] = <<>>
  /\ wipe = "clearing" => pc["ctl"] \in {"set", "hioss", "save", "write", "stuck"}

Left(key) == \E i \in DOMAIN todo["ctl"] : todo["ctl"][i] = key

\* An unbinding has cleared every field that is not left to it.
ClearInv == wipe = "clearing" => \A k \in BindFields : mem[k] = NoUser \/ Left(k)

\* The gate of a running agent is open only after a grant.
GateInv == pc["ctl"] # "off" /\ mem.HiOssStatus => granted

Inv == TypeOK /\ LifeInv /\ ClearInv /\ UnboundStaysUnbound /\ GateInv /\ GateNeedsGrant

\* The parameters keep their types, and one of them is as given.
LEMMA SetTyped ==
  ASSUME mem \in Params, NEW key \in Settable, NEW value,
         key \in BindFields => value \in Users \cup {NoUser},
         key \notin BindFields => value \in BOOLEAN,
         mem' = [mem EXCEPT ![key] = value]
  PROVE  /\ mem' \in Params /\ mem'[key] = value
         /\ \A k \in BindFields \cup {"HiOssStatus"} : k # key => mem'[k] = mem[k]
<1> USE DEF Params, Settable, BindFields
<1>1. CASE key = "camSid"
  BY <1>1
<1>2. CASE key = "tenantId"
  BY <1>2
<1>3. CASE key = "userId"
  BY <1>3
<1>4. CASE key = "netNo"
  BY <1>4
<1>5. CASE key = "publicIp"
  BY <1>5
<1> QED
  BY <1>1, <1>2, <1>3, <1>4, <1>5

\* So they do when the gate is set.
LEMMA GateTyped ==
  ASSUME mem \in Params, NEW status \in BOOLEAN, mem' = [mem EXCEPT !["HiOssStatus"] = status]
  PROVE  /\ mem' \in Params /\ mem'.HiOssStatus = status
         /\ \A k \in BindFields : mem'[k] = mem[k]
BY DEF Params, BindFields

\* The first of the setters left, and the others.
LEMMA FirstLeft ==
  ASSUME NEW t \in Threads, TypeOK, todo[t] # <<>>
  PROVE  /\ Head(todo[t]) \in Settable /\ Tail(todo[t]) \in Seq(Settable)
         /\ \A k : (\E i \in DOMAIN todo[t] : todo[t][i] = k)
              => k = Head(todo[t]) \/ \E i \in DOMAIN Tail(todo[t]) : Tail(todo[t])[i] = k
<1>1. todo[t] \in Seq(Settable)
  BY DEF TypeOK, Settable
<1>2. /\ Head(todo[t]) \in Settable /\ Tail(todo[t]) \in Seq(Settable)
      /\ Len(Tail(todo[t])) = Len(todo[t]) - 1
      /\ \A i \in 1..Len(Tail(todo[t])) : Tail(todo[t])[i] = todo[t][i + 1]
  BY <1>1, HeadTailProperties
<1>3. /\ Len(todo[t]) \in Nat /\ DOMAIN todo[t] = 1..Len(todo[t]) /\ Head(todo[t]) = todo[t][1]
      /\ DOMAIN Tail(todo[t]) = 1..(Len(todo[t]) - 1)
  BY <1>1, <1>2, LenProperties
<1>4. ASSUME NEW i \in DOMAIN todo[t], i # 1
      PROVE  i - 1 \in DOMAIN Tail(todo[t]) /\ Tail(todo[t])[i - 1] = todo[t][i]
  <2>1. i - 1 \in 1..(Len(todo[t]) - 1) /\ (i - 1) + 1 = i
    BY <1>3, <1>4
  <2> QED
    BY <1>2, <1>3, <2>1
<1> QED
  BY <1>2, <1>3, <1>4

\* The keys the two threads are given to set are settable.
LEMMA KeysTyped ==
  /\ <<>> \in Seq(Settable) /\ BindKeys \in Seq(Settable) /\ <<"publicIp">> \in Seq(Settable)
  /\ Append(BindKeys, "publicIp") \in Seq(Settable)
  /\ \A k \in BindFields : \E i \in DOMAIN Append(BindKeys, "publicIp") : Append(BindKeys, "publicIp")[i] = k
<1>1. BindKeys \in Seq(Settable) /\ <<>> \in Seq(Settable) /\ <<"publicIp">> \in Seq(Settable)
  BY DEF BindKeys, Settable, BindFields
<1>2. /\ Len(BindKeys) = 4 /\ BindKeys[1] = "camSid" /\ BindKeys[2] = "tenantId"
      /\ BindKeys[3] = "userId" /\ BindKeys[4] = "netNo"
  BY DEF BindKeys
<1>3. "publicIp" \in Settable
  BY DEF Settable
<1>4. /\ Append(BindKeys, "publicIp") \in Seq(Settable)
      /\ Len(Append(BindKeys, "publicIp")) = 5
      /\ \A i \in 1..4 : Append(BindKeys, "publicIp")[i] = BindKeys[i]
  BY <1>1, <1>2, <1>3, AppendProperties, SMTT(60)
<1>5. DOMAIN Append(BindKeys, "publicIp") = 1..5
  BY <1>4, LenProperties
<1>6. ASSUME NEW k \in BindFields
      PROVE  \E i \in DOMAIN Append(BindKeys, "publicIp") : Append(BindKeys, "publicIp")[i] = k
  BY <1>2, <1>4, <1>5 DEF BindFields
<1> QED
  BY <1>1, <1>4, <1>6

\* The initial states satisfy the invariant.
LEMMA InitInv == Init => Inv
<1> SUFFICES ASSUME Init PROVE Inv
  OBVIOUS
<1>1. Defaults \in Params /\ Shipped \in Params
  BY DEF Defaults, Shipped, Params
<1>2. todo \in [Threads -> Seq(Settable)]
  BY KeysTyped DEF Init
<1>3. TypeOK
  BY <1>1, <1>2 DEF Init, TypeOK, Threads, Steps, Controls, Settable
<1> QED
  BY <1>1, <1>3 DEF Init, Inv, LifeInv, ClearInv, UnboundStaysUnbound, GateInv, GateNeedsGrant, Threads

\* The start, the loading and the end of the program preserve it.
LEMMA ProgramKeeps ==
  ASSUME Inv, Start \/ Crash \/ LoadFromFile \/ UseDefaults \/ InitFlag \/ InitGate
  PROVE  Inv'
<1> USE DEF Inv, LifeInv, ClearInv, UnboundStaysUnbound, GateInv, GateNeedsGrant, Threads, history, Goto
<1>0. Defaults \in Params /\ Unbound(Defaults) /\ ~Defaults.HiOssStatus
  BY DEF Defaults, Params, Unbound, BindFields
<1>1. CASE Start
  BY <1>1 DEF Start, TypeOK, Steps, Left, Unbound
<1>2. CASE Crash
  <2>1. todo' \in [Threads -> Seq(Settable)]
    BY <1>2, KeysTyped DEF Crash
  <2>2. TypeOK'
    BY <1>0, <1>2, <2>1 DEF Crash, TypeOK, Steps, Settable
  <2> QED
    BY <1>0, <1>2, <2>2 DEF Crash, TypeOK
<1>3. CASE LoadFromFile
  <2>1. wipe # "clearing" /\ pc["ctl"] = "off"
    BY <1>3 DEF LoadFromFile
  <2>2. TypeOK'
    BY <1>3 DEF LoadFromFile, TypeOK, Steps
  <2> QED
    BY <1>3, <2>1, <2>2 DEF LoadFromFile, TypeOK, Unbound
<1>4. CASE UseDefaults
  <2>1. wipe # "clearing" /\ pc["ctl"] = "off"
    BY <1>4 DEF UseDefaults
  <2>2. TypeOK'
    BY <1>0, <1>4 DEF UseDefaults, TypeOK, Steps
  <2> QED
    BY <1>0, <1>4, <2>1, <2>2 DEF UseDefaults, TypeOK, Unbound
<1>5. CASE InitFlag
  BY <1>5 DEF InitFlag, SetIsCheckHioss, TypeOK, Steps, Left, Unbound
<1>6. CASE InitGate
  <2>1. /\ mem' \in Params /\ ~mem'.HiOssStatus
        /\ \A k \in BindFields : mem'[k] = mem[k]
    BY <1>6, GateTyped DEF InitGate, SetParameter, TypeOK, BindFields
  <2>2. TypeOK'
    BY <1>6, <2>1 DEF InitGate, TypeOK, Steps
  <2> QED
    BY <1>6, <2>1, <2>2 DEF InitGate, TypeOK, Left, Unbound
<1> QED
  BY <1>1, <1>2, <1>3, <1>4, <1>5, <1>6

\* The steps of saveToFile preserve it.
LEMMA SaveKeeps ==
  ASSUME Inv, NEW t \in Threads, SaveStep(t)
  PROVE  Inv'
<1> USE DEF Inv, LifeInv, ClearInv, UnboundStaysUnbound, GateInv, GateNeedsGrant, Threads, history, Goto
<1>0. Defaults \in Params
  BY DEF Defaults, Params
<1>1. CASE SaveOpens(t)
  <2>1. TypeOK'
    BY <1>0, <1>1 DEF SaveOpens, TypeOK, Steps
  <2> QED
    BY <1>1, <2>1 DEF SaveOpens, TypeOK, Left, Unbound
<1>2. CASE SaveWrites(t)
  <2>1. TypeOK'
    BY <1>2 DEF SaveWrites, TypeOK, Steps
  <2>2. t = "ctl" /\ wipe = "clearing" => Unbound(mem)
    BY <1>2 DEF SaveWrites, Left, Unbound
  <2>3. UnboundStaysUnbound'
    BY <1>2, <2>2 DEF SaveWrites, Unbound, TypeOK
  <2>4. LifeInv' /\ ClearInv'
    BY <1>2 DEF SaveWrites, Left, TypeOK
  <2> QED
    BY <1>2, <2>1, <2>3, <2>4 DEF SaveWrites, TypeOK
<1>3. CASE SaveFails(t)
  <2>1. TypeOK'
    BY <1>3 DEF SaveFails, TypeOK, Steps
  <2> QED
    BY <1>3, <2>1 DEF SaveFails, TypeOK, Left, Unbound
<1> QED
  BY <1>1, <1>2, <1>3 DEF SaveStep

\* The application's binding, registering and checking preserve it.
LEMMA AppKeeps ==
  ASSUME Inv,
         \/ AppCalls \/ CommandSucceeds \/ CommandFails \/ SetNext \/ SetAll
         \/ (\E status \in BOOLEAN : CheckAnswered(status)) \/ CheckFlag
  PROVE  Inv'
<1> USE DEF Inv, LifeInv, ClearInv, UnboundStaysUnbound, GateInv, GateNeedsGrant, Threads, history, Goto
<1>1. CASE \E u \in Users : BindCamera(u)
  <2>1. PICK u \in Users : BindCamera(u)
    BY <1>1
  <2>2. todo' \in [Threads -> Seq(Settable)]
    BY <2>1, KeysTyped DEF BindCamera, TypeOK, Settable
  <2>3. TypeOK'
    BY <2>1, <2>2 DEF BindCamera, TypeOK, Steps, Settable
  <2> QED
    BY <2>1, <2>3 DEF BindCamera, TypeOK, Left, Unbound
<1>2. CASE CameraRegister \/ CheckHiOSS \/ CommandFails
  <2>1. todo' \in [Threads -> Seq(Settable)]
    BY <1>2, KeysTyped DEF CameraRegister, CheckHiOSS, CommandFails, TypeOK, Settable
  <2>2. TypeOK'
    BY <1>2, <2>1 DEF CameraRegister, CheckHiOSS, CommandFails, TypeOK, Steps, Settable
  <2> QED
    BY <1>2, <2>2 DEF CameraRegister, CheckHiOSS, CommandFails, TypeOK, Left, Unbound
<1>3. CASE CommandSucceeds \/ SetAll
  <2>1. TypeOK'
    BY <1>3 DEF CommandSucceeds, SetAll, TypeOK, Steps
  <2> QED
    BY <1>3, <2>1 DEF CommandSucceeds, SetAll, TypeOK, Left, Unbound
<1>4. CASE SetNext
  <2> DEFINE key == Head(todo["app"])
  <2>1. key \in Settable /\ Tail(todo["app"]) \in Seq(Settable)
    BY <1>4, FirstLeft DEF SetNext
  <2>2. /\ mem' = [mem EXCEPT ![key] = IF key = "publicIp" THEN TRUE ELSE user]
        /\ todo' = [todo EXCEPT !["app"] = Tail(@)]
        /\ wipe' = IF key = "publicIp" THEN wipe ELSE "no"
        /\ UNCHANGED <<file, readable, lock, pc, user, control, granted>>
    BY <1>4 DEF SetNext, SetParameter
  <2> HIDE DEF key
  <2>3. /\ mem' \in Params /\ mem'.HiOssStatus = mem.HiOssStatus
        /\ \A k \in BindFields : k # key => mem'[k] = mem[k]
    BY <2>1, <2>2, SetTyped DEF TypeOK, Settable, BindFields
  <2>4. TypeOK'
    BY <2>1, <2>2, <2>3 DEF TypeOK, Settable
  <2>5. wipe' # "no" => wipe' = wipe /\ \A k \in BindFields : mem'[k] = mem[k]
    BY <2>2, <2>3 DEF BindFields
  <2> QED
    BY <2>2, <2>3, <2>4, <2>5 DEF TypeOK, Left, Unbound
<1>5. CASE \E status \in BOOLEAN : CheckAnswered(status)
  <2>1. PICK status \in BOOLEAN : CheckAnswered(status)
    BY <1>5
  <2>2. /\ mem' \in Params /\ mem'.HiOssStatus = status
        /\ \A k \in BindFields : mem'[k] = mem[k]
    BY <2>1, GateTyped DEF CheckAnswered, SetParameter, TypeOK, BindFields
  <2>3. TypeOK'
    BY <2>1, <2>2 DEF CheckAnswered, TypeOK, Steps
  <2> QED
    BY <2>1, <2>2, <2>3 DEF CheckAnswered, TypeOK, Left, Unbound
<1>6. CASE CheckFlag
  <2>1. TypeOK'
    BY <1>6 DEF CheckFlag, SetIsCheckHioss, TypeOK, Steps
  <2> QED
    BY <1>6, <2>1 DEF CheckFlag, SetIsCheckHioss, TypeOK, Left, Unbound
<1> QED
  BY <1>1, <1>2, <1>3, <1>4, <1>5, <1>6 DEF AppCalls

\* The controls, the unbinding among them, preserve it.
LEMMA ControlKeeps ==
  ASSUME Inv, ControlStep \/ \E type \in Controls : ControlCallback(type)
  PROVE  Inv'
<1> USE DEF Inv, LifeInv, ClearInv, UnboundStaysUnbound, GateInv, GateNeedsGrant, Threads, history, Goto
<1>1. CASE \E type \in Controls : ControlCallback(type)
  BY <1>1 DEF ControlCallback, TypeOK, Steps, Left, Unbound
<1>2. CASE ControlRefused \/ ControlExecuted \/ DeleteAnswers
  BY <1>2 DEF ControlRefused, ControlExecuted, DeleteAnswers, TypeOK, Steps, Left, Unbound
<1>3. CASE ControlAccepted
  <2>1. TypeOK'
    BY <1>3 DEF ControlAccepted, TypeOK, Steps
  <2> QED
    BY <1>3, <2>1 DEF ControlAccepted, CheckHiOssStatus, TypeOK, Left, Unbound
<1>4. CASE DeleteBegins
  <2>1. todo' \in [Threads -> Seq(Settable)] /\ todo'["ctl"] = Append(BindKeys, "publicIp")
    BY <1>4, KeysTyped DEF DeleteBegins, TypeOK, Settable
  <2>2. TypeOK'
    BY <1>4, <2>1 DEF DeleteBegins, TypeOK, Steps, Settable
  <2>3. \A k \in BindFields : Left(k)'
    BY <2>1, KeysTyped DEF Left
  <2> QED
    BY <1>4, <2>2, <2>3 DEF DeleteBegins, TypeOK
<1>5. CASE DeleteClears
  <2> DEFINE key == Head(todo["ctl"])
  <2>1. /\ key \in Settable /\ Tail(todo["ctl"]) \in Seq(Settable)
        /\ \A k : Left(k) => k = key \/ \E i \in DOMAIN Tail(todo["ctl"]) : Tail(todo["ctl"])[i] = k
    BY <1>5, FirstLeft DEF DeleteClears, Left
  <2>2. /\ mem' = [mem EXCEPT ![key] = IF key = "publicIp" THEN FALSE ELSE NoUser]
        /\ todo' = [todo EXCEPT !["ctl"] = Tail(@)] /\ pc["ctl"] = "set"
        /\ UNCHANGED <<file, readable, lock, pc, user, control, wipe, granted>>
    BY <1>5 DEF DeleteClears, SetParameter
  <2> HIDE DEF key
  <2>3. /\ mem' \in Params /\ mem'.HiOssStatus = mem.HiOssStatus
        /\ key \in BindFields => mem'[key] = NoUser
        /\ \A k \in BindFields : k # key => mem'[k] = mem[k]
    <3>1. CASE key = "publicIp"
      BY <2>2, <3>1, SetTyped, ZenonT(60) DEF TypeOK, Settable, BindFields
    <3>2. CASE key \in BindFields
      BY <2>2, <3>2, SetTyped, ZenonT(60) DEF TypeOK, Settable, BindFields
    <3> QED
      BY <2>1, <3>1, <3>2 DEF Settable
  <2>4. TypeOK'
    BY <2>1, <2>2, <2>3 DEF TypeOK, Settable
  <2>5. todo'["ctl"] = Tail(todo["ctl"])
    BY <2>2 DEF TypeOK
  <2>6. ClearInv'
    <3> SUFFICES ASSUME wipe = "clearing", NEW k \in BindFields, mem'[k] # NoUser PROVE Left(k)'
      BY <2>2
    <3>1. k # key /\ mem[k] # NoUser
      BY <2>3
    <3>2. Left(k)
      BY <3>1
    <3> QED
      BY <2>1, <2>5, <3>1, <3>2 DEF Left
  <2>7. UnboundStaysUnbound'
    BY <2>2, <2>3 DEF Unbound
  <2> QED
    BY <2>2, <2>3, <2>4, <2>6, <2>7 DEF TypeOK
<1>6. CASE DeleteFlag
  <2>1. TypeOK'
    BY <1>6 DEF DeleteFlag, SetIsCheckHioss, TypeOK, Steps
  <2> QED
    BY <1>6, <2>1 DEF DeleteFlag, SetIsCheckHioss, TypeOK, Left, Unbound
<1>7. CASE DeleteGate
  <2>1. /\ mem' \in Params /\ ~mem'.HiOssStatus
        /\ \A k \in BindFields : mem'[k] = mem[k]
    BY <1>7, GateTyped DEF DeleteGate, SetParameter, TypeOK, BindFields
  <2>2. TypeOK'
    BY <1>7, <2>1 DEF DeleteGate, TypeOK, Steps
  <2> QED
    BY <1>7, <2>1, <2>2 DEF DeleteGate, TypeOK, Left, Unbound
<1> QED
  BY <1>1, <1>2, <1>3, <1>4, <1>5, <1>6, <1>7 DEF ControlStep

\* Inv is an inductive invariant.
LEMMA Invariance == Spec => []Inv
<1>1. Inv /\ [Next]_vars => Inv'
  <2> SUFFICES ASSUME Inv, [Next]_vars PROVE Inv'
    OBVIOUS
  <2>1. CASE UNCHANGED vars
    BY <2>1 DEF vars, Inv, TypeOK, LifeInv, ClearInv, Left, UnboundStaysUnbound, Unbound, GateInv, GateNeedsGrant
  <2> QED
    BY <2>1, ProgramKeeps, AppKeeps, ControlKeeps, SaveKeeps DEF Next, AppStep
<1> QED
  BY <1>1, InitInv, PTL DEF Spec

\* Every variable of the binding keeps its type.
THEOREM TypeInvariance == Spec => []TypeOK
<1>1. Inv => TypeOK
  BY DEF Inv
<1> QED
  BY <1>1, Invariance, PTL

\* An unbinding that was saved is final until the next bind: neither the memory
\* nor a readable file names a user, through saves of the other thread, crashes
\* and restarts.
THEOREM UnboundStaysUnboundHolds == Spec => []UnboundStaysUnbound
<1>1. Inv => UnboundStaysUnbound
  BY DEF Inv
<1> QED
  BY <1>1, Invariance, PTL

\* A control other than the unbinding is executed only after HiOSS has answered
\* yes in this run of the program.
THEOREM GateNeedsGrantHolds == Spec => []GateNeedsGrant
<1>1. Inv => GateNeedsGrant
  BY DEF Inv
<1> QED
  BY <1>1, Invariance, PTL

=============================================================================
