---------------------------- MODULE ControlProofs ----------------------------
(***************************************************************************)
(* Theorems about Control, for any sets of requests: which controls come,  *)
(* in which order and with which fields is left open.                      *)
(***************************************************************************)
EXTENDS Control, SequenceTheorems, WellFoundedInduction, TLAPS

\* What every handler's plan p for a request r satisfies.
PlanOK(r, p) ==
  /\ p.ok \in BOOLEAN /\ p.call \in BOOLEAN /\ p.todo \in Seq(Setters)
  /\ p.ok /\ r.type \in DOMAIN Documented => p.wire[1] \in Documented[r.type]
  /\ Sets(p, "timeZone") => p.call /\ r.type \in ZoneControls \cup {"DeleteCameraInfo"}
  /\ r.type \in ZoneControls /\ p.call =>
       \E id \in DOMAIN TimezoneMap :
         p.wire = <<TimezoneMap[id]>> /\ p.todo = << <<"timeZone", id>> >>

\* The steps after the service's answer, if it was asked.
Agreed == Storing \ {"call"}

\* Where the threads are, and what is known of the control there.
FlowInv ==
  /\ pc["app"] \in {"off", "idle", "save", "write"}
  /\ pc["app"] = "off" <=> pc["ctl"] = "off"
  /\ pc["ctl"] \in Storing \cup {"gate", "handler"} => req \in Requests[session]
  /\ pc["ctl"] \in Storing \cup {"handler"} => req.type \in HandledTypes
  /\ pc["ctl"] \in Storing => plan.ok /\ PlanOK(req, plan)
  /\ pc["ctl"] = "call" => plan.call
  /\ pc["ctl"] \notin Agreed => nset = 0
  /\ pc["ctl"] = "set" => nset < Len(plan.todo)

\* Memory holds what was acknowledged, or what the control under way has set.
MemInv ==
  pc["app"] # "off" => \A k \in Acked :
    \/ acked[k] = None \/ mem[k] = acked[k]
    \/ pc["ctl"] \in Storing /\ \E i \in 1..nset : plan.todo[i] = <<k, mem[k]>>

\* A save that went through is still what the memory holds when it is answered.
SavedInv ==
  saved => pc["ctl"] = "answer" /\ (readable => \A k \in Acked : file[k] = mem[k])

Zoned(z) == z \in DOMAIN TimezoneMap /\ TimezoneMap[z] = svcZone

\* The service has taken the zone of the plan, which is its only setter.
ZonePlanned == \E id \in DOMAIN TimezoneMap :
                 plan.todo = << <<"timeZone", id>> >> /\ svcZone = TimezoneMap[id]

\* Memory and service have one zone but between the two writes of a control that
\* sets it; a readable file has it too once a save has gone through, and a program
\* that is down knows of none that has not.
ZoneInv ==
  /\ pc["app"] = "off" => ~unsaved
  /\ svcZone # "unknown" /\ ~parted =>
       /\ pc["app"] # "off" => \/ Zoned(mem.timeZone)
                               \/ pc["ctl"] = "set" /\ nset = 0 /\ ZonePlanned
       /\ pc["ctl"] \in Agreed /\ Sets(plan, "timeZone") => ZonePlanned
       /\ ZonePending => unsaved
       /\ ~unsaved /\ readable => Zoned(file.timeZone)

Inv == TypeOK /\ FlowInv /\ MemInv /\ SavedInv /\ ZoneInv /\ AckedIsDurable

-----------------------------------------------------------------------------
(* What the handlers make of a request *)

\* The domain of TimezoneMap; its strings do not matter below.
LEMMA ZoneIds ==
  /\ DOMAIN TimezoneMap = 0..24 \cup {50, 51} /\ DefaultTimezoneId \in DOMAIN TimezoneMap
  /\ DOMAIN TimezoneMap \subseteq Zones /\ DefaultTimezoneId \in Zones /\ NoTimezone \in Zones
  /\ None \notin Zones
  /\ \A id \in DOMAIN TimezoneMap : TimezoneMap[id] \in ZoneStrings
<1>1. DOMAIN TimezoneMap = 0..24 \cup {50, 51}
  BY DEF TimezoneMap
<1> QED
  BY <1>1 DEF Zones, NoTimezone, DefaultTimezoneId, None, ZoneStrings

\* A plan that stores nothing.
LEMMA NoSetters ==
  /\ <<>> \in Seq(Setters)
  /\ \A p, k : p.todo = <<>> => ~Sets(p, k)
BY EmptySeq DEF Sets

\* A rejection is a plan of every request.
LEMMA RejectPlans == ASSUME NEW r PROVE PlanOK(r, Reject) /\ ~Reject.ok
<1>1. Reject.ok = FALSE /\ Reject.call = FALSE /\ Reject.todo = <<>>
  BY DEF Reject
<1>2. ~Sets(Reject, "timeZone")
  BY <1>1, NoSetters
<1> QED
  BY <1>1, <1>2, NoSetters DEF PlanOK

\* The plan of a handler that has validated its request and relays it.
LEMMA RelayPlans ==
  ASSUME NEW r, r.type \notin ZoneControls, NEW wire,
         r.type \in DOMAIN Documented => wire[1] \in Documented[r.type]
  PROVE  PlanOK(r, [ok |-> TRUE, call |-> TRUE, wire |-> wire, todo |-> <<>>])
<1> DEFINE p == [ok |-> TRUE, call |-> TRUE, wire |-> wire, todo |-> <<>>]
<1>1. p.ok = TRUE /\ p.call = TRUE /\ p.wire = wire /\ p.todo = <<>>
  OBVIOUS
<1>2. ~Sets(p, "timeZone")
  BY <1>1, NoSetters
<1> HIDE DEF p
<1>3. PlanOK(r, p)
  BY <1>1, <1>2, NoSetters DEF PlanOK
<1> QED
  BY <1>3 DEF p

\* The zone of SetTimeZone and of GetTimeZone.
LEMMA ZonePlans ==
  ASSUME NEW r, r.type \in ZoneControls, NEW id \in DOMAIN TimezoneMap
  PROVE  PlanOK(r, SetsTimeZone(id))
<1> DEFINE p == SetsTimeZone(id)
<1>1. /\ p.ok = TRUE /\ p.call = TRUE /\ p.wire = <<TimezoneMap[id]>>
      /\ p.todo = << <<"timeZone", id>> >>
  BY DEF SetsTimeZone, RelayAndStore
<1>2. <<"timeZone", id>> \in Setters
  BY ZoneIds DEF Setters
<1>3. << <<"timeZone", id>> >> \in Seq(Setters)
  BY <1>2
<1>4. r.type \notin DOMAIN Documented
  BY DEF Documented, ZoneControls
<1>5. SetsTimeZone(id) = p
  OBVIOUS
<1> HIDE DEF p
<1> QED
  BY <1>1, <1>3, <1>4, <1>5 DEF PlanOK

\* The plan of a handler that has validated parameters, the zone not among them,
\* and stores them.
LEMMA StorePlans ==
  ASSUME NEW r, r.type \notin ZoneControls, r.type \notin DOMAIN Documented,
         NEW todo \in Seq(Setters), \A i \in DOMAIN todo : todo[i][1] # "timeZone"
  PROVE  PlanOK(r, [ok |-> TRUE, call |-> FALSE, wire |-> <<>>, todo |-> todo])
<1> DEFINE p == [ok |-> TRUE, call |-> FALSE, wire |-> <<>>, todo |-> todo]
<1>1. p.ok = TRUE /\ p.call = FALSE /\ p.todo = todo
  OBVIOUS
<1>2. ~Sets(p, "timeZone")
  BY <1>1 DEF Sets
<1> HIDE DEF p
<1>3. PlanOK(r, p)
  BY <1>1, <1>2 DEF PlanOK
<1> QED
  BY <1>3 DEF p

\* The two setters of SetCameraHD and of SetImageQuality.
LEMMA TwoSetters ==
  ASSUME NEW a \in Setters, NEW b \in Setters, a[1] # "timeZone", b[1] # "timeZone"
  PROVE  /\ <<a, b>> \in Seq(Setters)
         /\ \A i \in DOMAIN <<a, b>> : <<a, b>>[i][1] # "timeZone"
OBVIOUS

\* The six setters of DeleteCameraInfo.
LEMMA SixSetters ==
  ASSUME NEW a \in Setters, NEW b \in Setters, NEW c \in Setters,
         NEW d \in Setters, NEW e \in Setters, NEW f \in Setters
  PROVE  <<a, b, c, d, e, f>> \in Seq(Setters)
OBVIOUS

\* What DeleteCameraInfo resets is typed; the service's zone is open then.
LEMMA DeletePlans ==
  ASSUME NEW r, r.type = "DeleteCameraInfo" PROVE PlanOK(r, HandleDeleteCameraInfo(r))
<1> DEFINE p == HandleDeleteCameraInfo(r)
           clear == << <<"tenantId", "">>, <<"userId", "">>, <<"netNo", "">>,
                       <<"isCheckHioss", FALSE>>, <<"HiOssStatus", FALSE>>,
                       <<"timeZone", DefaultTimezoneId>> >>
<1>1. p.ok = TRUE /\ p.call = TRUE /\ p.todo = clear
  BY DEF HandleDeleteCameraInfo, RelayAndStore
<1>2. /\ <<"tenantId", "">> \in Setters /\ <<"userId", "">> \in Setters /\ <<"netNo", "">> \in Setters
      /\ <<"isCheckHioss", FALSE>> \in Setters /\ <<"HiOssStatus", FALSE>> \in Setters
      /\ <<"timeZone", DefaultTimezoneId>> \in Setters
  BY ZoneIds DEF Setters, Ids
<1>3. clear \in Seq(Setters)
  BY <1>2, SixSetters, Zenon
<1>4. r.type \notin DOMAIN Documented /\ r.type \notin ZoneControls
  BY DEF Documented, ZoneControls
<1>5. HandleDeleteCameraInfo(r) = p
  OBVIOUS
<1> HIDE DEF p, clear
<1> QED
  BY <1>1, <1>3, <1>4, <1>5 DEF PlanOK

\* Handlers of documented ranges.
LEMMA DocumentedPlans ==
  ASSUME NEW r, r.type \in DOMAIN Documented
  PROVE  PlanOK(r, Handler(r))
<1> USE RelayPlans, RejectPlans DEF Handler, Relay, Documented, ZoneControls
<1>1. CASE r.type = "SetFlicker"
  BY <1>1 DEF HandleSetFlicker, StringIn
<1>2. CASE r.type = "SetMicrophone"
  BY <1>2 DEF HandleSetMicrophone, NumberIn
<1>3. CASE r.type \in {"SetNightMode", "SetAutoNightVision", "SetFlipUpDown", "SetLED", "SetCameraPower"}
  BY <1>3 DEF HandleSetNightMode, HandleSetAutoNightVision, HandleSetFlipUpDown, HandleSetLED,
              HandleSetCameraPower, Switch, StringIn
<1>4. CASE r.type = "SendAudioStream"
  BY <1>4 DEF HandleSendAudioStream
<1>5. CASE r.type = "GetVideoLiveStream"
  BY <1>5 DEF HandleGetVideoLiveStream, StringIn
<1>6. CASE r.type = "UpgradeHamiCamOTA"
  BY <1>6 DEF HandleUpgradeHamiCamOTA, StringIn
<1>7. CASE r.type \in {"HamiCamPtzControlConfigSpeed", "HamiCamPtzControlGoPst"}
  BY <1>7 DEF HandleHamiCamPtzControlConfigSpeed, HandleHamiCamPtzControlGoPst, IntIn
<1>8. CASE r.type \in {"HamiCamHumanTracking", "HamiCamPetTracking"}
  BY <1>8 DEF HandleHamiCamHumanTracking, HandleHamiCamPetTracking, IntIn
<1>9. CASE r.type = "HamiCamPtzControlConfigPst"
  BY <1>9 DEF HandleHamiCamPtzControlConfigPst, IntIn
<1> QED
  BY <1>1, <1>2, <1>3, <1>4, <1>5, <1>6, <1>7, <1>8, <1>9

\* Every handler's plan is one, whatever its request carries.
LEMMA HandlerPlans ==
  ASSUME NEW r, r.type \in HandledTypes
  PROVE  PlanOK(r, Handler(r))
<1>1. CASE r.type \in DOMAIN Documented
  BY <1>1, DocumentedPlans
<1>2. CASE r.type = "SetTimeZone"
  BY <1>2, ZonePlans, RejectPlans DEF Handler, HandleSetTimeZone, StringIn, ZoneControls
<1>3. CASE r.type = "GetTimeZone"
  <2>1. Handler(r) = SetsTimeZone(DefaultTimezoneId)
          \/ Handler(r) = [ok |-> TRUE, call |-> FALSE, wire |-> <<>>, todo |-> <<>>]
    BY <1>3 DEF Handler, HandleGetTimeZone, Store
  <2>2. CASE Handler(r) = SetsTimeZone(DefaultTimezoneId)
    BY <1>3, <2>2, ZonePlans, ZoneIds DEF ZoneControls
  <2>3. CASE Handler(r) = [ok |-> TRUE, call |-> FALSE, wire |-> <<>>, todo |-> <<>>]
    <3> DEFINE p == Handler(r)
    <3> HIDE DEF p
    <3>1. p.ok = TRUE /\ p.call = FALSE /\ p.todo = <<>>
      BY <2>3 DEF p
    <3>2. r.type \notin DOMAIN Documented
      BY <1>3 DEF Documented
    <3>3. ~Sets(p, "timeZone")
      BY <3>1, NoSetters
    <3>4. PlanOK(r, p)
      BY <3>1, <3>2, <3>3, NoSetters DEF PlanOK
    <3> QED
      BY <3>4 DEF p
  <2> QED
    BY <2>1, <2>2, <2>3
<1>4. CASE r.type = "DeleteCameraInfo"
  BY <1>4, DeletePlans DEF Handler
<1>5. CASE r.type = "SetCameraHD"
  <2>1. r.type \notin DOMAIN Documented /\ r.type \notin ZoneControls
    BY <1>5 DEF Documented, ZoneControls
  <2>2. CASE IsValidRequestId(r.requestId, "live") /\ StringIn(r.isHd, 0..1)
    <3>0. r.requestId.val = "live" /\ r.isHd.val \in -1..1
      BY <2>2 DEF IsValidRequestId, StringIn
    <3>1. <<"requestId", r.requestId.val>> \in Setters /\ <<"isHd", r.isHd.val>> \in Setters
      BY <3>0 DEF Setters
    <3> QED
      BY <1>5, <2>1, <2>2, <3>1, TwoSetters, StorePlans DEF Handler, HandleSetCameraHD, Store
  <2>3. CASE ~(IsValidRequestId(r.requestId, "live") /\ StringIn(r.isHd, 0..1))
    BY <1>5, <2>3, RejectPlans DEF Handler, HandleSetCameraHD, Store
  <2> QED
    BY <2>2, <2>3
<1>6. CASE r.type = "SetImageQuality"
  <2>1. r.type \notin DOMAIN Documented /\ r.type \notin ZoneControls
    BY <1>6 DEF Documented, ZoneControls
  <2>2. CASE IsValidRequestId(r.requestId, "live") /\ StringIn(r.imageQuality, 0..2)
    <3>1. /\ <<"requestId", r.requestId.val>> \in Setters
          /\ <<"imageQuality", r.imageQuality.val>> \in Setters
      BY <2>2 DEF IsValidRequestId, StringIn, Setters
    <3> QED
      BY <1>6, <2>1, <2>2, <3>1, TwoSetters, StorePlans DEF Handler, HandleSetImageQuality, Store
  <2>3. CASE ~(IsValidRequestId(r.requestId, "live") /\ StringIn(r.imageQuality, 0..2))
    BY <1>6, <2>3, RejectPlans DEF Handler, HandleSetImageQuality, Store
  <2> QED
    BY <2>2, <2>3
<1>7. CASE r.type \notin DOMAIN Documented /\ r.type \notin ZoneControls
           /\ r.type \in {"GetCamStatusById", "UpdateCameraName", "SetCameraOSD", "SetSpeak",
                "GetSnapshotHamiCamDevice", "RestartHamiCamDevice", "SetCamStorageDay",
                "SetCamEventStorageDay", "HamiCamFormatSDCard", "HamiCamPtzControlMove"}
  BY <1>7, RelayPlans, RejectPlans DEF Handler, Relay, HandleGetCamStatusById,
     HandleUpdateCameraName, HandleSetCameraOSD, HandleSetSpeak,
     HandleGetSnapshotHamiCamDevice, HandleRestartHamiCamDevice, HandleSetCamStorageDay,
     HandleSetCamEventStorageDay, HandleHamiCamFormatSDCard, HandleHamiCamPtzControlMove
<1>8. CASE r.type \notin DOMAIN Documented /\ r.type \notin ZoneControls
           /\ r.type \in {"HamiCamGetPtzControl", "HamiCamPtzControlTourGo", "GetHamiCamBindList",
                "UpdateCameraAISetting", "GetCameraAISetting", "StopVideoLiveStream",
                "GetVideoHistoryStream", "StopVideoHistoryStream", "StopAudioStream"}
  BY <1>8, RelayPlans, RejectPlans DEF Handler, Relay, HandleHamiCamGetPtzControl,
     HandleHamiCamPtzControlTourGo, HandleGetHamiCamBindList, HandleUpdateCameraAISetting,
     ParseJson2AiSettingStruct, HandleGetCameraAISetting, HandleStopVideoLiveStream,
     HandleGetVideoHistoryStream, HandleStopVideoHistoryStream, HandleStopAudioStream
<1> QED
  BY <1>1, <1>2, <1>3, <1>4, <1>5, <1>6, <1>7, <1>8 DEF HandledTypes, ZoneControls, Documented

-----------------------------------------------------------------------------
(* The invariant *)

\* Setting one parameter leaves the others.
LEMMA SetOne ==
  ASSUME NEW m \in Params, NEW key \in DOMAIN Defaults, NEW v
  PROVE  /\ [m EXCEPT ![key] = v][key] = v
         /\ \A k \in Acked \ {key} : [m EXCEPT ![key] = v][k] = m[k]
<1>1. DOMAIN m = DOMAIN Defaults
  BY DEF Params, Defaults
<1>2. Acked \subseteq DOMAIN m
  BY DEF Params, Acked
<1> QED
  BY <1>1, <1>2

\* The parameters an Init or a Start begins with.
LEMMA FirstParams ==
  /\ Defaults \in Params /\ \A check \in BOOLEAN : Bound(check) \in Params
  /\ \A m \in Params, b \in BOOLEAN :
       /\ [m EXCEPT !.HiOssStatus = b] \in Params
       /\ \A k \in Acked : [m EXCEPT !.HiOssStatus = b][k] = m[k]
<1>1. Defaults \in Params
  BY ZoneIds DEF Defaults, Params, Ids
<1>2. \A check \in BOOLEAN : Bound(check) \in Params
  BY <1>1, ZoneIds, NetNoAssumption DEF Bound, Params, Ids
<1>3. ASSUME NEW m \in Params, NEW b \in BOOLEAN
      PROVE  /\ [m EXCEPT !.HiOssStatus = b] \in Params
             /\ \A k \in Acked : [m EXCEPT !.HiOssStatus = b][k] = m[k]
  BY DEF Params, Acked
<1> QED
  BY <1>1, <1>2, <1>3

\* A pair is made of its parts.
LEMMA PairParts ==
  ASSUME NEW A, NEW B, NEW s \in A \X B PROVE s[1] \in A /\ s[2] \in B /\ s = <<s[1], s[2]>>
OBVIOUS

\* A setter is a pair, and typed as the parameter it sets.
LEMMA SetterTyped ==
  ASSUME NEW m \in Params, NEW set \in Setters
  PROVE  /\ set = <<set[1], set[2]>>
         /\ set[1] # "isCheckHioss" =>
              set[1] \in DOMAIN Defaults /\ [m EXCEPT ![set[1]] = set[2]] \in Params
<1>1. CASE set \in {"tenantId", "netNo", "userId"} \X Ids
  <2>1. set[1] \in {"tenantId", "netNo", "userId"} /\ set[2] \in Ids /\ set = <<set[1], set[2]>>
    BY <1>1, PairParts, Zenon
  <2> QED
    BY <2>1 DEF Params, Defaults
<1>2. CASE set \in {"timeZone"} \X Zones
  <2>1. set[1] \in {"timeZone"} /\ set[2] \in Zones /\ set = <<set[1], set[2]>>
    BY <1>2, PairParts, Zenon
  <2> QED
    BY <2>1 DEF Params, Defaults
<1>3. CASE set \in {"isHd"} \X (-1..1)
  <2>1. set[1] \in {"isHd"} /\ set[2] \in (-1..1) /\ set = <<set[1], set[2]>>
    BY <1>3, PairParts
  <2> QED
    BY <2>1 DEF Params, Defaults
<1>4. CASE set \in {"imageQuality"} \X (0..2)
  <2>1. set[1] \in {"imageQuality"} /\ set[2] \in (0..2) /\ set = <<set[1], set[2]>>
    BY <1>4, PairParts
  <2> QED
    BY <2>1 DEF Params, Defaults
<1>5. CASE set \in {"requestId"} \X {"", "live"}
  <2>1. set[1] \in {"requestId"} /\ set[2] \in {"", "live"} /\ set = <<set[1], set[2]>>
    BY <1>5, PairParts, ZenonT(60)
  <2> QED
    BY <2>1 DEF Params, Defaults
<1>6. CASE set \in {"HiOssStatus", "isCheckHioss"} \X BOOLEAN
  <2>1. set[1] \in {"HiOssStatus", "isCheckHioss"} /\ set[2] \in BOOLEAN /\ set = <<set[1], set[2]>>
    BY <1>6, PairParts, Zenon
  <2>2. CASE set[1] = "HiOssStatus"
    <3>1. [m EXCEPT !["HiOssStatus"] = set[2]] \in Params
      BY <2>1, FirstParams
    <3>2. "HiOssStatus" \in DOMAIN Defaults
      BY DEF Defaults
    <3> QED
      BY <2>1, <2>2, <3>1, <3>2, Zenon
  <2>3. CASE set[1] = "isCheckHioss"
    BY <2>1, <2>3, Zenon
  <2> QED
    BY <2>1, <2>2, <2>3, Zenon
<1> QED
  BY <1>1, <1>2, <1>3, <1>4, <1>5, <1>6 DEF Setters

\* The initial states satisfy the invariant.
LEMMA InitInv == Init => Inv
<1> SUFFICES ASSUME Init PROVE Inv
  OBVIOUS
<1>1. /\ plan = Reject /\ Reject.todo = <<>> /\ Len(Reject.todo) = 0
      /\ Reject.ok \in BOOLEAN /\ Reject.call \in BOOLEAN /\ Reject.todo \in Seq(Setters)
  BY RejectPlans, EmptySeq DEF Init, Reject, PlanOK
<1>2. TypeOK
  <2>1. acked \in [Acked -> Zones \cup {None}] /\ pc \in [Threads -> Steps]
    BY DEF Init, NoAck, Steps
  <2>2. nset \in 0..Len(plan.todo)
    BY <1>1 DEF Init
  <2> QED
    BY <1>1, <2>1, <2>2, FirstParams DEF Init, TypeOK
<1>3. FlowInv /\ MemInv /\ SavedInv /\ ZoneInv /\ AckedIsDurable
  BY DEF Init, FlowInv, MemInv, SavedInv, ZoneInv, AckedIsDurable, Threads, Storing, Agreed, NoAck
<1> QED
  BY <1>2, <1>3 DEF Inv

\* Nothing of a control is kept, and nothing is as good as a typed plan.
LEMMA ForgetKeeps ==
  ASSUME Forget
  PROVE  /\ req' \in Requests[session]' \cup {NoRequest} /\ plan'.ok \in BOOLEAN
         /\ plan'.call \in BOOLEAN /\ plan'.todo \in Seq(Setters) /\ nset' \in 0..Len(plan'.todo)
         /\ nset' = 0 /\ saved' = FALSE /\ session' = session
<1>1. /\ plan' = Reject /\ Len(Reject.todo) = 0
      /\ Reject.ok \in BOOLEAN /\ Reject.call \in BOOLEAN /\ Reject.todo \in Seq(Setters)
  BY RejectPlans, EmptySeq DEF Forget, Reject, PlanOK
<1> QED
  BY <1>1 DEF Forget

\* Steps of the agent's thread that only move on to, or away from, a control.
LEMMA ControlKeeps ==
  ASSUME Inv,
         \/ \E r \in Requests[session] : ControlCallback(r)
         \/ ControlRefused \/ ControlAccepted \/ AnswerError \/ Return
  PROVE  Inv'
<1>1. /\ UNCHANGED <<session, mem, file, readable, lock, svcZone, parted, unsaved, acked>>
      /\ pc["ctl"] \notin Storing \cup {"off"} /\ saved = FALSE /\ nset = 0
  BY DEF Inv, TypeOK, FlowInv, SavedInv, ControlCallback, ControlRefused, ControlAccepted, AnswerError,
     Return, Forget, ctlVars, Storing, Agreed
<1>2. PICK l \in {"idle", "gate", "handler", "done"} : pc' = [pc EXCEPT !["ctl"] = l]
  BY DEF ControlCallback, ControlRefused, ControlAccepted, AnswerError, Return, Goto
<1>3. /\ pc' \in [Threads -> Steps] /\ pc'["ctl"] = l /\ pc'["app"] = pc["app"]
      /\ pc'["ctl"] \notin Storing \cup {"off"} /\ pc'["ctl"] # "set"
  BY <1>2 DEF Inv, TypeOK, Threads, Steps, Storing
<1>4. /\ req' \in Requests[session]' \cup {NoRequest} /\ plan'.ok \in BOOLEAN
      /\ plan'.call \in BOOLEAN /\ plan'.todo \in Seq(Setters) /\ nset' \in 0..Len(plan'.todo)
      /\ nset' = 0 /\ saved' = FALSE
  <2>1. CASE Forget
    BY <2>1, ForgetKeeps
  <2>2. CASE ~Forget
    BY <1>1, <2>2 DEF Inv, TypeOK, ControlCallback, ControlRefused, ControlAccepted, AnswerError, Return, ctlVars
  <2> QED
    BY <2>1, <2>2
<1>5. /\ l \in {"gate", "handler"} => req' \in Requests[session]
      /\ l = "handler" => req'.type \in HandledTypes
  <2>1. CASE \E r \in Requests[session] : ControlCallback(r)
    BY <1>2, <1>3, <2>1 DEF ControlCallback, Goto, Inv, TypeOK, Threads
  <2>2. CASE ControlAccepted
    BY <1>2, <1>3, <2>2 DEF ControlAccepted, HasHandler, ctlVars, Inv, FlowInv
  <2>3. CASE ControlRefused \/ AnswerError \/ Return
    BY <1>2, <1>3, <2>3 DEF ControlRefused, AnswerError, Return, Goto, Inv, TypeOK, Threads
  <2> QED
    BY <2>1, <2>2, <2>3
<1>6. TypeOK'
  BY <1>1, <1>3, <1>4 DEF Inv, TypeOK
<1>7. FlowInv'
  BY <1>1, <1>3, <1>4, <1>5 DEF Inv, FlowInv, Storing
<1>8. MemInv' /\ SavedInv'
  BY <1>1, <1>3, <1>4 DEF Inv, MemInv, SavedInv
<1>9. ZoneInv'
  BY <1>1, <1>3 DEF Inv, ZoneInv, Zoned, ZonePending, Agreed, Storing
<1>10. AckedIsDurable'
  BY <1>1, <1>3 DEF Inv, AckedIsDurable
<1> QED
  BY <1>6, <1>7, <1>8, <1>9, <1>10 DEF Inv

\* The program starts from its file, or from the defaults when that was cut off.
LEMMA StartKeeps == ASSUME Inv, Start PROVE Inv'
<1> DEFINE from == IF readable THEN file ELSE Defaults
<1>1. /\ from \in Params /\ mem' = [from EXCEPT !.HiOssStatus = FALSE] /\ file' = from
      /\ readable' = TRUE /\ UNCHANGED <<session, lock, req, plan, nset, saved>>
      /\ pc["app"] = "off" /\ pc["ctl"] = "off" /\ nset = 0 /\ saved = FALSE
  BY FirstParams DEF Inv, TypeOK, FlowInv, SavedInv, Start, Agreed, Storing
<1>2. mem' \in Params /\ (\A k \in Acked : mem'[k] = file'[k]) /\ mem'.timeZone = mem'["timeZone"]
  BY <1>1, FirstParams, ZenonT(60)
<1>3. /\ pc' \in [Threads -> Steps] /\ pc'["app"] = "idle" /\ pc'["ctl"] = "idle"
  BY DEF Start, Threads, Steps
<1>4. /\ acked' \in [Acked -> Zones \cup {None}]
      /\ (readable => acked' = acked) /\ (~readable => \A k \in Acked : acked'[k] = None)
      /\ svcZone' = svcZone /\ unsaved' = unsaved /\ parted' = (parted \/ ~readable)
  BY DEF Inv, TypeOK, Start, NoAck
<1>5. TypeOK'
  BY <1>1, <1>2, <1>3, <1>4 DEF Inv, TypeOK
<1>6. FlowInv' /\ SavedInv'
  BY <1>1, <1>3 DEF FlowInv, SavedInv, Storing, Agreed
<1>7. \A k \in Acked : acked'[k] = None \/ file'[k] = acked'[k]
  BY <1>1, <1>4 DEF Inv, AckedIsDurable, Storing
<1>8. MemInv' /\ AckedIsDurable'
  BY <1>2, <1>7 DEF MemInv, AckedIsDurable
<1>9. ZoneInv'
  <2>1. ~unsaved'
    BY <1>1, <1>4 DEF Inv, ZoneInv
  <2>2. ASSUME svcZone' # "unknown", ~parted'
        PROVE  Zoned(file.timeZone) /\ mem'.timeZone = file.timeZone /\ file' = file
    BY <1>1, <1>2, <1>4, <2>1, <2>2 DEF Inv, ZoneInv, Acked
  <2> QED
    BY <1>3, <1>4, <2>1, <2>2 DEF ZoneInv, Zoned, ZonePending, Agreed, Storing
<1> QED
  BY <1>5, <1>6, <1>8, <1>9 DEF Inv

\* The program dies: what the control under way sets is open from then on.
LEMMA CrashKeeps == ASSUME Inv, Crash PROVE Inv'
<1>1. /\ mem' = Defaults /\ lock' = "free" /\ pc' \in [Threads -> Steps] /\ Forget
      /\ pc'["app"] = "off" /\ pc'["ctl"] = "off" /\ UNCHANGED <<file, readable>>
  BY DEF Crash, Threads, Steps
<1>2. \A k \in Acked : /\ acked'[k] \in {None, acked[k]}
                       /\ pc["ctl"] \in Storing /\ Sets(plan, k) => acked'[k] = None
  BY DEF Crash
<1>3. /\ acked' \in [Acked -> Zones \cup {None}]
      /\ svcZone' = svcZone /\ parted' = (parted \/ unsaved) /\ unsaved' = FALSE
  <2>1. acked' \in [Acked -> Zones \cup {None}]
    BY DEF Crash, Inv, TypeOK
  <2> QED
    BY <2>1 DEF Crash
<1>4. TypeOK'
  BY <1>1, <1>3, ForgetKeeps, FirstParams DEF Inv, TypeOK
<1>5. FlowInv' /\ SavedInv' /\ MemInv'
  BY <1>1, ForgetKeeps DEF FlowInv, SavedInv, MemInv, Storing, Agreed
<1>6. AckedIsDurable'
  <2> SUFFICES ASSUME readable, NEW k \in Acked, acked'[k] # None PROVE file[k] = acked'[k]
    BY <1>1 DEF AckedIsDurable
  <2>1. acked[k] # None /\ acked'[k] = acked[k] /\ ~(pc["ctl"] \in Storing /\ Sets(plan, k))
    BY <1>2
  <2>2. ASSUME NEW i \in 1..nset, plan.todo[i] = <<k, file[k]>> PROVE Sets(plan, k)
    <3>1. plan.todo \in Seq(Setters) /\ nset \in 0..Len(plan.todo)
      BY DEF Inv, TypeOK
    <3>2. i \in DOMAIN plan.todo /\ plan.todo[i][1] = k
      BY <2>2, <3>1, LenProperties
    <3> QED
      BY <3>2 DEF Sets
  <2> QED
    BY <2>1, <2>2 DEF Inv, AckedIsDurable
<1>7. ZoneInv'
  BY <1>1, <1>3 DEF Inv, ZoneInv, Zoned, ZonePending, Agreed, Storing
<1> QED
  BY <1>4, <1>5, <1>6, <1>7 DEF Inv

\* A check of HiOSS sets no parameter a control sets, but the status.
LEMMA AppKeeps == ASSUME Inv, NEW status \in BOOLEAN, AppChecks(status) PROVE Inv'
<1>1. /\ mem' \in Params /\ \A k \in Acked : mem'[k] = mem[k]
  BY FirstParams DEF AppChecks, Inv, TypeOK
<1>2. mem'.timeZone = mem.timeZone
  BY <1>1 DEF Acked
<1>3. /\ UNCHANGED <<file, readable, lock, ctlVars>>
      /\ pc' \in [Threads -> Steps] /\ pc'["ctl"] = pc["ctl"] /\ pc'["app"] = "save"
      /\ pc["app"] = "idle"
  BY DEF AppChecks, Goto, Inv, TypeOK, Threads, Steps
<1>4. TypeOK' /\ FlowInv'
  BY <1>1, <1>3 DEF Inv, TypeOK, FlowInv, PlanOK, Sets, ctlVars
<1>5. MemInv' /\ SavedInv' /\ AckedIsDurable'
  BY <1>1, <1>3 DEF Inv, MemInv, SavedInv, AckedIsDurable, ctlVars
<1>6. ZoneInv'
  BY <1>2, <1>3 DEF Inv, ZoneInv, Zoned, ZonePlanned, ZonePending, Sets, ctlVars
<1> QED
  BY <1>4, <1>5, <1>6 DEF Inv

\* A save writes the memory, which the acknowledged values have not left.
LEMMA SaveKeeps == ASSUME Inv, NEW t \in Threads, SaveStep(t) PROVE Inv'
<1>1. PICK l \in {"write", "answer", "idle"} :
        /\ pc' = [pc EXCEPT ![t] = l]
        /\ l = "write" => ~readable' /\ file' = file /\ pc[t] = "save" /\ saved' = saved
        /\ l # "write" => l = IF t = "ctl" THEN "answer" ELSE "idle"
  BY DEF SaveStep, SaveOpens, SaveWrites, SaveFails, Goto, ctlVars
<1>2. /\ UNCHANGED <<session, mem, req, plan, nset, svcZone, parted, acked>>
      /\ pc[t] \in {"save", "write"} /\ readable' \in BOOLEAN /\ lock' \in Threads \cup {"free"}
      /\ saved' \in BOOLEAN
      /\ \/ /\ file' = mem /\ readable' /\ saved' = (IF t = "ctl" THEN TRUE ELSE saved)
            /\ unsaved' = (unsaved /\ ZonePending)
         \/ file' = file /\ readable' = readable /\ saved' = saved /\ unsaved' = unsaved
         \/ file' = file /\ ~readable' /\ saved' = saved /\ unsaved' = unsaved
  BY DEF SaveStep, SaveOpens, SaveWrites, SaveFails, ctlVars, Inv, TypeOK
<1>3. /\ pc' \in [Threads -> Steps] /\ pc'[t] = l
      /\ \A u \in Threads : u # t => pc'[u] = pc[u]
  BY <1>1 DEF Inv, TypeOK, Steps
<1>4. /\ pc["app"] # "off" /\ pc'["app"] \in {"idle", "save", "write"} /\ pc'["ctl"] # "off"
      /\ (pc["ctl"] \in Storing <=> pc'["ctl"] \in Storing)
      /\ (pc["ctl"] \in Agreed <=> pc'["ctl"] \in Agreed)
      /\ (t = "ctl" => pc["ctl"] \in Agreed /\ pc["ctl"] \notin {"set", "answer", "call"}
                      /\ pc'["ctl"] \notin {"set", "gate", "handler", "call"})
      /\ (t # "ctl" => pc'["ctl"] = pc["ctl"])
  BY <1>1, <1>2, <1>3 DEF Inv, FlowInv, Threads, Storing, Agreed
<1>5. TypeOK'
  BY <1>2, <1>3 DEF Inv, TypeOK
<1>6. FlowInv'
  BY <1>2, <1>4 DEF Inv, FlowInv, PlanOK, Sets, Storing
<1>7. MemInv'
  BY <1>2, <1>4 DEF Inv, MemInv
<1>8. SavedInv'
  BY <1>1, <1>2, <1>3, <1>4 DEF Inv, SavedInv
<1>9. AckedIsDurable'
  BY <1>2, <1>4 DEF Inv, MemInv, AckedIsDurable
<1>10. ZoneInv'
  <2>1. ZonePending' <=> ZonePending
    BY <1>1, <1>2, <1>3, <1>4 DEF ZonePending, Sets
  <2>2. ZonePlanned => Sets(plan, "timeZone")
    BY DEF ZonePlanned, Sets
  <2>3. pc'["app"] # "off" /\ (pc'["ctl"] = "set" <=> pc["ctl"] = "set")
    BY <1>1, <1>3, <1>4
  <2> SUFFICES ASSUME svcZone # "unknown", ~parted PROVE ZoneInv'
    BY <1>2, <2>3 DEF ZoneInv
  <2>4. /\ Zoned(mem.timeZone) \/ ZonePending
        /\ pc["ctl"] \in Agreed /\ Sets(plan, "timeZone") => ZonePlanned
        /\ ZonePending => unsaved
        /\ ~unsaved /\ readable => Zoned(file.timeZone)
    BY <1>4, <2>2 DEF Inv, ZoneInv, ZonePending
  <2>5. Zoned(mem.timeZone) \/ (pc["ctl"] = "set" /\ nset = 0 /\ ZonePlanned)
    BY <1>4 DEF Inv, ZoneInv
  <2>6. /\ ZonePending' => unsaved'
        /\ ~unsaved' /\ readable' => Zoned(file.timeZone)'
    BY <1>2, <2>1, <2>4 DEF Zoned
  <2>7. /\ ZonePlanned' <=> ZonePlanned
        /\ Zoned(mem.timeZone)' <=> Zoned(mem.timeZone)
        /\ Sets(plan, "timeZone")' <=> Sets(plan, "timeZone")
    BY <1>2 DEF ZonePlanned, Zoned, Sets
  <2> QED
    BY <1>2, <1>4, <2>3, <2>4, <2>5, <2>6, <2>7 DEF ZoneInv
<1> QED
  BY <1>5, <1>6, <1>7, <1>8, <1>9, <1>10 DEF Inv

\* The handler's plan, or the rejection of a request for another camera.
LEMMA HandleKeeps == ASSUME Inv, HandleWithCommonFlow PROVE Inv'
<1> DEFINE p == IF req.cam THEN Handler(req) ELSE Reject
<1>1. /\ PlanOK(req, p) /\ plan' = p /\ pc["ctl"] = "handler" /\ req \in Requests[session]
      /\ req.type \in HandledTypes /\ nset = 0
      /\ UNCHANGED <<session, mem, file, readable, lock, req, nset, svcZone, parted, unsaved, acked, saved>>
  BY HandlerPlans, RejectPlans DEF HandleWithCommonFlow, Inv, FlowInv, Storing, Agreed
<1>2. pc' = [pc EXCEPT !["ctl"] = IF ~p.ok THEN "failed" ELSE IF p.call THEN "call" ELSE Stores(p)]
  BY DEF HandleWithCommonFlow, Goto
<1> HIDE DEF p
<1>3. PICK l \in {"failed", "call", "answer", "set"} :
        /\ pc' = [pc EXCEPT !["ctl"] = l]
        /\ l # "failed" => p.ok
        /\ l = "call" <=> p.ok /\ p.call
        /\ l = "set" => p.todo # <<>>
  BY <1>1, <1>2 DEF Stores, PlanOK
<1>4. /\ pc' \in [Threads -> Steps] /\ pc'["ctl"] = l /\ pc'["app"] = pc["app"]
  BY <1>3 DEF Inv, TypeOK, Threads, Steps
<1>5. /\ p.todo \in Seq(Setters) /\ Len(p.todo) \in Nat /\ (p.todo # <<>> => 0 < Len(p.todo))
  BY <1>1, EmptySeq, LenProperties DEF PlanOK
<1>6. TypeOK'
  <2>1. p.ok \in BOOLEAN /\ p.call \in BOOLEAN /\ nset \in 0..Len(p.todo)
    BY <1>1, <1>5 DEF PlanOK
  <2> QED
    BY <1>1, <1>4, <1>5, <2>1 DEF Inv, TypeOK
<1>7. FlowInv'
  <2>1. PlanOK(req, plan)'
    BY <1>1 DEF PlanOK, Sets
  <2> QED
    BY <1>1, <1>3, <1>4, <1>5, <2>1 DEF Inv, FlowInv, Storing
<1>8. MemInv' /\ SavedInv' /\ AckedIsDurable'
  BY <1>1, <1>4 DEF Inv, MemInv, SavedInv, AckedIsDurable, Storing
<1>9. ZoneInv'
  <2>1. l \in Agreed => ~Sets(p, "timeZone")
    BY <1>1, <1>3 DEF PlanOK, Agreed, Storing
  <2> QED
    BY <1>1, <1>4, <2>1 DEF Inv, ZoneInv, Zoned, ZonePending, Agreed, Storing
<1> QED
  BY <1>6, <1>7, <1>8, <1>9 DEF Inv

\* The service's answer: whoever changes its zone then stores that zone, or leaves
\* it open.
LEMMA ServiceKeeps == ASSUME Inv, NEW o \in Outcomes, ServiceAnswers(o) PROVE Inv'
<1>1. /\ PlanOK(req, plan) /\ plan.ok /\ plan.call /\ pc["ctl"] = "call" /\ req \in Requests[session]
      /\ req.type \in HandledTypes /\ nset = 0 /\ svcZone' \in ZonesAfter(o)
      /\ parted' = (ZoneParts(o) \/ (parted /\ ~ZoneTaken(o))) /\ unsaved' = (unsaved \/ ZoneTaken(o))
      /\ UNCHANGED <<session, mem, file, readable, lock, req, plan, nset, acked, saved>>
  BY DEF ServiceAnswers, Inv, FlowInv, Storing, Agreed
<1>2. PICK l \in {"failed", "answer", "set"} :
        /\ pc' = [pc EXCEPT !["ctl"] = l]
        /\ l # "failed" => Satisfied(o)
        /\ (l = "set") <=> Satisfied(o) /\ plan.todo # <<>>
  BY DEF ServiceAnswers, Goto, Stores
<1>3. /\ pc' \in [Threads -> Steps] /\ pc'["ctl"] = l /\ pc'["app"] = pc["app"] /\ pc["app"] # "off"
  BY <1>1, <1>2 DEF Inv, TypeOK, FlowInv, Threads, Steps
<1>4. /\ Len(plan.todo) \in Nat /\ (plan.todo # <<>> => 0 < Len(plan.todo))
  BY EmptySeq, LenProperties DEF Inv, TypeOK
<1>5. \/ parted' = TRUE /\ svcZone' \in {svcZone} \cup ZoneStrings
      \/ /\ svcZone' = svcZone /\ parted' = parted /\ unsaved' = unsaved
         /\ l = "failed" \/ ~Sets(plan, "timeZone")
      \/ /\ l = "set" /\ unsaved' = TRUE
         /\ \E id \in DOMAIN TimezoneMap :
              plan.todo = << <<"timeZone", id>> >> /\ svcZone' = TimezoneMap[id]
  <2>1. CASE req.type \in ZoneControls
    <3>1. PICK id \in DOMAIN TimezoneMap :
            plan.wire = <<TimezoneMap[id]>> /\ plan.todo = << <<"timeZone", id>> >>
      BY <1>1, <2>1 DEF PlanOK
    <3>2. plan.wire[1] = TimezoneMap[id] /\ plan.todo # <<>> /\ req.type # "DeleteCameraInfo"
      BY <2>1, <3>1 DEF ZoneControls
    <3>3. TimezoneMap[id] \in ZoneStrings
      BY ZoneIds
    <3>4. CASE o = "refused"
      BY <1>1, <1>2, <3>2, <3>4 DEF ZonesAfter, ZoneParts, ZoneTaken, Satisfied, Inv, TypeOK
    <3>5. CASE o = "lost"
      BY <1>1, <2>1, <3>2, <3>3, <3>5 DEF ZonesAfter, ZoneParts
    <3>6. CASE o \in {"done", "warned"}
      BY <1>1, <1>2, <2>1, <3>1, <3>2, <3>6 DEF ZonesAfter, ZoneTaken, Satisfied
    <3> QED
      BY <3>4, <3>5, <3>6 DEF Outcomes
  <2>2. CASE req.type \notin ZoneControls
    <3>1. ~ZoneTaken(o) /\ unsaved' = unsaved
      BY <1>1, <2>2 DEF ZoneTaken, Inv, TypeOK
    <3>2. CASE ZoneParts(o)
      <4>1. TimezoneMap[DefaultTimezoneId] \in ZoneStrings
        BY ZoneIds
      <4>2. svcZone' \in {svcZone, TimezoneMap[DefaultTimezoneId]} /\ parted' = TRUE
        BY <1>1, <2>2, <3>2 DEF ZonesAfter, ZoneParts
      <4> QED
        BY <4>1, <4>2
    <3>3. CASE ~ZoneParts(o)
      BY <1>1, <1>2, <2>2, <3>1, <3>3
         DEF ZonesAfter, ZoneParts, PlanOK, Satisfied, Inv, TypeOK
    <3> QED
      BY <3>2, <3>3
  <2> QED
    BY <2>1, <2>2
<1>6. TypeOK'
  <2>1. svcZone' \in ZoneStrings \cup {"unknown"}
    BY <1>5, ZoneIds, SMTT(60) DEF Inv, TypeOK
  <2>2. parted' \in BOOLEAN /\ unsaved' \in BOOLEAN
    BY <1>1 DEF ZoneParts, ZoneTaken
  <2> QED
    BY <1>1, <1>3, <2>1, <2>2 DEF Inv, TypeOK
<1>7. FlowInv'
  <2>1. PlanOK(req, plan)'
    BY <1>1 DEF PlanOK, Sets
  <2> QED
    BY <1>1, <1>2, <1>3, <1>4, <2>1 DEF Inv, FlowInv, Storing
<1>8. MemInv' /\ SavedInv' /\ AckedIsDurable'
  BY <1>1, <1>3 DEF Inv, MemInv, SavedInv, AckedIsDurable, Storing
<1>9. ZoneInv'
  <2>0. pc'["app"] # "off"
    BY <1>3
  <2>1. CASE parted' = TRUE
    BY <2>0, <2>1 DEF ZoneInv
  <2>2. CASE /\ svcZone' = svcZone /\ parted' = parted /\ unsaved' = unsaved
             /\ l = "failed" \/ ~Sets(plan, "timeZone")
    BY <1>1, <1>3, <2>2 DEF Inv, ZoneInv, Zoned, ZonePending, Sets, Agreed, Storing
  <2>3. ASSUME l = "set", unsaved' = TRUE, NEW id \in DOMAIN TimezoneMap,
               plan.todo = << <<"timeZone", id>> >>, svcZone' = TimezoneMap[id]
        PROVE  ZoneInv'
    <3>1. pc'["ctl"] = "set" /\ nset' = 0 /\ ZonePlanned'
      BY <1>1, <1>3, <2>3 DEF ZonePlanned
    <3> QED
      BY <2>0, <2>3, <3>1 DEF ZoneInv
  <2> QED
    BY <1>5, <2>1, <2>2, <2>3
<1> QED
  BY <1>6, <1>7, <1>8, <1>9 DEF Inv

\* One setter of the plan.
LEMMA SetKeeps == ASSUME Inv, SetParameter PROVE Inv'
<1> DEFINE set == plan.todo[nset + 1]
<1>1. /\ pc["ctl"] = "set" /\ nset' = nset + 1 /\ plan.todo \in Seq(Setters)
      /\ nset \in Nat /\ Len(plan.todo) \in Nat /\ nset < Len(plan.todo) /\ saved = FALSE
      /\ req \in Requests[session] /\ req.type \in HandledTypes /\ plan.ok /\ PlanOK(req, plan)
      /\ mem' = IF set[1] = "isCheckHioss" THEN mem ELSE [mem EXCEPT ![set[1]] = set[2]]
      /\ UNCHANGED <<session, file, readable, lock, req, plan, svcZone, parted, unsaved, acked, saved>>
  <2>1. nset \in 0..Len(plan.todo) /\ plan.todo \in Seq(Setters) /\ nset < Len(plan.todo)
    BY DEF Inv, TypeOK, FlowInv, SetParameter
  <2>2. nset \in Nat /\ Len(plan.todo) \in Nat
    BY <2>1, LenProperties
  <2>3. saved = FALSE
    BY DEF SetParameter, Inv, SavedInv, TypeOK
  <2> QED
    BY <2>1, <2>2, <2>3 DEF SetParameter, Inv, FlowInv, Storing
<1>2. PICK l \in {"set", "save", "stuck"} :
        pc' = [pc EXCEPT !["ctl"] = l] /\ (l = "set" => nset + 1 # Len(plan.todo))
  BY <1>1 DEF SetParameter, Goto
<1>3. set \in Setters
  BY <1>1, ElementOfSeq
<1> HIDE DEF set
<1>4. /\ mem \in Params /\ mem' \in Params /\ set = <<set[1], set[2]>>
      /\ set[1] # "isCheckHioss" => mem'[set[1]] = set[2]
      /\ \A k \in Acked \ {set[1]} : mem'[k] = mem[k]
  <2>1. mem \in Params
    BY DEF Inv, TypeOK
  <2>2. CASE set[1] = "isCheckHioss"
    BY <1>1, <1>3, <2>1, <2>2, SetterTyped, Zenon DEF set
  <2>3. CASE set[1] # "isCheckHioss"
    <3>1. mem' = [mem EXCEPT ![set[1]] = set[2]]
      BY <1>1, <2>3 DEF set
    <3>2. set[1] \in DOMAIN Defaults /\ [mem EXCEPT ![set[1]] = set[2]] \in Params /\ set = <<set[1], set[2]>>
      BY <1>3, <2>1, <2>3, SetterTyped, Zenon
    <3>3. /\ [mem EXCEPT ![set[1]] = set[2]][set[1]] = set[2]
          /\ \A k \in Acked \ {set[1]} : [mem EXCEPT ![set[1]] = set[2]][k] = mem[k]
      BY <2>1, <3>2, SetOne
    <3> QED
      BY <2>1, <3>1, <3>2, <3>3
  <2> QED
    BY <2>2, <2>3
<1>5. /\ pc' \in [Threads -> Steps] /\ pc'["ctl"] = l /\ pc'["app"] = pc["app"] /\ pc["app"] # "off"
      /\ l \in Agreed
  BY <1>1, <1>2 DEF Inv, TypeOK, FlowInv, Threads, Steps, Agreed, Storing
<1>6. nset' \in 0..Len(plan.todo)
  BY <1>1
<1>7. TypeOK'
  BY <1>1, <1>4, <1>5, <1>6 DEF Inv, TypeOK
<1>8. FlowInv'
  <2>1. PlanOK(req, plan)'
    BY <1>1 DEF PlanOK, Sets
  <2>2. l = "set" => nset' < Len(plan.todo)
    BY <1>1, <1>2
  <2> QED
    BY <1>1, <1>5, <2>1, <2>2 DEF Inv, FlowInv, Agreed
<1>9. MemInv'
  <2> SUFFICES ASSUME NEW k \in Acked, acked[k] # None, mem'[k] # acked[k]
               PROVE  \E i \in 1..nset + 1 : plan.todo[i] = <<k, mem'[k]>>
    BY <1>1, <1>5 DEF MemInv, Agreed
  <2>1. CASE k = set[1]
    <3>1. plan.todo[nset + 1] = <<k, mem'[k]>>
      BY <1>4, <2>1 DEF set, Acked
    <3> QED
      BY <1>1, <3>1
  <2>2. CASE k # set[1]
    <3>1. PICK i \in 1..nset : plan.todo[i] = <<k, mem[k]>>
      BY <1>4, <1>5, <2>2 DEF Inv, MemInv
    <3> QED
      BY <1>1, <1>4, <2>2, <3>1
  <2> QED
    BY <2>1, <2>2
<1>10. SavedInv'
  BY <1>1 DEF SavedInv
<1>11. AckedIsDurable'
  <2> SUFFICES ASSUME readable, NEW k \in Acked, acked[k] # None, file[k] # acked[k]
               PROVE  \E i \in 1..nset + 1 : plan.todo[i] = <<k, file[k]>>
    BY <1>1, <1>5 DEF AckedIsDurable, Agreed
  <2>1. PICK i \in 1..nset : plan.todo[i] = <<k, file[k]>>
    BY DEF Inv, AckedIsDurable
  <2> QED
    BY <1>1, <2>1
<1>12. ZoneInv'
  <2> SUFFICES ASSUME svcZone # "unknown", ~parted PROVE ZoneInv'
    BY <1>1, <1>5 DEF ZoneInv
  <2>1. (Sets(plan, "timeZone") => ZonePlanned) /\ (Sets(plan', "timeZone") <=> Sets(plan, "timeZone"))
    BY <1>1 DEF Inv, ZoneInv, Agreed, Storing
  <2>2. Zoned(mem.timeZone)'
    <3>1. CASE ZonePlanned
      <4>1. PICK id \in DOMAIN TimezoneMap :
              plan.todo = << <<"timeZone", id>> >> /\ svcZone = TimezoneMap[id]
        BY <3>1 DEF ZonePlanned
      <4>2. Len(plan.todo) = 1 /\ nset = 0 /\ set = <<"timeZone", id>>
        BY <1>1, <4>1 DEF set
      <4>3. mem'["timeZone"] = id
        BY <1>4, <4>2
      <4> QED
        BY <1>1, <4>1, <4>3 DEF Zoned
    <3>2. CASE ~ZonePlanned
      <4>1. Zoned(mem.timeZone)
        BY <1>5, <3>2 DEF Inv, ZoneInv
      <4>2. set[1] # "timeZone"
        <5>1. nset + 1 \in DOMAIN plan.todo
          BY <1>1
        <5> QED
          BY <2>1, <3>2, <5>1 DEF Sets, set
      <4>3. mem'["timeZone"] = mem["timeZone"]
        BY <1>4, <4>2 DEF Acked
      <4> QED
        BY <1>1, <4>1, <4>3 DEF Zoned
    <3> QED
      BY <3>1, <3>2
  <2>3. ZonePlanned' <=> ZonePlanned
    BY <1>1 DEF ZonePlanned
  <2>4. ZonePending' => unsaved'
    BY <1>1, <2>1 DEF Inv, ZoneInv, ZonePending
  <2>5. ~unsaved' /\ readable' => Zoned(file.timeZone)'
    BY <1>1 DEF Inv, ZoneInv, Zoned
  <2> QED
    BY <1>1, <1>5, <2>1, <2>2, <2>3, <2>4, <2>5 DEF ZoneInv
<1> QED
  BY <1>7, <1>8, <1>9, <1>10, <1>11, <1>12 DEF Inv

\* The answer: what was set and saved is acknowledged, and what was not saved is
\* open.
LEMMA AnswerKeeps == ASSUME Inv, Answer PROVE Inv'
<1>1. /\ pc["ctl"] = "answer" /\ Forget /\ UNCHANGED <<mem, file, readable, lock, svcZone, parted, unsaved>>
      /\ pc' = [pc EXCEPT !["ctl"] = "done"] /\ pc["app"] # "off"
  BY DEF Answer, Goto, Inv, FlowInv
<1>2. \A k \in Acked : /\ ~Sets(plan, k) => acked'[k] = acked[k]
                       /\ Sets(plan, k) => acked'[k] = None \/ (saved /\ acked'[k] = mem[k])
  BY DEF Answer
<1>3. /\ pc' \in [Threads -> Steps] /\ pc'["ctl"] = "done" /\ pc'["app"] = pc["app"]
  BY <1>1 DEF Inv, TypeOK, Threads, Steps
<1>4. mem["timeZone"] \in Zones /\ mem["isHd"] \in Zones
  <2>1. -1..1 \subseteq Zones
    BY ZoneIds DEF Zones, NoTimezone
  <2>2. mem.timeZone \in Zones /\ mem.isHd \in -1..1
    BY DEF Inv, TypeOK, Params
  <2> QED
    BY <2>1, <2>2
<1>5. acked' \in [Acked -> Zones \cup {None}]
  <2>1. \A k \in Acked : mem[k] \in Zones
    BY <1>4 DEF Acked
  <2>2. acked \in [Acked -> Zones \cup {None}]
    BY DEF Inv, TypeOK
  <2> QED
    BY <2>1, <2>2 DEF Answer
<1>6. TypeOK'
  BY <1>1, <1>3, <1>5, ForgetKeeps DEF Inv, TypeOK
<1>7. FlowInv' /\ SavedInv'
  BY <1>1, <1>3, ForgetKeeps DEF Inv, FlowInv, SavedInv, Storing, Agreed
<1>8. ASSUME NEW k \in Acked, NEW v, NEW i \in 1..nset, plan.todo[i] = <<k, v>>
      PROVE  Sets(plan, k)
  <2>1. plan.todo \in Seq(Setters) /\ nset \in 0..Len(plan.todo)
    BY DEF Inv, TypeOK
  <2>2. i \in DOMAIN plan.todo /\ plan.todo[i][1] = k
    BY <1>8, <2>1, LenProperties
  <2> QED
    BY <2>2 DEF Sets
<1>9. MemInv'
  <2> SUFFICES ASSUME NEW k \in Acked, acked'[k] # None PROVE mem[k] = acked'[k]
    BY <1>1 DEF MemInv
  <2> QED
    BY <1>1, <1>2, <1>8 DEF Inv, MemInv
<1>10. AckedIsDurable'
  <2> SUFFICES ASSUME readable, NEW k \in Acked, acked'[k] # None PROVE file[k] = acked'[k]
    BY <1>1 DEF AckedIsDurable
  <2> QED
    BY <1>1, <1>2, <1>8 DEF Inv, SavedInv, AckedIsDurable
<1>11. ZoneInv'
  BY <1>1, <1>3 DEF Inv, ZoneInv, Zoned, ZonePending, Agreed, Storing
<1> QED
  BY <1>6, <1>7, <1>9, <1>10, <1>11 DEF Inv

-----------------------------------------------------------------------------
(* Theorems *)

\* Every step keeps the invariant.
LEMMA NextInv == Inv /\ [Next]_vars => Inv'
<1> SUFFICES ASSUME Inv, [Next]_vars PROVE Inv'
  OBVIOUS
<1>1. CASE Start
  BY <1>1, StartKeeps
<1>2. CASE Crash
  BY <1>2, CrashKeeps
<1>3. CASE \E status \in BOOLEAN : AppChecks(status)
  BY <1>3, AppKeeps
<1>4. CASE SaveStep("app") \/ SaveStep("ctl")
  BY <1>4, SaveKeeps DEF Threads
<1>5. CASE \/ \E r \in Requests[session] : ControlCallback(r)
           \/ ControlRefused \/ ControlAccepted \/ AnswerError \/ Return
  BY <1>5, ControlKeeps
<1>6. CASE HandleWithCommonFlow
  BY <1>6, HandleKeeps
<1>7. CASE \E o \in Outcomes : ServiceAnswers(o)
  BY <1>7, ServiceKeeps
<1>8. CASE SetParameter
  BY <1>8, SetKeeps
<1>9. CASE Answer
  BY <1>9, AnswerKeeps
<1>10. CASE UNCHANGED vars
  <2> USE <1>10 DEF vars
  <2>1. TypeOK' /\ MemInv' /\ SavedInv' /\ AckedIsDurable'
    BY DEF Inv, TypeOK, MemInv, SavedInv, AckedIsDurable
  <2>2. FlowInv'
    BY DEF Inv, FlowInv, PlanOK, Sets
  <2>3. ZoneInv'
    BY DEF Inv, ZoneInv, Zoned, ZonePlanned, ZonePending, Sets
  <2> QED
    BY <2>1, <2>2, <2>3 DEF Inv
<1> QED
  BY <1>1, <1>2, <1>3, <1>4, <1>5, <1>6, <1>7, <1>8, <1>9, <1>10 DEF Next, ControlStep

\* The invariant holds of every reachable state.
LEMMA Invariance == Spec => []Inv
BY InitInv, NextInv, PTL DEF Spec

\* Parameters, plans, threads and history stay in their types.
THEOREM TypeInvariance == Spec => []TypeOK
<1>1. Inv => TypeOK
  BY DEF Inv
<1> QED
  BY <1>1, Invariance, PTL

\* A setting that was answered with success after a save that went through stays
\* in the file until a later control replaces it or a crash cuts a save off.
THEOREM AckedIsDurableHolds == Spec => []AckedIsDurable
<1>1. Inv => AckedIsDurable
  BY DEF Inv
<1> QED
  BY <1>1, Invariance, PTL

\* The zone the camera reports is the one the service works with, but while a
\* control is storing it, and after a lost reply, an unbinding, a crash before its
\* save or a cut-off file, which part them until the next zone control succeeds.
THEOREM ZoneAgreesHolds == Spec => []ZoneAgrees
<1>1. ZonePlanned => Sets(plan, "timeZone")
  BY DEF ZonePlanned, Sets
<1>2. Inv => ZoneAgrees
  BY <1>1 DEF Inv, ZoneInv, Zoned, ZonePending, ZoneAgrees
<1> QED
  BY <1>2, Invariance, PTL

\* Whatever a request carries, only documented values reach the system service.
THEOREM OnlyDocumentedHolds == Spec => []OnlyDocumented
<1>1. Inv => OnlyDocumented
  BY DEF Inv, FlowInv, PlanOK, OnlyDocumented, Storing
<1> QED
  BY <1>1, Invariance, PTL

-----------------------------------------------------------------------------
(***************************************************************************)
(* What an answered control has stored, of every parameter and not only    *)
(* of those whose acknowledgement is followed.  The other thread writes    *)
(* the HiOSS status meanwhile, and the setter of isCheckHioss sets         *)
(* nothing, so these two parameters are left out.                          *)
(***************************************************************************)

Kept == DOMAIN Defaults \ {"HiOssStatus", "isCheckHioss"}

\* Setter i of the plan is the last of its parameter among the first n.
LastOf(i, n) == \A j \in i + 1..n : plan.todo[j][1] # plan.todo[i][1]

\* The setters that were called hold, nothing is left of a plan that is saved, and a
\* save holds all of the memory.
StoredInv ==
  /\ pc["ctl"] \in {"save", "write", "answer"} => nset = Len(plan.todo)
  /\ pc["ctl"] \in Storing => \A i \in 1..nset :
       plan.todo[i][1] \in Kept /\ LastOf(i, nset) => mem[plan.todo[i][1]] = plan.todo[i][2]
  /\ saved /\ readable => \A k \in Kept : file[k] = mem[k]
  /\ pc["ctl"] \in Storing /\ req.type = "DeleteCameraInfo" =>
       plan.todo = HandleDeleteCameraInfo(req).todo

\* Setting one parameter leaves all others.
LEMMA SetOther ==
  ASSUME NEW m \in Params, NEW key, NEW v
  PROVE  \A k \in Kept \ {key} : [m EXCEPT ![key] = v][k] = m[k]
<1>1. DOMAIN m = DOMAIN Defaults
  BY DEF Params, Defaults
<1> QED
  BY <1>1 DEF Kept

\* Between two controls nothing is claimed.
LEMMA IdleStored == ASSUME Inv, pc["ctl"] \notin Storing PROVE StoredInv
BY DEF Inv, SavedInv, StoredInv, Storing

\* A step that leaves the control and the parameters it sets where they are.
LEMMA SameStored ==
  ASSUME StoredInv, UNCHANGED <<plan, nset, req>>, pc'["ctl"] = pc["ctl"],
         \A k \in Kept : mem'[k] = mem[k],
         saved' /\ readable' => \A k \in Kept : file'[k] = mem'[k]
  PROVE  StoredInv'
BY DEF StoredInv, LastOf

\* A check of HiOSS, or a save by the other thread.
LEMMA AppStored ==
  ASSUME Inv, StoredInv, (\E status \in BOOLEAN : AppChecks(status)) \/ SaveStep("app")
  PROVE  StoredInv'
<1>1. CASE \E status \in BOOLEAN : AppChecks(status)
  <2>1. PICK status : mem' = [mem EXCEPT !["HiOssStatus"] = status]
    BY <1>1 DEF AppChecks
  <2>2. \A k \in Kept \ {"HiOssStatus"} : mem'[k] = mem[k]
    BY <2>1, SetOther DEF Inv, TypeOK
  <2>3. \A k \in Kept : mem'[k] = mem[k]
    BY <2>2 DEF Kept
  <2> QED
    BY <1>1, <2>3, SameStored DEF AppChecks, Goto, ctlVars, Inv, TypeOK, StoredInv
<1>2. CASE SaveStep("app")
  <2>1. UNCHANGED <<plan, nset, req, mem, saved>> /\ pc'["ctl"] = pc["ctl"]
    BY <1>2 DEF SaveStep, SaveOpens, SaveWrites, SaveFails, Goto, ctlVars, Inv, TypeOK,
                Threads
  <2>2. \/ file' = mem
        \/ ~readable'
        \/ file' = file /\ readable' = readable
    BY <1>2 DEF SaveStep, SaveOpens, SaveWrites, SaveFails
  <2>3. saved' /\ readable' => \A k \in Kept : file'[k] = mem'[k]
    BY <2>1, <2>2 DEF StoredInv
  <2> QED
    BY <2>1, <2>3, SameStored
<1> QED
  BY <1>1, <1>2

\* The handler's plan, of which nothing is set yet, and the service's answer.
LEMMA PlanStored ==
  ASSUME Inv, Inv', StoredInv, HandleWithCommonFlow \/ \E o \in Outcomes : ServiceAnswers(o)
  PROVE  StoredInv'
<1>1. nset' = 0 /\ saved' = FALSE
  BY DEF HandleWithCommonFlow, ServiceAnswers, Inv, TypeOK, FlowInv, SavedInv, Agreed, Storing
<1>2. pc'["ctl"] \in {"call", "answer", "set", "failed"}
      /\ (pc'["ctl"] = "answer" => plan'.todo = <<>>)
  BY DEF HandleWithCommonFlow, ServiceAnswers, Goto, Stores, Inv, TypeOK, Threads
<1>3. pc'["ctl"] \in {"save", "write", "answer"} => nset' = Len(plan'.todo)
  BY <1>1, <1>2, EmptySeq
<1>4. pc'["ctl"] \in Storing /\ req'.type = "DeleteCameraInfo" =>
        plan'.todo = HandleDeleteCameraInfo(req').todo
  <2>1. CASE HandleWithCommonFlow
    <3> SUFFICES ASSUME pc'["ctl"] \in Storing, req.type = "DeleteCameraInfo"
                 PROVE  plan' = HandleDeleteCameraInfo(req)
      BY <2>1 DEF HandleWithCommonFlow
    <3>1. plan'.ok
      BY DEF Inv, FlowInv
    <3>2. plan' = IF req.cam THEN Handler(req) ELSE Reject
      BY <2>1 DEF HandleWithCommonFlow
    <3>3. plan' = Handler(req)
      BY <3>1, <3>2, RejectPlans
    <3> QED
      BY <3>3 DEF Handler
  <2>2. CASE \E o \in Outcomes : ServiceAnswers(o)
    BY <2>2 DEF ServiceAnswers, StoredInv, Storing
  <2> QED
    BY <2>1, <2>2
<1> QED
  BY <1>1, <1>3, <1>4 DEF StoredInv

\* One more setter.
LEMMA SetStored == ASSUME Inv, Inv', StoredInv, SetParameter PROVE StoredInv'
<1> DEFINE set == plan.todo[nset + 1]
<1>1. /\ pc["ctl"] = "set" /\ nset' = nset + 1 /\ nset \in Nat /\ nset < Len(plan.todo)
      /\ Len(plan.todo) \in Nat /\ plan.todo \in Seq(Setters) /\ mem \in Params
      /\ mem' = IF set[1] = "isCheckHioss" THEN mem ELSE [mem EXCEPT ![set[1]] = set[2]]
      /\ UNCHANGED <<plan, req>>
  <2>1. nset \in 0..Len(plan.todo) /\ plan.todo \in Seq(Setters) /\ nset < Len(plan.todo)
    BY DEF Inv, TypeOK, FlowInv, SetParameter
  <2> QED
    BY <2>1, LenProperties DEF Inv, TypeOK, SetParameter
<1>2. pc'["ctl"] \in {"set", "save", "stuck"} /\ (pc'["ctl"] = "save" => nset' = Len(plan.todo))
  BY DEF SetParameter, Goto, Inv, TypeOK, Threads
<1>3. saved' = FALSE
  BY <1>2 DEF Inv, TypeOK, SavedInv
<1>4. set \in Setters
  BY <1>1, ElementOfSeq
<1>5. ASSUME NEW i \in 1..nset + 1, plan.todo[i][1] \in Kept, LastOf(i, nset + 1)
      PROVE  mem'[plan.todo[i][1]] = plan.todo[i][2]
  <2>1. CASE i = nset + 1
    <3>1. set[1] \in DOMAIN Defaults /\ set[1] # "isCheckHioss"
      BY <1>5, <2>1 DEF Kept, Defaults
    <3>2. mem'[set[1]] = set[2]
      <4>1. mem' = [mem EXCEPT ![set[1]] = set[2]] /\ mem \in Params
        BY <1>1, <3>1
      <4> HIDE DEF set
      <4> QED
        BY <3>1, <4>1, SetOne
    <3> QED
      BY <2>1, <3>2
  <2>2. CASE i # nset + 1
    <3>1. i \in 1..nset /\ plan.todo[i][1] # set[1] /\ LastOf(i, nset)
      <4>1. i \in 1..nset /\ nset + 1 \in i + 1..nset + 1 /\ i + 1..nset \subseteq i + 1..nset + 1
        BY <1>1, <2>2
      <4> QED
        BY <1>5, <4>1 DEF LastOf
    <3>2. mem[plan.todo[i][1]] = plan.todo[i][2]
      BY <1>1, <1>5, <3>1 DEF StoredInv, Storing
    <3>3. mem'[plan.todo[i][1]] = mem[plan.todo[i][1]]
      <4> HIDE DEF set
      <4> QED
        BY <1>1, <1>5, <3>1, SetOther
    <3> QED
      BY <3>2, <3>3
  <2> QED
    BY <2>1, <2>2
<1>6. \A i \in 1..nset' : plan'.todo[i][1] \in Kept /\ LastOf(i, nset)' =>
                            mem'[plan'.todo[i][1]] = plan'.todo[i][2]
  BY <1>1, <1>5 DEF LastOf
<1> QED
  BY <1>1, <1>2, <1>3, <1>6 DEF StoredInv, Storing

\* The control's own save.
LEMMA SaveStored == ASSUME Inv, StoredInv, SaveStep("ctl") PROVE StoredInv'
<1>1. UNCHANGED <<plan, nset, req, mem>> /\ pc["ctl"] \in {"save", "write"} /\ pc'["ctl"] \in {"write", "answer"}
  BY DEF SaveStep, SaveOpens, SaveWrites, SaveFails, Goto, ctlVars, Inv, TypeOK, Threads
<1>2. saved' /\ readable' => \A k \in Kept : file'[k] = mem'[k]
  BY DEF SaveStep, SaveOpens, SaveWrites, SaveFails, ctlVars, StoredInv
<1> QED
  BY <1>1, <1>2 DEF StoredInv, LastOf, Storing

LEMMA StoredInvariance == Spec => [](Inv /\ StoredInv)
<1>1. Inv /\ Inv' /\ StoredInv /\ [Next]_vars => StoredInv'
  <2> SUFFICES ASSUME Inv, Inv', StoredInv, [Next]_vars PROVE StoredInv'
    OBVIOUS
  <2>1. CASE pc'["ctl"] \notin Storing
    BY <2>1 DEF Inv, SavedInv, StoredInv, Storing
  <2>2. CASE pc'["ctl"] \in Storing
    <3>1. ~Start /\ ~Crash /\ ~Answer /\ ~AnswerError /\ ~Return /\ ~ControlRefused /\ ~ControlAccepted
          /\ ~\E r \in Requests[session] : ControlCallback(r)
      BY <2>2 DEF Start, Crash, Answer, AnswerError, Return, ControlRefused, ControlAccepted,
                  ControlCallback, Goto, Inv, TypeOK, Threads, Storing
    <3>2. CASE UNCHANGED vars
      BY <3>2 DEF vars, StoredInv, LastOf
    <3> QED
      BY <3>1, <3>2, AppStored, PlanStored, SetStored, SaveStored DEF Next, ControlStep
  <2> QED
    BY <2>1, <2>2
<1>2. Init => StoredInv
  BY InitInv, IdleStored DEF Init, Storing, Threads
<1> QED
  BY <1>1, <1>2, Invariance, PTL DEF Spec

\* When a control is about to be answered with success, memory has every parameter it
\* set as its last setter for it gave it, and so has the file after a save that went
\* through.
AnswerIsStored ==
  pc["ctl"] = "answer" => \A i \in DOMAIN plan.todo :
    plan.todo[i][1] \in Kept /\ LastOf(i, Len(plan.todo)) =>
      /\ mem[plan.todo[i][1]] = plan.todo[i][2]
      /\ saved /\ readable => file[plan.todo[i][1]] = plan.todo[i][2]

\* Whatever the other thread checks and saves in between, what a control stored is
\* there when it is answered.
THEOREM AnsweredIsStored == Spec => []AnswerIsStored
<1>1. ASSUME Inv, StoredInv PROVE AnswerIsStored
  <2> SUFFICES ASSUME pc["ctl"] = "answer", NEW i \in DOMAIN plan.todo,
                      plan.todo[i][1] \in Kept, LastOf(i, Len(plan.todo))
               PROVE  /\ mem[plan.todo[i][1]] = plan.todo[i][2]
                      /\ saved /\ readable => file[plan.todo[i][1]] = plan.todo[i][2]
    BY DEF AnswerIsStored
  <2>1. nset = Len(plan.todo) /\ i \in 1..nset
    BY <1>1, LenProperties DEF StoredInv, Inv, TypeOK
  <2> QED
    BY <1>1, <2>1 DEF StoredInv, Storing
<1> QED
  BY <1>1, StoredInvariance, PTL

\* What is left of a binding.
Cleared(m) ==
  m["tenantId"] = "" /\ m["userId"] = "" /\ m["netNo"] = "" /\ m["timeZone"] = DefaultTimezoneId

\* An unbinding that is about to be answered with success.
UnbindingIsStored ==
  pc["ctl"] = "answer" /\ req.type = "DeleteCameraInfo" =>
    Cleared(mem) /\ (saved /\ readable => Cleared(file))

\* An unbinding that is answered with success has emptied what the camera was bound
\* with, in memory and, if its save went through, in the file from which the program
\* starts again.
THEOREM UnbindingClears == Spec => []UnbindingIsStored
<1>1. ASSUME Inv, StoredInv PROVE UnbindingIsStored
  <2> SUFFICES ASSUME pc["ctl"] = "answer", req.type = "DeleteCameraInfo"
               PROVE  Cleared(mem) /\ (saved /\ readable => Cleared(file))
    BY DEF UnbindingIsStored
  <2>1. PICK e : e = ""
    OBVIOUS
  <2>2. plan.todo = << <<"tenantId", e>>, <<"userId", e>>, <<"netNo", e>>, <<"isCheckHioss", FALSE>>,
                       <<"HiOssStatus", FALSE>>, <<"timeZone", DefaultTimezoneId>> >>
    <3>1. plan.todo = HandleDeleteCameraInfo(req).todo
      BY <1>1 DEF StoredInv, Storing
    <3>2. HandleDeleteCameraInfo(req).todo =
            << <<"tenantId", "">>, <<"userId", "">>, <<"netNo", "">>, <<"isCheckHioss", FALSE>>,
               <<"HiOssStatus", FALSE>>, <<"timeZone", DefaultTimezoneId>> >>
      BY DEF HandleDeleteCameraInfo, RelayAndStore
    <3> QED
      BY <2>1, <3>1, <3>2, Zenon
  <2>3. /\ Len(plan.todo) = 6
        /\ plan.todo[1] = <<"tenantId", e>> /\ plan.todo[2] = <<"userId", e>>
        /\ plan.todo[3] = <<"netNo", e>> /\ plan.todo[4] = <<"isCheckHioss", FALSE>>
        /\ plan.todo[5] = <<"HiOssStatus", FALSE>> /\ plan.todo[6] = <<"timeZone", DefaultTimezoneId>>
    <3> DEFINE a == <<"tenantId", e>>     b == <<"userId", e>>          c == <<"netNo", e>>
               d == <<"isCheckHioss", FALSE>>  f == <<"HiOssStatus", FALSE>>
               g == <<"timeZone", DefaultTimezoneId>>
    <3>1. plan.todo = <<a, b, c, d, f, g>>
      BY <2>2
    <3> HIDE DEF a, b, c, d, f, g
    <3>2. /\ Len(plan.todo) = 6 /\ plan.todo[1] = a /\ plan.todo[2] = b /\ plan.todo[3] = c
          /\ plan.todo[4] = d /\ plan.todo[5] = f /\ plan.todo[6] = g
      BY <3>1
    <3> QED
      BY <3>2, Zenon DEF a, b, c, d, f, g
  <2>4. {"tenantId", "userId", "netNo", "timeZone"} \subseteq Kept
    BY DEF Kept, Defaults
  <2>5. nset = 6
    BY <1>1, <2>3 DEF StoredInv
  <2>6. \A i \in {1, 2, 3, 6} : i \in 1..nset /\ LastOf(i, nset) /\ plan.todo[i][1] \in Kept
    BY <2>3, <2>4, <2>5 DEF LastOf
  <2>7. \A i \in {1, 2, 3, 6} : mem[plan.todo[i][1]] = plan.todo[i][2]
    BY <1>1, <2>6 DEF StoredInv, Storing
  <2>8. /\ mem["tenantId"] = e /\ mem["userId"] = e
        /\ mem["netNo"] = e /\ mem["timeZone"] = DefaultTimezoneId
    BY <2>3, <2>7
  <2>9. Cleared(mem)
    BY <2>1, <2>8, Zenon DEF Cleared
  <2>10. ASSUME saved, readable PROVE Cleared(file)
    <3>1. \A k \in Kept : file[k] = mem[k]
      BY <1>1, <2>10 DEF StoredInv
    <3>2. /\ file["tenantId"] = mem["tenantId"] /\ file["userId"] = mem["userId"]
          /\ file["netNo"] = mem["netNo"] /\ file["timeZone"] = mem["timeZone"]
      BY <2>4, <3>1
    <3> QED
      BY <2>9, <3>2, Zenon DEF Cleared
  <2> QED
    BY <2>9, <2>10
<1> QED
  BY <1>1, StoredInvariance, PTL

-----------------------------------------------------------------------------
(***************************************************************************)
(* The decoder of names.  Utf8Next is compared with the table of Unicode,  *)
(* one length at a time; the loop over the bytes is a recursive function,  *)
(* and two functions that satisfy its recursion agree because there is no  *)
(* last byte at which they differ.                                         *)
(***************************************************************************)

\* Every non-empty set of naturals has a least element.
LEMMA LeastNatural ==
  ASSUME NEW T \in SUBSET Nat, T # {}
  PROVE  \E x \in T : \A y \in T : x <= y
<1>1. PICK R : R = {ss \in Nat \X Nat : ss[1] < ss[2]}
  OBVIOUS
<1>2. IsWellFoundedOn(R, Nat)
  BY <1>1, NatLessThanWellFounded DEF OpToRel
<1>3. PICK x \in T : \A y \in T : ~ (<<y, x>> \in R)
  BY <1>2, WFMin
<1>4. ASSUME NEW y \in T PROVE x <= y
  <2>1. x \in Nat /\ y \in Nat
    OBVIOUS
  <2>2. y < x => <<y, x>> \in R
    BY <2>1, <1>1
  <2> QED
    BY <2>1, <2>2, <1>3
<1> QED
  BY <1>4

\* b is one of lo..hi, where b is a number.
Between(b, lo, hi) == lo <= b /\ b <= hi

\* A byte is a number of at most 255.
LEMMA ByteValues == \A b \in Bytes : b \in Nat /\ b <= 255
BY DEF Bytes

\* Tail10 tests for 128..191, and Byte takes the low six bits.
LEMMA TailBytes ==
  ASSUME NEW c \in Nat, c <= 255
  PROVE  /\ c \div 64 = 2 <=> Between(c, 128, 191)
         /\ Between(c, 128, 191) => c % 64 = c - 128
BY DEF Between

\* The number of bytes a first byte announces, and the bits it adds.
LEMMA Lead1 == ASSUME NEW c \in Nat, Between(c, 0, 127) PROVE Utf8Need(c) = 1
BY DEF Utf8Need, Between

LEMMA Lead2 == ASSUME NEW c \in Nat, Between(c, 192, 223)
               PROVE Utf8Need(c) = 2 /\ c % 32 = c - 192
BY DEF Utf8Need, Between

LEMMA Lead3 == ASSUME NEW c \in Nat, Between(c, 224, 239)
               PROVE Utf8Need(c) = 3 /\ c % 16 = c - 224
BY DEF Utf8Need, Between

LEMMA Lead4 == ASSUME NEW c \in Nat, Between(c, 240, 247)
               PROVE Utf8Need(c) = 4 /\ c % 8 = c - 240
BY DEF Utf8Need, Between

LEMMA Lead0 == ASSUME NEW c \in Nat, Between(c, 128, 191) \/ Between(c, 248, 255)
               PROVE Utf8Need(c) = 0
BY DEF Utf8Need, Between

\* The bytes of a text are numbers.
LEMMA ByteAt ==
  ASSUME NEW s \in Seq(Bytes), NEW i \in 1..Len(s)
  PROVE  s[i] \in Nat /\ s[i] <= 255
BY ElementOfSeq, ByteValues

\* The bytes after the first, as Tail10 and Byte see them.
LEMMA TailAt ==
  ASSUME NEW s \in Seq(Bytes), NEW i \in 1..Len(s), NEW k \in 1..3, i + k <= Len(s)
  PROVE  /\ s[i + k] \in Nat
         /\ Tail10(s, i, k) <=> Between(s[i + k], 128, 191)
         /\ Between(s[i + k], 128, 191) => Byte(s, i, k) = s[i + k] - 128
<1>1. i + k \in 1..Len(s)
  OBVIOUS
<1>2. s[i + k] \in Nat /\ s[i + k] <= 255
  BY <1>1, ByteAt
<1> QED
  BY <1>2, TailBytes DEF Tail10, Byte

\* The further bytes, one by one.
LEMMA Tails ==
  ASSUME NEW s, NEW i
  PROVE  /\ \A k \in 1..0 : Tail10(s, i, k)
         /\ (\A k \in 1..1 : Tail10(s, i, k)) <=> Tail10(s, i, 1)
         /\ (\A k \in 1..2 : Tail10(s, i, k)) <=> Tail10(s, i, 1) /\ Tail10(s, i, 2)
         /\ (\A k \in 1..3 : Tail10(s, i, k)) <=>
              Tail10(s, i, 1) /\ Tail10(s, i, 2) /\ Tail10(s, i, 3)
<1>1. 1..0 = {} /\ 1..1 = {1} /\ 1..2 = {1, 2} /\ 1..3 = {1, 2, 3}
  OBVIOUS
<1> QED
  BY <1>1

\* The decoder at a byte of ASCII.
LEMMA Next1 ==
  ASSUME NEW s \in Seq(Bytes), NEW i \in 1..Len(s), s[i] < 128
  PROVE  Utf8Next(s, i) = 1
<1>1. s[i] \in Nat
  BY ByteAt
<1>2. Utf8Need(s[i]) = 1
  BY <1>1, Lead1 DEF Between
<1> QED
  BY <1>2, Tails DEF Utf8Next

\* The decoder at a byte that begins no sequence.
LEMMA Next0 ==
  ASSUME NEW s \in Seq(Bytes), NEW i \in 1..Len(s),
         Between(s[i], 128, 191) \/ Between(s[i], 248, 255)
  PROVE  Utf8Next(s, i) = 0
<1>1. s[i] \in Nat
  BY ByteAt
<1>2. Utf8Need(s[i]) = 0
  BY <1>1, Lead0
<1> QED
  BY <1>2 DEF Utf8Next

\* The well-formed sequences of two, three and four bytes.
Chars2(c, d) == Between(c, 194, 223) /\ Between(d, 128, 191)

Chars3(c, d, e) ==
  /\ Between(c, 224, 239) /\ Between(d, 128, 191) /\ Between(e, 128, 191)
  /\ c = 224 => d >= 160
  /\ c = 237 => d <= 159

Chars4(c, d, e, f) ==
  /\ Between(c, 240, 244) /\ Between(d, 128, 191) /\ Between(e, 128, 191)
  /\ Between(f, 128, 191)
  /\ c = 240 => d >= 144
  /\ c = 244 => d <= 143

\* The numbers of two, three and four bytes, in terms of the bytes.
Code2(c, d)       == (c - 192) * 64 + (d - 128)
Code3(c, d, e)    == (c - 224) * 4096 + (d - 128) * 64 + (e - 128)
Code4(c, d, e, f) == (c - 240) * 262144 + (d - 128) * 4096 + (e - 128) * 64 + (f - 128)

\* Neither overlong, nor a surrogate, nor too large.
LEMMA Range2 ==
  ASSUME NEW c \in Nat, NEW d \in Nat, Between(c, 192, 223), Between(d, 128, 191)
  PROVE  Code2(c, d) >= 128 <=> c >= 194
BY SMT DEF Between, Code2

LEMMA Range3 ==
  ASSUME NEW c \in Nat, NEW d \in Nat, NEW e \in Nat,
         Between(c, 224, 239), Between(d, 128, 191), Between(e, 128, 191)
  PROVE  /\ Code3(c, d, e) \in Int
         /\ Code3(c, d, e) >= 2048 <=> (c = 224 => d >= 160)
         /\ Code3(c, d, e) < 55296 \/ Code3(c, d, e) > 57343 <=> (c = 237 => d <= 159)
BY SMT DEF Between, Code3

LEMMA Range4 ==
  ASSUME NEW c \in Nat, NEW d \in Nat, NEW e \in Nat, NEW f \in Nat,
         Between(c, 240, 247), Between(d, 128, 191), Between(e, 128, 191), Between(f, 128, 191)
  PROVE  /\ Code4(c, d, e, f) \in Int
         /\ Code4(c, d, e, f) >= 65536 <=> (c = 240 => d >= 144)
         /\ Code4(c, d, e, f) <= 1114111 <=> c <= 244 /\ (c = 244 => d <= 143)
BY SMT DEF Between, Code4

\* The decoder at the first of two bytes.
LEMMA Next2 ==
  ASSUME NEW s \in Seq(Bytes), NEW i \in 1..Len(s), Between(s[i], 192, 223)
  PROVE  Utf8Next(s, i) =
           IF i + 1 <= Len(s) /\ Chars2(s[i], s[i + 1]) THEN 2 ELSE 0
<1>1. s[i] \in Nat
  BY ByteAt
<1>2. Utf8Need(s[i]) = 2 /\ s[i] % 32 = s[i] - 192
  BY <1>1, Lead2
<1>3. Utf8Next(s, i) =
        IF i + 1 <= Len(s) /\ Tail10(s, i, 1) /\ Utf8Value(s, i, 2) >= 128 THEN 2 ELSE 0
  BY <1>2, Tails DEF Utf8Next
<1>4. CASE i + 1 <= Len(s) /\ Between(s[i + 1], 128, 191)
  <2>1. PICK c, d : c = s[i] /\ d = s[i + 1]
    OBVIOUS
  <2>2. Tail10(s, i, 1) /\ Byte(s, i, 1) = d - 128 /\ d \in Nat
    BY <1>4, <2>1, TailAt
  <2>3. Utf8Value(s, i, 2) = Code2(c, d)
    BY <1>2, <2>1, <2>2, SMT DEF Utf8Value, Code2
  <2>4. c \in Nat /\ Between(c, 192, 223) /\ Between(d, 128, 191)
    BY <1>1, <1>4, <2>1
  <2>5. Code2(c, d) >= 128 <=> Chars2(c, d)
    <3>1. Code2(c, d) >= 128 <=> c >= 194
      BY <2>2, <2>4, Range2
    <3> QED
      BY <2>2, <2>4, <3>1 DEF Between, Chars2
  <2> QED
    BY <1>3, <1>4, <2>1, <2>2, <2>3, <2>5
<1>5. CASE ~ (i + 1 <= Len(s) /\ Between(s[i + 1], 128, 191))
  <2>2. ~ (i + 1 <= Len(s) /\ Chars2(s[i], s[i + 1]))
    BY <1>5 DEF Chars2
  <2>1. ~ (i + 1 <= Len(s) /\ Tail10(s, i, 1))
    BY <1>5, TailAt
  <2> QED
    BY <1>3, <2>1, <2>2
<1> QED
  BY <1>4, <1>5

\* The decoder at the first of three bytes.
LEMMA Next3 ==
  ASSUME NEW s \in Seq(Bytes), NEW i \in 1..Len(s), Between(s[i], 224, 239)
  PROVE  Utf8Next(s, i) =
           IF i + 2 <= Len(s) /\ Chars3(s[i], s[i + 1], s[i + 2]) THEN 3 ELSE 0
<1>1. s[i] \in Nat
  BY ByteAt
<1>2. Utf8Need(s[i]) = 3 /\ s[i] % 16 = s[i] - 224
  BY <1>1, Lead3
<1>3. Utf8Next(s, i) =
        IF /\ i + 2 <= Len(s) /\ Tail10(s, i, 1) /\ Tail10(s, i, 2)
           /\ Utf8Value(s, i, 3) >= 2048
           /\ Utf8Value(s, i, 3) < 55296 \/ Utf8Value(s, i, 3) > 57343
        THEN 3 ELSE 0
  BY <1>2, Tails, SMT DEF Utf8Next
<1>4. CASE i + 2 <= Len(s) /\ Between(s[i + 1], 128, 191) /\ Between(s[i + 2], 128, 191)
  <2>1. PICK c, d, e : c = s[i] /\ d = s[i + 1] /\ e = s[i + 2]
    OBVIOUS
  <2>2. /\ Tail10(s, i, 1) /\ Byte(s, i, 1) = d - 128 /\ d \in Nat
        /\ Tail10(s, i, 2) /\ Byte(s, i, 2) = e - 128 /\ e \in Nat
    BY <1>4, <2>1, TailAt
  <2>3. Utf8Value(s, i, 3) = Code3(c, d, e)
    <3>1. Byte(s, i, 1) = s[i + 1] - 128 /\ Byte(s, i, 2) = s[i + 2] - 128
      BY <2>1, <2>2
    <3>2. Utf8Value(s, i, 3) = Code3(s[i], s[i + 1], s[i + 2])
      BY <1>2, <3>1, SMT DEF Utf8Value, Code3
    <3> QED
      BY <2>1, <3>2
  <2>4. c \in Nat /\ Between(c, 224, 239) /\ Between(d, 128, 191) /\ Between(e, 128, 191)
    BY <1>1, <1>4, <2>1
  <2>5. /\ Utf8Value(s, i, 3) >= 2048 <=> (c = 224 => d >= 160)
        /\ Utf8Value(s, i, 3) < 55296 \/ Utf8Value(s, i, 3) > 57343 <=> (c = 237 => d <= 159)
    BY <2>2, <2>3, <2>4, Range3, SMTT(30)
  <2>6. /\ Utf8Value(s, i, 3) >= 2048
        /\ Utf8Value(s, i, 3) < 55296 \/ Utf8Value(s, i, 3) > 57343
        <=> Chars3(c, d, e)
    BY <2>4, <2>5, SMT DEF Chars3
  <2> QED
    BY <1>3, <1>4, <2>1, <2>2, <2>6, SMT
<1>5. CASE ~ (i + 2 <= Len(s) /\ Between(s[i + 1], 128, 191) /\ Between(s[i + 2], 128, 191))
  <2>2. ~ (i + 2 <= Len(s) /\ Chars3(s[i], s[i + 1], s[i + 2]))
    BY <1>5 DEF Chars3
  <2>1. ~ (i + 2 <= Len(s) /\ Tail10(s, i, 1) /\ Tail10(s, i, 2))
    BY <1>5, TailAt
  <2> QED
    BY <1>3, <2>1, <2>2, SMT
<1> QED
  BY <1>4, <1>5

\* The decoder at the first of four bytes.
LEMMA Next4 ==
  ASSUME NEW s \in Seq(Bytes), NEW i \in 1..Len(s), Between(s[i], 240, 247)
  PROVE  Utf8Next(s, i) =
           IF i + 3 <= Len(s) /\ Chars4(s[i], s[i + 1], s[i + 2], s[i + 3]) THEN 4 ELSE 0
<1>1. s[i] \in Nat
  BY ByteAt
<1>2. Utf8Need(s[i]) = 4 /\ s[i] % 8 = s[i] - 240
  BY <1>1, Lead4
<1>3. Utf8Next(s, i) =
        IF /\ i + 3 <= Len(s) /\ Tail10(s, i, 1) /\ Tail10(s, i, 2) /\ Tail10(s, i, 3)
           /\ Utf8Value(s, i, 4) >= 65536 /\ Utf8Value(s, i, 4) <= 1114111
        THEN 4 ELSE 0
  BY <1>2, Tails, SMT DEF Utf8Next
<1>4. CASE /\ i + 3 <= Len(s) /\ Between(s[i + 1], 128, 191)
           /\ Between(s[i + 2], 128, 191) /\ Between(s[i + 3], 128, 191)
  <2>1. PICK c, d, e, f : c = s[i] /\ d = s[i + 1] /\ e = s[i + 2] /\ f = s[i + 3]
    OBVIOUS
  <2>2. Tail10(s, i, 1) /\ Byte(s, i, 1) = d - 128 /\ d \in Nat
    BY <1>4, <2>1, TailAt
  <2>3. Tail10(s, i, 2) /\ Byte(s, i, 2) = e - 128 /\ e \in Nat
    BY <1>4, <2>1, TailAt
  <2>4. Tail10(s, i, 3) /\ Byte(s, i, 3) = f - 128 /\ f \in Nat
    BY <1>4, <2>1, TailAt
  <2>5. Utf8Value(s, i, 4) = Code4(c, d, e, f)
    <3>1. /\ Byte(s, i, 1) = s[i + 1] - 128 /\ Byte(s, i, 2) = s[i + 2] - 128
          /\ Byte(s, i, 3) = s[i + 3] - 128
      BY <2>1, <2>2, <2>3, <2>4
    <3>2. Utf8Value(s, i, 4) = Code4(s[i], s[i + 1], s[i + 2], s[i + 3])
      BY <1>2, <3>1, SMTT(30) DEF Utf8Value, Code4
    <3> QED
      BY <2>1, <3>2
  <2>6. /\ c \in Nat /\ Between(c, 240, 247) /\ Between(d, 128, 191)
        /\ Between(e, 128, 191) /\ Between(f, 128, 191)
    BY <1>1, <1>4, <2>1
  <2>7. /\ Utf8Value(s, i, 4) >= 65536 <=> (c = 240 => d >= 144)
        /\ Utf8Value(s, i, 4) <= 1114111 <=> c <= 244 /\ (c = 244 => d <= 143)
    <3>1. /\ Code4(c, d, e, f) >= 65536 <=> (c = 240 => d >= 144)
          /\ Code4(c, d, e, f) <= 1114111 <=> c <= 244 /\ (c = 244 => d <= 143)
      BY <2>2, <2>3, <2>4, <2>6, Range4, SMT
    <3> QED
      BY <2>5, <3>1, SMT
  <2>8. Utf8Value(s, i, 4) >= 65536 /\ Utf8Value(s, i, 4) <= 1114111 <=> Chars4(c, d, e, f)
    <3>1. c <= 244 <=> Between(c, 240, 244)
      BY <2>6, SMT DEF Between
    <3> QED
      BY <2>6, <2>7, <3>1, SMT DEF Chars4
  <2> QED
    BY <1>3, <1>4, <2>1, <2>2, <2>3, <2>4, <2>8, SMT
<1>5. CASE ~ (/\ i + 3 <= Len(s) /\ Between(s[i + 1], 128, 191)
              /\ Between(s[i + 2], 128, 191) /\ Between(s[i + 3], 128, 191))
  <2>2. ~ (i + 3 <= Len(s) /\ Chars4(s[i], s[i + 1], s[i + 2], s[i + 3]))
    BY <1>5 DEF Chars4
  <2>1. ~ (i + 3 <= Len(s) /\ Tail10(s, i, 1) /\ Tail10(s, i, 2) /\ Tail10(s, i, 3))
    BY <1>5, TailAt
  <2> QED
    BY <1>3, <2>1, <2>2, SMT
<1> QED
  BY <1>4, <1>5

\* One row of the table of well-formed sequences.
Row(t, lo, hi, lo2, hi2, n) ==
  /\ Len(t) = n /\ Between(t[1], lo, hi)
  /\ n >= 2 => Between(t[2], lo2, hi2)
  /\ n >= 3 => Between(t[3], 128, 191)
  /\ n >= 4 => Between(t[4], 128, 191)

\* The bounds of the table as comparisons.
LEMMA InBetween ==
  ASSUME NEW b \in Nat, NEW lo \in Nat, NEW hi \in Nat
  PROVE  b \in lo..hi <=> Between(b, lo, hi)
BY DEF Between

\* What a row of WellFormed1 says of a sequence.
LEMMA RowIs ==
  ASSUME NEW t \in Seq(Bytes), NEW lo \in Nat, NEW hi \in Nat, NEW lo2 \in Nat, NEW hi2 \in Nat,
         NEW n \in 1..4
  PROVE  /\ Len(t) = n /\ t[1] \in lo..hi
         /\ n >= 2 => t[2] \in lo2..hi2
         /\ \A k \in 3..n : t[k] \in 128..191
         <=> Row(t, lo, hi, lo2, hi2, n)
<1>1. CASE Len(t) # n
  BY <1>1 DEF Row
<1>2. CASE Len(t) = n
  <2>1. \A k \in 1..n : t[k] \in Nat
    BY <1>2, ByteAt
  <2>2. 1 \in 1..n
    OBVIOUS
  <2>3. t[1] \in lo..hi <=> Between(t[1], lo, hi)
    BY <2>1, <2>2, InBetween
  <2>4. n >= 2 => (t[2] \in lo2..hi2 <=> Between(t[2], lo2, hi2))
    <3>1. n >= 2 => 2 \in 1..n
      OBVIOUS
    <3> QED
      BY <2>1, <3>1, InBetween
  <2>5. (\A k \in 3..n : t[k] \in 128..191) <=>
          /\ n >= 3 => Between(t[3], 128, 191)
          /\ n >= 4 => Between(t[4], 128, 191)
    <3>1. \A k \in 1..n : t[k] \in 128..191 <=> Between(t[k], 128, 191)
      <4>1. TAKE k \in 1..n
      <4>2. t[k] \in Nat
        BY <2>1
      <4> QED
        BY <4>2, InBetween, ZenonT(40)
    <3>2. \A k : k \in 3..n <=> (n >= 3 /\ k = 3) \/ (n >= 4 /\ k = 4)
      OBVIOUS
    <3>3. \A k : k \in 3..n => k \in 1..n
      OBVIOUS
    <3>4. (\A k \in 3..n : t[k] \in 128..191) <=> (\A k \in 3..n : Between(t[k], 128, 191))
      BY <3>1, <3>3, Zenon
    <3>5. (\A k \in 3..n : Between(t[k], 128, 191)) <=>
            /\ n >= 3 => Between(t[3], 128, 191)
            /\ n >= 4 => Between(t[4], 128, 191)
      BY <3>2, Zenon
    <3> QED
      BY <3>4, <3>5, Zenon
  <2> QED
    BY <1>2, <2>3, <2>4, <2>5 DEF Row
<1> QED
  BY <1>1, <1>2

\* OneChar, row by row.
LEMMA OneCharRows ==
  ASSUME NEW t \in Seq(Bytes)
  PROVE  OneChar(t) <=>
    \/ Row(t, 0, 127, 0, 0, 1) \/ Row(t, 194, 223, 128, 191, 2) \/ Row(t, 224, 224, 160, 191, 3)
    \/ Row(t, 225, 236, 128, 191, 3) \/ Row(t, 237, 237, 128, 159, 3)
    \/ Row(t, 238, 239, 128, 191, 3) \/ Row(t, 240, 240, 144, 191, 4)
    \/ Row(t, 241, 243, 128, 191, 4) \/ Row(t, 244, 244, 128, 143, 4)
<1>1. \A w \in WellFormed1 : w[1] \in Nat /\ w[2] \in Nat /\ w[3] \in Nat /\ w[4] \in Nat /\ w[5] \in 1..4
  BY SMTT(30) DEF WellFormed1
<1>2. ASSUME NEW w \in WellFormed1
      PROVE  /\ Len(t) = w[5] /\ t[1] \in w[1]..w[2]
             /\ w[5] >= 2 => t[2] \in w[3]..w[4]
             /\ \A k \in 3..w[5] : t[k] \in 128..191
             <=> Row(t, w[1], w[2], w[3], w[4], w[5])
  <2>1. PICK lo, hi, lo2, hi2, n :
          lo = w[1] /\ hi = w[2] /\ lo2 = w[3] /\ hi2 = w[4] /\ n = w[5]
    OBVIOUS
  <2>2. lo \in Nat /\ hi \in Nat /\ lo2 \in Nat /\ hi2 \in Nat /\ n \in 1..4
    BY <1>1, <2>1
  <2>3. /\ Len(t) = n /\ t[1] \in lo..hi
        /\ n >= 2 => t[2] \in lo2..hi2
        /\ \A k \in 3..n : t[k] \in 128..191
        <=> Row(t, lo, hi, lo2, hi2, n)
    BY <2>2, RowIs, Zenon
  <2> QED
    BY <2>1, <2>3, Zenon
<1>3. OneChar(t) <=> \E w \in WellFormed1 : Row(t, w[1], w[2], w[3], w[4], w[5])
  BY <1>2, ZenonT(40) DEF OneChar
<1> QED
  BY <1>3 DEF WellFormed1

\* The table by the number of bytes.
LEMMA Table ==
  ASSUME NEW t \in Seq(Bytes)
  PROVE  /\ OneChar(t) => Len(t) \in 1..4
         /\ Len(t) = 1 => (OneChar(t) <=> t[1] < 128)
         /\ Len(t) = 2 => (OneChar(t) <=> Chars2(t[1], t[2]))
         /\ Len(t) = 3 => (OneChar(t) <=> Chars3(t[1], t[2], t[3]))
         /\ Len(t) = 4 => (OneChar(t) <=> Chars4(t[1], t[2], t[3], t[4]))
<1>1. OneChar(t) => Len(t) \in 1..4
  BY OneCharRows DEF Row
<1>2. \A k \in 1..Len(t) : t[k] \in Nat
  BY ByteAt
<1>3. CASE Len(t) = 1
  <2>1. t[1] \in Nat
    BY <1>2, <1>3
  <2>2. OneChar(t) <=> Between(t[1], 0, 127)
    BY <1>3, OneCharRows DEF Row
  <2> QED
    BY <1>3, <1>1, <2>1, <2>2 DEF Between
<1>4. CASE Len(t) = 2
  <2>1. OneChar(t) <=> Between(t[1], 194, 223) /\ Between(t[2], 128, 191)
    BY <1>4, OneCharRows DEF Row
  <2> QED
    BY <1>4, <1>1, <2>1 DEF Chars2
<1>5. CASE Len(t) = 3
  <2>1. PICK c, d, e : c = t[1] /\ d = t[2] /\ e = t[3]
    OBVIOUS
  <2>2. c \in Nat /\ d \in Nat
    BY <1>2, <1>5, <2>1
  <2>3. \A lo, hi, lo2, hi2 :
          /\ Row(t, lo, hi, lo2, hi2, 3) <=>
               Between(c, lo, hi) /\ Between(d, lo2, hi2) /\ Between(e, 128, 191)
          /\ ~ Row(t, lo, hi, lo2, hi2, 1)
          /\ ~ Row(t, lo, hi, lo2, hi2, 2)
          /\ ~ Row(t, lo, hi, lo2, hi2, 4)
    BY <1>5, <2>1 DEF Row
  <2>4. OneChar(t) <=>
          /\ Between(e, 128, 191)
          /\ \/ Between(c, 224, 224) /\ Between(d, 160, 191)
             \/ Between(c, 225, 236) /\ Between(d, 128, 191)
             \/ Between(c, 237, 237) /\ Between(d, 128, 159)
             \/ Between(c, 238, 239) /\ Between(d, 128, 191)
    BY <2>3, OneCharRows, SMTT(30)
  <2>5. \/ Between(c, 224, 224) /\ Between(d, 160, 191)
        \/ Between(c, 225, 236) /\ Between(d, 128, 191)
        \/ Between(c, 237, 237) /\ Between(d, 128, 159)
        \/ Between(c, 238, 239) /\ Between(d, 128, 191)
        <=>
        /\ Between(c, 224, 239) /\ Between(d, 128, 191)
        /\ c = 224 => d >= 160
        /\ c = 237 => d <= 159
    BY <2>2, SMT DEF Between
  <2>6. OneChar(t) <=> Chars3(c, d, e)
    BY <2>4, <2>5 DEF Chars3
  <2> QED
    BY <1>5, <2>1, <2>6
<1>6. CASE Len(t) = 4
  <2>1. PICK c, d, e, f : c = t[1] /\ d = t[2] /\ e = t[3] /\ f = t[4]
    OBVIOUS
  <2>2. c \in Nat /\ d \in Nat
    BY <1>2, <1>6, <2>1
  <2>3. \A lo, hi, lo2, hi2 :
          /\ Row(t, lo, hi, lo2, hi2, 4) <=>
               /\ Between(c, lo, hi) /\ Between(d, lo2, hi2)
               /\ Between(e, 128, 191) /\ Between(f, 128, 191)
          /\ ~ Row(t, lo, hi, lo2, hi2, 1)
          /\ ~ Row(t, lo, hi, lo2, hi2, 2)
          /\ ~ Row(t, lo, hi, lo2, hi2, 3)
    BY <1>6, <2>1 DEF Row
  <2>4. OneChar(t) <=>
          /\ Between(e, 128, 191) /\ Between(f, 128, 191)
          /\ \/ Between(c, 240, 240) /\ Between(d, 144, 191)
             \/ Between(c, 241, 243) /\ Between(d, 128, 191)
             \/ Between(c, 244, 244) /\ Between(d, 128, 143)
    BY <2>3, OneCharRows, SMTT(30)
  <2>5. \/ Between(c, 240, 240) /\ Between(d, 144, 191)
        \/ Between(c, 241, 243) /\ Between(d, 128, 191)
        \/ Between(c, 244, 244) /\ Between(d, 128, 143)
        <=>
        /\ Between(c, 240, 244) /\ Between(d, 128, 191)
        /\ c = 240 => d >= 144
        /\ c = 244 => d <= 143
    BY <2>2, SMT DEF Between
  <2>6. OneChar(t) <=> Chars4(c, d, e, f)
    BY <2>4, <2>5 DEF Chars4
  <2> QED
    BY <1>6, <2>1, <2>6
<1> QED
  BY <1>1, <1>3, <1>4, <1>5, <1>6

\* The part of a sequence from i to j.
LEMMA Subsequence ==
  ASSUME NEW S, NEW s \in Seq(S), NEW i \in 1..Len(s), NEW j \in i..Len(s)
  PROVE  /\ SubSeq(s, i, j) \in Seq(S)
         /\ Len(SubSeq(s, i, j)) = j - i + 1
         /\ \A k \in 1..j - i + 1 : SubSeq(s, i, j)[k] = s[i + k - 1]
BY SubSeqProperties

\* What the decoder steps over is inside the text.
LEMMA NextFits ==
  ASSUME NEW s \in Seq(Bytes), NEW i \in 1..Len(s)
  PROVE  /\ Utf8Next(s, i) \in Nat
         /\ Utf8Next(s, i) > 0 => i + Utf8Next(s, i) - 1 <= Len(s)
<1>1. s[i] \in Nat /\ s[i] <= 255
  BY ByteAt
<1>2. CASE s[i] < 128
  BY <1>2, Next1
<1>3. CASE Between(s[i], 128, 191) \/ Between(s[i], 248, 255)
  BY <1>3, Next0
<1>4. CASE Between(s[i], 192, 223)
  BY <1>4, Next2
<1>5. CASE Between(s[i], 224, 239)
  BY <1>5, Next3
<1>6. CASE Between(s[i], 240, 247)
  <2>1. Utf8Next(s, i) = 0 \/ (Utf8Next(s, i) = 4 /\ i + 3 <= Len(s))
    BY <1>6, Next4
  <2> QED
    BY <2>1
<1> QED
  BY <1>1, <1>2, <1>3, <1>4, <1>5, <1>6 DEF Between

\* One step of the decoder is one character of the table.
LEMMA CharAt ==
  ASSUME NEW s \in Seq(Bytes), NEW i \in 1..Len(s), NEW j \in i..Len(s)
  PROVE  OneChar(SubSeq(s, i, j)) <=> Utf8Next(s, i) = j - i + 1
<1>1. PICK t, n : t = SubSeq(s, i, j) /\ n = j - i + 1
  OBVIOUS
<1>2. t \in Seq(Bytes) /\ Len(t) = n /\ n \in Nat \ {0} /\ i + n - 1 <= Len(s)
  BY <1>1, Subsequence
<1>3. \A k \in 1..n : t[k] = s[i + k - 1]
  BY <1>1, Subsequence
<1>4. /\ t[1] = s[i]
      /\ n = 2 => t[2] = s[i + 1]
      /\ n = 3 => t[2] = s[i + 1] /\ t[3] = s[i + 2]
      /\ n = 4 => t[2] = s[i + 1] /\ t[3] = s[i + 2] /\ t[4] = s[i + 3]
  <2>1. /\ 1 \in 1..n
        /\ n = 2 => 2 \in 1..n
        /\ n = 3 => 2 \in 1..n /\ 3 \in 1..n
        /\ n = 4 => 2 \in 1..n /\ 3 \in 1..n /\ 4 \in 1..n
    BY <1>2
  <2>2. i + 1 - 1 = i /\ i + 2 - 1 = i + 1 /\ i + 3 - 1 = i + 2 /\ i + 4 - 1 = i + 3
    OBVIOUS
  <2> QED
    BY <1>3, <2>1, <2>2, Zenon
<1>5. s[i] \in Nat /\ s[i] <= 255
  BY ByteAt
<1>6. OneChar(t) => n = 1 \/ n = 2 \/ n = 3 \/ n = 4
  <2>1. OneChar(t) => n \in 1..4
    BY <1>2, Table, Zenon
  <2> QED
    BY <2>1, <1>2
<1>8. n = 1 => (OneChar(t) <=> s[i] < 128)
  BY <1>2, <1>4, Table
<1>9. n = 2 => (OneChar(t) <=> Chars2(s[i], s[i + 1]))
  BY <1>2, <1>4, Table
<1>10. n = 3 => (OneChar(t) <=> Chars3(s[i], s[i + 1], s[i + 2]))
  BY <1>2, <1>4, Table, Zenon
<1>11. n = 4 => (OneChar(t) <=> Chars4(s[i], s[i + 1], s[i + 2], s[i + 3]))
  BY <1>2, <1>4, Table, Zenon
<1>12. /\ n = 2 => i + 1 <= Len(s)
       /\ n = 3 => i + 2 <= Len(s)
       /\ n = 4 => i + 3 <= Len(s)
       /\ n # 0
  BY <1>2
<1>7. OneChar(t) <=> Utf8Next(s, i) = n
  <2>1. CASE s[i] < 128
    <3>1. \A d, e, f : ~ Chars2(s[i], d) /\ ~ Chars3(s[i], d, e) /\ ~ Chars4(s[i], d, e, f)
      BY <1>5, <2>1 DEF Between, Chars2, Chars3, Chars4
    <3>2. Utf8Next(s, i) = 1
      BY <2>1, Next1
    <3> QED
      BY <1>6, <1>8, <1>9, <1>10, <1>11, <1>12, <2>1, <3>1, <3>2
  <2>2. CASE Between(s[i], 128, 191) \/ Between(s[i], 248, 255)
    <3>1. /\ ~ (s[i] < 128)
          /\ \A d, e, f : ~ Chars2(s[i], d) /\ ~ Chars3(s[i], d, e) /\ ~ Chars4(s[i], d, e, f)
      BY <1>5, <2>2 DEF Between, Chars2, Chars3, Chars4
    <3>2. Utf8Next(s, i) = 0
      BY <2>2, Next0
    <3> QED
      BY <1>6, <1>8, <1>9, <1>10, <1>11, <1>12, <3>1, <3>2
  <2>3. CASE Between(s[i], 192, 223)
    <3>1. ~ (s[i] < 128) /\ \A d, e, f : ~ Chars3(s[i], d, e) /\ ~ Chars4(s[i], d, e, f)
      BY <1>5, <2>3 DEF Between, Chars3, Chars4
    <3>2. Utf8Next(s, i) = IF i + 1 <= Len(s) /\ Chars2(s[i], s[i + 1]) THEN 2 ELSE 0
      BY <2>3, Next2
    <3> QED
      BY <1>6, <1>8, <1>9, <1>10, <1>11, <1>12, <3>1, <3>2
  <2>4. CASE Between(s[i], 224, 239)
    <3>1. ~ (s[i] < 128) /\ \A d, e, f : ~ Chars2(s[i], d) /\ ~ Chars4(s[i], d, e, f)
      BY <1>5, <2>4 DEF Between, Chars2, Chars4
    <3>2. Utf8Next(s, i) =
            IF i + 2 <= Len(s) /\ Chars3(s[i], s[i + 1], s[i + 2]) THEN 3 ELSE 0
      BY <2>4, Next3
    <3> QED
      BY <1>6, <1>8, <1>9, <1>10, <1>11, <1>12, <3>1, <3>2
  <2>5. CASE Between(s[i], 240, 247)
    <3>1. ~ (s[i] < 128) /\ \A d, e : ~ Chars2(s[i], d) /\ ~ Chars3(s[i], d, e)
      BY <1>5, <2>5 DEF Between, Chars2, Chars3
    <3>2. Utf8Next(s, i) =
            IF i + 3 <= Len(s) /\ Chars4(s[i], s[i + 1], s[i + 2], s[i + 3]) THEN 4 ELSE 0
      BY <2>5, Next4
    <3> QED
      BY <1>6, <1>8, <1>9, <1>10, <1>11, <1>12, <3>1, <3>2
  <2> QED
    BY <1>5, <2>1, <2>2, <2>3, <2>4, <2>5 DEF Between
<1> QED
  BY <1>1, <1>7

\* The bytes of s after the first i split into characters.
Splits(s, i) ==
  \E cut \in SUBSET (i..Len(s)) :
    /\ {i, Len(s)} \subseteq cut
    /\ \A a \in cut \ {Len(s)} :
         \E j \in cut : /\ a < j /\ \A k \in cut : k <= a \/ j <= k
                        /\ OneChar(SubSeq(s, a + 1, j))

\* Nothing is left to split after the last byte.
LEMMA SplitsEnd ==
  ASSUME NEW s, Len(s) \in Nat
  PROVE  Splits(s, Len(s))
<1>1. {Len(s)} \in SUBSET (Len(s)..Len(s))
  OBVIOUS
<1> QED
  BY <1>1 DEF Splits

\* A text begins with one character, and a text follows.
LEMMA SplitsStep ==
  ASSUME NEW s \in Seq(Bytes), NEW i \in 0..Len(s) - 1
  PROVE  Splits(s, i) <=>
           Utf8Next(s, i + 1) > 0 /\ Splits(s, i + Utf8Next(s, i + 1))
<1>1. i + 1 \in 1..Len(s) /\ Len(s) \in Nat /\ i \in Nat
  OBVIOUS
<1>2. ASSUME Splits(s, i)
      PROVE  Utf8Next(s, i + 1) > 0 /\ Splits(s, i + Utf8Next(s, i + 1))
  <2>1. PICK cut \in SUBSET (i..Len(s)) :
          /\ {i, Len(s)} \subseteq cut
          /\ \A a \in cut \ {Len(s)} :
               \E j \in cut : /\ a < j /\ \A k \in cut : k <= a \/ j <= k
                              /\ OneChar(SubSeq(s, a + 1, j))
    BY <1>2 DEF Splits
  <2>2. i \in cut \ {Len(s)}
    BY <2>1, <1>1
  <2>3. PICK j \in cut : /\ i < j /\ \A k \in cut : k <= i \/ j <= k
                         /\ OneChar(SubSeq(s, i + 1, j))
    BY <2>1, <2>2
  <2>4. j \in i + 1..Len(s) /\ j \in Nat
    BY <2>3, <2>1, <1>1
  <2>5. Utf8Next(s, i + 1) = j - (i + 1) + 1
    BY <1>1, <2>3, <2>4, CharAt
  <2>6. Utf8Next(s, i + 1) > 0 /\ i + Utf8Next(s, i + 1) = j
    BY <1>1, <2>4, <2>5
  <2>7. PICK rest : rest = {k \in cut : j <= k}
    OBVIOUS
  <2>8. rest \in SUBSET (j..Len(s)) /\ {j, Len(s)} \subseteq rest
    <3>1. \A k \in rest : k \in i..Len(s) /\ j <= k
      BY <2>1, <2>7
    <3>2. \A k \in rest : k \in j..Len(s)
      BY <3>1, <2>4, <1>1
    <3>3. j \in rest /\ Len(s) \in rest
      BY <2>1, <2>4, <2>7, <1>1
    <3> QED
      BY <3>2, <3>3
  <2>9. ASSUME NEW a \in rest \ {Len(s)}
        PROVE  \E m \in rest : /\ a < m /\ \A k \in rest : k <= a \/ m <= k
                               /\ OneChar(SubSeq(s, a + 1, m))
    <3>1. a \in cut \ {Len(s)} /\ j <= a /\ a \in Nat
      BY <2>7, <2>8, <2>4
    <3>2. PICK m \in cut : /\ a < m /\ \A k \in cut : k <= a \/ m <= k
                           /\ OneChar(SubSeq(s, a + 1, m))
      BY <3>1, <2>1
    <3>3. m \in Nat
      BY <2>1, <1>1
    <3>4. m \in rest
      BY <3>1, <3>2, <3>3, <2>4, <2>7
    <3> QED
      BY <3>2, <3>4, <2>7
  <2>10. Splits(s, j)
    BY <2>8, <2>9 DEF Splits
  <2> QED
    BY <2>6, <2>10
<1>3. ASSUME Utf8Next(s, i + 1) > 0, Splits(s, i + Utf8Next(s, i + 1))
      PROVE  Splits(s, i)
  <2>1. PICK j : j = i + Utf8Next(s, i + 1)
    OBVIOUS
  <2>2. j \in i + 1..Len(s) /\ j \in Nat /\ Utf8Next(s, i + 1) = j - (i + 1) + 1
    <3>1. PICK n : n = Utf8Next(s, i + 1)
      OBVIOUS
    <3>2. n \in Nat /\ (n > 0 => (i + 1) + n - 1 <= Len(s))
      BY <3>1, <1>1, NextFits
    <3>3. n > 0 /\ j = i + n
      BY <3>1, <2>1, <1>3
    <3> QED
      <4>1. n = j - (i + 1) + 1 /\ j \in i + 1..Len(s) /\ j \in Nat
        BY <1>1, <3>2, <3>3
      <4> QED
        BY <4>1, <3>1
  <2>3. OneChar(SubSeq(s, i + 1, j))
    BY <1>1, <2>2, CharAt
  <2>4. PICK rest \in SUBSET (j..Len(s)) :
          /\ {j, Len(s)} \subseteq rest
          /\ \A a \in rest \ {Len(s)} :
               \E m \in rest : /\ a < m /\ \A k \in rest : k <= a \/ m <= k
                               /\ OneChar(SubSeq(s, a + 1, m))
    BY <1>3, <2>1 DEF Splits
  <2>5. PICK cut : cut = rest \cup {i}
    OBVIOUS
  <2>6. \A k \in rest : k \in Nat /\ j <= k /\ i < k
    BY <2>2, <2>4, <1>1
  <2>7. cut \in SUBSET (i..Len(s)) /\ {i, Len(s)} \subseteq cut
    BY <2>2, <2>4, <2>5, <1>1
  <2>8. ASSUME NEW a \in cut \ {Len(s)}
        PROVE  \E m \in cut : /\ a < m /\ \A k \in cut : k <= a \/ m <= k
                              /\ OneChar(SubSeq(s, a + 1, m))
    <3>1. CASE a = i
      <4>1. j \in cut /\ a < j
        BY <3>1, <2>2, <2>4, <2>5
      <4>2. \A k \in cut : k <= a \/ j <= k
        BY <3>1, <2>5, <2>6, <1>1
      <4> QED
        BY <4>1, <4>2, <3>1, <2>3
    <3>2. CASE a # i
      <4>1. a \in rest \ {Len(s)} /\ a \in Nat
        BY <3>2, <2>5, <2>6
      <4>2. PICK m \in rest : /\ a < m /\ \A k \in rest : k <= a \/ m <= k
                              /\ OneChar(SubSeq(s, a + 1, m))
        BY <4>1, <2>4
      <4>3. \A k \in cut : k <= a \/ m <= k
        BY <4>1, <4>2, <2>5, <2>6, <1>1
      <4> QED
        BY <4>2, <4>3, <2>5
    <3> QED
      BY <3>1, <3>2
  <2> QED
    BY <2>7, <2>8 DEF Splits
<1> QED
  BY <1>2, <1>3

\* The loop of IsValidUtf8 from byte i on, as the recursion defines it.
Loop(s, f) ==
  f = [i \in 1..Len(s) + 5 |->
         IF i > Len(s) THEN TRUE
         ELSE Utf8Next(s, i) > 0 /\ f[i + Utf8Next(s, i)]]

\* The recursion has a solution once one is shown, and IsValidUtf8 takes one.
LEMMA LoopIsDefined ==
  ASSUME NEW s, NEW g, Loop(s, g)
  PROVE  \E f : Loop(s, f) /\ IsValidUtf8(s) = f[1]
<1>1. PICK f : f = CHOOSE h : Loop(s, h)
  OBVIOUS
<1>2. Loop(s, f)
  BY <1>1
<1>3. IsValidUtf8(s) = f[1]
  BY <1>1 DEF IsValidUtf8, Loop
<1> QED
  BY <1>2, <1>3

\* Two functions that satisfy the recursion agree: there is no last place where
\* they differ, since each value depends on a later one.
LEMMA LoopIsUnique ==
  ASSUME NEW s \in Seq(Bytes), NEW f, NEW g, Loop(s, f), Loop(s, g)
  PROVE  f[1] = g[1]
<1>1. PICK n : n = Len(s) + 5
  OBVIOUS
<1>2. n \in Nat /\ Len(s) \in Nat /\ n > Len(s)
  BY <1>1
<1>3. \A i \in 1..n : i > Len(s) => f[i] = g[i]
  BY <1>1 DEF Loop
<1>4. ASSUME NEW i \in 1..Len(s)
      PROVE  /\ f[i] = (Utf8Next(s, i) > 0 /\ f[i + Utf8Next(s, i)])
             /\ g[i] = (Utf8Next(s, i) > 0 /\ g[i + Utf8Next(s, i)])
  <2>1. i \in 1..Len(s) + 5 /\ ~ (i > Len(s))
    OBVIOUS
  <2>2. f[i] = (IF i > Len(s) THEN TRUE
                ELSE Utf8Next(s, i) > 0 /\ f[i + Utf8Next(s, i)])
    BY <2>1, Zenon DEF Loop
  <2>3. g[i] = (IF i > Len(s) THEN TRUE
                ELSE Utf8Next(s, i) > 0 /\ g[i + Utf8Next(s, i)])
    BY <2>1, Zenon DEF Loop
  <2> QED
    BY <2>1, <2>2, <2>3, Zenon
<1>5. PICK T : T = {m \in Nat : m < n /\ f[n - m] # g[n - m]}
  OBVIOUS
<1>6. ASSUME T # {} PROVE FALSE
  <2>1. PICK m \in T : \A k \in T : m <= k
    BY <1>5, <1>6, LeastNatural
  <2>2. PICK i : i = n - m
    OBVIOUS
  <2>3. i \in 1..n /\ m \in Nat /\ f[i] # g[i]
    BY <1>2, <1>5, <2>1, <2>2
  <2>4. i \in 1..Len(s)
    BY <2>3, <1>2, <1>3
  <2>5. CASE Utf8Next(s, i) > 0
    <3>1. PICK j : j = i + Utf8Next(s, i)
      OBVIOUS
    <3>2. j \in i + 1..Len(s) + 1
      BY <2>4, <2>5, <3>1, NextFits
    <3>3. n - j \in Nat /\ n - j < m /\ n - (n - j) = j /\ n - j < n
      <4>1. j \in Int /\ i < j /\ j <= n
        BY <3>2, <2>4, <1>1, <1>2
      <4> QED
        BY <4>1, <2>2, <2>3, <1>2
    <3>4. n - j \notin T
      BY <3>3, <2>1, <2>3
    <3>5. f[j] = g[j]
      BY <3>3, <3>4, <1>5
    <3> QED
      BY <3>1, <3>5, <2>3, <2>4, <1>4
  <2>6. CASE ~ (Utf8Next(s, i) > 0)
    BY <2>3, <2>4, <2>6, <1>4
  <2> QED
    BY <2>5, <2>6
<1>7. n - 1 \in Nat /\ n - 1 < n /\ n - (n - 1) = 1
  BY <1>1, <1>2
<1> QED
  BY <1>5, <1>6, <1>7

\* The reference satisfies the recursion.
LEMMA LoopOfSplits ==
  ASSUME NEW s \in Seq(Bytes)
  PROVE  Loop(s, [i \in 1..Len(s) + 5 |-> i > Len(s) \/ Splits(s, i - 1)])
<1>1. PICK g : g = [i \in 1..Len(s) + 5 |-> i > Len(s) \/ Splits(s, i - 1)]
  OBVIOUS
<1>2. ASSUME NEW i \in 1..Len(s)
      PROVE  Splits(s, i - 1) <=> Utf8Next(s, i) > 0 /\ g[i + Utf8Next(s, i)]
  <2>1. i - 1 \in 0..Len(s) - 1 /\ (i - 1) + 1 = i /\ Len(s) \in Nat
    OBVIOUS
  <2>2. Splits(s, i - 1) <=>
          Utf8Next(s, i) > 0 /\ Splits(s, (i - 1) + Utf8Next(s, i))
    BY <2>1, SplitsStep
  <2>3. CASE Utf8Next(s, i) > 0
    <3>1. PICK j : j = i + Utf8Next(s, i)
      OBVIOUS
    <3>2. j \in i + 1..Len(s) + 1 /\ (i - 1) + Utf8Next(s, i) = j - 1
      BY <2>3, <3>1, NextFits
    <3>3. g[j] = (j > Len(s) \/ Splits(s, j - 1))
      BY <3>2, <1>1
    <3>4. j > Len(s) => Splits(s, j - 1)
      <4>1. j > Len(s) => j - 1 = Len(s)
        BY <3>2
      <4> QED
        BY <4>1, SplitsEnd
    <3> QED
      BY <2>2, <2>3, <3>1, <3>2, <3>3, <3>4, Zenon
  <2>4. CASE ~ (Utf8Next(s, i) > 0)
    BY <2>2, <2>4, Zenon
  <2> QED
    BY <2>3, <2>4
<1>3. ASSUME NEW i \in 1..Len(s) + 5
      PROVE  (i > Len(s) \/ Splits(s, i - 1)) =
             (IF i > Len(s) THEN TRUE ELSE Utf8Next(s, i) > 0 /\ g[i + Utf8Next(s, i)])
  <2>1. CASE i > Len(s)
    BY <2>1
  <2>2. CASE ~ (i > Len(s))
    <3>1. i \in 1..Len(s)
      BY <2>2
    <3> QED
      BY <2>2, <3>1, <1>2, Zenon
  <2> QED
    BY <2>1, <2>2
<1>4. g = [i \in 1..Len(s) + 5 |->
             IF i > Len(s) THEN TRUE
             ELSE Utf8Next(s, i) > 0 /\ g[i + Utf8Next(s, i)]]
  BY <1>1, <1>3, Zenon
<1> QED
  BY <1>1, <1>4 DEF Loop

\* IsValidUtf8 accepts exactly the texts of the standard's table, of any length.
THEOREM DecoderIsExact ==
  ASSUME NEW s \in Seq(Bytes)
  PROVE  IsValidUtf8(s) <=> IsText(s)
<1>1. PICK g : g = [i \in 1..Len(s) + 5 |-> i > Len(s) \/ Splits(s, i - 1)]
  OBVIOUS
<1>2. Loop(s, g)
  BY <1>1, LoopOfSplits
<1>3. IsValidUtf8(s) = g[1]
  BY <1>2, LoopIsDefined, LoopIsUnique
<1>4. g[1] = (1 > Len(s) \/ Splits(s, 0))
  <2>1. 1 \in 1..Len(s) + 5 /\ 1 - 1 = 0
    OBVIOUS
  <2> QED
    BY <1>1, <2>1
<1>5. 1 > Len(s) => Splits(s, 0)
  <2>1. 1 > Len(s) => Len(s) = 0
    OBVIOUS
  <2> QED
    BY <2>1, SplitsEnd
<1>6. IsText(s) <=> Splits(s, 0)
  BY DEF IsText, Splits
<1> QED
  BY <1>3, <1>4, <1>5, <1>6

-----------------------------------------------------------------------------
(***************************************************************************)
(* The control under way keeps the plan that its handler made of it; for a *)
(* name that is the verdict of the decoder, and the decoder is exact.      *)
(***************************************************************************)

NameInv ==
  pc["ctl"] \in {"call", "failed"} =>
    /\ req \in Requests[session]
    /\ req.type = "UpdateCameraName" /\ req.cam => (plan.ok <=> Name(req.name))

\* Every step keeps the plan of a name as its handler made it.
LEMMA NameNext == Inv /\ NameInv /\ [Next]_vars => NameInv'
<1> SUFFICES ASSUME Inv, NameInv, [Next]_vars PROVE NameInv'
  OBVIOUS
<1>1. pc \in [Threads -> Steps] /\ "ctl" \in Threads /\ "app" \in Threads
  BY DEF Inv, TypeOK, Threads
<1>2. ASSUME pc'["ctl"] \notin {"call", "failed"} PROVE NameInv'
  BY <1>2 DEF NameInv
<1>3. ASSUME UNCHANGED <<session, req, plan>>, pc'["ctl"] = pc["ctl"] PROVE NameInv'
  BY <1>3 DEF NameInv
<1>4. CASE Start \/ Crash
  BY <1>2, <1>4, <1>1 DEF Start, Crash
<1>5. CASE \E status \in BOOLEAN : AppChecks(status)
  BY <1>1, <1>3, <1>5 DEF AppChecks, Goto, ctlVars
<1>6. CASE SaveStep("app")
  BY <1>1, <1>3, <1>6 DEF SaveStep, SaveOpens, SaveWrites, SaveFails, Goto, ctlVars
<1>7. CASE SaveStep("ctl")
  BY <1>1, <1>2, <1>7 DEF SaveStep, SaveOpens, SaveWrites, SaveFails, Goto
<1>8. CASE \E r \in Requests[session] : ControlCallback(r)
  BY <1>1, <1>2, <1>8 DEF ControlCallback, Goto
<1>9. CASE ControlRefused \/ ControlAccepted \/ Answer \/ AnswerError \/ Return
  BY <1>1, <1>2, <1>9 DEF ControlRefused, ControlAccepted, Answer, AnswerError, Return, Goto
<1>10. CASE HandleWithCommonFlow
  <2>1. /\ pc["ctl"] = "handler" /\ UNCHANGED <<session, req>>
        /\ plan' = IF req.cam THEN Handler(req) ELSE Reject
    BY <1>10 DEF HandleWithCommonFlow
  <2>2. req \in Requests[session]
    BY <2>1 DEF Inv, FlowInv
  <2>3. ASSUME req.type = "UpdateCameraName", req.cam
        PROVE  plan'.ok <=> Name(req.name)
    <3>1. Handler(req) = HandleUpdateCameraName(req)
      BY <2>3 DEF Handler
    <3> QED
      BY <2>1, <2>3, <3>1 DEF HandleUpdateCameraName, Relay, Reject
  <2> QED
    BY <2>1, <2>2, <2>3 DEF NameInv
<1>11. CASE \E o \in Outcomes : ServiceAnswers(o)
  <2>1. pc["ctl"] = "call" /\ UNCHANGED <<session, req, plan>>
    BY <1>11 DEF ServiceAnswers
  <2> QED
    BY <2>1 DEF NameInv
<1>12. CASE SetParameter
  BY <1>1, <1>2, <1>12 DEF SetParameter, Goto
<1>13. CASE UNCHANGED vars
  BY <1>3, <1>13 DEF vars
<1> QED
  BY <1>4, <1>5, <1>6, <1>7, <1>8, <1>9, <1>10, <1>11, <1>12, <1>13 DEF Next, ControlStep

\* A name that is a string is accepted exactly when it is UTF-8 by the standard's
\* table, not empty and shorter than StringSize, whatever bytes it has.
THEOREM NamesAreTextHolds == Spec => []NamesAreText
<1>1. Init => NameInv
  BY DEF Init, NameInv, Threads
<1>2. Inv /\ NameInv => NamesAreText
  <2> SUFFICES ASSUME Inv, NameInv, pc["ctl"] \in {"call", "failed"},
                      req.type = "UpdateCameraName", req.cam, req.name.json = "string"
               PROVE  plan.ok <=> /\ Len(req.name.val) \in 1..StringSize - 1
                                  /\ IsText(req.name.val)
    BY DEF NamesAreText
  <2>1. req \in Requests[session] /\ (plan.ok <=> Name(req.name))
    BY DEF NameInv
  <2>2. session \in DOMAIN Requests
    BY DEF Inv, TypeOK, Sessions
  <2>3. PICK s : s = req.name.val
    OBVIOUS
  <2>4. s \in Seq(Bytes)
    BY <2>1, <2>2, <2>3, NameAssumption
  <2>5. Name(req.name) <=> Len(s) < StringSize /\ IsValidUtf8(s) /\ s # <<>>
    BY <2>3 DEF Name, Text, GetStringMember
  <2>6. s # <<>> <=> Len(s) > 0
    BY <2>4, EmptySeq
  <2>7. Len(s) < StringSize /\ Len(s) > 0 <=> Len(s) \in 1..StringSize - 1
    BY <2>4, LenProperties, StringSizeAssumption
  <2>8. IsValidUtf8(s) <=> IsText(s)
    BY <2>4, DecoderIsExact
  <2> QED
    BY <2>1, <2>3, <2>5, <2>6, <2>7, <2>8
<1> QED
  BY <1>1, <1>2, NameNext, Invariance, PTL DEF Spec

=============================================================================
