------------------------------- MODULE Control -------------------------------
(***************************************************************************)
(* A control command from the agent to its answer: controlCallback,        *)
(* controlHandle, the common flow of the handlers (ControlHandlers has     *)
(* what each makes of its request), the call to the system service, the    *)
(* setters and saveToFile of CameraParametersManager and                   *)
(* chtp2p_send_control_done.  The agent's thread delivers one control at a *)
(* time; the application's thread checks HiOSS and saves; the process may  *)
(* die anywhere and start again from its file.                             *)
(***************************************************************************)
EXTENDS ControlHandlers

CONSTANTS
  Requests,  \* the controls the agent may deliver, by session
  NetNo      \* the netNo the server assigned: "net", or the tenant's id

\* The types registerDefaultHandlers has a handler for.
HandledTypes ==
  {"GetCamStatusById", "DeleteCameraInfo", "SetTimeZone", "GetTimeZone", "UpdateCameraName",
   "SetCameraOSD", "SetCameraHD", "SetFlicker", "SetImageQuality", "SetMicrophone",
   "SetNightMode", "SetAutoNightVision", "SetSpeak", "SetFlipUpDown", "SetLED",
   "SetCameraPower", "GetSnapshotHamiCamDevice", "RestartHamiCamDevice", "SetCamStorageDay",
   "SetCamEventStorageDay", "HamiCamFormatSDCard", "HamiCamPtzControlMove",
   "HamiCamPtzControlConfigSpeed", "HamiCamGetPtzControl", "HamiCamPtzControlTourGo",
   "HamiCamPtzControlGoPst", "HamiCamPtzControlConfigPst", "HamiCamHumanTracking",
   "HamiCamPetTracking", "GetHamiCamBindList", "UpgradeHamiCamOTA", "UpdateCameraAISetting",
   "GetCameraAISetting", "GetVideoLiveStream", "StopVideoLiveStream", "GetVideoHistoryStream",
   "StopVideoHistoryStream", "SendAudioStream", "StopAudioStream"}

\* Types without a handler are all alike: the schedule streams, numbers of no type.
ControlTypes == HandledTypes \cup {"Unknown"}

ASSUME RequestAssumption ==
  \A s \in DOMAIN Requests : \A r \in Requests[s] : r.type \in ControlTypes
\* A name that is a string is one of bytes.
ASSUME NameAssumption ==
  \A s \in DOMAIN Requests : \A r \in Requests[s] :
    r.type = "UpdateCameraName" /\ r.cam /\ r.name.json = "string"
      => r.name.val \in Seq(Bytes)
ASSUME NetNoAssumption == NetNo \in {"net", "tenant"}

NoRequest == [type |-> "None", cam |-> FALSE]
Sessions  == DOMAIN Requests

VARIABLES
  session,   \* which of the sets of Requests this agent draws from
  mem,       \* m_parameters, as far as the handlers go
  file,      \* what the configuration file holds ...
  readable,  \* ... unless a save was cut off
  lock,      \* holder of m_mutex across steps
  pc,        \* where each thread is
  req,       \* the control being handled
  plan,      \* what its handler makes of it ...
  nset,      \* ... and how many of its setters have been called
  svcZone,   \* the zone string the system service has, "unknown" until it is given one
  parted,    \* history: what happened since may have parted the zones ...
  unsaved,   \* ... and no save has gone through since the service got its zone
  acked,     \* history: the parameters of the last answers that said success
  saved      \* history: the save of this control went through

vars == <<session, mem, file, readable, lock, pc, req, plan, nset, svcZone,
          parted, unsaved, acked, saved>>
ctlVars == <<session, req, plan, nset, svcZone, parted, unsaved, acked, saved>>

Threads == {"ctl", "app"}
Acked   == {"timeZone", "isHd"}
Zones   == DOMAIN TimezoneMap \cup {NoTimezone}
Ids     == {"", "tenant", "net", "user"}

Params == [tenantId: Ids, netNo: Ids, userId: Ids, timeZone: Zones, isHd: -1..1,
           imageQuality: 0..2, requestId: {"", "live"}, HiOssStatus: BOOLEAN,
           isCheckHioss: BOOLEAN]

\* What a setter is called with; setIsCheckHioss is one, although it sets nothing.
Setters ==
  UNION { {"tenantId", "netNo", "userId"} \X Ids, {"timeZone"} \X Zones, {"isHd"} \X (-1..1),
          {"imageQuality"} \X (0..2), {"requestId"} \X {"", "live"},
          {"HiOssStatus", "isCheckHioss"} \X BOOLEAN }

\* initializeDefaultParameters; no isHd, no requestId; isCheckHioss "0".
Defaults == [tenantId |-> "", netNo |-> "", userId |-> "", timeZone |-> DefaultTimezoneId,
             isHd |-> -1, imageQuality |-> 2, requestId |-> "", HiOssStatus |-> FALSE,
             isCheckHioss |-> FALSE]

\* A camera bound earlier, without a time zone; its file may have come with
\* isCheckHioss set, as for production.
Bound(check) ==
  [Defaults EXCEPT !.tenantId = "tenant", !.netNo = NetNo, !.userId = "user",
                   !.timeZone = NoTimezone, !.isCheckHioss = check]

Steps == {"off", "idle", "gate", "handler", "call", "set", "save", "write", "answer",
          "failed", "done", "stuck"}

None  == -2
NoAck == [k \in Acked |-> None]

\* The steps from the service's answer to the control's.
Storing == {"call", "set", "save", "write", "answer", "stuck"}
Sets(p, k) == \E i \in DOMAIN p.todo : p.todo[i][1] = k

TypeOK ==
  /\ mem \in Params /\ file \in Params /\ readable \in BOOLEAN
  /\ lock \in Threads \cup {"free"}
  /\ pc \in [Threads -> Steps]
  /\ session \in Sessions /\ req \in Requests[session] \cup {NoRequest}
  /\ plan.ok \in BOOLEAN /\ plan.call \in BOOLEAN /\ plan.todo \in Seq(Setters)
  /\ nset \in 0..Len(plan.todo)
  /\ saved \in BOOLEAN /\ parted \in BOOLEAN /\ unsaved \in BOOLEAN
  /\ svcZone \in ZoneStrings \cup {"unknown"}
  /\ acked \in [Acked -> Zones \cup {None}]

Init ==
  /\ mem = Defaults /\ readable = TRUE
  /\ \E check \in BOOLEAN : file = Bound(check)
  /\ lock = "free" /\ pc = [t \in Threads |-> "off"]
  /\ req = NoRequest /\ plan = Reject /\ nset = 0
  /\ svcZone = "unknown" /\ parted = FALSE /\ unsaved = FALSE
  /\ acked = NoAck /\ saved = FALSE
  /\ session \in Sessions

Goto(t, label) == pc' = [pc EXCEPT ![t] = label]

\* Nothing of a control is kept.
Forget ==
  /\ req' = NoRequest /\ plan' = Reject /\ nset' = 0 /\ saved' = FALSE
  /\ UNCHANGED session

-----------------------------------------------------------------------------
(* Start and end of the program *)

\* CameraParametersManager::initialize and the gate that initialize closes.
Start ==
  /\ pc["app"] = "off"
  /\ mem' = [(IF readable THEN file ELSE Defaults) EXCEPT !.HiOssStatus = FALSE]
  /\ file' = (IF readable THEN file ELSE Defaults) /\ readable' = TRUE
  /\ acked' = (IF readable THEN acked ELSE NoAck)
  /\ parted' = (parted \/ ~readable)
  /\ pc' = [t \in Threads |-> "idle"]
  /\ UNCHANGED <<session, lock, req, plan, nset, svcZone, unsaved, saved>>

\* What an unanswered control has stored may or may not be in the file; the system
\* service is another process and keeps its zone.
Crash ==
  /\ pc["app"] # "off"
  /\ pc' = [t \in Threads |-> "off"] /\ lock' = "free" /\ mem' = Defaults
  /\ acked' = [k \in Acked |-> IF pc["ctl"] \in Storing /\ Sets(plan, k) THEN None ELSE acked[k]]
  /\ parted' = (parted \/ unsaved) /\ unsaved' = FALSE
  /\ Forget
  /\ UNCHANGED <<file, readable, svcZone>>

-----------------------------------------------------------------------------
(* saveToFile *)

SaveOpens(t) ==
  /\ pc[t] = "save" /\ lock = "free"
  /\ lock' = t /\ readable' = FALSE
  /\ Goto(t, "write")
  /\ UNCHANGED <<mem, file, ctlVars>>

\* The service was given a zone that the memory does not hold yet.
ZonePending == pc["ctl"] = "set" /\ Sets(plan, "timeZone")

\* A write or a close that fails leaves what was cut off at the opening; nobody
\* looks, and the caller goes on as if the file had been written.
SaveWrites(t) ==
  /\ pc[t] = "write"
  /\ lock' = "free"
  /\ Goto(t, IF t = "ctl" THEN "answer" ELSE "idle")
  /\ \/ /\ file' = mem /\ readable' = TRUE
        /\ saved' = IF t = "ctl" THEN TRUE ELSE saved
        /\ unsaved' = (unsaved /\ ZonePending)
     \/ UNCHANGED <<file, readable, saved, unsaved>>
  /\ UNCHANGED <<session, mem, req, plan, nset, svcZone, parted, acked>>

\* The file cannot be opened; the backup that is written is never read, and the
\* handlers do not look at the result.
SaveFails(t) ==
  /\ pc[t] = "save" /\ lock = "free"
  /\ Goto(t, IF t = "ctl" THEN "answer" ELSE "idle")
  /\ UNCHANGED <<mem, file, readable, lock, ctlVars>>

-----------------------------------------------------------------------------
(* checkHiOSSstatus on the application's thread: the answer's status, a save *)

AppChecks(status) ==
  /\ pc["app"] = "idle" /\ lock = "free"
  /\ mem' = [mem EXCEPT !.HiOssStatus = status]
  /\ Goto("app", "save")
  /\ UNCHANGED <<file, readable, lock, ctlVars>>

-----------------------------------------------------------------------------
(* The agent's thread *)

ControlCallback(r) ==
  /\ pc["ctl"] = "idle"
  /\ req' = r
  /\ Goto("ctl", "gate")
  /\ UNCHANGED <<session, mem, file, readable, lock, plan, nset, svcZone, parted, unsaved, acked, saved>>

HasHandler == req.type \in HandledTypes

\* checkHiOssStatus: a camera that has to be checked first takes no control.
CheckHiOssStatus == ~mem.isCheckHioss /\ mem.HiOssStatus

\* controlHandle builds an error response and returns -1 or -2; controlCallback
\* then returns without handing the response to the agent.
ControlRefused ==
  /\ pc["ctl"] = "gate" /\ lock = "free"
  /\ \/ ~CheckHiOssStatus /\ req.type # "DeleteCameraInfo"
     \/ ~HasHandler
  /\ Goto("ctl", "idle") /\ Forget
  /\ UNCHANGED <<mem, file, readable, lock, svcZone, parted, unsaved, acked>>

ControlAccepted ==
  /\ pc["ctl"] = "gate" /\ lock = "free"
  /\ CheckHiOssStatus \/ req.type = "DeleteCameraInfo"
  /\ HasHandler
  /\ Goto("ctl", "handler")
  /\ UNCHANGED <<mem, file, readable, lock, ctlVars>>

\* m_handlers, filled by registerDefaultHandlers.
Handler(r) ==
  CASE r.type = "GetCamStatusById" -> HandleGetCamStatusById(r, mem)
    [] r.type = "DeleteCameraInfo" -> HandleDeleteCameraInfo(r)
    [] r.type = "SetTimeZone" -> HandleSetTimeZone(r)
    [] r.type = "GetTimeZone" -> HandleGetTimeZone(r, mem)
    [] r.type = "UpdateCameraName" -> HandleUpdateCameraName(r)
    [] r.type = "SetCameraOSD" -> HandleSetCameraOSD(r)
    [] r.type = "SetCameraHD" -> HandleSetCameraHD(r)
    [] r.type = "SetFlicker" -> HandleSetFlicker(r)
    [] r.type = "SetImageQuality" -> HandleSetImageQuality(r)
    [] r.type = "SetMicrophone" -> HandleSetMicrophone(r)
    [] r.type = "SetNightMode" -> HandleSetNightMode(r)
    [] r.type = "SetAutoNightVision" -> HandleSetAutoNightVision(r)
    [] r.type = "SetSpeak" -> HandleSetSpeak(r)
    [] r.type = "SetFlipUpDown" -> HandleSetFlipUpDown(r)
    [] r.type = "SetLED" -> HandleSetLED(r)
    [] r.type = "SetCameraPower" -> HandleSetCameraPower(r)
    [] r.type = "GetSnapshotHamiCamDevice" -> HandleGetSnapshotHamiCamDevice(r)
    [] r.type = "RestartHamiCamDevice" -> HandleRestartHamiCamDevice(r)
    [] r.type = "SetCamStorageDay" -> HandleSetCamStorageDay(r)
    [] r.type = "SetCamEventStorageDay" -> HandleSetCamEventStorageDay(r)
    [] r.type = "HamiCamFormatSDCard" -> HandleHamiCamFormatSDCard(r)
    [] r.type = "HamiCamPtzControlMove" -> HandleHamiCamPtzControlMove(r)
    [] r.type = "HamiCamPtzControlConfigSpeed" -> HandleHamiCamPtzControlConfigSpeed(r)
    [] r.type = "HamiCamGetPtzControl" -> HandleHamiCamGetPtzControl(r)
    [] r.type = "HamiCamPtzControlTourGo" -> HandleHamiCamPtzControlTourGo(r)
    [] r.type = "HamiCamPtzControlGoPst" -> HandleHamiCamPtzControlGoPst(r)
    [] r.type = "HamiCamPtzControlConfigPst" -> HandleHamiCamPtzControlConfigPst(r)
    [] r.type = "HamiCamHumanTracking" -> HandleHamiCamHumanTracking(r)
    [] r.type = "HamiCamPetTracking" -> HandleHamiCamPetTracking(r)
    [] r.type = "GetHamiCamBindList" -> HandleGetHamiCamBindList(r)
    [] r.type = "UpgradeHamiCamOTA" -> HandleUpgradeHamiCamOTA(r)
    [] r.type = "UpdateCameraAISetting" -> HandleUpdateCameraAISetting(r)
    [] r.type = "GetCameraAISetting" -> HandleGetCameraAISetting(r)
    [] r.type = "GetVideoLiveStream" -> HandleGetVideoLiveStream(r)
    [] r.type = "StopVideoLiveStream" -> HandleStopVideoLiveStream(r)
    [] r.type = "GetVideoHistoryStream" -> HandleGetVideoHistoryStream(r)
    [] r.type = "StopVideoHistoryStream" -> HandleStopVideoHistoryStream(r)
    [] r.type = "SendAudioStream" -> HandleSendAudioStream(r)
    [] r.type = "StopAudioStream" -> HandleStopAudioStream(r)

\* Where a plan goes on when the service need not be called, or has agreed.
Stores(p) == IF p.todo = <<>> THEN "answer" ELSE "set"

\* handleWithCommonFlow: the payload parses, its camId is this camera's, and the
\* handler's own checks pass; anything else is caught and becomes an error.
HandleWithCommonFlow ==
  LET p == IF req.cam THEN Handler(req) ELSE Reject IN
  /\ pc["ctl"] = "handler" /\ lock = "free"
  /\ plan' = p
  /\ Goto("ctl", IF ~p.ok THEN "failed" ELSE IF p.call THEN "call" ELSE Stores(p))
  /\ UNCHANGED <<session, mem, file, readable, lock, req, nset, svcZone, parted, unsaved, acked, saved>>

\* The outcomes of a call: carried out; carried out with a code above 0, which
\* only the unbinding takes for a failure; refused; carried out, but the reply is
\* lost or, for GetCameraAISetting, incomplete.
Outcomes == {"done", "warned", "refused", "lost"}

\* Mutant of Satisfied: the service's refusal is not looked at.
SatisfiedAlways(o) == o # "lost"

Satisfied(o) == o = "done" \/ (o = "warned" /\ req.type # "DeleteCameraInfo")

ZoneControls == {"SetTimeZone", "GetTimeZone"}

\* The zones the service may have after outcome o: what it was given, also when
\* the reply is lost; an unbinding may reset it.
ZonesAfter(o) ==
  IF o = "refused" THEN {svcZone}
  ELSE IF req.type \in ZoneControls THEN {plan.wire[1]}
  ELSE IF req.type = "DeleteCameraInfo" THEN {svcZone, TimezoneMap[DefaultTimezoneId]}
  ELSE {svcZone}

\* The camera learns that the service took its zone, and will store it.
ZoneTaken(o) == req.type \in ZoneControls /\ o \in {"done", "warned"}

\* The service may have changed its zone and the camera does not know to what.
ZoneParts(o) ==
  \/ req.type \in ZoneControls /\ o = "lost"
  \/ req.type = "DeleteCameraInfo" /\ o # "refused"

ServiceAnswers(o) ==
  /\ pc["ctl"] = "call"
  /\ svcZone' \in ZonesAfter(o)
  /\ parted' = (ZoneParts(o) \/ (parted /\ ~ZoneTaken(o)))
  /\ unsaved' = (unsaved \/ ZoneTaken(o))
  /\ Goto("ctl", IF Satisfied(o) THEN Stores(plan) ELSE "failed")
  /\ UNCHANGED <<session, mem, file, readable, lock, req, plan, nset, acked, saved>>

\* Mutant of SetParameter: the last setter is not followed by a save.
SetParameterUnsaved ==
  LET set == plan.todo[nset + 1] IN
  /\ pc["ctl"] = "set" /\ lock = "free"
  /\ mem' = IF set[1] = "isCheckHioss" THEN mem ELSE [mem EXCEPT ![set[1]] = set[2]]
  /\ nset' = nset + 1
  /\ Goto("ctl", IF nset' = Len(plan.todo) THEN "answer" ELSE "set")
  /\ saved' = TRUE
  /\ UNCHANGED <<session, file, readable, lock, req, plan, svcZone, parted, unsaved, acked>>

\* The handler's setters, each under the mutex; the last is followed by a save.
\* setIsCheckHioss sets nothing: it calls itself for ever or is compiled away.
SetParameter ==
  LET set == plan.todo[nset + 1] IN
  /\ pc["ctl"] = "set" /\ lock = "free"
  /\ mem' = IF set[1] = "isCheckHioss" THEN mem ELSE [mem EXCEPT ![set[1]] = set[2]]
  /\ nset' = nset + 1
  /\ \/ Goto("ctl", IF nset' = Len(plan.todo) THEN "save" ELSE "set")
     \/ set[1] = "isCheckHioss" /\ Goto("ctl", "stuck")
  /\ UNCHANGED <<session, file, readable, lock, req, plan, svcZone, parted, unsaved, acked, saved>>

\* The success response, handed to the agent with the control's handle.
Answer ==
  /\ pc["ctl"] = "answer"
  /\ Forget
  /\ acked' = [k \in Acked |-> IF ~Sets(plan, k) THEN acked[k]
                               ELSE IF saved THEN mem[k] ELSE None]
  /\ Goto("ctl", "done")
  /\ UNCHANGED <<mem, file, readable, lock, svcZone, parted, unsaved>>

\* Mutant of AnswerError: an exception leaves the result empty.
AnswerErrorEmpty ==
  /\ pc["ctl"] = "failed"
  /\ Forget
  /\ Goto("ctl", "idle")
  /\ UNCHANGED <<mem, file, readable, lock, svcZone, parted, unsaved, acked>>

\* createErrorResponse in the common flow: the result is 0, and sent as well.
AnswerError ==
  /\ pc["ctl"] = "failed"
  /\ Forget
  /\ Goto("ctl", "done")
  /\ UNCHANGED <<mem, file, readable, lock, svcZone, parted, unsaved, acked>>

\* chtp2p_send_control_done has taken the handle back; controlCallback returns.
Return ==
  /\ pc["ctl"] = "done"
  /\ Goto("ctl", "idle")
  /\ UNCHANGED <<mem, file, readable, lock, ctlVars>>

-----------------------------------------------------------------------------

SaveStep(t) == SaveOpens(t) \/ SaveWrites(t) \/ SaveFails(t)

ControlStep ==
  \/ ControlRefused \/ ControlAccepted \/ HandleWithCommonFlow
  \/ \E o \in Outcomes : ServiceAnswers(o)
  \/ SetParameter \/ SaveStep("ctl") \/ Answer \/ AnswerError \/ Return

Next ==
  \/ Start \/ Crash
  \/ \E status \in BOOLEAN : AppChecks(status)
  \/ SaveStep("app")
  \/ \E r \in Requests[session] : ControlCallback(r)
  \/ ControlStep

Spec == Init /\ [][Next]_vars

\* Threads run, the service answers, and a thread that waits for m_mutex gets it
\* when it is free again and again: a save is short and checks are rare.
Fairness == SF_vars(ControlStep) /\ WF_vars(SaveStep("app"))

LiveSpec == Spec /\ Fairness

-----------------------------------------------------------------------------
(* Properties *)

\* Ranges cht_p2p_agent_payload_defined.h gives of the first number on the wire; it
\* gives none of the zones, texts and days.  Not among them are the values it lists
\* of words (cmd, frameType), of a second field (remove) and of the AI settings.
Documented ==
  [SetFlicker |-> 0..2, SetMicrophone |-> 0..10, SetNightMode |-> 0..1,
   SetAutoNightVision |-> 0..1, SetFlipUpDown |-> 0..1, SetLED |-> 0..1,
   SetCameraPower |-> 0..1, HamiCamPtzControlConfigSpeed |-> 0..2,
   HamiCamPtzControlGoPst |-> 1..4, HamiCamPtzControlConfigPst |-> 1..4,
   HamiCamHumanTracking |-> 0..2, HamiCamPetTracking |-> 0..2, UpgradeHamiCamOTA |-> 0..1,
   GetVideoLiveStream |-> 0..2, SendAudioStream |-> 11..13]

\* Whatever JSON types, numbers and texts a payload of these controls carries, the
\* conversions of the handlers let only documented values of that number through
\* to the system service.
OnlyDocumented ==
  pc["ctl"] = "call" /\ req.type \in DOMAIN Documented
    => plan.wire[1] \in Documented[req.type]

\* The well-formed byte sequences of UTF-8 by first and second byte, as Unicode
\* tabulates them; further bytes are 128..191.
WellFormed1 ==
  { <<0, 127, 0, 0, 1>>, <<194, 223, 128, 191, 2>>, <<224, 224, 160, 191, 3>>,
    <<225, 236, 128, 191, 3>>, <<237, 237, 128, 159, 3>>, <<238, 239, 128, 191, 3>>,
    <<240, 240, 144, 191, 4>>, <<241, 243, 128, 191, 4>>, <<244, 244, 128, 143, 4>> }

OneChar(s) ==
  \E w \in WellFormed1 :
    /\ Len(s) = w[5] /\ s[1] \in w[1]..w[2]
    /\ w[5] >= 2 => s[2] \in w[3]..w[4]
    /\ \A k \in 3..w[5] : s[k] \in 128..191

\* s splits into well-formed characters at the ends in cut.
IsText(s) ==
  \E cut \in SUBSET (0..Len(s)) :
    /\ {0, Len(s)} \subseteq cut
    /\ \A i \in cut \ {Len(s)} :
         \E j \in cut : /\ i < j /\ \A k \in cut : k <= i \/ j <= k
                        /\ OneChar(SubSeq(s, i + 1, j))

\* The byte-wise decoder of UpdateCameraName accepts exactly the names that are
\* UTF-8 by the standard's table, are not empty and fit.
NamesAreText ==
  pc["ctl"] \in {"call", "failed"} /\ req.type = "UpdateCameraName" /\ req.cam
      /\ req.name.json = "string"
    => (plan.ok <=> Len(req.name.val) \in 1..StringSize - 1 /\ IsText(req.name.val))

\* The zone the camera reports is the zone the service works with, whatever the
\* service refuses, whichever thread's saves fail or come in between, and across
\* crashes and restarts once a save of the zone went through.  The code does part
\* them, until a later zone control succeeds, where the reply to a zone control is
\* lost, by an unbinding, by a crash before a save of the zone went through, and by
\* a restart from a file that was cut off.
ZoneAgrees ==
  pc["app"] # "off" /\ ~ZonePending /\ svcZone # "unknown" /\ ~parted
    => mem.timeZone \in DOMAIN TimezoneMap /\ TimezoneMap[mem.timeZone] = svcZone

\* A setting whose control was answered with success, after a save that went
\* through, is what the file holds until a later control replaces it, whatever
\* the other thread saves meanwhile and wherever the process dies; only a save
\* cut off, by a crash or by a write that fails, loses it.
AckedIsDurable ==
  readable => \A k \in Acked :
    \/ acked[k] = None \/ file[k] = acked[k]
    \/ pc["ctl"] \in Storing /\ \E i \in 1..nset : plan.todo[i] = <<k, file[k]>>

\* Every control the gate lets in is answered with its handle, whatever its
\* handler throws, unless the process dies or setIsCheckHioss loses the thread.
ControlsAnswered == pc["ctl"] = "handler" ~> pc["ctl"] \in {"done", "off", "stuck"}

=============================================================================
