------------------------------- MODULE Binding -------------------------------
(***************************************************************************)
(* The life of a camera's binding: the parameters of                       *)
(* CameraParametersManager that hold it, in memory and in the              *)
(* configuration file; the application's thread that binds, registers and  *)
(* checks HiOSS (ChtP2PCameraCommandHandler); the agent's thread that      *)
(* delivers control commands, the unbinding among them                     *)
(* (ChtP2PCameraControlHandler); and crashes, at any point, with restarts. *)
(*                                                                         *)
(* Each setter takes and releases the manager's mutex on its own;          *)
(* saveToFile holds it while it truncates and rewrites the file.  The      *)
(* agent, the server and the system service are external: every command    *)
(* may fail, and other threads run while one is under way.                 *)
(***************************************************************************)
EXTENDS Naturals, Sequences

CONSTANTS
  Users,   \* users the camera can be bound to
  NoUser   \* the value of a cleared parameter

ASSUME NoUserAssumption == NoUser \notin Users

VARIABLES
  mem,     \* m_parameters, as far as the binding goes
  file,    \* what the configuration file holds ...
  readable,\* ... unless it is missing or a save was cut off
  lock,    \* holder of m_mutex across steps: "free", "app" or "ctl"
  pc,      \* where each thread is
  todo,    \* the setters a thread has still to call
  user,    \* the user the application is binding to
  control, \* the type of the control command being handled
  wipe,    \* history: a successful unbinding and no bind since
  granted  \* history: HiOSS said yes since the program started

vars == <<mem, file, readable, lock, pc, todo, user, control, wipe, granted>>
history == <<wipe, granted>>

Threads  == {"app", "ctl"}
Controls == {"DeleteCameraInfo", "Other", "Unknown"}

\* The parameters the server assigns when the camera is bound, in the order in
\* which bindCameraReport and handleDeleteCameraInfo set them.
BindKeys   == <<"camSid", "tenantId", "userId", "netNo">>
BindFields == {"camSid", "tenantId", "userId", "netNo"}
Params == [camSid: Users \cup {NoUser}, tenantId: Users \cup {NoUser},
           userId: Users \cup {NoUser}, netNo: Users \cup {NoUser},
           publicIp: BOOLEAN, HiOssStatus: BOOLEAN, isCheckHioss: BOOLEAN]

\* initializeDefaultParameters: not bound, isCheckHioss "0", no HiOssStatus
\* (which reads as false), a placeholder for publicIp.
Defaults == [camSid |-> NoUser, tenantId |-> NoUser, userId |-> NoUser,
             netNo |-> NoUser, publicIp |-> FALSE, HiOssStatus |-> FALSE,
             isCheckHioss |-> FALSE]

\* A configuration file shipped for production sets isCheckHioss.
Shipped == [Defaults EXCEPT !.isCheckHioss = TRUE]

Steps == {"off", "load", "idle", "reply", "set", "flag", "hioss", "save", "write",
          "gate", "execute", "answer", "stuck"}

TypeOK ==
  /\ mem \in Params
  /\ file \in Params /\ readable \in BOOLEAN
  /\ lock \in Threads \cup {"free"}
  /\ pc \in [Threads -> Steps]
  /\ todo \in [Threads -> Seq(BindFields \cup {"publicIp"})]
  /\ user \in Users
  /\ control \in Controls
  /\ wipe \in {"no", "clearing", "done"}
  /\ granted \in BOOLEAN

Init ==
  /\ mem = Defaults
  /\ file \in {Defaults, Shipped} /\ readable \in BOOLEAN
  /\ lock = "free"
  /\ pc = [t \in Threads |-> "off"]
  /\ todo = [t \in Threads |-> <<>>]
  /\ user \in Users
  /\ control = "Other"
  /\ wipe = "no" /\ granted = FALSE

Goto(t, label) == pc' = [pc EXCEPT ![t] = label]

-----------------------------------------------------------------------------
(* CameraParametersManager *)

\* setParameter of one key; waits for the mutex.
SetParameter(key, value) ==
  /\ lock = "free"
  /\ mem' = [mem EXCEPT ![key] = value]

\* setIsCheckHioss(bool) calls itself for ever: the thread is lost, the stack
\* overflows (a Crash), or the compiler drops the call.  It sets nothing.
SetIsCheckHioss(t, label) ==
  /\ Goto(t, label) \/ Goto(t, "stuck")
  /\ UNCHANGED mem

\* saveToFile: lock, truncate ...
SaveOpens(t) ==
  /\ pc[t] = "save" /\ lock = "free"
  /\ lock' = t /\ readable' = FALSE /\ file' = Defaults  \* what it held is gone
  /\ Goto(t, "write")
  /\ UNCHANGED <<mem, todo, user, control, history>>

\* ... write all parameters, close, unlock.  Nobody looks whether the write and
\* the close went through: the file may stay cut off, and true is returned.
SaveWrites(t) ==
  /\ pc[t] = "write"
  /\ lock' = "free"
  /\ \/ file' = mem /\ readable' = TRUE
     \/ UNCHANGED file /\ readable' = FALSE
  /\ Goto(t, IF t = "ctl" THEN "answer" ELSE "idle")
  /\ wipe' = IF t = "ctl" /\ wipe = "clearing" THEN "done" ELSE wipe
  /\ UNCHANGED <<mem, todo, user, control, granted>>

\* The file cannot be opened: the parameters go to ./ipcam_params.json, which
\* loadFromFile does not read, or nowhere.  Every caller goes on.
SaveFails(t) ==
  /\ pc[t] = "save" /\ lock = "free"
  /\ Goto(t, IF t = "ctl" THEN "answer" ELSE "idle")
  /\ wipe' = IF t = "ctl" THEN "no" ELSE wipe
  /\ UNCHANGED <<mem, file, readable, lock, todo, user, control, granted>>

\* initialize(): loadFromFile reads what the file holds; nobody else runs yet.
LoadFromFile ==
  /\ pc["app"] = "load" /\ readable
  /\ mem' = file
  /\ Goto("app", "flag")
  /\ UNCHANGED <<file, readable, lock, todo, user, control, history>>

\* It cannot be read: the defaults are used and saved.  A save that is cut off
\* leaves the file as unreadable as it was.
UseDefaults ==
  /\ pc["app"] = "load" /\ ~readable
  /\ mem' = Defaults /\ file' = Defaults /\ readable' \in BOOLEAN
  /\ Goto("app", "flag")
  /\ UNCHANGED <<lock, todo, user, control, history>>

-----------------------------------------------------------------------------
(* The program starts, and may die at any time *)

Start ==
  /\ pc["app"] = "off"
  /\ Goto("app", "load")
  /\ UNCHANGED <<mem, file, readable, lock, todo, user, control, history>>

Crash ==
  /\ pc["app"] # "off"
  /\ pc' = [t \in Threads |-> "off"]
  /\ todo' = [t \in Threads |-> <<>>]
  /\ lock' = "free"
  /\ mem' = Defaults
  /\ wipe' = IF wipe = "clearing" THEN "no" ELSE wipe
  /\ granted' = FALSE
  /\ UNCHANGED <<file, readable, user, control>>

\* ChtP2PCameraAPI::initialize: setIsCheckHioss(false) ...
InitFlag ==
  /\ pc["app"] = "flag" /\ pc["ctl"] = "off"
  /\ SetIsCheckHioss("app", "hioss")
  /\ UNCHANGED <<file, readable, lock, todo, user, control, history>>

\* Mutant of InitGate: the loaded HiOssStatus is kept.
InitGateKeeps ==
  /\ pc["app"] = "hioss" /\ pc["ctl"] = "off"
  /\ pc' = [app |-> "idle", ctl |-> "idle"]
  /\ UNCHANGED <<mem, file, readable, lock, todo, user, control, history>>

\* ... setHiOssStatus(false), then chtp2p_initialize: controls may come.
InitGate ==
  /\ pc["app"] = "hioss" /\ pc["ctl"] = "off"
  /\ SetParameter("HiOssStatus", FALSE)
  /\ pc' = [app |-> "idle", ctl |-> "idle"]
  /\ UNCHANGED <<file, readable, lock, todo, user, control, history>>

-----------------------------------------------------------------------------
(* ChtP2PCameraCommandHandler, on the application's thread *)

\* bindCamera: the Wi-Fi is changed, the system service asked, and
\* bindCameraReport sends its command.
BindCamera(u) ==
  /\ pc["app"] = "idle"
  /\ user' = u
  /\ todo' = [todo EXCEPT !["app"] = BindKeys]
  /\ Goto("app", "reply")
  /\ UNCHANGED <<mem, file, readable, lock, control, history>>

\* cameraRegister, whose answer brings the public IP.
CameraRegister ==
  /\ pc["app"] = "idle"
  /\ todo' = [todo EXCEPT !["app"] = <<"publicIp">>]
  /\ Goto("app", "reply")
  /\ UNCHANGED <<mem, file, readable, lock, user, control, history>>

\* The answer is what was expected: the parameters are set one by one.
CommandSucceeds ==
  /\ pc["app"] = "reply" /\ todo["app"] # <<>>
  /\ Goto("app", "set")
  /\ UNCHANGED <<mem, file, readable, lock, todo, user, control, history>>

\* No answer, a refusal, or another camera's answer: nothing is set.
CommandFails ==
  /\ pc["app"] = "reply"
  /\ Goto("app", "idle")
  /\ todo' = [todo EXCEPT !["app"] = <<>>]
  /\ UNCHANGED <<mem, file, readable, lock, user, control, history>>

SetNext ==
  LET key == Head(todo["app"]) IN
  /\ pc["app"] = "set" /\ todo["app"] # <<>>
  /\ SetParameter(key, IF key = "publicIp" THEN TRUE ELSE user)
  /\ todo' = [todo EXCEPT !["app"] = Tail(@)]
  /\ wipe' = IF key = "publicIp" THEN wipe ELSE "no"
  /\ UNCHANGED <<file, readable, lock, pc, user, control, granted>>

SetAll ==
  /\ pc["app"] = "set" /\ todo["app"] = <<>>
  /\ Goto("app", "save")
  /\ UNCHANGED <<mem, file, readable, lock, todo, user, control, history>>

\* checkHiOSSstatus sends its command ...
CheckHiOSS ==
  /\ pc["app"] = "idle"
  /\ todo' = [todo EXCEPT !["app"] = <<>>]
  /\ Goto("app", "reply")
  /\ UNCHANGED <<mem, file, readable, lock, user, control, history>>

\* ... and stores the status of the answer, then setIsCheckHioss(true).
CheckAnswered(status) ==
  /\ pc["app"] = "reply" /\ todo["app"] = <<>>
  /\ SetParameter("HiOssStatus", status)
  /\ Goto("app", "flag")
  /\ granted' = (granted \/ status)
  /\ UNCHANGED <<file, readable, lock, todo, user, control, wipe>>

CheckFlag ==
  /\ pc["app"] = "flag" /\ pc["ctl"] # "off"
  /\ SetIsCheckHioss("app", "save")
  /\ UNCHANGED <<file, readable, lock, todo, user, control, history>>

-----------------------------------------------------------------------------
(* ChtP2PCameraControlHandler, on the agent's thread *)

ControlCallback(type) ==
  /\ pc["ctl"] = "idle"
  /\ control' = type
  /\ Goto("ctl", "gate")
  /\ UNCHANGED <<mem, file, readable, lock, todo, user, history>>

CheckHiOssStatus == ~mem.isCheckHioss /\ mem.HiOssStatus

\* controlHandle: filtered, or of a type without a handler (-1, -2); then
\* controlCallback returns without telling the agent.
ControlRefused ==
  /\ pc["ctl"] = "gate" /\ lock = "free"
  /\ \/ ~CheckHiOssStatus /\ control # "DeleteCameraInfo"
     \/ control = "Unknown"
  /\ Goto("ctl", "idle")
  /\ UNCHANGED <<mem, file, readable, lock, todo, user, control, history>>

ControlAccepted ==
  /\ pc["ctl"] = "gate" /\ lock = "free"
  /\ control # "Unknown"
  /\ CheckHiOssStatus \/ control = "DeleteCameraInfo"
  /\ Goto("ctl", "execute")
  /\ UNCHANGED <<mem, file, readable, lock, todo, user, control, history>>

\* Some other handler, or an unbinding for another camera, or one the system
\* service refuses: a result is returned and the binding left alone.
ControlExecuted ==
  /\ pc["ctl"] = "execute"
  /\ Goto("ctl", "idle")
  /\ UNCHANGED <<mem, file, readable, lock, todo, user, control, history>>

\* Mutant of DeleteBegins: netNo is forgotten.
DeleteBeginsForgets ==
  /\ pc["ctl"] = "execute" /\ control = "DeleteCameraInfo"
  /\ todo' = [todo EXCEPT !["ctl"] = <<"camSid", "tenantId", "userId", "publicIp">>]
  /\ Goto("ctl", "set")
  /\ wipe' = "clearing"
  /\ UNCHANGED <<mem, file, readable, lock, user, control, granted>>

\* handleDeleteCameraInfo, once the system service has agreed.
DeleteBegins ==
  /\ pc["ctl"] = "execute" /\ control = "DeleteCameraInfo"
  /\ todo' = [todo EXCEPT !["ctl"] = Append(BindKeys, "publicIp")]
  /\ Goto("ctl", "set")
  /\ wipe' = "clearing"
  /\ UNCHANGED <<mem, file, readable, lock, user, control, granted>>

DeleteClears ==
  LET key == Head(todo["ctl"]) IN
  /\ pc["ctl"] = "set" /\ todo["ctl"] # <<>>
  /\ SetParameter(key, IF key = "publicIp" THEN FALSE ELSE NoUser)
  /\ todo' = [todo EXCEPT !["ctl"] = Tail(@)]
  /\ UNCHANGED <<file, readable, lock, pc, user, control, history>>

DeleteFlag ==
  /\ pc["ctl"] = "set" /\ todo["ctl"] = <<>>
  /\ SetIsCheckHioss("ctl", "hioss")
  /\ UNCHANGED <<file, readable, lock, todo, user, control, history>>

DeleteGate ==
  /\ pc["ctl"] = "hioss"
  /\ SetParameter("HiOssStatus", FALSE)
  /\ Goto("ctl", "save")
  /\ UNCHANGED <<file, readable, lock, todo, user, control, history>>

\* The result is sent with chtp2p_send_control_done.
DeleteAnswers ==
  /\ pc["ctl"] = "answer"
  /\ Goto("ctl", "idle")
  /\ UNCHANGED <<mem, file, readable, lock, todo, user, control, history>>

-----------------------------------------------------------------------------

AppStep ==
  \/ LoadFromFile \/ UseDefaults \/ InitFlag \/ InitGate
  \/ CommandSucceeds \/ CommandFails \/ SetNext \/ SetAll
  \/ (\E status \in BOOLEAN : CheckAnswered(status)) \/ CheckFlag

AppCalls == (\E u \in Users : BindCamera(u)) \/ CameraRegister \/ CheckHiOSS

ControlStep ==
  \/ ControlRefused \/ ControlAccepted \/ ControlExecuted
  \/ DeleteBegins \/ DeleteClears \/ DeleteFlag \/ DeleteGate \/ DeleteAnswers

SaveStep(t) == SaveOpens(t) \/ SaveWrites(t) \/ SaveFails(t)

Next ==
  \/ Start \/ Crash
  \/ AppCalls \/ AppStep
  \/ \E type \in Controls : ControlCallback(type)
  \/ ControlStep
  \/ \E t \in Threads : SaveStep(t)

Spec == Init /\ [][Next]_vars

-----------------------------------------------------------------------------
(* Properties *)

Unbound(p) == \A k \in BindFields : p[k] = NoUser

\* An unbinding is final: once it was saved, and until the next bind, neither
\* the parameters in memory nor the file name a user, whatever else is saved
\* meanwhile and wherever the program crashes and restarts.
UnboundStaysUnbound ==
  wipe = "done" => Unbound(mem) /\ (readable => Unbound(file))

\* A control other than the unbinding is only ever executed after HiOSS has
\* answered yes in this run of the program: the permission saved by an earlier
\* run is not used again, and an unbinding grants none.  The handler's comments
\* (273-280, 750-754) say that an unbinding opens the gate; line 749 closes it,
\* and the run of UnbindingOpensGate shows that they cannot both be right.
GateNeedsGrant == pc["ctl"] = "execute" /\ control = "Other" => granted

\* What those comments say, "after an unbinding was executed all commands are
\* accepted again": between a saved unbinding and the next bind no control that
\* has a handler is refused.  The code does not do this.
UnbindingOpensGate == [][ControlRefused /\ wipe = "done" => control = "Unknown"]_vars

=============================================================================
