------------------------------ MODULE AioWorker ------------------------------
(***************************************************************************)
(* llt::nngipc::AioWorker (NngIpcAioWorker.cpp): one nng context driven by *)
(* one nng_aio.  Every completion of the aio runs process() on an nng      *)
(* thread, and process() ends by submitting the next operation.            *)
(*                                                                         *)
(* process() is cut where another thread can act in between: reading the   *)
(* state, the result and m_stopping (ProcessEnter), the user's callback    *)
(* (Callback), and the submission of the next operation (Submit).  What    *)
(* nng does (completing operations, nng_aio_stop) is modelled from how the *)
(* worker uses it; a context's aio keeps its message pointer from one      *)
(* operation to the next, and a stopped aio refuses operations silently.   *)
(***************************************************************************)
EXTENDS Naturals, FiniteSets

CONSTANTS
  Workers,   \* the AioWorker objects of one handler
  Msgs,      \* nng_msg objects: each is received at most once
  NoMsg,     \* the NULL message pointer
  Kind,      \* the worker's TYPE: "Response" or "Subscribe"
  Replies,   \* whether the OutputCallback may produce a reply
  Faults     \* what may fail: a receive ("recv"), the sending of a reply
             \* ("send"), nng_msg_append ("append")

ASSUME WorkersAssumption == IsFiniteSet(Workers)
ASSUME NoMsgAssumption  == NoMsg \notin Msgs
ASSUME KindAssumption   == Kind \in {"Response", "Subscribe"}
ASSUME RepliesAssumption == Replies \in SUBSET BOOLEAN
ASSUME FaultsAssumption == Faults \subseteq {"recv", "send", "append"}

VARIABLES
  m_state,     \* STATE of each worker, guarded by m_stateMutex
  m_stopping,  \* plain bool, written by stop() and read by process()
  pc,          \* where the running process() of each worker is
  next,        \* the operation process() is about to submit
  aioOp,       \* the operation outstanding on the aio
  aioResult,   \* what nng_aio_result returns
  aioMsg,      \* what nng_aio_get_msg returns
  aioStopped,  \* nng_aio_stop was called on the aio
  aioFreed,    \* nng_aio_free was called on the aio
  msgs,        \* life of each message
  badFree      \* history: messages freed by somebody who did not own them

workerVars == <<m_state, m_stopping, pc, next>>
aioVars    == <<aioOp, aioResult, aioMsg, aioStopped, aioFreed>>
msgVars    == <<msgs, badFree>>

States  == {"INIT", "RECV", "SEND", "ERROR"}
Ops     == {"recv", "send", "sleep"}
Results == {"OK", "ECANCELED", "ECLOSED", "EOTHER"}

\* A message is on the wire, queued in the socket, owned by the worker, owned
\* again by the socket (a reply), or freed.
MsgStates == {"wire", "queued", "held", "sent", "freed"}

WorkerTypeOK ==
  /\ m_state \in [Workers -> States]
  /\ m_stopping \in [Workers -> BOOLEAN]
  /\ pc \in [Workers -> {"idle", "process", "callback", "submit"}]
  /\ next \in [Workers -> Ops]
  /\ aioOp \in [Workers -> Ops \cup {"none"}]
  /\ aioResult \in [Workers -> Results]
  /\ aioMsg \in [Workers -> Msgs \cup {NoMsg}]
  /\ aioStopped \in [Workers -> BOOLEAN]
  /\ aioFreed \in [Workers -> BOOLEAN]
  /\ msgs \in [Msgs -> MsgStates]
  /\ badFree \in SUBSET Msgs

\* A worker as the constructor and init() leave it: state INIT, a fresh aio.
WorkerInit ==
  /\ m_state = [w \in Workers |-> "INIT"]
  /\ m_stopping = [w \in Workers |-> FALSE]
  /\ pc = [w \in Workers |-> "idle"]
  /\ next = [w \in Workers |-> "recv"]
  /\ aioOp = [w \in Workers |-> "none"]
  /\ aioResult = [w \in Workers |-> "OK"]
  /\ aioMsg = [w \in Workers |-> NoMsg]
  /\ aioStopped = [w \in Workers |-> FALSE]
  /\ aioFreed = [w \in Workers |-> FALSE]
  /\ msgs = [m \in Msgs |-> "wire"]
  /\ badFree = {}

-----------------------------------------------------------------------------
(* process() *)

\* nng_msg_free on a pointer, guarded by "if (msg)".
FreeMsg(m) ==
  /\ msgs' = [x \in Msgs |-> IF x = m THEN "freed" ELSE msgs[x]]
  /\ badFree' = badFree \cup {x \in Msgs : x = m /\ msgs[x] # "held"}

\* Mutant of GoTo: the two values swapped.
GoToSwapped(w, state, op) ==
  /\ m_state' = [m_state EXCEPT ![w] = op]
  /\ next' = [next EXCEPT ![w] = op]
  /\ pc' = [pc EXCEPT ![w] = "submit"]
  /\ UNCHANGED m_stopping

\* Set the state under m_stateMutex and go on to submit an operation.
GoTo(w, state, op) ==
  /\ m_state' = [m_state EXCEPT ![w] = state]
  /\ next' = [next EXCEPT ![w] = op]
  /\ pc' = [pc EXCEPT ![w] = "submit"]
  /\ UNCHANGED m_stopping

\* Cancelled, closed or stopping: free whatever the aio points to and return
\* without submitting anything.
ProcessQuit(w) ==
  /\ pc[w] = "process"
  /\ aioResult[w] \in {"ECANCELED", "ECLOSED"} \/ m_stopping[w]
  /\ FreeMsg(aioMsg[w])
  /\ pc' = [pc EXCEPT ![w] = "idle"]
  /\ UNCHANGED <<m_state, m_stopping, next, aioVars>>

\* Mutant of ProcessError: free the message whatever the state was.
ProcessErrorFrees(w) ==
  /\ pc[w] = "process"
  /\ aioResult[w] = "EOTHER" /\ ~m_stopping[w]
  /\ FreeMsg(aioMsg[w])
  /\ GoTo(w, "ERROR", "sleep")
  /\ UNCHANGED aioVars

\* Mutant of ProcessError: return without sleeping and receiving again.
ProcessErrorGivesUp(w) ==
  /\ pc[w] = "process"
  /\ aioResult[w] = "EOTHER" /\ ~m_stopping[w]
  /\ pc' = [pc EXCEPT ![w] = "idle"]
  /\ UNCHANGED <<m_state, m_stopping, next, aioVars, msgVars>>

\* Any other error: give up a reply that could not be sent and sleep a second.
\* The aio keeps its message pointer.
ProcessError(w) ==
  /\ pc[w] = "process"
  /\ aioResult[w] = "EOTHER" /\ ~m_stopping[w]
  /\ IF m_state[w] = "SEND" THEN FreeMsg(aioMsg[w]) ELSE UNCHANGED msgVars
  /\ GoTo(w, "ERROR", "sleep")
  /\ UNCHANGED aioVars

\* Success in INIT, SEND or ERROR: receive (again).
ProcessReceive(w) ==
  /\ pc[w] = "process"
  /\ aioResult[w] = "OK" /\ ~m_stopping[w]
  /\ m_state[w] \in {"INIT", "SEND", "ERROR"}
  /\ GoTo(w, "RECV", "recv")
  /\ UNCHANGED <<aioVars, msgVars>>

\* Mutant of ProcessMessage: any success is taken for a received message.
ProcessMessageAnyState(w) ==
  /\ pc[w] = "process"
  /\ aioResult[w] = "OK" /\ ~m_stopping[w]
  /\ pc' = [pc EXCEPT ![w] = "callback"]
  /\ UNCHANGED <<m_state, m_stopping, next, aioVars, msgVars>>

\* Success in RECV: hand the message to the user's callback.
ProcessMessage(w) ==
  /\ pc[w] = "process"
  /\ aioResult[w] = "OK" /\ ~m_stopping[w]
  /\ m_state[w] = "RECV"
  /\ pc' = [pc EXCEPT ![w] = "callback"]
  /\ UNCHANGED <<m_state, m_stopping, next, aioVars, msgVars>>

\* The callback returns a reply: it is appended to the emptied request message
\* and the worker goes on to send it.
CallbackReply(w) ==
  /\ pc[w] = "callback"
  /\ TRUE \in Replies
  /\ GoTo(w, "SEND", "send")
  /\ UNCHANGED <<aioVars, msgVars>>

\* nng_msg_append fails: the message is freed (the aio still points to it) and
\* the worker sleeps.
CallbackReplyFails(w) ==
  /\ pc[w] = "callback"
  /\ TRUE \in Replies /\ "append" \in Faults
  /\ FreeMsg(aioMsg[w])
  /\ GoTo(w, "ERROR", "sleep")
  /\ UNCHANGED aioVars

\* The callback returns no reply: receive again.  The message is not freed.
CallbackNoReply(w) ==
  /\ pc[w] = "callback"
  /\ FALSE \in Replies
  /\ GoTo(w, "RECV", "recv")
  /\ UNCHANGED <<aioVars, msgVars>>

\* nng_ctx_recv, nng_ctx_send and nng_sleep_aio.
Submit(w) ==
  /\ pc[w] = "submit"
  /\ pc' = [pc EXCEPT ![w] = "idle"]
  /\ IF aioStopped[w]
       THEN aioResult' = [aioResult EXCEPT ![w] = "ECANCELED"] /\ UNCHANGED aioOp
       ELSE /\ aioResult' = [aioResult EXCEPT ![w] = "OK"]
            /\ aioOp' = [aioOp EXCEPT ![w] = next[w]]
  /\ UNCHANGED <<m_state, m_stopping, next, aioMsg, aioStopped, aioFreed, msgVars>>

Process(w) ==
  \/ ProcessQuit(w) \/ ProcessError(w) \/ ProcessReceive(w) \/ ProcessMessage(w)
  \/ CallbackReply(w) \/ CallbackReplyFails(w) \/ CallbackNoReply(w)
  \/ Submit(w)

-----------------------------------------------------------------------------
(* nng: a completed operation runs process() through process_wrapper *)

\* Common part of every completion.
Complete(w, op, result) ==
  /\ aioOp[w] = op
  /\ aioOp' = [aioOp EXCEPT ![w] = "none"]
  /\ aioResult' = [aioResult EXCEPT ![w] = result]
  /\ pc' = [pc EXCEPT ![w] = "process"]
  /\ UNCHANGED <<m_state, m_stopping, next, aioStopped, aioFreed, badFree>>

RecvDone(w, m) ==
  /\ msgs[m] = "queued"
  /\ Complete(w, "recv", "OK")
  /\ aioMsg' = [aioMsg EXCEPT ![w] = m]
  /\ msgs' = [msgs EXCEPT ![m] = "held"]

RecvFails(w) ==
  /\ "recv" \in Faults
  /\ Complete(w, "recv", "EOTHER")
  /\ UNCHANGED <<aioMsg, msgs>>

\* A rep0 context accepts the reply and takes the message.  A send that fails
\* leaves the message with the caller; a sub0 context's always does (NNG_ENOTSUP).
SendDone(w) ==
  \/ /\ Kind = "Response"
     /\ Complete(w, "send", "OK")
     /\ msgs' = [m \in Msgs |-> IF m = aioMsg[w] THEN "sent" ELSE msgs[m]]
     /\ aioMsg' = [aioMsg EXCEPT ![w] = NoMsg]
  \/ /\ Kind = "Subscribe" \/ "send" \in Faults
     /\ Complete(w, "send", "EOTHER")
     /\ UNCHANGED <<aioMsg, msgs>>

SleepDone(w) ==
  /\ Complete(w, "sleep", "OK")
  /\ UNCHANGED <<aioMsg, msgs>>

\* A peer's message reaches the socket.
Arrive(m) ==
  /\ msgs[m] = "wire"
  /\ msgs' = [msgs EXCEPT ![m] = "queued"]
  /\ UNCHANGED <<workerVars, aioVars, badFree>>

NngCompletes(w) ==
  \/ \E m \in Msgs : RecvDone(w, m)
  \/ RecvFails(w) \/ SendDone(w) \/ SleepDone(w)

-----------------------------------------------------------------------------
(* stop() and release(), called by the handler's thread *)

\* stop(), first half: m_stopping = true.
StopFlag(w) ==
  /\ m_stopping' = [m_stopping EXCEPT ![w] = TRUE]
  /\ UNCHANGED <<m_state, pc, next, aioVars, msgVars>>

\* stop(), second half: nng_aio_stop refuses new operations and cancels the
\* outstanding one, whose callback still runs.  It returns when AioIdle(w).
AioStop(w) ==
  /\ aioStopped' = [aioStopped EXCEPT ![w] = TRUE]
  /\ IF aioOp[w] = "none"
       THEN UNCHANGED <<aioOp, aioResult, pc>>
       ELSE /\ aioOp' = [aioOp EXCEPT ![w] = "none"]
            /\ aioResult' = [aioResult EXCEPT ![w] = "ECANCELED"]
            /\ pc' = [pc EXCEPT ![w] = "process"]
  /\ UNCHANGED <<m_state, m_stopping, next, aioMsg, aioFreed, msgVars>>

AioIdle(w) == pc[w] = "idle" /\ aioOp[w] = "none"

\* worker_free_wrapper: nng_aio_free and nng_ctx_close.
FreeAio(w) ==
  /\ aioFreed' = [aioFreed EXCEPT ![w] = TRUE]
  /\ UNCHANGED <<workerVars, aioOp, aioResult, aioMsg, aioStopped, msgVars>>

=============================================================================
