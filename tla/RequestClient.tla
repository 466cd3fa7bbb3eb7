---------------------------- MODULE RequestClient ----------------------------
(***************************************************************************)
(* A call to the system service: ipc_client_executeReqRep                  *)
(* (zwsystem_ipc_client.cpp) on a RequestHandler of its own                *)
(* (NngIpcRequestHandler.cpp), against a service that may crash, restart,  *)
(* refuse, answer something malformed or not answer.  Every call has its   *)
(* own socket, so m_mutex is never contended and one step is one method.   *)
(*                                                                         *)
(* nng is external: a request socket sends its request again when the pipe *)
(* breaks and when its resend time has passed, and takes only the first    *)
(* reply to its outstanding request.                                       *)
(***************************************************************************)
EXTENDS Integers, FiniteSets

CONSTANTS
  Calls,       \* threads that call executeReqRep, one call at a time
  FirstId,     \* g_u16MsgId when the calls begin: 0, or later in its life
  IdRange,     \* how many values g_u16MsgId has: 2^16 in the code
  Capacity,    \* workers of the service's ResponseHandler: 4 in the code
  Answers,     \* what the service's callback may do with a request
  MaxDraws,    \* bound on calls made
  MaxCrashes   \* bound on crashes of the service

ASSUME IdAssumption       == /\ IdRange \in Nat /\ IdRange >= 4 /\ IdRange % 2 = 0
                             /\ FirstId \in 0..IdRange - 1
ASSUME CapacityAssumption == Capacity \in Nat \ {0}
ASSUME BoundAssumption    == MaxDraws \in Nat /\ MaxCrashes \in Nat
ASSUME AnswerAssumption   ==
  Answers \subseteq {"ok", "refused", "malformed", "none"}

VARIABLES
  g_u16MsgId,  \* the last id given out, guarded by g_IdMutex
  drawn,       \* history: how many ids were given out
  wireId,      \* u16Headers[0] of each call's request
  order,       \* history: which draw gave the call its id
  pc,          \* where each call is
  m_sock,      \* the handler's socket
  m_msg,       \* the handler's message
  owned,       \* history: nng messages the call allocated or received, less
               \* those it freed or handed to nng
  recv,        \* the malloc'ed copy of the reply: "null" or the reply
  rc,          \* what the call returns; 1 while it runs
  atService,   \* a call's request at the service: not there, queued, taken by
               \* a worker, or the answer the worker is about to send
  executed,    \* whether the service carried the command out
  reply,       \* the reply on its way to the call's socket
  serviceUp, crashes,
  clientUp     \* FALSE: the client's process has died

idVars   == <<g_u16MsgId, drawn, wireId, order>>
sockVars == <<m_sock, m_msg, owned, recv>>
netVars  == <<atService, executed, reply, serviceUp, crashes>>
vars == <<idVars, pc, sockVars, rc, netVars, clientUp>>

Replies == {"ok", "refused", "malformed"}

Steps == {"idle", "create", "header", "payload", "send", "recv", "check",
          "copy", "release", "done"}

TypeOK ==
  /\ g_u16MsgId \in 0..IdRange - 1 /\ drawn \in 0..MaxDraws
  /\ wireId \in [Calls -> 0..IdRange - 1] /\ order \in [Calls -> Nat]
  /\ pc \in [Calls -> Steps]
  /\ m_sock \in [Calls -> {"none", "dialled"}]
  /\ m_msg \in [Calls -> {"null", "header", "full", "reply"}]
  /\ owned \in [Calls -> -1..1]
  /\ recv \in [Calls -> Replies \cup {"null"}]
  /\ rc \in [Calls -> -6..1]
  /\ atService \in [Calls -> {"no", "queued", "taken"} \cup Answers]
  /\ executed \in [Calls -> BOOLEAN]
  /\ reply \in [Calls -> Replies \cup {"none"}]
  /\ serviceUp \in BOOLEAN /\ crashes \in 0..MaxCrashes /\ clientUp \in BOOLEAN

Init ==
  /\ g_u16MsgId = FirstId /\ drawn = 0
  /\ wireId = [c \in Calls |-> 0] /\ order = [c \in Calls |-> 0]
  /\ pc = [c \in Calls |-> "idle"]
  /\ m_sock = [c \in Calls |-> "none"] /\ m_msg = [c \in Calls |-> "null"]
  /\ owned = [c \in Calls |-> 0] /\ recv = [c \in Calls |-> "null"]
  /\ rc = [c \in Calls |-> 1]
  /\ atService = [c \in Calls |-> "no"]
  /\ executed = [c \in Calls |-> FALSE] /\ reply = [c \in Calls |-> "none"]
  /\ serviceUp \in BOOLEAN /\ crashes = 0 /\ clientUp = TRUE

At(c, step) == clientUp /\ pc[c] = step

GoTo(c, step) == pc' = [pc EXCEPT ![c] = step]

\* A break out of the do block: what is left is to free and to return.
Break(c, code) ==
  /\ rc' = [rc EXCEPT ![c] = code]
  /\ GoTo(c, "release")

-----------------------------------------------------------------------------
(* The message id *)

\* ++ on a uint16_t, passing over 0.
NextId(id) == IF id = IdRange - 1 THEN 1 ELSE id + 1

\* (id << 1) | 0 as the uint16_t parameter of zwsystem_ipc_msg_init.
Header(id) == (2 * id) % IdRange

\* A thread that has returned from its call forgets it and may call again.
TakeId(c, id) ==
  /\ At(c, "idle") \/ At(c, "done")
  /\ drawn < MaxDraws
  /\ g_u16MsgId' = id /\ drawn' = drawn + 1
  /\ wireId' = [wireId EXCEPT ![c] = Header(id)]
  /\ order' = [order EXCEPT ![c] = drawn + 1]
  /\ GoTo(c, "create")
  /\ rc' = [rc EXCEPT ![c] = 1]
  /\ executed' = [executed EXCEPT ![c] = FALSE]
  /\ UNCHANGED <<sockVars, atService, reply, serviceUp, crashes, clientUp>>

\* Mutant of GetMsgId: the counter is read before the lock is taken.
GetMsgIdUnlocked(c) == \E seen \in {g_u16MsgId, (g_u16MsgId - 1) % IdRange} :
                         TakeId(c, NextId(seen))

GetMsgId(c) == TakeId(c, NextId(g_u16MsgId))

-----------------------------------------------------------------------------
(* RequestHandler *)

\* create: open and dial; a handler that fails to is destroyed, which closes
\* its socket.
CreateFails(c) ==
  /\ At(c, "create")
  /\ rc' = [rc EXCEPT ![c] = -2]
  /\ GoTo(c, "done")
  /\ UNCHANGED <<idVars, sockVars, netVars, clientUp>>

Create(c) ==
  /\ At(c, "create") /\ serviceUp
  /\ m_sock' = [m_sock EXCEPT ![c] = "dialled"]
  /\ GoTo(c, "header")
  /\ UNCHANGED <<idVars, m_msg, owned, recv, rc, netVars, clientUp>>

\* append: the first call allocates the message, a failed one frees it.
AppendFails(c) ==
  /\ At(c, "header") \/ At(c, "payload")
  /\ m_msg' = [m_msg EXCEPT ![c] = "null"]
  /\ owned' = [owned EXCEPT ![c] = 0]
  /\ Break(c, -3)
  /\ UNCHANGED <<idVars, m_sock, recv, netVars, clientUp>>

AppendHeader(c) ==
  /\ At(c, "header")
  /\ m_msg' = [m_msg EXCEPT ![c] = "header"]
  /\ owned' = [owned EXCEPT ![c] = @ + 1]
  /\ GoTo(c, "payload")
  /\ UNCHANGED <<idVars, m_sock, recv, rc, netVars, clientUp>>

AppendPayload(c) ==
  /\ At(c, "payload")
  /\ m_msg' = [m_msg EXCEPT ![c] = "full"]
  /\ GoTo(c, "send")
  /\ UNCHANGED <<idVars, m_sock, owned, recv, rc, netVars, clientUp>>

\* Mutant of SendFails: m_msg keeps the freed message.
SendFailsDangling(c) ==
  /\ At(c, "send")
  /\ owned' = [owned EXCEPT ![c] = @ - 1]
  /\ Break(c, -4)
  /\ UNCHANGED <<idVars, m_sock, m_msg, recv, netVars, clientUp>>

SendFails(c) ==
  /\ At(c, "send")
  /\ m_msg' = [m_msg EXCEPT ![c] = "null"]
  /\ owned' = [owned EXCEPT ![c] = @ - 1]
  /\ Break(c, -4)
  /\ UNCHANGED <<idVars, m_sock, recv, netVars, clientUp>>

\* nng_sendmsg takes the message over; the service's socket gets it when it
\* is up, and the resend below when it is not.
Send(c) ==
  /\ At(c, "send")
  /\ m_msg' = [m_msg EXCEPT ![c] = "null"]
  /\ owned' = [owned EXCEPT ![c] = @ - 1]
  /\ GoTo(c, "recv")
  /\ atService' = IF serviceUp THEN [atService EXCEPT ![c] = "queued"]
                  ELSE atService
  /\ UNCHANGED <<idVars, m_sock, recv, rc, executed, reply, serviceUp, crashes,
                 clientUp>>

\* recv: nng_recvmsg without a timeout, then the copy, which malloc may refuse.
RecvFails(c) ==
  /\ At(c, "recv")
  /\ Break(c, -5)
  /\ UNCHANGED <<idVars, sockVars, netVars, clientUp>>

Recv(c) ==
  /\ At(c, "recv") /\ reply[c] # "none"
  /\ \E copied \in BOOLEAN :
       recv' = [recv EXCEPT ![c] = IF copied THEN reply[c] ELSE "null"]
  /\ reply' = [reply EXCEPT ![c] = "none"]
  /\ GoTo(c, "check")
  /\ UNCHANGED <<idVars, m_sock, m_msg, owned, rc, atService, executed,
                 serviceUp, crashes, clientUp>>

\* Mutant of Check: the result in the header is not looked at.
CheckFormOnly(c) ==
  /\ At(c, "check")
  /\ \/ /\ recv[c] \in {"null", "malformed"} /\ Break(c, -5)
     \/ /\ recv[c] \in {"ok", "refused"} /\ GoTo(c, "copy") /\ UNCHANGED rc
  /\ UNCHANGED <<idVars, sockVars, netVars, clientUp>>

\* The header's checks: size, FourCC and HdrSize (-5), then the result, the
\* command and the payload's size (-6).  The id is not compared.
Check(c) ==
  /\ At(c, "check")
  /\ \/ /\ recv[c] \in {"null", "malformed"} /\ Break(c, -5)
     \/ /\ recv[c] = "refused" /\ Break(c, -6)
     \/ /\ recv[c] = "ok" /\ GoTo(c, "copy") /\ UNCHANGED rc
  /\ UNCHANGED <<idVars, sockVars, netVars, clientUp>>

\* memcpy(pRep, pIpcRepMsg->pu8Payload, rep_size): the pointer is read out of
\* the bytes of the reply, so the copy brings anything, or ends the process.
CopyReply(c) ==
  /\ At(c, "copy")
  /\ Break(c, 0)
  /\ clientUp' \in BOOLEAN
  /\ UNCHANGED <<idVars, sockVars, netVars>>

\* free(recv), and the handler's destructor: release.  With the socket
\* closed nobody waits for an answer, and the model forgets the request.
Release(c) ==
  /\ At(c, "release")
  /\ recv' = [recv EXCEPT ![c] = "null"]
  /\ owned' = [owned EXCEPT ![c] = IF m_msg[c] = "null" THEN @ ELSE @ - 1]
  /\ m_msg' = [m_msg EXCEPT ![c] = "null"]
  /\ m_sock' = [m_sock EXCEPT ![c] = "none"]
  /\ reply' = [reply EXCEPT ![c] = "none"]
  /\ atService' = [atService EXCEPT ![c] = "no"]
  /\ GoTo(c, "done")
  /\ UNCHANGED <<idVars, rc, executed, serviceUp, crashes, clientUp>>

-----------------------------------------------------------------------------
(* nng and the service *)

Waiting(c) == pc[c] = "recv" /\ m_sock[c] = "dialled" /\ reply[c] = "none"

\* The pipe broke and the service is back, or the resend time has passed: the
\* service may get a request that it has already carried out.
Resend(c) ==
  /\ clientUp /\ serviceUp /\ Waiting(c)
  /\ atService[c] = "no"
  /\ atService' = [atService EXCEPT ![c] = "queued"]
  /\ UNCHANGED <<idVars, pc, sockVars, rc, executed, reply, serviceUp, crashes,
                 clientUp>>

Busy == {c \in Calls : atService[c] \in {"taken"} \cup Answers}

Take(c) ==
  /\ serviceUp /\ atService[c] = "queued"
  /\ Cardinality(Busy) < Capacity
  /\ atService' = [atService EXCEPT ![c] = "taken"]
  /\ UNCHANGED <<idVars, pc, sockVars, rc, executed, reply, serviceUp, crashes,
                 clientUp>>

\* Mutant of Execute: the answer is lost.
ExecuteSilent(c) ==
  /\ serviceUp /\ atService[c] = "taken"
  /\ executed' = [executed EXCEPT ![c] = TRUE]
  /\ atService' = [atService EXCEPT ![c] = "no"]
  /\ UNCHANGED <<idVars, pc, sockVars, rc, reply, serviceUp, crashes, clientUp>>

\* The service's callback decides on its answer; a refused command has no
\* effect.  The callback of zwsystem_ipc_service.cpp is empty: it answers "none".
Execute(c) ==
  /\ serviceUp /\ atService[c] = "taken"
  /\ \E a \in Answers :
       /\ executed' = [executed EXCEPT ![c] = @ \/ a # "refused"]
       /\ atService' = [atService EXCEPT ![c] = a]
  /\ UNCHANGED <<idVars, pc, sockVars, rc, reply, serviceUp, crashes, clientUp>>

\* The reply reaches a socket that still waits for it, or is dropped.
Answer(c) ==
  /\ serviceUp /\ atService[c] \in Answers
  /\ reply' = IF atService[c] # "none" /\ Waiting(c)
                THEN [reply EXCEPT ![c] = atService[c]] ELSE reply
  /\ atService' = [atService EXCEPT ![c] = "no"]
  /\ UNCHANGED <<idVars, pc, sockVars, rc, executed, serviceUp, crashes, clientUp>>

Crash ==
  /\ serviceUp /\ crashes < MaxCrashes
  /\ serviceUp' = FALSE /\ crashes' = crashes + 1
  /\ atService' = [c \in Calls |-> "no"]
  /\ UNCHANGED <<idVars, pc, sockVars, rc, executed, reply, clientUp>>

Restart ==
  /\ ~serviceUp
  /\ serviceUp' = TRUE
  /\ UNCHANGED <<idVars, pc, sockVars, rc, atService, executed, reply, crashes,
                 clientUp>>

-----------------------------------------------------------------------------
ClientStep(c) ==
  \/ GetMsgId(c) \/ Create(c) \/ CreateFails(c)
  \/ AppendHeader(c) \/ AppendPayload(c) \/ AppendFails(c)
  \/ Send(c) \/ SendFails(c) \/ Recv(c) \/ RecvFails(c)
  \/ Check(c) \/ CopyReply(c) \/ Release(c)

\* With the client's process everything the module is about ends.
Next ==
  /\ clientUp
  /\ \/ \E c \in Calls : ClientStep(c)
     \/ \E c \in Calls :
          Resend(c) \/ Take(c) \/ Execute(c) \/ Answer(c)
     \/ Crash \/ Restart

Spec == Init /\ [][Next]_vars

\* A call's own thread runs.  RecvFails is not assumed to happen: an nng
\* receive without a timeout need not end by itself.  Requests that wait are taken
\* in turn, so none is passed over for ever.
ClientRuns(c) ==
  \/ Create(c) \/ CreateFails(c) \/ AppendHeader(c) \/ AppendPayload(c)
  \/ Send(c) \/ Recv(c) \/ Check(c) \/ CopyReply(c) \/ Release(c)

Fairness ==
  /\ \A c \in Calls : WF_vars(ClientRuns(c))
  /\ \A c \in Calls : /\ WF_vars(Resend(c))
                     /\ SF_vars(Take(c))
                     /\ WF_vars(Execute(c) \/ Answer(c))
  /\ WF_vars(Restart)

LiveSpec == Spec /\ Fairness

-----------------------------------------------------------------------------
(* Properties *)

\* A call that returns 0 was carried out by the service at least once, however
\* often the service crashed and the request was sent again
\* (zwsystem_ipc_client.cpp:74-76).
SuccessMeansExecuted == \A c \in Calls : rc[c] = 0 => executed[c]

\* When a call returns, on any of its paths, its socket is closed, every nng
\* message it allocated was freed or handed over exactly once and its copy of
\* the reply is freed (NngIpcRequestHandler.cpp:85-89, 104-108, 145-159).
NothingLeft ==
  \A c \in Calls :
    /\ owned[c] >= 0
    /\ pc[c] = "done" => /\ m_sock[c] = "none"
                         /\ owned[c] = 0 /\ recv[c] = "null"

InFlight(c) == pc[c] \notin {"idle", "done"}

\* The ids of overlapping calls differ on the wire unless half of the id space
\* was given out between them: the shift in zwsystem_ipc_client.cpp:43 drops
\* the highest bit, so ids that differ there only collide.
OverlappingIdsDiffer ==
  \A c, d \in Calls :
    (InFlight(c) /\ InFlight(d) /\ order[c] < order[d] /\ wireId[c] = wireId[d])
      => order[d] - order[c] >= (IdRange \div 2) - 1

\* Every call returns, through crashes, restarts, lost replies and malformed ones,
\* unless copying a reply ends the process or the service's callback, again and
\* again, leaves the request without a reply, as the one in
\* zwsystem_ipc_service.cpp:18-21 does: the receive in NngIpcRequestHandler.cpp:124
\* has no timeout.
CallsReturn ==
  \A c \in Calls : InFlight(c) ~> (pc[c] = "done" \/ ~clientUp \/ atService[c] = "none")

=============================================================================
