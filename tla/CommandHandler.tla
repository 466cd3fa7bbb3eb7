--------------------------- MODULE CommandHandler ----------------------------
(***************************************************************************)
(* ChtP2PCameraCommandHandler::sendCommand and commandDoneCallback         *)
(* (cht_p2p_camera_command_handler.cpp): a thread stores its context in    *)
(* m_commandContexts, hands the command to the P2P agent and waits up to   *)
(* ten seconds for the agent's callback, which finds the context by the    *)
(* command handle.  All commands use the address of one static variable as *)
(* handle.  Each call of sendCommand is one element of Calls; calls of     *)
(* different threads overlap.  The agent is external: it may refuse a      *)
(* command, answer it from another thread at any time, or never answer.    *)
(***************************************************************************)
EXTENDS Naturals

CONSTANTS
  Calls,        \* calls of sendCommand
  NoCall,       \* no context under a handle
  Dummy         \* &dummy_handle

ASSUME NoCallAssumption == NoCall \notin Calls
ASSUME DummyAssumption  == Dummy \notin Calls

VARIABLES
  m_commandContexts, \* handle -> call whose context is stored, or NoCall
  call,              \* how far each call of sendCommand has come
  handle,            \* commandHandle of each call
  done,              \* context->done
  response,          \* context->response: the call whose answer it is
  payload,           \* what that answer says
  reply,             \* the agent's answer to each command
  found              \* the context commandDoneCallback took for each answer

vars == <<m_commandContexts, call, handle, done, response, payload, reply, found>>

\* The agent may replace *commandHandle by a handle of its own, a different one
\* for every command.
Handles == Calls \cup {Dummy}

\* What the answer's JSON holds, as far as sendCommand tells it apart.
Payloads == {"code0", "codeError", "result1", "resultOther", "noStatus", "notJson"}

\* The outcome sendCommand computes: an integer "code" decides, else "result".
Accepts(p) == p \in {"code0", "result1"}

Returned == {"true", "sendFailed", "timeout", "badResponse"}

TypeOK ==
  /\ m_commandContexts \in [Handles -> Calls \cup {NoCall}]
  /\ call \in [Calls -> {"idle", "stored", "sent", "waiting", "expired"} \cup Returned]
  /\ handle \in [Calls -> Handles]
  /\ done \in [Calls -> BOOLEAN]
  /\ response \in [Calls -> Calls \cup {NoCall}]
  /\ payload \in [Calls -> Payloads]
  /\ reply \in [Calls -> {"none", "owed", "calling", "found", "delivered"}]
  /\ found \in [Calls -> Calls \cup {NoCall}]

Init ==
  /\ m_commandContexts = [h \in Handles |-> NoCall]
  /\ call = [c \in Calls |-> "idle"]
  /\ handle = [c \in Calls |-> Dummy]
  /\ done = [c \in Calls |-> FALSE]
  /\ response = [c \in Calls |-> NoCall]
  /\ payload \in [Calls -> Payloads]
  /\ reply = [c \in Calls |-> "none"]
  /\ found = [c \in Calls |-> NoCall]

-----------------------------------------------------------------------------
(* sendCommand *)

\* A fresh context is stored under the handle, replacing what was there.
StoreContext(c) ==
  /\ call[c] = "idle"
  /\ call' = [call EXCEPT ![c] = "stored"]
  /\ m_commandContexts' = [m_commandContexts EXCEPT ![Dummy] = c]
  /\ UNCHANGED <<handle, done, response, payload, reply, found>>

\* chtp2p_send_command accepts the command and owes an answer.
SendAccepted(c) ==
  /\ call[c] = "stored"
  /\ call' = [call EXCEPT ![c] = "sent"]
  /\ \E h \in {Dummy, c} : handle' = [handle EXCEPT ![c] = h]
  /\ reply' = [reply EXCEPT ![c] = "owed"]
  /\ UNCHANGED <<m_commandContexts, done, response, payload, found>>

\* It refuses the command: the entry of the handle is erased, whosever it is.
SendFails(c) ==
  /\ call[c] = "stored"
  /\ call' = [call EXCEPT ![c] = "sendFailed"]
  /\ m_commandContexts' = [m_commandContexts EXCEPT ![handle[c]] = NoCall]
  /\ UNCHANGED <<handle, done, response, payload, reply, found>>

\* chtp2p_send_command has returned; the call takes context->mutex and waits.
Wait(c) ==
  /\ call[c] = "sent"
  /\ call' = [call EXCEPT ![c] = "waiting"]
  /\ UNCHANGED <<m_commandContexts, handle, done, response, payload, reply, found>>

\* Mutant of WakeUp: the response's status is returned as it is.
WakeUpRaw(c) ==
  /\ call[c] = "waiting" /\ done[c]
  /\ call' = [call EXCEPT ![c] = payload[response[c]]]
  /\ UNCHANGED <<m_commandContexts, handle, done, response, payload, reply, found>>

\* wait_for sees context->done; the response decides what the call returns.
WakeUp(c) ==
  /\ call[c] = "waiting" /\ done[c]
  /\ call' = [call EXCEPT ![c] =
                IF Accepts(payload[response[c]]) THEN "true" ELSE "badResponse"]
  /\ UNCHANGED <<m_commandContexts, handle, done, response, payload, reply, found>>

\* Mutant of Expire: wait instead of wait_for, only a done command ends it.
ExpireNever(c) ==
  /\ call[c] = "waiting" /\ done[c]
  /\ call' = [call EXCEPT ![c] = "expired"]
  /\ UNCHANGED <<m_commandContexts, handle, done, response, payload, reply, found>>

\* Ten seconds have passed and done is still false ...
Expire(c) ==
  /\ call[c] = "waiting" /\ ~done[c]
  /\ call' = [call EXCEPT ![c] = "expired"]
  /\ UNCHANGED <<m_commandContexts, handle, done, response, payload, reply, found>>

\* Mutant of EraseExpired: the context stays in the map.
EraseExpiredKeeps(c) ==
  /\ call[c] = "expired"
  /\ call' = [call EXCEPT ![c] = "timeout"]
  /\ UNCHANGED <<m_commandContexts, handle, done, response, payload, reply, found>>

\* ... so the handle's entry is erased, under m_mutex and context->mutex.
EraseExpired(c) ==
  /\ call[c] = "expired"
  /\ call' = [call EXCEPT ![c] = "timeout"]
  /\ m_commandContexts' = [m_commandContexts EXCEPT ![handle[c]] = NoCall]
  /\ UNCHANGED <<handle, done, response, payload, reply, found>>

SendCommand(c) ==
  \/ StoreContext(c) \/ SendAccepted(c) \/ SendFails(c)
  \/ Wait(c) \/ WakeUp(c) \/ Expire(c) \/ EraseExpired(c)

-----------------------------------------------------------------------------
(* commandDoneCallback, run by the agent with the answer to command a *)

AgentAnswers(a) ==
  /\ reply[a] = "owed"
  /\ reply' = [reply EXCEPT ![a] = "calling"]
  /\ UNCHANGED <<m_commandContexts, call, handle, done, response, payload, found>>

\* Mutant of FindContext: the entry is not erased.
FindContextKeeps(a) ==
  /\ reply[a] = "calling"
  /\ found' = [found EXCEPT ![a] = m_commandContexts[handle[a]]]
  /\ reply' = [reply EXCEPT ![a] =
                 IF m_commandContexts[handle[a]] = NoCall THEN "delivered" ELSE "found"]
  /\ UNCHANGED <<m_commandContexts, call, handle, done, response, payload>>

\* Under m_mutex: find the context of the handle and erase the entry.
FindContext(a) ==
  /\ reply[a] = "calling"
  /\ found' = [found EXCEPT ![a] = m_commandContexts[handle[a]]]
  /\ m_commandContexts' = [m_commandContexts EXCEPT ![handle[a]] = NoCall]
  /\ reply' = [reply EXCEPT ![a] =
                 IF m_commandContexts[handle[a]] = NoCall THEN "delivered" ELSE "found"]
  /\ UNCHANGED <<call, handle, done, response, payload>>

\* Under context->mutex, which an expiring call holds until it returns: store
\* the answer, set done, notify.
SetDone(a) ==
  /\ reply[a] = "found" /\ call[found[a]] # "expired"
  /\ done' = [done EXCEPT ![found[a]] = TRUE]
  /\ response' = [response EXCEPT ![found[a]] = a]
  /\ reply' = [reply EXCEPT ![a] = "delivered"]
  /\ UNCHANGED <<m_commandContexts, call, handle, payload, found>>

CommandDone(a) == AgentAnswers(a) \/ FindContext(a) \/ SetDone(a)

\* Every call has returned and every callback has ended.
Finished ==
  /\ \A c \in Calls : call[c] \in Returned /\ reply[c] \in {"none", "owed", "delivered"}
  /\ UNCHANGED vars

Next == (\E c \in Calls : SendCommand(c) \/ CommandDone(c)) \/ Finished

Spec == Init /\ [][Next]_vars

\* The threads run and wait_for keeps its ten seconds.  Nobody promises that
\* the agent answers, but a callback that has begun goes on.
Fairness ==
  \A c \in Calls :
    /\ WF_vars(Wait(c)) /\ WF_vars(WakeUp(c)) /\ WF_vars(Expire(c)) /\ WF_vars(EraseExpired(c))
    /\ WF_vars(SendAccepted(c) \/ SendFails(c))
    /\ WF_vars(FindContext(c)) /\ WF_vars(SetDone(c))

FairSpec == Spec /\ Fairness

-----------------------------------------------------------------------------
(* Properties *)

\* The map never keeps a context whose call has already returned: whichever way
\* sendCommand is left, and whatever other calls did to the one shared entry
\* meanwhile, an answer that comes later is never looked up to a dead call.
\* (A call whose handle the agent replaced erases the wrong entry when it
\* times out, so it is left out.)
NoStaleContext ==
  \A h \in Handles, c \in Calls :
     m_commandContexts[h] = c /\ handle[c] = Dummy
        => call[c] \in {"stored", "sent", "waiting", "expired"}

\* No two answers are ever given to the same call: commandDoneCallback removes
\* the entry in the critical section in which it finds it.
OneAnswerPerCall ==
  \A a, b \in Calls : a # b /\ found[a] # NoCall => found[a] # found[b]

\* A response, once a call may read it, does not change under the reader: line
\* 1793 reads context->response without context->mutex.
ResponseStable ==
  [][\A c \in Calls : done[c] => response'[c] = response[c] /\ done'[c]]_vars

\* No call blocks for ever, whatever the agent does.
CallsReturn == \A c \in Calls : call[c] = "stored" ~> call[c] \in Returned

\* cht_p2p_agent_c.h: the handle is brought back with the completion of the
\* command it was given for, so a response belongs to its own command.
OwnResponse == \A c \in Calls : done[c] => response[c] = c

=============================================================================
