------------------------ MODULE CommandHandlerProofs -------------------------
(***************************************************************************)
(* Theorems about CommandHandler, for any number of overlapping calls of   *)
(* sendCommand: although all calls share one entry of the map, no two      *)
(* answers reach the same call, a response does not change once it may be  *)
(* read, and no returned call stays in the map.                            *)
(***************************************************************************)
EXTENDS CommandHandler, TLAPS

\* Every variable of sendCommand and commandDoneCallback keeps its type.  (A
\* callback that has found a context holds a call, so SetDone is well typed.)
TypeInv == TypeOK /\ \A a \in Calls : reply[a] = "found" => found[a] \in Calls

\* Every step preserves the types.
LEMMA StepTypeOK == TypeInv /\ [Next]_vars => TypeInv'
<1> SUFFICES ASSUME TypeInv, [Next]_vars PROVE TypeInv'
  OBVIOUS
<1> USE DEF TypeInv, TypeOK, Handles, Returned
<1>1. ASSUME NEW c \in Calls, SendCommand(c) PROVE TypeInv'
  <2>1. CASE StoreContext(c)
    BY <2>1 DEF StoreContext
  <2>2. CASE SendAccepted(c)
    BY <2>2 DEF SendAccepted
  <2>3. CASE SendFails(c) \/ EraseExpired(c)
    BY <2>3 DEF SendFails, EraseExpired
  <2>4. CASE Wait(c) \/ Expire(c)
    BY <2>4 DEF Wait, Expire
  <2>5. CASE WakeUp(c)
    BY <2>5 DEF WakeUp
  <2> QED
    BY <1>1, <2>1, <2>2, <2>3, <2>4, <2>5 DEF SendCommand
<1>2. ASSUME NEW a \in Calls, CommandDone(a) PROVE TypeInv'
  <2>1. CASE AgentAnswers(a)
    BY <2>1 DEF AgentAnswers
  <2>2. CASE FindContext(a)
    BY <2>2 DEF FindContext
  <2>3. CASE SetDone(a)
    BY <2>3 DEF SetDone
  <2> QED
    BY <1>2, <2>1, <2>2, <2>3 DEF CommandDone
<1>3. CASE Finished \/ UNCHANGED vars
  BY <1>3 DEF Finished, vars
<1> QED
  BY <1>1, <1>2, <1>3 DEF Next

-----------------------------------------------------------------------------
(* One context, one answer *)

\* Only the shared handle has an entry, and a call whose context is there has
\* begun and was not given an answer.
MapInv ==
  \A h \in Handles, c \in Calls :
    m_commandContexts[h] = c =>
      /\ h = Dummy
      /\ call[c] # "idle"
      /\ \A a \in Calls : found[a] # c

\* No answer is owed before the command was sent; a callback that took a context
\* was really run, for a call that had begun; and a call is done only by a
\* callback that has ended.
FoundInv ==
  /\ \A c \in Calls : call[c] \in {"idle", "stored"} => reply[c] = "none"
  /\ \A a \in Calls : found[a] # NoCall => reply[a] \in {"found", "delivered"} /\ call[found[a]] # "idle"
  /\ \A c \in Calls : done[c] => \E a \in Calls : reply[a] = "delivered" /\ found[a] = c

AnswerInv == TypeInv /\ MapInv /\ FoundInv /\ OneAnswerPerCall

\* Every step of sendCommand preserves AnswerInv.
LEMMA SendAnswer ==
  ASSUME AnswerInv, NEW c \in Calls, SendCommand(c), TypeInv'
  PROVE  AnswerInv'
<1> USE NoCallAssumption, DummyAssumption
    DEF AnswerInv, TypeInv, TypeOK, MapInv, FoundInv, OneAnswerPerCall, Handles
<1>1. CASE StoreContext(c)
  <2>1. \A a \in Calls : found[a] # c
    BY <1>1 DEF StoreContext
  <2>2. MapInv'
    BY <1>1, <2>1 DEF StoreContext
  <2>3. FoundInv' /\ OneAnswerPerCall'
    BY <1>1 DEF StoreContext
  <2> QED
    BY <2>2, <2>3
<1>2. CASE SendAccepted(c)
  BY <1>2 DEF SendAccepted
<1>3. CASE SendFails(c) \/ EraseExpired(c)
  BY <1>3 DEF SendFails, EraseExpired
<1>4. CASE Wait(c) \/ Expire(c)
  BY <1>4 DEF Wait, Expire
<1>5. CASE WakeUp(c)
  BY <1>5 DEF WakeUp
<1> QED
  BY <1>1, <1>2, <1>3, <1>4, <1>5 DEF SendCommand

\* Every step of commandDoneCallback preserves AnswerInv.
LEMMA DoneAnswer ==
  ASSUME AnswerInv, NEW a \in Calls, CommandDone(a), TypeInv'
  PROVE  AnswerInv'
<1> USE NoCallAssumption, DummyAssumption
    DEF AnswerInv, TypeInv, TypeOK, MapInv, FoundInv, OneAnswerPerCall, Handles
<1>1. CASE AgentAnswers(a)
  BY <1>1 DEF AgentAnswers
<1>2. CASE FindContext(a)
  BY <1>2 DEF FindContext
<1>3. CASE SetDone(a)
  BY <1>3 DEF SetDone
<1> QED
  BY <1>1, <1>2, <1>3 DEF CommandDone

\* AnswerInv is an inductive invariant.
LEMMA AnswerInvariance == Spec => []AnswerInv
<1>1. Init => AnswerInv
  BY NoCallAssumption DEF Init, AnswerInv, TypeInv, TypeOK, MapInv, FoundInv, OneAnswerPerCall, Handles
<1>2. AnswerInv /\ [Next]_vars => AnswerInv'
  <2> SUFFICES ASSUME AnswerInv, [Next]_vars PROVE AnswerInv'
    OBVIOUS
  <2>1. TypeInv'
    BY StepTypeOK DEF AnswerInv
  <2>2. CASE Finished \/ UNCHANGED vars
    BY <2>1, <2>2 DEF Finished, vars, AnswerInv, MapInv, FoundInv, OneAnswerPerCall
  <2> QED
    BY <2>1, <2>2, SendAnswer, DoneAnswer DEF Next
<1> QED
  BY <1>1, <1>2, PTL DEF Spec

\* Every variable of the command handler keeps its type.
THEOREM TypeInvariance == Spec => []TypeOK
<1>1. AnswerInv => TypeOK
  BY DEF AnswerInv, TypeInv
<1> QED
  BY <1>1, AnswerInvariance, PTL

\* No call of sendCommand is given the answers to two commands.
THEOREM OneAnswerPerCallHolds == Spec => []OneAnswerPerCall
<1>1. AnswerInv => OneAnswerPerCall
  BY DEF AnswerInv
<1> QED
  BY <1>1, AnswerInvariance, PTL

\* A response that sendCommand may be reading, without the context's mutex, is
\* never overwritten by a later callback.
THEOREM ResponseStableHolds == Spec => ResponseStable
<1>1. ASSUME AnswerInv, [Next]_vars
      PROVE  [\A c \in Calls : done[c] => response'[c] = response[c] /\ done'[c]]_vars
  <2> SUFFICES ASSUME NEW c \in Calls, done[c]
               PROVE  response'[c] = response[c] /\ done'[c]
    OBVIOUS
  <2>1. ASSUME NEW a \in Calls, SetDone(a) PROVE response'[c] = response[c] /\ done'[c]
    <3>1. PICK b \in Calls : reply[b] = "delivered" /\ found[b] = c
      BY <1>1 DEF AnswerInv, FoundInv
    <3>2. found[a] # c
      BY <1>1, <2>1, <3>1, NoCallAssumption DEF SetDone, AnswerInv, OneAnswerPerCall
    <3> QED
      BY <1>1, <2>1, <3>2 DEF SetDone, AnswerInv, TypeInv, TypeOK
  <2>2. CASE ~\E a \in Calls : SetDone(a)
    <3>1. UNCHANGED <<done, response>>
      BY <1>1, <2>2 DEF Next, SendCommand, CommandDone, StoreContext, SendAccepted, SendFails, Wait, WakeUp,
                  Expire, EraseExpired, AgentAnswers, FindContext, Finished, vars
    <3> QED
      BY <3>1
  <2> QED
    BY <2>1, <2>2
<1> QED
  BY <1>1, AnswerInvariance, PTL DEF Spec, ResponseStable

-----------------------------------------------------------------------------
(* The map and the calls in progress *)

SharedInv == AnswerInv /\ NoStaleContext

\* No context whose handle the agent left alone stays in the map after its
\* call has returned, by whichever way.
THEOREM NoStaleContextHolds == Spec => []NoStaleContext
<1>1. Init => NoStaleContext
  BY NoCallAssumption DEF Init, NoStaleContext, Handles
<1>2. ASSUME SharedInv, AnswerInv', [Next]_vars PROVE SharedInv'
  <2> USE NoCallAssumption, DummyAssumption
      DEF SharedInv, AnswerInv, TypeInv, TypeOK, MapInv, FoundInv, NoStaleContext, Handles
  <2>1. ASSUME NEW c \in Calls, SendCommand(c) PROVE SharedInv'
    <3>1. CASE StoreContext(c)
      BY <1>2, <3>1 DEF StoreContext
    <3>2. CASE SendAccepted(c)
      BY <1>2, <3>2 DEF SendAccepted
    <3>3. CASE SendFails(c) \/ EraseExpired(c)
      BY <1>2, <3>3 DEF SendFails, EraseExpired
    <3>4. CASE Wait(c) \/ Expire(c)
      BY <1>2, <3>4 DEF Wait, Expire
    <3>5. CASE WakeUp(c)
      <4>1. \A h \in Handles : m_commandContexts[h] # c
        BY <1>2, <3>5 DEF WakeUp
      <4> QED
        BY <1>2, <3>5, <4>1 DEF WakeUp
    <3> QED
      BY <2>1, <3>1, <3>2, <3>3, <3>4, <3>5 DEF SendCommand
  <2>2. ASSUME NEW a \in Calls, CommandDone(a) PROVE SharedInv'
    BY <1>2, <2>2 DEF CommandDone, AgentAnswers, FindContext, SetDone
  <2>3. CASE Finished \/ UNCHANGED vars
    BY <1>2, <2>3 DEF Finished, vars
  <2> QED
    BY <1>2, <2>1, <2>2, <2>3 DEF Next
<1>3. SharedInv => NoStaleContext
  BY DEF SharedInv
<1> QED
  BY <1>1, <1>2, <1>3, AnswerInvariance, PTL DEF Spec, SharedInv

-----------------------------------------------------------------------------
(* When a response is the call's own *)

\* A command whose answer will be looked up under the shared handle, or may be.
Pending(c) ==
  call[c] = "stored" \/ (reply[c] \in {"owed", "calling"} /\ handle[c] = Dummy)

\* No context is stored while another command is pending.
OneAtATime ==
  \A c \in Calls : call[c] = "idle" /\ call'[c] = "stored" =>
    \A d \in Calls \ {c} : ~Pending(d)

\* One command is pending, only its context may be found under the shared handle,
\* and a callback found the context of its own command.
AloneInv ==
  /\ \A c, d \in Calls : Pending(c) /\ Pending(d) => c = d
  /\ \A c \in Calls : Pending(c) => m_commandContexts[Dummy] \in {NoCall, c}
  /\ \A a \in Calls : found[a] \in {NoCall, a}

\* A step of sendCommand keeps AloneInv.
LEMMA SendAlone ==
  ASSUME AnswerInv, AloneInv, NEW c \in Calls, SendCommand(c), OneAtATime
  PROVE  AloneInv'
<1> USE NoCallAssumption, DummyAssumption
    DEF AnswerInv, TypeInv, TypeOK, MapInv, FoundInv, AloneInv, Pending, Handles
<1>1. CASE StoreContext(c)
  <2>1. \A d \in Calls \ {c} : ~Pending(d)
    BY <1>1 DEF StoreContext, OneAtATime
  <2> QED
    BY <1>1, <2>1 DEF StoreContext
<1>2. CASE SendAccepted(c)
  BY <1>2 DEF SendAccepted
<1>3. CASE SendFails(c) \/ EraseExpired(c)
  BY <1>3 DEF SendFails, EraseExpired
<1>4. CASE Wait(c) \/ Expire(c) \/ WakeUp(c)
  <2>1. /\ UNCHANGED <<m_commandContexts, handle, reply, found>>
        /\ \A d \in Calls : call'[d] = "stored" => call[d] = "stored"
    BY <1>4 DEF Wait, Expire, WakeUp
  <2> QED
    BY <2>1
<1> QED
  BY <1>1, <1>2, <1>3, <1>4 DEF SendCommand

\* A step of commandDoneCallback keeps AloneInv.
LEMMA DoneAlone ==
  ASSUME AnswerInv, AloneInv, NEW a \in Calls, CommandDone(a)
  PROVE  AloneInv'
<1> USE NoCallAssumption, DummyAssumption
    DEF AnswerInv, TypeInv, TypeOK, MapInv, FoundInv, AloneInv, Pending, Handles
<1>1. CASE AgentAnswers(a)
  BY <1>1 DEF AgentAnswers
<1>2. CASE FindContext(a)
  <2>1. m_commandContexts[handle[a]] \in {NoCall, a}
    BY <1>2 DEF FindContext
  <2> QED
    BY <1>2, <2>1 DEF FindContext
<1>3. CASE SetDone(a)
  BY <1>3 DEF SetDone
<1> QED
  BY <1>1, <1>2, <1>3 DEF CommandDone

\* As long as nobody stores a context while the answer to another command may still
\* be looked up under the shared handle, every call that is done has the response to
\* its own command, however its wait ends and whatever the agent does.  The overlap
\* is thus the whole fault: without it the documented promise holds.
THEOREM OwnResponseOneAtATime == Spec /\ [][OneAtATime]_vars => []OwnResponse
<1>1. Init => AloneInv /\ OwnResponse
  BY NoCallAssumption DEF Init, AloneInv, OwnResponse, Pending
<1>2. AnswerInv /\ AloneInv /\ [Next]_vars /\ [OneAtATime]_vars => AloneInv'
  <2> SUFFICES ASSUME AnswerInv, AloneInv, [Next]_vars, [OneAtATime]_vars PROVE AloneInv'
    OBVIOUS
  <2>1. CASE UNCHANGED vars
    BY <2>1 DEF vars, AloneInv, Pending
  <2>2. CASE ~UNCHANGED vars
    BY <2>1, <2>2, SendAlone, DoneAlone DEF Next, Finished
  <2> QED
    BY <2>1, <2>2
<1>3. AnswerInv /\ AloneInv /\ OwnResponse /\ [Next]_vars => OwnResponse'
  <2> SUFFICES ASSUME AnswerInv, AloneInv, OwnResponse, [Next]_vars PROVE OwnResponse'
    OBVIOUS
  <2>1. ASSUME NEW a \in Calls, SetDone(a) PROVE OwnResponse'
    <3>1. found[a] = a
      BY <2>1, NoCallAssumption DEF SetDone, AloneInv, AnswerInv, TypeInv
    <3> QED
      BY <2>1, <3>1 DEF SetDone, OwnResponse, AnswerInv, TypeInv, TypeOK
  <2>2. CASE ~\E a \in Calls : SetDone(a)
    <3>1. UNCHANGED <<done, response>>
      BY <2>2 DEF Next, SendCommand, CommandDone, StoreContext, SendAccepted, SendFails, Wait, WakeUp,
                  Expire, EraseExpired, AgentAnswers, FindContext, Finished, vars
    <3> QED
      BY <3>1 DEF OwnResponse
  <2> QED
    BY <2>1, <2>2
<1> QED
  BY <1>1, <1>2, <1>3, AnswerInvariance, PTL DEF Spec

=============================================================================
