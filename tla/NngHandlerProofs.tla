-------------------------- MODULE NngHandlerProofs ---------------------------
(***************************************************************************)
(* Theorems about NngHandler, for any number of workers and messages and   *)
(* either kind of handler: type correctness, the orderly life of the       *)
(* workers' aios (LifeInv), the refinement of RequestService (WorkInv) and *)
(* the ownership of messages (OwnInv).                                     *)
(***************************************************************************)
EXTENDS NngHandler, FiniteSetTheorems, TLAPS

-----------------------------------------------------------------------------
(* Type correctness *)

\* The initial states are well typed.
LEMMA InitTypeOK == Init => TypeOK
<1>1. WorkerInit => WorkerTypeOK
  BY DEF WorkerInit, WorkerTypeOK, States, Ops, Results, MsgStates
<1> QED
  BY <1>1 DEF Init, TypeOK, StopLoops

\* Every step of process() keeps the types.
LEMMA ProcessTypeOK ==
  ASSUME TypeOK, NEW w \in Workers, WorkerStep(w)
  PROVE  TypeOK'
<1> USE DEF TypeOK, WorkerTypeOK, handlerVars, aioVars, msgVars, States, Ops, Results, MsgStates
<1>1. CASE ProcessQuit(w)
  BY <1>1 DEF WorkerStep, ProcessQuit, FreeMsg
<1>2. CASE ProcessError(w)
  BY <1>2 DEF WorkerStep, ProcessError, FreeMsg, GoTo
<1>3. CASE ProcessReceive(w)
  BY <1>3 DEF WorkerStep, ProcessReceive, GoTo
<1>4. CASE ProcessMessage(w)
  BY <1>4 DEF WorkerStep, ProcessMessage
<1>5. CASE CallbackReply(w)
  BY <1>5 DEF WorkerStep, CallbackReply, GoTo
<1>6. CASE CallbackReplyFails(w)
  BY <1>6 DEF WorkerStep, CallbackReplyFails, FreeMsg, GoTo
<1>7. CASE CallbackNoReply(w)
  BY <1>7 DEF WorkerStep, CallbackNoReply, GoTo
<1>8. CASE Submit(w)
  BY <1>8 DEF WorkerStep, Submit
<1> QED
  BY <1>1, <1>2, <1>3, <1>4, <1>5, <1>6, <1>7, <1>8 DEF WorkerStep, Process

\* Every completion of an nng operation keeps the types.
LEMMA NngTypeOK ==
  ASSUME TypeOK, NEW w \in Workers, NngStep(w)
  PROVE  TypeOK'
<1> USE DEF TypeOK, WorkerTypeOK, handlerVars, States, Ops, Results, MsgStates, Complete
<1>1. CASE \E m \in Msgs : RecvDone(w, m)
  BY <1>1 DEF NngStep, RecvDone
<1>2. CASE RecvFails(w)
  BY <1>2 DEF NngStep, RecvFails
<1>3. CASE SendDone(w)
  BY <1>3 DEF NngStep, SendDone
<1>4. CASE SleepDone(w)
  BY <1>4 DEF NngStep, SleepDone
<1> QED
  BY <1>1, <1>2, <1>3, <1>4 DEF NngStep, NngCompletes

\* Every step of the handler's control thread keeps the types.
LEMMA HandlerTypeOK ==
  ASSUME TypeOK, HandlerStep \/ Create \/ Free
  PROVE  TypeOK'
<1> USE DEF TypeOK, WorkerTypeOK, workerVars, aioVars, msgVars, StopLoops, States, Ops, Results, MsgStates
<1>1. CASE Create
  BY <1>1 DEF Create
<1>2. CASE \E w \in Workers : CreateWorker(w) \/ CreateWorkerFails(w)
  BY <1>2 DEF CreateWorker, CreateWorkerFails
<1>3. CASE InitDone \/ Listen \/ ListenFails \/ Started \/ Free
  BY <1>3, ZenonT(60) DEF InitDone, Listen, ListenFails, Started, Free
<1>4. CASE \E w \in Workers : StartWorker(w)
  BY <1>4 DEF StartWorker
<1>5. CASE \E w \in Workers : StopBegin(w)
  BY <1>5 DEF StopBegin, StopFlag
<1>6. CASE StopAio
  BY <1>6 DEF StopAio, AioStop
<1>7. CASE StopEnd
  <2>1. CASE hpc = "release"
    BY <1>7, <2>1, ZenonT(60) DEF StopEnd, FreeAio
  <2>2. CASE hpc # "release"
    BY <1>7, <2>2 DEF StopEnd
  <2> QED
    BY <2>1, <2>2
<1>8. CASE StopReturns
  BY <1>8 DEF StopReturns
<1>9. CASE CloseSocket
  BY <1>9 DEF CloseSocket
<1> QED
  BY <1>1, <1>2, <1>3, <1>4, <1>5, <1>6, <1>7, <1>8, <1>9 DEF HandlerStep

\* Every variable of the handler, its workers and nng keeps its type.
THEOREM TypeInvariance == Spec => []TypeOK
<1>1. TypeOK /\ [Next]_vars => TypeOK'
  <2> SUFFICES ASSUME TypeOK, [Next]_vars PROVE TypeOK'
    OBVIOUS
  <2>1. CASE \E w \in Workers : WorkerStep(w) \/ NngStep(w)
    BY <2>1, ProcessTypeOK, NngTypeOK
  <2>2. CASE \E m \in Msgs : PeerSends(m)
    BY <2>2 DEF PeerSends, Arrive, TypeOK, WorkerTypeOK, handlerVars, workerVars, aioVars, MsgStates
  <2>3. CASE HandlerStep \/ Create \/ Free
    BY <2>3, HandlerTypeOK
  <2>4. CASE Crashed \/ UNCHANGED vars
    BY <2>4 DEF Crashed, vars, handlerVars, workerVars, aioVars, msgVars, TypeOK, WorkerTypeOK
  <2> QED
    BY <2>1, <2>2, <2>3, <2>4 DEF Next
<1> QED
  BY InitTypeOK, <1>1, PTL DEF Spec

-----------------------------------------------------------------------------
(* The life of the workers' aios *)

Ups == {"init", "created", "start", "running"}

\* The loops of stop() and release() visit the pool's workers, one at a time.
LifeLoops ==
  /\ hpc \in StopLoops \cup {"start"} => todo \subseteq m_workers
  /\ hpc \in StopLoops /\ step # "flag" => cur \in todo
  /\ hpc \notin StopLoops => step = "flag"

\* Which workers have neither a callback running nor an operation outstanding.
LifeQuiet ==
  /\ hpc \notin {"start", "running", "stop"} => \A w \in Workers : AioIdle(w)
  /\ hpc = "start" => \A w \in todo : AioIdle(w)
  /\ hpc = "stop" => \A w \in m_workers \ todo : AioIdle(w)
  /\ \A w \in Workers \ m_workers : AioIdle(w)

\* Aios are freed by release() only.
LifeFreed == hpc \notin {"release", "none"} => \A w \in Workers : ~aioFreed[w]

\* Until stop() is called nothing is stopped or cancelled.
LifeUp ==
  hpc \in Ups =>
    \A w \in Workers :
      /\ ~m_stopping[w] /\ ~aioStopped[w]
      /\ pc[w] = "process" => aioResult[w] \in {"OK", "EOTHER"}

\* A started worker always has something that will wake it.
LifeBusy ==
  /\ hpc = "start" => \A w \in m_workers \ todo : ~AioIdle(w)
  /\ hpc = "running" => \A w \in m_workers : ~AioIdle(w)

LifeInv == TypeOK /\ LifeLoops /\ LifeQuiet /\ LifeFreed /\ LifeUp /\ LifeBusy

\* What a step of one worker or its aio does to the rest of the system.
LEMMA WorkerFrame ==
  ASSUME TypeOK, NEW w \in Workers, WorkerStep(w) \/ NngStep(w)
  PROVE  /\ UNCHANGED <<handlerVars, m_stopping, aioStopped, aioFreed>>
         /\ ~AioIdle(w)
         /\ \A v \in Workers \ {w} :
              pc'[v] = pc[v] /\ aioOp'[v] = aioOp[v] /\ aioResult'[v] = aioResult[v]
<1> USE DEF TypeOK, WorkerTypeOK, AioIdle, aioVars, handlerVars
<1>1. CASE WorkerStep(w)
  <2>1. CASE ProcessQuit(w)
    BY <1>1, <2>1 DEF WorkerStep, ProcessQuit
  <2>2. CASE ProcessError(w) \/ ProcessReceive(w)
    BY <1>1, <2>2 DEF WorkerStep, ProcessError, ProcessReceive, GoTo
  <2>3. CASE ProcessMessage(w)
    BY <1>1, <2>3 DEF WorkerStep, ProcessMessage
  <2>4. CASE CallbackReply(w) \/ CallbackReplyFails(w) \/ CallbackNoReply(w)
    BY <1>1, <2>4 DEF WorkerStep, CallbackReply, CallbackReplyFails, CallbackNoReply, GoTo
  <2>5. CASE Submit(w)
    BY <1>1, <2>5 DEF WorkerStep, Submit
  <2> QED
    BY <1>1, <2>1, <2>2, <2>3, <2>4, <2>5 DEF WorkerStep, Process
<1>2. CASE NngStep(w)
  BY <1>2 DEF NngStep, NngCompletes, RecvDone, RecvFails, SendDone, SleepDone, Complete
<1> QED
  BY <1>1, <1>2

\* While nothing is stopped, a worker that has something to do still has
\* something to do after its step, and no cancelled result reaches process().
LEMMA WorkerStaysBusy ==
  ASSUME TypeOK, NEW w \in Workers, WorkerStep(w) \/ NngStep(w),
         ~m_stopping[w], ~aioStopped[w],
         pc[w] = "process" => aioResult[w] \in {"OK", "EOTHER"}
  PROVE  /\ ~AioIdle(w)'
         /\ pc'[w] = "process" => aioResult'[w] \in {"OK", "EOTHER"}
<1> USE DEF TypeOK, WorkerTypeOK, AioIdle, aioVars
<1>1. CASE WorkerStep(w)
  <2>1. ~ProcessQuit(w)
    BY DEF ProcessQuit
  <2>2. CASE ProcessError(w) \/ ProcessReceive(w)
    BY <1>1, <2>2 DEF ProcessError, ProcessReceive, GoTo
  <2>3. CASE ProcessMessage(w)
    BY <1>1, <2>3 DEF ProcessMessage
  <2>4. CASE CallbackReply(w) \/ CallbackReplyFails(w) \/ CallbackNoReply(w)
    BY <1>1, <2>4 DEF CallbackReply, CallbackReplyFails, CallbackNoReply, GoTo
  <2>5. CASE Submit(w)
    BY <1>1, <2>5 DEF Submit, Ops
  <2> QED
    BY <1>1, <2>1, <2>2, <2>3, <2>4, <2>5 DEF WorkerStep, Process
<1>2. CASE NngStep(w)
  BY <1>2 DEF NngStep, NngCompletes, RecvDone, RecvFails, SendDone, SleepDone, Complete
<1> QED
  BY <1>1, <1>2

\* Steps of a worker or its aio preserve LifeInv.
LEMMA WorkerLife ==
  ASSUME LifeInv, NEW w \in Workers, WorkerStep(w) \/ NngStep(w), hpc # "crashed"
  PROVE  LifeInv'
<1> USE DEF LifeInv
<1>1. TypeOK'
  BY ProcessTypeOK, NngTypeOK
<1>2. /\ UNCHANGED <<hpc, todo, cur, step, m_workers, m_stopping, aioStopped, aioFreed>>
      /\ ~AioIdle(w)
      /\ \A v \in Workers \ {w} :
           pc'[v] = pc[v] /\ aioOp'[v] = aioOp[v] /\ aioResult'[v] = aioResult[v]
  BY WorkerFrame DEF handlerVars
<1>3. \A v \in Workers \ {w} : AioIdle(v)' <=> AioIdle(v)
  BY <1>2 DEF AioIdle
<1>4. LifeLoops' /\ LifeFreed'
  BY <1>2 DEF LifeLoops, LifeFreed
<1>5. LifeQuiet'
  BY <1>2, <1>3 DEF LifeQuiet, LifeLoops, TypeOK, StopLoops
<1>6. hpc \in Ups => /\ ~m_stopping[w] /\ ~aioStopped[w]
                     /\ pc[w] = "process" => aioResult[w] \in {"OK", "EOTHER"}
  BY DEF LifeUp
<1>7. hpc \in Ups => /\ ~AioIdle(w)'
                     /\ pc'[w] = "process" => aioResult'[w] \in {"OK", "EOTHER"}
  BY <1>6, WorkerStaysBusy
<1>8. LifeUp'
  BY <1>2, <1>7 DEF LifeUp
<1>9. LifeBusy'
  BY <1>2, <1>3, <1>7 DEF LifeBusy, Ups, TypeOK
<1> QED
  BY <1>1, <1>4, <1>5, <1>8, <1>9

\* Steps of the control thread preserve LifeInv.
LEMMA HandlerLife ==
  ASSUME LifeInv, HandlerStep \/ Create \/ Free
  PROVE  LifeInv'
<1> DEFINE Life == LifeLoops /\ LifeQuiet /\ LifeFreed /\ LifeUp /\ LifeBusy
<1>1. SUFFICES Life'
  BY HandlerTypeOK DEF LifeInv
<1> USE DEF LifeInv, LifeLoops, LifeQuiet, LifeFreed, LifeUp, LifeBusy, AioIdle, Ups, StopLoops,
            TypeOK, WorkerTypeOK, workerVars, aioVars
<1>2. CASE Create
  BY <1>2 DEF Create
<1>3. CASE \E w \in Workers : CreateWorker(w)
  BY <1>3 DEF CreateWorker
<1>4. CASE \E w \in Workers : CreateWorkerFails(w)
  BY <1>4 DEF CreateWorkerFails
<1>5. CASE InitDone
  BY <1>5 DEF InitDone
<1>6. CASE Listen
  BY <1>6 DEF Listen
<1>7. CASE ListenFails
  BY <1>7 DEF ListenFails
<1>8. CASE \E w \in Workers : StartWorker(w)
  BY <1>8 DEF StartWorker
<1>9. CASE Started
  BY <1>9 DEF Started
<1>10. CASE Free
  BY <1>10 DEF Free
<1>11. CASE \E w \in Workers : StopBegin(w)
  BY <1>11 DEF StopBegin, StopFlag
<1>12. CASE StopAio
  BY <1>12 DEF StopAio, AioStop
<1>13. CASE StopEnd
  BY <1>13 DEF StopEnd, FreeAio
<1>14. CASE StopReturns
  BY <1>14 DEF StopReturns
<1>15. CASE CloseSocket
  BY <1>15 DEF CloseSocket
<1> QED
  BY <1>2, <1>3, <1>4, <1>5, <1>6, <1>7, <1>8, <1>9, <1>10, <1>11, <1>12, <1>13, <1>14, <1>15 DEF HandlerStep

\* Arriving messages, a dead process and stuttering preserve LifeInv.
LEMMA OtherLife ==
  ASSUME LifeInv, (\E m \in Msgs : PeerSends(m)) \/ Crashed \/ UNCHANGED vars
  PROVE  LifeInv'
<1>1. TypeOK'
  BY DEF LifeInv, PeerSends, Arrive, Crashed, vars, TypeOK, WorkerTypeOK, handlerVars, workerVars,
         aioVars, msgVars, MsgStates
<1>2. UNCHANGED <<handlerVars, workerVars, aioVars>>
  BY DEF PeerSends, Arrive, Crashed, vars
<1> QED
  BY <1>1, <1>2 DEF LifeInv, LifeLoops, LifeQuiet, LifeFreed, LifeUp, LifeBusy, AioIdle,
                    handlerVars, workerVars, aioVars

\* LifeInv holds initially.
LEMMA InitLife == Init => LifeInv
  BY InitTypeOK DEF Init, WorkerInit, LifeInv, LifeLoops, LifeQuiet, LifeFreed, LifeUp, LifeBusy,
                    AioIdle, Ups, StopLoops

\* LifeInv is an inductive invariant.
THEOREM LifeInvariance == Spec => []LifeInv
<1>1. LifeInv /\ [Next]_vars => LifeInv'
  BY WorkerLife, HandlerLife, OtherLife DEF Next
<1> QED
  BY InitLife, <1>1, PTL DEF Spec

\* After stop() has returned no callback runs and none can be started.
THEOREM QuietAfterStopHolds == Spec => []QuietAfterStop
<1>1. LifeInv => QuietAfterStop
  BY DEF LifeInv, LifeQuiet, QuietAfterStop, TypeOK
<1> QED
  BY <1>1, LifeInvariance, PTL

\* release() frees no aio that is in use.
THEOREM FreedAioUnusedHolds == Spec => []FreedAioUnused
<1>1. LifeInv => FreedAioUnused
  BY DEF LifeInv, LifeQuiet, LifeFreed, FreedAioUnused
<1> QED
  BY <1>1, LifeInvariance, PTL

\* No worker of a running handler is left without a pending operation or a
\* running callback.
THEOREM NoLostWorkerHolds == Spec => []NoLostWorker
<1>1. LifeInv => NoLostWorker
  BY DEF LifeInv, LifeBusy, NoLostWorker, AioIdle, TypeOK
<1> QED
  BY <1>1, LifeInvariance, PTL

-----------------------------------------------------------------------------
(* The promise to the peers *)

\* The operation process() submits, and the state it sets for it.
Match(state, op) ==
  \/ state = "RECV" /\ op = "recv"
  \/ state = "SEND" /\ op = "send"
  \/ state = "ERROR" /\ op = "sleep"

\* What the place of a worker says about its state and its last result.
WorkOps ==
  \A w \in Workers :
    /\ aioOp[w] # "none" => pc[w] = "idle" /\ Match(m_state[w], aioOp[w])
    /\ pc[w] = "submit" => Match(m_state[w], next[w])
    /\ pc[w] = "callback" => m_state[w] = "RECV" /\ aioResult[w] = "OK"

\* A message an aio points to was received and is not answered; no other aio
\* points to it.
WorkPointers ==
  \A w \in Workers :
    aioMsg[w] \in Msgs =>
      /\ msgs[aioMsg[w]] \in {"held", "freed"}
      /\ \A v \in Workers \ {w} : aioMsg[v] # aioMsg[w]

\* A message that is being worked on has not been freed.
WorkHeld == \A w \in Workers, m \in Msgs : WorksOn(w, m) => msgs[m] = "held"

WorkInv == LifeInv /\ WorkOps /\ WorkPointers /\ WorkHeld

\* Steps of process() and what they free.
LEMMA ProcessWork ==
  ASSUME WorkInv, NEW w \in Workers, WorkerStep(w)
  PROVE  WorkOps' /\ WorkPointers' /\ WorkHeld'
<1>1. WorkerTypeOK /\ WorkOps /\ WorkPointers /\ WorkHeld
  BY DEF WorkInv, LifeInv, TypeOK
<1> USE <1>1 DEF WorkerTypeOK, WorkOps, WorkPointers, WorkHeld, WorksOn, Match, aioVars, msgVars
<1>2. CASE ProcessQuit(w)
  BY <1>2 DEF ProcessQuit, FreeMsg
<1>3. CASE ProcessError(w)
  BY <1>3 DEF ProcessError, FreeMsg, GoTo
<1>4. CASE ProcessReceive(w)
  BY <1>4 DEF ProcessReceive, GoTo
<1>5. CASE ProcessMessage(w)
  BY <1>5 DEF ProcessMessage
<1>6. CASE CallbackReply(w)
  BY <1>6 DEF CallbackReply, GoTo
<1>7. CASE CallbackReplyFails(w)
  BY <1>7 DEF CallbackReplyFails, FreeMsg, GoTo
<1>8. CASE CallbackNoReply(w)
  BY <1>8 DEF CallbackNoReply, GoTo
<1>9. CASE Submit(w)
  BY <1>9 DEF Submit
<1> QED
  BY <1>2, <1>3, <1>4, <1>5, <1>6, <1>7, <1>8, <1>9 DEF WorkerStep, Process

\* Completions of nng operations.
LEMMA NngWork ==
  ASSUME WorkInv, NEW w \in Workers, NngStep(w)
  PROVE  WorkOps' /\ WorkPointers' /\ WorkHeld'
<1>1. WorkerTypeOK /\ WorkOps /\ WorkPointers /\ WorkHeld
  BY DEF WorkInv, LifeInv, TypeOK
<1> USE <1>1 DEF WorkerTypeOK, WorkOps, WorkPointers, WorkHeld, WorksOn, Match, Complete
<1>2. CASE \E m \in Msgs : RecvDone(w, m)
  BY <1>2 DEF RecvDone
<1>3. CASE RecvFails(w)
  BY <1>3 DEF RecvFails
<1>4. CASE SendDone(w)
  BY <1>4, NoMsgAssumption DEF SendDone
<1>5. CASE SleepDone(w)
  BY <1>5 DEF SleepDone
<1> QED
  BY <1>2, <1>3, <1>4, <1>5 DEF NngStep, NngCompletes

\* Steps of the control thread.
LEMMA HandlerWork ==
  ASSUME WorkInv, HandlerStep \/ Create \/ Free
  PROVE  WorkOps' /\ WorkPointers' /\ WorkHeld'
<1>1. WorkerTypeOK /\ WorkOps /\ WorkPointers /\ WorkHeld /\ LifeQuiet /\ cur \in Workers
  BY DEF WorkInv, LifeInv, TypeOK
<1> USE <1>1 DEF WorkerTypeOK, WorkOps, WorkPointers, WorkHeld, WorksOn, Match, workerVars, aioVars, msgVars
<1>2. CASE Create
  BY <1>2, NoMsgAssumption DEF Create
<1>3. CASE \E w \in Workers : CreateWorker(w) \/ CreateWorkerFails(w)
  BY <1>3 DEF CreateWorker, CreateWorkerFails
<1>4. CASE InitDone \/ Listen \/ ListenFails \/ Started \/ Free \/ StopReturns
  BY <1>4 DEF InitDone, Listen, ListenFails, Started, Free, StopReturns
<1>5. CASE \E w \in Workers : StartWorker(w)
  BY <1>5 DEF StartWorker, LifeQuiet, AioIdle
<1>6. CASE \E w \in Workers : StopBegin(w)
  BY <1>6 DEF StopBegin, StopFlag
<1>7. CASE StopAio
  BY <1>7 DEF StopAio, AioStop
<1>8. CASE StopEnd
  BY <1>8 DEF StopEnd, FreeAio
<1>9. CASE CloseSocket
  BY <1>9 DEF CloseSocket
<1> QED
  BY <1>2, <1>3, <1>4, <1>5, <1>6, <1>7, <1>8, <1>9 DEF HandlerStep

\* WorkInv is an inductive invariant.
LEMMA WorkInvariance == Spec => []WorkInv
<1>1. Init => WorkInv
  BY InitLife, NoMsgAssumption DEF Init, WorkerInit, WorkInv, WorkOps, WorkPointers, WorkHeld, WorksOn
<1>2. WorkInv /\ [Next]_vars => WorkInv'
  <2> SUFFICES ASSUME WorkInv, [Next]_vars PROVE WorkInv'
    OBVIOUS
  <2>1. LifeInv'
    BY WorkerLife, HandlerLife, OtherLife DEF WorkInv, Next
  <2>2. CASE (\E m \in Msgs : PeerSends(m)) \/ Crashed \/ UNCHANGED vars
    <3>1. WorkOps' /\ WorkPointers' /\ WorkHeld'
      BY <2>2 DEF WorkInv, LifeInv, TypeOK, WorkerTypeOK, WorkOps, WorkPointers, WorkHeld, WorksOn, Match,
         PeerSends, Arrive, Crashed, vars, workerVars, aioVars, msgVars
    <3> QED
      BY <2>1, <3>1 DEF WorkInv
  <2>3. CASE \E w \in Workers : WorkerStep(w) \/ NngStep(w)
    BY <2>1, <2>3, ProcessWork, NngWork DEF WorkInv
  <2>4. CASE HandlerStep \/ Create \/ Free
    BY <2>1, <2>4, HandlerWork DEF WorkInv
  <2> QED
    BY <2>2, <2>3, <2>4 DEF Next
<1> QED
  BY <1>1, <1>2, PTL DEF Spec

Worked(m) == \E w \in Workers : WorksOn(w, m)

\* What a request is, by its message.
LEMMA StateOfRequest ==
  ASSUME TypeOK, NEW m \in Msgs
  PROVE  /\ RequestMap[m] = RequestState(m)
         /\ msgs[m] = "wire" => RequestState(m) = "away"
         /\ msgs[m] = "queued" => RequestState(m) = "queued"
         /\ msgs[m] = "held" /\ Worked(m) => RequestState(m) = "handling"
         /\ msgs[m] = "held" /\ ~Worked(m) => RequestState(m) = "dropped"
         /\ msgs[m] = "sent" => RequestState(m) = "answered"
         /\ msgs[m] = "freed" => RequestState(m) = "dropped"
         /\ msgs[m] \in MsgStates
  BY DEF RequestMap, RequestState, Worked, TypeOK, WorkerTypeOK

\* The map of the requests is a function of the messages, before and after.
LEMMA MapIsFunction ==
  /\ DOMAIN RequestMap = Msgs /\ \A m \in Msgs : RequestMap[m] = RequestState(m)
  /\ DOMAIN RequestMap' = Msgs /\ \A m \in Msgs : RequestMap'[m] = RequestState(m)'
  /\ RequestMap = [m \in Msgs |-> RequestMap[m]] /\ RequestMap' = [m \in Msgs |-> RequestMap'[m]]
  BY DEF RequestMap

\* A step that leaves every request as it was.
LEMMA Stays ==
  ASSUME \A m \in Msgs : RequestState(m)' = RequestState(m)
  PROVE  UNCHANGED RequestMap
  BY MapIsFunction

\* A step that moves one request.
LEMMA Moves ==
  ASSUME NEW r \in Msgs, \A m \in Msgs \ {r} : RequestState(m)' = RequestState(m)
  PROVE  RequestMap' = [RequestMap EXCEPT ![r] = RequestState(r)']
  BY MapIsFunction

\* A step of one worker that receives nothing: the request it works on is kept or
\* dropped, and every other request is left alone.
LEMMA KeepsOrDrops ==
  ASSUME WorkInv, TypeOK', NEW w \in Workers, UNCHANGED aioMsg,
         \A v \in Workers \ {w}, m \in Msgs : WorksOn(v, m)' <=> WorksOn(v, m),
         \A m \in Msgs : WorksOn(w, m)' => WorksOn(w, m),
         \/ UNCHANGED msgs
         \/ msgs' = [x \in Msgs |-> IF x = aioMsg[w] THEN "freed" ELSE msgs[x]]
  PROVE  [Service!Next]_RequestMap
<1>1. TypeOK /\ WorkPointers
  BY DEF WorkInv, LifeInv
<1>2. ASSUME NEW m \in Msgs, m # aioMsg[w] PROVE RequestState(m)' = RequestState(m)
  <2>1. msgs'[m] = msgs[m]
    BY <1>2
  <2>2. Worked(m)' <=> Worked(m)
    BY <1>2 DEF Worked, WorksOn
  <2> QED
    BY <2>1, <2>2 DEF RequestState, Worked
<1>3. CASE aioMsg[w] \notin Msgs
  BY <1>2, <1>3, Stays
<1>4. CASE aioMsg[w] \in Msgs
  <2> PICK r \in Msgs : r = aioMsg[w]
    BY <1>4
  <2>1. msgs[r] \in {"held", "freed"} /\ msgs'[r] \in {"held", "freed"}
        /\ (msgs[r] = "freed" => msgs'[r] = "freed")
    BY <1>1 DEF WorkPointers
  <2>2. Worked(r)' => Worked(r)
    BY DEF Worked
  <2>3. RequestState(r)' = RequestState(r) \/ (RequestState(r) = "handling" /\ RequestState(r)' = "dropped")
    BY <2>1, <2>2 DEF RequestState, Worked
  <2>4. \A m \in Msgs \ {r} : RequestState(m)' = RequestState(m)
    BY <1>2
  <2>5. CASE RequestState(r)' = RequestState(r)
    BY <2>4, <2>5, Stays
  <2>6. CASE RequestState(r) = "handling" /\ RequestState(r)' = "dropped"
    <3>1. RequestMap' = [RequestMap EXCEPT ![r] = "dropped"] /\ RequestMap[r] = "handling"
      BY <2>1, <2>4, <2>6, Moves, MapIsFunction
    <3>2. Service!Drop(r)
      BY <3>1 DEF Service!Drop
    <3> QED
      BY <2>1, <3>2 DEF Service!Next
  <2> QED
    BY <2>3, <2>5, <2>6
<1> QED
  BY <1>3, <1>4

\* What process() does to the request its worker has.
LEMMA ProcessServes ==
  ASSUME WorkInv, TypeOK', NEW w \in Workers, WorkerStep(w)
  PROVE  [Service!Next]_RequestMap
<1>1. WorkerTypeOK /\ WorkOps
  BY DEF WorkInv, LifeInv, TypeOK
<1>2. UNCHANGED aioMsg
  BY DEF WorkerStep, Process, ProcessQuit, ProcessError, ProcessReceive, ProcessMessage, CallbackReply,
     CallbackReplyFails, CallbackNoReply, Submit, aioVars
<1>3. /\ UNCHANGED msgs \/ msgs' = [x \in Msgs |-> IF x = aioMsg[w] THEN "freed" ELSE msgs[x]]
  BY DEF WorkerStep, Process, ProcessQuit, ProcessError, ProcessReceive, ProcessMessage, CallbackReply,
     CallbackReplyFails, CallbackNoReply, Submit, FreeMsg, msgVars
<1>4. /\ \A v \in Workers \ {w}, m \in Msgs : WorksOn(v, m)' <=> WorksOn(v, m)
      /\ \A m \in Msgs : WorksOn(w, m)' => WorksOn(w, m)
  <2> USE <1>1, <1>2 DEF WorkerTypeOK, WorkOps, WorksOn, Match, aioVars
  <2>1. CASE ProcessQuit(w)
    BY <2>1 DEF ProcessQuit
  <2>2. CASE ProcessError(w)
    BY <2>2 DEF ProcessError, GoTo
  <2>3. CASE ProcessReceive(w)
    BY <2>3 DEF ProcessReceive, GoTo
  <2>4. CASE ProcessMessage(w)
    BY <2>4 DEF ProcessMessage
  <2>5. CASE CallbackReply(w)
    BY <2>5 DEF CallbackReply, GoTo
  <2>6. CASE CallbackReplyFails(w)
    BY <2>6 DEF CallbackReplyFails, GoTo
  <2>7. CASE CallbackNoReply(w)
    BY <2>7 DEF CallbackNoReply, GoTo
  <2>8. CASE Submit(w)
    BY <2>8 DEF Submit
  <2> QED
    BY <2>1, <2>2, <2>3, <2>4, <2>5, <2>6, <2>7, <2>8 DEF WorkerStep, Process
<1> QED
  BY <1>2, <1>3, <1>4, KeepsOrDrops

\* While a worker is receiving, the pool has room for one more request: every
\* request that is being handled has a worker of its own, and this worker has none.
LEMMA RoomToReceive ==
  ASSUME WorkInv, NEW w \in Workers, aioOp[w] = "recv"
  PROVE  Cardinality(Service!Handling) < Cardinality(Workers)
<1> DEFINE H == Service!Handling
           Worker == [m \in H |-> CHOOSE v \in Workers : WorksOn(v, m)]
<1>1. TypeOK /\ WorkOps
  BY DEF WorkInv, LifeInv
<1>2. ASSUME NEW m \in H PROVE \E v \in Workers \ {w} : WorksOn(v, m)
  <2>1. m \in Msgs /\ RequestMap[m] = "handling"
    BY DEF Service!Handling
  <2>2. PICK v \in Workers : WorksOn(v, m)
    BY <1>1, <2>1, StateOfRequest DEF Worked, MsgStates
  <2>3. ~WorksOn(w, m)
    BY <1>1 DEF WorkOps, Match, WorksOn
  <2> QED
    BY <2>2, <2>3
<1>3. ASSUME NEW m \in H PROVE Worker[m] \in Workers \ {w} /\ WorksOn(Worker[m], m)
  <2>1. ~WorksOn(w, m)
    BY <1>1 DEF WorkOps, Match, WorksOn
  <2> QED
    BY <1>2, <2>1
<1>4. Worker \in Injection(H, Workers \ {w})
  <2>1. Worker \in [H -> Workers \ {w}]
    BY <1>3
  <2>2. ASSUME NEW m \in H, NEW n \in H, Worker[m] = Worker[n] PROVE m = n
    BY <1>3, <2>2 DEF WorksOn
  <2> QED
    BY <2>1, <2>2 DEF Injection, IsInjective
<1>5. IsFiniteSet(Workers \ {w}) /\ Cardinality(Workers \ {w}) = Cardinality(Workers) - 1
  BY WorkersAssumption, FS_RemoveElement
<1>6. Cardinality(Workers) \in Nat /\ Cardinality(Workers \ {w}) \in Nat
  BY <1>5, WorkersAssumption, FS_CardinalityType
<1> HIDE DEF H, Worker
<1>7. IsFiniteSet(H) /\ Cardinality(H) <= Cardinality(Workers \ {w})
  BY <1>4, <1>5, FS_Injection
<1>8. Cardinality(H) \in Nat
  BY <1>7, FS_CardinalityType
<1>9. Cardinality(H) < Cardinality(Workers)
  BY <1>5, <1>6, <1>7, <1>8
<1> QED
  BY <1>9 DEF H

\* What the completions of nng operations do to the requests.
LEMMA NngServes ==
  ASSUME WorkInv, WorkInv', NEW w \in Workers, NngStep(w)
  PROVE  [Service!Next]_RequestMap
<1>1. TypeOK /\ TypeOK' /\ WorkerTypeOK /\ WorkOps /\ WorkPointers /\ WorkHeld
  BY DEF WorkInv, LifeInv, TypeOK
<1>2. ASSUME NEW q \in Msgs, RecvDone(w, q) PROVE [Service!Next]_RequestMap
  <2> USE <1>1, <1>2 DEF RecvDone, Complete, WorkerTypeOK
  <2>1. RequestState(q) = "queued"
    BY StateOfRequest
  <2>2. RequestState(q)' = "handling"
    <3>1. m_state[w] = "RECV"
      BY DEF WorkOps, Match
    <3>2. WorksOn(w, q)'
      BY <3>1 DEF WorksOn
    <3>3. msgs'[q] = "held"
      OBVIOUS
    <3> QED
      BY <3>2, <3>3 DEF RequestState
  <2>3. ASSUME NEW m \in Msgs \ {q} PROVE RequestState(m)' = RequestState(m)
    <3>1. msgs'[m] = msgs[m]
      OBVIOUS
    <3>2. ~WorksOn(w, m) /\ ~WorksOn(w, m)'
      BY DEF WorkOps, Match, WorksOn
    <3>3. \A v \in Workers \ {w} : WorksOn(v, m)' <=> WorksOn(v, m)
      BY DEF WorksOn
    <3>4. Worked(m)' <=> Worked(m)
      BY <3>2, <3>3 DEF Worked
    <3> QED
      BY <3>1, <3>4 DEF RequestState, Worked
  <2>4. RequestMap' = [RequestMap EXCEPT ![q] = "handling"] /\ RequestMap[q] = "queued"
    BY <2>1, <2>2, <2>3, Moves, MapIsFunction
  <2>5. Cardinality(Service!Handling) < Cardinality(Workers)
    BY RoomToReceive
  <2>6. Service!Take(q)
    <3>1. Service!Cardinality(Service!Handling) = Cardinality(Service!Handling)
      BY DEF Service!Cardinality, Cardinality
    <3> QED
      BY <2>4, <2>5, <3>1 DEF Service!Take
  <2> QED
    BY <2>6 DEF Service!Next
<1>3. CASE RecvFails(w) \/ SleepDone(w) \/ (SendDone(w) /\ aioResult'[w] = "EOTHER")
  <2> USE <1>1, <1>3 DEF RecvFails, SleepDone, SendDone, Complete, WorkerTypeOK
  <2>1. UNCHANGED <<aioMsg, msgs>>
    OBVIOUS
  <2>2. \A v \in Workers \ {w}, m \in Msgs : WorksOn(v, m)' <=> WorksOn(v, m)
    BY DEF WorksOn
  <2>3. \A m \in Msgs : WorksOn(w, m)' => WorksOn(w, m)
    BY DEF WorksOn, WorkOps, Match
  <2> QED
    BY <2>1, <2>2, <2>3, KeepsOrDrops
<1>4. CASE SendDone(w) /\ aioResult'[w] = "OK"
  <2> USE <1>1, <1>4 DEF SendDone, Complete, WorkerTypeOK
  <2>1. m_state[w] = "SEND" /\ aioOp[w] = "send"
    BY DEF WorkOps, Match
  <2>2. ASSUME NEW m \in Msgs, m # aioMsg[w] PROVE RequestState(m)' = RequestState(m)
    <3>1. msgs'[m] = msgs[m]
      BY <2>2
    <3>2. ~WorksOn(w, m) /\ ~WorksOn(w, m)'
      BY <2>2, NoMsgAssumption DEF WorksOn
    <3>3. \A v \in Workers \ {w} : WorksOn(v, m)' <=> WorksOn(v, m)
      BY DEF WorksOn
    <3>4. Worked(m)' <=> Worked(m)
      BY <3>2, <3>3 DEF Worked
    <3> QED
      BY <3>1, <3>4 DEF RequestState, Worked
  <2>3. CASE aioMsg[w] \notin Msgs
    BY <2>2, <2>3, Stays
  <2>4. CASE aioMsg[w] \in Msgs
    <3> PICK r \in Msgs : r = aioMsg[w]
      BY <2>4
    <3>1. WorksOn(w, r)
      BY <2>1 DEF WorksOn
    <3>2. RequestState(r) = "handling"
      BY <3>1, StateOfRequest DEF WorkHeld, Worked
    <3>3. RequestState(r)' = "answered"
      BY DEF RequestState
    <3>4. RequestMap' = [RequestMap EXCEPT ![r] = "answered"] /\ RequestMap[r] = "handling"
      BY <2>2, <3>2, <3>3, Moves, MapIsFunction
    <3>5. Service!Answer(r)
      BY <3>4 DEF Service!Answer
    <3> QED
      BY <3>5 DEF Service!Next
  <2> QED
    BY <2>3, <2>4
<1> QED
  BY <1>1, <1>2, <1>3, <1>4 DEF NngStep, NngCompletes, SendDone, Complete, WorkerTypeOK

\* A step that leaves the workers' requests alone, as far as RequestService can see.
LEMMA WorkersQuiet ==
  ASSUME UNCHANGED msgs, \A w \in Workers, m \in Msgs : WorksOn(w, m)' <=> WorksOn(w, m)
  PROVE  UNCHANGED RequestMap
<1>1. ASSUME NEW m \in Msgs PROVE RequestState(m)' = RequestState(m)
  <2>1. Worked(m)' <=> Worked(m)
    BY DEF Worked
  <2> QED
    BY <2>1 DEF RequestState, Worked
<1> QED
  BY <1>1, Stays

\* What the control thread does to the requests.
LEMMA HandlerServes ==
  ASSUME WorkInv, TypeOK', HandlerStep \/ Create \/ Free
  PROVE  [Service!Next]_RequestMap
<1>1. TypeOK /\ WorkerTypeOK /\ WorkOps /\ LifeQuiet /\ cur \in Workers
  BY DEF WorkInv, LifeInv, TypeOK
<1> USE <1>1 DEF WorkerTypeOK
<1>2. CASE Create
  <2>1. \A w \in Workers, m \in Msgs : ~WorksOn(w, m) /\ ~WorksOn(w, m)'
    BY <1>2 DEF Create, LifeQuiet, AioIdle, WorksOn
  <2> QED
    BY <1>2, <2>1, WorkersQuiet DEF Create, msgVars
<1>3. CASE \/ \E w \in Workers : CreateWorker(w) \/ CreateWorkerFails(w)
           \/ InitDone \/ Listen \/ ListenFails \/ Started \/ Free \/ StopReturns
  <2>1. UNCHANGED <<workerVars, aioVars, msgVars>>
    BY <1>3 DEF CreateWorker, CreateWorkerFails, InitDone, Listen, ListenFails, Started, Free, StopReturns
  <2> QED
    BY <2>1, WorkersQuiet DEF workerVars, aioVars, msgVars, WorksOn
<1>4. CASE (\E w \in Workers : StartWorker(w) \/ StopBegin(w)) \/ StopEnd
  <2>1. UNCHANGED msgs
    BY <1>4 DEF StartWorker, StopBegin, StopFlag, StopEnd, FreeAio, msgVars
  <2>2. \A w \in Workers, m \in Msgs : WorksOn(w, m)' <=> WorksOn(w, m)
    <3>1. CASE \E w \in Workers : StartWorker(w)
      BY <3>1 DEF StartWorker, LifeQuiet, AioIdle, WorksOn
    <3>2. CASE (\E w \in Workers : StopBegin(w)) \/ StopEnd
      BY <3>2 DEF StopBegin, StopFlag, StopEnd, FreeAio, WorksOn, workerVars, aioVars
    <3> QED
      BY <1>4, <3>1, <3>2
  <2> QED
    BY <2>1, <2>2, WorkersQuiet
<1>5. CASE StopAio
  <2>1. UNCHANGED <<aioMsg, msgs>>
    BY <1>5 DEF StopAio, AioStop, msgVars
  <2>2. /\ \A v \in Workers \ {cur}, m \in Msgs : WorksOn(v, m)' <=> WorksOn(v, m)
        /\ \A m \in Msgs : WorksOn(cur, m)' => WorksOn(cur, m)
    BY <1>5 DEF StopAio, AioStop, WorksOn, WorkOps, Match
  <2>3. PICK w \in Workers : w = cur
    OBVIOUS
  <2>4. /\ \A v \in Workers \ {w}, m \in Msgs : WorksOn(v, m)' <=> WorksOn(v, m)
        /\ \A m \in Msgs : WorksOn(w, m)' => WorksOn(w, m)
    BY <1>5, <2>2, <2>3 DEF StopAio
  <2> QED
    BY <2>1, <2>4, KeepsOrDrops
<1>6. CASE CloseSocket
  <2>1. \A w \in Workers, m \in Msgs : WorksOn(w, m)' <=> WorksOn(w, m)
    BY <1>6 DEF CloseSocket, WorksOn, workerVars, aioVars
  <2>2. \A m \in Msgs : RequestState(m)' = IF RequestState(m) = "queued" THEN "dropped" ELSE RequestState(m)
    <3> SUFFICES ASSUME NEW m \in Msgs
                 PROVE  RequestState(m)' = IF RequestState(m) = "queued" THEN "dropped" ELSE RequestState(m)
      OBVIOUS
    <3>1. Worked(m)' <=> Worked(m)
      BY <2>1 DEF Worked
    <3>2. msgs'[m] = IF msgs[m] = "queued" THEN "freed" ELSE msgs[m]
      BY <1>6 DEF CloseSocket
    <3> QED
      BY <3>1, <3>2 DEF RequestState, Worked, MsgStates
  <2>3. Service!Close
    BY <2>2, MapIsFunction DEF Service!Close
  <2> QED
    BY <2>3 DEF Service!Next
<1> QED
  BY <1>2, <1>3, <1>4, <1>5, <1>6 DEF HandlerStep

\* What a peer does to the requests.
LEMMA PeerServes ==
  ASSUME WorkInv, TypeOK', NEW q \in Msgs, PeerSends(q)
  PROVE  [Service!Next]_RequestMap
<1>1. TypeOK /\ WorkerTypeOK
  BY DEF WorkInv, LifeInv, TypeOK
<1> USE <1>1 DEF PeerSends, Arrive, WorkerTypeOK
<1>2. RequestState(q) = "away"
  BY StateOfRequest
<1>3. RequestState(q)' = "queued"
  <2>1. msgs'[q] = "queued"
    OBVIOUS
  <2> QED
    BY <2>1 DEF RequestState
<1>4. ASSUME NEW m \in Msgs \ {q} PROVE RequestState(m)' = RequestState(m)
  <2>1. msgs'[m] = msgs[m]
    OBVIOUS
  <2>2. Worked(m)' <=> Worked(m)
    BY DEF Worked, WorksOn, workerVars, aioVars
  <2> QED
    BY <2>1, <2>2 DEF RequestState, Worked
<1>5. RequestMap' = [RequestMap EXCEPT ![q] = "queued"] /\ RequestMap[q] = "away"
  BY <1>2, <1>3, <1>4, Moves, MapIsFunction
<1>6. Service!Arrive(q)
  BY <1>5 DEF Service!Arrive
<1> QED
  BY <1>6 DEF Service!Next

\* Every step of the handler and its pool is a step of RequestService, or none.
LEMMA StepServes == WorkInv /\ WorkInv' /\ [Next]_vars => [Service!Next]_RequestMap
<1> SUFFICES ASSUME WorkInv, WorkInv', [Next]_vars PROVE [Service!Next]_RequestMap
  OBVIOUS
<1>1. TypeOK'
  BY DEF WorkInv, LifeInv
<1>2. CASE Crashed \/ UNCHANGED vars
  BY <1>2, WorkersQuiet DEF Crashed, vars, workerVars, aioVars, msgVars, WorksOn
<1>3. CASE \E w \in Workers : WorkerStep(w) \/ NngStep(w)
  BY <1>1, <1>3, ProcessServes, NngServes
<1>4. CASE \E m \in Msgs : PeerSends(m)
  BY <1>1, <1>4, PeerServes
<1>5. CASE HandlerStep \/ Create \/ Free
  BY <1>1, <1>5, HandlerServes
<1> QED
  BY <1>2, <1>3, <1>4, <1>5 DEF Next

\* The handler and its pool implement RequestService: whatever the threads, nng,
\* the callbacks and the errors do, no request is taken twice, answered without
\* being handled or brought back, and no more than the pool's size are in work.
THEOREM ServesRequestsHolds == Spec => ServesRequests
<1>1. Init => Service!Init
  <2> SUFFICES ASSUME Init PROVE Service!Init
    OBVIOUS
  <2>1. \A m \in Msgs : RequestState(m) = "away"
    BY DEF Init, WorkerInit, RequestState
  <2> QED
    BY <2>1, MapIsFunction DEF Service!Init
<1> QED
  BY <1>1, StepServes, WorkInvariance, PTL DEF Spec, ServesRequests, Service!Spec

-----------------------------------------------------------------------------
(* What the refinement means for one request *)

\* How a step may change what a request is: to what comes next in its life, or not
\* at all.
Advances(m) ==
  \/ RequestState(m)' = RequestState(m)
  \/ RequestState(m) = "away" /\ RequestState(m)' = "queued"
  \/ RequestState(m) = "queued" /\ RequestState(m)' \in {"handling", "dropped"}
  \/ RequestState(m) = "handling" /\ RequestState(m)' \in {"answered", "dropped"}

\* A request only goes forward, through every stage of its life: none is answered that
\* no worker took, and what was answered or dropped stays so, although an aio keeps
\* its message pointer over many rounds and each free and new creation of the handler.
THEOREM RequestsAdvance == Spec => [][\A m \in Msgs : Advances(m)]_vars
<1>1. ASSUME WorkInv, WorkInv', [Next]_vars PROVE \A m \in Msgs : Advances(m)
  <2> SUFFICES ASSUME NEW m \in Msgs PROVE Advances(m)
    OBVIOUS
  <2>1. RequestMap[m] = RequestState(m) /\ RequestMap'[m] = RequestState(m)'
    BY MapIsFunction
  <2>2. DOMAIN RequestMap = Msgs
    BY MapIsFunction
  <2>3. [Service!Next]_RequestMap
    BY <1>1, StepServes
  <2>4. CASE UNCHANGED RequestMap
    BY <2>1, <2>4 DEF Advances
  <2>5. ASSUME NEW r \in Msgs,
               Service!Arrive(r) \/ Service!Take(r) \/ Service!Answer(r) \/ Service!Drop(r)
        PROVE  Advances(m)
    BY <2>1, <2>2, <2>5 DEF Advances, Service!Arrive, Service!Take, Service!Answer, Service!Drop
  <2>6. CASE Service!Close
    BY <2>1, <2>6 DEF Advances, Service!Close
  <2> QED
    BY <2>3, <2>4, <2>5, <2>6 DEF Service!Next
<1> QED
  BY <1>1, WorkInvariance, PTL DEF Spec

\* At most as many requests are being handled as there are workers: each has a worker
\* of its own.
THEOREM PoolBoundsWork ==
  Spec => [](Cardinality({m \in Msgs : RequestState(m) = "handling"}) <= Cardinality(Workers))
<1>1. ASSUME WorkInv
      PROVE  Cardinality({m \in Msgs : RequestState(m) = "handling"}) <= Cardinality(Workers)
  <2> DEFINE H == {m \in Msgs : RequestState(m) = "handling"}
             Worker == [m \in H |-> CHOOSE v \in Workers : WorksOn(v, m)]
  <2>1. ASSUME NEW m \in H PROVE \E v \in Workers : WorksOn(v, m)
    BY <1>1, StateOfRequest DEF WorkInv, LifeInv, Worked, MsgStates
  <2>2. ASSUME NEW m \in H PROVE Worker[m] \in Workers /\ WorksOn(Worker[m], m)
    BY <2>1
  <2>3. Worker \in [H -> Workers]
    BY <2>2
  <2>4. ASSUME NEW m \in H, NEW n \in H, Worker[m] = Worker[n] PROVE m = n
    BY <2>2, <2>4 DEF WorksOn
  <2>5. Worker \in Injection(H, Workers)
    BY <2>3, <2>4 DEF Injection, IsInjective
  <2> HIDE DEF H, Worker
  <2>6. Cardinality(H) <= Cardinality(Workers)
    BY <2>5, WorkersAssumption, FS_Injection
  <2> QED
    BY <2>6 DEF H
<1> QED
  BY <1>1, WorkInvariance, PTL

-----------------------------------------------------------------------------
(* Ownership of messages *)

\* Only a worker that is being stopped sees a cancelled operation.
OwnStops ==
  /\ step # "flag" => m_stopping[cur]
  /\ \A w \in Workers : pc[w] = "process" /\ aioResult[w] \in {"ECANCELED", "ECLOSED"} => m_stopping[w]

\* A reply that could not be sent is still the worker's when process() learns of it.
OwnSends ==
  \A w \in Workers :
    pc[w] = "process" /\ m_state[w] = "SEND" /\ aioResult[w] = "EOTHER" /\ aioMsg[w] \in Msgs
      => msgs[aioMsg[w]] = "held"

OwnInv == WorkInv /\ OwnStops /\ OwnSends

\* Steps of process() and completions of nng operations.
LEMMA WorkerOwn ==
  ASSUME OwnInv, NEW w \in Workers, WorkerStep(w) \/ NngStep(w)
  PROVE  OwnStops' /\ OwnSends'
<1>1. /\ WorkerTypeOK /\ WorkOps /\ WorkPointers /\ WorkHeld
      /\ cur \in Workers
  BY DEF OwnInv, WorkInv, LifeInv, TypeOK
<1>2. OwnStops /\ OwnSends
  BY DEF OwnInv
<1>3. UNCHANGED <<m_stopping, step, cur>>
  BY WorkerFrame DEF OwnInv, WorkInv, LifeInv, handlerVars
<1> USE <1>1, <1>2, <1>3 DEF WorkerTypeOK, OwnStops, OwnSends, aioVars, msgVars
<1>4. CASE ProcessQuit(w)
  BY <1>4 DEF ProcessQuit, FreeMsg, WorkPointers
<1>5. CASE ProcessError(w)
  BY <1>5 DEF ProcessError, FreeMsg, GoTo, WorkPointers
<1>6. CASE ProcessReceive(w)
  BY <1>6 DEF ProcessReceive, GoTo
<1>7. CASE ProcessMessage(w)
  BY <1>7 DEF ProcessMessage
<1>8. CASE CallbackReply(w) \/ CallbackNoReply(w)
  <2>1. UNCHANGED <<msgs, aioMsg, aioResult>> /\ pc' = [pc EXCEPT ![w] = "submit"]
    BY <1>8 DEF CallbackReply, CallbackNoReply, GoTo
  <2>2. \A v \in Workers \ {w} : m_state'[v] = m_state[v]
    BY <1>8 DEF CallbackReply, CallbackNoReply, GoTo
  <2> QED
    BY <2>1, <2>2
<1>9. CASE CallbackReplyFails(w)
  BY <1>9 DEF CallbackReplyFails, FreeMsg, GoTo, WorkPointers
<1>10. CASE Submit(w)
  BY <1>10 DEF Submit
<1>11. CASE \E m \in Msgs : RecvDone(w, m)
  BY <1>11 DEF RecvDone, Complete, WorkPointers
<1>12. CASE RecvFails(w) \/ SleepDone(w)
  BY <1>12 DEF RecvFails, SleepDone, Complete, WorkOps, Match
<1>13. CASE SendDone(w)
  BY <1>13, NoMsgAssumption DEF SendDone, Complete, WorkOps, Match, WorkHeld, WorksOn, WorkPointers
<1> QED
  BY <1>4, <1>5, <1>6, <1>7, <1>8, <1>9, <1>10, <1>11, <1>12, <1>13
     DEF WorkerStep, Process, NngStep, NngCompletes

\* Steps of the control thread.
LEMMA HandlerOwn ==
  ASSUME OwnInv, HandlerStep \/ Create \/ Free
  PROVE  OwnStops' /\ OwnSends'
<1>1. /\ WorkerTypeOK /\ LifeQuiet /\ LifeLoops /\ WorkPointers
      /\ cur \in Workers
  BY DEF OwnInv, WorkInv, LifeInv, TypeOK
<1>2. OwnStops /\ OwnSends
  BY DEF OwnInv
<1> USE <1>1, <1>2 DEF WorkerTypeOK, OwnStops, OwnSends, StopLoops, workerVars, aioVars, msgVars
<1>3. CASE Create
  BY <1>3 DEF Create, LifeLoops
<1>4. CASE \E w \in Workers : CreateWorker(w) \/ CreateWorkerFails(w)
  BY <1>4 DEF CreateWorker, CreateWorkerFails
<1>5. CASE InitDone \/ Listen \/ ListenFails \/ Started \/ Free \/ StopReturns
  BY <1>5 DEF InitDone, Listen, ListenFails, Started, Free, StopReturns
<1>6. CASE \E w \in Workers : StartWorker(w)
  BY <1>6 DEF StartWorker
<1>7. CASE \E w \in Workers : StopBegin(w)
  BY <1>7 DEF StopBegin, StopFlag
<1>8. CASE StopAio
  BY <1>8 DEF StopAio, AioStop
<1>9. CASE StopEnd
  BY <1>9 DEF StopEnd, FreeAio
<1>10. CASE CloseSocket
  BY <1>10 DEF CloseSocket, WorkPointers
<1> QED
  BY <1>3, <1>4, <1>5, <1>6, <1>7, <1>8, <1>9, <1>10 DEF HandlerStep

\* Whoever frees a message that is not his is a worker that is being stopped, and
\* the message was freed before.
LEMMA FreesOwn ==
  ASSUME OwnInv, [Next]_vars, NEW m \in badFree' \ badFree
  PROVE  msgs[m] = "freed" /\ \E w \in Workers : aioMsg[w] = m /\ m_stopping[w]
<1>1. WorkerTypeOK /\ WorkPointers /\ WorkHeld /\ OwnStops /\ OwnSends
  BY DEF OwnInv, WorkInv, LifeInv, TypeOK
<1>2. PICK w \in Workers : WorkerStep(w)
  BY DEF Next, HandlerStep, CreateWorker, CreateWorkerFails, InitDone, Listen, ListenFails, StartWorker,
         Started, StopBegin, StopFlag, StopAio, AioStop, StopEnd, FreeAio, StopReturns, CloseSocket, Create,
         Free, PeerSends, Arrive, Crashed, vars, msgVars, NngStep, NngCompletes, RecvDone, RecvFails,
         SendDone, SleepDone, Complete
<1>3. FreeMsg(aioMsg[w])
  BY <1>2 DEF WorkerStep, Process, ProcessQuit, ProcessError, ProcessReceive, ProcessMessage,
     CallbackReply, CallbackReplyFails, CallbackNoReply, Submit, msgVars
<1>4. m \in Msgs /\ m = aioMsg[w] /\ msgs[m] = "freed"
  BY <1>1, <1>3 DEF FreeMsg, WorkPointers
<1>5. ProcessQuit(w)
  <2>1. ~CallbackReplyFails(w)
    BY <1>1, <1>4 DEF CallbackReplyFails, WorkHeld, WorksOn, OwnInv, WorkInv, WorkOps
  <2>2. ~ProcessError(w)
    BY <1>1, <1>4 DEF ProcessError, OwnSends, msgVars
  <2> QED
    BY <1>2, <2>1, <2>2 DEF WorkerStep, Process, ProcessReceive, ProcessMessage, CallbackReply,
       CallbackNoReply, Submit, msgVars
<1>6. m_stopping[w]
  BY <1>1, <1>5 DEF ProcessQuit, OwnStops
<1> QED
  BY <1>4, <1>6

\* No reply the socket took is freed and no worker in service frees twice, for any
\* pool, either kind of handler, and whatever fails.
THEOREM FreedByOwnerHolds == Spec => FreedByOwner
<1>1. Init => OwnInv
  BY InitLife, NoMsgAssumption DEF Init, WorkerInit, OwnInv, WorkInv, WorkOps, WorkPointers, WorkHeld,
     WorksOn, OwnStops, OwnSends
<1>2. ASSUME OwnInv, WorkInv', [Next]_vars PROVE OwnInv'
  <2>1. CASE (\E m \in Msgs : PeerSends(m)) \/ Crashed \/ UNCHANGED vars
    <3>1. OwnStops' /\ OwnSends'
      BY <1>2, <2>1 DEF OwnInv, WorkInv, LifeInv, TypeOK, WorkerTypeOK, OwnStops, OwnSends, PeerSends,
         Arrive, Crashed, vars, handlerVars, workerVars, aioVars, msgVars
    <3> QED
      BY <1>2, <3>1 DEF OwnInv
  <2>2. CASE \E w \in Workers : WorkerStep(w) \/ NngStep(w)
    BY <1>2, <2>2, WorkerOwn DEF OwnInv
  <2>3. CASE HandlerStep \/ Create \/ Free
    BY <1>2, <2>3, HandlerOwn DEF OwnInv
  <2> QED
    BY <1>2, <2>1, <2>2, <2>3 DEF Next
<1>3. ASSUME OwnInv, [Next]_vars
      PROVE  [\A m \in badFree' \ badFree :
                msgs[m] = "freed" /\ \E w \in Workers : aioMsg[w] = m /\ m_stopping[w]]_vars
  BY <1>3, FreesOwn
<1> QED
  BY <1>1, <1>2, <1>3, WorkInvariance, PTL DEF Spec, FreedByOwner

=============================================================================
