----------------------------- MODULE NngHandler ------------------------------
(***************************************************************************)
(* ResponseHandler and SubscribeHandler (NngIpcResponseHandler.cpp,        *)
(* NngIpcSubscribeHandler.cpp): a socket and its pool of AioWorkers, with  *)
(* the life the C wrappers give it: create and start, later free, which    *)
(* stops the handler and drops the last reference (destructor: stop again, *)
(* then release).  Every method runs under m_mutex, so the handler is one  *)
(* sequential control thread beside the workers' callbacks.                *)
(***************************************************************************)
EXTENDS AioWorker

CONSTANT CreateMayFail  \* nng_aio_alloc or nng_ctx_open may fail in init()

ASSUME CreateAssumption == CreateMayFail \in BOOLEAN

VARIABLES
  hpc,        \* what the control thread is doing
  todo,       \* workers the current loop has still to visit
  cur,        \* worker the current loop is at
  step,       \* how far worker->stop() has come for cur
  m_workers,  \* the workers that were created
  listening   \* nng_listen or nng_dial succeeded and the socket is open

handlerVars == <<hpc, todo, cur, step, m_workers, listening>>
vars == <<workerVars, aioVars, msgVars, handlerVars>>

StopLoops == {"stop", "dtor_stop", "release"}

TypeOK ==
  /\ WorkerTypeOK
  /\ hpc \in {"none", "init", "created", "start", "running", "crashed"} \cup StopLoops
  /\ todo \in SUBSET Workers
  /\ cur \in Workers
  /\ step \in {"flag", "aio", "wait"}
  /\ m_workers \in SUBSET Workers
  /\ listening \in BOOLEAN

Init ==
  /\ WorkerInit
  /\ hpc = "none"
  /\ todo = {}
  /\ cur \in Workers
  /\ step = "flag"
  /\ m_workers = {}
  /\ listening = FALSE

-----------------------------------------------------------------------------
(* create: init() opens the socket and creates the workers *)

\* A new handler object; its workers are new objects with new aios.
Create ==
  /\ hpc = "none"
  /\ hpc' = "init" /\ todo' = Workers /\ m_workers' = {}
  /\ m_state' = [w \in Workers |-> "INIT"]
  /\ m_stopping' = [w \in Workers |-> FALSE]
  /\ pc' = [w \in Workers |-> "idle"]
  /\ aioOp' = [w \in Workers |-> "none"]
  /\ aioResult' = [w \in Workers |-> "OK"]
  /\ aioMsg' = [w \in Workers |-> NoMsg]
  /\ aioStopped' = [w \in Workers |-> FALSE]
  /\ aioFreed' = [w \in Workers |-> FALSE]
  /\ UNCHANGED <<next, msgVars, cur, step, listening>>

CreateWorker(w) ==
  /\ hpc = "init" /\ w \in todo
  /\ todo' = todo \ {w}
  /\ m_workers' = m_workers \cup {w}
  /\ UNCHANGED <<workerVars, aioVars, msgVars, hpc, cur, step, listening>>

\* AioWorker::init fails: the worker is destroyed while m_aio and m_ctx were
\* never written.  ~AioWorker passes the indeterminate m_aio to nng_aio_stop
\* and nng_aio_free: with zeroed memory the worker is just missing from the
\* pool, otherwise the process may crash.
CreateWorkerFails(w) ==
  /\ CreateMayFail
  /\ hpc = "init" /\ w \in todo
  /\ \/ todo' = todo \ {w} /\ UNCHANGED hpc
     \/ hpc' = "crashed" /\ UNCHANGED todo
  /\ UNCHANGED <<workerVars, aioVars, msgVars, cur, step, m_workers, listening>>

InitDone ==
  /\ hpc = "init" /\ todo = {}
  /\ hpc' = "created"
  /\ UNCHANGED <<workerVars, aioVars, msgVars, todo, cur, step, m_workers, listening>>

-----------------------------------------------------------------------------
(* start() *)

Listen ==
  /\ hpc = "created"
  /\ hpc' = "start" /\ todo' = m_workers /\ listening' = TRUE
  /\ UNCHANGED <<workerVars, aioVars, msgVars, cur, step, m_workers>>

\* nng_listen or nng_dial fails: create drops the handler.
ListenFails ==
  /\ hpc = "created"
  /\ hpc' = "dtor_stop" /\ todo' = m_workers
  /\ UNCHANGED <<workerVars, aioVars, msgVars, cur, step, m_workers, listening>>

\* worker->start() is process() in the caller's thread.  Before its first
\* operation nothing else touches the worker, so INIT to RECV and the first
\* nng_ctx_recv are one step.
StartWorker(w) ==
  /\ hpc = "start" /\ w \in todo
  /\ todo' = todo \ {w}
  /\ m_state' = [m_state EXCEPT ![w] = "RECV"]
  /\ aioOp' = [aioOp EXCEPT ![w] = "recv"]
  /\ aioResult' = [aioResult EXCEPT ![w] = "OK"]
  /\ UNCHANGED <<m_stopping, pc, next, aioMsg, aioStopped, aioFreed, msgVars,
                 hpc, cur, step, m_workers, listening>>

Started ==
  /\ hpc = "start" /\ todo = {}
  /\ hpc' = "running"
  /\ UNCHANGED <<workerVars, aioVars, msgVars, todo, cur, step, m_workers, listening>>

-----------------------------------------------------------------------------
(* free: stop(), then the destructor's stop() and release() *)

Free ==
  /\ hpc = "running"
  /\ hpc' = "stop" /\ todo' = m_workers
  /\ UNCHANGED <<workerVars, aioVars, msgVars, cur, step, m_workers, listening>>

\* worker->stop() of the three loops: m_stopping, nng_aio_stop, and the wait
\* inside nng_aio_stop for a running callback.
StopBegin(w) ==
  /\ hpc \in StopLoops /\ step = "flag" /\ w \in todo
  /\ StopFlag(w)
  /\ cur' = w /\ step' = "aio"
  /\ UNCHANGED <<hpc, todo, m_workers, listening>>

\* Mutant of StopAio: wait without cancelling the outstanding operation.
StopAioNoCancel ==
  /\ hpc \in StopLoops /\ step = "aio"
  /\ step' = "wait"
  /\ UNCHANGED <<workerVars, aioVars, msgVars, hpc, todo, cur, m_workers, listening>>

StopAio ==
  /\ hpc \in StopLoops /\ step = "aio"
  /\ AioStop(cur)
  /\ step' = "wait"
  /\ UNCHANGED <<hpc, todo, cur, m_workers, listening>>

\* Mutant of StopEnd: do not wait for a running callback.
StopEndNoWait ==
  /\ hpc \in StopLoops /\ step = "wait"
  /\ IF hpc = "release" THEN FreeAio(cur) ELSE UNCHANGED <<workerVars, aioVars, msgVars>>
  /\ todo' = todo \ {cur} /\ step' = "flag"
  /\ UNCHANGED <<hpc, cur, m_workers, listening>>

\* nng_aio_stop has returned; ~AioWorker then frees the aio and the context.
StopEnd ==
  /\ hpc \in StopLoops /\ step = "wait" /\ AioIdle(cur)
  /\ IF hpc = "release" THEN FreeAio(cur) ELSE UNCHANGED <<workerVars, aioVars, msgVars>>
  /\ todo' = todo \ {cur} /\ step' = "flag"
  /\ UNCHANGED <<hpc, cur, m_workers, listening>>

\* stop() returns and the next phase of the teardown begins.
StopReturns ==
  /\ hpc \in {"stop", "dtor_stop"} /\ step = "flag" /\ todo = {}
  /\ hpc' = (IF hpc = "stop" THEN "dtor_stop" ELSE "release")
  /\ todo' = m_workers
  /\ UNCHANGED <<workerVars, aioVars, msgVars, cur, step, m_workers, listening>>

\* release(): after m_workers.clear(), nng_close drops what is queued.
CloseSocket ==
  /\ hpc = "release" /\ step = "flag" /\ todo = {}
  /\ hpc' = "none" /\ m_workers' = {} /\ listening' = FALSE
  /\ msgs' = [m \in Msgs |-> IF msgs[m] = "queued" THEN "freed" ELSE msgs[m]]
  /\ UNCHANGED <<workerVars, aioVars, badFree, todo, cur, step>>

-----------------------------------------------------------------------------
(* The specification *)

PeerSends(m) ==
  /\ listening
  /\ Arrive(m)
  /\ UNCHANGED handlerVars

WorkerStep(w) == Process(w) /\ UNCHANGED handlerVars

NngStep(w) == NngCompletes(w) /\ UNCHANGED handlerVars

HandlerStep ==
  \/ \E w \in Workers : CreateWorker(w) \/ CreateWorkerFails(w)
  \/ InitDone \/ Listen \/ ListenFails
  \/ \E w \in Workers : StartWorker(w)
  \/ Started
  \/ \E w \in Workers : StopBegin(w)
  \/ StopAio \/ StopEnd \/ StopReturns \/ CloseSocket

\* The process is gone: nothing happens any more.
Crashed == hpc = "crashed" /\ UNCHANGED vars

Next ==
  \/ hpc # "crashed" /\ \E w \in Workers : WorkerStep(w) \/ NngStep(w)
  \/ \E m \in Msgs : PeerSends(m)
  \/ Create \/ Free
  \/ HandlerStep
  \/ Crashed

Spec == Init /\ [][Next]_vars

\* The scheduler runs every thread: a running process() goes on (the user's
\* callback returns), the control thread finishes the call it is in, nng
\* completes sends and sleeps, and a worker that keeps receiving while
\* messages are queued is eventually given one.  Nobody has to call free.
Fairness ==
  /\ \A w \in Workers : WF_vars(WorkerStep(w))
  /\ \A w \in Workers : WF_vars((SendDone(w) \/ SleepDone(w)) /\ UNCHANGED handlerVars)
  /\ \A w \in Workers : SF_vars((\E m \in Msgs : RecvDone(w, m)) /\ UNCHANGED handlerVars)
  /\ WF_vars(HandlerStep)

FairSpec == Spec /\ Fairness

-----------------------------------------------------------------------------
(* Properties *)

\* Messages are freed by their owner, although the aio keeps its pointer across
\* operations: no reply the socket has taken is ever freed, and while a worker
\* serves it frees nothing twice, whatever fails.  The code has one double free,
\* and this says that it is the only one: a worker that gave up its message (a
\* failed append, lines 168-177, or a failed send, 124-135) and is stopped before
\* it receives the next frees that message again when it quits (line 121).
FreedByOwner ==
  [][\A m \in badFree' \ badFree :
       msgs[m] = "freed" /\ \E w \in Workers : aioMsg[w] = m /\ m_stopping[w]]_vars

\* After stop() has returned no callback runs or can still be started for any
\* worker of the pool, so the destructor may free the user's objects.
QuietAfterStop ==
  hpc \in {"dtor_stop", "release"} => \A w \in m_workers : AioIdle(w)

\* nng_aio_free is only applied to an aio that is not in use.
FreedAioUnused == \A w \in Workers : aioFreed[w] => AioIdle(w)

\* A worker is never left without anything that would wake it: while the
\* handler runs, an idle worker has an operation outstanding.  (Losing one
\* submission would silently shrink the pool.)
NoLostWorker ==
  hpc = "running" => \A w \in m_workers : pc[w] # "idle" \/ aioOp[w] # "none"

\* Every message queued in the socket is taken out of it, whatever errors the
\* workers meet, as long as there is a worker.
QueuedIsTaken ==
  \A m \in Msgs : (msgs[m] = "queued" /\ m_workers # {}) ~> (msgs[m] # "queued")

\* free() returns, even when it is called while callbacks run.
FreeReturns == hpc = "stop" ~> hpc = "none"

-----------------------------------------------------------------------------
(* The promise to the peers *)

\* Worker w still works on the message its aio points to: it was received and
\* process() has not decided about it, or a reply in it is being sent.
WorksOn(w, m) ==
  /\ aioMsg[w] = m
  /\ \/ pc[w] \in {"process", "callback"} /\ m_state[w] = "RECV" /\ aioResult[w] = "OK"
     \/ m_state[w] = "SEND" /\ (pc[w] = "submit" \/ aioOp[w] = "send")

RequestState(m) ==
  CASE msgs[m] = "wire"   -> "away"
    [] msgs[m] = "queued" -> "queued"
    [] msgs[m] = "held"   -> IF \E w \in Workers : WorksOn(w, m) THEN "handling" ELSE "dropped"
    [] msgs[m] = "sent"   -> "answered"
    [] msgs[m] = "freed"  -> "dropped"

RequestMap == [m \in Msgs |-> RequestState(m)]

Service == INSTANCE RequestService
             WITH Requests <- Msgs, Capacity <- Cardinality(Workers), req <- RequestMap

\* The handler and its workers implement RequestService: no request is handled
\* twice, answered after it was dropped, or answered without having been handled,
\* although an aio keeps pointing to the message of an earlier round.
ServesRequests == Service!Spec

=============================================================================
