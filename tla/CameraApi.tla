------------------------------ MODULE CameraApi ------------------------------
(***************************************************************************)
(* ChtP2PCameraAPI (cht_p2p_camera_api.cpp): initialize and deinitialize,  *)
(* called by the application's thread, the queue of system events filled   *)
(* by the subscription's callback, and the event worker thread.  Events    *)
(* are the messages of the system service; each is published once.  The    *)
(* queue's mutex makes every action below that touches the queue atomic.   *)
(* The gate is checkHiOssStatus as the command handler sees it: other      *)
(* threads bind, check and unbind meanwhile (Binding, Control).            *)
(***************************************************************************)
EXTENDS Reports, FiniteSets

CONSTANTS
  Events,     \* system events published while the program runs
  NoEvent,    \* the worker holds no event
  Messages,   \* what the messages may hold
  MaxRetries  \* bound on how often one event is put back in the queue

ASSUME NoEventAssumption == NoEvent \notin Events
ASSUME RetryAssumption   == MaxRetries \in Nat
\* The times of a message are read from digits.
ASSUME MessageAssumption ==
  \A m \in Messages : DOMAIN m.times \subseteq Nat /\ \A i \in DOMAIN m.times : m.times[i] \in Seq(Nat)

VARIABLES
  api,                    \* where the application's thread is
  m_initialized,
  m_eventWorkerStopping,
  m_eventQueue,
  agentUp,                \* chtp2p_initialize was called and not undone
  listener,               \* g_listener is set: the subscription delivers events
  worker,                 \* where m_eventWorkerThread is; "none": not joinable
  hand,                   \* the event processSystemEvent is working on
  published,              \* events the service has sent
  finished,               \* events reported or dropped for good
  retries,                \* how often each event was put back
  msg,                    \* what each event's message holds
  gate,                   \* checkHiOssStatus
  gone,                   \* events whose files are not readable any more
  reported,               \* history: events the agent has confirmed
  excused                 \* history: events that need not be reported: not
                          \* delivered, the gate closed or the file gone since

envVars == <<msg, gate, gone, excused>>
vars == <<api, m_initialized, m_eventWorkerStopping, m_eventQueue, agentUp,
          listener, worker, hand, published, finished, retries, reported, envVars>>

ApiSteps == {"idle", "init", "initAgent", "initSub", "initThread", "initDone",
             "join", "unsubscribe", "deinitAgent", "stuck"}

TypeOK ==
  /\ api \in ApiSteps
  /\ m_initialized \in BOOLEAN /\ m_eventWorkerStopping \in BOOLEAN
  /\ m_eventQueue \in Seq(Events)
  /\ agentUp \in BOOLEAN /\ listener \in BOOLEAN
  /\ worker \in {"none", "check", "lock", "waiting", "processing", "sending", "exited"}
  /\ hand \in Events \cup {NoEvent}
  /\ published \in SUBSET Events /\ finished \in SUBSET Events
  /\ retries \in [Events -> 0..MaxRetries]
  /\ msg \in [Events -> Messages] /\ gate \in BOOLEAN
  /\ gone \in SUBSET Events /\ reported \in SUBSET Events /\ excused \in SUBSET Events

Init ==
  /\ api = "idle" /\ m_initialized = FALSE /\ m_eventWorkerStopping = FALSE
  /\ m_eventQueue = <<>> /\ agentUp = FALSE /\ listener = FALSE
  /\ worker = "none" /\ hand = NoEvent
  /\ published = {} /\ finished = {} /\ retries = [e \in Events |-> 0]
  /\ msg \in [Events -> Messages] /\ gate = FALSE
  /\ gone = {} /\ reported = {} /\ excused = {}

queueVars  == <<m_eventQueue, hand, published, finished, retries, reported, envVars>>

-----------------------------------------------------------------------------
(* initialize() *)

Initialize ==
  /\ api = "idle" /\ ~m_initialized
  /\ api' = "init"
  /\ UNCHANGED <<m_initialized, m_eventWorkerStopping, agentUp, listener, worker, queueVars>>

\* setIsCheckHioss(bool) calls itself: the const char* argument converts to
\* bool before it converts to std::string.  The endless recursion is undefined
\* behaviour: it overflows the stack or loops (this thread never returns), or
\* the compiler drops it and the call has no effect.
SetIsCheckHioss ==
  /\ api = "init"
  /\ api' \in {"stuck", "initAgent"}
  /\ UNCHANGED <<m_initialized, m_eventWorkerStopping, agentUp, listener, worker, queueVars>>

InitAgent ==
  /\ api = "initAgent"
  /\ \/ api' = "initSub" /\ agentUp' = TRUE
     \/ api' = "idle" /\ UNCHANGED agentUp    \* chtp2p_initialize failed
  /\ UNCHANGED <<m_initialized, m_eventWorkerStopping, listener, worker, queueVars>>

\* zwsystem_sub_subscribeSystemEvent; when it fails, initialize returns false
\* and leaves the agent running.
InitSubscribe ==
  /\ api = "initSub"
  /\ \/ api' = "initThread" /\ listener' = TRUE
     \/ api' = "idle" /\ ~listener /\ UNCHANGED listener
  /\ UNCHANGED <<m_initialized, m_eventWorkerStopping, agentUp, worker, queueVars>>

InitThread ==
  /\ api = "initThread"
  /\ api' = "initDone"
  /\ m_eventWorkerStopping' = FALSE
  /\ worker' = "check"
  /\ UNCHANGED <<m_initialized, agentUp, listener, queueVars>>

InitDone ==
  /\ api = "initDone"
  /\ api' = "idle" /\ m_initialized' = TRUE
  /\ UNCHANGED <<m_eventWorkerStopping, agentUp, listener, worker, queueVars>>

-----------------------------------------------------------------------------
(* deinitialize() *)

\* notify_one wakes a worker that waits on m_queueCV.
Notified == IF worker = "waiting" THEN "lock" ELSE worker

\* Mutant of Deinitialize: the worker is not joined.
DeinitializeNoJoin ==
  /\ api = "idle" /\ m_initialized
  /\ api' = "unsubscribe"
  /\ m_eventWorkerStopping' = TRUE
  /\ worker' = Notified
  /\ UNCHANGED <<m_initialized, agentUp, listener, queueVars>>

Deinitialize ==
  /\ api = "idle" /\ m_initialized
  /\ api' = "join"
  /\ m_eventWorkerStopping' = TRUE
  /\ worker' = Notified
  /\ UNCHANGED <<m_initialized, agentUp, listener, queueVars>>

Join ==
  /\ api = "join" /\ worker = "exited"
  /\ api' = "unsubscribe" /\ worker' = "none"
  /\ UNCHANGED <<m_initialized, m_eventWorkerStopping, agentUp, listener, queueVars>>

\* Mutant of Unsubscribe: the listener stays.
UnsubscribeKeeps ==
  /\ api = "unsubscribe"
  /\ api' = "deinitAgent"
  /\ UNCHANGED <<m_initialized, m_eventWorkerStopping, agentUp, listener, worker, queueVars>>

Unsubscribe ==
  /\ api = "unsubscribe"
  /\ api' = "deinitAgent" /\ listener' = FALSE
  /\ UNCHANGED <<m_initialized, m_eventWorkerStopping, agentUp, worker, queueVars>>

DeinitAgent ==
  /\ api = "deinitAgent"
  /\ api' = "idle" /\ agentUp' = FALSE /\ m_initialized' = FALSE
  /\ UNCHANGED <<m_eventWorkerStopping, listener, worker, queueVars>>

-----------------------------------------------------------------------------
(* The subscription and the rest of the camera *)

\* onMessage and addSystemEvent; a message with a bad header is dropped.
Publish(e) ==
  LET delivered == listener /\ msg[e].header IN
  /\ e \notin published
  /\ published' = published \cup {e}
  /\ IF delivered
       THEN m_eventQueue' = Append(m_eventQueue, e) /\ worker' = Notified
       ELSE UNCHANGED <<m_eventQueue, worker>>
  /\ finished' = IF delivered THEN finished ELSE finished \cup {e}
  /\ excused' = IF delivered /\ gate THEN excused ELSE excused \cup {e}
  /\ UNCHANGED <<api, m_initialized, m_eventWorkerStopping, agentUp, listener, hand,
                 retries, msg, gate, gone, reported>>

\* A HiOSS check, or an unbinding, on another thread.
GateChanges ==
  /\ gate' = ~gate
  /\ excused' = IF gate THEN published ELSE excused
  /\ UNCHANGED <<api, m_initialized, m_eventWorkerStopping, m_eventQueue, agentUp,
                 listener, worker, hand, published, finished, retries, msg, gone, reported>>

FileGoes(e) ==
  /\ e \in published \ gone
  /\ gone' = gone \cup {e} /\ excused' = excused \cup {e}
  /\ UNCHANGED <<api, m_initialized, m_eventWorkerStopping, m_eventQueue, agentUp,
                 listener, worker, hand, published, finished, retries, msg, gate, reported>>

-----------------------------------------------------------------------------
(* eventWorkerThread *)

\* The loop's condition, read in a critical section of its own.
CheckStopping ==
  /\ worker = "check"
  /\ worker' = IF m_eventWorkerStopping THEN "exited" ELSE "lock"
  /\ UNCHANGED <<api, m_initialized, m_eventWorkerStopping, agentUp, listener, queueVars>>

\* The predicate of the wait, as written.
Wakes == m_eventQueue # <<>> \/ ~m_eventWorkerStopping

WorkerWaits ==
  /\ worker = "lock" /\ ~Wakes
  /\ worker' = "waiting"
  /\ UNCHANGED <<api, m_initialized, m_eventWorkerStopping, agentUp, listener, queueVars>>

\* if (!m_eventWorkerStopping) break;
WorkerBreaks ==
  /\ worker = "lock" /\ Wakes /\ ~m_eventWorkerStopping
  /\ worker' = "exited"
  /\ UNCHANGED <<api, m_initialized, m_eventWorkerStopping, agentUp, listener, queueVars>>

WorkerPops ==
  /\ worker = "lock" /\ Wakes /\ m_eventWorkerStopping
  /\ worker' = "processing"
  /\ hand' = Head(m_eventQueue) /\ m_eventQueue' = Tail(m_eventQueue)
  /\ UNCHANGED <<api, m_initialized, m_eventWorkerStopping, agentUp, listener,
                 published, finished, retries, reported, envVars>>

Kind(e) == Classify(msg[e].prefix)

\* What dispatchEvent may return now.  Goes leaves it inside the second function,
\* which checks gate and files again, sends, and waits for an answer that says 1
\* or anything else; whether the gate closed before or after it looked is open.
Rc ==
  IF worker = "processing"
    THEN {DispatchEvent(Kind(hand), msg[hand], gate, hand \notin gone)}
  ELSE IF SendRefused(Kind(hand), msg[hand]) THEN {-3} ELSE {0, -3}

\* The report function goes on to its command.
Report ==
  /\ worker = "processing" /\ Goes \in Rc
  /\ worker' = "sending"
  /\ UNCHANGED <<api, m_initialized, m_eventWorkerStopping, agentUp, listener, queueVars>>

\* processSystemEvent ends: reported (0) or given up (REPORT_EVENT_NOT_RETRY) ...
ProcessFinal ==
  /\ worker \in {"processing", "sending"} /\ {0, NotRetry} \cap Rc # {}
  /\ worker' = "check" /\ hand' = NoEvent /\ finished' = finished \cup {hand}
  /\ reported' = IF worker = "sending" THEN reported \cup {hand} ELSE reported
  /\ UNCHANGED <<api, m_initialized, m_eventWorkerStopping, agentUp, listener,
                 m_eventQueue, published, retries, envVars>>

\* Mutant of ProcessRetry: the event is not put back.
ProcessRetryLoses ==
  /\ worker \in {"processing", "sending"} /\ {-2, -3} \cap Rc # {}
  /\ retries[hand] < MaxRetries
  /\ worker' = "check" /\ hand' = NoEvent
  /\ retries' = [retries EXCEPT ![hand] = @ + 1]
  /\ UNCHANGED <<api, m_initialized, m_eventWorkerStopping, agentUp, listener,
                 m_eventQueue, published, finished, reported, envVars>>

\* Mutant of ProcessRetry: an event the agent did not confirm is given up.
ProcessRetryDrops ==
  /\ worker \in {"processing", "sending"} /\ {-2, -3} \cap Rc # {}
  /\ worker' = "check" /\ hand' = NoEvent /\ finished' = finished \cup {hand}
  /\ UNCHANGED <<api, m_initialized, m_eventWorkerStopping, agentUp, listener,
                 m_eventQueue, published, retries, reported, envVars>>

\* ... or put back at the end of the queue.
ProcessRetry ==
  /\ worker \in {"processing", "sending"} /\ {-2, -3} \cap Rc # {}
  /\ retries[hand] < MaxRetries
  /\ worker' = "check" /\ hand' = NoEvent
  /\ m_eventQueue' = Append(m_eventQueue, hand)
  /\ retries' = [retries EXCEPT ![hand] = @ + 1]
  /\ UNCHANGED <<api, m_initialized, m_eventWorkerStopping, agentUp, listener,
                 published, finished, reported, envVars>>

EventWorker ==
  \/ CheckStopping \/ WorkerWaits \/ WorkerBreaks \/ WorkerPops
  \/ Report \/ ProcessFinal \/ ProcessRetry

InitializeStep ==
  SetIsCheckHioss \/ InitAgent \/ InitSubscribe \/ InitThread \/ InitDone

DeinitializeStep == Join \/ Unsubscribe \/ DeinitAgent

\* The application's thread is stuck for good.
Stuck == api = "stuck" /\ UNCHANGED vars

Next ==
  \/ Initialize \/ InitializeStep
  \/ Deinitialize \/ DeinitializeStep
  \/ \E e \in Events : Publish(e) \/ FileGoes(e)
  \/ GateChanges
  \/ EventWorker
  \/ Stuck

Spec == Init /\ [][Next]_vars

-----------------------------------------------------------------------------
(* Properties *)

Occurrences(e) == Cardinality({i \in DOMAIN m_eventQueue : m_eventQueue[i] = e})

\* No event is lost or doubled on its way from the subscription to its end,
\* retries included: it is in exactly one place.
EventConserved ==
  \A e \in Events :
    Occurrences(e) + Cardinality({x \in {hand} : x = e}) + Cardinality({x \in finished : x = e})
      = Cardinality({x \in published : x = e})

\* The worker reports to the agent only between chtp2p_initialize and
\* chtp2p_deinitialize: deinitialize joins it first.
ReportsToLiveAgent == worker \in {"processing", "sending"} => agentUp /\ m_initialized

\* An event that was delivered while the gate was open is given up only when the
\* agent has confirmed it, or the gate has closed or its file has gone since:
\* failed commands and later lives of the API do not lose it
\* (cht_p2p_camera_api.cpp:313-324).
KeptUntilReported == finished \subseteq reported \cup excused

\* The times in a reported event exist, by the rule that a month has 30 days and
\* one more in every other month, seen from either end of the year, and that a
\* leap year is divisible by 16, or by 4 and not by 25
\* (cht_p2p_camera_command_handler.cpp:1004-1046).
TimesExist ==
  worker = "sending" => \A i \in DOMAIN msg[hand].times :
    LET t == msg[hand].times[i]
        leap == t[1] % 16 = 0 \/ (t[1] % 4 = 0 /\ t[1] % 25 # 0)
        days == IF t[2] = 2 THEN (IF leap THEN 29 ELSE 28)
                ELSE 30 + ((t[2] + (t[2] \div 8)) % 2)
    IN t[2] \in 1..12 /\ t[3] \in 1..days

\* Between calls, an API that is not initialized has no subscription and no
\* thread left, however its calls failed or interleaved with events.
DownIsQuiet == api = "idle" /\ ~m_initialized => worker = "none" /\ ~listener

=============================================================================
