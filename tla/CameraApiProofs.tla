--------------------------- MODULE CameraApiProofs ---------------------------
(***************************************************************************)
(* Theorems about CameraApi, for any events, messages and number of        *)
(* retries: the events in the queue are conserved, the worker thread lives *)
(* only between initialize and deinitialize, and what it gives up and what *)
(* it reports.                                                             *)
(***************************************************************************)
EXTENDS CameraApi, FiniteSetTheorems, SequenceTheorems, TLAPS

-----------------------------------------------------------------------------
(* The life of the API *)

Ending == {"join", "unsubscribe", "deinitAgent"}
Busy   == {"processing", "sending"}

\* Between its calls, and where each call is, the API has its subscription, its
\* thread and its agent or has them not.
LifeApi ==
  /\ api \in Ending => m_initialized
  /\ api \notin Ending \cup {"idle"} => ~m_initialized
  /\ api \in {"init", "initAgent", "initSub", "stuck", "deinitAgent"} => worker = "none" /\ ~listener
  /\ api = "idle" /\ ~m_initialized => worker = "none" /\ ~listener
  /\ api \in {"initThread", "unsubscribe"} => worker = "none"
  /\ api \in {"initSub", "initThread", "initDone"} => agentUp
  /\ m_initialized => agentUp

\* The worker waits and works only after deinitialize has set the flag.
LifeWorker ==
  /\ api = "initDone" \/ (api = "idle" /\ m_initialized) => ~m_eventWorkerStopping
  /\ worker \in Busy \cup {"waiting"} => m_eventWorkerStopping /\ api = "join"
  /\ hand # NoEvent <=> worker \in Busy

LifeInv == TypeOK /\ LifeApi /\ LifeWorker

\* The initial states satisfy the invariant.
LEMMA InitLife == Init => LifeInv
<1> SUFFICES ASSUME Init PROVE LifeInv
  OBVIOUS
<1>1. TypeOK
  <2>1. retries \in [Events -> 0..MaxRetries]
    BY RetryAssumption DEF Init
  <2>2. m_eventQueue \in Seq(Events)
    BY EmptySeq DEF Init
  <2>3. /\ api \in ApiSteps /\ hand \in Events \cup {NoEvent}
        /\ worker \in {"none", "check", "lock", "waiting", "processing", "sending", "exited"}
        /\ m_initialized \in BOOLEAN /\ m_eventWorkerStopping \in BOOLEAN
        /\ agentUp \in BOOLEAN /\ listener \in BOOLEAN
    BY DEF Init, ApiSteps
  <2>4. /\ published \in SUBSET Events /\ finished \in SUBSET Events
        /\ msg \in [Events -> Messages] /\ gate \in BOOLEAN
        /\ gone \in SUBSET Events /\ reported \in SUBSET Events /\ excused \in SUBSET Events
    BY DEF Init
  <2> QED
    BY <2>1, <2>2, <2>3, <2>4 DEF TypeOK
<1>2. LifeApi /\ LifeWorker
  BY DEF Init, LifeApi, LifeWorker, Ending, Busy
<1> QED
  BY <1>1, <1>2 DEF LifeInv

\* The steps of initialize and deinitialize preserve it.
LEMMA ApiLife ==
  ASSUME LifeInv, Initialize \/ InitializeStep \/ Deinitialize \/ DeinitializeStep
  PROVE  LifeInv'
<1> USE DEF LifeInv, TypeOK, ApiSteps, LifeApi, LifeWorker, Ending, Busy, queueVars, envVars, Notified
<1>1. CASE Initialize
  BY <1>1 DEF Initialize
<1>2. CASE SetIsCheckHioss
  BY <1>2 DEF SetIsCheckHioss
<1>3. CASE InitAgent
  BY <1>3 DEF InitAgent
<1>4. CASE InitSubscribe
  <2>1. TypeOK'
    BY <1>4 DEF InitSubscribe
  <2>2. LifeApi'
    BY <1>4 DEF InitSubscribe
  <2>3. LifeWorker'
    BY <1>4 DEF InitSubscribe
  <2> QED
    BY <2>1, <2>2, <2>3
<1>5. CASE InitThread
  BY <1>5 DEF InitThread
<1>6. CASE InitDone
  BY <1>6 DEF InitDone
<1>7. CASE Deinitialize
  BY <1>7 DEF Deinitialize
<1>8. CASE Join
  BY <1>8 DEF Join
<1>9. CASE Unsubscribe
  BY <1>9 DEF Unsubscribe
<1>10. CASE DeinitAgent
  BY <1>10 DEF DeinitAgent
<1> QED
  BY <1>1, <1>2, <1>3, <1>4, <1>5, <1>6, <1>7, <1>8, <1>9, <1>10 DEF InitializeStep, DeinitializeStep

\* The steps of the rest of the camera preserve it.
LEMMA CameraLife ==
  ASSUME LifeInv, NEW e \in Events, Publish(e) \/ FileGoes(e) \/ GateChanges
  PROVE  LifeInv'
<1> USE DEF LifeInv, TypeOK, LifeApi, LifeWorker, Ending, Busy
<1>1. CASE Publish(e)
  <2>1. Append(m_eventQueue, e) \in Seq(Events)
    BY AppendProperties
  <2> QED
    BY <1>1, <2>1 DEF Publish, Notified
<1>2. CASE FileGoes(e)
  BY <1>2 DEF FileGoes
<1>3. CASE GateChanges
  BY <1>3 DEF GateChanges
<1> QED
  BY <1>1, <1>2, <1>3

\* The steps of the worker thread preserve it.
LEMMA WorkerLife ==
  ASSUME LifeInv, EventWorker
  PROVE  LifeInv'
<1> USE NoEventAssumption DEF LifeInv, TypeOK, LifeApi, LifeWorker, Ending, Busy, queueVars, envVars
<1>0. worker # "none" /\ m_eventWorkerStopping => api = "join"
  BY DEF ApiSteps
<1>1. CASE CheckStopping
  BY <1>1 DEF CheckStopping
<1>2. CASE WorkerWaits
  BY <1>0, <1>2 DEF WorkerWaits, Wakes
<1>3. CASE WorkerBreaks
  BY <1>3 DEF WorkerBreaks
<1>4. CASE WorkerPops
  <2>1. Head(m_eventQueue) \in Events /\ Tail(m_eventQueue) \in Seq(Events)
    BY <1>4, HeadTailProperties DEF WorkerPops, Wakes
  <2> QED
    BY <1>0, <1>4, <2>1 DEF WorkerPops
<1>5. CASE Report
  BY <1>5 DEF Report
<1>6. CASE ProcessFinal
  BY <1>6 DEF ProcessFinal
<1>7. CASE ProcessRetry
  <2>1. Append(m_eventQueue, hand) \in Seq(Events)
    BY <1>7, AppendProperties DEF ProcessRetry
  <2> QED
    BY <1>7, <2>1, RetryAssumption DEF ProcessRetry
<1> QED
  BY <1>1, <1>2, <1>3, <1>4, <1>5, <1>6, <1>7 DEF EventWorker

\* LifeInv is an inductive invariant.
LEMMA LifeInvariance == Spec => []LifeInv
<1>1. LifeInv /\ [Next]_vars => LifeInv'
  <2> SUFFICES ASSUME LifeInv, [Next]_vars PROVE LifeInv'
    OBVIOUS
  <2>1. CASE Stuck \/ UNCHANGED vars
    BY <2>1 DEF Stuck, vars, envVars, LifeInv, TypeOK, LifeApi, LifeWorker
  <2>2. CASE GateChanges
    BY <2>2 DEF GateChanges, LifeInv, TypeOK, LifeApi, LifeWorker
  <2> QED
    BY <2>1, <2>2, ApiLife, CameraLife, WorkerLife DEF Next
<1> QED
  BY <1>1, InitLife, PTL DEF Spec

\* Every variable of the API keeps its type.
THEOREM TypeInvariance == Spec => []TypeOK
<1>1. LifeInv => TypeOK
  BY DEF LifeInv
<1> QED
  BY <1>1, LifeInvariance, PTL

\* Between calls an API that is not initialized has no subscription and no thread,
\* however initialize and deinitialize failed or interleaved with events.
THEOREM DownIsQuietHolds == Spec => []DownIsQuiet
<1>1. LifeInv => DownIsQuiet
  BY DEF LifeInv, LifeApi, DownIsQuiet
<1> QED
  BY <1>1, LifeInvariance, PTL

\* The event worker reports only while the agent is initialized.
THEOREM ReportsToLiveAgentHolds == Spec => []ReportsToLiveAgent
<1>1. LifeInv => ReportsToLiveAgent
  BY DEF LifeInv, LifeApi, LifeWorker, Ending, Busy, ReportsToLiveAgent
<1> QED
  BY <1>1, LifeInvariance, PTL

-----------------------------------------------------------------------------
(* The events on their way *)

Queued(e) == \E i \in DOMAIN m_eventQueue : m_eventQueue[i] = e

\* An event is in one place only, and an event that was published is in one.
QueueInv ==
  /\ \A i, j \in DOMAIN m_eventQueue : m_eventQueue[i] = m_eventQueue[j] => i = j
  /\ \A i \in DOMAIN m_eventQueue : m_eventQueue[i] \in published \ finished /\ m_eventQueue[i] # hand
  /\ hand # NoEvent => hand \in published \ finished
  /\ finished \subseteq published
  /\ \A e \in published : e \in finished \/ e = hand \/ Queued(e)

\* What appending an event that is not in the queue does to the queue.
LEMMA AppendQueue ==
  ASSUME TypeOK, NEW e \in Events, m_eventQueue' = Append(m_eventQueue, e)
  PROVE  /\ DOMAIN m_eventQueue' = DOMAIN m_eventQueue \cup {Len(m_eventQueue) + 1}
         /\ Len(m_eventQueue) + 1 \notin DOMAIN m_eventQueue
         /\ \A i \in DOMAIN m_eventQueue : m_eventQueue'[i] = m_eventQueue[i]
         /\ m_eventQueue'[Len(m_eventQueue) + 1] = e
<1>1. m_eventQueue \in Seq(Events)
  BY DEF TypeOK
<1>2. /\ Len(m_eventQueue) \in Nat /\ DOMAIN m_eventQueue = 1..Len(m_eventQueue)
      /\ DOMAIN m_eventQueue' = 1..(Len(m_eventQueue) + 1)
      /\ \A i \in 1..Len(m_eventQueue) : m_eventQueue'[i] = m_eventQueue[i]
      /\ m_eventQueue'[Len(m_eventQueue) + 1] = e
  BY <1>1, AppendProperties, LenProperties
<1> QED
  BY <1>2

\* What taking the first event does to it.
LEMMA TailQueue ==
  ASSUME TypeOK, m_eventQueue # <<>>, m_eventQueue' = Tail(m_eventQueue)
  PROVE  /\ 1 \in DOMAIN m_eventQueue /\ Head(m_eventQueue) = m_eventQueue[1]
         /\ \A i \in DOMAIN m_eventQueue' : i + 1 \in DOMAIN m_eventQueue /\ i + 1 # 1
              /\ i \in Nat /\ m_eventQueue'[i] = m_eventQueue[i + 1]
         /\ \A i \in DOMAIN m_eventQueue \ {1} : i - 1 \in DOMAIN m_eventQueue' /\ m_eventQueue'[i - 1] = m_eventQueue[i]
<1>1. m_eventQueue \in Seq(Events)
  BY DEF TypeOK
<1>2. /\ Len(m_eventQueue) \in Nat /\ DOMAIN m_eventQueue = 1..Len(m_eventQueue)
      /\ Len(m_eventQueue) # 0 /\ Head(m_eventQueue) = m_eventQueue[1]
  BY <1>1, LenProperties, EmptySeq
<1>3. /\ Len(m_eventQueue') = Len(m_eventQueue) - 1 /\ m_eventQueue' \in Seq(Events)
      /\ \A i \in 1..Len(m_eventQueue') : m_eventQueue'[i] = m_eventQueue[i + 1]
  BY <1>1, HeadTailProperties
<1>4. DOMAIN m_eventQueue' = 1..(Len(m_eventQueue) - 1)
  BY <1>3, LenProperties
<1>5. ASSUME NEW i \in DOMAIN m_eventQueue'
      PROVE  /\ i + 1 \in DOMAIN m_eventQueue /\ i + 1 # 1 /\ i \in Nat
             /\ m_eventQueue'[i] = m_eventQueue[i + 1]
  BY <1>2, <1>3, <1>4
<1>6. ASSUME NEW i \in DOMAIN m_eventQueue \ {1}
      PROVE  i - 1 \in DOMAIN m_eventQueue' /\ m_eventQueue'[i - 1] = m_eventQueue[i]
  <2>1. i - 1 \in DOMAIN m_eventQueue'
    BY <1>2, <1>4
  <2>2. i \in Nat /\ (i - 1) + 1 = i
    BY <1>2
  <2> QED
    BY <1>5, <2>1, <2>2
<1> QED
  BY <1>2, <1>5, <1>6

\* QueueInv is preserved by every step that keeps the queue and the events'
\* whereabouts.
LEMMA QueueKept ==
  ASSUME QueueInv, UNCHANGED <<m_eventQueue, hand, published, finished>>
  PROVE  QueueInv'
BY DEF QueueInv, Queued

\* Every step keeps an event in one place.
LEMMA QueueStep == LifeInv /\ QueueInv /\ [Next]_vars => QueueInv'
<1> SUFFICES ASSUME LifeInv, QueueInv, [Next]_vars PROVE QueueInv'
  OBVIOUS
<1> USE NoEventAssumption
<1>0. TypeOK /\ LifeWorker
  BY DEF LifeInv
<1>1. CASE Initialize \/ InitializeStep \/ Deinitialize \/ DeinitializeStep
  BY <1>1, QueueKept DEF Initialize, InitializeStep, Deinitialize, DeinitializeStep, SetIsCheckHioss,
     InitAgent, InitSubscribe, InitThread, InitDone, Join, Unsubscribe, DeinitAgent, queueVars
<1>2. CASE Stuck \/ UNCHANGED vars \/ GateChanges \/ \E e \in Events : FileGoes(e)
  BY <1>2, QueueKept DEF Stuck, vars, GateChanges, FileGoes
<1>3. CASE \E e \in Events : Publish(e)
  <2>1. PICK e \in Events : Publish(e)
    BY <1>3
  <2>2. /\ e \notin published /\ published' = published \cup {e} /\ hand' = hand
        /\ hand # e /\ ~Queued(e)
    BY <2>1 DEF Publish, QueueInv, Queued
  <2>3. CASE listener /\ msg[e].header
    <3>1. m_eventQueue' = Append(m_eventQueue, e) /\ finished' = finished
      BY <2>1, <2>3 DEF Publish
    <3>2. (QueueInv!1)'
      BY <2>2, <3>1, <1>0, AppendQueue DEF QueueInv, Queued
    <3>3. (QueueInv!2)'
      BY <2>2, <3>1, <1>0, AppendQueue DEF QueueInv, Queued
    <3>4. (QueueInv!5)'
      BY <2>2, <3>1, <1>0, AppendQueue DEF QueueInv, Queued
    <3> QED
      BY <2>2, <3>1, <3>2, <3>3, <3>4 DEF QueueInv
  <2>4. CASE ~(listener /\ msg[e].header)
    BY <2>1, <2>2, <2>4 DEF Publish, QueueInv, Queued
  <2> QED
    BY <2>3, <2>4
<1>4. CASE CheckStopping \/ WorkerWaits \/ WorkerBreaks \/ Report
  BY <1>4, QueueKept DEF CheckStopping, WorkerWaits, WorkerBreaks, Report, queueVars
<1>5. CASE WorkerPops
  <2>1. /\ m_eventQueue # <<>> /\ hand = NoEvent /\ hand' = Head(m_eventQueue)
        /\ m_eventQueue' = Tail(m_eventQueue) /\ published' = published /\ finished' = finished
    BY <1>0, <1>5 DEF WorkerPops, Wakes, LifeWorker, Busy
  <2>2. (QueueInv!1)'
    BY <2>1, <1>0, TailQueue DEF QueueInv
  <2>3. (QueueInv!2)'
    BY <2>1, <1>0, TailQueue DEF QueueInv
  <2>4. (QueueInv!3)'
    BY <2>1, <1>0, TailQueue DEF QueueInv
  <2>5. (QueueInv!5)'
    <3> SUFFICES ASSUME NEW e \in published, e \notin finished, e # hand' PROVE Queued(e)'
      BY <2>1
    <3>1. PICK i \in DOMAIN m_eventQueue : m_eventQueue[i] = e
      BY <2>1, <1>0, SMTT(60) DEF QueueInv, Queued, TypeOK
    <3>2. i # 1
      BY <2>1, <3>1, <1>0, TailQueue
    <3> QED
      BY <2>1, <3>1, <3>2, <1>0, TailQueue DEF Queued
  <2> QED
    BY <2>1, <2>2, <2>3, <2>4, <2>5 DEF QueueInv
<1>6. CASE ProcessFinal
  BY <1>0, <1>6 DEF ProcessFinal, QueueInv, Queued, LifeWorker, Busy, TypeOK
<1>7. CASE ProcessRetry
  <2>1. /\ hand \in Events /\ hand' = NoEvent /\ m_eventQueue' = Append(m_eventQueue, hand)
        /\ published' = published /\ finished' = finished
    BY <1>0, <1>7 DEF ProcessRetry, LifeWorker, Busy, TypeOK
  <2>2. (QueueInv!1)'
    BY <2>1, <1>0, AppendQueue DEF QueueInv
  <2>3. (QueueInv!2)'
    BY <2>1, <1>0, AppendQueue DEF QueueInv, TypeOK
  <2>4. (QueueInv!5)'
    BY <2>1, <1>0, AppendQueue DEF QueueInv, Queued
  <2> QED
    BY <2>1, <2>2, <2>3, <2>4 DEF QueueInv
<1> QED
  BY <1>1, <1>2, <1>3, <1>4, <1>5, <1>6, <1>7 DEF Next, EventWorker

\* QueueInv is an invariant.
LEMMA QueueInvariance == Spec => []QueueInv
<1>1. Init => QueueInv
  BY DEF Init, QueueInv, Queued
<1> QED
  BY <1>1, QueueStep, LifeInvariance, PTL DEF Spec

\* A set has one element that equals a given one when it has it, and none else.
LEMMA CountOne ==
  ASSUME NEW S, NEW e
  PROVE  Cardinality({x \in S : x = e}) = IF e \in S THEN 1 ELSE 0
<1>1. CASE e \in S
  <2>1. {x \in S : x = e} = {e}
    BY <1>1
  <2> QED
    BY <1>1, <2>1, FS_Singleton
<1>2. CASE e \notin S
  <2>1. {x \in S : x = e} = {}
    BY <1>2
  <2> QED
    BY <1>2, <2>1, FS_EmptySet
<1> QED
  BY <1>1, <1>2

\* No event is lost or doubled between the subscription's callback and its end:
\* popping, retrying and reporting leave it in exactly one place.
THEOREM EventConservedHolds == Spec => []EventConserved
<1>1. LifeInv /\ QueueInv => EventConserved
  <2> SUFFICES ASSUME LifeInv, QueueInv, NEW e \in Events
               PROVE  Occurrences(e) + Cardinality({x \in {hand} : x = e}) + Cardinality({x \in finished : x = e})
                        = Cardinality({x \in published : x = e})
    BY DEF EventConserved
  <2>1. Occurrences(e) = IF Queued(e) THEN 1 ELSE 0
    <3>1. CASE Queued(e)
      <4>1. PICK i \in DOMAIN m_eventQueue : m_eventQueue[i] = e
        BY <3>1 DEF Queued
      <4>2. {j \in DOMAIN m_eventQueue : m_eventQueue[j] = e} = {i}
        BY <4>1 DEF QueueInv
      <4> QED
        BY <3>1, <4>2, FS_Singleton DEF Occurrences
    <3>2. CASE ~Queued(e)
      <4>1. {j \in DOMAIN m_eventQueue : m_eventQueue[j] = e} = {}
        BY <3>2 DEF Queued
      <4> QED
        BY <3>2, <4>1, FS_EmptySet DEF Occurrences
    <3> QED
      BY <3>1, <3>2
  <2>2. /\ Cardinality({x \in {hand} : x = e}) = IF e = hand THEN 1 ELSE 0
        /\ Cardinality({x \in finished : x = e}) = IF e \in finished THEN 1 ELSE 0
        /\ Cardinality({x \in published : x = e}) = IF e \in published THEN 1 ELSE 0
    BY CountOne
  <2>3. /\ e \in published => (e \in finished \/ e = hand \/ Queued(e))
        /\ e \notin published => e \notin finished /\ e # hand /\ ~Queued(e)
        /\ Queued(e) => e # hand /\ e \notin finished
        /\ e = hand => e \notin finished
    BY NoEventAssumption DEF QueueInv, Queued
  <2> QED
    BY <2>1, <2>2, <2>3
<1> QED
  BY <1>1, LifeInvariance, QueueInvariance, PTL

-----------------------------------------------------------------------------
(* What is given up, and what is reported *)

\* The listener calls every message a snapshot or a record.
LEMMA KindIs == ASSUME NEW e PROVE Kind(e) \in {"Snapshot", "Record"}
BY DEF Kind, Classify

\* What the checks of a report function say about the event the worker holds.
LEMMA DispatchSays ==
  ASSUME NEW kind \in {"Snapshot", "Record"}, NEW m, NEW open \in BOOLEAN, NEW present \in BOOLEAN
  PROVE  LET rc == DispatchEvent(kind, m, open, present) IN
         /\ rc # 0
         /\ rc = NotRetry => ~open \/ ~present
         /\ rc = Goes => \A i \in DOMAIN m.times : IsValidUtcMs(m.times[i])
BY DEF DispatchEvent, ReportSnapshot, ReportRecord, Checked, NotRetry, Goes

\* Whatever closes the gate or takes a file away excuses what was published.
ExcuseInv ==
  /\ gone \subseteq excused /\ excused \subseteq published
  /\ ~gate => published \subseteq excused

\* Every step keeps the excuses, and gives up no event without one.
LEMMA KeptStep ==
  LifeInv /\ QueueInv /\ ExcuseInv /\ KeptUntilReported /\ [Next]_vars
    => ExcuseInv' /\ KeptUntilReported'
<1> SUFFICES ASSUME LifeInv, QueueInv, ExcuseInv, KeptUntilReported, [Next]_vars
             PROVE  ExcuseInv' /\ KeptUntilReported'
  OBVIOUS
<1> USE DEF ExcuseInv, KeptUntilReported
<1>1. CASE Initialize \/ InitializeStep \/ Deinitialize \/ DeinitializeStep
  BY <1>1 DEF Initialize, InitializeStep, Deinitialize, DeinitializeStep, SetIsCheckHioss,
     InitAgent, InitSubscribe, InitThread, InitDone, Join, Unsubscribe, DeinitAgent, queueVars, envVars
<1>2. CASE Stuck \/ UNCHANGED vars
  BY <1>2 DEF Stuck, vars, envVars
<1>3. CASE GateChanges
  BY <1>3 DEF GateChanges, QueueInv, LifeInv, TypeOK
<1>4. CASE \E e \in Events : Publish(e) \/ FileGoes(e)
  BY <1>4 DEF Publish, FileGoes
<1>5. CASE CheckStopping \/ WorkerWaits \/ WorkerBreaks \/ Report
  BY <1>5 DEF CheckStopping, WorkerWaits, WorkerBreaks, Report, queueVars, envVars
<1>6. CASE WorkerPops \/ ProcessRetry
  BY <1>6 DEF WorkerPops, ProcessRetry, envVars
<1>7. CASE ProcessFinal
  <2>1. CASE worker = "sending"
    BY <1>7, <2>1 DEF ProcessFinal, envVars
  <2>2. CASE worker = "processing"
    <3>1. hand \in published /\ gate \in BOOLEAN
      BY <2>2 DEF LifeInv, LifeWorker, TypeOK, QueueInv, Busy
    <3>2. DispatchEvent(Kind(hand), msg[hand], gate, hand \notin gone) \in {0, NotRetry}
      BY <1>7, <2>2 DEF ProcessFinal, Rc
    <3>3. ~gate \/ hand \in gone
      BY <3>1, <3>2, KindIs, DispatchSays
    <3>4. hand \in excused
      BY <3>1, <3>3
    <3> QED
      BY <1>7, <3>4 DEF ProcessFinal, envVars
  <2> QED
    BY <1>7, <2>1, <2>2 DEF ProcessFinal
<1> QED
  BY <1>1, <1>2, <1>3, <1>4, <1>5, <1>6, <1>7 DEF Next, EventWorker

\* An event delivered while the gate was open is given up only when the agent has
\* confirmed it, or the gate has closed or its file has gone since.
THEOREM KeptUntilReportedHolds == Spec => []KeptUntilReported
<1>1. Init => ExcuseInv /\ KeptUntilReported
  BY DEF Init, ExcuseInv, KeptUntilReported
<1> QED
  BY <1>1, KeptStep, LifeInvariance, QueueInvariance, PTL DEF Spec

\* The event that is being sent has passed is_valid_utc_ms.
TimesInv ==
  worker = "sending" => \A i \in DOMAIN msg[hand].times : IsValidUtcMs(msg[hand].times[i])

\* Every step keeps the times that were checked.
LEMMA TimesStep == LifeInv /\ TimesInv /\ [Next]_vars => TimesInv'
<1> SUFFICES ASSUME LifeInv, TimesInv, [Next]_vars PROVE TimesInv'
  OBVIOUS
<1> USE DEF TimesInv
<1>1. CASE Initialize \/ InitializeStep \/ Deinitialize \/ DeinitializeStep
  BY <1>1 DEF Initialize, InitializeStep, Deinitialize, DeinitializeStep, SetIsCheckHioss, Notified,
     InitAgent, InitSubscribe, InitThread, InitDone, Join, Unsubscribe, DeinitAgent, queueVars, envVars
<1>2. CASE Stuck \/ UNCHANGED vars \/ GateChanges
  BY <1>2 DEF Stuck, vars, envVars, GateChanges
<1>3. CASE \E e \in Events : Publish(e) \/ FileGoes(e)
  BY <1>3 DEF Publish, FileGoes, Notified
<1>4. CASE CheckStopping \/ WorkerWaits \/ WorkerBreaks \/ WorkerPops \/ ProcessFinal \/ ProcessRetry
  BY <1>4 DEF CheckStopping, WorkerWaits, WorkerBreaks, WorkerPops, ProcessFinal, ProcessRetry
<1>5. CASE Report
  <2>1. /\ worker = "processing" /\ msg' = msg /\ hand' = hand
        /\ DispatchEvent(Kind(hand), msg[hand], gate, hand \notin gone) = Goes
    BY <1>5 DEF Report, Rc, queueVars, envVars
  <2>2. \A i \in DOMAIN msg[hand].times : IsValidUtcMs(msg[hand].times[i])
    BY <2>1, KindIs, DispatchSays DEF LifeInv, TypeOK
  <2> QED
    BY <2>1, <2>2
<1> QED
  BY <1>1, <1>2, <1>3, <1>4, <1>5 DEF Next, EventWorker

\* The two ways of naming the leap years agree.
LEMMA LeapYears ==
  ASSUME NEW y \in Nat
  PROVE  IsLeapYear(y) <=> y % 16 = 0 \/ (y % 4 = 0 /\ y % 25 # 0)
BY DEF IsLeapYear

\* So do the two ways of giving the other months their days.
LEMMA MonthLengths ==
  ASSUME NEW y \in Nat, NEW m \in 1..12, m # 2
  PROVE  DaysInMonth(y, m) = 30 + ((m + (m \div 8)) % 2)
<1>1. m \in {4, 6, 9, 11} => DaysInMonth(y, m) = 30 /\ (m + (m \div 8)) % 2 = 0
  BY DEF DaysInMonth
<1>2. m \in {1, 3, 5, 7, 8, 10, 12} => DaysInMonth(y, m) = 31 /\ (m + (m \div 8)) % 2 = 1
  BY DEF DaysInMonth
<1>3. m \in {4, 6, 9, 11} \/ m \in {1, 3, 5, 7, 8, 10, 12}
  OBVIOUS
<1> QED
  BY <1>1, <1>2, <1>3

\* A time that is_valid_utc_ms accepts exists.
LEMMA ValidExists ==
  ASSUME NEW t \in Seq(Nat), IsValidUtcMs(t)
  PROVE  LET leap == t[1] % 16 = 0 \/ (t[1] % 4 = 0 /\ t[1] % 25 # 0)
             days == IF t[2] = 2 THEN (IF leap THEN 29 ELSE 28)
                     ELSE 30 + ((t[2] + (t[2] \div 8)) % 2)
         IN t[2] \in 1..12 /\ t[3] \in 1..days
<1>1. t[1] \in Nat /\ t[2] \in 1..12 /\ t[3] \in 1..DaysInMonth(t[1], t[2])
  BY ElementOfSeq DEF IsValidUtcMs
<1>2. CASE t[2] = 2
  BY <1>1, <1>2, LeapYears, SMTT(60) DEF DaysInMonth
<1>3. CASE t[2] # 2
  <2>1. DaysInMonth(t[1], t[2]) = 30 + ((t[2] + (t[2] \div 8)) % 2)
    BY <1>1, <1>3, MonthLengths
  <2> QED
    BY <1>1, <1>3, <2>1
<1> QED
  BY <1>2, <1>3

\* The times in an event that is sent to the agent exist, by a rule written
\* otherwise than is_valid_utc_ms.
THEOREM TimesExistHolds == Spec => []TimesExist
<1>1. Init => TimesInv
  BY DEF Init, TimesInv
<1>2. LifeInv /\ TimesInv => TimesExist
  <2> SUFFICES ASSUME LifeInv, TimesInv, worker = "sending" PROVE TimesExist
    BY DEF TimesExist
  <2>1. msg[hand] \in Messages
    BY DEF LifeInv, TypeOK, LifeWorker, Busy
  <2>2. \A i \in DOMAIN msg[hand].times : msg[hand].times[i] \in Seq(Nat) /\ IsValidUtcMs(msg[hand].times[i])
    BY <2>1, MessageAssumption DEF TimesInv
  <2> QED
    BY <2>2, ValidExists DEF TimesExist
<1> QED
  BY <1>1, <1>2, TimesStep, LifeInvariance, PTL DEF Spec

=============================================================================
