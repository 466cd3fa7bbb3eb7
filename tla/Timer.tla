-------------------------------- MODULE Timer --------------------------------
(***************************************************************************)
(* tTimer of utils.cpp: one owner thread starts and stops the timer; every *)
(* start makes a thread that marks itself as existing, sleeps and calls    *)
(* the callback with the mutex held.  Start number i makes thread i and    *)
(* sets the callback's user_data to i.                                     *)
(***************************************************************************)
EXTENDS Naturals

CONSTANT MaxStarts   \* bound on calls of utils_timer_start

ASSUME StartAssumption == MaxStarts \in Nat

VARIABLES
  existed,   \* ptTimer->existed
  mutex,     \* its owner: 0 free, a timer thread, or Owner
  user_data, \* of the last start
  thread,    \* ptTimer->thread: the last thread created; 0 is indeterminate
  starts,
  owner,     \* where the owner is; "create" continues a start after its stop
  starting,  \* the stop under way belongs to a start
  timerPc,   \* where each timer thread is
  cancelled, \* pthread_cancel was called on the thread
  joined,    \* pthread_join has returned for the thread
  fired,     \* history: how often each user_data was given to the callback
  early      \* history: a stop found a thread that had not marked itself yet

timerVars == <<existed, mutex, user_data, thread, starts, owner, starting, timerPc,
               cancelled, joined, fired, early>>
ownerVars == <<user_data, thread, starts, owner, starting, joined, early>>

Threads == 1..MaxStarts
Owner   == MaxStarts + 1
Alive   == {i \in Threads : timerPc[i] \notin {"none", "ended"}}

TimerTypeOK ==
  /\ existed \in BOOLEAN /\ early \in BOOLEAN /\ starting \in BOOLEAN
  /\ mutex \in 0..Owner
  /\ user_data \in 0..MaxStarts /\ thread \in 0..MaxStarts /\ starts \in 0..MaxStarts
  /\ owner \in {"idle", "lock", "cancel", "join", "create", "lost"}
  /\ timerPc \in [Threads -> {"none", "mark", "sleep", "lock", "callback", "ended"}]
  /\ cancelled \in SUBSET Threads /\ joined \in SUBSET Threads
  /\ fired \in [Threads -> Nat]

\* utils_timer_init
TimerInit ==
  /\ existed = FALSE /\ mutex = 0 /\ user_data = 0 /\ thread = 0 /\ starts = 0
  /\ owner = "idle" /\ starting = FALSE /\ early = FALSE
  /\ timerPc = [i \in Threads |-> "none"] /\ cancelled = {} /\ joined = {}
  /\ fired = [i \in Threads |-> 0]

-----------------------------------------------------------------------------
(* The owner *)

\* utils_timer_stop, called alone or at the head of utils_timer_start.
Stop(forStart) ==
  /\ owner = "idle" /\ (forStart => starts < MaxStarts)
  /\ owner' = "lock" /\ starting' = forStart
  /\ UNCHANGED <<existed, mutex, user_data, thread, starts, early, timerPc, cancelled, joined, fired>>

Return == owner' = IF starting THEN "create" ELSE "idle"

\* Mutant of StopReads: the mutex is kept when there is a thread to stop.
StopReadsKeepsLock ==
  /\ owner = "lock" /\ mutex = 0
  /\ IF existed THEN owner' = "cancel" /\ mutex' = Owner ELSE Return /\ UNCHANGED mutex
  /\ early' = (early \/ (~existed /\ Alive # {}))
  /\ UNCHANGED <<existed, user_data, thread, starts, starting, timerPc, cancelled, joined, fired>>

\* lock; existed; unlock
StopReads ==
  /\ owner = "lock" /\ mutex = 0
  /\ IF existed THEN owner' = "cancel" ELSE Return
  /\ early' = (early \/ (~existed /\ Alive # {}))
  /\ UNCHANGED <<existed, mutex, user_data, thread, starts, starting, timerPc, cancelled, joined, fired>>

\* ptTimer->thread names no thread: it was joined before, or never written.  What
\* pthread_cancel and pthread_join do with it is undefined: nothing, or the call
\* never returns (a crash, or the wait for somebody else's thread).
Dangling == thread = 0 \/ thread \in joined

StopCancels ==
  /\ owner = "cancel"
  /\ \/ cancelled' = cancelled \cup ({thread} \cap Threads) /\ owner' = "join"
     \/ Dangling /\ owner' = "lost" /\ UNCHANGED cancelled
  /\ UNCHANGED <<existed, mutex, user_data, thread, starts, starting, early, timerPc, joined, fired>>

\* Mutant of StopJoins: the thread is cancelled but not waited for.
StopJoinsNot ==
  /\ owner = "join"
  /\ existed' = FALSE
  /\ Return
  /\ UNCHANGED <<mutex, user_data, thread, starts, starting, early, timerPc, cancelled, joined, fired>>

StopJoins ==
  /\ owner = "join"
  /\ \/ /\ ~Dangling => timerPc[thread] = "ended"
        /\ existed' = FALSE /\ joined' = joined \cup ({thread} \cap Threads)
        /\ Return
     \/ Dangling /\ owner' = "lost" /\ UNCHANGED <<existed, joined>>
  /\ UNCHANGED <<mutex, user_data, thread, starts, starting, early, timerPc, cancelled, fired>>

\* The rest of utils_timer_start; pthread_create may fail, and then what it did
\* to ptTimer->thread is not defined.
StartCreates ==
  /\ owner = "create"
  /\ user_data' = starts + 1 /\ starts' = starts + 1
  /\ \/ /\ thread' = starts + 1
        /\ timerPc' = [timerPc EXCEPT ![starts + 1] = "mark"]
     \/ thread' \in {thread, 0} /\ UNCHANGED timerPc
  /\ owner' = "idle" /\ starting' = FALSE
  /\ UNCHANGED <<existed, mutex, early, cancelled, joined, fired>>

-----------------------------------------------------------------------------
(* utils_timer_wait *)

Mark(i) ==
  /\ timerPc[i] = "mark" /\ mutex = 0
  /\ existed' = TRUE
  /\ timerPc' = [timerPc EXCEPT ![i] = "sleep"]
  /\ UNCHANGED <<mutex, ownerVars, cancelled, fired>>

\* sleep is the cancellation point.
Cancelled(i) ==
  /\ timerPc[i] = "sleep" /\ i \in cancelled
  /\ timerPc' = [timerPc EXCEPT ![i] = "ended"]
  /\ UNCHANGED <<existed, mutex, ownerVars, cancelled, fired>>

WakeUp(i) ==
  /\ timerPc[i] = "sleep"
  /\ timerPc' = [timerPc EXCEPT ![i] = "lock"]
  /\ UNCHANGED <<existed, mutex, ownerVars, cancelled, fired>>

Fire(i) ==
  /\ timerPc[i] = "lock" /\ mutex = 0
  /\ mutex' = i
  /\ fired' = [fired EXCEPT ![user_data] = @ + 1]
  /\ timerPc' = [timerPc EXCEPT ![i] = "callback"]
  /\ UNCHANGED <<existed, ownerVars, cancelled>>

\* A cancellation point inside the callback: the thread ends with the mutex locked.
CallbackCancelled(i) ==
  /\ timerPc[i] = "callback" /\ i \in cancelled
  /\ timerPc' = [timerPc EXCEPT ![i] = "ended"]
  /\ UNCHANGED <<existed, mutex, ownerVars, cancelled, fired>>

CallbackReturns(i) ==
  /\ timerPc[i] = "callback"
  /\ mutex' = 0
  /\ timerPc' = [timerPc EXCEPT ![i] = "ended"]
  /\ UNCHANGED <<existed, ownerVars, cancelled, fired>>

-----------------------------------------------------------------------------
OwnerStep == StopReads \/ StopCancels \/ StopJoins \/ StartCreates

ThreadStep(i) ==
  \/ Mark(i) \/ Cancelled(i) \/ WakeUp(i)
  \/ Fire(i) \/ CallbackCancelled(i) \/ CallbackReturns(i)

TimerNext == \/ \E b \in BOOLEAN : Stop(b)
        \/ OwnerStep
        \/ \E i \in Threads : ThreadStep(i)

TimerSpec == TimerInit /\ [][TimerNext]_timerVars

\* Every thread runs; a thread that waits for the mutex gets it in the end,
\* although others take it meanwhile.
TimerFairness == /\ SF_timerVars(OwnerStep)
                 /\ \A i \in Threads : SF_timerVars(ThreadStep(i))

TimerLiveSpec == TimerSpec /\ TimerFairness

-----------------------------------------------------------------------------
(* Properties *)

\* As long as no stop came before the new thread had marked itself, a timer that
\* is stopped has no thread left that could call back, one that is started has
\* one, no thread is joined twice, and each start leads to at most one call of its
\* callback, however starts and stops overlap with the sleep and the callback
\* (utils.cpp:53-63, 83-91).
StoppedIsQuiet ==
  ~early => /\ \A i, j \in Alive : i = j
            /\ owner # "lost"
            /\ owner = "create" => Alive = {}
            /\ \A i \in Threads : fired[i] <= 1

\* A thread that was cancelled inside its callback and keeps the mutex for ever.
Stranded == mutex \in Threads /\ timerPc[mutex] = "ended"

\* A stop returns at whatever moment of the thread's life it comes, but for the two
\* faults the code has: the callback was cancelled with the mutex held (61-63), so
\* that everybody waits for it, or a stop that came too early made a later one
\* cancel and join a thread that had been joined before (83-91).
StopReturns == owner # "idle" ~> owner = "idle" \/ Stranded \/ (early /\ owner = "lost")

=============================================================================
