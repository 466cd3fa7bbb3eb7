# A TLA+ development of IPC-with-cht

The repository is the inter-process layer of an IP camera and the program that
connects the camera to a vendor's P2P agent.  This directory models both in
TLA+, checks small instances with TLC, and proves every invariant and action
property the passing runs check, and the refinement of the abstract request service,
for every instance with TLAPS.  `PROJECT.json` lists the
runs, the theorems, the source lines behind every definition, the hazards the
properties are for, and the findings.

## 1. The system and its parts

| Part | Source | State | Operations | Module |
|---|---|---|---|---|
| AioWorker | `NngIpcAioWorker.cpp` | `m_state`, `m_stopping`, an nng context and its aio | `process` (completion callback), `start`, `stop`, `release` | `AioWorker` |
| Response and subscribe handlers | `NngIpcResponseHandler*.cpp`, `NngIpcSubscribeHandler*.cpp` | socket, pool of workers, `m_mutex`, topics | create, start, stop, release, free, subscribe, unsubscribe | `NngHandler`, `RequestService`, `EventHandle` |
| Request handler | `NngIpcRequestHandler*.cpp` | socket, one message | create, append, send, recv, release | `RequestClient` |
| Publish handler | `NngIpcPublishHandler*.cpp` | socket, one message under construction | create, append, send, release | `EventHandle` |
| Event handle | `implement/zwipcsystem` | publisher, subscriber | sendEvent, start/stopListenEvent, subscribe, unsubscribe, free | `EventHandle` |
| Timer | `utils.cpp` | `existed`, mutex, a thread | start, stop, the thread | `Timer` |
| System service client | `zwsystem_ipc_client.cpp` | message id counter, one listener | some forty request/reply calls over `executeReqRep`, subscribe, classification of events | `RequestClient`, `Control`, `CameraApi`, `Reports` |
| Command handler | `cht_p2p_camera_command_handler.cpp` | `m_commandContexts` | `sendCommand`, `commandDoneCallback`, bind, register, check, initial info, four reports | `CommandHandler`, `Binding`, `Reports`, `Parameters` |
| Camera API | `cht_p2p_camera_api.cpp` | `m_initialized`, event queue, worker thread | initialize, deinitialize, addSystemEvent, eventWorkerThread | `CameraApi` |
| Control handler | `cht_p2p_camera_control_handler.cpp` | map of handlers | `controlCallback`, `controlHandle`, all registered handlers | `ControlHandlers`, `Control`, `Binding` |
| Parameters manager | `camera_parameters_manager.cpp` | parameters, recursive mutex, file, change callbacks, face features and their directories | set, save, load, callbacks, parsing of the initial info, features | `Parameters`, `Control`, `Binding` |
| Time zones | `timezone_utils.cpp`, control handler | a map | id to zone string | `ControlHandlers` |

The parts meet as follows.  The P2P agent (external, a vendor library; the
repository has a stub) calls the Camera API from its own threads: command
answers go to the command handler, control commands to the control handler.
The control handler asks the system service through the client, which uses a
request handler; the service answers through a response handler, whose workers
run on nng's threads.  The service publishes system events; a subscribe handler
delivers them to the Camera API's queue, and the API's worker thread reports
them through the command handler.  Binding, registering and checking run on the
application's thread.  Command handler, control handler and API share the
parameters manager.

What is hard in this code: completions on nng's threads against `stop` and
`free` on the caller's; one message pointer that an aio keeps from operation to
operation; a message built by several separately locked appends; overlapping
commands that share one handle, with a timeout racing the answer; requests that
nng sends again after the service may have carried them out; a condition
variable whose predicate mixes the queue and the stop flag; a timer thread that
announces itself late; two threads that each write half a dozen parameters, one
setter at a time; a file that is truncated and rewritten, and a directory that is
removed and replaced, while the camera may lose power; payloads whose JSON types,
texts and numbers lie at the edges of what each handler accepts.

### What makes each part correct

* AioWorker and handlers: a reply the socket took is never freed and a worker in
  service frees nothing twice; a worker that is not stopping always has something
  that will wake it; after `stop` no callback runs; an aio is freed only when idle;
  teardown ends.
* Request client: success means carried out; nothing is leaked or freed twice on
  any path; ids of overlapping calls differ; calls return.
* Event handle: what is on the wire is one whole event.
* Timer: a stopped timer has no thread left, a start fires once, stopping ends; each
  of these but for faults that section 3 names.
* Command handler: an answer reaches at most one call and no call that has
  returned; a response is stable once readable; every call returns.
* Camera API and reports: events are neither lost nor doubled, and given up only
  for a reason; nothing is reported to an agent that is down; a stopped API has no
  thread and no subscription.
* Binding: an unbinding that was saved is final until the next bind, through
  crashes; a control is executed only with a permission given in this run.
* Control: only documented values reach the service; what was answered with
  success is durable; the zone stored and the zone the service uses agree; a
  control that was let in is answered.
* Parameters: no other thread comes between a setter and its callbacks; an info
  that reached the file is durable and is never saved by halves; the faces on disk
  are those of one update.

## 2. The modules and how they correspond to the code

**AioWorker** models `AioWorker::process` cut where another thread can act:
reading state, result and `m_stopping` (`ProcessQuit`, `ProcessError`,
`ProcessReceive`, `ProcessMessage`), the user's callback with what follows it
(`CallbackReply`, `CallbackReplyFails`, `CallbackNoReply`) and the submission
of the next operation (`Submit`).  Reading the result and `m_stopping` is one
step, since every path that sees the flag late behaves as one that ran earlier.
The switch's `default` is unreachable and has no action.  nng is external and is
modelled from how the worker uses it: a completion runs `process`
(`RecvDone`, `RecvFails`, `SendDone`, `SleepDone`); `nng_aio_stop` cancels the
outstanding operation, whose callback still runs, refuses later operations
silently, and returns when the aio is idle; the aio keeps its message pointer
until an operation changes it; a successful send takes the message and clears
the pointer; a subscriber's context cannot send.  `badFree` records a free of a
message that the worker did not own.

**NngHandler** adds the handler.  Its methods hold `m_mutex` throughout, so it is
one control thread with program counter `hpc`: `Create`, `CreateWorker`,
`Listen`, `StartWorker`, then `Free`, which is three loops over the workers
(`stop`, the destructor's `stop`, `release`), each visiting a worker in three
steps: set the flag, `nng_aio_stop`, wait.  A failing `AioWorker::init` leaves
`m_aio` unwritten and the destructor reads it: `CreateWorkerFails` chooses
between the two outcomes, the worker is missing or the process crashes.
Response and subscribe handlers differ in `Kind` only.

**RequestService** is the abstract specification: a request is away, queued,
handled by at most `Capacity` workers, then answered or dropped for good.
`NngHandler` implements it under the mapping `RequestState`, which calls a
message handled while some worker still works on it (`RequestMap` is the function of
all requests).

**RequestClient** is the other end: `ipc_client_executeReqRep` with a request
handler of its own per call, one action per method and one per way it fails.  The
service (external) has `Capacity` workers, may crash and restart, refuse, answer
something malformed or nothing; nng (external) sends a request again when the
pipe broke or its resend time has passed.  `CopyReply` copies through a pointer
that is read out of the reply's bytes: it brings anything or ends the process.
Ids keep their width (`IdRange`) and the shift that puts them on the wire.

**EventHandle** has the publish handler, created without a lock by the first send,
its message as the sequence of the parts that `append` put there, the subscribe
handler with its one worker (`gc_maxWorkerNum` clamps every pool to one) or with
none, and the callbacks.  nng may refuse a worker's subscription, of which the
handler takes no notice; a subscription without a worker divides by zero.  Senders
interleave between any two appends.  A second, failing publisher destroys the first; a
sender that goes on with a NULL publisher crashes the process.

**Timer** is `utils_timer_start`, `_stop` and the thread, with the cancellation
points in `sleep` and in the callback, which runs with the mutex held:
`CallbackCancelled` ends the thread there and the mutex stays locked.  `early` records
that a stop found a thread which had not marked itself as existing.  After that
`thread` may name a thread that was joined already (`Dangling`); cancelling or
joining it again is undefined, and the owner is `lost` from then on or goes on.

**CommandHandler** models `sendCommand` and `commandDoneCallback` with one
element of `Calls` per call.  Each critical section is one action.  The timeout
is two (`Expire`, `EraseExpired`), because the call holds the context's mutex
and then takes the handler's, while a callback may sit between its two critical
sections.  The agent may refuse, answer later from any thread, never answer,
and may put a handle of its own into `*commandHandle`.  Of an answer's JSON the
six forms are kept that `sendCommand` tells apart.

**Reports** holds, as operators, the listener's classification of a message by its
prefix and the checks of the report functions in their order: gate, size, fields,
times (with the calendar of `is_valid_utc_ms`), files.  **CameraApi** uses them in
`initialize`, `deinitialize`, `addSystemEvent` and `eventWorkerThread`, with the
predicate and the test as they are written.  The gate opens and closes and files
go while an event waits; `excused` records the events for which that happened.
`MaxRetries` bounds how often one event is put back (the code has no bound).
`setIsCheckHioss(bool)` calls itself (the string literal converts to `bool`
before it converts to `std::string`); endless recursion is undefined, so
`SetIsCheckHioss` either never returns or has no effect.

**Binding** follows the parameters of a binding through two threads, the file and
crashes.  A setter is one step, because it locks on its own; `saveToFile` is two,
because the file is truncated before it is written and a crash can fall in
between (`readable` is then false).  `SaveFails` covers the backup path, which
`loadFromFile` does not read.  `Crash` may happen anywhere; `Start` loads the
file or the defaults.  `vsDomain`, `vsToken` and the time zone are cleared with
the other parameters and are left out, as is the switch to the backup path when
the directory cannot be created.  The handlers other than the unbinding are
`ControlExecuted`: they leave the binding alone, as `Control` shows in detail.

**ControlHandlers** has one operator per registered handler.  A request is a record
of JSON fields with their types; a handler's outcome is a plan: rejected, or
whether the service is called, with which values, and which parameters are set.
A kind of AI key stands for all keys of that kind.  `IsValidUtf8` works on bytes.
**Control** runs the plans: `controlCallback`, the gate, `handleWithCommonFlow`,
the service's answer (carried out, with a warning, refused, reply lost), the
setters one by one, the save, and the answer with the control's handle, against
an application thread that checks HiOSS and saves, and a process that dies anywhere.
The system service is another process and keeps its zone (`svcZone`) through all of
that; `parted` and `unsaved` record what may have parted it from the camera's.  In
every module with a file a write or close may fail after the file was truncated, of
which the code takes no notice.

**Parameters** keeps each section of an initial info as the number of the change
that last wrote it.  `parseAndSaveInitialInfo` holds the recursive mutex from the
first section to the save; setters of the agent's thread wait.  A callback is a
step of its own inside the setter's critical section, and may call a setter itself,
which the recursive mutex lets through (`CallbackSets`; `calling` is the stack of
keys).  A callback that saves is left out: the only callbacks in the repository are
those of the example menu, which print.  `updateIdentificationFeature`
is the sequence it runs on disk: make the directories, decode and write files,
`rm`, `mv`, swap, remove the temporary directory; every one of these may fail
and the process may die between any two.  `DecodeBase64` is
the code's algorithm and `Encodes` its reference.
`GetHamiCamInitialInfo` is the command handler's conversion of the server's numbers.

`MC*` modules extend a component for TLC; the `.cfg` files give the constants.
Variables called history in the declarations are written by the actions and read
by the properties only.

## 3. The runs

| Run | Bounds | Shows |
|---|---|---|
| `response` | 2 workers, 2 messages, every fault: failing receives, sends, appends and creations | `TypeOK`, `QuietAfterStop`, `FreedAioUnused`, `NoLostWorker`, `FreedByOwner`, the refinement `ServesRequests`, and under fairness `QueuedIsTaken`, `FreeReturns` |
| `requests` | 2 threads, 4 calls, 3-bit ids from 4 on, 1 service worker, 1 crash | `SuccessMeansExecuted`, `NothingLeft`, `OverlappingIdsDiffer`, `CallsReturn` |
| `events` | 1 sender, 2 topics and the empty one, 3 events, 2 of them queued, 2 handles | `PublishedWhole`, `FreeReturns` |
| `timer` | 4 starts | `StoppedIsQuiet`, `StopReturns` |
| `command` | 2 overlapping calls, all answers | `TypeOK`, `NoStaleContext`, `OneAnswerPerCall`, `ResponseStable`, `CallsReturn` |
| `cameraApi` | 2 events of 7 shapes, 2 retries each | `EventConserved`, `ReportsToLiveAgent`, `KeptUntilReported`, `TimesExist`, `DownIsQuiet` |
| `binding` | 1 user, any number of binds, checks, controls, crashes | `UnboundStaysUnbound`, `GateNeedsGrant` |
| `control` | one session with the storing controls in any order, one with every control at the edges of its checks; any number of crashes | `OnlyDocumented`, `NamesAreText`, `ZoneAgrees`, `AckedIsDurable`, `ControlsAnswered` |
| `params` | 4 infos, 6 responses, 3 changes, 1 crash, 1 feature added by hand, 2-byte faces | `InfoDurable`, `NoHalfInfo`, `FeaturesOnDisk`, `FacesDecode`, `CallbackUndisturbed` |
| `commandOwn` | 2 calls | violates `OwnResponse` |
| `eventsMixed` | 2 senders, 3 events | violates `OnlyTargetTopic` |
| `unbindGate` | as `binding` | violates `UnbindingOpensGate` |

`TypeOK` of the other modules states the types of their variables; it is not among
the properties of their runs, and is proved with the invariants of section 4.

Why the bounds are enough.  Two workers and two messages, which come again when
they were dropped or answered, let one worker go on to the next message while the
other still holds its own and leave one queued at the close; the proofs are for any
number of either.  A handler may be created and freed any number of times.  Two calls
give every overlap on the one shared entry; the safety properties of the command
handler are proved for any number.  Three-bit ids that start at 4 wrap within four
calls and give two overlapping calls that lie half the id space apart; one
service worker makes a call wait for the other, and one crash is enough to lose a
request that was queued, taken or answered.  Two events let a retry be overtaken;
two handles one after the other show what a freed one leaves behind.  Four starts
give a start during the sleep and during the callback of an earlier one, after an
early stop too.  One user is enough for `Binding`: the properties tell bound
from unbound.  The controls of `MCControl` take, for each range, a value at the
border, one outside and one of another JSON type, and for UTF-8 the first and
last code points of each length, overlong forms, surrogates and cut-off
sequences; the names' field has 5 bytes there, so that texts of one character of
each length reach its end, and the theorem is for every size.  A face of two bytes
ends in a partial quartet, as one of 2048 does.

Two zones with different strings, the default and one that a control sets, let the
service's zone and the camera's differ; one value of `isHd` differs from the unset one.
A second zone control after a lost reply or a crash shows that the zones meet again.

The events are interchangeable, so the run of `CameraApi` uses symmetry; runs with
liveness properties do not.
`CHECK_DEADLOCK FALSE` is used where the system may stop: in `CameraApi` the
worker and `deinitialize` really can wait for each other for good; in
`RequestClient`, `EventHandle` and `Timer` the calls, events and starts are
bounded, and in the first two the process may end.

### Fairness

* `NngHandler`: weak fairness of each worker's `process`, of sends and sleeps in
  nng, and of the control thread, which the operating system and nng's task
  threads give if the user's callback returns; strong fairness of a worker's
  receive, since nng serves waiting contexts in turn.  Nobody has to call free.
* `RequestClient`: weak fairness of a call's own steps, but not of a failing
  receive; of nng's resend and of the service's callback; of the restart, as an
  assumption on the device (nothing in the repository starts the service); strong
  fairness of taking a request, since the socket's queue is served in order.  Nobody
  has to crash.
* `EventHandle`: callbacks return, and a free that nothing holds up goes on.
* `Timer`: strong fairness of the owner and of each thread: a thread that waits for
  the mutex gets it although others take it meanwhile.
* `CommandHandler`: each thread's own steps, `wait_for` ends after ten seconds,
  and a callback that was entered goes on.  The agent need not answer.
* `Control`: strong fairness of the agent's thread, which may have to wait for the
  parameters' mutex; weak fairness of the application's save.

### What the violations show

* `commandOwn`: all commands use `&dummy_handle`; one call gets the other's answer.
* `eventsMixed`: two senders' appends mix in one message that passes every check of a
  receiver: the header names one topic and the payload belongs to another.

* `unbindGate`: the comments at the gate (control handler, lines 273-280) and the
  unbinding's log (745-754) say that a camera accepts every control after an unbinding;
  it refuses every control but another unbinding until HiOSS was checked again.
  `GateNeedsGrant` holds because of that.

### Divergences the models contain without a run of their own

The models have these steps as the code has them, and the properties are stated
around them.

Handlers and client.
* A callback that produces no reply makes the worker receive again without freeing
  the message it owns (worker, lines 185-192); every event delivered to a
  subscriber takes this path.
* After a failed append or send the message is freed and stays set in the aio; a stop
  before the next receive frees it again (line 121).  `FreedByOwner` says that this
  is the only double free.
* A worker whose context nng does not subscribe receives nothing of the topic, and
  nobody looks at the result (worker, lines 230-234; subscribe handler, line 102).
* The subscribe handler's unsubscription of the empty topic does not reach the
  worker; `stopListenEvent` returns when there *is* a listener.
* Two first senders may both create the publisher; the second one's failure
  destroys the first one's.
* A timer stopped before its thread has marked itself goes on running, and a later
  stop cancels and joins a thread that was joined before.
* A timer's callback runs with the mutex held; a stop that cancels it there leaves the
  mutex locked for good.
* The reply is copied through a pointer read from the reply's bytes (client, lines
  77-80), and the service's callback in the repository never replies.
* The wrappers of some PTZ calls send `_FormatSDCard` as their command
  (client, lines 230-248 and 293-296).

Command handler and API.
* If the agent generates the handle, as its header says, the answer finds no
  context and the call ends by its timeout.
* The worker thread leaves its loop because it is *not* stopping, so events are not
  processed; the same negated flag lets `deinitialize` wait for ever in `join`.
* `setIsCheckHioss(bool)` calls itself.
* `strncmp` is used as if it returned equality: every message is a snapshot, except
  snapshots, which are records.  The size compared includes the headers, so
  well-formed reports end in −2 and are put back.  A status type is refused unless
  it is 2 and 4 at once.
* `getHamiCamInitialInfo` throws on an array of features and looks for the alerts in
  `hamiSettings`.

Control handler.
* The unbinding closes the gate that its comment and log open; its setters
  interleave with those of a bind; it stores the default zone without telling the
  service.
* The zone that the service was given and the zone that is stored part when the reply
  is lost, at an unbinding, at a crash before the zone was saved and at a restart from
  a file that was cut off; only the next zone control joins them.
* The handle of a refused or unknown control is dropped.
* `GetCamStatusById` reads `netNo` from `tenantId`; `SendAudioStream` reads the codec
  from `code`; `UpdateCameraAISetting` passes over `fallTime` and answers success;
  `SetCameraHD` and `SetImageQuality` never call the service; numbers documented as
  ints are read as strings, and a feature's id the other way round.

Parameters manager.
* The comments at the callbacks (lines 1326 and 1328) say they run without the mutex;
  it is recursive and held by the setter, and `CallbackUndisturbed` rests on that.
* `saveToFile` truncates the file and does not look whether the write succeeded
  (lines 1461-1465); `parseAndSaveInitialInfo` does not look at its result either and
  returns true.
* `humanTracking` and `petTracking` are clamped to 0..2 (command handler, lines 759-762)
  where the header documents 0 and 1 (lines 110-111).
* The sections of an info that failed half way stay in memory and are saved by the
  next save.  The limit on features is not enforced for those of an info.
* Files left in the temporary directory by a crash are merged into the next update.
  A crash between `rm` and `mv` leaves only the temporary copy (`torn`).
* The base64 decoder accepts one pad sign too many.

## 4. What is proved

Each module `XProofs` extends the module `X` it is about; `RequestTimerProofs` extends
both `RequestClient` and `Timer`, whose definitions have names of their own for that.
Every invariant is proved in the same way: the initial states satisfy an inductive
invariant, a lemma for each group of actions shows that it is preserved, with a step
per action, and the property follows from it.  The larger inductive invariants were
first checked by TLC on the runs' instances.  The constants are arbitrary: any sets of
workers, messages, calls, events, users, requests, infos, and any bounds.  `TypeInvariance` in each module is `TypeOK`.

**NngHandlerProofs** (either kind, any faults)

* `QuietAfterStopHolds`, `FreedAioUnusedHolds`, `NoLostWorkerHolds` follow from
  `LifeInv`, which is `TypeOK` and five parts: the loops visit workers of the pool, one
  at a time (`LifeLoops`); which workers are idle in each phase, in particular those a
  `stop` loop has passed, which is what the waiting in `nng_aio_stop` gives
  (`LifeQuiet`); aios are freed by `release` only (`LifeFreed`); until `stop` is called
  nothing is stopped or cancelled (`LifeUp`); and started workers are busy (`LifeBusy`).
  None of the three properties is inductive alone: each needs to know what the earlier
  loops have done.
* `FreedByOwnerHolds` (an action property), for any pool and whatever fails, from
  `OwnInv`: `WorkInv` below, that only a worker which is being stopped sees a cancelled
  operation (`OwnStops`), and that a reply which could not be sent is still the worker's
  when `process` learns of it (`OwnSends`).  So a second free is always that of a worker
  which quits, of a message it gave up before: the one described in section 3.
* `ServesRequestsHolds`: the specification implements `RequestService`.  The mapping needs `WorkInv`: an operation on an aio is the one of its
  worker's state (`WorkOps`), two aios never point to one message and a message an aio
  points to was received and not answered (`WorkPointers`), and a message that is
  worked on is not freed (`WorkHeld`).  `KeepsOrDrops` is the step that most actions
  have: the worker's request is kept or dropped and the others stay.  Receiving is
  `Take`, and `RoomToReceive` shows that the pool then has room: the requests in work
  inject into the other workers, because a receiving worker works on none although
  its aio may still point to an old message.  A completed send is `Answer`, an arriving
  message `Arrive`, closing the socket `Close`; everything else is a stutter.
* `RequestsAdvance` (an action property) says what the refinement means for one request:
  a step leaves it, or takes it to the next stage of its life, so that what was answered
  or dropped stays so and nothing is answered that no worker took.  `PoolBoundsWork`: the
  requests in work inject into the workers, for any pool.

**CommandHandlerProofs**

* `OneAnswerPerCallHolds`, `ResponseStableHolds` (an action property), from `AnswerInv`:
  only the shared handle has an entry and its call was given no answer (`MapInv`);
  a callback holding a context was really run, and a call is done only through
  a callback that has ended (`FoundInv`).
* `NoStaleContextHolds`, from `SharedInv`, which adds the property itself.
* `OwnResponseOneAtATime`: the property that `commandOwn` shows violated does hold in
  every behaviour in which no context is stored while another command is pending, that
  is, has a context stored and not yet sent, or an answer under the shared handle still
  to be looked up (`OneAtATime`).  The condition speaks of answers, not of calls: a call
  that timed out is over, but its late answer is still pending.  `AloneInv`: at most one
  command is pending, and only its context is in the map.

**CameraApiProofs**

* `DownIsQuietHolds`, `ReportsToLiveAgentHolds`, from `LifeInv`: at which points of
  `initialize` and `deinitialize` agent, subscription and thread are there (`LifeApi`),
  and that a thread which gets as far as taking an event is one that `deinitialize` is
  waiting for (`LifeWorker`), which is what the negated flag comes to.
* `EventConservedHolds`, from `QueueInv`: the queue has no duplicates, and the queue, the
  worker's hand and the finished events are disjoint and cover what was published.  The
  counting in the property then follows from the finite-set and sequence theorems.
* `KeptUntilReportedHolds`, from `ExcuseInv` (a closed gate and a vanished file excuse
  what was published) and a lemma on what the outcome of the report functions means.
* `TimesExistHolds`, from `TimesInv`: the code's calendar agrees with the arithmetic one
  for every year, month and day, not only the ones of the run.

**BindingProofs**

* `UnboundStaysUnboundHolds`: while an unbinding clears the fields, each is cleared or
  still in its list (`ClearInv`), so that what it saves is empty; a bind that is under
  way ends the claim.
* `GateNeedsGrantHolds`: `GateInv`, the gate of a running agent is open only after a
  grant in this run.

**RequestTimerProofs**

* `NothingLeftHolds`, `SuccessMeansExecutedHolds`, from `CallsInv`: where a call is says
  what it holds, and an "ok" at the service, on the wire or in the client comes from a
  command that was carried out.
* `OverlappingIdsDifferHolds`, from `IdInv` (an id lies as far behind the counter as ids
  were drawn since, across the wrap from the highest id to 1) and `PairInv` (the property
  for calls that have returned too).  The range of ids is any even number from 4 on.
* `StoppedIsQuietHolds`, from `TimerInv`: who the owner waits for and that it was not
  joined before (`OwnerInv`), and that as long as no stop was early only the thread of
  the last start is alive, and until it calls back nobody has for that start (`QuietInv`).

**EventHandleProofs**

* `PublishedWholeHolds`: with one sender the message under construction is what this
  sender has appended so far (`MessageInv`).
* `OneSenderTargetTopic`: what `eventsMixed` shows violated with two senders follows from
  `PublishedWhole` with one.

**ParametersProofs**

* `CallbackUndisturbedHolds` (an action property), `InfoDurableHolds`, `NoHalfInfoHolds`,
  from one invariant: who holds the recursive mutex at which step (`LockInv`), no value
  is newer than the last change (`AgeInv`), each section of the info being applied is in
  memory or left to do (`AppliedInv`), and what was written to the file is in memory
  (`WrittenInv`).
* `FeaturesOnDiskHolds`, from `DiskInv`: which of the two directories has the accepted faces
  before `rm`, between `rm` and `mv`, and after.
* `DecodeBase64IsExact`: `decodeBase64` finds n bytes exactly in the texts that are base64
  of n bytes by the reference `Encodes`, which counts digits and pad signs and asks for
  an order among them but knows no loop.  The lemmas give what one character does to
  the counts of the rest of the text (`Digits`, `Pads`, `Size`), a step of the loop at a
  time; `LoopIsCount` joins them.  The prover cannot instantiate an induction theorem, so
  the step is an argument by least counterexample: among the places where the loop and
  the count differ there is one with the shortest rest, because the order of the naturals
  is well founded, and the step at that place contradicts it.
* `FacesDecodeHolds` follows: an update takes over the faces whose text is base64 of a
  whole face and whose file could be written, in whatever order.

**ControlProofs**

* `HandlerPlans`: the plan of every registered handler, for every request record,
  sets parameters to values of their types, passes documented values, and sets
  the time zone only together with a call of the service.
* `OnlyDocumentedHolds`, `ZoneAgreesHolds`, `AckedIsDurableHolds`, from that lemma and `Inv`:
  where a control is (`FlowInv`), memory holds what was acknowledged or what the control
  under way has set (`MemInv`), a save that went through is what memory holds until the
  answer (`SavedInv`), and, unless something has parted them, memory and service have one
  zone except between the two writes, and a readable file has it once a save went
  through (`ZoneInv`).
* `AnsweredIsStored`, `UnbindingClears`, from `StoredInv`: what a control that is answered
  with success has set is in memory and, after a save that went through, in the file,
  for every parameter but the HiOSS status, which the application's thread writes
  meanwhile, and `isCheckHioss`, whose setter sets nothing; in particular an unbinding has emptied tenant, user and net.  `StoredInv`
  says it of the setters called so far, of which only the last of each parameter counts.
* `DecoderIsExact`: the decoder of camera names accepts exactly the byte sequences that
  split into characters of Unicode's table.  One character is compared by its length
  (`Utf8Next` against `OneChar`), for every byte; the loop over a text of any length by
  least counterexample, as above, and the places where characters begin are the cut
  that `IsText` asks for.  `NamesAreTextHolds` follows for any size of the field.

Assumptions: the constants' named `ASSUME`s, which TLC evaluates on every run.  Most
give a parameter its type or keep a null value out of its set.  The others are
what the code guarantees about its inputs: the sets of workers and senders are finite
(`WorkersAssumption`, `SenderAssumption`); the fields of a time are read from digits, so
they are naturals (`MessageAssumption`); a server's number is an int, because
`GetIntMember` throws on anything else (`ResponseAssumption`); the faces of an info are
not the value for no directory (`FaceAssumption`); a control's type is one of those the
switch tells apart (`RequestAssumption`); a server's `netNo` is one of the two cases
`Control` distinguishes (`NetNoAssumption`); the range of ids is even, as a power of two
is (`IdAssumption`); the field of a camera name has a byte at least
(`StringSizeAssumption`, 256 in the code), a name that is a string is one of bytes
(`NameAssumption`), and the text of a face is one of digits, pad signs, white space and
other characters (`TextAssumption`), as every text is.  Nothing else is assumed about the
fields of a control.

Only model-checked:

* liveness (`QueuedIsTaken`, `FreeReturns`, `CallsReturn`, `StopReturns`,
  `ControlsAnswered`), which is beyond the prover: it has no rules for fairness and
  ENABLED;
* that `OwnResponse` and `OnlyTargetTopic` are violated: TLC's counterexamples show it, and
  the theorems above say under which condition they hold.

## 5. Not modelled

* The forwarder is two raw sockets and `nng_device`.  The streaming handler's
  callback is empty.  `utils_ensureSingleInstance` takes one file lock.
* nng and rapidjson are vendored; they and the demos, the interactive menu, the test
  programs and the earlier prototype under `cht_p2pagent` make up the larger part of
  the repository's lines and hold no logic of the system: they define libraries or
  call the code above.
* Of the parameters manager: NTP and the hardware queries (the synchronisation with
  the hardware always fails), `parseAndSaveInitialInfoWithSync`, all of which only the
  menu reaches; the getters.
* Of the control handler: the two schedule stream handlers, which are compiled out, and
  the nine functions that write the host's time zone by scripts (lines 3319-4207),
  which no handler calls any more.
* Of the command handler: the Wi-Fi parameters and the QR code of a bind.
* Of the events: time stamps and the sequence number.  Of the time zones: the display
  names and the calls that set the host's clock.
* Use of the C++ handler classes outside the protocol of their C wrappers.
* Log output, JSON layout and the texts of responses.

## 6. What is left

1. `Binding` is an abstraction of what `Control` does on an unbinding.  `UnbindingClears`
   proves of `Control` what `Binding` builds on; a refinement between the two is not stated.
2. A proof of the liveness properties, with a prover that has rules for fairness.
3. The parts listed in section 5 that hold state: the synchronisation with the hardware,
   once the repository has one.
