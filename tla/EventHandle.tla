----------------------------- MODULE EventHandle -----------------------------
(***************************************************************************)
(* The event handle of zwsystem_ipc_event.cpp: a PublishHandler made by    *)
(* the first zs_ipc_sendEvent, a SubscribeHandler made by startListenEvent *)
(* and the callbacks its worker runs: whatever number of workers is asked  *)
(* for, gc_maxWorkerNum makes it one (NngIpcSubscribeHandler.cpp:16, 26).  *)
(* The application's thread creates, listens, subscribes and frees;        *)
(* Senders are the threads that send.                                      *)
(*                                                                         *)
(* A message is the sequence of the parts that append() put into m_msg:    *)
(* each part names the event it belongs to.  All payloads have the same    *)
(* size, so the size checks of a receiver count parts.                     *)
(***************************************************************************)
EXTENDS Naturals, Sequences, FiniteSets

CONSTANTS
  Senders,     \* threads that call zs_ipc_sendEvent
  Topics,      \* non-empty topics, none a prefix of another
  MaxEvents,   \* bound on sends
  MaxQueue,    \* bound on the messages the worker's context holds
  MaxLives     \* bound on handles created one after the other

ASSUME TopicAssumption  == "" \notin Topics
ASSUME SenderAssumption == IsFiniteSet(Senders)
ASSUME BoundAssumption  == MaxEvents \in Nat /\ MaxLives \in Nat

VARIABLES
  handle,      \* "none", "live", "freeing" while the free waits, "crashed"
  lives,
  pub_sp,      \* the publisher exists
  m_msg,       \* its message under construction; <<>> is NULL
  begun,       \* events begun so far: the identity of an event.  u32SeqId,
               \* which two senders can draw twice, is not modelled
  topicOf,     \* the topic of each event
  sender,      \* where each sender is
  current,     \* the event each sender is sending
  sub_sp,      \* the listener exists
  m_workers,   \* its worker was created
  socketTopics,  \* subscriptions of the socket itself
  workerTopics,  \* subscriptions of the worker's context
  queue,       \* messages in the worker's context
  running,     \* the message the worker's callback works on; <<>>: none
  m_mutex,     \* owner of the SubscribeHandler's mutex
  published    \* history: what was sent

pubVars == <<pub_sp, m_msg, begun, topicOf, sender, current, published>>
subVars == <<sub_sp, m_workers, socketTopics, workerTopics>>
cbVars  == <<queue, running>>
vars == <<handle, lives, pubVars, subVars, cbVars, m_mutex>>

Events    == 1..MaxEvents
AllTopics == Topics \cup {""}
Kinds     == {"eventHdr", "msgHdr", "data"}
Parts     == [kind : Kinds, event : Events]

Whole(e) == <<[kind |-> "eventHdr", event |-> e], [kind |-> "msgHdr", event |-> e],
              [kind |-> "data", event |-> e]>>

TypeOK ==
  /\ handle \in {"none", "live", "freeing", "crashed"} /\ lives \in 0..MaxLives
  /\ pub_sp \in BOOLEAN /\ m_msg \in Seq(Parts) /\ begun \in 0..MaxEvents
  /\ topicOf \in [Events -> AllTopics]
  /\ sender \in [Senders -> {"idle", "create", "eventHdr", "msgHdr", "data", "send"}]
  /\ current \in [Senders -> 0..MaxEvents]
  /\ sub_sp \in BOOLEAN /\ m_workers \in BOOLEAN
  /\ socketTopics \in SUBSET AllTopics /\ workerTopics \in SUBSET AllTopics
  /\ queue \in Seq(Seq(Parts)) /\ running \in Seq(Parts)
  /\ \A msg \in published : msg \in Seq(Parts)
  /\ m_mutex \in {"free", "app"}

Init ==
  /\ handle = "none" /\ lives = 0
  /\ pub_sp = FALSE /\ m_msg = <<>> /\ begun = 0
  /\ topicOf = [e \in Events |-> ""] /\ published = {}
  /\ sender = [s \in Senders |-> "idle"] /\ current = [s \in Senders |-> 0]
  /\ sub_sp = FALSE /\ m_workers = FALSE
  /\ socketTopics = {} /\ workerTopics = {}
  /\ queue = <<>> /\ running = <<>>
  /\ m_mutex = "free"

-----------------------------------------------------------------------------
(* The application's thread *)

CreateEventHandle ==
  /\ handle = "none" /\ lives < MaxLives
  /\ handle' = "live" /\ lives' = lives + 1
  /\ UNCHANGED <<pubVars, subVars, cbVars, m_mutex>>

\* A listener that cannot be created or started leaves sub_sp NULL; a worker
\* that cannot be created is missing from the listener.
StartListenEvent ==
  /\ handle = "live" /\ ~sub_sp
  /\ sub_sp' \in BOOLEAN
  /\ m_workers' \in IF sub_sp' THEN BOOLEAN ELSE {FALSE}
  /\ UNCHANGED <<handle, lives, pubVars, socketTopics, workerTopics, cbVars, m_mutex>>

\* if (wrapper->sub_sp) return -2: a listener that exists is left as it is.
StopListenEvent ==
  /\ handle = "live"
  /\ UNCHANGED vars

\* A NULL publisher is called (wrapper->pub_sp->), or the first worker of an
\* empty pool (m_workers[idx]): the process is gone with its threads.
Crash ==
  /\ handle' = "crashed"
  /\ sender' = [s \in Senders |-> "idle"]
  /\ pub_sp' = FALSE /\ m_msg' = <<>> /\ running' = <<>>
  /\ UNCHANGED <<lives, begun, topicOf, current, published, subVars, queue, m_mutex>>

\* SubscribeHandler::subscribe: the socket, then the worker's context, whose
\* refusal nobody looks at: true is returned, and the topic is not received.
SubscribeEvent(t) ==
  /\ handle = "live" /\ sub_sp /\ m_mutex = "free"
  /\ IF m_workers
       THEN /\ socketTopics' = socketTopics \cup {t}
            /\ workerTopics' \in {workerTopics, workerTopics \cup {t}}
            /\ UNCHANGED <<handle, lives, pubVars, sub_sp, m_workers, cbVars, m_mutex>>
       ELSE Crash

\* SubscribeHandler::unsubscribe: nng refuses a topic the socket does not
\* have; AioWorker::unsubscribe does nothing for the empty topic.
UnsubscribeEvent(t) ==
  /\ handle = "live" /\ sub_sp /\ m_mutex = "free" /\ t \in socketTopics
  /\ socketTopics' = socketTopics \ {t}
  /\ workerTopics' = IF t = "" THEN workerTopics ELSE workerTopics \ {t}
  /\ UNCHANGED <<handle, lives, pubVars, sub_sp, m_workers, cbVars, m_mutex>>

\* freeEventHandle: the publisher goes, with its message; stop() takes the
\* mutex and waits for the worker's callback.  Nobody sends any more.
FreeEventHandle ==
  /\ handle = "live" /\ \A s \in Senders : sender[s] = "idle"
  /\ m_mutex = "free"
  /\ handle' = "freeing" /\ m_mutex' = "app"
  /\ pub_sp' = FALSE /\ m_msg' = <<>>
  /\ UNCHANGED <<lives, begun, topicOf, sender, current, published, subVars, cbVars>>

StopReturns ==
  /\ handle = "freeing" /\ running = <<>>
  /\ handle' = "none" /\ m_mutex' = "free" /\ sub_sp' = FALSE
  /\ m_workers' = FALSE /\ socketTopics' = {} /\ workerTopics' = {} /\ queue' = <<>>
  /\ UNCHANGED <<lives, pubVars, running>>

-----------------------------------------------------------------------------
(* zs_ipc_sendEvent *)

\* Whether there is a publisher is read without a lock, and so is what is
\* assigned.
SendEvent(s, t) ==
  /\ handle = "live" /\ sender[s] = "idle" /\ begun < MaxEvents
  /\ begun' = begun + 1
  /\ topicOf' = [topicOf EXCEPT ![begun + 1] = t]
  /\ current' = [current EXCEPT ![s] = begun + 1]
  /\ sender' = [sender EXCEPT ![s] = IF pub_sp THEN "eventHdr" ELSE "create"]
  /\ UNCHANGED <<handle, lives, pub_sp, m_msg, published, subVars, cbVars, m_mutex>>

\* PublishHandler::create.  A second publisher cannot listen at the address of
\* the first; the NULL that is assigned then destroys the first.
CreatePublisher(s) ==
  /\ sender[s] = "create"
  /\ pub_sp' \in IF pub_sp THEN {FALSE} ELSE BOOLEAN
  /\ m_msg' = IF pub_sp' THEN m_msg ELSE <<>>
  /\ sender' = [sender EXCEPT ![s] = IF pub_sp' THEN "eventHdr" ELSE "idle"]
  /\ UNCHANGED <<handle, lives, begun, topicOf, current, published, subVars, cbVars,
                 m_mutex>>

After(kind) == CASE kind = "eventHdr" -> "msgHdr" [] kind = "msgHdr" -> "data"
                 [] OTHER -> "send"

\* PublishHandler::append, once for each part.
AppendPart(s) ==
  /\ sender[s] \in Kinds
  /\ IF pub_sp
       THEN /\ m_msg' = Append(m_msg, [kind |-> sender[s], event |-> current[s]])
            /\ sender' = [sender EXCEPT ![s] = After(@)]
            /\ UNCHANGED <<handle, lives, pub_sp, begun, topicOf, current, published,
                           subVars, cbVars, m_mutex>>
       ELSE Crash

\* Mutant of AppendFails: the parts appended so far stay in m_msg.
AppendFailsKeeps(s) ==
  /\ sender[s] \in Kinds
  /\ sender' = [sender EXCEPT ![s] = "idle"]
  /\ UNCHANGED <<handle, lives, pub_sp, m_msg, begun, topicOf, current, published,
                 subVars, cbVars, m_mutex>>

\* A failed append frees the message, whoever's parts are in it.
AppendFails(s) ==
  /\ sender[s] \in Kinds /\ pub_sp
  /\ m_msg' = <<>>
  /\ sender' = [sender EXCEPT ![s] = "idle"]
  /\ UNCHANGED <<handle, lives, pub_sp, begun, topicOf, current, published, subVars,
                 cbVars, m_mutex>>

\* nng compares a subscription with the first bytes of the message: the topic
\* of an event header, if that is what it begins with.
Matches(topics, msg) ==
  \/ "" \in topics
  \/ msg[1].kind = "eventHdr" /\ topicOf[msg[1].event] \in topics

\* PublishHandler::send: a context that is full drops the message.
Send(s) ==
  /\ sender[s] = "send" /\ pub_sp /\ m_msg # <<>>
  /\ published' = published \cup {m_msg}
  /\ queue' = IF m_workers /\ Matches(workerTopics, m_msg) /\ Len(queue) < MaxQueue
                THEN Append(queue, m_msg) ELSE queue
  /\ m_msg' = <<>>
  /\ sender' = [sender EXCEPT ![s] = "idle"]
  /\ UNCHANGED <<handle, lives, pub_sp, begun, topicOf, current, subVars, running,
                 m_mutex>>

\* nng refuses, or another thread has taken the message.
SendFails(s) ==
  /\ sender[s] = "send"
  /\ IF pub_sp
       THEN /\ m_msg' = <<>>
            /\ sender' = [sender EXCEPT ![s] = "idle"]
            /\ UNCHANGED <<handle, lives, pub_sp, begun, topicOf, current, published,
                           subVars, cbVars, m_mutex>>
       ELSE Crash

-----------------------------------------------------------------------------
(* The listener's worker *)

\* A stopping worker takes no further message.
TakeMessage ==
  /\ handle = "live" /\ sub_sp /\ running = <<>> /\ queue # <<>>
  /\ running' = Head(queue) /\ queue' = Tail(queue)
  /\ UNCHANGED <<handle, lives, pubVars, subVars, m_mutex>>

\* Mutant of CallbackReturns: it calls subscribe or unsubscribe on its own handle.
CallbackCallsHandle ==
  /\ running # <<>> /\ m_mutex = "free"
  /\ running' = <<>>
  /\ UNCHANGED <<handle, lives, pubVars, subVars, queue, m_mutex>>

\* event_process reads the message and returns.
CallbackReturns ==
  /\ running # <<>>
  /\ running' = <<>>
  /\ UNCHANGED <<handle, lives, pubVars, subVars, queue, m_mutex>>

-----------------------------------------------------------------------------
Next ==
  \/ CreateEventHandle \/ StartListenEvent \/ StopListenEvent
  \/ FreeEventHandle \/ StopReturns
  \/ \E t \in AllTopics : SubscribeEvent(t) \/ UnsubscribeEvent(t)
  \/ \E s \in Senders : \/ \E t \in AllTopics : SendEvent(s, t)
                        \/ CreatePublisher(s) \/ AppendPart(s) \/ AppendFails(s) \/ Send(s) \/ SendFails(s)
  \/ TakeMessage \/ CallbackReturns

Spec == Init /\ [][Next]_vars

\* A callback that runs returns, and the thread inside free goes on.
Fairness == WF_vars(StopReturns) /\ WF_vars(CallbackReturns)

LiveSpec == Spec /\ Fairness

-----------------------------------------------------------------------------
(* zs_ipc_checkEventWithTopic: what a receiver accepts as an event of a topic. *)

CheckEventWithTopic(t, msg) ==
  /\ Len(msg) = 3
  /\ msg[1].kind = "eventHdr" /\ topicOf[msg[1].event] = t
  /\ msg[2].kind = "msgHdr"

(* Properties *)

\* With one sending thread, whatever fails and however often, every message on
\* the wire is one whole event and nothing else: a send that gave up leaves no
\* part behind (zwsystem_ipc_event.cpp:186-194, NngIpcPublishHandler.cpp:96-100).
PublishedWhole ==
  Cardinality(Senders) = 1 => \A msg \in published : \E e \in Events : msg = Whole(e)

\* Freeing a handle ends at whatever moment it is called, if the callback that
\* runs then returns by itself; one that called a method of its own handle would
\* not (zwsystem_ipc_event.cpp:47-50, NngIpcSubscribeHandler.cpp:147-156).
FreeReturns == handle = "freeing" ~> handle = "none"

\* A receiver that asks for a topic gets the payload of an event of that topic:
\* zwsystem_ipc_event.cpp:213 says "only get event with target topic".
OnlyTargetTopic ==
  \A msg \in published, t \in Topics :
    CheckEventWithTopic(t, msg) => topicOf[msg[3].event] = t

=============================================================================
