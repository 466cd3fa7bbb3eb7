-------------------------- MODULE EventHandleProofs --------------------------
(***************************************************************************)
(* Theorems about EventHandle, for any topics, events and handles          *)
(* and, where PublishedWhole does not ask for one, any number of senders.  *)
(***************************************************************************)
EXTENDS EventHandle, FiniteSetTheorems, SequenceTheorems, TLAPS

\* A sender inside zs_ipc_sendEvent has an event.
CurrentInv == \A s \in Senders : sender[s] # "idle" => current[s] \in Events

TypeInv == TypeOK /\ CurrentInv

\* The parts of its event that a sender has appended when it is at a step.
Begun(step, e) ==
  CASE step = "msgHdr" -> <<[kind |-> "eventHdr", event |-> e]>>
    [] step = "data" -> <<[kind |-> "eventHdr", event |-> e], [kind |-> "msgHdr", event |-> e]>>
    [] step = "send" -> Whole(e)
    [] OTHER -> <<>>

\* With one sender the message under construction is what that sender has appended,
\* and the publisher stays while the sender works with it.
MessageInv ==
  \A s \in Senders : Senders = {s} =>
    /\ m_msg = Begun(sender[s], current[s])
    /\ sender[s] \in Kinds \cup {"send"} => pub_sp

WholeInv ==
  \A s \in Senders : Senders = {s} => \A msg \in published : \E e \in Events : msg = Whole(e)

Inv == TypeInv /\ MessageInv /\ WholeInv

\* The message of a sender grows by the part it appends.
LEMMA BegunGrows ==
  ASSUME NEW e
  PROVE  /\ \A k \in Kinds : Begun(After(k), e) = Append(Begun(k, e), [kind |-> k, event |-> e])
         /\ Begun("send", e) = Whole(e)
         /\ Begun("idle", e) = <<>> /\ Begun("create", e) = <<>> /\ Begun("eventHdr", e) = <<>>
<1>1. Begun("send", e) = Whole(e) /\ Begun("idle", e) = <<>> /\ Begun("create", e) = <<>>
      /\ Begun("eventHdr", e) = <<>>
      /\ Begun("msgHdr", e) = <<[kind |-> "eventHdr", event |-> e]>>
      /\ Begun("data", e) = <<[kind |-> "eventHdr", event |-> e], [kind |-> "msgHdr", event |-> e]>>
  BY DEF Begun
<1>2. /\ After("eventHdr") = "msgHdr" /\ After("msgHdr") = "data" /\ After("data") = "send"
  BY DEF After
<1>3. \A a : Append(<<>>, a) = <<a>>
  OBVIOUS
<1>4. ASSUME NEW a, NEW b PROVE Append(<<a>>, b) = <<a, b>>
  <2>1. <<a>> \in Seq({a, b}) /\ Len(<<a>>) = 1 /\ <<a, b>> \in Seq({a, b}) /\ Len(<<a, b>>) = 2
    OBVIOUS
  <2>2. /\ Append(<<a>>, b) \in Seq({a, b}) /\ Len(Append(<<a>>, b)) = 2
        /\ Append(<<a>>, b)[1] = a /\ Append(<<a>>, b)[2] = b
    BY <2>1, AppendProperties
  <2>3. \A i \in 1..Len(Append(<<a>>, b)) : Append(<<a>>, b)[i] = <<a, b>>[i]
    BY <2>2
  <2> QED
    BY <2>1, <2>2, <2>3, SeqEqual
<1>5. ASSUME NEW a, NEW b, NEW c PROVE Append(<<a, b>>, c) = <<a, b, c>>
  <2>1. /\ <<a, b>> \in Seq({a, b, c}) /\ Len(<<a, b>>) = 2
        /\ <<a, b, c>> \in Seq({a, b, c}) /\ Len(<<a, b, c>>) = 3
    OBVIOUS
  <2>2. /\ Append(<<a, b>>, c) \in Seq({a, b, c}) /\ Len(Append(<<a, b>>, c)) = 3
        /\ Append(<<a, b>>, c)[1] = a /\ Append(<<a, b>>, c)[2] = b /\ Append(<<a, b>>, c)[3] = c
    BY <2>1, AppendProperties
  <2>3. \A i \in 1..Len(Append(<<a, b>>, c)) : Append(<<a, b>>, c)[i] = <<a, b, c>>[i]
    BY <2>2
  <2> QED
    BY <2>1, <2>2, <2>3, SeqEqual
<1> QED
  BY <1>1, <1>2, <1>3, <1>4, <1>5, ZenonT(60) DEF Kinds, Whole

\* The initial states satisfy the invariant.
LEMMA InitInv == Init => Inv
<1> SUFFICES ASSUME Init PROVE Inv
  OBVIOUS
<1>2. TypeOK
  <2>1. /\ lives \in 0..MaxLives /\ begun \in 0..MaxEvents
        /\ current \in [Senders -> 0..MaxEvents] /\ topicOf \in [Events -> AllTopics]
    <3>1. 0 \in 0..MaxLives /\ 0 \in 0..MaxEvents
      BY BoundAssumption
    <3>2. "" \in AllTopics
      BY DEF AllTopics
    <3> QED
      BY <3>1, <3>2 DEF Init
  <2>2. queue \in Seq(Seq(Parts)) /\ running \in Seq(Parts)
    BY EmptySeq DEF Init
  <2> QED
    BY <2>1, <2>2, EmptySeq DEF Init, TypeOK
<1>3. CurrentInv
  BY DEF Init, CurrentInv, Kinds
<1>4. MessageInv /\ WholeInv
  BY DEF Init, MessageInv, WholeInv, Begun, Kinds
<1> QED
  BY <1>2, <1>3, <1>4 DEF Inv, TypeInv

\* The application's calls that leave the publisher and the subscriptions alone,
\* and the steps of the worker.
LEMMA ListenKeeps ==
  ASSUME Inv,
         \/ CreateEventHandle \/ StartListenEvent \/ StopListenEvent \/ UNCHANGED vars
         \/ TakeMessage \/ CallbackReturns
  PROVE  Inv'
<1>1. UNCHANGED <<pubVars, socketTopics, workerTopics, m_mutex>>
  BY DEF CreateEventHandle, StartListenEvent, StopListenEvent, TakeMessage, CallbackReturns, vars,
     subVars
<1>2. handle' \in {"none", "live", "freeing", "crashed"} /\ lives' \in 0..MaxLives
  <2>1. CASE CreateEventHandle
    <3>1. lives \in 0..MaxLives /\ lives < MaxLives /\ lives' = lives + 1 /\ handle' = "live"
      BY <2>1 DEF Inv, TypeInv, TypeOK, CreateEventHandle
    <3> QED
      BY <3>1, BoundAssumption
  <2>2. CASE ~CreateEventHandle
    <3>1. UNCHANGED <<handle, lives>>
      BY <2>2 DEF StartListenEvent, StopListenEvent, TakeMessage, CallbackReturns, vars
    <3> QED
      BY <3>1 DEF Inv, TypeInv, TypeOK
  <2> QED
    BY <2>1, <2>2
<1>3. sub_sp' \in BOOLEAN /\ m_workers' \in BOOLEAN
  BY DEF Inv, TypeInv, TypeOK, CreateEventHandle, StartListenEvent, StopListenEvent, TakeMessage,
     CallbackReturns, vars, subVars
<1>4. queue' \in Seq(Seq(Parts)) /\ running' \in Seq(Parts)
  <2>1. CASE TakeMessage
    <3>1. queue \in Seq(Seq(Parts)) /\ queue # <<>>
      BY <2>1 DEF Inv, TypeInv, TypeOK, TakeMessage
    <3>2. Head(queue) \in Seq(Parts) /\ Tail(queue) \in Seq(Seq(Parts))
      BY <3>1, HeadTailProperties
    <3> QED
      BY <2>1, <3>2 DEF TakeMessage
  <2>2. CASE CallbackReturns
    <3>1. queue \in Seq(Seq(Parts)) /\ UNCHANGED queue /\ running' = <<>>
      BY <2>2 DEF Inv, TypeInv, TypeOK, CallbackReturns
    <3> QED
      BY <3>1, EmptySeq
  <2>3. CASE CreateEventHandle \/ StartListenEvent \/ StopListenEvent \/ UNCHANGED vars
    BY <2>3 DEF Inv, TypeInv, TypeOK, CreateEventHandle, StartListenEvent, StopListenEvent, vars, cbVars
  <2> QED
    BY <2>1, <2>2, <2>3
<1>5. TypeOK'
  BY <1>1, <1>2, <1>3, <1>4 DEF Inv, TypeInv, TypeOK, pubVars
<1>6. CurrentInv' /\ MessageInv' /\ WholeInv'
  BY <1>1 DEF Inv, TypeInv, CurrentInv, MessageInv, WholeInv, pubVars
<1> QED
  BY <1>5, <1>6 DEF Inv, TypeInv

\* A crash ends every send and publishes nothing.
LEMMA CrashKeeps == ASSUME Inv, Crash PROVE Inv'
<1>1. TypeOK'
  BY EmptySeq DEF Crash, Inv, TypeInv, TypeOK, subVars
<1>2. CurrentInv' /\ WholeInv'
  BY DEF Crash, Inv, TypeInv, CurrentInv, WholeInv
<1>3. MessageInv'
  BY DEF Crash, MessageInv, Begun, Kinds
<1> QED
  BY <1>1, <1>2, <1>3 DEF Inv, TypeInv

\* Subscriptions leave the publisher alone, unless the pool is empty.
LEMMA TopicsKeep ==
  ASSUME Inv, NEW t \in AllTopics, SubscribeEvent(t) \/ UnsubscribeEvent(t)
  PROVE  Inv'
<1>1. CASE Crash
  BY <1>1, CrashKeeps
<1>2. CASE UNCHANGED <<handle, lives, pubVars, sub_sp, m_workers, cbVars, m_mutex>>
  <2>1. socketTopics' \in SUBSET AllTopics /\ workerTopics' \in SUBSET AllTopics
    BY <1>2 DEF SubscribeEvent, UnsubscribeEvent, Crash, Inv, TypeInv, TypeOK, subVars
  <2>2. TypeOK'
    BY <1>2, <2>1 DEF Inv, TypeInv, TypeOK, pubVars, cbVars
  <2>3. CurrentInv' /\ MessageInv' /\ WholeInv'
    BY <1>2 DEF Inv, TypeInv, CurrentInv, MessageInv, WholeInv, pubVars
  <2> QED
    BY <2>2, <2>3 DEF Inv, TypeInv
<1> QED
  BY <1>1, <1>2 DEF SubscribeEvent, UnsubscribeEvent

\* The handle is freed: nobody sends, and the listener goes with its subscriptions.
LEMMA FreeKeeps == ASSUME Inv, FreeEventHandle \/ StopReturns PROVE Inv'
<1>1. CASE FreeEventHandle
  <2>1. /\ handle' = "freeing" /\ m_mutex' = "app" /\ pub_sp' = FALSE /\ m_msg' = <<>>
        /\ UNCHANGED <<lives, begun, topicOf, sender, current, published, subVars, cbVars>>
        /\ \A s \in Senders : sender[s] = "idle"
    BY <1>1 DEF FreeEventHandle
  <2>2. TypeOK'
    BY <2>1, EmptySeq DEF Inv, TypeInv, TypeOK, subVars, cbVars
  <2>3. CurrentInv' /\ WholeInv'
    BY <2>1 DEF Inv, TypeInv, CurrentInv, WholeInv, subVars
  <2>4. MessageInv'
    BY <2>1 DEF MessageInv, Begun, Kinds
  <2> QED
    BY <2>2, <2>3, <2>4 DEF Inv, TypeInv
<1>2. CASE StopReturns
  <2>2. TypeOK'
    BY <1>2, EmptySeq DEF StopReturns, Inv, TypeInv, TypeOK, pubVars
  <2>3. CurrentInv' /\ MessageInv' /\ WholeInv'
    BY <1>2 DEF StopReturns, Inv, TypeInv, CurrentInv, MessageInv, WholeInv, pubVars
  <2> QED
    BY <2>2, <2>3 DEF Inv, TypeInv
<1> QED
  BY <1>1, <1>2

\* A send begins: the sender was idle, so nothing of an earlier event is left.
LEMMA SendEventKeeps ==
  ASSUME Inv, NEW s \in Senders, NEW t \in AllTopics, SendEvent(s, t)
  PROVE  Inv'
<1>1. begun + 1 \in Events /\ begun' \in 0..MaxEvents /\ begun + 1 \in 0..MaxEvents
  BY BoundAssumption DEF SendEvent, Inv, TypeInv, TypeOK, Events
<1>2. /\ sender[s] = "idle" /\ UNCHANGED <<handle, lives, pub_sp, m_msg, published, subVars, cbVars, m_mutex>>
      /\ topicOf' \in [Events -> AllTopics] /\ current' \in [Senders -> 0..MaxEvents]
  BY <1>1 DEF SendEvent, Inv, TypeInv, TypeOK
<1>3. PICK l \in {"eventHdr", "create"} :
        sender' = [sender EXCEPT ![s] = l] /\ (l = "eventHdr" => pub_sp)
  BY DEF SendEvent
<1>4. /\ sender' \in [Senders -> {"idle", "create", "eventHdr", "msgHdr", "data", "send"}]
      /\ sender'[s] = l /\ \A u \in Senders \ {s} : sender'[u] = sender[u]
  BY <1>3 DEF Inv, TypeInv, TypeOK
<1>5. current'[s] \in Events /\ \A u \in Senders \ {s} : current'[u] = current[u]
  BY <1>1 DEF SendEvent, Inv, TypeInv, TypeOK
<1>6. TypeOK'
  BY <1>1, <1>2, <1>4 DEF Inv, TypeInv, TypeOK, subVars, cbVars
<1>7. CurrentInv' /\ WholeInv'
  BY <1>2, <1>4, <1>5 DEF Inv, TypeInv, CurrentInv, WholeInv, subVars
<1>8. MessageInv'
  BY <1>2, <1>3, <1>4, BegunGrows, ZenonT(60) DEF Inv, MessageInv, Kinds
<1> QED
  BY <1>6, <1>7, <1>8 DEF Inv, TypeInv

\* Steps that empty the message and leave the sender idle.
LEMMA GivesUp ==
  ASSUME Inv, NEW s \in Senders, sender' = [sender EXCEPT ![s] = "idle"], m_msg' = <<>>,
         pub_sp' \in BOOLEAN,
         UNCHANGED <<handle, lives, begun, topicOf, current, subVars, running, m_mutex>>,
         queue' \in Seq(Seq(Parts)),
         published' = published \/ (published' = published \cup {m_msg} /\ sender[s] = "send")
  PROVE  Inv'
<1>1. /\ sender' \in [Senders -> {"idle", "create", "eventHdr", "msgHdr", "data", "send"}]
      /\ sender'[s] = "idle" /\ \A u \in Senders \ {s} : sender'[u] = sender[u]
  BY DEF Inv, TypeInv, TypeOK
<1>2. TypeOK'
  BY <1>1, EmptySeq DEF Inv, TypeInv, TypeOK, subVars
<1>3. CurrentInv'
  BY <1>1 DEF Inv, TypeInv, CurrentInv, subVars, Kinds
<1>4. MessageInv'
  BY <1>1, BegunGrows DEF MessageInv, Kinds
<1>5. WholeInv'
  <2> SUFFICES ASSUME Senders = {s}, NEW msg \in published' PROVE \E e \in Events : msg = Whole(e)
    BY DEF WholeInv
  <2>1. CASE msg \in published
    BY <2>1 DEF Inv, WholeInv
  <2>2. CASE msg = m_msg /\ sender[s] = "send"
    BY <2>2, BegunGrows DEF Inv, TypeInv, CurrentInv, MessageInv
  <2> QED
    BY <2>1, <2>2
<1> QED
  BY <1>2, <1>3, <1>4, <1>5 DEF Inv, TypeInv

\* Creating the publisher: with one sender there is none yet.
LEMMA CreateKeeps == ASSUME Inv, NEW s \in Senders, CreatePublisher(s) PROVE Inv'
<1>1. /\ sender[s] = "create" /\ pub_sp' \in BOOLEAN
      /\ UNCHANGED <<handle, lives, begun, topicOf, current, published, subVars, cbVars, m_mutex>>
  BY DEF CreatePublisher
<1>2. CASE ~pub_sp'
  <2>1. sender' = [sender EXCEPT ![s] = "idle"] /\ m_msg' = <<>>
    BY <1>2 DEF CreatePublisher
  <2>2. queue' \in Seq(Seq(Parts)) /\ UNCHANGED running
    BY <1>1 DEF Inv, TypeInv, TypeOK, cbVars
  <2> QED
    BY <1>1, <2>1, <2>2, GivesUp
<1>3. CASE pub_sp'
  <2>1. sender' = [sender EXCEPT ![s] = "eventHdr"] /\ m_msg' = m_msg
    BY <1>3 DEF CreatePublisher
  <2>2. /\ sender' \in [Senders -> {"idle", "create", "eventHdr", "msgHdr", "data", "send"}]
        /\ sender'[s] = "eventHdr" /\ \A u \in Senders \ {s} : sender'[u] = sender[u]
    BY <2>1 DEF Inv, TypeInv, TypeOK
  <2>3. TypeOK'
    BY <1>1, <2>1, <2>2 DEF Inv, TypeInv, TypeOK, subVars, cbVars
  <2>4. CurrentInv' /\ WholeInv'
    BY <1>1, <2>2 DEF Inv, TypeInv, CurrentInv, WholeInv, subVars
  <2>5. MessageInv'
    BY <1>1, <1>3, <2>1, <2>2, BegunGrows DEF Inv, MessageInv
  <2> QED
    BY <2>3, <2>4, <2>5 DEF Inv, TypeInv
<1> QED
  BY <1>1, <1>2, <1>3

\* One part more.
LEMMA AppendKeeps == ASSUME Inv, NEW s \in Senders, AppendPart(s) PROVE Inv'
<1>1. CASE ~pub_sp
  BY <1>1, CrashKeeps DEF AppendPart
<1>2. CASE pub_sp
  <2> DEFINE part == [kind |-> sender[s], event |-> current[s]]
             next == After(sender[s])
  <2>1. /\ sender[s] \in Kinds /\ m_msg' = Append(m_msg, part) /\ sender' = [sender EXCEPT ![s] = next]
        /\ UNCHANGED <<handle, lives, pub_sp, begun, topicOf, current, published, subVars, cbVars, m_mutex>>
    BY <1>2 DEF AppendPart
  <2>2. next \in {"msgHdr", "data", "send"} /\ current[s] \in Events
    BY <2>1 DEF After, Inv, TypeInv, CurrentInv, Kinds
  <2>3. part \in Parts
    BY <2>1, <2>2 DEF Parts
  <2> HIDE DEF part, next
  <2>4. m_msg' \in Seq(Parts)
    BY <2>1, <2>3, AppendProperties DEF Inv, TypeInv, TypeOK
  <2>5. /\ sender' \in [Senders -> {"idle", "create", "eventHdr", "msgHdr", "data", "send"}]
        /\ sender'[s] = next /\ \A u \in Senders \ {s} : sender'[u] = sender[u]
    BY <2>1, <2>2 DEF Inv, TypeInv, TypeOK
  <2>6. TypeOK'
    BY <2>1, <2>4, <2>5 DEF Inv, TypeInv, TypeOK, subVars, cbVars
  <2>7. CurrentInv' /\ WholeInv'
    BY <2>1, <2>2, <2>5 DEF Inv, TypeInv, CurrentInv, WholeInv, subVars
  <2>8. MessageInv'
    <3> SUFFICES ASSUME Senders = {s} PROVE m_msg' = Begun(next, current[s])
      BY <1>2, <2>1, <2>5 DEF MessageInv
    <3>1. m_msg = Begun(sender[s], current[s])
      BY DEF Inv, MessageInv
    <3>2. Begun(next, current[s]) = Append(Begun(sender[s], current[s]), part)
      BY <2>1, BegunGrows DEF part, next
    <3> QED
      BY <2>1, <3>1, <3>2
  <2> QED
    BY <2>6, <2>7, <2>8 DEF Inv, TypeInv
<1> QED
  BY <1>1, <1>2 DEF Inv, TypeInv, TypeOK

\* A failed append, a send and a failed send end the event.
LEMMA EndKeeps ==
  ASSUME Inv, NEW s \in Senders, AppendFails(s) \/ Send(s) \/ SendFails(s)
  PROVE  Inv'
<1>1. m_msg \in Seq(Parts) /\ queue \in Seq(Seq(Parts)) /\ pub_sp \in BOOLEAN
  BY DEF Inv, TypeInv, TypeOK
<1>2. CASE AppendFails(s)
  BY <1>1, <1>2, GivesUp DEF AppendFails, cbVars
<1>3. CASE Send(s)
  <2>1. queue' \in Seq(Seq(Parts))
    <3>1. Append(queue, m_msg) \in Seq(Seq(Parts))
      BY <1>1, AppendProperties
    <3> QED
      BY <1>1, <1>3, <3>1 DEF Send
  <2> QED
    BY <1>1, <1>3, <2>1, GivesUp DEF Send
<1>4. CASE SendFails(s) /\ pub_sp
  BY <1>1, <1>4, GivesUp DEF SendFails, cbVars
<1>5. CASE SendFails(s) /\ ~pub_sp
  BY <1>5, CrashKeeps DEF SendFails
<1> QED
  BY <1>1, <1>2, <1>3, <1>4, <1>5

-----------------------------------------------------------------------------
(* Theorems *)

\* Every step keeps the invariant.
LEMMA NextInv == Inv /\ [Next]_vars => Inv'
<1> SUFFICES ASSUME Inv, [Next]_vars PROVE Inv'
  OBVIOUS
<1>1. CASE \/ CreateEventHandle \/ StartListenEvent \/ StopListenEvent \/ UNCHANGED vars
           \/ TakeMessage \/ CallbackReturns
  BY <1>1, ListenKeeps
<1>2. CASE FreeEventHandle \/ StopReturns
  BY <1>2, FreeKeeps
<1>3. CASE \E t \in AllTopics : SubscribeEvent(t) \/ UnsubscribeEvent(t)
  BY <1>3, TopicsKeep
<1>4. CASE \E s \in Senders, t \in AllTopics : SendEvent(s, t)
  BY <1>4, SendEventKeeps
<1>5. CASE \E s \in Senders : CreatePublisher(s) \/ AppendPart(s)
  BY <1>5, CreateKeeps, AppendKeeps
<1>6. CASE \E s \in Senders : AppendFails(s) \/ Send(s) \/ SendFails(s)
  BY <1>6, EndKeeps
<1> QED
  BY <1>1, <1>2, <1>3, <1>4, <1>5, <1>6 DEF Next

\* The invariant holds of every reachable state.
LEMMA Invariance == Spec => []Inv
BY InitInv, NextInv, PTL DEF Spec

\* The handle, its publisher, its listener and their messages stay in their types.
THEOREM TypeInvariance == Spec => []TypeOK
<1>1. Inv => TypeOK
  BY DEF Inv, TypeInv
<1> QED
  BY <1>1, Invariance, PTL

\* With one sending thread only whole events are published, whatever fails.
THEOREM PublishedWholeHolds == Spec => []PublishedWhole
<1>1. Inv => PublishedWhole
  <2> SUFFICES ASSUME Inv, Cardinality(Senders) = 1, NEW msg \in published
               PROVE  \E e \in Events : msg = Whole(e)
    BY DEF PublishedWhole
  <2>1. PICK s : Senders = {s}
    BY SenderAssumption, FS_Singleton
  <2> QED
    BY <2>1 DEF Inv, WholeInv
<1> QED
  BY <1>1, Invariance, PTL

\* With one sending thread a receiver that asks for a topic gets the payload of an
\* event of that topic, as zwsystem_ipc_event.cpp:213 says: that two threads send is
\* what it takes to break it.
THEOREM OneSenderTargetTopic == Cardinality(Senders) = 1 => (Spec => []OnlyTargetTopic)
<1> SUFFICES ASSUME Cardinality(Senders) = 1 PROVE Spec => []OnlyTargetTopic
  OBVIOUS
<1>1. PublishedWhole => OnlyTargetTopic
  <2> SUFFICES ASSUME PublishedWhole, NEW msg \in published, NEW t \in Topics,
                      CheckEventWithTopic(t, msg)
               PROVE  topicOf[msg[3].event] = t
    BY DEF OnlyTargetTopic
  <2>1. PICK e \in Events : msg = Whole(e)
    BY DEF PublishedWhole
  <2>2. msg[1].event = e /\ msg[3].event = e
    BY <2>1 DEF Whole
  <2> QED
    BY <2>2 DEF CheckEventWithTopic
<1> QED
  BY <1>1, PublishedWholeHolds, PTL

=============================================================================
