------------------------- MODULE RequestTimerProofs --------------------------
(***************************************************************************)
(* Theorems about two parts of the nngipc library: RequestClient, for any  *)
(* number of calls, range of ids, capacity of the service and number of    *)
(* crashes, and Timer, for any number of starts.                           *)
(***************************************************************************)
EXTENDS RequestClient, Timer, TLAPS

-----------------------------------------------------------------------------
(* One call *)

\* Where a call is says what it holds; an "ok" on its way comes from a command
\* that was carried out.
CallInv(c) ==
  /\ m_msg[c] # "null" <=> pc[c] \in {"payload", "send"}
  /\ owned[c] = IF m_msg[c] = "null" THEN 0 ELSE 1
  /\ pc[c] \in {"idle", "create", "done"} => m_sock[c] = "none"
  /\ recv[c] # "null" => pc[c] \in {"check", "copy", "release"}
  /\ atService[c] # "no" \/ reply[c] # "none" => pc[c] \in {"recv", "check", "copy", "release"}
  /\ pc[c] = "copy" => recv[c] = "ok"
  /\ "ok" \in {recv[c], reply[c], atService[c]} => executed[c]
  /\ rc[c] = 0 => executed[c]

CallsInv == TypeOK /\ \A c \in Calls : CallInv(c)

\* The id of a call that made one of the last draws is that far from the last id;
\* after the highest id comes 1.
IdInv ==
  /\ \A c \in Calls : order[c] <= drawn /\ (pc[c] # "idle" => order[c] > 0)
  /\ \A c \in Calls : order[c] > 0 =>
       \E id \in 1..IdRange - 1 :
         /\ wireId[c] = Header(id)
         /\ drawn - order[c] < (IdRange \div 2) - 1
              => g_u16MsgId \in {id + (drawn - order[c]), id + (drawn - order[c]) - (IdRange - 1)}

\* The ids of two calls, under way or returned.
PairInv ==
  \A c, d \in Calls :
    0 < order[c] /\ order[c] < order[d] /\ wireId[c] = wireId[d]
      => order[d] - order[c] >= (IdRange \div 2) - 1

\* The initial states satisfy the invariants.
LEMMA InitInv == Init => CallsInv /\ IdInv /\ PairInv
<1> SUFFICES ASSUME Init PROVE CallsInv /\ IdInv /\ PairInv
  OBVIOUS
<1>1. TypeOK
  BY IdAssumption, BoundAssumption DEF Init, TypeOK, Steps, Replies
<1>2. \A c \in Calls : CallInv(c)
  BY DEF Init, CallInv
<1> QED
  BY <1>1, <1>2 DEF Init, CallsInv, IdInv, PairInv

\* The steps of a call's own thread keep what each call holds in order.
LEMMA ClientKeeps ==
  ASSUME CallsInv, NEW c \in Calls, ClientStep(c)
  PROVE  CallsInv'
<1> USE DEF CallsInv, CallInv, Steps, Replies, idVars, sockVars, netVars, At, GoTo, Break
<1>1. CASE GetMsgId(c)
  <2>1. NextId(g_u16MsgId) \in 0..IdRange - 1 /\ Header(NextId(g_u16MsgId)) \in 0..IdRange - 1
    BY IdAssumption DEF TypeOK, NextId, Header
  <2>2. TypeOK'
    BY <1>1, <2>1, BoundAssumption DEF GetMsgId, TakeId, TypeOK
  <2>3. \A d \in Calls : CallInv(d)'
    BY <1>1 DEF GetMsgId, TakeId, TypeOK
  <2> QED
    BY <2>2, <2>3
<1>2. CASE CreateFails(c)
  <2>1. TypeOK'
    BY <1>2 DEF CreateFails, TypeOK
  <2> QED
    BY <1>2, <2>1 DEF CreateFails, TypeOK
<1>3. CASE Create(c)
  <2>1. TypeOK'
    BY <1>3 DEF Create, TypeOK
  <2> QED
    BY <1>3, <2>1 DEF Create, TypeOK
<1>4. CASE AppendFails(c)
  <2>1. TypeOK'
    BY <1>4 DEF AppendFails, TypeOK
  <2> QED
    BY <1>4, <2>1 DEF AppendFails, TypeOK
<1>5. CASE AppendHeader(c)
  <2>1. owned[c] = 0
    BY <1>5 DEF AppendHeader
  <2>2. TypeOK'
    BY <1>5, <2>1 DEF AppendHeader, TypeOK
  <2> QED
    BY <1>5, <2>1, <2>2 DEF AppendHeader, TypeOK
<1>6. CASE AppendPayload(c)
  <2>1. TypeOK'
    BY <1>6 DEF AppendPayload, TypeOK
  <2> QED
    BY <1>6, <2>1 DEF AppendPayload, TypeOK
<1>7. CASE SendFails(c)
  <2>1. owned[c] = 1
    BY <1>7 DEF SendFails
  <2>2. TypeOK'
    BY <1>7, <2>1 DEF SendFails, TypeOK
  <2> QED
    BY <1>7, <2>1, <2>2 DEF SendFails, TypeOK
<1>8. CASE Send(c)
  <2>1. owned[c] = 1
    BY <1>8 DEF Send
  <2>2. TypeOK'
    BY <1>8, <2>1 DEF Send, TypeOK
  <2> QED
    BY <1>8, <2>1, <2>2 DEF Send, TypeOK
<1>9. CASE RecvFails(c)
  <2>1. TypeOK'
    BY <1>9 DEF RecvFails, TypeOK
  <2> QED
    BY <1>9, <2>1 DEF RecvFails, TypeOK
<1>10. CASE Recv(c)
  <2>1. TypeOK'
    BY <1>10 DEF Recv, TypeOK
  <2> QED
    BY <1>10, <2>1 DEF Recv, TypeOK
<1>11. CASE Check(c)
  <2>1. TypeOK'
    BY <1>11 DEF Check, TypeOK
  <2> QED
    BY <1>11, <2>1 DEF Check, TypeOK
<1>12. CASE CopyReply(c)
  <2>1. TypeOK'
    BY <1>12 DEF CopyReply, TypeOK
  <2> QED
    BY <1>12, <2>1 DEF CopyReply, TypeOK
<1>13. CASE Release(c)
  <2>1. owned[c] = 0 /\ m_msg[c] = "null"
    BY <1>13 DEF Release
  <2>2. TypeOK'
    BY <1>13, <2>1 DEF Release, TypeOK
  <2> QED
    BY <1>13, <2>1, <2>2 DEF Release, TypeOK
<1> QED
  BY <1>1, <1>2, <1>3, <1>4, <1>5, <1>6, <1>7, <1>8, <1>9, <1>10, <1>11, <1>12, <1>13 DEF ClientStep

\* So do the steps of nng and the service.
LEMMA ServiceKeeps ==
  ASSUME CallsInv,
         (\E c \in Calls : Resend(c) \/ Take(c) \/ Execute(c) \/ Answer(c)) \/ Crash \/ Restart
  PROVE  CallsInv'
<1> USE DEF CallsInv, CallInv, Replies, idVars, sockVars, Waiting
<1>1. ASSUME NEW c \in Calls, Resend(c) PROVE CallsInv'
  <2>1. TypeOK'
    BY <1>1 DEF Resend, TypeOK
  <2> QED
    BY <1>1, <2>1, AnswerAssumption DEF Resend, TypeOK
<1>2. ASSUME NEW c \in Calls, Take(c) PROVE CallsInv'
  <2>1. TypeOK'
    BY <1>2 DEF Take, TypeOK
  <2> QED
    BY <1>2, <2>1, AnswerAssumption DEF Take, TypeOK
<1>3. ASSUME NEW c \in Calls, Execute(c) PROVE CallsInv'
  <2>1. TypeOK'
    BY <1>3 DEF Execute, TypeOK
  <2>2. PICK a \in Answers : /\ executed' = [executed EXCEPT ![c] = @ \/ a # "refused"]
                             /\ atService' = [atService EXCEPT ![c] = a]
    BY <1>3 DEF Execute
  <2>3. UNCHANGED <<pc, m_sock, m_msg, owned, recv, rc, reply>> /\ atService[c] = "taken"
    BY <1>3 DEF Execute
  <2>4. CallInv(c)'
    BY <2>2, <2>3 DEF TypeOK
  <2>5. ASSUME NEW d \in Calls, d # c PROVE CallInv(d)'
    BY <2>2, <2>3, <2>5 DEF TypeOK
  <2> QED
    BY <2>1, <2>4, <2>5
<1>4. ASSUME NEW c \in Calls, Answer(c) PROVE CallsInv'
  <2>1. TypeOK'
    BY <1>4, AnswerAssumption DEF Answer, TypeOK
  <2> QED
    BY <1>4, <2>1, AnswerAssumption DEF Answer, TypeOK
<1>5. CASE Crash
  <2>1. TypeOK'
    <3>1. atService' \in [Calls -> {"no", "queued", "taken"} \cup Answers]
      BY <1>5 DEF Crash
    <3>2. crashes' \in 0..MaxCrashes /\ serviceUp' = FALSE
      <4>1. /\ crashes \in 0..MaxCrashes /\ crashes < MaxCrashes /\ crashes' = crashes + 1
            /\ serviceUp' = FALSE
        BY <1>5 DEF Crash, TypeOK
      <4> HIDE DEF CallsInv, CallInv
      <4> QED
        BY <4>1, BoundAssumption
    <3> QED
      BY <1>5, <3>1, <3>2 DEF Crash, TypeOK
  <2> QED
    BY <1>5, <2>1 DEF Crash, TypeOK
<1>6. CASE Restart
  BY <1>6 DEF Restart, TypeOK
<1> QED
  BY <1>1, <1>2, <1>3, <1>4, <1>5, <1>6

\* CallsInv is an inductive invariant.
LEMMA CallsInvariance == Spec => []CallsInv
<1>1. CallsInv /\ [Next]_vars => CallsInv'
  <2> SUFFICES ASSUME CallsInv, [Next]_vars PROVE CallsInv'
    OBVIOUS
  <2>1. CASE UNCHANGED vars
    BY <2>1 DEF vars, idVars, sockVars, netVars, CallsInv, CallInv, TypeOK
  <2> QED
    BY <2>1, ClientKeeps, ServiceKeeps DEF Next
<1> QED
  BY <1>1, InitInv, PTL DEF Spec

\* Every variable of the calls keeps its type.
THEOREM TypeInvariance == Spec => []TypeOK
<1>1. CallsInv => TypeOK
  BY DEF CallsInv
<1> QED
  BY <1>1, CallsInvariance, PTL

\* A call that returns has closed its socket and freed or handed over what it
\* allocated, on every path.
THEOREM NothingLeftHolds == Spec => []NothingLeft
<1>1. CallsInv => NothingLeft
  BY DEF CallsInv, CallInv, NothingLeft
<1> QED
  BY <1>1, CallsInvariance, PTL

\* A call that returns 0 was carried out by the service, through crashes,
\* restarts and repeated requests.
THEOREM SuccessMeansExecutedHolds == Spec => []SuccessMeansExecuted
<1>1. CallsInv => SuccessMeansExecuted
  BY DEF CallsInv, CallInv, SuccessMeansExecuted
<1> QED
  BY <1>1, CallsInvariance, PTL

-----------------------------------------------------------------------------
(* The ids of calls that overlap *)

\* The shift keeps an id below half of the range apart from the others.
LEMMA HeaderIs ==
  ASSUME NEW id \in 0..IdRange - 1
  PROVE  Header(id) = IF id < IdRange \div 2 THEN 2 * id ELSE 2 * id - IdRange
<1>1. IdRange \in Nat /\ IdRange > 0 /\ IdRange = 2 * (IdRange \div 2)
  BY IdAssumption
<1>2. ASSUME NEW a \in 0..2 * IdRange - 1
      PROVE  a % IdRange = IF a < IdRange THEN a ELSE a - IdRange
  BY <1>1
<1>3. 2 * id \in 0..2 * IdRange - 1 /\ (2 * id < IdRange <=> id < IdRange \div 2)
  BY <1>1
<1> QED
  BY <1>2, <1>3 DEF Header

\* Ids that are less than half of the range apart, counted past the highest, have
\* different headers.
LEMMA NearHeadersDiffer ==
  ASSUME NEW id \in 1..IdRange - 1, NEW n \in 1..IdRange, n < (IdRange \div 2) - 1,
         NEW jd \in 1..IdRange - 1, jd \in {id + n, id + n - (IdRange - 1)}
  PROVE  Header(id) # Header(jd)
<1>1. /\ IdRange \in Nat /\ IdRange = 2 * (IdRange \div 2) /\ IdRange \div 2 \in Nat
  BY IdAssumption
<1>2. /\ Header(id) = IF id < IdRange \div 2 THEN 2 * id ELSE 2 * id - IdRange
      /\ Header(jd) = IF jd < IdRange \div 2 THEN 2 * jd ELSE 2 * jd - IdRange
  BY <1>1, HeaderIs
<1> QED
  BY <1>1, <1>2

\* Drawing an id keeps the distances and tells the new id from the recent ones.
LEMMA DrawKeeps ==
  ASSUME CallsInv, IdInv, PairInv, NEW c \in Calls, GetMsgId(c)
  PROVE  IdInv' /\ PairInv'
<1> DEFINE H == IdRange \div 2
           new == NextId(g_u16MsgId)
<1>1. /\ IdRange \in Nat /\ IdRange = 2 * H /\ H \in Nat /\ H >= 2
      /\ drawn \in Nat /\ g_u16MsgId \in 0..IdRange - 1
      /\ \A d \in Calls : order[d] \in Nat
  BY IdAssumption, BoundAssumption DEF CallsInv, TypeOK
<1>2. /\ g_u16MsgId' = new /\ drawn' = drawn + 1
      /\ wireId' = [wireId EXCEPT ![c] = Header(new)] /\ order' = [order EXCEPT ![c] = drawn + 1]
      /\ pc' = [pc EXCEPT ![c] = "create"]
  BY DEF GetMsgId, TakeId, GoTo
<1>3. wireId \in [Calls -> 0..IdRange - 1] /\ order \in [Calls -> Nat] /\ pc \in [Calls -> Steps]
  BY DEF CallsInv, TypeOK
<1>4. new \in 1..IdRange - 1 /\ new = IF g_u16MsgId = IdRange - 1 THEN 1 ELSE g_u16MsgId + 1
  BY <1>1 DEF NextId
<1>5. wireId'[c] = Header(new) /\ order'[c] = drawn + 1
  BY <1>2, <1>3
<1>6. ASSUME NEW d \in Calls, d # c
      PROVE  wireId'[d] = wireId[d] /\ order'[d] = order[d] /\ pc'[d] = pc[d] /\ order[d] <= drawn
  BY <1>2, <1>3, <1>6 DEF IdInv
<1> HIDE DEF new, H
<1>7. ASSUME NEW d \in Calls, d # c, order[d] > 0
      PROVE  \E id \in 1..IdRange - 1 :
               /\ wireId[d] = Header(id)
               /\ drawn + 1 - order[d] < H - 1
                    => new \in {id + (drawn + 1 - order[d]), id + (drawn + 1 - order[d]) - (IdRange - 1)}
  <2>1. PICK id \in 1..IdRange - 1 :
          /\ wireId[d] = Header(id)
          /\ drawn - order[d] < H - 1
               => g_u16MsgId \in {id + (drawn - order[d]), id + (drawn - order[d]) - (IdRange - 1)}
    BY <1>7 DEF IdInv, H
  <2>2. drawn + 1 - order[d] < H - 1
           => new \in {id + (drawn + 1 - order[d]), id + (drawn + 1 - order[d]) - (IdRange - 1)}
    BY <1>1, <1>4, <1>6, <1>7, <2>1
  <2> QED
    BY <2>1, <2>2
<1>8. IdInv'
  <2>1. \A d \in Calls : order'[d] <= drawn' /\ (pc'[d] # "idle" => order'[d] > 0)
    BY <1>1, <1>2, <1>5, <1>6 DEF IdInv
  <2>2. ASSUME NEW d \in Calls, order'[d] > 0
        PROVE  \E id \in 1..IdRange - 1 :
                 /\ wireId'[d] = Header(id)
                 /\ drawn' - order'[d] < H - 1
                      => g_u16MsgId' \in {id + (drawn' - order'[d]), id + (drawn' - order'[d]) - (IdRange - 1)}
    <3>1. CASE d = c
      BY <1>1, <1>2, <1>4, <1>5, <3>1
    <3>2. CASE d # c
      <4>1. wireId'[d] = wireId[d] /\ order'[d] = order[d]
        BY <1>6, <3>2
      <4>2. PICK id \in 1..IdRange - 1 :
              /\ wireId[d] = Header(id)
              /\ drawn + 1 - order[d] < H - 1
                   => new \in {id + (drawn + 1 - order[d]), id + (drawn + 1 - order[d]) - (IdRange - 1)}
        BY <1>7, <2>2, <3>2, <4>1
      <4>3. drawn' - order'[d] = drawn + 1 - order[d] /\ g_u16MsgId' = new
        BY <1>1, <1>2, <4>1
      <4>4. /\ wireId'[d] = Header(id)
            /\ drawn' - order'[d] < H - 1
                 => g_u16MsgId' \in {id + (drawn' - order'[d]), id + (drawn' - order'[d]) - (IdRange - 1)}
        BY <4>1, <4>2, <4>3
      <4> QED
        BY <4>4
    <3> QED
      BY <3>1, <3>2
  <2> QED
    BY <2>1, <2>2 DEF IdInv, H, Header
<1>9. PairInv'
  <2> SUFFICES ASSUME NEW a \in Calls, NEW d \in Calls, 0 < order'[a], order'[a] < order'[d],
                      wireId'[a] = wireId'[d], order'[d] - order'[a] < H - 1
               PROVE  FALSE
    BY <1>1, <1>5, <1>6 DEF PairInv, H
  <2>1. a # c
    BY <1>1, <1>5, <1>6
  <2>2. CASE d # c
    BY <1>1, <1>6, <2>1, <2>2 DEF PairInv, H
  <2>3. CASE d = c
    <3>1. PICK id \in 1..IdRange - 1 :
            /\ wireId[a] = Header(id)
            /\ drawn + 1 - order[a] < H - 1
                 => new \in {id + (drawn + 1 - order[a]), id + (drawn + 1 - order[a]) - (IdRange - 1)}
      BY <1>6, <1>7, <2>1
    <3>2. drawn + 1 - order[a] \in 1..IdRange /\ drawn + 1 - order[a] < H - 1
      BY <1>1, <1>5, <1>6, <2>1, <2>3
    <3>3. Header(id) # Header(new)
      BY <1>4, <3>1, <3>2, NearHeadersDiffer DEF H
    <3> QED
      BY <1>5, <1>6, <2>1, <2>3, <3>1, <3>3
  <2> QED
    BY <2>2, <2>3
<1> QED
  BY <1>8, <1>9

\* No other step touches the ids, and none but a draw leaves "idle".
LEMMA IdStep == CallsInv /\ IdInv /\ PairInv /\ [Next]_vars => IdInv' /\ PairInv'
<1> SUFFICES ASSUME CallsInv, IdInv, PairInv, [Next]_vars PROVE IdInv' /\ PairInv'
  OBVIOUS
<1>1. CASE \E c \in Calls : GetMsgId(c)
  BY <1>1, DrawKeeps
<1>2. CASE ~ \E c \in Calls : GetMsgId(c)
  <2>1. UNCHANGED idVars /\ \A d \in Calls : pc'[d] # "idle" => pc[d] # "idle"
    <3>1. pc \in [Calls -> Steps]
      BY DEF CallsInv, TypeOK
    <3> QED
      BY <1>2, <3>1 DEF Next, ClientStep, vars, At, GoTo, Break, CreateFails, Create, AppendFails,
         AppendHeader, AppendPayload, SendFails, Send, RecvFails, Recv, Check, CopyReply, Release,
         Resend, Take, Execute, Answer, Crash, Restart
  <2> QED
    BY <2>1 DEF idVars, IdInv, PairInv, Header
<1> QED
  BY <1>1, <1>2

\* The ids of overlapping calls differ on the wire unless half of the range was
\* given out between them, whatever the width of the counter.
THEOREM OverlappingIdsDifferHolds == Spec => []OverlappingIdsDiffer
<1>1. IdInv /\ PairInv => OverlappingIdsDiffer
  BY DEF IdInv, PairInv, OverlappingIdsDiffer, InFlight
<1> QED
  BY <1>1, InitInv, IdStep, CallsInvariance, PTL DEF Spec


-----------------------------------------------------------------------------
(* The timer *)

\* What the timer keeps true whatever its owner does.
OwnerInv ==
  /\ user_data = starts /\ thread <= starts
  /\ \A i \in Threads : timerPc[i] # "none" => i <= starts
  /\ \A i \in joined : timerPc[i] = "ended"
  /\ owner = "create" => starting
  /\ starting /\ owner # "idle" => starts < MaxStarts

\* As long as no stop came too early only the thread of the last start lives, until
\* it has called back nobody has for this start, and a stop finds a thread to join.
QuietInv ==
  ~early => /\ \A i \in Alive : i = thread /\ i = starts
            /\ owner = "create" => Alive = {} /\ ~existed
            /\ existed \/ owner \in {"cancel", "join"} => ~Dangling
            /\ owner # "lost"
            /\ \A i \in Threads : fired[i] <= 1 /\ (i > starts => fired[i] = 0)
            /\ \A i \in Alive : timerPc[i] # "callback" => fired[i] = 0

TimerInv == TimerTypeOK /\ OwnerInv /\ QuietInv

\* Steps of the owner preserve TimerInv.
LEMMA OwnerSteps ==
  ASSUME TimerInv, (\E b \in BOOLEAN : Stop(b)) \/ OwnerStep
  PROVE  TimerInv'
<1> USE StartAssumption DEF TimerInv, TimerTypeOK, OwnerInv, QuietInv, Threads, Owner, Alive,
                           Dangling, Return
<1>1. CASE \E b \in BOOLEAN : Stop(b)
  BY <1>1 DEF Stop
<1>2. CASE StopReads
  BY <1>2 DEF StopReads
<1>3. CASE StopCancels
  BY <1>3 DEF StopCancels
<1>4. CASE StopJoins
  <2> USE <1>4 DEF StopJoins
  <2>1. CASE Dangling /\ owner' = "lost" /\ UNCHANGED <<existed, joined>>
    BY <2>1
  <2>2. CASE /\ ~Dangling => timerPc[thread] = "ended"
             /\ existed' = FALSE /\ joined' = joined \cup ({thread} \cap Threads)
             /\ Return
    <3>1. ~early => Alive = {}
      BY <2>2
    <3>2. TimerTypeOK' /\ OwnerInv'
      <4>1. \A i \in joined' : timerPc'[i] = "ended"
        BY <2>2
      <4>2. joined' \in SUBSET Threads /\ owner' \in {"idle", "create"}
        BY <2>2
      <4>3. (owner' = "create" => starting') /\ (starting' /\ owner' # "idle" => starts' < MaxStarts)
        BY <2>2
      <4>4. TimerTypeOK'
        BY <4>2, <2>2
      <4>5. OwnerInv'
        BY <4>1, <4>3
      <4> QED
        BY <4>4, <4>5
    <3>3. QuietInv'
      BY <2>2, <3>1
    <3> QED
      BY <3>2, <3>3
  <2> QED
    BY <2>1, <2>2
<1>5. CASE StartCreates
  <2> USE <1>5 DEF StartCreates
  <2>1. starts + 1 \in Threads /\ (~early => Alive = {})
    OBVIOUS
  <2>2. TimerTypeOK' /\ OwnerInv'
    <3>1. timerPc' \in [Threads -> {"none", "mark", "sleep", "lock", "callback", "ended"}]
      BY <2>1
    <3>2. TimerTypeOK'
      <4>1. (existed \in BOOLEAN /\ early \in BOOLEAN /\ starting \in BOOLEAN)'
        OBVIOUS
      <4>2. user_data' \in 0..MaxStarts /\ thread' \in 0..MaxStarts /\ starts' \in 0..MaxStarts
        BY <2>1
      <4> QED
        BY <3>1, <4>1, <4>2
    <3>3. OwnerInv'
      BY <2>1, <3>1
    <3> QED
      BY <3>2, <3>3
  <2>3. CASE thread' \in {thread, 0} /\ UNCHANGED timerPc
    BY <2>1, <2>2, <2>3
  <2>4. CASE thread' = starts + 1 /\ timerPc' = [timerPc EXCEPT ![starts + 1] = "mark"]
    <3>1. ~early => Alive' = {starts + 1}
      BY <2>1, <2>4
    <3>2. starts + 1 \notin joined
      BY <2>1
    <3>3. ~early => owner' # "lost" /\ ~existed' /\ owner' = "idle"
      BY <2>1
    <3>4. ~early => \A i \in Threads : fired'[i] <= 1 /\ (i > starts => fired'[i] = 0)
      BY <2>1
    <3> QED
      BY <2>1, <2>2, <2>4, <3>1, <3>2, <3>3, <3>4
  <2> QED
    BY <2>3, <2>4
<1> QED
  BY <1>1, <1>2, <1>3, <1>4, <1>5 DEF OwnerStep

\* Steps of a timer thread preserve TimerInv.
LEMMA TimerThreadSteps ==
  ASSUME TimerInv, NEW i \in Threads, ThreadStep(i)
  PROVE  TimerInv'
<1> USE StartAssumption DEF TimerInv, TimerTypeOK, OwnerInv, QuietInv, Threads, Owner, Alive,
                           Dangling, ownerVars
<1>1. CASE Mark(i)
  BY <1>1 DEF Mark
<1>2. CASE Cancelled(i)
  BY <1>2 DEF Cancelled
<1>3. CASE WakeUp(i)
  BY <1>3 DEF WakeUp
<1>4. CASE Fire(i)
  <2> USE <1>4 DEF Fire
  <2>1. user_data \in Threads /\ (~early => user_data = i)
    OBVIOUS
  <2>2. TimerTypeOK' /\ OwnerInv'
    BY <2>1
  <2>3. QuietInv'
    <3>1. CASE early
      BY <3>1
    <3>2. CASE ~early
      <4>1. /\ UNCHANGED <<thread, starts, owner, existed, joined>>
            /\ Alive' = Alive /\ i \in Alive /\ fired[i] = 0 /\ i = starts
            /\ \A j \in Alive : j = i
            /\ timerPc'[i] = "callback"
        BY <3>2
      <4>2. fired'[i] = 1 /\ \A j \in Threads \ {i} : fired'[j] = fired[j]
        BY <2>1, <3>2, <4>1
      <4>3. \A j \in Threads : fired'[j] <= 1 /\ (j > starts' => fired'[j] = 0)
        BY <3>2, <4>1, <4>2
      <4> QED
        BY <3>2, <4>1, <4>3
    <3> QED
      BY <3>1, <3>2
  <2> QED
    BY <2>2, <2>3
<1>5. CASE CallbackReturns(i)
  BY <1>5 DEF CallbackReturns
<1>6. CASE CallbackCancelled(i)
  BY <1>6 DEF CallbackCancelled
<1> QED
  BY <1>1, <1>2, <1>3, <1>4, <1>5, <1>6 DEF ThreadStep

\* A timer that is stopped is quiet, each start calls back at most once and no
\* thread is joined twice, as long as no stop comes before the new thread has
\* marked itself.
THEOREM StoppedIsQuietHolds == TimerSpec => []StoppedIsQuiet
<1>1. TimerInit => TimerInv
  <2> SUFFICES ASSUME TimerInit PROVE TimerInv
    OBVIOUS
  <2> USE StartAssumption DEF TimerInit, Threads, Owner, Alive
  <2>1. TimerTypeOK
    <3>1. existed \in BOOLEAN /\ early \in BOOLEAN /\ starting \in BOOLEAN
      OBVIOUS
    <3>2. mutex \in 0..Owner /\ user_data \in 0..MaxStarts /\ thread \in 0..MaxStarts
          /\ starts \in 0..MaxStarts
      OBVIOUS
    <3>3. timerPc \in [Threads -> {"none", "mark", "sleep", "lock", "callback", "ended"}]
      OBVIOUS
    <3>4. cancelled \in SUBSET Threads /\ joined \in SUBSET Threads /\ fired \in [Threads -> Nat]
      OBVIOUS
    <3> QED
      BY <3>1, <3>2, <3>3, <3>4 DEF TimerTypeOK
  <2>2. OwnerInv
    BY DEF OwnerInv
  <2>3. QuietInv
    BY DEF QuietInv, Dangling
  <2> QED
    BY <2>1, <2>2, <2>3 DEF TimerInv
<1>2. TimerInv /\ [TimerNext]_timerVars => TimerInv'
  <2> SUFFICES ASSUME TimerInv, [TimerNext]_timerVars PROVE TimerInv'
    OBVIOUS
  <2>1. CASE UNCHANGED timerVars
    BY <2>1 DEF TimerInv, TimerTypeOK, OwnerInv, QuietInv, Threads, Owner, Alive, Dangling, timerVars
  <2> QED
    BY <2>1, OwnerSteps, TimerThreadSteps DEF TimerNext
<1>3. TimerInv => StoppedIsQuiet
  BY DEF TimerInv, QuietInv, StoppedIsQuiet
<1> QED
  BY <1>1, <1>2, <1>3, PTL DEF TimerSpec

=============================================================================
