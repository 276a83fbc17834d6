------------------------- MODULE RetryConsumerProofs -------------------------
(***************************************************************************)
(* The safety of the consumer protocol for any number of messages, queues, *)
(* processes and handler invocations, any retry limit and any number of    *)
(* crashes and lost connections.                                           *)
(***************************************************************************)
EXTENDS RetryConsumer, TLAPS

\* m is queued, parked or unacknowledged.
Copy(m) ==
  \/ ready[m] > 0
  \/ parked[m] > 0
  \/ \E w \in Workers : Unacked(w) /\ held[w] = m

\* A copy of m's id with a higher retry count.
LaterCopy(m) == \E n \in Message : n.id = m.id /\ n.retry > m.retry /\ Copy(n)

\* A delivery is stale only while the invocation it was made to goes on.
StaleIsBusy == \A w \in stale : pc[w] # "idle"

\* What was claimed or is about to be was handled.
HandledBeforeClaim ==
  \A w \in Workers : pc[w] \in {"done", "claimed"} => held[w].id \in handled

ClaimedIsProcessed ==
  \A w \in Workers : pc[w] = "claimed" => held[w].id \in processed

\* An invocation that republished its message may acknowledge it: the republished
\* copy, or one republished for that copy in turn, is there, or it was settled.
CopiedHasLaterCopy ==
  \A w \in Workers :
    pc[w] = "copied" => LaterCopy(held[w]) \/ Settled(held[w].id)

\* The retry header counts the failures before.
FailedBefore(m) ==
  \A r \in 0 .. MaxRetries : r < m.retry => [id |-> m.id, retry |-> r] \in failedAt

RetryCountsFailures ==
  /\ \A m \in Message : ready[m] > 0 \/ parked[m] > 0 => FailedBefore(m)
  /\ \A w \in Workers : pc[w] # "idle" => FailedBefore(held[w])
  /\ \A w \in Workers : pc[w] \in {"failed", "copied"} => held[w] \in failedAt

\* Nothing is in the broker or with an invocation that nobody published.
CopiesWerePublished ==
  /\ \A m \in Message : ready[m] > 0 \/ parked[m] > 0 => published[m.id] > 0
  /\ \A w \in Workers : pc[w] # "idle" => published[held[w].id] > 0

\* A step of the protocol, however often its messages were published before:
\* what is proved of it holds of OrderSaga as well, which publishes them.
ProtocolStep ==
  \/ UNCHANGED vars
  \/ \E id \in Ids : Publish(id)
  \/ \E m \in Message, w \in Workers : Receive(w, m) \/ SkipDuplicate(w, m)
  \/ \E m \in Message : Expire(m)
  \/ \E w \in Workers : HandlerReturns(w) \/ ParseFails(w) \/ MarkProcessed(w)
  \/ \E w \in Workers : Ack(w) \/ Republish(w) \/ Nack(w) \/ Throw(w)
  \/ \E p \in Processes : Crash(p) \/ ConnectionLost(p)

LEMMA NextCases == [Next]_vars => ProtocolStep
BY DEF Next, Deliver, Proceed, ProtocolStep
-----------------------------------------------------------------------------
LEMMA FreshIsMessage == \A id \in Ids : Fresh(id) \in Message
BY ConsumerAssumption DEF Fresh, Message

LEMMA NextTryIsMessage ==
  ASSUME NEW m \in Message, m.retry < MaxRetries
  PROVE  /\ NextTry(m) \in Message
         /\ NextTry(m).id = m.id
         /\ NextTry(m).retry = m.retry + 1
BY ConsumerAssumption DEF NextTry, Message

LEMMA BagOperations ==
  ASSUME NEW bag \in [Message -> Nat], NEW m \in Message
  PROVE  /\ Put(bag, m) \in [Message -> Nat]
         /\ bag[m] > 0 => Take(bag, m) \in [Message -> Nat]
         /\ Put(bag, m)[m] > 0
         /\ \A n \in Message : bag[n] > 0 => Put(bag, m)[n] > 0
         /\ \A n \in Message : n # m => Take(bag, m)[n] = bag[n]
         /\ \A n \in Message : n # m => Put(bag, m)[n] = bag[n]
BY DEF Put, Take

LEMMA HeldIsMessage ==
  ASSUME TypeOK, NEW w \in Workers, pc[w] # "idle"
  PROVE  held[w] \in Message /\ held[w].id \in Ids /\ held[w].retry \in 0 .. MaxRetries
BY DEF TypeOK, Message

\* Taking the deliveries of a process back keeps ready a bag and loses none.
LEMMA RequeueKeepsCopies ==
  ASSUME TypeOK, NEW p \in Processes, Requeue(p)
  PROVE  /\ ready' \in [Message -> Nat]
         /\ \A m \in Message : ready[m] > 0 => ready'[m] > 0
         /\ \A w \in Workers : Host[w] = p /\ Unacked(w) => ready'[held[w]] > 0
<1>1. ready' \in [Message -> Nat] /\ \A m \in Message : ready[m] > 0 => ready'[m] > 0
  BY DEF Requeue, TypeOK
<1>2. ASSUME NEW w \in Workers, Host[w] = p, Unacked(w)
      PROVE  ready'[held[w]] > 0
  BY <1>2, HeldIsMessage DEF Requeue, TypeOK, Unacked
<1> QED
  BY <1>1, <1>2
-----------------------------------------------------------------------------
LEMMA TypeInit == Init => TypeOK
BY ConsumerAssumption DEF Init, TypeOK, States

LEMMA TypeStep ==
  ASSUME TypeOK, ProtocolStep
  PROVE  TypeOK'
<1> USE ConsumerAssumption
<1>1. CASE UNCHANGED vars
  BY <1>1 DEF TypeOK, vars, brokerVars, workerVars, historyVars
<1>2. ASSUME NEW id \in Ids, Publish(id)
      PROVE  TypeOK'
  BY <1>2, FreshIsMessage, BagOperations DEF TypeOK, Publish, workerVars
<1>3. ASSUME NEW m \in Message, NEW w \in Workers, Receive(w, m)
      PROVE  TypeOK'
  BY <1>3, BagOperations DEF TypeOK, Receive, CanDeliver, historyVars, States
<1>4. ASSUME NEW m \in Message, NEW w \in Workers, SkipDuplicate(w, m)
      PROVE  TypeOK'
  BY <1>4, BagOperations DEF TypeOK, SkipDuplicate, CanDeliver, workerVars, historyVars
<1>5. ASSUME NEW m \in Message, Expire(m)
      PROVE  TypeOK'
  BY <1>5, BagOperations DEF TypeOK, Expire, workerVars, historyVars
<1>6. ASSUME NEW w \in Workers, HandlerReturns(w)
      PROVE  TypeOK'
  BY <1>6, HeldIsMessage DEF TypeOK, HandlerReturns, Goto, brokerVars, States
<1>7. ASSUME NEW w \in Workers, ParseFails(w)
      PROVE  TypeOK'
  BY <1>7, HeldIsMessage DEF TypeOK, ParseFails, Goto, Finish, States
<1>8. ASSUME NEW w \in Workers, MarkProcessed(w)
      PROVE  TypeOK'
  BY <1>8, HeldIsMessage DEF TypeOK, MarkProcessed, Goto, brokerVars, historyVars, States
<1>9. ASSUME NEW w \in Workers, Ack(w)
      PROVE  TypeOK'
  BY <1>9 DEF TypeOK, Ack, Finish, brokerVars, historyVars, States
<1>10. ASSUME NEW w \in Workers, Republish(w)
       PROVE  TypeOK'
  <2>1. held[w] \in Message /\ NextTry(held[w]) \in Message
    BY <1>10, HeldIsMessage, NextTryIsMessage DEF Republish, Goto
  <2> QED
    BY <1>10, <2>1, BagOperations DEF TypeOK, Republish, Goto, historyVars, States
<1>11. ASSUME NEW w \in Workers, Nack(w)
       PROVE  TypeOK'
  BY <1>11, HeldIsMessage DEF TypeOK, Nack, Finish, historyVars, States
<1>12. ASSUME NEW w \in Workers, Throw(w)
       PROVE  TypeOK'
  BY <1>12, HeldIsMessage DEF TypeOK, Throw, Goto, brokerVars, States
<1>13. ASSUME NEW p \in Processes, Crash(p)
       PROVE  TypeOK'
  BY <1>13, RequeueKeepsCopies DEF TypeOK, Crash, historyVars, States
<1>14. ASSUME NEW p \in Processes, ConnectionLost(p)
       PROVE  TypeOK'
  BY <1>14, RequeueKeepsCopies DEF TypeOK, ConnectionLost, historyVars
<1> QED
  BY <1>1, <1>2, <1>3, <1>4, <1>5, <1>6, <1>7, <1>8, <1>9, <1>10, <1>11, <1>12,
     <1>13, <1>14 DEF ProtocolStep

\* Init and every step of the protocol keep the variables in their types.
THEOREM TypeCorrect == Spec => []TypeOK
BY TypeInit, TypeStep, NextCases, PTL DEF Spec
-----------------------------------------------------------------------------
ClaimInv == HandledBeforeClaim /\ ClaimAfterHandling

LEMMA ClaimInit == Init => ClaimInv
BY DEF Init, ClaimInv, HandledBeforeClaim, ClaimAfterHandling

LEMMA ClaimStep ==
  ASSUME TypeOK, ClaimInv, ProtocolStep
  PROVE  ClaimInv'
<1> USE DEF ClaimInv, HandledBeforeClaim, ClaimAfterHandling, TypeOK
<1>1. UNCHANGED vars => ClaimInv'
  BY DEF vars, workerVars, historyVars
<1>2. \A id \in Ids : Publish(id) => ClaimInv'
  BY DEF Publish, workerVars
<1>3. \A m \in Message, w \in Workers : Receive(w, m) \/ SkipDuplicate(w, m) => ClaimInv'
  BY DEF Receive, SkipDuplicate, workerVars, historyVars
<1>4. \A m \in Message : Expire(m) => ClaimInv'
  BY DEF Expire, workerVars, historyVars
<1>5. \A w \in Workers : HandlerReturns(w) \/ ParseFails(w) \/ MarkProcessed(w) => ClaimInv'
  BY DEF HandlerReturns, ParseFails, MarkProcessed, Goto, Finish, historyVars
<1>6. \A w \in Workers : Ack(w) \/ Republish(w) \/ Nack(w) \/ Throw(w) => ClaimInv'
  BY DEF Ack, Republish, Nack, Throw, Goto, Finish, historyVars
<1>7. \A p \in Processes : Crash(p) \/ ConnectionLost(p) => ClaimInv'
  BY DEF Crash, ConnectionLost, historyVars
<1> QED
  BY <1>1, <1>2, <1>3, <1>4, <1>5, <1>6, <1>7 DEF ProtocolStep

\* No id is in processed_messages unless its handler returned normally.
THEOREM ClaimsFollowHandling == Spec => []ClaimAfterHandling
<1>1. ClaimInv => ClaimAfterHandling
  BY DEF ClaimInv
<1> QED
  BY ClaimInit, ClaimStep, NextCases, <1>1, TypeCorrect, PTL DEF Spec
-----------------------------------------------------------------------------
RetryInv == RetryCountsFailures /\ DeadOnlyAfterRetries

\* A message that failed now and before at every lower count may be retried.
LEMMA FailedBeforeNextTry ==
  ASSUME NEW m \in Message, m.retry < MaxRetries, FailedBefore(m), m \in failedAt
  PROVE  FailedBefore(NextTry(m))
<1>1. ASSUME NEW r \in 0 .. MaxRetries, r < m.retry + 1
      PROVE  [id |-> m.id, retry |-> r] \in failedAt
  <2>1. CASE r < m.retry
    BY <1>1, <2>1 DEF FailedBefore
  <2>2. CASE r = m.retry
    BY <2>2 DEF Message
  <2> QED
    BY <1>1, <2>1, <2>2, ConsumerAssumption DEF Message
<1> QED
  BY <1>1, NextTryIsMessage DEF FailedBefore

LEMMA RetryStep ==
  ASSUME TypeOK, RetryInv, ProtocolStep
  PROVE  RetryInv'
<1> USE DEF RetryInv, RetryCountsFailures, DeadOnlyAfterRetries
<1>1. UNCHANGED vars => RetryInv'
  BY DEF vars, brokerVars, workerVars, historyVars, FailedBefore
<1>2. ASSUME NEW id \in Ids, Publish(id)
      PROVE  RetryInv'
  <2>1. FailedBefore(Fresh(id))
    BY ConsumerAssumption DEF FailedBefore, Fresh
  <2>2. \A m \in Message : ready'[m] > 0 => m = Fresh(id) \/ ready[m] > 0
    BY <1>2, FreshIsMessage, BagOperations DEF TypeOK, Publish
  <2> HIDE DEF RetryCountsFailures
  <2>3. RetryCountsFailures'
    <3>1. \A m \in Message : ready'[m] > 0 \/ parked'[m] > 0 => FailedBefore(m)
      BY <1>2, <2>1, <2>2 DEF Publish, RetryCountsFailures
    <3> QED
      BY <1>2, <3>1 DEF Publish, workerVars, FailedBefore, RetryCountsFailures
  <2> QED
    BY <1>2, <2>3 DEF Publish
<1>3. ASSUME NEW m \in Message, NEW w \in Workers, Receive(w, m) \/ SkipDuplicate(w, m)
      PROVE  RetryInv'
  BY <1>3 DEF TypeOK, Receive, SkipDuplicate, CanDeliver, Take, workerVars, historyVars,
              FailedBefore
<1>4. ASSUME NEW m \in Message, Expire(m)
      PROVE  RetryInv'
  BY <1>4 DEF TypeOK, Expire, Take, Put, workerVars, historyVars, FailedBefore
<1>5. ASSUME NEW w \in Workers, HandlerReturns(w) \/ ParseFails(w) \/ MarkProcessed(w)
      PROVE  RetryInv'
  BY <1>5, HeldIsMessage
  DEF TypeOK, HandlerReturns, ParseFails, MarkProcessed, Goto, Finish, brokerVars,
      historyVars, FailedBefore
<1>6. ASSUME NEW w \in Workers, Ack(w)
      PROVE  RetryInv'
  BY <1>6 DEF TypeOK, Ack, Finish, brokerVars, historyVars, FailedBefore
<1>7. ASSUME NEW w \in Workers, Throw(w)
      PROVE  RetryInv'
  BY <1>7 DEF TypeOK, Throw, Goto, brokerVars, FailedBefore
<1>8. ASSUME NEW w \in Workers, Republish(w)
      PROVE  RetryInv'
  <2>1. /\ held[w] \in Message
        /\ NextTry(held[w]) \in Message
        /\ FailedBefore(NextTry(held[w]))
    BY <1>8, HeldIsMessage, NextTryIsMessage, FailedBeforeNextTry DEF Republish, Goto
  <2>2. \A m \in Message : parked'[m] > 0 => m = NextTry(held[w]) \/ parked[m] > 0
    BY <1>8, <2>1, BagOperations DEF TypeOK, Republish
  <2> HIDE DEF RetryCountsFailures
  <2>3. RetryCountsFailures'
    <3>1. \A m \in Message : ready'[m] > 0 \/ parked'[m] > 0 => FailedBefore(m)
      BY <1>8, <2>1, <2>2 DEF Republish, RetryCountsFailures
    <3>2. failedAt' = failedAt /\ held' = held
      BY <1>8 DEF Republish, Goto, historyVars
    <3>3. \A v \in Workers : pc'[v] # "idle" => pc[v] # "idle"
      BY <1>8 DEF Republish, Goto, TypeOK
    <3>4. \A v \in Workers : pc'[v] \in {"failed", "copied"} => pc[v] \in {"failed", "copied"}
      BY <1>8 DEF Republish, Goto, TypeOK
    <3> QED
      BY <3>1, <3>2, <3>3, <3>4 DEF FailedBefore, RetryCountsFailures
  <2> QED
    BY <1>8, <2>3 DEF Republish, historyVars
<1>9. ASSUME NEW w \in Workers, Nack(w)
      PROVE  RetryInv'
  <2>1. /\ held[w] \in Message
        /\ held[w].retry = MaxRetries
    BY <1>9, HeldIsMessage, ConsumerAssumption DEF Nack
  <2>2. \A r \in 0 .. MaxRetries : [id |-> held[w].id, retry |-> r] \in failedAt
    <3>1. FailedBefore(held[w]) /\ held[w] \in failedAt
      BY <1>9 DEF Nack
    <3>2. held[w] = [id |-> held[w].id, retry |-> MaxRetries]
      BY <2>1 DEF Message
    <3> QED
      BY <2>1, <3>1, <3>2, ConsumerAssumption DEF FailedBefore
  <2> QED
    BY <1>9, <2>2 DEF TypeOK, Nack, Finish, historyVars, FailedBefore
<1>10. ASSUME NEW p \in Processes, Crash(p) \/ ConnectionLost(p)
       PROVE  RetryInv'
  BY <1>10
  DEF TypeOK, Crash, ConnectionLost, Requeue, Unacked, historyVars, FailedBefore
<1> QED
  BY <1>1, <1>2, <1>3, <1>4, <1>5, <1>6, <1>7, <1>8, <1>9, <1>10 DEF ProtocolStep

LEMMA RetryInit == Init => RetryInv
BY DEF Init, RetryInv, RetryCountsFailures, DeadOnlyAfterRetries

\* A well-formed message in a dead letter queue failed MaxRetries + 1 times.
THEOREM DeadLettersWereRetried == Spec => []DeadOnlyAfterRetries
<1>1. RetryInv => DeadOnlyAfterRetries
  BY DEF RetryInv
<1> QED
  BY <1>1, RetryInit, RetryStep, NextCases, TypeCorrect, PTL DEF Spec
-----------------------------------------------------------------------------
LEMMA PublishedInit == Init => CopiesWerePublished
BY DEF Init, CopiesWerePublished

LEMMA PublishedStep ==
  ASSUME TypeOK, CopiesWerePublished, ProtocolStep
  PROVE  CopiesWerePublished'
<1> USE DEF CopiesWerePublished
<1>1. UNCHANGED vars => CopiesWerePublished'
  BY DEF vars, brokerVars, workerVars, historyVars
<1>2. ASSUME NEW id \in Ids, Publish(id)
      PROVE  CopiesWerePublished'
  <2>1. /\ published'[id] > 0
        /\ \A other \in Ids : published[other] > 0 => published'[other] > 0
    BY <1>2 DEF Publish, TypeOK
  <2>2. \A m \in Message : ready'[m] > 0 => m = Fresh(id) \/ ready[m] > 0
    BY <1>2, FreshIsMessage, BagOperations DEF TypeOK, Publish
  <2>3. \A m \in Message : m.id \in Ids
    BY DEF Message
  <2>4. \A w \in Workers : pc[w] # "idle" => held[w].id \in Ids
    BY HeldIsMessage
  <2>5. Fresh(id).id = id
    BY DEF Fresh
  <2> QED
    BY <1>2, <2>1, <2>2, <2>3, <2>4, <2>5 DEF Publish, workerVars
<1>3. ASSUME NEW m \in Message, NEW w \in Workers, Receive(w, m) \/ SkipDuplicate(w, m)
      PROVE  CopiesWerePublished'
  BY <1>3 DEF TypeOK, Receive, SkipDuplicate, CanDeliver, Take, workerVars, historyVars
<1>4. ASSUME NEW m \in Message, Expire(m)
      PROVE  CopiesWerePublished'
  BY <1>4 DEF TypeOK, Expire, Take, Put, workerVars, historyVars
<1>5. ASSUME NEW w \in Workers, HandlerReturns(w) \/ ParseFails(w) \/ MarkProcessed(w)
      PROVE  CopiesWerePublished'
  BY <1>5 DEF TypeOK, HandlerReturns, ParseFails, MarkProcessed, Goto, Finish, brokerVars,
     historyVars
<1>6. ASSUME NEW w \in Workers, Ack(w) \/ Nack(w) \/ Throw(w)
      PROVE  CopiesWerePublished'
  BY <1>6 DEF TypeOK, Ack, Nack, Throw, Goto, Finish, brokerVars, historyVars
<1>7. ASSUME NEW w \in Workers, Republish(w)
      PROVE  CopiesWerePublished'
  <2>1. held[w] \in Message /\ NextTry(held[w]) \in Message /\ NextTry(held[w]).id = held[w].id
    BY <1>7, HeldIsMessage, NextTryIsMessage DEF Republish, Goto
  <2>2. \A m \in Message : parked'[m] > 0 => m = NextTry(held[w]) \/ parked[m] > 0
    BY <1>7, <2>1, BagOperations DEF TypeOK, Republish
  <2> QED
    BY <1>7, <2>1, <2>2 DEF TypeOK, Republish, Goto, historyVars
<1>8. ASSUME NEW p \in Processes, Crash(p) \/ ConnectionLost(p)
      PROVE  CopiesWerePublished'
  BY <1>8 DEF TypeOK, Crash, ConnectionLost, Requeue, Unacked, historyVars
<1> QED
  BY <1>1, <1>2, <1>3, <1>4, <1>5, <1>6, <1>7, <1>8 DEF ProtocolStep
-----------------------------------------------------------------------------
BusyInv == StaleIsBusy /\ ClaimedIsProcessed

LEMMA BusyStep ==
  ASSUME TypeOK, BusyInv, ProtocolStep
  PROVE  BusyInv'
<1> USE DEF BusyInv, StaleIsBusy, ClaimedIsProcessed, TypeOK
<1>1. UNCHANGED vars => BusyInv'
  BY DEF vars, workerVars
<1>2. \A id \in Ids : Publish(id) => BusyInv'
  BY DEF Publish, workerVars
<1>3. \A m \in Message, w \in Workers : Receive(w, m) \/ SkipDuplicate(w, m) => BusyInv'
  BY DEF Receive, SkipDuplicate, CanDeliver, workerVars
<1>4. \A m \in Message : Expire(m) => BusyInv'
  BY DEF Expire, workerVars
<1>5. \A w \in Workers : HandlerReturns(w) \/ ParseFails(w) \/ MarkProcessed(w) => BusyInv'
  BY DEF HandlerReturns, ParseFails, MarkProcessed, Goto, Finish
<1>6. \A w \in Workers : Ack(w) \/ Republish(w) \/ Nack(w) \/ Throw(w) => BusyInv'
  BY DEF Ack, Republish, Nack, Throw, Goto, Finish
<1>7. \A p \in Processes : Crash(p) \/ ConnectionLost(p) => BusyInv'
  BY DEF Crash, ConnectionLost, Unacked
<1> QED
  BY <1>1, <1>2, <1>3, <1>4, <1>5, <1>6, <1>7 DEF ProtocolStep

LossInv == BusyInv /\ CopiedHasLaterCopy /\ NoMessageLost

LEMMA InBrokerIsCopy ==
  ASSUME TypeOK, NEW id \in Ids
  PROVE  InBroker(id) <=> \E m \in Message : m.id = id /\ Copy(m)
BY HeldIsMessage DEF InBroker, Copy, Unacked

LEMMA SettledStays ==
  ASSUME TypeOK, ProtocolStep, NEW id \in Ids, Settled(id)
  PROVE  Settled(id)'
<1> DEFINE Stays == processed \subseteq processed' /\ dead \subseteq dead' /\ dropped \subseteq dropped'
<1>1. UNCHANGED vars => Stays
  BY DEF vars, brokerVars
<1>2. \A i \in Ids : Publish(i) => Stays
  BY DEF Publish
<1>3. \A m \in Message, w \in Workers : Receive(w, m) \/ SkipDuplicate(w, m) => Stays
  BY DEF Receive, SkipDuplicate
<1>4. \A m \in Message : Expire(m) => Stays
  BY DEF Expire
<1>5. \A w \in Workers : HandlerReturns(w) \/ ParseFails(w) \/ MarkProcessed(w) => Stays
  BY DEF HandlerReturns, ParseFails, MarkProcessed, brokerVars
<1>6. \A w \in Workers : Ack(w) \/ Republish(w) \/ Nack(w) \/ Throw(w) => Stays
  BY DEF Ack, Republish, Nack, Throw, brokerVars
<1>7. \A p \in Processes : Crash(p) \/ ConnectionLost(p) => Stays
  BY DEF Crash, ConnectionLost
<1>8. Stays
  <2> HIDE DEF Stays
  <2> QED
    BY <1>1, <1>2, <1>3, <1>4, <1>5, <1>6, <1>7 DEF ProtocolStep
<1> QED
  BY <1>8 DEF Settled

\* A copy only goes away when its message is settled or when the invocation
\* that republished it acknowledges it.
AckedAfterCopying(m) ==
  \E w \in Workers : Ack(w) /\ pc[w] = "copied" /\ held[w] = m

LEMMA CopyStays ==
  ASSUME TypeOK, BusyInv, ProtocolStep, NEW m \in Message, Copy(m)
  PROVE  Copy(m)' \/ Settled(m.id)' \/ AckedAfterCopying(m)
<1> DEFINE G == Copy(m)' \/ Settled(m.id)' \/ AckedAfterCopying(m)
<1>1. UNCHANGED vars => G
  BY DEF vars, brokerVars, workerVars, Copy, Unacked
<1>2. ASSUME NEW id \in Ids, Publish(id)
      PROVE  G
  BY <1>2, FreshIsMessage, BagOperations DEF TypeOK, Publish, workerVars, Copy, Unacked
<1>3. ASSUME NEW n \in Message, NEW w \in Workers, Receive(w, n) \/ SkipDuplicate(w, n)
      PROVE  G
  <2>1. CASE SkipDuplicate(w, n)
    <3>1. n = m => Settled(m.id)'
      BY <2>1 DEF SkipDuplicate, Settled
    <3>2. n # m => Copy(m)'
      BY <2>1, BagOperations DEF TypeOK, SkipDuplicate, workerVars, Copy, Unacked
    <3> QED
      BY <3>1, <3>2
  <2>2. CASE Receive(w, n)
    <3>1. pc[w] = "idle" /\ ready[n] > 0
      BY <2>2 DEF Receive, CanDeliver
    <3>2. \A v \in Workers : Unacked(v) /\ held[v] = m => Unacked(v)' /\ held'[v] = m
      BY <2>2, <3>1 DEF TypeOK, Receive, Unacked
    <3>3. n # m => ready'[m] = ready[m]
      BY <2>2, BagOperations DEF TypeOK, Receive
    <3>4. n = m => held'[w] = m /\ (w \notin stale => Unacked(w)')
      BY <2>2 DEF TypeOK, Receive, Unacked
    <3>5. w \notin stale
      BY <3>1 DEF BusyInv, StaleIsBusy
    <3> QED
      BY <2>2, <3>2, <3>3, <3>4, <3>5 DEF Receive, Copy
  <2> QED
    BY <1>3, <2>1, <2>2
<1>4. ASSUME NEW n \in Message, Expire(n)
      PROVE  G
  <2>1. n # m => ready'[m] = ready[m] /\ parked'[m] = parked[m]
    BY <1>4, BagOperations DEF TypeOK, Expire
  <2>2. n = m => ready'[m] > 0
    BY <1>4, BagOperations DEF TypeOK, Expire
  <2>3. \A v \in Workers : Unacked(v) => Unacked(v)' /\ held'[v] = held[v]
    BY <1>4 DEF Expire, workerVars, Unacked
  <2> QED
    BY <2>1, <2>2, <2>3 DEF Copy
<1>5. ASSUME NEW w \in Workers, HandlerReturns(w) \/ MarkProcessed(w) \/ Throw(w)
      PROVE  G
  <2>1. \A v \in Workers : Unacked(v) /\ held[v] = m => Unacked(v)' /\ held'[v] = m
    BY <1>5 DEF TypeOK, HandlerReturns, MarkProcessed, Throw, Goto, Unacked
  <2> QED
    BY <1>5, <2>1 DEF HandlerReturns, MarkProcessed, Throw, brokerVars, Copy
<1>6. ASSUME NEW w \in Workers, ParseFails(w)
      PROVE  G
  <2>1. \A v \in Workers : v # w /\ Unacked(v) => Unacked(v)' /\ held'[v] = held[v]
    BY <1>6 DEF TypeOK, ParseFails, Goto, Finish, Unacked
  <2>2. held[w] = m /\ Unacked(w) => Settled(m.id)' \/ (Unacked(w)' /\ held'[w] = m)
    BY <1>6 DEF TypeOK, ParseFails, Goto, Finish, Unacked, Settled
  <2> QED
    BY <1>6, <2>1, <2>2 DEF ParseFails, Copy
<1>7. ASSUME NEW w \in Workers, Ack(w)
      PROVE  G
  <2>1. \A v \in Workers : v # w /\ Unacked(v) => Unacked(v)' /\ held'[v] = held[v]
    BY <1>7 DEF TypeOK, Ack, Finish, Unacked
  <2>2. held[w] = m => Settled(m.id)' \/ AckedAfterCopying(m)
    BY <1>7 DEF Ack, BusyInv, ClaimedIsProcessed, AckedAfterCopying, Settled
  <2> QED
    BY <1>7, <2>1, <2>2 DEF Ack, brokerVars, Copy
<1>8. ASSUME NEW w \in Workers, Republish(w)
      PROVE  G
  <2>1. \A v \in Workers : Unacked(v) /\ held[v] = m => Unacked(v)' /\ held'[v] = m
    BY <1>8 DEF TypeOK, Republish, Goto, Unacked
  <2>2. held[w] \in Message /\ NextTry(held[w]) \in Message
    BY <1>8, HeldIsMessage, NextTryIsMessage DEF Republish, Goto
  <2>3. parked[m] > 0 => parked'[m] > 0
    BY <1>8, <2>2, BagOperations DEF TypeOK, Republish
  <2> QED
    BY <1>8, <2>1, <2>3 DEF Republish, Copy
<1>9. ASSUME NEW w \in Workers, Nack(w)
      PROVE  G
  <2>1. \A v \in Workers : v # w /\ Unacked(v) => Unacked(v)' /\ held'[v] = held[v]
    BY <1>9 DEF TypeOK, Nack, Finish, Unacked
  <2>2. held[w] = m /\ Unacked(w) => Settled(m.id)'
    BY <1>9 DEF Nack, Unacked, Settled
  <2> QED
    BY <1>9, <2>1, <2>2 DEF Nack, Copy
<1>10. ASSUME NEW p \in Processes, Crash(p) \/ ConnectionLost(p)
       PROVE  G
  <2>1. Requeue(p) /\ parked' = parked
    BY <1>10 DEF Crash, ConnectionLost
  <2>2. ASSUME NEW v \in Workers, Unacked(v), held[v] = m
        PROVE  ready'[m] > 0 \/ (Unacked(v)' /\ held'[v] = m)
    <3>1. CASE Host[v] = p
      BY <2>1, <2>2, <3>1, RequeueKeepsCopies
    <3>2. CASE Host[v] # p
      BY <1>10, <2>2, <3>2 DEF TypeOK, Crash, ConnectionLost, Unacked
    <3> QED
      BY <3>1, <3>2
  <2> QED
    BY <2>1, <2>2, RequeueKeepsCopies DEF Copy
<1> HIDE DEF G
<1>11. G
  BY <1>1, <1>2, <1>3, <1>4, <1>5, <1>6, <1>7, <1>8, <1>9, <1>10 DEF ProtocolStep
<1> QED
  BY <1>11 DEF G

\* An acknowledgement only takes the copy its own invocation holds.
LEMMA AckTakesOneCopy ==
  ASSUME TypeOK, NEW w \in Workers, Ack(w), NEW m \in Message, m # held[w], Copy(m)
  PROVE  Copy(m)'
<1>1. \A v \in Workers : v # w /\ Unacked(v) => Unacked(v)' /\ held'[v] = held[v]
  BY DEF TypeOK, Ack, Finish, Unacked
<1> QED
  BY <1>1 DEF Ack, brokerVars, Copy

LEMMA CopyOrLaterCopy ==
  ASSUME TypeOK, LossInv, ProtocolStep, NEW m \in Message, Copy(m)
  PROVE  Copy(m)' \/ LaterCopy(m)' \/ Settled(m.id)'
<1>1. m.id \in Ids
  BY DEF Message
<1>2. CASE ~ AckedAfterCopying(m)
  BY <1>2, CopyStays DEF LossInv
<1>3. CASE AckedAfterCopying(m)
  <2>1. PICK w \in Workers : Ack(w) /\ pc[w] = "copied" /\ held[w] = m
    BY <1>3 DEF AckedAfterCopying
  <2>2. CASE Settled(m.id)
    BY <1>1, <2>2, SettledStays
  <2>3. CASE LaterCopy(m)
    <3>1. PICK n \in Message : n.id = m.id /\ n.retry > m.retry /\ Copy(n)
      BY <2>3 DEF LaterCopy
    <3>2. n # m
      BY <3>1 DEF Message
    <3> QED
      BY <2>1, <3>1, <3>2, AckTakesOneCopy DEF LaterCopy
  <2> QED
    BY <2>1, <2>2, <2>3 DEF LossInv, CopiedHasLaterCopy
<1> QED
  BY <1>2, <1>3

LEMMA LaterCopyStays ==
  ASSUME TypeOK, LossInv, ProtocolStep, NEW m \in Message, LaterCopy(m)
  PROVE  LaterCopy(m)' \/ Settled(m.id)'
<1>1. PICK n \in Message : n.id = m.id /\ n.retry > m.retry /\ Copy(n)
  BY DEF LaterCopy
<1>2. CASE LaterCopy(n)'
  <2>1. PICK k \in Message : k.id = n.id /\ k.retry > n.retry /\ Copy(k)'
    BY <1>2 DEF LaterCopy
  <2>2. k.retry > m.retry
    BY <1>1, <2>1, ConsumerAssumption DEF Message
  <2> QED
    BY <1>1, <2>1, <2>2 DEF LaterCopy
<1> QED
  BY <1>1, <1>2, CopyOrLaterCopy DEF LaterCopy

LEMMA CopiedStep ==
  ASSUME TypeOK, LossInv, ProtocolStep
  PROVE  CopiedHasLaterCopy'
<1> SUFFICES ASSUME NEW w \in Workers, pc'[w] = "copied"
             PROVE  LaterCopy(held[w])' \/ Settled(held[w].id)'
  BY DEF CopiedHasLaterCopy
<1> DEFINE Stays == pc[w] = "copied" /\ held'[w] = held[w]
           G     == Stays \/ Republish(w)
<1>1. G
  <2> USE DEF TypeOK
  <2>1. UNCHANGED vars => G
    BY DEF vars, workerVars
  <2>2. \A id \in Ids : Publish(id) => G
    BY DEF Publish, workerVars
  <2>3. \A m \in Message, v \in Workers : Receive(v, m) \/ SkipDuplicate(v, m) => G
    BY DEF Receive, SkipDuplicate, workerVars
  <2>4. \A m \in Message : Expire(m) => G
    BY DEF Expire, workerVars
  <2>5. \A v \in Workers : HandlerReturns(v) \/ ParseFails(v) \/ MarkProcessed(v) => G
    BY DEF HandlerReturns, ParseFails, MarkProcessed, Goto, Finish
  <2>6. \A v \in Workers : Ack(v) \/ Republish(v) \/ Nack(v) \/ Throw(v) => G
    BY DEF Ack, Republish, Nack, Throw, Goto, Finish
  <2>7. \A p \in Processes : Crash(p) \/ ConnectionLost(p) => G
    BY DEF Crash, ConnectionLost
  <2> HIDE DEF G, TypeOK
  <2> QED
    BY <2>1, <2>2, <2>3, <2>4, <2>5, <2>6, <2>7 DEF ProtocolStep
<1>2. CASE Stays
  <2>1. held[w] \in Message /\ held[w].id \in Ids
    BY <1>2, HeldIsMessage
  <2>2. LaterCopy(held[w]) \/ Settled(held[w].id)
    BY <1>2 DEF LossInv, CopiedHasLaterCopy
  <2>3. ASSUME NEW m \in Message, m = held[w]
        PROVE  LaterCopy(m)' \/ Settled(m.id)'
    BY <2>1, <2>2, <2>3, LaterCopyStays, SettledStays
  <2>4. \A m \in Message : held'[w] = m => (LaterCopy(held[w])' <=> LaterCopy(m)')
    BY DEF LaterCopy
  <2> QED
    BY <1>2, <2>1, <2>3, <2>4 DEF Settled
<1>3. CASE Republish(w)
  <2>1. /\ held[w] \in Message
        /\ NextTry(held[w]) \in Message
        /\ NextTry(held[w]).id = held[w].id
        /\ NextTry(held[w]).retry = held[w].retry + 1
    BY <1>3, HeldIsMessage, NextTryIsMessage DEF Republish, Goto
  <2>2. parked'[NextTry(held[w])] > 0 /\ held'[w] = held[w]
    BY <1>3, <2>1, BagOperations DEF TypeOK, Republish, Goto
  <2>3. NextTry(held[w]).retry > held[w].retry
    BY <2>1, ConsumerAssumption DEF Message
  <2> QED
    BY <2>1, <2>2, <2>3 DEF LaterCopy, Copy
<1> QED
  BY <1>1, <1>2, <1>3

LEMMA NoLossStep ==
  ASSUME TypeOK, LossInv, ProtocolStep
  PROVE  NoMessageLost'
<1> SUFFICES ASSUME NEW id \in Ids, published'[id] > 0
             PROVE  InBroker(id)' \/ Settled(id)'
  BY DEF NoMessageLost, Accepted
<1>1. TypeOK'
  BY TypeStep
<1>2. (\E m \in Message : m.id = id /\ Copy(m)') => InBroker(id)'
  BY <1>1, HeldIsMessage DEF InBroker, Copy, Unacked
<1>3. CASE published[id] > 0
  <2>1. CASE Settled(id)
    BY <2>1, SettledStays
  <2>2. CASE InBroker(id)
    <3>1. PICK m \in Message : m.id = id /\ Copy(m)
      BY <2>2, InBrokerIsCopy
    <3> QED
      BY <1>2, <3>1, CopyOrLaterCopy DEF LaterCopy
  <2> QED
    BY <1>3, <2>1, <2>2 DEF LossInv, NoMessageLost, Accepted
<1>4. CASE ~ (published[id] > 0)
  <2> DEFINE G == published'[id] > 0 => Publish(id)
  <2>1. G
    <3>1. UNCHANGED vars => G
      BY <1>4 DEF vars, historyVars
    <3>2. \A i \in Ids : Publish(i) => G
      BY <1>4 DEF TypeOK, Publish
    <3>3. \A m \in Message, w \in Workers : Receive(w, m) \/ SkipDuplicate(w, m) => G
      BY <1>4 DEF Receive, SkipDuplicate, historyVars
    <3>4. \A m \in Message : Expire(m) => G
      BY <1>4 DEF Expire, historyVars
    <3>5. \A w \in Workers : HandlerReturns(w) \/ ParseFails(w) \/ MarkProcessed(w) => G
      BY <1>4 DEF HandlerReturns, ParseFails, MarkProcessed, historyVars
    <3>6. \A w \in Workers : Ack(w) \/ Republish(w) \/ Nack(w) \/ Throw(w) => G
      BY <1>4 DEF Ack, Republish, Nack, Throw, historyVars
    <3>7. \A p \in Processes : Crash(p) \/ ConnectionLost(p) => G
      BY <1>4 DEF Crash, ConnectionLost, historyVars
    <3> HIDE DEF G
    <3> QED
      BY <3>1, <3>2, <3>3, <3>4, <3>5, <3>6, <3>7 DEF ProtocolStep
  <2>2. ready'[Fresh(id)] > 0
    BY <2>1, FreshIsMessage, BagOperations DEF TypeOK, Publish
  <2> QED
    BY <1>2, <2>2, FreshIsMessage DEF Copy, Fresh
<1> QED
  BY <1>3, <1>4

LEMMA LossInit == Init => LossInv
BY DEF Init, LossInv, BusyInv, StaleIsBusy, ClaimedIsProcessed, CopiedHasLaterCopy,
       NoMessageLost, Accepted

LEMMA LossStep ==
  ASSUME TypeOK, LossInv, ProtocolStep
  PROVE  LossInv'
BY BusyStep, CopiedStep, NoLossStep DEF LossInv

\* A message the broker accepted is in the broker until it is claimed,
\* dead-lettered or, when it is malformed, dropped, through any sequence of
\* errors, retries, duplicates, crashes and reconnects.
THEOREM NothingIsLost == Spec => []NoMessageLost
<1>1. LossInv => NoMessageLost
  BY DEF LossInv
<1> QED
  BY <1>1, LossInit, LossStep, NextCases, TypeCorrect, PTL DEF Spec
===============================================================================
