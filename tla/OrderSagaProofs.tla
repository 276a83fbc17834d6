---------------------------- MODULE OrderSagaProofs ----------------------------
(***************************************************************************)
(* The order flow for any orders, stock, prices, replicas, retry limit and *)
(* number of errors and outages.  Its steps are steps of the consumer      *)
(* protocol and of the inventory's transactions, so the invariants of      *)
(* RetryConsumerProofs and InventoryProofs hold here too; on top of them   *)
(* an order is followed from event to event.                               *)
(***************************************************************************)
EXTENDS OrderSaga, FiniteSetTheorems, TLAPS

CP == INSTANCE RetryConsumerProofs WITH MaxPublishes <- 2 + MaxErrors + MaxOutages

IP == INSTANCE InventoryProofs WITH
        Txns <- InventoryWorkers, tx <- [w \in InventoryWorkers |-> TxOf(w)]
-----------------------------------------------------------------------------
(* Queues and workers *)

LEMMA Routing ==
  /\ BoundQueue("order.created") = "inventory.reserve"
  /\ BoundQueue("inventory.reserved") = "order.processing"
  /\ BoundQueue("inventory.reservation.failed") = "order.processing"
  /\ BoundQueue("inventory.release") = "inventory.release"
  /\ BoundQueue("order.confirmed") = "order.notifications"
  /\ BoundQueue("order.failed") = "order.notifications"
<1>1. \A e \in EventTypes : <<BoundQueue(e), e>> \in Bindings
  BY EveryEventHasOneQueue DEF BoundQueue
<1> QED
  BY <1>1 DEF EventTypes, Bindings

LEMMA IdParts ==
  /\ \A id \in Ids : /\ id = <<Event(id), OrderOf(id)>>
                     /\ Event(id) \in EventTypes /\ OrderOf(id) \in Orders
  /\ \A e \in EventTypes, o \in Orders : <<e, o>> \in Ids
BY DEF Ids, Event, OrderOf

LEMMA WorkerParts ==
  ASSUME NEW w \in Workers
  PROVE  w[1] \in Queues /\ Host[w] = Process(w) /\ Serves[w] = w[1]
BY DEF Workers, Host, Serves

LEMMA ConsumerIsSound == CP!ConsumerAssumption
<1>1. QueueOf \in [Ids -> Queues]
  BY Routing, IdParts DEF QueueOf, EventTypes, Queues
<1>2. Host \in [Workers -> Processes]
  BY DEF Host, Processes
<1>3. Serves \in [Workers -> Queues]
  BY WorkerParts DEF Serves
<1>4. 2 + MaxErrors + MaxOutages \in Nat
  BY SagaAssumption
<1>5. None \notin CP!Message
  BY SagaAssumption DEF Message, C!Message, CP!Message
<1> QED
  BY <1>1, <1>2, <1>3, <1>4, <1>5, SagaAssumption
     DEF CP!ConsumerAssumption, Malformed, OnMalformed
-----------------------------------------------------------------------------
(* C and CP are two instances of the same definitions *)

LEMMA SameProtocol ==
  /\ C!TypeOK <=> CP!TypeOK
  /\ Message = CP!Message
  /\ \A id : C!Publish(id) => CP!Publish(id)
  /\ \A w, m : C!Receive(w, m) => CP!Receive(w, m)
  /\ \A w, m : C!SkipDuplicate(w, m) => CP!SkipDuplicate(w, m)
  /\ \A m : C!Expire(m) => CP!Expire(m)
  /\ \A w : C!HandlerReturns(w) => CP!HandlerReturns(w)
  /\ \A w : C!Throw(w) => CP!Throw(w)
  /\ \A w : C!MarkProcessed(w) => CP!MarkProcessed(w)
  /\ \A w : C!Ack(w) => CP!Ack(w)
  /\ \A w : C!Republish(w) => CP!Republish(w)
  /\ \A w : C!Nack(w) => CP!Nack(w)
  /\ \A p : C!Crash(p) => CP!Crash(p)
  /\ \A p : C!ConnectionLost(p) => CP!ConnectionLost(p)
<1> USE DEF C!Message, CP!Message, C!Fresh, CP!Fresh, C!Put, CP!Put, C!Take, CP!Take,
            C!NextTry, CP!NextTry, C!Unacked, CP!Unacked, C!Goto, CP!Goto, C!Finish,
            CP!Finish, C!CanDeliver, CP!CanDeliver, C!Requeue, CP!Requeue,
            C!brokerVars, CP!brokerVars, C!workerVars, CP!workerVars, C!historyVars,
            CP!historyVars
<1>1. (C!TypeOK <=> CP!TypeOK) /\ Message = CP!Message
  BY DEF C!TypeOK, CP!TypeOK, C!States, CP!States, Message
<1>2. \A id : C!Publish(id) => CP!Publish(id)
  BY DEF C!Publish, CP!Publish
<1>3. \A w, m : (C!Receive(w, m) => CP!Receive(w, m))
                /\ (C!SkipDuplicate(w, m) => CP!SkipDuplicate(w, m))
  BY DEF C!Receive, CP!Receive, C!SkipDuplicate, CP!SkipDuplicate
<1>4. \A m : C!Expire(m) => CP!Expire(m)
  BY DEF C!Expire, CP!Expire
<1>5. \A w : /\ C!HandlerReturns(w) => CP!HandlerReturns(w)
             /\ C!Throw(w) => CP!Throw(w)
             /\ C!MarkProcessed(w) => CP!MarkProcessed(w)
  BY DEF C!HandlerReturns, CP!HandlerReturns, C!Throw, CP!Throw, C!MarkProcessed,
         CP!MarkProcessed
<1>6. \A w : /\ C!Ack(w) => CP!Ack(w)
             /\ C!Republish(w) => CP!Republish(w)
             /\ C!Nack(w) => CP!Nack(w)
  BY DEF C!Ack, CP!Ack, C!Republish, CP!Republish, C!Nack, CP!Nack
<1>7. \A p : /\ C!Crash(p) => CP!Crash(p)
             /\ C!ConnectionLost(p) => CP!ConnectionLost(p)
  BY DEF C!Crash, CP!Crash, C!ConnectionLost, CP!ConnectionLost
<1> QED
  BY <1>1, <1>2, <1>3, <1>4, <1>5, <1>6, <1>7
-----------------------------------------------------------------------------
(* Types, and the protocol around the handlers *)

Types ==
  /\ CP!TypeOK
  /\ order \in [Orders -> Statuses \union {"none"}]
  /\ outbox \in [Orders -> {"none", "unpublished", "published"}]
  /\ rollbacks \in [Orders -> Nat]
  /\ at \in [Workers -> Positions]
  /\ \A w \in Workers : at[w] # "none" <=> pc[w] = "running"
  /\ mails \in [Orders -> [Final -> Nat]]
  /\ errors \in 0 .. MaxErrors
  /\ failures \in [Ids -> Nat]
  /\ cutOff \in [Ids -> Nat]

LEMMA HeldParts ==
  ASSUME Types, NEW w \in Workers, pc[w] # "idle"
  PROVE  /\ held[w] \in Message /\ held[w].id \in Ids
         /\ EventAt(w) \in EventTypes /\ OrderAt(w) \in Orders
         /\ held[w].id = <<EventAt(w), OrderAt(w)>>
<1>1. held[w] \in CP!Message /\ held[w].id \in Ids
  BY ConsumerIsSound, CP!HeldIsMessage DEF Types
<1> QED
  BY <1>1, SameProtocol, IdParts DEF EventAt, OrderAt

LEMMA RunningParts ==
  ASSUME Types, NEW w \in Workers, at[w] # "none"
  PROVE  /\ pc[w] = "running"
         /\ held[w] \in Message /\ held[w].id \in Ids
         /\ EventAt(w) \in EventTypes /\ OrderAt(w) \in Orders
         /\ held[w].id = <<EventAt(w), OrderAt(w)>>
BY HeldParts DEF Types

\* A publish of a handler is a publish of the protocol.
LEMMA PublishIsStep ==
  ASSUME Types, NEW w \in Workers, NEW position, position # "none", NEW event \in EventTypes,
         NEW next, PublishStep(w, position, event, next)
  PROVE  CP!Publish(<<event, OrderAt(w)>>) /\ <<event, OrderAt(w)>> \in Ids
BY SameProtocol, RunningParts, IdParts DEF PublishStep

\* What a handler does is a publish or nothing to the consumer protocol.
LEMMA HandlerStepIsStep ==
  ASSUME Types, NEW w \in Workers, HandlerStep(w)
  PROVE  UNCHANGED consumerVars \/ \E id \in Ids : CP!Publish(id)
<1>1. CASE \/ ReserveLookup(w) \/ ReserveFinish(w) \/ ReleaseLookup(w) \/ ReleaseFinish(w)
           \/ ApplyReservationFailed(w) \/ ApplyReserved(w) \/ SendMail(w)
  BY <1>1 DEF ReserveLookup, ReserveFinish, ReleaseLookup, ReleaseFinish,
     ApplyReservationFailed, ApplyReserved, SendMail
<1>2. CASE PublishReserved(w)
  BY <1>2, PublishIsStep DEF PublishReserved, EventTypes
<1>3. CASE PublishRefused(w)
  BY <1>3, PublishIsStep DEF PublishRefused, EventTypes
<1>4. CASE PublishConfirmed(w)
  BY <1>4, PublishIsStep DEF PublishConfirmed, EventTypes
<1>5. CASE PublishRelease(w)
  BY <1>5, PublishIsStep DEF PublishRelease, EventTypes
<1>6. CASE PublishFailed(w)
  BY <1>6, PublishIsStep DEF PublishFailed, EventTypes
<1> QED
  BY <1>1, <1>2, <1>3, <1>4, <1>5, <1>6 DEF HandlerStep

\* The steps of the order flow, each with its parameters.
LEMMA NextCases ==
  ASSUME [Next]_vars
  PROVE  \/ UNCHANGED vars
         \/ \E o \in Orders : CreateOrder(o) \/ RelayPublish(o)
         \/ \E R \in Batches : RelayMark(R) \/ RelayRollBack(R)
         \/ \E m \in Message, w \in Workers : Deliver(w, m)
         \/ \E w \in Workers : WorkerStep(w) \/ Throw(w)
         \/ \E m \in Message : Expire(m)
         \/ \E p \in Processes : Crash(p) \/ ConnectionLost(p)
BY DEF Next, RelayStep, Ready

\* Every step of the order flow is a step of the consumer protocol.
LEMMA StepIsProtocolStep ==
  ASSUME Types, [Next]_vars
  PROVE  CP!ProtocolStep
<1> USE DEF CP!ProtocolStep
<1>1. UNCHANGED consumerVars => CP!ProtocolStep
  BY DEF consumerVars, CP!vars, CP!brokerVars, CP!workerVars, CP!historyVars
<1>2. CASE UNCHANGED vars
  BY <1>1, <1>2 DEF vars
<1>3. ASSUME NEW o \in Orders, CreateOrder(o) \/ RelayPublish(o)
      PROVE  CP!ProtocolStep
  BY <1>1, <1>3, SameProtocol, IdParts DEF CreateOrder, RelayPublish, EventTypes
<1>4. ASSUME NEW R \in Batches, RelayMark(R) \/ RelayRollBack(R)
      PROVE  CP!ProtocolStep
  BY <1>1, <1>4 DEF RelayMark, RelayRollBack
<1>5. ASSUME NEW m \in Message, NEW w \in Workers, Deliver(w, m)
      PROVE  CP!ProtocolStep
  BY <1>5, SameProtocol DEF Deliver
<1>6. ASSUME NEW w \in Workers, HandlerStep(w)
      PROVE  CP!ProtocolStep
  BY <1>1, <1>6, HandlerStepIsStep
<1>7. ASSUME NEW w \in Workers, HandlerReturns(w) \/ TransactionConflict(w) \/ Throw(w) \/ Conclude(w)
      PROVE  CP!ProtocolStep
  BY <1>7, SameProtocol DEF HandlerReturns, TransactionConflict, Throw, ThrowFrom, Conclude
<1>8. ASSUME NEW m \in Message, Expire(m)
      PROVE  CP!ProtocolStep
  BY <1>8, SameProtocol DEF Expire
<1>9. ASSUME NEW p \in Processes, Crash(p) \/ ConnectionLost(p)
      PROVE  CP!ProtocolStep
  BY <1>9, SameProtocol DEF Crash, ConnectionLost
<1> QED
  BY <1>2, <1>3, <1>4, <1>5, <1>6, <1>7, <1>8, <1>9, NextCases DEF WorkerStep

\* A handler moves on, within its types; everything about it is its own.
LEMMA HandlerStepTypes ==
  ASSUME Types, NEW w \in Workers, HandlerStep(w)
  PROVE  /\ at[w] # "none"
         /\ \E p \in Positions \ {"none"} : at' = [at EXCEPT ![w] = p]
         /\ UNCHANGED <<pc, held, handled, outbox, rollbacks, errors, failures, cutOff>>
         /\ order' \in [Orders -> Statuses \union {"none"}]
         /\ mails' \in [Orders -> [Final -> Nat]]
<1> USE DEF Goto, Positions
<1>1. CASE ReserveLookup(w) \/ ReserveFinish(w) \/ ReleaseLookup(w) \/ ReleaseFinish(w)
  BY <1>1 DEF ReserveLookup, ReserveFinish, ReleaseLookup, ReleaseFinish, At, consumerVars, Types
<1>2. CASE ApplyReservationFailed(w) \/ ApplyReserved(w)
  BY <1>2, RunningParts DEF ApplyReservationFailed, ApplyReserved, At, SetStatus, consumerVars,
     Types, Statuses, D!ResolveOrderStatus
<1>3. CASE SendMail(w)
  <2>1. PICK status \in Final : mails' = [mails EXCEPT ![OrderAt(w)][status] = @ + 1]
    BY <1>3 DEF SendMail
  <2>2. at[w] = "start" /\ OrderAt(w) \in Orders
    BY <1>3, RunningParts DEF SendMail, At
  <2>3. mails' \in [Orders -> [Final -> Nat]]
    BY <2>1, <2>2 DEF Types
  <2> QED
    BY <1>3, <2>2, <2>3 DEF SendMail, consumerVars, Types
<1>4. CASE \/ PublishReserved(w) \/ PublishRefused(w) \/ PublishConfirmed(w)
           \/ PublishRelease(w) \/ PublishFailed(w)
  BY <1>4 DEF PublishReserved, PublishRefused, PublishConfirmed, PublishRelease, PublishFailed,
     PublishStep, C!Publish, C!workerVars, Types
<1> QED
  BY <1>1, <1>2, <1>3, <1>4 DEF HandlerStep

LEMMA TypesStep ==
  ASSUME Types, [Next]_vars
  PROVE  Types'
<1>1. CP!TypeOK'
  BY ConsumerIsSound, StepIsProtocolStep, CP!TypeStep DEF Types
<1>2. CASE UNCHANGED vars
  BY <1>1, <1>2 DEF vars, consumerVars, Types
<1>3. ASSUME NEW o \in Orders, CreateOrder(o) \/ RelayPublish(o)
      PROVE  Types'
  BY <1>1, <1>3 DEF CreateOrder, RelayPublish, O!Write, O!Publish, C!Publish, C!workerVars,
     consumerVars, Types, Statuses
<1>4. ASSUME NEW R \in Batches, RelayMark(R) \/ RelayRollBack(R)
      PROVE  Types'
  BY <1>1, <1>4, SagaAssumption DEF RelayMark, RelayRollBack, O!Mark, O!RollBack, consumerVars, Types
<1>5. ASSUME NEW m \in Message, NEW w \in Workers, Deliver(w, m)
      PROVE  Types'
  <2>1. CASE C!Receive(w, m) /\ Goto(w, "start")
    BY <1>1, <1>5, <2>1 DEF Deliver, C!Receive, Goto, CP!TypeOK, Types, Positions
  <2>2. CASE C!SkipDuplicate(w, m) /\ UNCHANGED at
    BY <1>1, <1>5, <2>2 DEF Deliver, C!SkipDuplicate, C!workerVars, Types
  <2> QED
    BY <1>5, <2>1, <2>2 DEF Deliver
<1>6. ASSUME NEW w \in Workers, HandlerStep(w)
      PROVE  Types'
  BY <1>1, <1>6, HandlerStepTypes DEF Types
<1>7. ASSUME NEW w \in Workers, HandlerReturns(w) \/ TransactionConflict(w) \/ Throw(w)
      PROVE  Types'
  <2>1. /\ \E s \in {"done", "failed"} : pc' = [pc EXCEPT ![w] = s]
        /\ at' = [at EXCEPT ![w] = "none"]
    BY <1>7 DEF HandlerReturns, TransactionConflict, Throw, ThrowFrom, C!HandlerReturns,
       C!Throw, C!Goto, Goto
  <2>2. errors' \in 0 .. MaxErrors /\ UNCHANGED <<order, outbox, rollbacks, mails, cutOff>>
    BY <1>7, SagaAssumption DEF HandlerReturns, TransactionConflict, Throw, ThrowFrom, Types
  <2>3. failures' \in [Ids -> Nat]
    BY <1>7 DEF HandlerReturns, TransactionConflict, Throw, ThrowFrom, Types
  <2>4. \A v \in Workers : at'[v] # "none" <=> pc'[v] = "running"
    BY <2>1 DEF CP!TypeOK, Types
  <2> QED
    BY <1>1, <2>1, <2>2, <2>3, <2>4 DEF Types, Positions
<1>8. ASSUME NEW w \in Workers, Conclude(w)
      PROVE  Types'
  BY <1>1, <1>8 DEF Conclude, C!MarkProcessed, C!Ack, C!Republish, C!Nack, C!Goto, C!Finish,
     CP!TypeOK, Types
<1>9. ASSUME NEW m \in Message, Expire(m)
      PROVE  Types'
  BY <1>1, <1>9 DEF Expire, C!Expire, C!workerVars, Types
<1>10. ASSUME NEW p \in Processes, Crash(p) \/ ConnectionLost(p)
       PROVE  Types'
  <2>1. cutOff' \in [Ids -> Nat]
    BY <1>10 DEF Crash, ConnectionLost, CutOff, Types
  <2> QED
    BY <1>1, <1>10, <2>1, WorkerParts DEF Crash, ConnectionLost, C!Crash, C!ConnectionLost,
       CP!TypeOK, Types, Positions
<1> QED
  BY <1>2, <1>3, <1>4, <1>5, <1>6, <1>7, <1>8, <1>9, <1>10, NextCases DEF WorkerStep

LEMMA TypesInit == Init => Types
<1>1. Init => CP!TypeOK
  <2>1. Init => CP!Init
    BY DEF Init, C!Init, CP!Init, C!Message, CP!Message
  <2> QED
    BY <2>1, ConsumerIsSound, CP!TypeInit
<1> QED
  BY <1>1, SagaAssumption DEF Init, C!Init, Types, Positions
-----------------------------------------------------------------------------
(* The transactions of the inventory workers *)

InTransaction(w) == at[w] \in {"reserving", "releasing"}

LEMMA OpenTransaction ==
  ASSUME Types, NEW w \in Workers
  PROVE  /\ at[w] = "reserving" => TxOf(w) = [op |-> "reserve", order |-> OrderAt(w)]
         /\ at[w] = "releasing" => TxOf(w) = [op |-> "release", order |-> OrderAt(w)]
         /\ ~ InTransaction(w) => TxOf(w) = NoTx
         /\ InTransaction(w) => TxOf(w) # NoTx
<1>1. InTransaction(w) => OrderAt(w) \in Orders
  BY RunningParts DEF InTransaction
<1> QED
  BY <1>1, SagaAssumption DEF InTransaction, TxOf, OrderAt, I!InventoryAssumption, I!OpenTx

\* What changes nothing about the transactions does not concern Inventory.
LEMMA NotForInventory ==
  ASSUME Types, UNCHANGED stockVars,
         \A w \in Workers :
           \/ ~ InTransaction(w) /\ ~ InTransaction(w)'
           \/ at'[w] = at[w] /\ held'[w] = held[w]
  PROVE  UNCHANGED I!vars
<1>1. \A w \in Workers : TxOf(w)' = TxOf(w)
  BY DEF TxOf, InTransaction
<1>2. UNCHANGED [w \in InventoryWorkers |-> TxOf(w)]
  BY <1>1 DEF InventoryWorkers
<1> QED
  BY <1>2 DEF I!vars, I!stockVars, stockVars

\* A handler that goes on: the transactions of the others stay as they are.
LEMMA Onward ==
  ASSUME Types, NEW w \in Workers, NEW position, Goto(w, position), held' = held
  PROVE  /\ at'[w] = position
         /\ \A v \in Workers \ {w} : at'[v] = at[v] /\ TxOf(v)' = TxOf(v)
BY DEF Types, Goto, TxOf

LEMMA Beginning ==
  ASSUME Types, NEW w \in InventoryWorkers, at[w] = "start", UNCHANGED <<held, stockVars>>,
         \/ Goto(w, "reserving") /\ OrderAt(w) \notin reservations
         \/ Goto(w, "releasing") /\ OrderAt(w) \in reservations
  PROVE  I!Next
<1> DEFINE tx == [v \in InventoryWorkers |-> TxOf(v)]
           op == IF Goto(w, "reserving") THEN "reserve" ELSE "release"
           new == [op |-> op, order |-> OrderAt(w)]
<1>1. w \in Workers /\ OrderAt(w) \in Orders /\ tx[w] = NoTx
  BY RunningParts, OpenTransaction DEF InventoryWorkers, InTransaction
<1>2. TxOf(w)' = new /\ \A v \in InventoryWorkers \ {w} : TxOf(v)' = TxOf(v)
  BY <1>1, Onward DEF TxOf, InventoryWorkers, OrderAt
<1>3. tx' = [tx EXCEPT ![w] = new]
  BY <1>2 DEF InventoryWorkers
<1>4. op = "reserve" => I!BeginReserve(w, OrderAt(w))
  <2>1. op = "reserve" => at'[w] = "reserving"
    BY <1>1, Onward
  <2>2. op = "reserve" => OrderAt(w) \notin reservations
    BY <1>1, <2>1, Onward
  <2> QED
    BY <1>1, <1>3, <2>2 DEF I!BeginReserve, I!Open, I!stockVars, stockVars
<1>5. op = "release" => I!BeginRelease(w, OrderAt(w))
  BY <1>1, <1>3 DEF I!BeginRelease, I!Open, I!stockVars, stockVars
<1> QED
  BY <1>1, <1>4, <1>5 DEF I!Next

\* A handler that leaves its transaction ends it as a step of Inventory does.
LEMMA Ending ==
  ASSUME Types, NEW w \in InventoryWorkers, NEW position, Goto(w, position), held' = held,
         InTransaction(w), position \notin {"reserving", "releasing"}
  PROVE  /\ I!Closed(w, IF at[w] = "reserving" THEN "reserve" ELSE "release")
         /\ [v \in InventoryWorkers |-> TxOf(v)][w] = TxOf(w)
         /\ TxOf(w).order = OrderAt(w)
<1> DEFINE tx == [v \in InventoryWorkers |-> TxOf(v)]
<1>1. w \in Workers /\ tx[w] = TxOf(w)
  BY DEF InventoryWorkers
<1>2. TxOf(w)' = NoTx /\ \A v \in InventoryWorkers \ {w} : TxOf(v)' = TxOf(v)
  BY <1>1, Onward DEF TxOf, InventoryWorkers
<1>3. tx' = [tx EXCEPT ![w] = NoTx]
  BY <1>2 DEF InventoryWorkers
<1> QED
  BY <1>1, <1>3, OpenTransaction DEF I!Closed, InTransaction

LEMMA ReserveFinishIsStep ==
  ASSUME Types, NEW w \in Workers, ReserveFinish(w)
  PROVE  I!Next
<1>1. /\ w \in InventoryWorkers /\ at[w] = "reserving" /\ InTransaction(w) /\ held' = held
  BY DEF ReserveFinish, At, InventoryWorkers, Service, InTransaction, consumerVars
<1>2. CASE I!Refused(OrderAt(w)) /\ Goto(w, "publishRefused") /\ UNCHANGED stockVars
  <2>1. I!RefuseReserve(w)
    BY <1>1, <1>2, Ending DEF I!RefuseReserve, I!stockVars, stockVars
  <2> QED
    BY <1>1, <2>1 DEF I!Next
<1>3. CASE /\ ~ I!Refused(OrderAt(w)) /\ OrderAt(w) \notin reservations
           /\ I!TakeStock(OrderAt(w)) /\ Goto(w, "publishReserved")
  <2>1. I!CommitReserve(w)
    BY <1>1, <1>3, Ending DEF I!CommitReserve
  <2> QED
    BY <1>1, <2>1 DEF I!Next
<1> QED
  BY <1>2, <1>3 DEF ReserveFinish

LEMMA ReleaseFinishIsStep ==
  ASSUME Types, NEW w \in Workers, ReleaseFinish(w)
  PROVE  I!Next
<1>1. /\ w \in InventoryWorkers /\ at[w] = "releasing" /\ InTransaction(w) /\ held' = held
  BY DEF ReleaseFinish, At, InventoryWorkers, Service, InTransaction, consumerVars
<1>2. I!CommitRelease(w)
  BY <1>1, Ending DEF ReleaseFinish, I!CommitRelease
<1> QED
  BY <1>1, <1>2 DEF I!Next

LEMMA ConflictIsStep ==
  ASSUME Types, NEW w \in Workers, TransactionConflict(w)
  PROVE  I!Next
<1>1. /\ w \in InventoryWorkers /\ InTransaction(w) /\ held' = held
      /\ Goto(w, "none") /\ UNCHANGED stockVars
  BY DEF TransactionConflict, ThrowFrom, At, InventoryWorkers, Service, InTransaction, C!Throw, C!Goto
<1>2. I!ConflictReserve(w) \/ I!ConflictRelease(w)
  BY <1>1, Ending DEF TransactionConflict, At, I!ConflictReserve, I!ConflictRelease,
     I!stockVars, stockVars
<1> QED
  BY <1>1, <1>2 DEF I!Next

\* Invocations that are cut off roll their transactions back.
LEMMA CutOffIsStep ==
  ASSUME Types, NEW W \in SUBSET Workers, UNCHANGED stockVars,
         at' = [w \in Workers |-> IF w \in W THEN "none" ELSE at[w]],
         \A w \in Workers \ W : held'[w] = held[w]
  PROVE  [I!Next]_I!vars
<1> DEFINE tx == [v \in InventoryWorkers |-> TxOf(v)]
           T  == W \intersect InventoryWorkers
<1>1. \A w \in Workers : TxOf(w)' = IF w \in W THEN NoTx ELSE TxOf(w)
  BY DEF TxOf
<1>2. tx' = [w \in InventoryWorkers |-> IF w \in T THEN NoTx ELSE tx[w]]
  BY <1>1 DEF InventoryWorkers
<1>3. CASE \E w \in T : tx[w] # NoTx
  <2>1. I!Rollback(T)
    BY <1>2, <1>3 DEF I!Rollback, I!stockVars, stockVars
  <2> QED
    BY <2>1 DEF I!Next
<1>4. CASE \A w \in T : tx[w] = NoTx
  <2>1. tx' = tx
    BY <1>2, <1>4
  <2> QED
    BY <2>1 DEF I!vars, I!stockVars, stockVars
<1> QED
  BY <1>3, <1>4

LEMMA HandlerStepIsInventoryStep ==
  ASSUME Types, NEW w \in Workers, HandlerStep(w)
  PROVE  [I!Next]_I!vars
<1>1. CASE ReserveLookup(w)
  <2>1. w \in InventoryWorkers /\ at[w] = "start" /\ UNCHANGED <<held, stockVars>>
    BY <1>1 DEF ReserveLookup, At, InventoryWorkers, Service, consumerVars
  <2>2. CASE OrderAt(w) \in reservations
    <3>1. Goto(w, "publishReserved")
      BY <1>1, <2>2 DEF ReserveLookup
    <3> QED
      BY <2>1, <3>1, Onward, NotForInventory DEF InTransaction
  <2>3. CASE OrderAt(w) \notin reservations
    <3>1. Goto(w, "reserving")
      BY <1>1, <2>3 DEF ReserveLookup
    <3> QED
      BY <2>1, <2>3, <3>1, Beginning
  <2> QED
    BY <2>2, <2>3
<1>2. CASE ReleaseLookup(w)
  <2>1. w \in InventoryWorkers /\ at[w] = "start" /\ UNCHANGED <<held, stockVars>>
    BY <1>2 DEF ReleaseLookup, At, InventoryWorkers, Service, consumerVars
  <2>2. CASE OrderAt(w) \in reservations
    <3>1. Goto(w, "releasing")
      BY <1>2, <2>2 DEF ReleaseLookup
    <3> QED
      BY <2>1, <2>2, <3>1, Beginning
  <2>3. CASE OrderAt(w) \notin reservations
    <3>1. Goto(w, "return")
      BY <1>2, <2>3 DEF ReleaseLookup
    <3> QED
      BY <2>1, <3>1, Onward, NotForInventory DEF InTransaction
  <2> QED
    BY <2>2, <2>3
<1>3. ASSUME ~ InTransaction(w), UNCHANGED <<held, stockVars>>,
             NEW p, p \notin {"reserving", "releasing"}, Goto(w, p)
      PROVE  UNCHANGED I!vars
  BY <1>3, Onward, NotForInventory DEF InTransaction
<1>4. CASE ApplyReservationFailed(w) \/ ApplyReserved(w) \/ SendMail(w)
  <2>1. at[w] = "start" /\ UNCHANGED <<held, stockVars>>
    BY <1>4 DEF ApplyReservationFailed, ApplyReserved, SendMail, At, consumerVars
  <2>2. \E p \in {"publishFailed", "publishConfirmed", "publishRelease", "return"} : Goto(w, p)
    BY <1>4 DEF ApplyReservationFailed, ApplyReserved, SendMail
  <2> QED
    BY <1>3, <2>1, <2>2 DEF InTransaction
<1>5. CASE \/ PublishReserved(w) \/ PublishRefused(w) \/ PublishConfirmed(w)
           \/ PublishRelease(w) \/ PublishFailed(w)
  <2>1. ~ InTransaction(w) /\ UNCHANGED <<held, stockVars>>
    BY <1>5 DEF PublishReserved, PublishRefused, PublishConfirmed, PublishRelease,
       PublishFailed, PublishStep, C!Publish, C!workerVars, InTransaction
  <2>2. \E p \in {"return", "publishFailed"} : Goto(w, p)
    BY <1>5 DEF PublishReserved, PublishRefused, PublishConfirmed, PublishRelease,
       PublishFailed, PublishStep
  <2> QED
    BY <1>3, <2>1, <2>2
<1> QED
  BY <1>1, <1>2, <1>4, <1>5, ReserveFinishIsStep, ReleaseFinishIsStep DEF HandlerStep

LEMMA StepIsInventoryStep ==
  ASSUME Types, [Next]_vars
  PROVE  [I!Next]_I!vars
<1>1. ASSUME UNCHANGED <<at, held, stockVars>>
      PROVE  UNCHANGED I!vars
  BY <1>1, NotForInventory
<1>2. CASE UNCHANGED vars
  BY <1>1, <1>2 DEF vars, consumerVars
<1>3. ASSUME NEW o \in Orders, CreateOrder(o) \/ RelayPublish(o)
      PROVE  [I!Next]_I!vars
  BY <1>1, <1>3 DEF CreateOrder, RelayPublish, C!Publish, C!workerVars, consumerVars
<1>4. ASSUME NEW R \in Batches, RelayMark(R) \/ RelayRollBack(R)
      PROVE  [I!Next]_I!vars
  BY <1>1, <1>4 DEF RelayMark, RelayRollBack, consumerVars
<1>5. ASSUME NEW m \in Message, NEW w \in Workers, Deliver(w, m)
      PROVE  [I!Next]_I!vars
  <2>1. CASE C!Receive(w, m) /\ Goto(w, "start")
    <3>1. pc[w] = "idle" /\ at'[w] = "start" /\ UNCHANGED stockVars
      BY <1>5, <2>1 DEF Deliver, C!Receive, C!CanDeliver, Goto, Types
    <3>2. \A v \in Workers \ {w} : at'[v] = at[v] /\ held'[v] = held[v]
      BY <2>1 DEF C!Receive, Goto, Types, CP!TypeOK
    <3>3. ~ InTransaction(w) /\ ~ InTransaction(w)'
      BY <3>1 DEF Types, InTransaction
    <3> QED
      BY <3>1, <3>2, <3>3, NotForInventory
  <2>2. CASE C!SkipDuplicate(w, m) /\ UNCHANGED at
    BY <1>1, <1>5, <2>2 DEF Deliver, C!SkipDuplicate, C!workerVars
  <2> QED
    BY <1>5, <2>1, <2>2 DEF Deliver
<1>6. ASSUME NEW w \in Workers, HandlerReturns(w)
      PROVE  [I!Next]_I!vars
  <2>1. /\ at[w] = "return" /\ Goto(w, "none") /\ UNCHANGED <<held, stockVars>>
    BY <1>6 DEF HandlerReturns, C!HandlerReturns, C!Goto
  <2> QED
    BY <2>1, Onward, NotForInventory DEF InTransaction
<1>7. ASSUME NEW w \in Workers, Throw(w)
      PROVE  [I!Next]_I!vars
  <2>1. /\ at' = [v \in Workers |-> IF v \in {w} THEN "none" ELSE at[v]]
        /\ UNCHANGED <<held, stockVars>>
    BY <1>7 DEF Throw, ThrowFrom, C!Throw, C!Goto, Goto, Types
  <2> QED
    BY <2>1, CutOffIsStep
<1>8. ASSUME NEW w \in Workers, Conclude(w)
      PROVE  [I!Next]_I!vars
  <2>1. /\ pc[w] # "running" /\ UNCHANGED <<at, stockVars>>
        /\ \A v \in Workers \ {w} : held'[v] = held[v]
    BY <1>8 DEF Conclude, C!MarkProcessed, C!Ack, C!Republish, C!Nack, C!Goto, C!Finish,
       Types, CP!TypeOK
  <2>2. ~ InTransaction(w) /\ ~ InTransaction(w)'
    BY <2>1 DEF Types, InTransaction
  <2> QED
    BY <2>1, <2>2, NotForInventory
<1>9. ASSUME NEW m \in Message, Expire(m)
      PROVE  [I!Next]_I!vars
  BY <1>1, <1>9 DEF Expire, C!Expire, C!workerVars
<1>10. ASSUME NEW p \in Processes, Crash(p)
       PROVE  [I!Next]_I!vars
  <2> DEFINE W == {w \in Workers : Process(w) = p}
  <2>1. /\ at' = [w \in Workers |-> IF w \in W THEN "none" ELSE at[w]]
        /\ \A w \in Workers \ W : held'[w] = held[w]
        /\ UNCHANGED stockVars
    BY <1>10, WorkerParts DEF Crash, C!Crash
  <2> QED
    BY <2>1, CutOffIsStep
<1>11. ASSUME NEW p \in Processes, ConnectionLost(p)
       PROVE  [I!Next]_I!vars
  BY <1>1, <1>11 DEF ConnectionLost, C!ConnectionLost
<1> QED
  BY <1>2, <1>3, <1>4, <1>5, <1>6, <1>7, <1>8, <1>9, <1>10, <1>11,
     HandlerStepIsInventoryStep, ConflictIsStep, NextCases DEF WorkerStep

LEMMA TypesAlways == Spec => []Types
BY TypesInit, TypesStep, PTL DEF Spec

\* Redelivered, duplicated and failing events included, the workers change the
\* stock by the transactions of Inventory only.
THEOREM StockMovesByTransactions == Spec => FollowsInventoryProtocol
<1>1. Init => I!Init
  <2> SUFFICES ASSUME Init
               PROVE  I!Init
    OBVIOUS
  <2>1. \A w \in InventoryWorkers : TxOf(w) = NoTx
    BY DEF Init, InventoryWorkers, TxOf
  <2> QED
    BY <2>1 DEF Init, I!Init
<1> QED
  BY <1>1, TypesAlways, StepIsInventoryStep, PTL DEF Spec, FollowsInventoryProtocol, I!Spec
-----------------------------------------------------------------------------
(* The books of the inventory, from InventoryProofs *)

LEMMA SameCounts ==
  ASSUME NEW S
  PROVE  I!Cardinality(S) = IP!Cardinality(S)
BY DEF I!Cardinality, IP!Cardinality

LEMMA SameUnits ==
  ASSUME NEW o, NEW s
  PROVE  /\ I!UnitsOf(o, s) = IP!UnitsOf(o, s)
         /\ I!Demand(o, s) = IP!Demand(o, s)
         /\ I!Returned(o, s) = IP!Returned(o, s)
<1>1. I!UnitsOf(o, s) = IP!UnitsOf(o, s)
  BY DEF I!UnitsOf, IP!UnitsOf, I!UnitsOfLine, IP!UnitsOfLine, I!LinesOf, IP!LinesOf
<1> QED
  BY <1>1, SameCounts DEF I!Demand, IP!Demand, I!Returned, IP!Returned

LEMMA SameInventory == I!Spec => IP!Spec
<1>1. I!Init => IP!Init
  BY DEF I!Init, IP!Init
<1>2. ASSUME NEW w \in InventoryWorkers
      PROVE  /\ I!CommitReserve(w) => IP!CommitReserve(w)
             /\ I!CommitRelease(w) => IP!CommitRelease(w)
  BY SameUnits DEF I!CommitReserve, IP!CommitReserve, I!CommitRelease, IP!CommitRelease,
     I!Closed, IP!Closed, I!TakeStock, IP!TakeStock, I!ReturnStock, IP!ReturnStock,
     I!Refused, IP!Refused, I!Unavailable, IP!Unavailable
<1>3. I!Next => IP!Next
  BY <1>2 DEF I!Next, IP!Next, I!BeginReserve, IP!BeginReserve, I!BeginRelease,
     IP!BeginRelease, I!Open, IP!Open, I!RefuseReserve, IP!RefuseReserve, I!ConflictReserve,
     IP!ConflictReserve, I!ConflictRelease, IP!ConflictRelease, I!Rollback, IP!Rollback,
     I!Closed, IP!Closed, I!Refused, IP!Refused, I!Unavailable, IP!Unavailable,
     I!stockVars, IP!stockVars
<1>4. UNCHANGED I!vars => UNCHANGED IP!vars
  BY DEF I!vars, IP!vars, I!stockVars, IP!stockVars
<1> QED
  BY <1>1, <1>3, <1>4, PTL DEF I!Spec, IP!Spec

LEMMA SameAssumption == IP!InventoryAssumption
BY SagaAssumption DEF I!InventoryAssumption, IP!InventoryAssumption, I!OpenTx, IP!OpenTx

LEMMA FollowsTheBooks == Spec => IP!Spec
BY StockMovesByTransactions, SameInventory DEF FollowsInventoryProtocol

\* The protocol's variables, the stock and the orders keep their types; among
\* the rest, no more stock is given back than is reserved.
THEOREM TypeCorrect == Spec => []TypeOK
<1>1. Spec => []IP!TypeOK
  BY FollowsTheBooks, SameAssumption, IP!TypeCorrect
<1>2. IP!TypeOK /\ Types => TypeOK
  BY SameProtocol DEF Types, TypeOK, I!TypeOK, IP!TypeOK, I!OpenTx, IP!OpenTx
<1> QED
  BY <1>1, <1>2, TypesAlways, PTL

\* However the events of an order are redelivered, duplicated, retried or cut
\* off, stock is not made or lost, what is reserved is what the reservations on
\* record ask for, and a SKU that no order names twice is not oversold.
THEOREM BooksBalance ==
  Spec => [](I!StockConserved /\ I!ReservedIsBacked /\ I!NoOversellOfDistinctLines)
<1>1. Spec => []IP!StockConserved /\ []IP!ReservedIsBacked /\ []IP!NoOversellOfDistinctLines
  BY FollowsTheBooks, SameAssumption, IP!StockIsConserved, IP!ReservationsBackStock,
     IP!DistinctLinesNeverOversell
<1>2. IP!StockConserved => I!StockConserved
  BY DEF I!StockConserved, IP!StockConserved
<1>3. IP!ReservedIsBacked => I!ReservedIsBacked
  BY SameUnits, SameCounts DEF I!ReservedIsBacked, IP!ReservedIsBacked, I!Held, IP!Held,
     I!UnitsOfAll, IP!UnitsOfAll
<1>4. IP!NoOversellOfDistinctLines => I!NoOversellOfDistinctLines
  BY DEF I!NoOversellOfDistinctLines, IP!NoOversellOfDistinctLines, I!Distinct, IP!Distinct
<1> QED
  BY <1>1, <1>2, <1>3, <1>4, PTL
-----------------------------------------------------------------------------
(* An order followed from event to event *)

\* The events that inventory-worker answers an order.created with.
Answers == {"inventory.reserved", "inventory.reservation.failed"}

Answered(o) == \E e \in Answers : published[<<e, o>>] > 0

\* A worker is only ever in the handler of the queue it consumes.
HandlerKeepsToItsQueue ==
  \A w \in Workers :
    /\ pc[w] # "idle" => BoundQueue(EventAt(w)) = w[1]
    /\ at[w] \in {"reserving", "publishReserved", "publishRefused"} => w[1] = "inventory.reserve"
    /\ at[w] = "releasing" => w[1] = "inventory.release"
    /\ at[w] \in {"publishRelease", "publishConfirmed", "publishFailed"} =>
         w[1] = "order.processing"

\* A PENDING order has its outbox row, a marked row its event.
OutboxBacksOrders ==
  \A o \in Orders :
    /\ order[o] = "PENDING" => outbox[o] # "none"
    /\ outbox[o] = "published" => published[<<"order.created", o>>] > 0

\* handleOrderCreated does not return before the answer is published.
ReservationsAnswered ==
  /\ \A w \in Workers :
       at[w] = "return" /\ EventAt(w) = "order.created" => Answered(OrderAt(w))
  /\ \A o \in Orders : <<"order.created", o>> \in handled => Answered(o)

\* The order worker does not publish, nor return, before the order is decided.
AnswersDecide ==
  /\ \A w \in Workers :
       w[1] = "order.processing" /\ at[w] \notin {"none", "start"} => order[OrderAt(w)] \in Final
  /\ \A o \in Orders, e \in Answers : <<e, o>> \in handled => order[o] \in Final

FlowInv ==
  /\ HandlerKeepsToItsQueue
  /\ OutboxBacksOrders
  /\ ReservationsAnswered
  /\ AnswersDecide

\* What a handler step leads to, queue by queue.
LEMMA HandlerMoves ==
  ASSUME Types, FlowInv, NEW w \in Workers, HandlerStep(w)
  PROVE  \/ /\ w[1] = "inventory.reserve"
            /\ at'[w] \in {"reserving", "publishReserved", "publishRefused", "return"}
            /\ at'[w] = "return" => Answered(OrderAt(w))'
         \/ w[1] = "inventory.release" /\ at'[w] \in {"releasing", "return"}
         \/ /\ w[1] = "order.processing"
            /\ at'[w] \in {"publishRelease", "publishConfirmed", "publishFailed", "return"}
            /\ order'[OrderAt(w)] \in Final
         \/ w[1] = "order.notifications" /\ at'[w] = "return"
<1>1. at[w] # "none" /\ OrderAt(w) \in Orders
  BY HandlerStepTypes, RunningParts
<1>2. CASE ReserveLookup(w) \/ ReserveFinish(w) \/ ReleaseLookup(w) \/ ReleaseFinish(w) \/ SendMail(w)
  BY <1>2 DEF ReserveLookup, ReserveFinish, ReleaseLookup, ReleaseFinish, SendMail, At, Goto, Types
<1>3. CASE ApplyReservationFailed(w) \/ ApplyReserved(w)
  BY <1>1, <1>3 DEF ApplyReservationFailed, ApplyReserved, At, Goto, SetStatus, Types, Final,
     D!ResolveOrderStatus
<1>4. CASE PublishReserved(w) \/ PublishRefused(w)
  <2>1. PICK e \in Answers : C!Publish(<<e, OrderAt(w)>>)
    BY <1>4 DEF PublishReserved, PublishRefused, PublishStep, Answers
  <2>2. <<e, OrderAt(w)>> \in Ids
    BY <1>1, <2>1, IdParts DEF Answers, EventTypes
  <2>3. published'[<<e, OrderAt(w)>>] > 0 /\ held' = held
    BY <2>1, <2>2 DEF C!Publish, C!workerVars, Types, CP!TypeOK
  <2>4. at'[w] = "return" /\ w[1] = "inventory.reserve"
    BY <1>4 DEF PublishReserved, PublishRefused, PublishStep, Goto, Types, FlowInv,
       HandlerKeepsToItsQueue
  <2> QED
    BY <2>1, <2>3, <2>4 DEF Answered, OrderAt
<1>5. CASE PublishConfirmed(w) \/ PublishRelease(w) \/ PublishFailed(w)
  BY <1>5 DEF PublishConfirmed, PublishRelease, PublishFailed, PublishStep, Goto, Types, FlowInv,
     HandlerKeepsToItsQueue, AnswersDecide
<1> QED
  BY <1>2, <1>3, <1>4, <1>5 DEF HandlerStep

\* What a step does to one worker.
LEMMA WorkerMoves ==
  ASSUME Types, [Next]_vars, NEW w \in Workers
  PROVE  \/ pc'[w] = "idle" /\ at'[w] = "none"
         \/ /\ pc[w] # "idle" /\ held'[w] = held[w]
            /\ at'[w] \in {at[w], "none"}
         \/ HandlerStep(w) /\ held'[w] = held[w]
         \/ at'[w] = "start" /\ \E m \in Message : Deliver(w, m) /\ C!Receive(w, m)
<1> DEFINE G == \/ pc'[w] = "idle" /\ at'[w] = "none"
                \/ /\ pc[w] # "idle" /\ held'[w] = held[w]
                   /\ at'[w] \in {at[w], "none"}
                \/ HandlerStep(w) /\ held'[w] = held[w]
                \/ at'[w] = "start" /\ \E m \in Message : Deliver(w, m) /\ C!Receive(w, m)
<1>1. ASSUME pc'[w] = pc[w], held'[w] = held[w], at'[w] = at[w]
      PROVE  G
  BY <1>1 DEF Types
<1>2. CASE UNCHANGED vars
  BY <1>1, <1>2 DEF vars, consumerVars
<1>3. ASSUME NEW o \in Orders, CreateOrder(o) \/ RelayPublish(o)
      PROVE  G
  BY <1>1, <1>3 DEF CreateOrder, RelayPublish, C!Publish, C!workerVars, consumerVars
<1>4. ASSUME NEW R \in Batches, RelayMark(R) \/ RelayRollBack(R)
      PROVE  G
  BY <1>1, <1>4 DEF RelayMark, RelayRollBack, consumerVars
<1>5. ASSUME NEW m \in Message, NEW v \in Workers, Deliver(v, m)
      PROVE  G
  <2>1. CASE C!Receive(v, m) /\ Goto(v, "start")
    <3>1. v # w => pc'[w] = pc[w] /\ held'[w] = held[w] /\ at'[w] = at[w]
      BY <2>1 DEF C!Receive, Goto, Types, CP!TypeOK
    <3>2. v = w => at'[w] = "start"
      BY <2>1 DEF Goto, Types
    <3> QED
      BY <1>1, <1>5, <2>1, <3>1, <3>2
  <2>2. CASE C!SkipDuplicate(v, m) /\ UNCHANGED at
    BY <1>1, <2>2 DEF C!SkipDuplicate, C!workerVars
  <2> QED
    BY <1>5, <2>1, <2>2 DEF Deliver
<1>6. ASSUME NEW v \in Workers, HandlerStep(v)
      PROVE  G
  BY <1>1, <1>6, HandlerStepTypes DEF Types
<1>7. ASSUME NEW v \in Workers, HandlerReturns(v) \/ TransactionConflict(v) \/ Throw(v)
      PROVE  G
  <2>1. /\ pc[v] # "idle" /\ held' = held /\ at' = [at EXCEPT ![v] = "none"]
        /\ \E x \in {"done", "failed"} : pc' = [pc EXCEPT ![v] = x]
    BY <1>7 DEF HandlerReturns, TransactionConflict, Throw, ThrowFrom, C!HandlerReturns,
       C!Throw, C!Goto, Goto
  <2> QED
    BY <1>1, <2>1 DEF Types, CP!TypeOK
<1>8. ASSUME NEW v \in Workers, Conclude(v)
      PROVE  G
  <2>1. /\ at' = at
        /\ v # w => pc'[w] = pc[w] /\ held'[w] = held[w]
        /\ pc[v] \notin {"idle", "running"}
        /\ pc'[v] = "idle" \/ held'[v] = held[v]
    BY <1>8 DEF Conclude, C!MarkProcessed, C!Ack, C!Republish, C!Nack, C!Goto, C!Finish,
       Types, CP!TypeOK
  <2> QED
    BY <1>1, <2>1 DEF Types
<1>9. ASSUME NEW m \in Message, Expire(m)
      PROVE  G
  BY <1>1, <1>9 DEF Expire, C!Expire, C!workerVars
<1>10. ASSUME NEW p \in Processes, Crash(p)
       PROVE  G
  <2>1. CASE Process(w) = p
    BY <1>10, <2>1, WorkerParts DEF Crash, C!Crash
  <2>2. CASE Process(w) # p
    BY <1>1, <1>10, <2>2, WorkerParts DEF Crash, C!Crash
  <2> QED
    BY <2>1, <2>2
<1>11. ASSUME NEW p \in Processes, ConnectionLost(p)
       PROVE  G
  BY <1>1, <1>11 DEF ConnectionLost, C!ConnectionLost
<1>12. ASSUME NEW v \in Workers, WorkerStep(v) \/ Throw(v)
       PROVE  G
  BY <1>6, <1>7, <1>8, <1>12 DEF WorkerStep
<1>13. G
  BY <1>2, <1>3, <1>4, <1>5, <1>9, <1>10, <1>11, <1>12, NextCases
<1> QED
  BY <1>13 DEF G

\* What a step does to the history and to the orders.
LEMMA GlobalMoves ==
  ASSUME Types, [Next]_vars
  PROVE  /\ \A id \in Ids : published[id] > 0 => published'[id] > 0
         /\ \A id \in handled' : id \in handled \/ \E w \in Workers :
              at[w] = "return" /\ held[w].id = id
         /\ \A o \in Orders : order[o] \in Final => order'[o] \in Final
         /\ OutboxBacksOrders => OutboxBacksOrders'
<1> DEFINE Published == \A id \in Ids : published[id] > 0 => published'[id] > 0
           Handled == \A id \in handled' : id \in handled \/ \E w \in Workers :
                        at[w] = "return" /\ held[w].id = id
           Orderly == \A o \in Orders : order[o] \in Final => order'[o] \in Final
           Backed == OutboxBacksOrders => OutboxBacksOrders'
           G == Published /\ Handled /\ Orderly /\ Backed
<1>1. ASSUME \/ UNCHANGED published
             \/ \E id \in Ids : C!Publish(id)
      PROVE  Published
  BY <1>1 DEF C!Publish, Types, CP!TypeOK
<1>2. ASSUME Published, UNCHANGED <<handled, outbox>>,
             \A o \in Orders : order'[o] \in Final \/ order'[o] = order[o]
      PROVE  G
  <2>1. OutboxBacksOrders => OutboxBacksOrders'
    BY <1>2, IdParts DEF OutboxBacksOrders, Final, EventTypes
  <2> QED
    BY <1>2, <2>1
<1>3. CASE UNCHANGED vars
  BY <1>1, <1>2, <1>3 DEF vars, consumerVars
<1>4. ASSUME NEW o \in Orders, CreateOrder(o)
      PROVE  G
  <2>1. UNCHANGED <<published, handled>>
    BY <1>4 DEF CreateOrder, consumerVars
  <2>2. order[o] = "none" /\ outbox' = [outbox EXCEPT ![o] = "unpublished"]
        /\ order' = [order EXCEPT ![o] = "PENDING"]
    BY <1>4 DEF CreateOrder, O!Write
  <2> QED
    BY <2>1, <2>2 DEF OutboxBacksOrders, Types, Final
<1>5. ASSUME NEW o \in Orders, RelayPublish(o)
      PROVE  G
  <2>1. C!Publish(<<"order.created", o>>) /\ <<"order.created", o>> \in Ids
        /\ UNCHANGED <<handled, outbox, order>>
    BY <1>5, IdParts DEF RelayPublish, O!Publish, C!Publish, EventTypes
  <2>2. Published
    BY <1>1, <2>1
  <2> QED
    BY <1>2, <2>1, <2>2
<1>6. ASSUME NEW R \in Batches, RelayMark(R) \/ RelayRollBack(R)
      PROVE  G
  <2>1. UNCHANGED <<published, handled, order>>
    BY <1>6 DEF RelayMark, RelayRollBack, consumerVars
  <2>2. CASE RelayRollBack(R)
    BY <1>1, <1>2, <2>1, <2>2 DEF RelayRollBack, O!RollBack
  <2>3. CASE RelayMark(R)
    <3>1. /\ outbox' = [o \in Orders |-> IF o \in R THEN "published" ELSE outbox[o]]
          /\ \A o \in R : published[<<"order.created", o>>] > 0
      BY <2>3 DEF RelayMark, O!Mark, Batches, O!Unpublished
    <3> QED
      BY <2>1, <3>1 DEF OutboxBacksOrders
  <2> QED
    BY <1>6, <2>2, <2>3
<1>7. ASSUME NEW m \in Message, NEW w \in Workers, Deliver(w, m)
      PROVE  G
  BY <1>1, <1>2, <1>7 DEF Deliver, C!Receive, C!SkipDuplicate, C!historyVars
<1>8. ASSUME NEW w \in Workers, HandlerStep(w)
      PROVE  G
  <2>1. UNCHANGED <<handled, outbox>>
    BY <1>8, HandlerStepTypes
  <2>2. \A o \in Orders : order'[o] \in Final \/ order'[o] = order[o]
    <3>1. CASE ApplyReservationFailed(w) \/ ApplyReserved(w)
      BY <3>1 DEF ApplyReservationFailed, ApplyReserved, SetStatus, Types, Final,
         D!ResolveOrderStatus
    <3>2. CASE ~ (ApplyReservationFailed(w) \/ ApplyReserved(w))
      BY <1>8, <3>2 DEF HandlerStep, ReserveLookup, ReserveFinish, ReleaseLookup, ReleaseFinish,
         PublishReserved, PublishRefused, PublishConfirmed, PublishRelease, PublishFailed,
         PublishStep, SendMail
    <3> QED
      BY <3>1, <3>2
  <2>3. Published
    <3>1. UNCHANGED consumerVars \/ \E id \in Ids : CP!Publish(id)
      BY <1>8, HandlerStepIsStep
    <3> QED
      BY <3>1 DEF consumerVars, CP!Publish, Types, CP!TypeOK
  <2> QED
    BY <1>2, <2>1, <2>2, <2>3
<1>9. ASSUME NEW w \in Workers, HandlerReturns(w)
      PROVE  G
  <2>1. /\ at[w] = "return" /\ handled' = handled \union {held[w].id}
        /\ UNCHANGED <<published, outbox, order>>
    BY <1>9 DEF HandlerReturns, C!HandlerReturns
  <2> QED
    BY <2>1 DEF OutboxBacksOrders
<1>10. ASSUME NEW w \in Workers, TransactionConflict(w) \/ Throw(w) \/ Conclude(w)
       PROVE  G
  <2>1. UNCHANGED <<published, handled, outbox, order>>
    BY <1>10 DEF TransactionConflict, Throw, ThrowFrom, Conclude, C!Throw, C!MarkProcessed, C!Ack,
       C!Republish, C!Nack, C!historyVars
  <2> QED
    BY <1>1, <1>2, <2>1
<1>11. ASSUME NEW m \in Message, Expire(m)
       PROVE  G
  BY <1>1, <1>2, <1>11 DEF Expire, C!Expire, C!historyVars
<1>12. ASSUME NEW p \in Processes, Crash(p) \/ ConnectionLost(p)
       PROVE  G
  BY <1>1, <1>2, <1>12 DEF Crash, ConnectionLost, C!Crash, C!ConnectionLost, C!historyVars
<1>13. ASSUME NEW w \in Workers, WorkerStep(w) \/ Throw(w)
       PROVE  G
  BY <1>8, <1>9, <1>10, <1>13 DEF WorkerStep
<1>14. G
  BY <1>3, <1>4, <1>5, <1>6, <1>7, <1>11, <1>12, <1>13, NextCases
<1> QED
  BY <1>14 DEF G

LEMMA FlowStep ==
  ASSUME Types, FlowInv, [Next]_vars
  PROVE  FlowInv'
<1>1. \A o \in Orders : Answered(o) => Answered(o)'
  BY GlobalMoves, IdParts DEF Answered, Answers, EventTypes
<1>2. ASSUME NEW w \in Workers
      PROVE  \/ pc'[w] = "idle" /\ at'[w] = "none"
             \/ /\ pc[w] # "idle" /\ held'[w] = held[w]
                /\ at'[w] \in {at[w], "none"}
             \/ HandlerStep(w) /\ held'[w] = held[w]
             \/ at'[w] = "start" /\ \E m \in Message : C!Receive(w, m)
  BY WorkerMoves
<1>3. HandlerKeepsToItsQueue'
  <2> SUFFICES ASSUME NEW w \in Workers
               PROVE  /\ pc'[w] # "idle" => BoundQueue(Event(held'[w].id)) = w[1]
                      /\ at'[w] \in {"reserving", "publishReserved", "publishRefused"} =>
                           w[1] = "inventory.reserve"
                      /\ at'[w] = "releasing" => w[1] = "inventory.release"
                      /\ at'[w] \in {"publishRelease", "publishConfirmed", "publishFailed"} =>
                           w[1] = "order.processing"
    BY DEF HandlerKeepsToItsQueue, EventAt
  <2>1. CASE pc'[w] = "idle" /\ at'[w] = "none"
    BY <2>1
  <2>2. CASE pc[w] # "idle" /\ held'[w] = held[w] /\ at'[w] \in {at[w], "none"}
    BY <2>2 DEF FlowInv, HandlerKeepsToItsQueue, EventAt
  <2>3. CASE HandlerStep(w) /\ held'[w] = held[w]
    <3>1. pc[w] # "idle"
      BY <2>3, HandlerStepTypes, RunningParts
    <3>2. BoundQueue(Event(held'[w].id)) = w[1]
      BY <2>3, <3>1 DEF FlowInv, HandlerKeepsToItsQueue, EventAt
    <3> QED
      BY <2>3, <3>2, HandlerMoves
  <2>4. CASE at'[w] = "start" /\ \E m \in Message : C!Receive(w, m)
    <3>1. PICK m \in Message : C!Receive(w, m)
      BY <2>4
    <3>2. held'[w] = m /\ w[1] = QueueOf[m.id] /\ m.id \in Ids
      BY <3>1, WorkerParts, SameProtocol DEF C!Receive, C!CanDeliver, Types, CP!TypeOK, CP!Message
    <3>3. QueueOf[m.id] = BoundQueue(Event(m.id))
      BY <3>2 DEF QueueOf
    <3> QED
      BY <2>4, <3>2, <3>3
  <2> QED
    BY <1>2, <2>1, <2>2, <2>3, <2>4
<1>4. OutboxBacksOrders'
  BY GlobalMoves DEF FlowInv
<1>5. ReservationsAnswered'
  <2>1. ASSUME NEW w \in Workers, at'[w] = "return", EventAt(w)' = "order.created"
        PROVE  Answered(OrderAt(w))'
    <3>1. CASE pc[w] # "idle" /\ held'[w] = held[w] /\ at'[w] \in {at[w], "none"}
      <4>1. at[w] = "return" /\ EventAt(w) = "order.created" /\ OrderAt(w)' = OrderAt(w)
        BY <2>1, <3>1 DEF EventAt, OrderAt
      <4>2. Answered(OrderAt(w)) /\ OrderAt(w) \in Orders
        BY <4>1, RunningParts DEF FlowInv, ReservationsAnswered
      <4> QED
        BY <1>1, <4>1, <4>2 DEF Answered
    <3>2. CASE HandlerStep(w) /\ held'[w] = held[w]
      <4>1. pc[w] # "idle" /\ EventAt(w) = "order.created"
        BY <2>1, <3>2, HandlerStepTypes, RunningParts DEF EventAt
      <4>2. w[1] = "inventory.reserve"
        BY <4>1, Routing DEF FlowInv, HandlerKeepsToItsQueue
      <4> QED
        BY <2>1, <3>2, <4>2, HandlerMoves
    <3> QED
      BY <1>2, <2>1, <3>1, <3>2
  <2>2. ASSUME NEW o \in Orders, <<"order.created", o>> \in handled'
        PROVE  Answered(o)'
    <3>1. CASE <<"order.created", o>> \in handled
      BY <1>1, <3>1 DEF FlowInv, ReservationsAnswered
    <3>2. ASSUME NEW w \in Workers, at[w] = "return", held[w].id = <<"order.created", o>>
          PROVE  Answered(o)'
      <4>1. EventAt(w) = "order.created" /\ OrderAt(w) = o
        BY <3>2 DEF EventAt, OrderAt, Event, OrderOf
      <4> QED
        BY <1>1, <3>2, <4>1 DEF FlowInv, ReservationsAnswered
    <3> QED
      BY <2>2, <3>1, <3>2, GlobalMoves
  <2> QED
    BY <2>1, <2>2 DEF ReservationsAnswered
<1>6. AnswersDecide'
  <2>1. ASSUME NEW w \in Workers, w[1] = "order.processing", at'[w] \notin {"none", "start"}
        PROVE  order'[OrderAt(w)'] \in Final
    <3>1. CASE pc[w] # "idle" /\ held'[w] = held[w] /\ at'[w] \in {at[w], "none"}
      <4>1. OrderAt(w)' = OrderAt(w) /\ OrderAt(w) \in Orders /\ order[OrderAt(w)] \in Final
        BY <2>1, <3>1, RunningParts DEF OrderAt, FlowInv, AnswersDecide
      <4> QED
        BY <4>1, GlobalMoves
    <3>2. CASE HandlerStep(w) /\ held'[w] = held[w]
      BY <2>1, <3>2, HandlerMoves DEF OrderAt
    <3> QED
      BY <1>2, <2>1, <3>1, <3>2
  <2>2. ASSUME NEW o \in Orders, NEW e \in Answers, <<e, o>> \in handled'
        PROVE  order'[o] \in Final
    <3>1. CASE <<e, o>> \in handled
      BY <3>1, GlobalMoves DEF FlowInv, AnswersDecide
    <3>2. ASSUME NEW w \in Workers, at[w] = "return", held[w].id = <<e, o>>
          PROVE  order'[o] \in Final
      <4>1. EventAt(w) = e /\ OrderAt(w) = o /\ pc[w] # "idle"
        BY <3>2, RunningParts DEF EventAt, OrderAt, Event, OrderOf
      <4>2. w[1] = "order.processing"
        BY <4>1, Routing DEF FlowInv, HandlerKeepsToItsQueue, Answers
      <4>3. order[o] \in Final
        BY <3>2, <4>1, <4>2 DEF FlowInv, AnswersDecide
      <4> QED
        BY <4>3, GlobalMoves
    <3> QED
      BY <2>2, <3>1, <3>2, GlobalMoves
  <2> QED
    BY <2>1, <2>2 DEF AnswersDecide
<1> QED
  BY <1>3, <1>4, <1>5, <1>6 DEF FlowInv

LEMMA FlowInit == Init => FlowInv
BY DEF Init, C!Init, FlowInv, HandlerKeepsToItsQueue, OutboxBacksOrders, ReservationsAnswered,
   AnswersDecide

ProtocolInv == CP!LossInv /\ CP!ClaimInv /\ CP!RetryInv /\ CP!CopiesWerePublished

DriveInv == Types /\ ProtocolInv /\ FlowInv

LEMMA DriveInvariance == Spec => []DriveInv
<1>1. Init => DriveInv
  <2>1. Init => CP!Init
    BY DEF Init, C!Init, CP!Init, C!Message, CP!Message
  <2> QED
    BY <2>1, ConsumerIsSound, CP!LossInit, CP!ClaimInit, CP!RetryInit, CP!PublishedInit,
       TypesInit, FlowInit DEF DriveInv, ProtocolInv
<1>2. DriveInv /\ [Next]_vars => DriveInv'
  <2> SUFFICES ASSUME DriveInv, [Next]_vars
               PROVE  DriveInv'
    OBVIOUS
  <2>1. CP!TypeOK /\ CP!ProtocolStep
    BY StepIsProtocolStep DEF DriveInv, Types
  <2>2. CP!LossInv'
    BY <2>1, ConsumerIsSound, CP!LossStep DEF DriveInv, ProtocolInv
  <2>3. CP!ClaimInv'
    BY <2>1, ConsumerIsSound, CP!ClaimStep DEF DriveInv, ProtocolInv
  <2>4. CP!RetryInv'
    BY <2>1, ConsumerIsSound, CP!RetryStep DEF DriveInv, ProtocolInv
  <2>5. CP!CopiesWerePublished'
    BY <2>1, ConsumerIsSound, CP!PublishedStep DEF DriveInv, ProtocolInv
  <2> QED
    BY <2>2, <2>3, <2>4, <2>5, TypesStep, FlowStep DEF DriveInv, ProtocolInv
<1> QED
  BY <1>1, <1>2, PTL DEF Spec

\* An event the broker accepted and nobody claimed is under way.
LEMMA Unclaimed ==
  ASSUME DriveInv, NEW id \in Ids, published[id] > 0, id \notin processed
  PROVE  C!InBroker(id) \/ id \in dead
<1>1. CP!InBroker(id) \/ CP!Settled(id)
  BY DEF DriveInv, ProtocolInv, CP!LossInv, CP!NoMessageLost, CP!Accepted
<1>2. CP!Settled(id) => id \in dead
  BY DEF CP!Settled, Malformed
<1>3. CP!InBroker(id) => C!InBroker(id)
  BY DEF CP!InBroker, C!InBroker, CP!Message, C!Message, CP!Unacked, C!Unacked
<1> QED
  BY <1>1, <1>2, <1>3

\* Even more so when no handler has dealt with it.
LEMMA UnderWay ==
  ASSUME DriveInv, NEW id \in Ids, published[id] > 0, id \notin handled
  PROVE  C!InBroker(id) \/ id \in dead
BY Unclaimed DEF DriveInv, ProtocolInv, CP!ClaimInv, CP!ClaimAfterHandling

\* A PENDING order waits in the outbox, or an event that will decide it is in the
\* broker or in a dead letter queue: whatever crashed, failed or came twice.
THEOREM PendingOrdersAreDriven == Spec => []PendingIsDriven
<1>1. ASSUME DriveInv
      PROVE  PendingIsDriven
  <2> SUFFICES ASSUME NEW o \in Orders, order[o] = "PENDING", outbox[o] # "unpublished"
               PROVE  Driven(Deciding, o)
    BY DEF PendingIsDriven
  <2>1. /\ <<"order.created", o>> \in Ids
        /\ \A e \in Answers : e \in Deciding /\ <<e, o>> \in Ids
    BY IdParts DEF EventTypes, Answers, Deciding
  <2>2. published[<<"order.created", o>>] > 0
    BY <1>1 DEF DriveInv, FlowInv, OutboxBacksOrders, Types
  <2>3. CASE <<"order.created", o>> \notin handled
    BY <1>1, <2>1, <2>2, <2>3, UnderWay DEF Driven, Deciding
  <2>4. CASE <<"order.created", o>> \in handled
    <3>1. PICK e \in Answers : published[<<e, o>>] > 0
      BY <1>1, <2>4 DEF DriveInv, FlowInv, ReservationsAnswered, Answered
    <3>2. <<e, o>> \notin handled
      BY <1>1 DEF DriveInv, FlowInv, AnswersDecide, Final
    <3> QED
      BY <1>1, <2>1, <3>1, <3>2, UnderWay DEF Driven
  <2> QED
    BY <2>3, <2>4
<1> QED
  BY <1>1, DriveInvariance, PTL
-----------------------------------------------------------------------------
(* The mails of an order *)

MailId(o, f) == <<Announcement(f), o>>

LEMMA MailParts ==
  ASSUME NEW o \in Orders, NEW f \in Final
  PROVE  /\ MailId(o, f) \in Ids
         /\ QueueOf[MailId(o, f)] = "order.notifications"
         /\ BoundQueue(Event(MailId(o, f))) = "order.notifications"
         /\ \A id \in Ids : Event(id) = Announcement(f) /\ OrderOf(id) = o => id = MailId(o, f)
         /\ \A p \in Orders, g \in Final : MailId(p, g) = MailId(o, f) => p = o /\ g = f
<1>1. MailId(o, f) \in Ids /\ Event(MailId(o, f)) \in {"order.confirmed", "order.failed"}
  BY IdParts DEF MailId, Announcement, EventTypes, Event, Final
<1>2. BoundQueue(Event(MailId(o, f))) = "order.notifications"
  BY <1>1, Routing
<1>3. QueueOf[MailId(o, f)] = "order.notifications"
  BY <1>1, <1>2 DEF QueueOf
<1>4. \A id \in Ids : Event(id) = Announcement(f) /\ OrderOf(id) = o => id = MailId(o, f)
  BY IdParts DEF MailId
<1>5. \A p \in Orders, g \in Final : MailId(p, g) = MailId(o, f) => p = o /\ g = f
  BY DEF MailId, Announcement, Final
<1> QED
  BY <1>1, <1>2, <1>3, <1>4, <1>5

\* Handlers that were called for id and have not sent its mail yet.
Unsent(id) == {w \in Workers : at[w] = "start" /\ held[w].id = id}

\* The delivery of id that is worth its own mail: it was claimed, or the broker
\* still waits for its acknowledgement and it has not thrown.
Sending(id) ==
  \/ id \in processed
  \/ \E w \in Workers : C!Unacked(w) /\ pc[w] \in {"running", "done"} /\ held[w].id = id

\* Mails sent and mails that handlers may still send are paid for by failed
\* deliveries or such as were cut off, but for that of one delivery.
Paid(o, f) ==
  /\ IsFiniteSet(Unsent(MailId(o, f)))
  /\ mails[o][f] + Cardinality(Unsent(MailId(o, f))) <=
       failures[MailId(o, f)] + cutOff[MailId(o, f)] + (IF Sending(MailId(o, f)) THEN 1 ELSE 0)

MailLedger == \A o \in Orders, f \in Final : Paid(o, f)

\* One notification worker, as deployed; it may have several invocations open.
OneMailer == \E r : Replicas["notification-worker"] = {r}

\* The books after a step that sends no such mail and calls no handler for it.
LEMMA PaidStays ==
  ASSUME Types, Types', NEW o \in Orders, NEW f \in Final, Paid(o, f),
         mails'[o][f] = mails[o][f],
         Unsent(MailId(o, f))' \subseteq Unsent(MailId(o, f)),
         failures'[MailId(o, f)] >= failures[MailId(o, f)],
         cutOff'[MailId(o, f)] >= cutOff[MailId(o, f)],
         Sending(MailId(o, f)) =>
           \/ Sending(MailId(o, f))'
           \/ failures'[MailId(o, f)] > failures[MailId(o, f)]
           \/ cutOff'[MailId(o, f)] > cutOff[MailId(o, f)]
  PROVE  Paid(o, f)'
<1> DEFINE id == MailId(o, f)
<1>1. /\ IsFiniteSet(Unsent(id)')
      /\ Cardinality(Unsent(id)') <= Cardinality(Unsent(id))
      /\ Cardinality(Unsent(id)) \in Nat /\ Cardinality(Unsent(id)') \in Nat
  BY FS_Subset, FS_CardinalityType DEF Paid
<1>2. /\ mails[o][f] \in Nat /\ failures[id] \in Nat /\ failures'[id] \in Nat
      /\ cutOff[id] \in Nat /\ cutOff'[id] \in Nat
  BY MailParts DEF Types
<1>3. mails[o][f] + Cardinality(Unsent(id)) <=
        failures[id] + cutOff[id] + (IF Sending(id) THEN 1 ELSE 0)
  BY DEF Paid
<1>4. id' = id
  BY DEF MailId, Announcement
<1> HIDE DEF id
<1>5. mails'[o][f] + Cardinality(Unsent(id)') <=
        failures'[id] + cutOff'[id] + (IF Sending(id)' THEN 1 ELSE 0)
  BY <1>1, <1>2, <1>3 DEF id
<1> QED
  BY <1>1, <1>4, <1>5 DEF Paid, id

LEMMA CostsGrow ==
  ASSUME Types, [Next]_vars, NEW id \in Ids
  PROVE  failures'[id] >= failures[id] /\ cutOff'[id] >= cutOff[id]
<1> DEFINE G == failures'[id] >= failures[id] /\ cutOff'[id] >= cutOff[id]
<1>1. failures[id] \in Nat /\ cutOff[id] \in Nat
  BY DEF Types
<1>2. ASSUME failures' = failures, cutOff' = cutOff
      PROVE  G
  BY <1>1, <1>2
<1>3. CASE UNCHANGED vars
  BY <1>2, <1>3 DEF vars, consumerVars
<1>4. ASSUME NEW o \in Orders, CreateOrder(o) \/ RelayPublish(o)
      PROVE  G
  BY <1>2, <1>4 DEF CreateOrder, RelayPublish, C!Publish, consumerVars
<1>5. ASSUME NEW R \in Batches, RelayMark(R) \/ RelayRollBack(R)
      PROVE  G
  BY <1>2, <1>5 DEF RelayMark, RelayRollBack, consumerVars
<1>6. ASSUME NEW m \in Message, NEW w \in Workers, Deliver(w, m)
      PROVE  G
  BY <1>2, <1>6 DEF Deliver, C!Receive, C!SkipDuplicate
<1>7. ASSUME NEW w \in Workers, HandlerStep(w)
      PROVE  G
  BY <1>2, <1>7, HandlerStepTypes
<1>8. ASSUME NEW w \in Workers, HandlerReturns(w) \/ Conclude(w)
      PROVE  G
  BY <1>2, <1>8 DEF HandlerReturns, Conclude, C!HandlerReturns, C!MarkProcessed, C!Ack,
     C!Republish, C!Nack
<1>9. ASSUME NEW w \in Workers, TransactionConflict(w) \/ Throw(w)
      PROVE  G
  BY <1>1, <1>9 DEF TransactionConflict, Throw, ThrowFrom, C!Throw, Types
<1>10. ASSUME NEW m \in Message, Expire(m)
       PROVE  G
  BY <1>2, <1>10 DEF Expire, C!Expire
<1>11. ASSUME NEW p \in Processes, Crash(p) \/ ConnectionLost(p)
       PROVE  G
  BY <1>1, <1>11 DEF Crash, ConnectionLost, CutOff, Types
<1> QED
  BY <1>3, <1>4, <1>5, <1>6, <1>7, <1>8, <1>9, <1>10, <1>11, NextCases DEF WorkerStep

\* A delivery stops being worth its mail only when it throws or is cut off.
LEMMA SendingStays ==
  ASSUME Types, [Next]_vars, NEW id \in Ids, Sending(id)
  PROVE  Sending(id)' \/ failures'[id] > failures[id] \/ cutOff'[id] > cutOff[id]
<1> DEFINE G == Sending(id)' \/ failures'[id] > failures[id] \/ cutOff'[id] > cutOff[id]
<1>1. ASSUME UNCHANGED <<processed, pc, held, stale>>
      PROVE  G
  BY <1>1 DEF Sending, C!Unacked
<1>2. ASSUME processed \subseteq processed', NEW w \in Workers,
             pc' = [pc EXCEPT ![w] = pc'[w]],
             \A v \in Workers \ {w} : held'[v] = held[v] /\ (v \notin stale => v \notin stale'),
             \/ pc[w] \notin {"running", "done"}
             \/ held[w].id \in processed'
             \/ pc'[w] \in {"running", "done"} /\ held' = held /\ stale' = stale
      PROVE  G
  BY <1>2 DEF Sending, C!Unacked, Types, CP!TypeOK
<1>3. CASE UNCHANGED vars
  BY <1>1, <1>3 DEF vars, consumerVars
<1>4. ASSUME NEW o \in Orders, CreateOrder(o) \/ RelayPublish(o)
      PROVE  G
  BY <1>1, <1>4 DEF CreateOrder, RelayPublish, C!Publish, C!workerVars, consumerVars
<1>5. ASSUME NEW R \in Batches, RelayMark(R) \/ RelayRollBack(R)
      PROVE  G
  BY <1>1, <1>5 DEF RelayMark, RelayRollBack, consumerVars
<1>6. ASSUME NEW m \in Message, NEW w \in Workers, Deliver(w, m)
      PROVE  G
  <2>1. CASE C!Receive(w, m)
    BY <1>2, <2>1 DEF C!Receive, C!CanDeliver, Types, CP!TypeOK
  <2>2. CASE C!SkipDuplicate(w, m)
    BY <1>1, <2>2 DEF C!SkipDuplicate, C!workerVars
  <2> QED
    BY <1>6, <2>1, <2>2 DEF Deliver
<1>7. ASSUME NEW w \in Workers, HandlerStep(w)
      PROVE  G
  BY <1>1, <1>7, HandlerStepIsStep DEF consumerVars, CP!Publish, CP!workerVars
<1>8. ASSUME NEW w \in Workers, HandlerReturns(w)
      PROVE  G
  BY <1>2, <1>8 DEF HandlerReturns, C!HandlerReturns, C!Goto, Types, CP!TypeOK
<1>9. ASSUME NEW w \in Workers, Conclude(w)
      PROVE  G
  BY <1>2, <1>9 DEF Conclude, C!MarkProcessed, C!Ack, C!Republish, C!Nack, C!Goto, C!Finish,
     Types, CP!TypeOK
<1>10. ASSUME NEW w \in Workers, TransactionConflict(w) \/ Throw(w)
       PROVE  G
  <2>1. /\ failures' = [failures EXCEPT ![held[w].id] = @ + 1]
        /\ pc' = [pc EXCEPT ![w] = "failed"] /\ UNCHANGED <<processed, held, stale>>
    BY <1>10 DEF TransactionConflict, Throw, ThrowFrom, C!Throw, C!Goto
  <2>2. CASE held[w].id = id
    BY <2>1, <2>2 DEF Types
  <2>3. CASE held[w].id # id
    BY <2>1, <2>3 DEF Sending, C!Unacked, Types, CP!TypeOK
  <2> QED
    BY <2>2, <2>3
<1>11. ASSUME NEW m \in Message, Expire(m)
       PROVE  G
  BY <1>1, <1>11 DEF Expire, C!Expire, C!workerVars
<1>12. ASSUME NEW p \in Processes, Crash(p) \/ ConnectionLost(p)
       PROVE  G
  <2>1. processed' = processed
    BY <1>12 DEF Crash, ConnectionLost, C!Crash, C!ConnectionLost
  <2>2. ASSUME NEW w \in Workers, C!Unacked(w), pc[w] \in {"running", "done"}, held[w].id = id
        PROVE  G
    <3>1. CASE Process(w) = p
      <4>1. cutOff'[id] = cutOff[id] + 1
        BY <1>12, <2>2, <3>1 DEF Crash, ConnectionLost, CutOff
      <4> QED
        BY <4>1 DEF Types
    <3>2. CASE Process(w) # p
      <4>1. pc'[w] = pc[w] /\ held'[w] = held[w] /\ (w \in stale' => w \in stale)
        BY <1>12, <3>2, WorkerParts DEF Crash, ConnectionLost, C!Crash, C!ConnectionLost
      <4> QED
        BY <2>2, <4>1 DEF Sending, C!Unacked
    <3> QED
      BY <3>1, <3>2
  <2> QED
    BY <2>1, <2>2 DEF Sending
<1> QED
  BY <1>3, <1>4, <1>5, <1>6, <1>7, <1>8, <1>9, <1>10, <1>11, <1>12, NextCases DEF WorkerStep

LEMMA MailsMove ==
  ASSUME [Next]_vars
  PROVE  mails' = mails \/ \E w \in Workers : SendMail(w)
<1>1. ASSUME NEW w \in Workers, HandlerStep(w), ~ SendMail(w)
      PROVE  mails' = mails
  BY <1>1 DEF HandlerStep, ReserveLookup, ReserveFinish, ReleaseLookup, ReleaseFinish,
     ApplyReservationFailed, ApplyReserved, PublishReserved, PublishRefused, PublishConfirmed,
     PublishRelease, PublishFailed, PublishStep
<1>2. ASSUME NEW w \in Workers, WorkerStep(w) \/ Throw(w), ~ SendMail(w)
      PROVE  mails' = mails
  BY <1>1, <1>2 DEF WorkerStep, HandlerReturns, TransactionConflict, Throw, ThrowFrom, Conclude
<1>3. CASE UNCHANGED vars
  BY <1>3 DEF vars
<1>4. ASSUME NEW o \in Orders, CreateOrder(o) \/ RelayPublish(o)
      PROVE  mails' = mails
  BY <1>4 DEF CreateOrder, RelayPublish
<1>5. ASSUME NEW R \in Batches, RelayMark(R) \/ RelayRollBack(R)
      PROVE  mails' = mails
  BY <1>5 DEF RelayMark, RelayRollBack
<1>6. ASSUME NEW m \in Message, NEW w \in Workers, Deliver(w, m)
      PROVE  mails' = mails
  BY <1>6 DEF Deliver
<1>7. ASSUME NEW m \in Message, Expire(m)
      PROVE  mails' = mails
  BY <1>7 DEF Expire
<1>8. ASSUME NEW p \in Processes, Crash(p) \/ ConnectionLost(p)
      PROVE  mails' = mails
  BY <1>8 DEF Crash, ConnectionLost
<1> QED
  BY <1>2, <1>3, <1>4, <1>5, <1>6, <1>7, <1>8, NextCases

\* Handlers for id are only called by a delivery of id.
LEMMA UnsentMoves ==
  ASSUME Types, FlowInv, [Next]_vars, NEW id \in Ids,
         ~ \E w \in Workers, m \in Message : Deliver(w, m) /\ C!Receive(w, m) /\ m.id = id
  PROVE  Unsent(id)' \subseteq Unsent(id)
<1> SUFFICES ASSUME NEW w \in Workers, at'[w] = "start", held'[w].id = id
             PROVE  at[w] = "start" /\ held[w].id = id
  BY DEF Unsent
<1>1. CASE held'[w] = held[w] /\ at'[w] \in {at[w], "none"}
  BY <1>1
<1>2. CASE HandlerStep(w)
  BY <1>2, HandlerMoves
<1>3. ASSUME NEW m \in Message, Deliver(w, m), C!Receive(w, m)
      PROVE  FALSE
  <2>1. held'[w] = m
    BY <1>3 DEF C!Receive, Types, CP!TypeOK
  <2> QED
    BY <1>3, <2>1
<1> QED
  BY <1>1, <1>2, <1>3, WorkerMoves

\* What the deliveries of one notification worker have to wait for.
LEMMA OneDeliveryAtATime ==
  ASSUME Types, FlowInv, OneMailer, NEW w \in Workers, NEW m \in Message, C!Receive(w, m),
         NEW o \in Orders, NEW f \in Final, m.id = MailId(o, f)
  PROVE  ~ Sending(m.id)
<1>1. w[1] = "order.notifications"
  BY WorkerParts, MailParts DEF C!Receive, C!CanDeliver
<1>2. \A v \in Workers : v[1] = "order.notifications" => Process(v) = Process(w)
  <2>1. \A v \in Workers : v[1] = "order.notifications" => v[2] \in Replicas["notification-worker"]
    BY DEF Workers, Service, Queues
  <2> QED
    BY <1>1, <2>1 DEF OneMailer, Process
<1>3. ASSUME NEW v \in Workers, C!Unacked(v), held[v].id = m.id
      PROVE  FALSE
  <2>1. v[1] = "order.notifications"
    BY <1>3, MailParts DEF C!Unacked, FlowInv, HandlerKeepsToItsQueue, EventAt
  <2> QED
    BY <1>1, <1>2, <1>3, <2>1, WorkerParts DEF C!Receive, C!CanDeliver
<1> QED
  BY <1>3 DEF Sending, C!Receive

LEMMA LedgerStep ==
  ASSUME DriveInv, DriveInv', OneMailer, MailLedger, [Next]_vars
  PROVE  MailLedger'
<1> USE DEF DriveInv
<1> SUFFICES ASSUME NEW o \in Orders, NEW f \in Final
             PROVE  Paid(o, f)'
  BY DEF MailLedger
<1> DEFINE id == MailId(o, f)
<1>1. Paid(o, f) /\ id \in Ids
  BY MailParts DEF MailLedger
<1>2. failures'[id] >= failures[id] /\ cutOff'[id] >= cutOff[id]
  BY <1>1, CostsGrow
<1>3. Sending(id) => Sending(id)' \/ failures'[id] > failures[id] \/ cutOff'[id] > cutOff[id]
  BY <1>1, SendingStays
<1> HIDE DEF id
<1>4. CASE mails'[o][f] = mails[o][f] /\ Unsent(id)' \subseteq Unsent(id)
  BY <1>1, <1>2, <1>3, <1>4, PaidStays DEF id
<1>5. ASSUME NEW w \in Workers, SendMail(w)
      PROVE  Paid(o, f)'
  <2>1. PICK g \in Final : /\ EventAt(w) = Announcement(g)
                           /\ mails' = [mails EXCEPT ![OrderAt(w)][g] = @ + 1]
    BY <1>5 DEF SendMail
  <2>2. /\ at[w] = "start" /\ at' = [at EXCEPT ![w] = "return"]
        /\ UNCHANGED <<consumerVars, failures, cutOff>>
    BY <1>5 DEF SendMail, At, Goto
  <2>3. held[w].id = MailId(OrderAt(w), g) /\ OrderAt(w) \in Orders
    BY <2>1, <2>2, RunningParts DEF MailId
  <2>4. Unsent(id)' = Unsent(id) \ {w}
    BY <2>2 DEF Unsent, consumerVars, Types
  <2>5. CASE held[w].id # id
    <3>1. mails'[o][f] = mails[o][f]
      BY <2>1, <2>3, <2>5 DEF Types, id
    <3> QED
      BY <1>4, <2>4, <3>1
  <2>6. CASE held[w].id = id
    <3>1. OrderAt(w) = o /\ g = f
      BY <2>3, <2>6 DEF id, MailId, Announcement, Final
    <3>2. mails'[o][f] = mails[o][f] + 1
      BY <2>1, <3>1 DEF Types
    <3>3. /\ IsFiniteSet(Unsent(id)')
          /\ Cardinality(Unsent(id)') = Cardinality(Unsent(id)) - 1
          /\ Cardinality(Unsent(id)) \in Nat
      <4>1. w \in Unsent(id)
        BY <2>2, <2>6 DEF Unsent
      <4> QED
        BY <1>1, <2>4, <4>1, FS_RemoveElement, FS_CardinalityType DEF Paid, id
    <3>4. Sending(id)' <=> Sending(id)
      BY <2>2 DEF Sending, C!Unacked, consumerVars
    <3>5. mails[o][f] \in Nat /\ failures[id] \in Nat /\ cutOff[id] \in Nat /\ cutOff' = cutOff
      BY <1>1, <2>2, SagaAssumption DEF Types, CP!TypeOK, consumerVars
    <3>6. mails'[o][f] + Cardinality(Unsent(id)') <=
            failures'[id] + cutOff'[id] + (IF Sending(id)' THEN 1 ELSE 0)
      BY <1>1, <2>2, <3>2, <3>3, <3>4, <3>5 DEF Paid, id
    <3> QED
      BY <3>3, <3>6 DEF Paid, id, MailId, Announcement
  <2> QED
    BY <2>5, <2>6
<1>6. ASSUME NEW w \in Workers, NEW m \in Message, Deliver(w, m), C!Receive(w, m), m.id = id
      PROVE  Paid(o, f)'
  <2>1. ~ Sending(id)
    BY <1>6, OneDeliveryAtATime DEF id
  <2>2. Sending(id)'
    <3>1. w \notin stale /\ stale' = stale /\ pc'[w] = "running" /\ held'[w] = m
      BY <1>6 DEF C!Receive, C!CanDeliver, ProtocolInv, CP!LossInv, CP!BusyInv, CP!StaleIsBusy, Types,
         CP!TypeOK
    <3> QED
      BY <1>6, <3>1 DEF Sending, C!Unacked
  <2>3. /\ IsFiniteSet(Unsent(id)')
        /\ Cardinality(Unsent(id)') <= Cardinality(Unsent(id)) + 1
        /\ Cardinality(Unsent(id)) \in Nat /\ Cardinality(Unsent(id)') \in Nat
    <3>1. Unsent(id)' \subseteq Unsent(id) \union {w}
      BY <1>6 DEF Unsent, Deliver, C!Receive, C!SkipDuplicate, Goto, Types, CP!TypeOK
    <3>2. /\ IsFiniteSet(Unsent(id) \union {w})
          /\ Cardinality(Unsent(id) \union {w}) <= Cardinality(Unsent(id)) + 1
          /\ Cardinality(Unsent(id)) \in Nat /\ Cardinality(Unsent(id) \union {w}) \in Nat
      <4>1. IsFiniteSet(Unsent(id))
        BY <1>1 DEF Paid, id
      <4>2. Cardinality(Unsent(id)) \in Nat
        BY <4>1, FS_CardinalityType
      <4>3. /\ IsFiniteSet(Unsent(id) \union {w})
            /\ Cardinality(Unsent(id) \union {w}) =
                 IF w \in Unsent(id) THEN Cardinality(Unsent(id)) ELSE Cardinality(Unsent(id)) + 1
        BY <4>1, FS_AddElement
      <4> QED
        BY <4>2, <4>3
    <3>3. /\ IsFiniteSet(Unsent(id)') /\ Cardinality(Unsent(id)') \in Nat
          /\ Cardinality(Unsent(id)') <= Cardinality(Unsent(id) \union {w})
      BY <3>1, <3>2, FS_Subset, FS_CardinalityType
    <3> QED
      BY <3>2, <3>3
  <2>4. UNCHANGED <<mails, failures, cutOff>>
    BY <1>6 DEF Deliver, C!Receive
  <2>5. mails[o][f] \in Nat /\ failures[id] \in Nat /\ cutOff[id] \in Nat
    BY <1>1, SagaAssumption DEF Types, CP!TypeOK
  <2>6. mails'[o][f] + Cardinality(Unsent(id)') <=
          failures'[id] + cutOff'[id] + (IF Sending(id)' THEN 1 ELSE 0)
    BY <1>1, <2>1, <2>2, <2>3, <2>4, <2>5 DEF Paid, id
  <2> QED
    BY <2>3, <2>6 DEF Paid, id, MailId, Announcement
<1>7. CASE \/ \E w \in Workers : SendMail(w)
           \/ \E w \in Workers, m \in Message : Deliver(w, m) /\ C!Receive(w, m) /\ m.id = id
  BY <1>5, <1>6, <1>7
<1>8. CASE ~ \/ \E w \in Workers : SendMail(w)
             \/ \E w \in Workers, m \in Message : Deliver(w, m) /\ C!Receive(w, m) /\ m.id = id
  BY <1>1, <1>4, <1>8, MailsMove, UnsentMoves
<1> QED
  BY <1>7, <1>8

\* With one notification worker every mail too many is paid for by a delivery of
\* its own event that failed or was cut off, for any errors, retries, crashes and
\* lost connections there; those of everything upstream pay for none.
THEOREM DuplicateMailsArePaidFor ==
  ASSUME OneMailer
  PROVE  Spec => []MailsPaidFor
<1>1. Init => MailLedger
  <2> SUFFICES ASSUME Init, NEW o \in Orders, NEW f \in Final
               PROVE  Paid(o, f)
    BY DEF MailLedger
  <2>1. Unsent(MailId(o, f)) = {} /\ mails[o][f] = 0 /\ failures[MailId(o, f)] = 0
        /\ cutOff[MailId(o, f)] = 0
    BY MailParts DEF Init, C!Init, Unsent
  <2> QED
    BY <2>1, FS_EmptySet DEF Paid
<1>2. DriveInv /\ DriveInv' /\ MailLedger /\ [Next]_vars => MailLedger'
  BY LedgerStep
<1>3. Types /\ MailLedger => MailsPaidFor
  <2> SUFFICES ASSUME Types, MailLedger, NEW o \in Orders, NEW f \in Final
               PROVE  mails[o][f] <= 1 + failures[MailId(o, f)] + cutOff[MailId(o, f)]
    BY DEF MailsPaidFor, MailId
  <2>1. Cardinality(Unsent(MailId(o, f))) \in Nat
    BY FS_CardinalityType DEF MailLedger, Paid
  <2>2. mails[o][f] \in Nat /\ failures[MailId(o, f)] \in Nat /\ cutOff[MailId(o, f)] \in Nat
    BY MailParts, SagaAssumption DEF Types, CP!TypeOK
  <2> QED
    BY <2>1, <2>2 DEF MailLedger, Paid
<1>4. DriveInv => Types
  BY DEF DriveInv
<1> QED
  BY <1>1, <1>2, <1>3, <1>4, DriveInvariance, PTL DEF Spec
-----------------------------------------------------------------------------
(* From an announcement to its mail *)

\* handleOrderProcessed does not return before the mail is sent.
MailsSent ==
  \A o \in Orders, f \in Final :
    /\ \A w \in Workers : at[w] = "return" /\ held[w].id = MailId(o, f) => mails[o][f] > 0
    /\ MailId(o, f) \in handled => mails[o][f] > 0

LEMMA MailHandler ==
  ASSUME Types, FlowInv, NEW w \in Workers, w[1] = "order.notifications", HandlerStep(w)
  PROVE  SendMail(w)
BY DEF FlowInv, HandlerKeepsToItsQueue, HandlerStep, ReserveLookup, ReserveFinish,
   ReleaseLookup, ReleaseFinish, ApplyReservationFailed, ApplyReserved, PublishReserved,
   PublishRefused, PublishConfirmed, PublishRelease, PublishFailed, PublishStep, At

\* What a mail does to the counts.
LEMMA OneMoreMail ==
  ASSUME Types, NEW w \in Workers, SendMail(w), NEW o \in Orders, NEW f \in Final
  PROVE  /\ held[w].id = MailId(o, f) => mails'[o][f] > 0
         /\ mails[o][f] > 0 => mails'[o][f] > 0
<1>1. PICK g \in Final : /\ EventAt(w) = Announcement(g)
                         /\ mails' = [mails EXCEPT ![OrderAt(w)][g] = @ + 1]
  BY DEF SendMail
<1>2. held[w].id = MailId(OrderAt(w), g) /\ OrderAt(w) \in Orders
  BY <1>1, RunningParts DEF MailId, SendMail, At
<1>3. held[w].id = MailId(o, f) => OrderAt(w) = o /\ g = f
  BY <1>2 DEF MailId, Announcement, Final
<1> QED
  BY <1>1, <1>2, <1>3 DEF Types

LEMMA MailsSentStep ==
  ASSUME Types, FlowInv, MailsSent, [Next]_vars
  PROVE  MailsSent'
<1> SUFFICES ASSUME NEW o \in Orders, NEW f \in Final
             PROVE  /\ \A w \in Workers :
                         at'[w] = "return" /\ held'[w].id = MailId(o, f) => mails'[o][f] > 0
                    /\ MailId(o, f) \in handled' => mails'[o][f] > 0
  BY DEF MailsSent, MailId, Announcement
<1>1. mails[o][f] > 0 => mails'[o][f] > 0
  BY MailsMove, OneMoreMail
<1>2. ASSUME NEW w \in Workers, at'[w] = "return", held'[w].id = MailId(o, f)
      PROVE  mails'[o][f] > 0
  <2>1. CASE held'[w] = held[w] /\ at'[w] \in {at[w], "none"}
    BY <1>1, <1>2, <2>1 DEF MailsSent
  <2>2. CASE HandlerStep(w) /\ held'[w] = held[w]
    <3>1. w[1] = "order.notifications"
      <4>1. pc[w] # "idle"
        BY <2>2, HandlerStepTypes, RunningParts
      <4> QED
        BY <1>2, <2>2, <4>1, MailParts DEF FlowInv, HandlerKeepsToItsQueue, EventAt
    <3> QED
      BY <1>2, <2>2, <3>1, MailHandler, OneMoreMail
  <2> QED
    BY <1>2, <2>1, <2>2, WorkerMoves
<1>3. ASSUME MailId(o, f) \in handled'
      PROVE  mails'[o][f] > 0
  BY <1>1, <1>3, GlobalMoves DEF MailsSent
<1> QED
  BY <1>2, <1>3

LEMMA MailsSentInit == Init => MailsSent
BY DEF Init, C!Init, MailsSent

\* An announcement that was published has become a mail or is under way.
LEMMA AnnouncementArrives ==
  ASSUME DriveInv, MailsSent, NEW o \in Orders, NEW f \in Final, published[MailId(o, f)] > 0
  PROVE  mails[o][f] > 0 \/ Driven(Announcing, o)
<1>1. MailId(o, f) \in Ids /\ Announcement(f) \in Announcing
  BY MailParts DEF Announcement, Announcing
<1>2. CASE MailId(o, f) \in handled
  BY <1>2 DEF MailsSent
<1>3. CASE MailId(o, f) \notin handled
  BY <1>1, <1>3, UnderWay DEF Driven, MailId
<1> QED
  BY <1>2, <1>3
-----------------------------------------------------------------------------
(* The verdicts of the order worker *)

\* What an answer, delivered for the first time, decides.
Verdict(e, o) ==
  IF e = "inventory.reserved" THEN D!ResolveOrderStatus(D!CalculateOrderTotal(Lines[o]))
                              ELSE "FAILED"

LEMMA VerdictIsFinal == \A e, o : Verdict(e, o) \in Final
BY DEF Verdict, D!ResolveOrderStatus, Final

Decides(w) == ApplyReservationFailed(w) \/ ApplyReserved(w)

LEMMA OrderHandler ==
  ASSUME Types, FlowInv, NEW w \in Workers, HandlerStep(w), w[1] = "order.processing"
  PROVE  Decides(w) \/ PublishConfirmed(w) \/ PublishRelease(w) \/ PublishFailed(w)
BY DEF FlowInv, HandlerKeepsToItsQueue, HandlerStep, ReserveLookup, ReserveFinish,
   ReleaseLookup, ReleaseFinish, Decides, PublishReserved, PublishRefused, PublishStep,
   SendMail, At

\* The queue of the order worker only holds answers.
LEMMA AnswersAtHand ==
  ASSUME Types, FlowInv, NEW w \in Workers, pc[w] # "idle"
  PROVE  w[1] = "order.processing" <=> EventAt(w) \in Answers
<1>1. BoundQueue(EventAt(w)) = w[1] /\ EventAt(w) \in EventTypes
  BY HeldParts DEF FlowInv, HandlerKeepsToItsQueue
<1> QED
  BY <1>1, Routing DEF EventTypes, Answers

LEMMA DecisionTaken ==
  ASSUME Types, FlowInv, NEW w \in Workers, Decides(w)
  PROVE  /\ at[w] = "start" /\ w[1] = "order.processing" /\ pc[w] = "running"
         /\ OrderAt(w) \in Orders /\ EventAt(w) \in Answers
         /\ UNCHANGED consumerVars
         /\ \E status \in Final :
              /\ order' = [order EXCEPT ![OrderAt(w)] = status]
              /\ at'[w] \in IF status = "CONFIRMED" THEN {"publishConfirmed"}
                                                    ELSE {"publishRelease", "publishFailed"}
              /\ held[w].retry = 0 => status = Verdict(EventAt(w), OrderAt(w))
<1>1. /\ at[w] = "start" /\ w[1] = "order.processing" /\ UNCHANGED consumerVars
  BY DEF Decides, ApplyReservationFailed, ApplyReserved, At
<1>2. pc[w] = "running" /\ OrderAt(w) \in Orders /\ EventAt(w) \in Answers
  BY <1>1, RunningParts, AnswersAtHand
<1>3. held[w].retry = 0 => DeliveredKey(EventAt(w), held[w].retry) = EventAt(w)
  BY DEF DeliveredKey
<1>4. CASE ApplyReservationFailed(w)
  <2>1. /\ order' = [order EXCEPT ![OrderAt(w)] = "FAILED"]
        /\ at'[w] = "publishFailed"
        /\ held[w].retry = 0 => EventAt(w) = "inventory.reservation.failed"
    BY <1>3, <1>4 DEF ApplyReservationFailed, SetStatus, Goto, Types, IsReservationFailed
  <2> QED
    BY <1>1, <1>2, <2>1 DEF Final, Verdict
<1>5. CASE ApplyReserved(w)
  <2> DEFINE status == D!ResolveOrderStatus(TotalAmount(w))
  <2>1. /\ order' = [order EXCEPT ![OrderAt(w)] = status]
        /\ at'[w] = IF status = "CONFIRMED" THEN "publishConfirmed" ELSE "publishRelease"
    BY <1>5 DEF ApplyReserved, SetStatus, Goto, Types
  <2>2. status \in Final
    BY DEF D!ResolveOrderStatus, Final
  <2>3. held[w].retry = 0 => status = Verdict(EventAt(w), OrderAt(w))
    BY <1>2, <1>3, <1>5 DEF ApplyReserved, IsReservationFailed, Answers, TotalAmount, Verdict
  <2> HIDE DEF status
  <2> QED
    BY <1>1, <1>2, <2>1, <2>2, <2>3 DEF Final
<1> QED
  BY <1>4, <1>5 DEF Decides

\* Only the order worker decides.
LEMMA OrderMoves ==
  ASSUME [Next]_vars
  PROVE  \/ order' = order
         \/ \E o \in Orders : CreateOrder(o)
         \/ \E w \in Workers : Decides(w)
<1>1. ASSUME NEW w \in Workers, HandlerStep(w), ~ Decides(w)
      PROVE  order' = order
  BY <1>1 DEF HandlerStep, ReserveLookup, ReserveFinish, ReleaseLookup, ReleaseFinish,
     Decides, PublishReserved, PublishRefused, PublishConfirmed, PublishRelease, PublishFailed,
     PublishStep, SendMail
<1>2. ASSUME NEW w \in Workers, WorkerStep(w) \/ Throw(w), ~ Decides(w)
      PROVE  order' = order
  BY <1>1, <1>2 DEF WorkerStep, HandlerReturns, TransactionConflict, Throw, ThrowFrom, Conclude
<1>3. CASE UNCHANGED vars
  BY <1>3 DEF vars
<1>4. ASSUME NEW o \in Orders, RelayPublish(o)
      PROVE  order' = order
  BY <1>4 DEF RelayPublish
<1>5. ASSUME NEW R \in Batches, RelayMark(R) \/ RelayRollBack(R)
      PROVE  order' = order
  BY <1>5 DEF RelayMark, RelayRollBack
<1>6. ASSUME NEW m \in Message, NEW w \in Workers, Deliver(w, m)
      PROVE  order' = order
  BY <1>6 DEF Deliver
<1>7. ASSUME NEW m \in Message, Expire(m)
      PROVE  order' = order
  BY <1>7 DEF Expire
<1>8. ASSUME NEW p \in Processes, Crash(p) \/ ConnectionLost(p)
      PROVE  order' = order
  BY <1>8 DEF Crash, ConnectionLost
<1> QED
  BY <1>2, <1>3, <1>4, <1>5, <1>6, <1>7, <1>8, NextCases

\* The order worker's events do not fail.
OrdersDoNotFail == \A m \in failedAt : BoundQueue(Event(m.id)) # "order.processing"

\* An order worker announces the verdict of the answer it holds.
FollowsVerdict(w) ==
  LET verdict == Verdict(EventAt(w), OrderAt(w))
  IN  /\ at[w] = "publishConfirmed" => verdict = "CONFIRMED"
      /\ at[w] \in {"publishRelease", "publishFailed"} => verdict = "FAILED"
      /\ at[w] = "return" => published[MailId(OrderAt(w), verdict)] > 0

VerdictInv ==
  /\ OrdersDoNotFail
  /\ \A w \in Workers : w[1] = "order.processing" => FollowsVerdict(w)
  /\ \A o \in Orders, e \in Answers :
       <<e, o>> \in handled => published[MailId(o, Verdict(e, o))] > 0
  /\ \A o \in Orders :
       order[o] \in Final =>
         \E e \in Answers : published[<<e, o>>] > 0 /\ Verdict(e, o) = order[o]

LEMMA FirstTry ==
  ASSUME DriveInv, OrdersDoNotFail, NEW w \in Workers, w[1] = "order.processing", pc[w] # "idle"
  PROVE  held[w].retry = 0
<1>1. held[w] \in CP!Message /\ BoundQueue(Event(held[w].id)) = "order.processing"
  BY HeldParts, SameProtocol DEF DriveInv, FlowInv, HandlerKeepsToItsQueue, EventAt
<1>2. held[w].retry \in 0 .. MaxRetries
  BY <1>1 DEF CP!Message
<1>3. [id |-> held[w].id, retry |-> 0] \notin failedAt
  BY <1>1 DEF OrdersDoNotFail
<1>4. CP!FailedBefore(held[w])
  BY DEF DriveInv, ProtocolInv, CP!RetryInv, CP!RetryCountsFailures
<1> QED
  BY <1>2, <1>3, <1>4, SagaAssumption DEF CP!FailedBefore

LEMMA FailuresMove ==
  ASSUME Types, FlowInv, OrdersDoNotFail, MaxErrors = 0, [Next]_vars
  PROVE  OrdersDoNotFail'
<1>1. ASSUME failedAt' = failedAt
      PROVE  OrdersDoNotFail'
  BY <1>1 DEF OrdersDoNotFail
<1>2. CASE UNCHANGED vars
  BY <1>1, <1>2 DEF vars, consumerVars
<1>3. ASSUME NEW o \in Orders, CreateOrder(o) \/ RelayPublish(o)
      PROVE  OrdersDoNotFail'
  BY <1>1, <1>3 DEF CreateOrder, RelayPublish, C!Publish, consumerVars
<1>4. ASSUME NEW R \in Batches, RelayMark(R) \/ RelayRollBack(R)
      PROVE  OrdersDoNotFail'
  BY <1>1, <1>4 DEF RelayMark, RelayRollBack, consumerVars
<1>5. ASSUME NEW m \in Message, NEW w \in Workers, Deliver(w, m)
      PROVE  OrdersDoNotFail'
  BY <1>1, <1>5 DEF Deliver, C!Receive, C!SkipDuplicate, C!historyVars
<1>6. ASSUME NEW w \in Workers, HandlerStep(w)
      PROVE  OrdersDoNotFail'
  BY <1>1, <1>6, HandlerStepIsStep DEF consumerVars, CP!Publish
<1>7. ASSUME NEW w \in Workers, HandlerReturns(w) \/ Conclude(w)
      PROVE  OrdersDoNotFail'
  BY <1>1, <1>7 DEF HandlerReturns, Conclude, C!HandlerReturns, C!MarkProcessed, C!Ack,
     C!Republish, C!Nack, C!historyVars
<1>8. ASSUME NEW w \in Workers, TransactionConflict(w)
      PROVE  OrdersDoNotFail'
  <2>1. w[1] # "order.processing" /\ pc[w] # "idle" /\ failedAt' = failedAt \union {held[w]}
    BY <1>8, RunningParts DEF TransactionConflict, ThrowFrom, C!Throw, At
  <2>2. BoundQueue(Event(held[w].id)) = w[1]
    BY <2>1 DEF FlowInv, HandlerKeepsToItsQueue, EventAt
  <2> QED
    BY <2>1, <2>2 DEF OrdersDoNotFail
<1>9. ASSUME NEW w \in Workers, Throw(w)
      PROVE  FALSE
  BY <1>9, SagaAssumption DEF Throw, Types
<1>10. ASSUME NEW m \in Message, Expire(m)
       PROVE  OrdersDoNotFail'
  BY <1>1, <1>10 DEF Expire, C!Expire, C!historyVars
<1>11. ASSUME NEW p \in Processes, Crash(p) \/ ConnectionLost(p)
       PROVE  OrdersDoNotFail'
  BY <1>1, <1>11 DEF Crash, ConnectionLost, C!Crash, C!ConnectionLost, C!historyVars
<1> QED
  BY <1>2, <1>3, <1>4, <1>5, <1>6, <1>7, <1>8, <1>9, <1>10, <1>11, NextCases DEF WorkerStep

\* What is published by a handler of the order worker.
LEMMA AnnouncementMade ==
  ASSUME Types, NEW w \in Workers, NEW o \in Orders, OrderAt(w) = o
  PROVE  /\ PublishConfirmed(w) => published'[MailId(o, "CONFIRMED")] > 0
         /\ PublishFailed(w) => published'[MailId(o, "FAILED")] > 0
         /\ PublishConfirmed(w) \/ PublishFailed(w) => at'[w] = "return"
         /\ PublishRelease(w) => at'[w] = "publishFailed"
<1>1. /\ PublishConfirmed(w) => C!Publish(MailId(o, "CONFIRMED"))
      /\ PublishFailed(w) => C!Publish(MailId(o, "FAILED"))
  BY DEF PublishConfirmed, PublishFailed, PublishStep, MailId, Announcement
<1>2. MailId(o, "CONFIRMED") \in Ids /\ MailId(o, "FAILED") \in Ids
  BY MailParts DEF Final
<1>3. \A id \in Ids : C!Publish(id) => published'[id] > 0
  BY DEF C!Publish, Types, CP!TypeOK
<1>4. /\ PublishConfirmed(w) \/ PublishFailed(w) => at'[w] = "return"
      /\ PublishRelease(w) => at'[w] = "publishFailed"
  BY DEF PublishConfirmed, PublishFailed, PublishRelease, PublishStep, Goto, Types
<1> QED
  BY <1>1, <1>2, <1>3, <1>4

LEMMA VerdictStep ==
  ASSUME DriveInv, VerdictInv, MaxErrors = 0, [Next]_vars
  PROVE  VerdictInv'
<1> USE DEF DriveInv
<1>1. OrdersDoNotFail'
  BY FailuresMove DEF VerdictInv
<1>2. \A id \in Ids : published[id] > 0 => published'[id] > 0
  BY GlobalMoves
<1>3. ASSUME NEW w \in Workers, w[1] = "order.processing"
      PROVE  FollowsVerdict(w)'
  <2>1. CASE at'[w] \in {"none", "start"}
    BY <2>1 DEF FollowsVerdict
  <2>2. CASE /\ pc[w] # "idle" /\ held'[w] = held[w] /\ at'[w] = at[w]
    <3>1. OrderAt(w) \in Orders
      BY <2>2, HeldParts
    <3>2. MailId(OrderAt(w), Verdict(EventAt(w), OrderAt(w))) \in Ids
      BY <3>1, VerdictIsFinal, MailParts
    <3> QED
      BY <1>2, <1>3, <2>2, <3>2
      DEF VerdictInv, FollowsVerdict, EventAt, OrderAt, MailId, Announcement, Verdict
  <2>3. CASE HandlerStep(w) /\ held'[w] = held[w]
    <3>1. OrderAt(w) \in Orders /\ pc[w] # "idle" /\ EventAt(w)' = EventAt(w) /\ OrderAt(w)' = OrderAt(w)
      BY <2>3, HandlerStepTypes, RunningParts DEF EventAt, OrderAt
    <3> DEFINE verdict == Verdict(EventAt(w), OrderAt(w))
    <3>2. verdict' = verdict /\ MailId(OrderAt(w), verdict)' = MailId(OrderAt(w), verdict)
      BY <3>1 DEF Verdict, MailId, Announcement
    <3>3. FollowsVerdict(w)
      BY <1>3 DEF VerdictInv
    <3>4. held[w].retry = 0
      BY <1>3, <3>1, FirstTry DEF VerdictInv
    <3>5. CASE Decides(w)
      <4>1. \/ at'[w] = "publishConfirmed" /\ verdict = "CONFIRMED"
            \/ at'[w] \in {"publishRelease", "publishFailed"} /\ verdict = "FAILED"
        BY <3>4, <3>5, DecisionTaken DEF Final
      <4> QED
        BY <3>1, <3>2, <4>1 DEF FollowsVerdict
    <3>6. CASE PublishConfirmed(w)
      <4>1. verdict = "CONFIRMED"
        BY <3>3, <3>6 DEF PublishConfirmed, PublishStep, FollowsVerdict
      <4> QED
        BY <3>1, <3>2, <3>6, <4>1, AnnouncementMade DEF FollowsVerdict
    <3>7. CASE PublishRelease(w) \/ PublishFailed(w)
      <4>1. verdict = "FAILED"
        BY <3>3, <3>7 DEF PublishRelease, PublishFailed, PublishStep, FollowsVerdict
      <4> QED
        BY <3>1, <3>2, <3>7, <4>1, AnnouncementMade DEF FollowsVerdict
    <3> QED
      BY <1>3, <2>3, <3>5, <3>6, <3>7, OrderHandler
  <2> QED
    BY <2>1, <2>2, <2>3, WorkerMoves
<1>4. ASSUME NEW o \in Orders, NEW e \in Answers, <<e, o>> \in handled'
      PROVE  published'[MailId(o, Verdict(e, o))] > 0
  <2>1. MailId(o, Verdict(e, o)) \in Ids
    BY VerdictIsFinal, MailParts
  <2>2. CASE <<e, o>> \in handled
    BY <1>2, <2>1, <2>2 DEF VerdictInv
  <2>3. ASSUME NEW w \in Workers, at[w] = "return", held[w].id = <<e, o>>
        PROVE  published'[MailId(o, Verdict(e, o))] > 0
    <3>1. EventAt(w) = e /\ OrderAt(w) = o
      BY <2>3 DEF EventAt, OrderAt, Event, OrderOf
    <3>2. w[1] = "order.processing"
      BY <2>3, <3>1, RunningParts, AnswersAtHand
    <3> QED
      BY <1>2, <2>1, <2>3, <3>1, <3>2 DEF VerdictInv, FollowsVerdict
  <2> QED
    BY <1>4, <2>2, <2>3, GlobalMoves
<1>5. ASSUME NEW o \in Orders, order'[o] \in Final
      PROVE  \E e \in Answers : published'[<<e, o>>] > 0 /\ Verdict(e, o) = order'[o]
  <2>1. \A e \in Answers : <<e, o>> \in Ids
    BY IdParts DEF Answers, EventTypes
  <2>2. CASE order'[o] = order[o]
    BY <1>2, <1>5, <2>1, <2>2 DEF VerdictInv
  <2>3. ASSUME NEW p \in Orders, CreateOrder(p)
        PROVE  order'[o] = order[o]
    BY <1>5, <2>3 DEF CreateOrder, Types, Final
  <2>4. ASSUME NEW w \in Workers, Decides(w), OrderAt(w) = o
        PROVE  \E e \in Answers : published'[<<e, o>>] > 0 /\ Verdict(e, o) = order'[o]
    <3>1. held[w].retry = 0 /\ pc[w] # "idle" /\ EventAt(w) \in Answers
      BY <2>4, DecisionTaken, FirstTry DEF VerdictInv
    <3>2. order'[o] = Verdict(EventAt(w), o)
      BY <2>4, <3>1, DecisionTaken DEF Types
    <3>3. held[w].id = <<EventAt(w), o>> /\ published[held[w].id] > 0
      BY <2>4, <3>1, HeldParts DEF ProtocolInv, CP!CopiesWerePublished
    <3> QED
      BY <1>2, <2>1, <3>1, <3>2, <3>3
  <2>5. ASSUME NEW w \in Workers, Decides(w), OrderAt(w) # o
        PROVE  order'[o] = order[o]
    BY <2>5, DecisionTaken DEF Types
  <2> QED
    BY <2>2, <2>3, <2>4, <2>5, OrderMoves
<1> QED
  BY <1>1, <1>3, <1>4, <1>5 DEF VerdictInv, MailId, Announcement, Verdict

LEMMA VerdictInit == Init => VerdictInv
BY DEF Init, C!Init, VerdictInv, OrdersDoNotFail, FollowsVerdict, Final

\* While nothing but crashes, lost connections and conflicting transactions goes
\* wrong, with any number of replicas and invocations, no order is decided in
\* silence: its mail was sent, or is on its way.
THEOREM DecisionsAreAnnounced ==
  ASSUME MaxErrors = 0
  PROVE  Spec => []DecidedIsAnnounced
<1>1. ASSUME DriveInv, MailsSent, VerdictInv
      PROVE  DecidedIsAnnounced
  <2> SUFFICES ASSUME NEW o \in Orders, order[o] \in Final
               PROVE  mails[o][order[o]] > 0 \/ Driven(Deciding \union Announcing, o)
    BY DEF DecidedIsAnnounced
  <2>1. PICK e \in Answers : published[<<e, o>>] > 0 /\ Verdict(e, o) = order[o]
    BY <1>1 DEF VerdictInv
  <2>2. <<e, o>> \in Ids /\ e \in Deciding
    BY IdParts DEF Answers, EventTypes, Deciding
  <2>3. CASE <<e, o>> \in handled
    <3>1. published[MailId(o, order[o])] > 0
      BY <1>1, <2>1, <2>3 DEF VerdictInv
    <3> QED
      BY <1>1, <3>1, AnnouncementArrives DEF Driven
  <2>4. CASE <<e, o>> \notin handled
    BY <1>1, <2>1, <2>2, <2>4, UnderWay DEF Driven
  <2> QED
    BY <2>3, <2>4
<1>2. MailsSent /\ DriveInv /\ [Next]_vars => MailsSent'
  BY MailsSentStep DEF DriveInv
<1>3. VerdictInv /\ DriveInv /\ [Next]_vars => VerdictInv'
  BY VerdictStep
<1> QED
  BY <1>1, <1>2, <1>3, MailsSentInit, VerdictInit, DriveInvariance, PTL DEF Spec
-----------------------------------------------------------------------------
(* One order worker, one order at a time: errors are allowed *)

\* One order worker, as deployed, whose connection is not lost in the middle of
\* an order: no two invocations of it overlap.
OneProcessor ==
  \A v, w \in Workers : v[1] = "order.processing" /\ w[1] = "order.processing" => v = w

\* What the order worker holds is not claimed yet, the status it has set stays
\* and is announced before the handler returns.
KeepsStatus(w) ==
  LET status == order[OrderAt(w)]
  IN  /\ pc[w] \in {"running", "done"} => held[w].id \notin processed
      /\ at[w] = "publishConfirmed" => status = "CONFIRMED"
      /\ at[w] \in {"publishRelease", "publishFailed"} => status = "FAILED"
      /\ at[w] = "return" \/ pc[w] = "done" =>
           status \in Final /\ published[MailId(OrderAt(w), status)] > 0

StatusInv ==
  /\ \A w \in Workers : w[1] = "order.processing" => KeepsStatus(w)
  /\ \A o \in Orders :
       order[o] \in Final =>
         \/ published[MailId(o, order[o])] > 0
         \/ \E e \in Answers : published[<<e, o>>] > 0 /\ <<e, o>> \notin processed

\* Ids are claimed by the invocation that holds them.
LEMMA ProcessedMoves ==
  ASSUME [Next]_vars
  PROVE  processed' = processed \/ \E w \in Workers : Conclude(w) /\ C!MarkProcessed(w)
<1> DEFINE G == processed' = processed \/ \E w \in Workers : Conclude(w) /\ C!MarkProcessed(w)
<1>1. CASE UNCHANGED vars
  BY <1>1 DEF vars, consumerVars
<1>2. ASSUME NEW o \in Orders, CreateOrder(o) \/ RelayPublish(o)
      PROVE  G
  BY <1>2 DEF CreateOrder, RelayPublish, C!Publish, consumerVars
<1>3. ASSUME NEW R \in Batches, RelayMark(R) \/ RelayRollBack(R)
      PROVE  G
  BY <1>3 DEF RelayMark, RelayRollBack, consumerVars
<1>4. ASSUME NEW m \in Message, NEW w \in Workers, Deliver(w, m)
      PROVE  G
  BY <1>4 DEF Deliver, C!Receive, C!SkipDuplicate
<1>5. ASSUME NEW w \in Workers, HandlerStep(w)
      PROVE  G
  BY <1>5 DEF HandlerStep, ReserveLookup, ReserveFinish, ReleaseLookup, ReleaseFinish,
     ApplyReservationFailed, ApplyReserved, PublishReserved, PublishRefused, PublishConfirmed,
     PublishRelease, PublishFailed, PublishStep, SendMail, C!Publish, consumerVars
<1>6. ASSUME NEW w \in Workers, HandlerReturns(w) \/ TransactionConflict(w) \/ Throw(w)
      PROVE  G
  BY <1>6 DEF HandlerReturns, TransactionConflict, Throw, ThrowFrom, C!HandlerReturns, C!Throw
<1>7. ASSUME NEW w \in Workers, Conclude(w)
      PROVE  G
  BY <1>7 DEF Conclude, C!MarkProcessed, C!Ack, C!Republish, C!Nack
<1>8. ASSUME NEW m \in Message, Expire(m)
      PROVE  G
  BY <1>8 DEF Expire, C!Expire
<1>9. ASSUME NEW p \in Processes, Crash(p) \/ ConnectionLost(p)
      PROVE  G
  BY <1>9 DEF Crash, ConnectionLost, C!Crash, C!ConnectionLost
<1> QED
  BY <1>1, <1>2, <1>3, <1>4, <1>5, <1>6, <1>7, <1>8, <1>9, NextCases DEF WorkerStep

\* Where a handler that has returned comes from.
LEMMA DoneMoves ==
  ASSUME Types, [Next]_vars, NEW w \in Workers, pc'[w] = "done"
  PROVE  held'[w] = held[w] /\ (pc[w] = "done" \/ at[w] = "return")
<1> DEFINE G == held'[w] = held[w] /\ (pc[w] = "done" \/ at[w] = "return")
<1>1. ASSUME UNCHANGED <<pc, held>>
      PROVE  G
  BY <1>1
<1>2. CASE UNCHANGED vars
  BY <1>1, <1>2 DEF vars, consumerVars
<1>3. ASSUME NEW o \in Orders, CreateOrder(o) \/ RelayPublish(o)
      PROVE  G
  BY <1>1, <1>3 DEF CreateOrder, RelayPublish, C!Publish, C!workerVars, consumerVars
<1>4. ASSUME NEW R \in Batches, RelayMark(R) \/ RelayRollBack(R)
      PROVE  G
  BY <1>1, <1>4 DEF RelayMark, RelayRollBack, consumerVars
<1>5. ASSUME NEW m \in Message, NEW v \in Workers, Deliver(v, m)
      PROVE  G
  BY <1>5 DEF Deliver, C!Receive, C!SkipDuplicate, C!workerVars, Types, CP!TypeOK
<1>6. ASSUME NEW v \in Workers, HandlerStep(v)
      PROVE  G
  BY <1>1, <1>6, HandlerStepTypes
<1>7. ASSUME NEW v \in Workers, HandlerReturns(v) \/ TransactionConflict(v) \/ Throw(v)
      PROVE  G
  BY <1>7 DEF HandlerReturns, TransactionConflict, Throw, ThrowFrom, C!HandlerReturns, C!Throw,
     C!Goto, Types, CP!TypeOK
<1>8. ASSUME NEW v \in Workers, Conclude(v)
      PROVE  G
  BY <1>8 DEF Conclude, C!MarkProcessed, C!Ack, C!Republish, C!Nack, C!Goto, C!Finish,
     Types, CP!TypeOK
<1>9. ASSUME NEW m \in Message, Expire(m)
      PROVE  G
  BY <1>1, <1>9 DEF Expire, C!Expire, C!workerVars
<1>10. ASSUME NEW p \in Processes, Crash(p) \/ ConnectionLost(p)
       PROVE  G
  BY <1>10 DEF Crash, ConnectionLost, C!Crash, C!ConnectionLost
<1> QED
  BY <1>2, <1>3, <1>4, <1>5, <1>6, <1>7, <1>8, <1>9, <1>10, NextCases DEF WorkerStep

\* With one order worker nobody else sets or claims anything of its order.
LEMMA HeldOrderStays ==
  ASSUME DriveInv, StatusInv, OneProcessor, [Next]_vars,
         NEW w \in Workers, w[1] = "order.processing", pc[w] # "idle"
  PROVE  /\ order[OrderAt(w)] \in Final /\ ~ Decides(w) =>
              order'[OrderAt(w)] = order[OrderAt(w)]
         /\ held[w].id \notin processed /\ pc'[w] # "claimed" => held[w].id \notin processed'
<1> USE DEF DriveInv
<1>1. OrderAt(w) \in Orders /\ EventAt(w) \in Answers
  BY HeldParts, AnswersAtHand
<1>2. ASSUME NEW v \in Workers, Decides(v)
      PROVE  v = w
  BY <1>2, DecisionTaken DEF OneProcessor
<1>3. ASSUME NEW p \in Orders, CreateOrder(p), order[OrderAt(w)] \in Final
      PROVE  order'[OrderAt(w)] = order[OrderAt(w)]
  BY <1>1, <1>3 DEF CreateOrder, Final, Types
<1>4. ASSUME NEW v \in Workers, C!MarkProcessed(v), pc'[w] # "claimed", held[w].id \notin processed
      PROVE  held[w].id \notin processed'
  <2>1. /\ pc[v] # "idle" /\ v # w /\ processed' = processed \union {held[v].id}
    BY <1>4 DEF C!MarkProcessed, C!Goto, Types, CP!TypeOK
  <2>2. held[v].id # held[w].id
    <3>1. v[1] # "order.processing"
      BY <2>1 DEF OneProcessor
    <3> QED
      BY <1>1, <2>1, <3>1, AnswersAtHand DEF EventAt
  <2> QED
    BY <1>4, <2>1, <2>2
<1> QED
  BY <1>2, <1>3, <1>4, OrderMoves, ProcessedMoves

LEMMA StatusStep ==
  ASSUME DriveInv, DriveInv', StatusInv, OneProcessor, [Next]_vars
  PROVE  StatusInv'
<1> USE DEF DriveInv
<1>1. \A id \in Ids : published[id] > 0 => published'[id] > 0
  BY GlobalMoves
<1>2. ASSUME NEW w \in Workers, w[1] = "order.processing"
      PROVE  KeepsStatus(w)'
  <2> DEFINE o == OrderAt(w)
  <2>1. KeepsStatus(w)
    BY <1>2 DEF StatusInv
  <2>2. CASE pc'[w] \notin {"running", "done"}
    BY <2>2 DEF KeepsStatus, Types
  <2>3. CASE /\ pc'[w] \in {"running", "done"} /\ pc[w] \in {"running", "done"}
             /\ held'[w] = held[w] /\ ~ HandlerStep(w)
             /\ pc'[w] = "done" => pc[w] = "done" \/ at[w] = "return"
             /\ at'[w] \in {at[w], "none"}
    <3>1. o' = o /\ o \in Orders
      BY <2>3, HeldParts DEF OrderAt
    <3>2. held[w].id \notin processed'
      BY <1>2, <2>1, <2>3, HeldOrderStays DEF KeepsStatus
    <3>3. order[o] \in Final => order'[o] = order[o]
      BY <1>2, <2>3, HeldOrderStays DEF Decides, HandlerStep
    <3>4. order[o] \in Final => MailId(o, order[o]) \in Ids
      BY <3>1, MailParts
    <3> QED
      BY <1>1, <2>1, <2>3, <3>1, <3>2, <3>3, <3>4
      DEF KeepsStatus, MailId, Announcement, Final, Types
  <2>4. CASE HandlerStep(w) /\ held'[w] = held[w]
    <3>1. /\ pc[w] = "running" /\ pc'[w] = "running" /\ o' = o /\ o \in Orders
      BY <2>4, HandlerStepTypes, RunningParts DEF OrderAt
    <3>2. held[w].id \notin processed'
      BY <1>2, <2>1, <3>1, HeldOrderStays DEF KeepsStatus
    <3>3. CASE Decides(w)
      <4>1. \E status \in Final :
              /\ order'[o] = status
              /\ at'[w] \in IF status = "CONFIRMED" THEN {"publishConfirmed"}
                                                    ELSE {"publishRelease", "publishFailed"}
        BY <3>1, <3>3, DecisionTaken DEF Types
      <4> QED
        BY <2>4, <3>1, <3>2, <4>1 DEF KeepsStatus, Final
    <3>4. CASE PublishConfirmed(w) \/ PublishRelease(w) \/ PublishFailed(w)
      <4>1. at[w] \in {"publishConfirmed", "publishRelease", "publishFailed"} /\ order' = order
        BY <3>4 DEF PublishConfirmed, PublishRelease, PublishFailed, PublishStep
      <4>2. order[o] = IF at[w] = "publishConfirmed" THEN "CONFIRMED" ELSE "FAILED"
        BY <2>1, <4>1 DEF KeepsStatus
      <4>3. \/ at'[w] = "return" /\ published'[MailId(o, order[o])] > 0
            \/ at'[w] = "publishFailed" /\ order[o] = "FAILED"
        BY <3>1, <3>4, <4>2, AnnouncementMade
           DEF PublishConfirmed, PublishRelease, PublishFailed, PublishStep
      <4> QED
        BY <2>4, <3>1, <3>2, <4>1, <4>2, <4>3 DEF KeepsStatus, Final, MailId, Announcement
    <3> QED
      BY <1>2, <2>4, <3>3, <3>4, OrderHandler
  <2>5. ASSUME NEW m \in Message, Deliver(w, m), C!Receive(w, m), at'[w] = "start"
        PROVE  KeepsStatus(w)'
    <3>1. held'[w] = m /\ m.id \notin processed /\ processed' = processed /\ pc'[w] = "running"
      BY <2>5 DEF C!Receive, Types, CP!TypeOK
    <3> QED
      BY <2>5, <3>1 DEF KeepsStatus
  <2>6. CASE HandlerStep(w)
    BY <2>4, <2>6, HandlerStepTypes
  <2>7. CASE ~ HandlerStep(w) /\ pc'[w] \in {"running", "done"}
    <3>1. pc'[w] = "done" => held'[w] = held[w] /\ (pc[w] = "done" \/ at[w] = "return")
      BY DoneMoves
    <3>2. pc'[w] = "done" => at'[w] = "none"
      BY DEF Types
    <3>3. pc'[w] = "running" => at'[w] # "none"
      BY DEF Types
    <3>4. at[w] # "none" => pc[w] = "running"
      BY DEF Types
    <3> QED
      BY <2>3, <2>5, <2>7, <3>1, <3>2, <3>3, <3>4, WorkerMoves
  <2> QED
    BY <2>2, <2>6, <2>7
<1>3. ASSUME NEW o \in Orders, order'[o] \in Final
      PROVE  \/ published'[MailId(o, order'[o])] > 0
             \/ \E e \in Answers : published'[<<e, o>>] > 0 /\ <<e, o>> \notin processed'
  <2>1. \A e \in Answers : <<e, o>> \in Ids
    BY IdParts DEF Answers, EventTypes
  <2>2. CASE order'[o] = order[o]
    <3>1. MailId(o, order[o]) \in Ids
      BY <1>3, <2>2, MailParts
    <3>2. CASE published[MailId(o, order[o])] > 0
      BY <1>1, <2>2, <3>1, <3>2
    <3>3. ASSUME NEW e \in Answers, published[<<e, o>>] > 0, <<e, o>> \notin processed,
                 NEW w \in Workers, C!MarkProcessed(w), held[w].id = <<e, o>>
          PROVE  published[MailId(o, order[o])] > 0
      <4>1. pc[w] = "done" /\ EventAt(w) = e /\ OrderAt(w) = o
        BY <3>3 DEF C!MarkProcessed, C!Goto, EventAt, OrderAt, Event, OrderOf
      <4>2. w[1] = "order.processing"
        BY <4>1, AnswersAtHand
      <4> QED
        BY <4>1, <4>2 DEF StatusInv, KeepsStatus
    <3>4. ASSUME NEW e \in Answers, published[<<e, o>>] > 0, <<e, o>> \notin processed
          PROVE  published[MailId(o, order[o])] > 0 \/ <<e, o>> \notin processed'
      BY <3>3, <3>4, ProcessedMoves DEF C!MarkProcessed
    <3> QED
      BY <1>1, <1>3, <2>1, <2>2, <3>2, <3>4 DEF StatusInv
  <2>3. ASSUME NEW p \in Orders, CreateOrder(p)
        PROVE  order'[o] = order[o]
    BY <1>3, <2>3 DEF CreateOrder, Types, Final
  <2>4. ASSUME NEW w \in Workers, Decides(w), OrderAt(w) = o
        PROVE  \E e \in Answers : published'[<<e, o>>] > 0 /\ <<e, o>> \notin processed'
    <3>1. /\ w[1] = "order.processing" /\ pc[w] = "running" /\ EventAt(w) \in Answers
          /\ UNCHANGED consumerVars
      BY <2>4, DecisionTaken
    <3>2. held[w].id = <<EventAt(w), o>> /\ published[held[w].id] > 0
      BY <2>4, <3>1, HeldParts DEF ProtocolInv, CP!CopiesWerePublished
    <3>3. held[w].id \notin processed
      BY <3>1 DEF StatusInv, KeepsStatus
    <3> QED
      BY <3>1, <3>2, <3>3 DEF consumerVars
  <2>5. ASSUME NEW w \in Workers, Decides(w), OrderAt(w) # o
        PROVE  order'[o] = order[o]
    BY <2>5, DecisionTaken DEF Types
  <2> QED
    BY <2>2, <2>3, <2>4, <2>5, OrderMoves
<1> QED
  BY <1>2, <1>3 DEF StatusInv, MailId, Announcement

LEMMA StatusInit == Init => StatusInv
BY DEF Init, C!Init, StatusInv, KeepsStatus, Final

\* With one order worker that takes one order at a time, no order is decided in
\* silence either, whatever else fails, is retried, comes twice or crashes: a
\* retry that decides otherwise than the attempt before it announces that, too.
THEOREM OneProcessorAnnounces ==
  ASSUME OneProcessor
  PROVE  Spec => []DecidedIsAnnounced
<1>1. ASSUME DriveInv, MailsSent, StatusInv
      PROVE  DecidedIsAnnounced
  <2> SUFFICES ASSUME NEW o \in Orders, order[o] \in Final
               PROVE  mails[o][order[o]] > 0 \/ Driven(Deciding \union Announcing, o)
    BY DEF DecidedIsAnnounced
  <2>1. CASE published[MailId(o, order[o])] > 0
    BY <1>1, <2>1, AnnouncementArrives DEF Driven
  <2>2. ASSUME NEW e \in Answers, published[<<e, o>>] > 0, <<e, o>> \notin processed
        PROVE  Driven(Deciding \union Announcing, o)
    <3>1. <<e, o>> \in Ids /\ e \in Deciding
      BY IdParts DEF Answers, EventTypes, Deciding
    <3> QED
      BY <1>1, <2>2, <3>1, Unclaimed DEF Driven
  <2> QED
    BY <1>1, <2>1, <2>2 DEF StatusInv
<1>2. MailsSent /\ DriveInv /\ [Next]_vars => MailsSent'
  BY MailsSentStep DEF DriveInv
<1>3. StatusInv /\ DriveInv /\ DriveInv' /\ [Next]_vars => StatusInv'
  BY StatusStep
<1> QED
  BY <1>1, <1>2, <1>3, MailsSentInit, StatusInit, DriveInvariance, PTL DEF Spec
-----------------------------------------------------------------------------
(* From event to event *)

CreatedId(o)  == <<"order.created", o>>
ReservedId(o) == <<"inventory.reserved", o>>
RefusalId(o)  == <<"inventory.reservation.failed", o>>
ReleaseId(o)  == <<"inventory.release", o>>

LEMMA EventIds ==
  ASSUME NEW o \in Orders
  PROVE  /\ CreatedId(o) \in Ids /\ ReservedId(o) \in Ids /\ RefusalId(o) \in Ids
         /\ ReleaseId(o) \in Ids
         /\ \A e \in Answers : <<e, o>> \in Ids
         /\ \A f \in Final : MailId(o, f) \in Ids
BY IdParts, MailParts DEF CreatedId, ReservedId, RefusalId, ReleaseId, Answers, EventTypes

\* The handler of an event of that type goes on from one position to another.
Goes(w, event, from, to) ==
  /\ EventAt(w) = event
  /\ at[w] = from
  /\ at' = [at EXCEPT ![w] = to]

\* The ways through the handlers of order.created and inventory.release.
LEMMA InventoryPaths ==
  ASSUME Types, FlowInv, NEW w \in Workers
  PROVE  /\ ReserveLookup(w) =>
              \/ /\ Goes(w, "order.created", "start", "publishReserved")
                 /\ OrderAt(w) \in reservations
              \/ Goes(w, "order.created", "start", "reserving")
         /\ ReserveFinish(w) =>
              \/ /\ Goes(w, "order.created", "reserving", "publishRefused")
                 /\ I!Refused(OrderAt(w))
                 /\ reservations' = reservations
              \/ /\ Goes(w, "order.created", "reserving", "publishReserved")
                 /\ ~ I!Refused(OrderAt(w)) /\ OrderAt(w) \notin reservations
                 /\ reservations' = reservations \union {OrderAt(w)}
         /\ PublishReserved(w) => Goes(w, "order.created", "publishReserved", "return")
         /\ PublishRefused(w) => Goes(w, "order.created", "publishRefused", "return")
         /\ ReleaseLookup(w) =>
              \/ /\ Goes(w, "inventory.release", "start", "releasing")
                 /\ OrderAt(w) \in reservations
              \/ /\ Goes(w, "inventory.release", "start", "return")
                 /\ OrderAt(w) \notin reservations
         /\ ReleaseFinish(w) =>
              /\ Goes(w, "inventory.release", "releasing", "return")
              /\ OrderAt(w) \in reservations
              /\ reservations' = reservations \ {OrderAt(w)}
<1>1. at[w] # "none" =>
        /\ EventAt(w) \in EventTypes
        /\ BoundQueue(EventAt(w)) = w[1]
  BY RunningParts DEF FlowInv, HandlerKeepsToItsQueue
<1>2. at[w] # "none" /\ w[1] = "inventory.reserve" => EventAt(w) = "order.created"
  BY <1>1, Routing DEF EventTypes
<1>3. at[w] # "none" /\ w[1] = "inventory.release" => EventAt(w) = "inventory.release"
  BY <1>1, Routing DEF EventTypes
<1>4. at[w] \in {"publishReserved", "publishRefused"} => w[1] = "inventory.reserve"
  BY DEF FlowInv, HandlerKeepsToItsQueue
<1>5. /\ ReserveLookup(w) =>
           \/ /\ Goes(w, "order.created", "start", "publishReserved")
              /\ OrderAt(w) \in reservations
           \/ Goes(w, "order.created", "start", "reserving")
      /\ ReleaseLookup(w) =>
           \/ /\ Goes(w, "inventory.release", "start", "releasing")
              /\ OrderAt(w) \in reservations
           \/ /\ Goes(w, "inventory.release", "start", "return")
              /\ OrderAt(w) \notin reservations
  BY <1>2, <1>3 DEF ReserveLookup, ReleaseLookup, At, Goto, Goes
<1>6. ReserveFinish(w) =>
        \/ /\ Goes(w, "order.created", "reserving", "publishRefused")
           /\ I!Refused(OrderAt(w))
           /\ reservations' = reservations
        \/ /\ Goes(w, "order.created", "reserving", "publishReserved")
           /\ ~ I!Refused(OrderAt(w)) /\ OrderAt(w) \notin reservations
           /\ reservations' = reservations \union {OrderAt(w)}
  BY <1>2 DEF ReserveFinish, At, Goto, Goes, I!TakeStock, stockVars
<1>7. ReleaseFinish(w) =>
        /\ Goes(w, "inventory.release", "releasing", "return")
        /\ OrderAt(w) \in reservations
        /\ reservations' = reservations \ {OrderAt(w)}
  BY <1>3 DEF ReleaseFinish, At, Goto, Goes, I!ReturnStock
<1>8. /\ PublishReserved(w) => Goes(w, "order.created", "publishReserved", "return")
      /\ PublishRefused(w) => Goes(w, "order.created", "publishRefused", "return")
  BY <1>2, <1>4 DEF PublishReserved, PublishRefused, PublishStep, Goto, Goes
<1> QED
  BY <1>5, <1>6, <1>7, <1>8

WithinLimit(o) == Verdict("inventory.reserved", o) = "CONFIRMED"

\* The ways through the handlers of the answers.  Only a retry mistakes a refusal
\* for a reservation.
LEMMA OrderPaths ==
  ASSUME Types, FlowInv, NEW w \in Workers
  PROVE  /\ Decides(w) =>
              LET o == OrderAt(w)
                  Sets(status) == order' = [order EXCEPT ![o] = status]
              IN  \/ /\ Goes(w, "inventory.reserved", "start", "publishConfirmed")
                     /\ Sets("CONFIRMED") /\ WithinLimit(o)
                  \/ /\ Goes(w, "inventory.reserved", "start", "publishRelease")
                     /\ Sets("FAILED") /\ ~ WithinLimit(o)
                  \/ /\ Goes(w, "inventory.reservation.failed", "start", "publishFailed")
                     /\ Sets("FAILED")
                  \/ /\ Goes(w, "inventory.reservation.failed", "start", "publishConfirmed")
                     /\ Sets("CONFIRMED") /\ held[w].retry # 0
         /\ PublishConfirmed(w) =>
              \E e \in Answers : Goes(w, e, "publishConfirmed", "return")
         /\ PublishRelease(w) =>
              \E e \in Answers : Goes(w, e, "publishRelease", "publishFailed")
         /\ PublishFailed(w) =>
              \E e \in Answers : Goes(w, e, "publishFailed", "return")
<1>1. at[w] # "none" /\ w[1] = "order.processing" => EventAt(w) \in Answers
  BY RunningParts, AnswersAtHand
<1>2. at[w] \in {"publishRelease", "publishConfirmed", "publishFailed"} =>
        w[1] = "order.processing"
  BY DEF FlowInv, HandlerKeepsToItsQueue
<1>3. /\ PublishConfirmed(w) =>
           \E e \in Answers : Goes(w, e, "publishConfirmed", "return")
      /\ PublishRelease(w) =>
           \E e \in Answers : Goes(w, e, "publishRelease", "publishFailed")
      /\ PublishFailed(w) =>
           \E e \in Answers : Goes(w, e, "publishFailed", "return")
  BY <1>1, <1>2 DEF PublishConfirmed, PublishRelease, PublishFailed, PublishStep, Goto, Goes
<1> DEFINE o == OrderAt(w)
           Sets(status) == order' = [order EXCEPT ![o] = status]
<1>4. IsReservationFailed(w) /\ EventAt(w) \in Answers =>
        EventAt(w) = "inventory.reservation.failed"
  BY Routing DEF IsReservationFailed, DeliveredKey, Answers
<1>5. EventAt(w) = "inventory.reservation.failed" /\ held[w].retry = 0 => IsReservationFailed(w)
  BY DEF IsReservationFailed, DeliveredKey
<1>6. ApplyReservationFailed(w) =>
        Goes(w, "inventory.reservation.failed", "start", "publishFailed") /\ Sets("FAILED")
  BY <1>1, <1>4 DEF ApplyReservationFailed, At, Goto, Goes, SetStatus
<1>7. ASSUME ApplyReserved(w)
      PROVE  \/ /\ Goes(w, "inventory.reserved", "start", "publishConfirmed")
                /\ Sets("CONFIRMED") /\ WithinLimit(o)
             \/ /\ Goes(w, "inventory.reserved", "start", "publishRelease")
                /\ Sets("FAILED") /\ ~ WithinLimit(o)
             \/ /\ Goes(w, "inventory.reservation.failed", "start", "publishConfirmed")
                /\ Sets("CONFIRMED") /\ held[w].retry # 0
  <2> DEFINE status == D!ResolveOrderStatus(TotalAmount(w))
  <2>1. /\ at[w] = "start" /\ EventAt(w) \in Answers /\ ~ IsReservationFailed(w)
        /\ Sets(status)
        /\ at' = [at EXCEPT ![w] = IF status = "CONFIRMED" THEN "publishConfirmed"
                                                          ELSE "publishRelease"]
    BY <1>1, <1>7 DEF ApplyReserved, At, Goto, SetStatus
  <2>2. CASE EventAt(w) = "inventory.reserved"
    <3>1. status = Verdict("inventory.reserved", o)
      BY <2>2 DEF Verdict, TotalAmount
    <3>2. status \in Final
      BY <3>1, VerdictIsFinal
    <3> HIDE DEF status
    <3> QED
      BY <2>1, <2>2, <3>1, <3>2 DEF Goes, WithinLimit, Final
  <2>3. CASE EventAt(w) = "inventory.reservation.failed"
    <3>1. status = "CONFIRMED"
      BY <2>3 DEF TotalAmount, D!ResolveOrderStatus
    <3> HIDE DEF status
    <3> QED
      BY <1>5, <2>1, <2>3, <3>1 DEF Goes
  <2> QED
    BY <2>1, <2>2, <2>3 DEF Answers
<1> QED
  BY <1>3, <1>6, <1>7 DEF Decides

\* The reservations change at a worker's commit only.
LEMMA ReservationsMove ==
  ASSUME Types, FlowInv, [Next]_vars
  PROVE  \/ reservations' = reservations
         \/ \E w \in Workers :
              /\ ReserveFinish(w)
              /\ Goes(w, "order.created", "reserving", "publishReserved")
              /\ ~ I!Refused(OrderAt(w)) /\ OrderAt(w) \notin reservations
              /\ reservations' = reservations \union {OrderAt(w)}
         \/ \E w \in Workers :
              /\ ReleaseFinish(w)
              /\ Goes(w, "inventory.release", "releasing", "return")
              /\ reservations' = reservations \ {OrderAt(w)}
<1> DEFINE G == \/ reservations' = reservations
                \/ \E w \in Workers :
                     /\ ReserveFinish(w)
                     /\ Goes(w, "order.created", "reserving", "publishReserved")
                     /\ ~ I!Refused(OrderAt(w)) /\ OrderAt(w) \notin reservations
                     /\ reservations' = reservations \union {OrderAt(w)}
                \/ \E w \in Workers :
                     /\ ReleaseFinish(w)
                     /\ Goes(w, "inventory.release", "releasing", "return")
                     /\ reservations' = reservations \ {OrderAt(w)}
<1>1. CASE UNCHANGED vars
  BY <1>1 DEF vars, stockVars
<1>2. ASSUME NEW o \in Orders, CreateOrder(o) \/ RelayPublish(o)
      PROVE  G
  BY <1>2 DEF CreateOrder, RelayPublish, stockVars
<1>3. ASSUME NEW R \in Batches, RelayMark(R) \/ RelayRollBack(R)
      PROVE  G
  BY <1>3 DEF RelayMark, RelayRollBack, stockVars
<1>4. ASSUME NEW m \in Message, NEW w \in Workers, Deliver(w, m)
      PROVE  G
  BY <1>4 DEF Deliver, stockVars
<1>5. ASSUME NEW w \in Workers, ReserveFinish(w) \/ ReleaseFinish(w)
      PROVE  G
  BY <1>5, InventoryPaths
<1>6. ASSUME NEW w \in Workers, HandlerStep(w), ~ ReserveFinish(w), ~ ReleaseFinish(w)
      PROVE  G
  BY <1>6 DEF HandlerStep, ReserveLookup, ReleaseLookup, ApplyReservationFailed, ApplyReserved,
     PublishReserved, PublishRefused, PublishConfirmed, PublishRelease, PublishFailed,
     PublishStep, SendMail, stockVars
<1>7. ASSUME NEW w \in Workers,
             HandlerReturns(w) \/ TransactionConflict(w) \/ Throw(w) \/ Conclude(w)
      PROVE  G
  BY <1>7 DEF HandlerReturns, TransactionConflict, Throw, ThrowFrom, Conclude, stockVars
<1>8. ASSUME NEW m \in Message, Expire(m)
      PROVE  G
  BY <1>8 DEF Expire, stockVars
<1>9. ASSUME NEW p \in Processes, Crash(p) \/ ConnectionLost(p)
      PROVE  G
  BY <1>9 DEF Crash, ConnectionLost, stockVars
<1>10. ASSUME NEW w \in Workers, WorkerStep(w) \/ Throw(w)
       PROVE  G
  BY <1>5, <1>6, <1>7, <1>10 DEF WorkerStep
<1>11. G
  BY <1>1, <1>2, <1>3, <1>4, <1>8, <1>9, <1>10, NextCases
<1> QED
  BY <1>11 DEF G

\* Worker w publishes event id.
Publishes(w, id) ==
  LET o == OrderAt(w)
  IN  \/ PublishReserved(w) /\ id = ReservedId(o)
      \/ PublishRefused(w) /\ id = RefusalId(o)
      \/ PublishRelease(w) /\ id = ReleaseId(o)
      \/ PublishConfirmed(w) /\ id = MailId(o, "CONFIRMED")
      \/ PublishFailed(w) /\ id = MailId(o, "FAILED")

\* An event is published by the relay or by a handler that has come so far.
LEMMA PublishedMoves ==
  ASSUME Types, [Next]_vars, NEW id \in Ids
  PROVE  \/ published'[id] = published[id]
         \/ /\ published'[id] = published[id] + 1
            /\ \/ \E o \in Orders : RelayPublish(o) /\ id = CreatedId(o)
               \/ \E w \in Workers : HandlerStep(w) /\ Publishes(w, id)
<1> DEFINE G == \/ published'[id] = published[id]
                \/ /\ published'[id] = published[id] + 1
                   /\ \/ \E o \in Orders : RelayPublish(o) /\ id = CreatedId(o)
                      \/ \E w \in Workers : HandlerStep(w) /\ Publishes(w, id)
<1>1. ASSUME UNCHANGED published
      PROVE  G
  BY <1>1
<1>2. ASSUME NEW other, C!Publish(other)
      PROVE  \/ published'[id] = published[id]
             \/ published'[id] = published[id] + 1 /\ id = other
  BY <1>2 DEF C!Publish, Types, CP!TypeOK
<1>3. CASE UNCHANGED vars
  BY <1>1, <1>3 DEF vars, consumerVars
<1>4. ASSUME NEW o \in Orders, CreateOrder(o)
      PROVE  G
  BY <1>1, <1>4 DEF CreateOrder, consumerVars
<1>5. ASSUME NEW o \in Orders, RelayPublish(o)
      PROVE  G
  BY <1>2, <1>5 DEF RelayPublish, CreatedId
<1>6. ASSUME NEW R \in Batches, RelayMark(R) \/ RelayRollBack(R)
      PROVE  G
  BY <1>1, <1>6 DEF RelayMark, RelayRollBack, consumerVars
<1>7. ASSUME NEW m \in Message, NEW w \in Workers, Deliver(w, m)
      PROVE  G
  BY <1>1, <1>7 DEF Deliver, C!Receive, C!SkipDuplicate, C!historyVars
<1>8. ASSUME NEW w \in Workers, HandlerStep(w)
      PROVE  G
  <2> DEFINE o == OrderAt(w)
  <2>1. CASE PublishReserved(w)
    <3>1. C!Publish(ReservedId(o))
      BY <2>1 DEF PublishReserved, PublishStep, ReservedId
    <3> QED
      BY <1>2, <1>8, <2>1, <3>1 DEF Publishes
  <2>2. CASE PublishRefused(w)
    <3>1. C!Publish(RefusalId(o))
      BY <2>2 DEF PublishRefused, PublishStep, RefusalId
    <3> QED
      BY <1>2, <1>8, <2>2, <3>1 DEF Publishes
  <2>3. CASE PublishRelease(w)
    <3>1. C!Publish(ReleaseId(o))
      BY <2>3 DEF PublishRelease, PublishStep, ReleaseId
    <3> QED
      BY <1>2, <1>8, <2>3, <3>1 DEF Publishes
  <2>4. CASE PublishConfirmed(w)
    <3>1. C!Publish(MailId(o, "CONFIRMED"))
      BY <2>4 DEF PublishConfirmed, PublishStep, MailId, Announcement
    <3> QED
      BY <1>2, <1>8, <2>4, <3>1 DEF Publishes
  <2>5. CASE PublishFailed(w)
    <3>1. C!Publish(MailId(o, "FAILED"))
      BY <2>5 DEF PublishFailed, PublishStep, MailId, Announcement
    <3> QED
      BY <1>2, <1>8, <2>5, <3>1 DEF Publishes
  <2>6. CASE \/ ReserveLookup(w) \/ ReserveFinish(w) \/ ReleaseLookup(w) \/ ReleaseFinish(w)
             \/ ApplyReservationFailed(w) \/ ApplyReserved(w) \/ SendMail(w)
    BY <1>1, <2>6 DEF ReserveLookup, ReserveFinish, ReleaseLookup, ReleaseFinish,
       ApplyReservationFailed, ApplyReserved, SendMail, consumerVars
  <2> QED
    BY <1>8, <2>1, <2>2, <2>3, <2>4, <2>5, <2>6 DEF HandlerStep
<1>9. ASSUME NEW w \in Workers,
             HandlerReturns(w) \/ TransactionConflict(w) \/ Throw(w) \/ Conclude(w)
      PROVE  G
  BY <1>1, <1>9 DEF HandlerReturns, TransactionConflict, Throw, ThrowFrom, Conclude,
     C!HandlerReturns, C!Throw, C!MarkProcessed, C!Ack, C!Republish, C!Nack, C!historyVars
<1>10. ASSUME NEW m \in Message, Expire(m)
       PROVE  G
  BY <1>1, <1>10 DEF Expire, C!Expire, C!historyVars
<1>11. ASSUME NEW p \in Processes, Crash(p) \/ ConnectionLost(p)
       PROVE  G
  BY <1>1, <1>11 DEF Crash, ConnectionLost, C!Crash, C!ConnectionLost, C!historyVars
<1>12. G
  BY <1>3, <1>4, <1>5, <1>6, <1>7, <1>8, <1>9, <1>10, <1>11, NextCases DEF WorkerStep
<1> QED
  BY <1>12 DEF G

LEMMA Publishers ==
  ASSUME NEW o \in Orders, NEW w \in Workers
  PROVE  /\ Publishes(w, ReservedId(o)) => PublishReserved(w) /\ OrderAt(w) = o
         /\ Publishes(w, RefusalId(o)) => PublishRefused(w) /\ OrderAt(w) = o
         /\ Publishes(w, ReleaseId(o)) => PublishRelease(w) /\ OrderAt(w) = o
         /\ Publishes(w, MailId(o, "CONFIRMED")) => PublishConfirmed(w) /\ OrderAt(w) = o
         /\ Publishes(w, MailId(o, "FAILED")) => PublishFailed(w) /\ OrderAt(w) = o
         /\ ~ Publishes(w, CreatedId(o))
BY DEF Publishes, CreatedId, ReservedId, RefusalId, ReleaseId, MailId, Announcement

\* Who has published what of an order.
LEMMA PublishedBy ==
  ASSUME Types, [Next]_vars, NEW o \in Orders
  PROVE  /\ \/ published'[CreatedId(o)] = published[CreatedId(o)]
            \/ RelayPublish(o)
         /\ \/ published'[ReservedId(o)] = published[ReservedId(o)]
            \/ \E w \in Workers : PublishReserved(w) /\ OrderAt(w) = o
         /\ \/ published'[RefusalId(o)] = published[RefusalId(o)]
            \/ \E w \in Workers : PublishRefused(w) /\ OrderAt(w) = o
         /\ \/ published'[ReleaseId(o)] = published[ReleaseId(o)]
            \/ \E w \in Workers : PublishRelease(w) /\ OrderAt(w) = o
<1>1. \A p : CreatedId(p) = CreatedId(o) => p = o
  BY DEF CreatedId
<1>2. \/ published'[CreatedId(o)] = published[CreatedId(o)]
      \/ RelayPublish(o)
  BY <1>1, PublishedMoves, Publishers, EventIds
<1>3. \A p : CreatedId(p) \notin {ReservedId(o), RefusalId(o), ReleaseId(o)}
  BY DEF CreatedId, ReservedId, RefusalId, ReleaseId
<1>4. \/ published'[ReservedId(o)] = published[ReservedId(o)]
      \/ \E w \in Workers : PublishReserved(w) /\ OrderAt(w) = o
  <2>1. \/ published'[ReservedId(o)] = published[ReservedId(o)]
        \/ \E w \in Workers : Publishes(w, ReservedId(o))
    BY <1>3, EventIds, PublishedMoves
  <2> QED
    BY <2>1, Publishers
<1>5. \/ published'[RefusalId(o)] = published[RefusalId(o)]
      \/ \E w \in Workers : PublishRefused(w) /\ OrderAt(w) = o
  <2>1. \/ published'[RefusalId(o)] = published[RefusalId(o)]
        \/ \E w \in Workers : Publishes(w, RefusalId(o))
    BY <1>3, EventIds, PublishedMoves
  <2> QED
    BY <2>1, Publishers
<1>6. \/ published'[ReleaseId(o)] = published[ReleaseId(o)]
      \/ \E w \in Workers : PublishRelease(w) /\ OrderAt(w) = o
  <2>1. \/ published'[ReleaseId(o)] = published[ReleaseId(o)]
        \/ \E w \in Workers : Publishes(w, ReleaseId(o))
    BY <1>3, EventIds, PublishedMoves
  <2> QED
    BY <2>1, Publishers
<1> QED
  BY <1>2, <1>4, <1>5, <1>6

\* Who holds the message of an event is in its handler.
LEMMA HeldEvent ==
  ASSUME Types, NEW w \in Workers, pc[w] # "idle", NEW o \in Orders, NEW e \in EventTypes
  PROVE  held[w].id = <<e, o>> <=> EventAt(w) = e /\ OrderAt(w) = o
BY HeldParts DEF EventAt, OrderAt, Event, OrderOf

\* What was published stays so.
LEMMA PublishedStays ==
  ASSUME Types, [Next]_vars, NEW id \in Ids, published[id] > 0
  PROVE  published'[id] > 0
BY GlobalMoves
-----------------------------------------------------------------------------
(* Stock that is missing *)

\* The stock of o was taken, and is not given back before its release is asked for.
Granted(o) == o \in reservations \/ published[ReleaseId(o)] > 0

\* Reservations are granted before they are announced, orders over the limit and
\* no others are released, and their release is published before the handler of
\* the reservation returns.
WorkerStock(w) ==
  LET o == OrderAt(w)
      reserved_ == EventAt(w) = "inventory.reserved"
  IN  /\ at[w] = "publishReserved" => Granted(o)
      /\ at[w] = "publishRelease" => reserved_ /\ ~ WithinLimit(o)
      /\ at[w] = "publishConfirmed" /\ reserved_ => WithinLimit(o)
      /\ at[w] \in {"publishFailed", "return"} /\ reserved_ /\ ~ WithinLimit(o) =>
           published[ReleaseId(o)] > 0

\* A status follows from what was published, but for CONFIRMED by the retry of a
\* refusal.
OrderStock(o) ==
  /\ published[ReservedId(o)] > 0 => Granted(o)
  /\ published[ReleaseId(o)] > 0 => published[ReservedId(o)] > 0 /\ ~ WithinLimit(o)
  /\ ReservedId(o) \in handled /\ ~ WithinLimit(o) => published[ReleaseId(o)] > 0
  /\ order[o] = "CONFIRMED" =>
       \/ failures[RefusalId(o)] > 0
       \/ published[ReservedId(o)] > 0 /\ WithinLimit(o)
  /\ order[o] = "FAILED" =>
       \/ published[RefusalId(o)] > 0
       \/ published[ReservedId(o)] > 0 /\ ~ WithinLimit(o)

StockInv ==
  /\ \A m \in failedAt : failures[m.id] > 0
  /\ \A w \in Workers : WorkerStock(w)
  /\ \A o \in Orders : OrderStock(o)

LEMMA HeldIsPublished ==
  ASSUME DriveInv, NEW w \in Workers, pc[w] # "idle"
  PROVE  published[held[w].id] > 0
BY DEF DriveInv, ProtocolInv, CP!CopiesWerePublished

\* A copy that is not the first failed before.
LEMMA RetriesFailed ==
  ASSUME DriveInv, StockInv, NEW w \in Workers, pc[w] # "idle", held[w].retry # 0
  PROVE  failures[held[w].id] > 0
<1>1. held[w] \in CP!Message
  BY HeldParts, SameProtocol DEF DriveInv
<1>2. held[w].retry \in 0 .. MaxRetries
  BY <1>1 DEF CP!Message
<1>3. CP!FailedBefore(held[w])
  BY DEF DriveInv, ProtocolInv, CP!RetryInv, CP!RetryCountsFailures
<1>4. [id |-> held[w].id, retry |-> 0] \in failedAt
  BY <1>2, <1>3, SagaAssumption DEF CP!FailedBefore
<1> QED
  BY <1>4 DEF StockInv

LEMMA FailedAtMoves ==
  ASSUME Types, [Next]_vars, \A m \in failedAt : failures[m.id] > 0
  PROVE  \A m \in failedAt' : failures'[m.id] > 0
<1> DEFINE G == \A m \in failedAt' : failures'[m.id] > 0
<1>1. ASSUME UNCHANGED <<failedAt, failures>>
      PROVE  G
  BY <1>1
<1>2. CASE UNCHANGED vars
  BY <1>1, <1>2 DEF vars, consumerVars
<1>3. ASSUME NEW o \in Orders, CreateOrder(o) \/ RelayPublish(o)
      PROVE  G
  BY <1>1, <1>3 DEF CreateOrder, RelayPublish, C!Publish, consumerVars
<1>4. ASSUME NEW R \in Batches, RelayMark(R) \/ RelayRollBack(R)
      PROVE  G
  BY <1>1, <1>4 DEF RelayMark, RelayRollBack, consumerVars
<1>5. ASSUME NEW m \in Message, NEW w \in Workers, Deliver(w, m)
      PROVE  G
  BY <1>1, <1>5 DEF Deliver, C!Receive, C!SkipDuplicate, C!historyVars
<1>6. ASSUME NEW w \in Workers, HandlerStep(w)
      PROVE  G
  <2>1. failedAt' = failedAt
    BY <1>6, HandlerStepIsStep DEF consumerVars, CP!Publish
  <2> QED
    BY <1>1, <1>6, <2>1, HandlerStepTypes
<1>7. ASSUME NEW w \in Workers, HandlerReturns(w) \/ Conclude(w)
      PROVE  G
  BY <1>1, <1>7 DEF HandlerReturns, Conclude, C!HandlerReturns, C!MarkProcessed, C!Ack,
     C!Republish, C!Nack, C!historyVars
<1>8. ASSUME NEW w \in Workers, TransactionConflict(w) \/ Throw(w)
      PROVE  G
  <2>1. /\ pc[w] # "idle" /\ failedAt' = failedAt \union {held[w]}
        /\ failures' = [failures EXCEPT ![held[w].id] = @ + 1]
    BY <1>8 DEF TransactionConflict, Throw, ThrowFrom, C!Throw, C!Goto
  <2>2. held[w].id \in Ids /\ failedAt \subseteq CP!Message
    BY <2>1, HeldParts DEF Types, CP!TypeOK
  <2>3. \A m \in failedAt : m.id \in Ids
    BY <2>2 DEF CP!Message
  <2>4. \A id \in Ids : failures[id] \in Nat
    BY DEF Types
  <2> QED
    BY <2>1, <2>2, <2>3, <2>4 DEF Types
<1>9. ASSUME NEW m \in Message, Expire(m)
      PROVE  G
  BY <1>1, <1>9 DEF Expire, C!Expire, C!historyVars
<1>10. ASSUME NEW p \in Processes, Crash(p) \/ ConnectionLost(p)
       PROVE  G
  BY <1>1, <1>10 DEF Crash, ConnectionLost, C!Crash, C!ConnectionLost, C!historyVars
<1> QED
  BY <1>2, <1>3, <1>4, <1>5, <1>6, <1>7, <1>8, <1>9, <1>10, NextCases DEF WorkerStep

\* Stock goes back only when its release was asked for.
LEMMA GrantedStays ==
  ASSUME DriveInv, [Next]_vars, NEW o \in Orders, Granted(o)
  PROVE  Granted(o)'
<1> USE DEF DriveInv
<1>1. CASE published[ReleaseId(o)] > 0
  BY <1>1, EventIds, PublishedStays DEF Granted, ReleaseId
<1>2. CASE o \in reservations
  <2>1. ASSUME NEW w \in Workers, Goes(w, "inventory.release", "releasing", "return"),
               OrderAt(w) = o
        PROVE  published[ReleaseId(o)] > 0
    <3>1. pc[w] # "idle" /\ held[w].id = ReleaseId(o)
      BY <2>1, RunningParts DEF Goes, ReleaseId
    <3> QED
      BY <3>1, HeldIsPublished
  <2> QED
    BY <1>1, <1>2, <2>1, ReservationsMove DEF Granted
<1> QED
  BY <1>1, <1>2 DEF Granted

LEMMA WorkerStockStep ==
  ASSUME DriveInv, StockInv, [Next]_vars, NEW w \in Workers
  PROVE  WorkerStock(w)'
<1> USE DEF DriveInv
<1> DEFINE o == OrderAt(w)
<1>1. WorkerStock(w)
  BY DEF StockInv
<1>2. CASE at'[w] \in {"none", "start"}
  BY <1>2 DEF WorkerStock
<1>3. ASSUME pc[w] # "idle", held'[w] = held[w]
      PROVE  /\ o \in Orders /\ OrderAt(w)' = o /\ EventAt(w)' = EventAt(w)
             /\ WithinLimit(o)' <=> WithinLimit(o)
             /\ Granted(o) => Granted(OrderAt(w))'
             /\ published[ReleaseId(o)] > 0 => published'[ReleaseId(o)] > 0
  <2>1. o \in Orders /\ OrderAt(w)' = o /\ EventAt(w)' = EventAt(w)
    BY <1>3, HeldParts DEF OrderAt, EventAt
  <2>2. Granted(o) => Granted(OrderAt(w))'
    BY <2>1, GrantedStays DEF Granted
  <2> QED
    BY <2>1, <2>2, EventIds, PublishedStays DEF WithinLimit, Verdict
<1>4. CASE pc[w] # "idle" /\ held'[w] = held[w] /\ at'[w] = at[w]
  BY <1>1, <1>3, <1>4 DEF WorkerStock, ReleaseId
<1>5. CASE HandlerStep(w) /\ held'[w] = held[w]
  <2>1. pc[w] # "idle" /\ at \in [Workers -> Positions]
    BY <1>5, HandlerStepTypes, RunningParts DEF Types
  <2>2. /\ o \in Orders /\ OrderAt(w)' = o /\ EventAt(w)' = EventAt(w)
        /\ WithinLimit(o)' <=> WithinLimit(o)
        /\ Granted(o) => Granted(OrderAt(w))'
        /\ published[ReleaseId(o)] > 0 => published'[ReleaseId(o)] > 0
    BY <1>3, <1>5, <2>1
  <2>3. CASE ReserveLookup(w)
    BY <2>1, <2>2, <2>3, InventoryPaths DEF Goes, WorkerStock, Granted
  <2>4. CASE ReserveFinish(w)
    BY <2>1, <2>2, <2>4, InventoryPaths DEF Goes, WorkerStock, Granted
  <2>5. CASE PublishReserved(w) \/ PublishRefused(w) \/ ReleaseLookup(w) \/ ReleaseFinish(w)
    BY <2>1, <2>2, <2>5, InventoryPaths DEF Goes, WorkerStock
  <2>6. CASE Decides(w)
    BY <2>1, <2>2, <2>6, OrderPaths DEF Goes, WorkerStock
  <2>7. CASE PublishRelease(w)
    <3>1. at'[w] = "publishFailed"
      BY <2>1, <2>7, OrderPaths DEF Goes
    <3>2. C!Publish(ReleaseId(o)) /\ ReleaseId(o) \in Ids
      BY <2>2, <2>7, EventIds DEF PublishRelease, PublishStep, ReleaseId
    <3>3. published'[ReleaseId(o)] > 0
      BY <3>2 DEF C!Publish, Types, CP!TypeOK
    <3> QED
      BY <2>2, <3>1, <3>3 DEF WorkerStock, ReleaseId
  <2>8. CASE PublishConfirmed(w) \/ PublishFailed(w)
    BY <1>1, <2>1, <2>2, <2>8, OrderPaths DEF Goes, WorkerStock, ReleaseId
  <2>9. CASE SendMail(w)
    <3>1. at'[w] = "return" /\ EventAt(w) # "inventory.reserved"
      BY <2>1, <2>9 DEF SendMail, Goto, Announcement
    <3> QED
      BY <2>2, <3>1 DEF WorkerStock
  <2> QED
    BY <1>5, <2>3, <2>4, <2>5, <2>6, <2>7, <2>8, <2>9 DEF HandlerStep, Decides
<1> QED
  BY <1>2, <1>4, <1>5, WorkerMoves

LEMMA OrderStockStep ==
  ASSUME DriveInv, StockInv, [Next]_vars, NEW o \in Orders
  PROVE  OrderStock(o)'
<1> USE DEF DriveInv
<1>1. OrderStock(o) /\ \A w \in Workers : WorkerStock(w)
  BY DEF StockInv
<1>2. \A id \in Ids : published[id] > 0 => published'[id] > 0
  BY PublishedStays
<1>3. /\ ReservedId(o) \in Ids /\ RefusalId(o) \in Ids /\ ReleaseId(o) \in Ids
      /\ ReservedId(o)' = ReservedId(o) /\ RefusalId(o)' = RefusalId(o)
      /\ ReleaseId(o)' = ReleaseId(o) /\ (WithinLimit(o)' <=> WithinLimit(o))
  BY EventIds DEF ReservedId, RefusalId, ReleaseId, WithinLimit, Verdict
<1>4. Granted(o) => Granted(o)'
  BY GrantedStays
<1>5. ASSUME published'[ReservedId(o)] > 0
      PROVE  Granted(o)'
  <2>1. CASE published[ReservedId(o)] > 0
    BY <1>1, <1>4, <2>1 DEF OrderStock
  <2>2. ASSUME NEW w \in Workers, PublishReserved(w), OrderAt(w) = o
        PROVE  Granted(o)
    BY <1>1, <2>2 DEF PublishReserved, PublishStep, WorkerStock
  <2>3. published'[ReservedId(o)] = published[ReservedId(o)]
          \/ \E w \in Workers : PublishReserved(w) /\ OrderAt(w) = o
    BY PublishedBy, <1>3
  <2> QED
    BY <1>4, <1>5, <2>1, <2>2, <2>3
<1>6. ASSUME published'[ReleaseId(o)] > 0
      PROVE  published'[ReservedId(o)] > 0 /\ ~ WithinLimit(o)
  <2>1. CASE published[ReleaseId(o)] > 0
    BY <1>1, <1>2, <1>3, <2>1 DEF OrderStock
  <2>2. ASSUME NEW w \in Workers, PublishRelease(w), OrderAt(w) = o
        PROVE  published[ReservedId(o)] > 0 /\ ~ WithinLimit(o)
    <3>1. at[w] = "publishRelease" /\ EventAt(w) = "inventory.reserved" /\ ~ WithinLimit(o)
      BY <1>1, <2>2 DEF PublishRelease, PublishStep, WorkerStock
    <3>2. pc[w] # "idle" /\ held[w].id = ReservedId(o)
      BY <2>2, <3>1, RunningParts DEF ReservedId
    <3> QED
      BY <3>1, <3>2, HeldIsPublished
  <2>3. published'[ReleaseId(o)] = published[ReleaseId(o)]
          \/ \E w \in Workers : PublishRelease(w) /\ OrderAt(w) = o
    BY PublishedBy, <1>3
  <2> QED
    BY <1>2, <1>3, <1>6, <2>1, <2>2, <2>3
<1>7. ASSUME ReservedId(o) \in handled', ~ WithinLimit(o)
      PROVE  published'[ReleaseId(o)] > 0
  <2>1. CASE ReservedId(o) \in handled
    BY <1>1, <1>2, <1>3, <1>7, <2>1 DEF OrderStock
  <2>2. ASSUME NEW w \in Workers, at[w] = "return", held[w].id = ReservedId(o)
        PROVE  published[ReleaseId(o)] > 0
    <3>1. EventAt(w) = "inventory.reserved" /\ OrderAt(w) = o
      BY <2>2 DEF EventAt, OrderAt, Event, OrderOf, ReservedId
    <3> QED
      BY <1>1, <1>7, <2>2, <3>1 DEF WorkerStock
  <2> QED
    BY <1>2, <1>3, <1>7, <2>1, <2>2, GlobalMoves
<1>8. \A id \in Ids : failures[id] > 0 => failures'[id] > 0
  <2> SUFFICES ASSUME NEW id \in Ids, failures[id] > 0
               PROVE  failures'[id] > 0
    OBVIOUS
  <2>1. failures'[id] >= failures[id]
    BY CostsGrow
  <2>2. failures[id] \in Nat /\ failures'[id] \in Nat
    BY TypesStep DEF Types
  <2> QED
    BY <2>1, <2>2
<1>9. /\ order'[o] = "CONFIRMED" =>
           \/ failures'[RefusalId(o)] > 0
           \/ published'[ReservedId(o)] > 0 /\ WithinLimit(o)
      /\ order'[o] = "FAILED" =>
           \/ published'[RefusalId(o)] > 0
           \/ published'[ReservedId(o)] > 0 /\ ~ WithinLimit(o)
  <2> DEFINE G(status) ==
               /\ status = "CONFIRMED" =>
                    \/ failures'[RefusalId(o)] > 0
                    \/ published'[ReservedId(o)] > 0 /\ WithinLimit(o)
               /\ status = "FAILED" =>
                    \/ published'[RefusalId(o)] > 0
                    \/ published'[ReservedId(o)] > 0 /\ ~ WithinLimit(o)
  <2>1. CASE order'[o] = order[o]
    BY <1>1, <1>2, <1>3, <1>8, <2>1 DEF OrderStock
  <2>2. ASSUME NEW p \in Orders, CreateOrder(p), p = o
        PROVE  G(order'[o])
    BY <2>2 DEF CreateOrder, Types
  <2>3. ASSUME NEW w \in Workers, Decides(w), OrderAt(w) = o
        PROVE  G(order'[o])
    <3>1. pc[w] # "idle" /\ order'[o] = [order EXCEPT ![o] = order'[o]][o]
      BY <2>3, DecisionTaken DEF Types
    <3>2. published[held[w].id] > 0
      BY <3>1, HeldIsPublished
    <3>3. held[w].id = <<EventAt(w), o>> /\ held[w].id \in Ids
      BY <2>3, <3>1, HeldParts
    <3>4. held[w].retry # 0 => failures[held[w].id] > 0
      BY <3>1, RetriesFailed
    <3>5. \/ EventAt(w) = "inventory.reserved" /\ order'[o] = "CONFIRMED" /\ WithinLimit(o)
          \/ EventAt(w) = "inventory.reserved" /\ order'[o] = "FAILED" /\ ~ WithinLimit(o)
          \/ EventAt(w) = "inventory.reservation.failed" /\ order'[o] = "FAILED"
          \/ /\ EventAt(w) = "inventory.reservation.failed" /\ order'[o] = "CONFIRMED"
             /\ held[w].retry # 0
      BY <2>3, OrderPaths DEF Goes, Types
    <3> QED
      BY <1>2, <1>8, <3>2, <3>3, <3>4, <3>5 DEF ReservedId, RefusalId
  <2>4. ASSUME NEW w \in Workers, Decides(w), OrderAt(w) # o
        PROVE  order'[o] = order[o]
    BY <2>4, DecisionTaken DEF Types
  <2>5. ASSUME NEW p \in Orders, CreateOrder(p), p # o
        PROVE  order'[o] = order[o]
    BY <2>5 DEF CreateOrder, Types
  <2> QED
    BY <2>1, <2>2, <2>3, <2>4, <2>5, OrderMoves
<1> QED
  BY <1>3, <1>5, <1>6, <1>7, <1>9 DEF OrderStock

LEMMA StockStep ==
  ASSUME DriveInv, StockInv, [Next]_vars
  PROVE  StockInv'
<1>1. \A m \in failedAt' : failures'[m.id] > 0
  BY FailedAtMoves DEF DriveInv, StockInv
<1> QED
  BY <1>1, WorkerStockStep, OrderStockStep DEF StockInv

LEMMA StockInit == Init => StockInv
<1> SUFFICES ASSUME Init
             PROVE  StockInv
  OBVIOUS
<1>1. \A o \in Orders : OrderStock(o)
  BY EventIds DEF Init, C!Init, OrderStock
<1>2. \A w \in Workers : WorkerStock(w)
  BY DEF Init, WorkerStock
<1> QED
  BY <1>1, <1>2 DEF Init, C!Init, StockInv

LEMMA StockInvariance == Spec => [](DriveInv /\ StockInv)
<1>1. DriveInv /\ StockInv /\ [Next]_vars => StockInv'
  BY StockStep
<1> QED
  BY <1>1, StockInit, DriveInvariance, PTL DEF Spec

\* Whatever fails, is retried, crashes or comes twice: an order is CONFIRMED
\* without stock only after the processing of its refusal failed, so that the
\* order worker took the retry for a reservation.
THEOREM OnlyRetriesConfirmWithoutStock == Spec => []UnstockedOnlyAfterRetry
<1>1. ASSUME StockInv
      PROVE  UnstockedOnlyAfterRetry
  BY <1>1 DEF StockInv, OrderStock, Granted, UnstockedOnlyAfterRetry, RefusalId
<1> QED
  BY <1>1, StockInvariance, PTL

\* While no step fails, a CONFIRMED order holds its stock: with any replicas,
\* overlapping invocations, crashes and lost connections.
THEOREM ConfirmedOrdersHoldStock ==
  ASSUME MaxErrors = 0
  PROVE  Spec => []ConfirmedOnlyWithStock
<1>1. ASSUME StockInv, VerdictInv
      PROVE  ConfirmedOnlyWithStock
  <2> SUFFICES ASSUME NEW o \in Orders, order[o] = "CONFIRMED"
               PROVE  o \in reservations
    BY DEF ConfirmedOnlyWithStock
  <2>1. PICK e \in Answers : published[<<e, o>>] > 0 /\ Verdict(e, o) = "CONFIRMED"
    BY <1>1 DEF VerdictInv, Final
  <2>2. e = "inventory.reserved" /\ WithinLimit(o) /\ published[ReservedId(o)] > 0
    BY <2>1 DEF Verdict, WithinLimit, ReservedId
  <2> QED
    BY <1>1, <2>2 DEF StockInv, OrderStock, Granted
<1>2. VerdictInv /\ DriveInv /\ [Next]_vars => VerdictInv'
  BY VerdictStep
<1> QED
  BY <1>1, <1>2, VerdictInit, StockInvariance, PTL DEF Spec
-----------------------------------------------------------------------------
(* Stock that leaks *)

\* Event id was published at most once and its delivery neither failed nor was cut
\* off.
Once(id) == published[id] <= 1 /\ failures[id] = 0 /\ cutOff[id] = 0

Holds(w, id) == pc[w] # "idle" /\ held[w].id = id

\* There is one copy of its message: in its queue or with one invocation that is
\* not going to park another.
Single(id) ==
  /\ \A m \in Message :
       m.id = id =>
         /\ parked[m] = 0
         /\ ready[m] > 0 =>
              m = C!Fresh(id) /\ ready[m] = 1 /\ \A w \in Workers : ~ Holds(w, id)
  /\ \A w \in Workers : Holds(w, id) => pc[w] \notin {"failed", "copied"}
  /\ \A v, w \in Workers : Holds(v, id) /\ Holds(w, id) => v = w

OnceInv == \A id \in Ids : Once(id) => Single(id)

LEMMA OnceBefore ==
  ASSUME Types, Types', [Next]_vars, NEW id \in Ids, Once(id)'
  PROVE  Once(id)
<1>1. published'[id] = published[id] \/ published'[id] = published[id] + 1
  BY PublishedMoves
<1>2. failures'[id] >= failures[id] /\ cutOff'[id] >= cutOff[id]
  BY CostsGrow
<1>3. /\ published[id] \in Nat /\ failures[id] \in Nat /\ cutOff[id] \in Nat
      /\ published'[id] <= 1 /\ failures'[id] = 0 /\ cutOff'[id] = 0
  BY DEF Once, Types, CP!TypeOK
<1> QED
  BY <1>1, <1>2, <1>3 DEF Once

\* The outages of the protocol are crashes and lost connections of the order flow.
LEMMA OutageIsCutOff ==
  ASSUME Types, [Next]_vars, NEW q \in Processes, CP!Crash(q) \/ CP!ConnectionLost(q)
  PROVE  \E p \in Processes : Crash(p) \/ ConnectionLost(p)
<1>1. outages \in Nat /\ outages' = outages + 1
  BY SagaAssumption DEF CP!Crash, CP!ConnectionLost, Types, CP!TypeOK
<1>2. outages' # outages
  BY <1>1
<1>3. ~ UNCHANGED vars
  BY <1>2 DEF vars, consumerVars
<1>4. ~ \E o \in Orders : CreateOrder(o) \/ RelayPublish(o)
  BY <1>2 DEF CreateOrder, RelayPublish, C!Publish, consumerVars
<1>5. ~ \E R \in Batches : RelayMark(R) \/ RelayRollBack(R)
  BY <1>2 DEF RelayMark, RelayRollBack, consumerVars
<1>6. ~ \E m \in Message, w \in Workers : Deliver(w, m)
  BY <1>2 DEF Deliver, C!Receive, C!SkipDuplicate
<1>7. ~ \E w \in Workers : HandlerStep(w)
  BY <1>2, HandlerStepIsStep DEF consumerVars, CP!Publish
<1>8. ~ \E w \in Workers : HandlerReturns(w) \/ Conclude(w)
  BY <1>2 DEF HandlerReturns, Conclude, C!HandlerReturns, C!MarkProcessed, C!Ack, C!Republish,
     C!Nack
<1>9. ~ \E w \in Workers : TransactionConflict(w) \/ Throw(w)
  BY <1>2 DEF TransactionConflict, Throw, ThrowFrom, C!Throw
<1>10. ~ \E m \in Message : Expire(m)
  BY <1>2 DEF Expire, C!Expire
<1> QED
  BY <1>3, <1>4, <1>5, <1>6, <1>7, <1>8, <1>9, <1>10, NextCases DEF WorkerStep

\* A crash or lost connection that cuts no delivery of id off requeues no copy of it.
LEMMA CutOffElsewhere ==
  ASSUME Types, Types', NEW p \in Processes, Crash(p) \/ ConnectionLost(p),
         NEW id \in Ids, Once(id), Once(id)'
  PROVE  /\ parked' = parked
         /\ \A m \in Message : m.id = id => ready'[m] = ready[m]
         /\ \A w \in Workers : pc'[w] # "idle" => pc'[w] = pc[w] /\ held'[w] = held[w]
<1>1. \A w \in Workers : Process(w) = p /\ C!Unacked(w) => held[w].id # id
  BY DEF Crash, ConnectionLost, CutOff, Once, Types
<1>2. \A m \in Message : m.id = id => ready'[m] = ready[m]
  BY <1>1, WorkerParts DEF Crash, ConnectionLost, C!Crash, C!ConnectionLost, C!Requeue, Message
<1>3. \A w \in Workers : pc'[w] # "idle" => pc'[w] = pc[w] /\ held'[w] = held[w]
  BY DEF Crash, ConnectionLost, C!Crash, C!ConnectionLost
<1> QED
  BY <1>2, <1>3 DEF Crash, ConnectionLost, C!Crash, C!ConnectionLost

\* The one copy moves on and is not multiplied.
LEMMA SingleStays ==
  ASSUME DriveInv, DriveInv', StockInv', [Next]_vars,
         NEW id \in Ids, Single(id), Once(id), Once(id)'
  PROVE  Single(id)'
<1> USE DEF Single, Holds, C!Fresh, CP!Fresh
<1>1. /\ CP!TypeOK /\ CP!ProtocolStep /\ Message = CP!Message /\ C!Fresh(id) \in Message
  BY StepIsProtocolStep, SameProtocol, SagaAssumption DEF DriveInv, Types, CP!Message
<1>2. \A m \in failedAt' : m.id # id
  BY DEF Once, StockInv
<1>3. ASSUME UNCHANGED <<ready, parked, pc, held>>
      PROVE  Single(id)'
  BY <1>3
<1>4. CASE UNCHANGED CP!vars
  BY <1>3, <1>4 DEF CP!vars, CP!brokerVars, CP!workerVars
<1>5. ASSUME NEW other \in Ids, CP!Publish(other)
      PROVE  Single(id)'
  <2>1. /\ \A m \in Message : parked'[m] = parked[m]
        /\ pc' = pc /\ held' = held
    BY <1>5 DEF CP!Publish, CP!workerVars
  <2>2. CASE other # id
    <3>1. \A m \in Message : m.id = id => ready'[m] = ready[m]
      BY <1>1, <1>5, <2>2 DEF CP!Publish, CP!Put, CP!TypeOK
    <3> QED
      BY <2>1, <3>1
  <2>3. CASE other = id
    <3>1. published[id] = 0
      BY <1>1, <1>5, <2>3 DEF CP!Publish, CP!TypeOK, Once
    <3>2. /\ \A m \in Message : m.id = id => ready[m] = 0
          /\ \A w \in Workers : ~ Holds(w, id)
      BY <1>1, <3>1 DEF DriveInv, ProtocolInv, CP!CopiesWerePublished, CP!TypeOK
    <3>3. \A m \in Message : ready'[m] = IF m = C!Fresh(id) THEN ready[m] + 1 ELSE ready[m]
      BY <1>1, <1>5, <2>3 DEF CP!Publish, CP!Put, CP!TypeOK
    <3> QED
      BY <2>1, <3>2, <3>3
  <2> QED
    BY <2>2, <2>3
<1>6. ASSUME NEW m \in Message, NEW w \in Workers, CP!Receive(w, m)
      PROVE  Single(id)'
  <2>1. /\ ready[m] > 0 /\ parked' = parked /\ pc[w] = "idle"
        /\ \A n \in Message : ready'[n] = IF n = m THEN ready[m] - 1 ELSE ready[n]
        /\ \A v \in Workers : pc'[v] = IF v = w THEN "running" ELSE pc[v]
        /\ \A v \in Workers : held'[v] = IF v = w THEN m ELSE held[v]
    BY <1>1, <1>6 DEF CP!Receive, CP!CanDeliver, CP!Take, CP!TypeOK
  <2>2. CASE m.id # id
    BY <2>1, <2>2
  <2>3. CASE m.id = id
    <3>1. m = C!Fresh(id) /\ ready[m] = 1 /\ \A v \in Workers : ~ Holds(v, id)
      BY <2>1, <2>3
    <3>2. \A n \in Message : n.id = id => ready'[n] = 0
      BY <1>1, <2>1, <3>1 DEF CP!TypeOK
    <3> QED
      BY <2>1, <3>1, <3>2
  <2> QED
    BY <2>2, <2>3
<1>7. ASSUME NEW m \in Message, NEW w \in Workers, CP!SkipDuplicate(w, m)
      PROVE  Single(id)'
  <2>1. /\ ready[m] > 0 /\ UNCHANGED <<parked, pc, held>>
        /\ \A n \in Message : ready'[n] = IF n = m THEN ready[m] - 1 ELSE ready[n]
        /\ \A n \in Message : ready[n] \in Nat
    BY <1>1, <1>7 DEF CP!SkipDuplicate, CP!CanDeliver, CP!Take, CP!TypeOK, CP!workerVars
  <2>2. \A n \in Message : ready'[n] > 0 => ready[n] > 0 /\ (n # m \/ ready[n] > 1)
    BY <2>1
  <2> QED
    BY <2>1, <2>2
<1>8. ASSUME NEW m \in Message, CP!Expire(m)
      PROVE  Single(id)'
  <2>1. /\ parked[m] > 0 /\ UNCHANGED <<pc, held>>
        /\ \A n \in Message : n # m => ready'[n] = ready[n] /\ parked'[n] = parked[n]
    BY <1>1, <1>8 DEF CP!Expire, CP!Take, CP!Put, CP!TypeOK, CP!workerVars
  <2>2. m.id # id
    BY <2>1
  <2> QED
    BY <2>1, <2>2
<1>9. ASSUME NEW w \in Workers,
             CP!HandlerReturns(w) \/ CP!MarkProcessed(w) \/ CP!ParseFails(w)
      PROVE  Single(id)'
  <2>1. /\ UNCHANGED <<ready, parked, held>>
        /\ pc[w] # "idle" /\ pc'[w] \in {"done", "claimed"}
        /\ \A v \in Workers \ {w} : pc'[v] = pc[v]
    BY <1>1, <1>9 DEF CP!HandlerReturns, CP!MarkProcessed, CP!ParseFails, CP!Goto, CP!brokerVars,
       CP!TypeOK, Malformed
  <2> QED
    BY <2>1
<1>10. ASSUME NEW w \in Workers, CP!Throw(w)
       PROVE  Single(id)'
  <2>1. /\ UNCHANGED <<ready, parked, held>> /\ held[w].id # id
        /\ \A v \in Workers \ {w} : pc'[v] = pc[v]
    BY <1>1, <1>2, <1>10 DEF CP!Throw, CP!Goto, CP!brokerVars, CP!TypeOK
  <2> QED
    BY <2>1
<1>11. ASSUME NEW w \in Workers, CP!Republish(w)
       PROVE  Single(id)'
  <2>1. /\ UNCHANGED <<ready, held>> /\ pc[w] = "failed" /\ held[w].retry < MaxRetries
        /\ parked' = CP!Put(parked, CP!NextTry(held[w]))
        /\ \A v \in Workers \ {w} : pc'[v] = pc[v]
    BY <1>1, <1>11 DEF CP!Republish, CP!Goto, CP!TypeOK
  <2>2. held[w].id # id
    BY <2>1
  <2>3. CP!NextTry(held[w]).id # id
    BY <1>1, <2>1, <2>2, HeldParts DEF CP!NextTry, CP!Message, DriveInv
  <2>4. \A n \in Message : n.id = id => parked'[n] = parked[n]
    BY <1>1, <2>1, <2>3 DEF CP!Put, CP!TypeOK
  <2> QED
    BY <2>1, <2>2, <2>4
<1>12. ASSUME NEW w \in Workers, CP!Ack(w) \/ CP!Nack(w)
       PROVE  Single(id)'
  <2>1. /\ UNCHANGED <<ready, parked>>
        /\ \A v \in Workers : pc'[v] = IF v = w THEN "idle" ELSE pc[v]
        /\ \A v \in Workers \ {w} : held'[v] = held[v]
    BY <1>1, <1>12 DEF CP!Ack, CP!Nack, CP!Finish, CP!brokerVars, CP!TypeOK
  <2> QED
    BY <2>1
<1>13. ASSUME NEW q \in Processes, CP!Crash(q) \/ CP!ConnectionLost(q)
       PROVE  Single(id)'
  <2>1. PICK p \in Processes : Crash(p) \/ ConnectionLost(p)
    BY <1>13, OutageIsCutOff DEF DriveInv
  <2>2. /\ parked' = parked
        /\ \A m \in Message : m.id = id => ready'[m] = ready[m]
        /\ \A w \in Workers : pc'[w] # "idle" => pc'[w] = pc[w] /\ held'[w] = held[w]
    BY <2>1, CutOffElsewhere DEF DriveInv
  <2> QED
    BY <2>2
<1> QED
  BY <1>1, <1>4, <1>5, <1>6, <1>7, <1>8, <1>9, <1>10, <1>11, <1>12, <1>13 DEF CP!ProtocolStep

LEMMA OnceStep ==
  ASSUME DriveInv, DriveInv', StockInv', OnceInv, [Next]_vars
  PROVE  OnceInv'
BY OnceBefore, SingleStays DEF OnceInv, DriveInv

LEMMA OnceInit == Init => OnceInv
<1> SUFFICES ASSUME Init, NEW id \in Ids
             PROVE  Single(id)
  BY DEF OnceInv
<1>1. /\ \A m \in Message : ready[m] = 0 /\ parked[m] = 0
      /\ \A w \in Workers : pc[w] = "idle"
  BY DEF Init, C!Init, Message
<1> QED
  BY <1>1 DEF Single, Holds

\* Event id was published, and its one copy is past the positions A of its handler.
Past(id, A) ==
  /\ published[id] > 0
  /\ ready[C!Fresh(id)] = 0
  /\ \A w \in Workers : at[w] \in A => held[w].id # id

\* Positions no handler comes back to.
Beginnings == {{"start"},
               {"start", "reserving"},
               {"start", "reserving", "publishReserved", "publishRefused"},
               {"start", "publishRelease"},
               {"start", "publishRelease", "publishConfirmed", "publishFailed"}}

LEMMA NoWayBack ==
  ASSUME Types, FlowInv, NEW w \in Workers, HandlerStep(w), NEW A \in Beginnings, at'[w] \in A
  PROVE  at[w] \in A
<1>1. at \in [Workers -> Positions]
  BY DEF Types
<1>2. CASE ReserveLookup(w) \/ ReserveFinish(w)
  BY <1>1, <1>2, InventoryPaths DEF Goes, Beginnings
<1>3. CASE PublishReserved(w) \/ PublishRefused(w) \/ ReleaseLookup(w) \/ ReleaseFinish(w)
  BY <1>1, <1>3, InventoryPaths DEF Goes, Beginnings
<1>4. CASE Decides(w)
  BY <1>1, <1>4, OrderPaths DEF Goes, Beginnings
<1>5. CASE PublishConfirmed(w) \/ PublishRelease(w) \/ PublishFailed(w)
  BY <1>1, <1>5, OrderPaths DEF Goes, Beginnings
<1>6. CASE SendMail(w)
  BY <1>1, <1>6 DEF SendMail, Goto, Beginnings
<1> QED
  BY <1>2, <1>3, <1>4, <1>5, <1>6 DEF HandlerStep, Decides

LEMMA PastStays ==
  ASSUME DriveInv, DriveInv', OnceInv, [Next]_vars, NEW id \in Ids, Once(id)',
         NEW A \in Beginnings, Past(id, A)
  PROVE  Past(id, A)'
<1> USE DEF DriveInv
<1>1. Once(id) /\ Single(id)
  BY OnceBefore DEF OnceInv
<1>2. /\ CP!TypeOK /\ CP!ProtocolStep /\ Message = CP!Message /\ C!Fresh(id) \in Message
      /\ C!Fresh(id).id = id
  BY StepIsProtocolStep, SameProtocol, SagaAssumption DEF Types, CP!Message, C!Fresh
<1>3. published'[id] > 0
  BY PublishedStays DEF Past
<1>4. ready'[C!Fresh(id)] = 0
  <2>1. ready[C!Fresh(id)] = 0 /\ parked[C!Fresh(id)] = 0
    BY <1>1, <1>2 DEF Past, Single
  <2>2. CASE ready' = ready
    BY <2>1, <2>2 DEF C!Fresh
  <2>3. ASSUME NEW other \in Ids, CP!Publish(other)
        PROVE  ready'[C!Fresh(id)] = 0
    <3>1. other # id
      BY <1>2, <2>3 DEF CP!Publish, CP!TypeOK, Once, Past
    <3> QED
      BY <1>2, <2>1, <2>3, <3>1 DEF CP!Publish, CP!Put, CP!Fresh, C!Fresh, CP!TypeOK
  <2>4. ASSUME NEW m \in Message, NEW w \in Workers, CP!Receive(w, m) \/ CP!SkipDuplicate(w, m)
        PROVE  ready'[C!Fresh(id)] = 0
    BY <1>2, <2>1, <2>4 DEF CP!Receive, CP!SkipDuplicate, CP!CanDeliver, CP!Take, CP!TypeOK, C!Fresh
  <2>5. ASSUME NEW m \in Message, CP!Expire(m)
        PROVE  ready'[C!Fresh(id)] = 0
    BY <1>2, <2>1, <2>5 DEF CP!Expire, CP!Put, CP!TypeOK, C!Fresh
  <2>6. ASSUME NEW q \in Processes, CP!Crash(q) \/ CP!ConnectionLost(q)
        PROVE  ready'[C!Fresh(id)] = 0
    <3>1. PICK p \in Processes : Crash(p) \/ ConnectionLost(p)
      BY <2>6, OutageIsCutOff
    <3>2. ready'[C!Fresh(id)] = ready[C!Fresh(id)]
      BY <1>1, <1>2, <3>1, CutOffElsewhere
    <3> QED
      BY <2>1, <3>2
  <2>7. \/ ready' = ready
        \/ \E other \in Ids : CP!Publish(other)
        \/ \E m \in Message, w \in Workers : CP!Receive(w, m) \/ CP!SkipDuplicate(w, m)
        \/ \E m \in Message : CP!Expire(m)
        \/ \E q \in Processes : CP!Crash(q) \/ CP!ConnectionLost(q)
    BY <1>2 DEF CP!ProtocolStep, CP!vars, CP!brokerVars, CP!HandlerReturns, CP!ParseFails,
       CP!MarkProcessed, CP!Ack, CP!Republish, CP!Nack, CP!Throw
  <2> QED
    BY <2>2, <2>3, <2>4, <2>5, <2>6, <2>7
<1>5. ASSUME NEW w \in Workers, at'[w] \in A
      PROVE  held'[w].id # id
  <2>1. at'[w] # "none"
    BY <1>5 DEF Beginnings
  <2>2. CASE held'[w] = held[w] /\ at'[w] = at[w]
    BY <1>5, <2>2 DEF Past
  <2>3. CASE HandlerStep(w) /\ held'[w] = held[w]
    BY <1>5, <2>3, NoWayBack DEF Past
  <2>4. ASSUME NEW m \in Message, C!Receive(w, m)
        PROVE  held'[w].id # id
    <3>1. ready[m] > 0 /\ held'[w] = m
      BY <2>4 DEF C!Receive, C!CanDeliver, Types, CP!TypeOK
    <3>2. m.id = id => m = C!Fresh(id)
      BY <1>1, <3>1 DEF Single
    <3> QED
      BY <3>1, <3>2 DEF Past
  <2> QED
    BY <2>1, <2>2, <2>3, <2>4, WorkerMoves
<1> QED
  BY <1>3, <1>4, <1>5 DEF Past, C!Fresh

\* The invocation that holds the one copy decides how far it has come.
LEMMA HolderDecides ==
  DriveInv =>
    \A id \in Ids, w \in Workers, A \in Beginnings :
      Single(id) /\ Holds(w, id) /\ at[w] \notin A => Past(id, A)
<1> SUFFICES ASSUME DriveInv, NEW id \in Ids, NEW w \in Workers, NEW A \in Beginnings,
                    Single(id), Holds(w, id), at[w] \notin A
             PROVE  Past(id, A)
  OBVIOUS
<1>1. published[id] > 0
  BY HeldIsPublished DEF Holds
<1>2. C!Fresh(id) \in Message /\ C!Fresh(id).id = id
  BY SameProtocol, SagaAssumption DEF CP!Message, C!Fresh
<1>3. ready \in [Message -> Nat]
  BY SameProtocol DEF CP!TypeOK, DriveInv, Types
<1>4. ready[C!Fresh(id)] = 0
  BY <1>2, <1>3 DEF Single
<1>5. ASSUME NEW v \in Workers, at[v] \in A
      PROVE  held[v].id # id
  <2>1. at[v] # "none"
    BY <1>5 DEF Beginnings
  <2>2. pc[v] # "idle"
    BY <2>1, RunningParts DEF DriveInv
  <2> QED
    BY <1>5, <2>2 DEF Single, Holds
<1> QED
  BY <1>1, <1>4, <1>5 DEF Past

LEMMA HolderDecidesAfter ==
  DriveInv' =>
    \A id \in Ids, w \in Workers, A \in Beginnings :
      Single(id)' /\ Holds(w, id)' /\ at'[w] \notin A => Past(id, A)'
<1>1. (DriveInv =>
         \A id \in Ids, w \in Workers, A \in Beginnings :
           Single(id) /\ Holds(w, id) /\ at[w] \notin A => Past(id, A))'
  BY HolderDecides, PTL
<1> QED
  BY <1>1

\* The refusal of o, or its reservation, was published or is about to be.
Refusing(o) ==
  \/ published[RefusalId(o)] > 0
  \/ \E w \in Workers : at[w] = "publishRefused" /\ OrderAt(w) = o
Granting(o) ==
  \/ published[ReservedId(o)] > 0
  \/ \E w \in Workers : at[w] = "publishReserved" /\ OrderAt(w) = o

\* The attempt to reserve the stock of o.
Attempt == {"start", "reserving"}

\* Stock is taken or refused by the one attempt, and what was given back is not
\* taken again.
OrderRepeat(o) ==
  /\ o \in reservations \/ Refusing(o) \/ Granting(o) => Past(CreatedId(o), Attempt)
  /\ Refusing(o) => o \notin reservations /\ ~ Granting(o)
  /\ \A w \in Workers : at[w] = "return" /\ held[w].id = ReleaseId(o) => o \notin reservations
  /\ ReleaseId(o) \in handled => o \notin reservations /\ published[ReleaseId(o)] > 0

RepeatInv == \A o \in Orders : Once(CreatedId(o)) => OrderRepeat(o)

\* An attempt of w on o comes to its end.
Attempts(w, o, to) ==
  /\ OrderAt(w) = o /\ EventAt(w) = "order.created"
  /\ pc[w] # "idle" /\ held[w].id = CreatedId(o)
  /\ at[w] \in Attempt /\ at' = [at EXCEPT ![w] = to]
  /\ UNCHANGED <<pc, held, published>>

LEMMA Attempting ==
  ASSUME Types, FlowInv, NEW w \in Workers, ReserveLookup(w) \/ ReserveFinish(w)
  PROVE  /\ at'[w] = "publishRefused" => Attempts(w, OrderAt(w), "publishRefused")
         /\ at'[w] = "publishReserved" => Attempts(w, OrderAt(w), "publishReserved")
<1>1. UNCHANGED <<pc, held, published>> /\ HandlerStep(w)
  BY DEF ReserveLookup, ReserveFinish, consumerVars, HandlerStep
<1>2. pc[w] # "idle" /\ held[w].id = <<EventAt(w), OrderAt(w)>> /\ at \in [Workers -> Positions]
  BY <1>1, HandlerStepTypes, RunningParts DEF Types
<1> QED
  BY <1>1, <1>2, InventoryPaths DEF Goes, Attempts, Attempt, CreatedId

\* Who comes to publish an answer has just attempted.
LEMMA AttemptEnds ==
  ASSUME DriveInv, [Next]_vars, NEW w \in Workers, NEW to \in {"publishRefused", "publishReserved"},
         at'[w] = to
  PROVE  \/ at[w] = to /\ OrderAt(w)' = OrderAt(w)
         \/ /\ Attempts(w, OrderAt(w), to) /\ OrderAt(w)' = OrderAt(w)
            /\ to = "publishRefused" => ReserveFinish(w) /\ reservations' = reservations
<1> USE DEF DriveInv
<1>1. CASE held'[w] = held[w] /\ at'[w] \in {at[w], "none"}
  BY <1>1 DEF OrderAt
<1>2. CASE HandlerStep(w) /\ held'[w] = held[w]
  <2>1. at \in [Workers -> Positions]
    BY DEF Types
  <2>2. CASE ReserveLookup(w) \/ ReserveFinish(w)
    <3>1. Attempts(w, OrderAt(w), to)
      BY <2>2, Attempting
    <3>2. to = "publishRefused" => ReserveFinish(w) /\ reservations' = reservations
      BY <2>1, <2>2, InventoryPaths DEF Goes
    <3> QED
      BY <1>2, <3>1, <3>2 DEF OrderAt
  <2>3. CASE PublishReserved(w) \/ PublishRefused(w) \/ ReleaseLookup(w) \/ ReleaseFinish(w)
    BY <2>1, <2>3, InventoryPaths DEF Goes
  <2>4. CASE Decides(w)
    BY <2>1, <2>4, OrderPaths DEF Goes
  <2>5. CASE PublishConfirmed(w) \/ PublishRelease(w) \/ PublishFailed(w)
    BY <2>1, <2>5, OrderPaths DEF Goes
  <2>6. CASE SendMail(w)
    BY <2>1, <2>6 DEF SendMail, Goto
  <2> QED
    BY <1>2, <2>2, <2>3, <2>4, <2>5, <2>6 DEF HandlerStep, Decides
<1> QED
  BY <1>1, <1>2, WorkerMoves

LEMMA RefusingMoves ==
  ASSUME DriveInv, [Next]_vars, NEW o \in Orders, Refusing(o)'
  PROVE  \/ Refusing(o)
         \/ \E w \in Workers : /\ Attempts(w, o, "publishRefused") /\ ReserveFinish(w)
                               /\ reservations' = reservations
<1>1. CASE published'[RefusalId(o)] > 0
  <2>1. \/ published'[RefusalId(o)] = published[RefusalId(o)]
        \/ \E w \in Workers : PublishRefused(w) /\ OrderAt(w) = o
    BY PublishedBy DEF DriveInv
  <2> QED
    BY <1>1, <2>1 DEF PublishRefused, PublishStep, Refusing
<1>2. ASSUME NEW w \in Workers, at'[w] = "publishRefused", OrderAt(w)' = o
      PROVE  \/ Refusing(o)
             \/ /\ Attempts(w, o, "publishRefused") /\ ReserveFinish(w)
                /\ reservations' = reservations
  BY <1>2, AttemptEnds DEF Refusing
<1> QED
  BY <1>1, <1>2 DEF Refusing, RefusalId

LEMMA GrantingMoves ==
  ASSUME DriveInv, [Next]_vars, NEW o \in Orders, Granting(o)'
  PROVE  Granting(o) \/ \E w \in Workers : Attempts(w, o, "publishReserved")
<1>1. CASE published'[ReservedId(o)] > 0
  <2>1. \/ published'[ReservedId(o)] = published[ReservedId(o)]
        \/ \E w \in Workers : PublishReserved(w) /\ OrderAt(w) = o
    BY PublishedBy DEF DriveInv
  <2> QED
    BY <1>1, <2>1 DEF PublishReserved, PublishStep, Granting
<1>2. ASSUME NEW w \in Workers, at'[w] = "publishReserved", OrderAt(w)' = o
      PROVE  Granting(o) \/ Attempts(w, o, "publishReserved")
  BY <1>2, AttemptEnds DEF Granting
<1> QED
  BY <1>1, <1>2 DEF Granting, ReservedId

\* New reservations come from attempts.
LEMMA HoldingMoves ==
  ASSUME DriveInv, [Next]_vars, NEW o \in Orders, o \in reservations'
  PROVE  o \in reservations \/ \E w \in Workers : Attempts(w, o, "publishReserved")
<1>1. ASSUME NEW w \in Workers, ReserveFinish(w),
             Goes(w, "order.created", "reserving", "publishReserved"),
             reservations' = reservations \union {OrderAt(w)}, o \notin reservations
      PROVE  Attempts(w, o, "publishReserved")
  <2>1. o = OrderAt(w) /\ at'[w] = "publishReserved"
    BY <1>1 DEF Goes, DriveInv, Types
  <2> QED
    BY <1>1, <2>1, Attempting DEF DriveInv
<1> QED
  BY <1>1, ReservationsMove DEF DriveInv

\* The attempt on o is over: nobody is in one.
LEMMA NoAttempt ==
  ASSUME NEW o \in Orders, Past(CreatedId(o), Attempt), NEW w \in Workers, NEW to
  PROVE  ~ Attempts(w, o, to)
BY DEF Past, Attempts

LEMMA RepeatStays ==
  ASSUME DriveInv, DriveInv', StockInv, StockInv', OnceInv, OnceInv', [Next]_vars,
         NEW o \in Orders, Once(CreatedId(o))', OrderRepeat(o)
  PROVE  OrderRepeat(o)'
<1> DEFINE c == CreatedId(o)
           over == Past(c, Attempt)
<1>1. c \in Ids /\ ReleaseId(o) \in Ids /\ Attempt \in Beginnings
  BY EventIds DEF Attempt, Beginnings
<1>2. Single(c) /\ Single(c)'
  <2>1. Once(c)
    BY <1>1, OnceBefore DEF DriveInv
  <2> QED
    BY <1>1, <2>1 DEF OnceInv, CreatedId
<1>3. over => over'
  BY <1>1, PastStays DEF CreatedId, Attempt
<1>4. ASSUME NEW w \in Workers, NEW to \in {"publishRefused", "publishReserved"},
             Attempts(w, o, to)
      PROVE  over' /\ ~ over
  <2>1. Holds(w, c)' /\ at'[w] = to
    BY <1>4 DEF Attempts, Holds, CreatedId, DriveInv, Types
  <2>2. Past(c, Attempt)'
    BY <1>1, <1>2, <2>1, HolderDecidesAfter DEF Attempt, CreatedId
  <2> QED
    BY <1>4, <2>2, NoAttempt DEF CreatedId, Attempt
<1>5. o \in reservations' \/ Refusing(o)' \/ Granting(o)' => over'
  BY <1>3, <1>4, RefusingMoves, GrantingMoves, HoldingMoves DEF OrderRepeat
<1>6. ASSUME over, o \notin reservations
      PROVE  o \notin reservations'
  BY <1>6, HoldingMoves, NoAttempt
<1>7. ASSUME Refusing(o)'
      PROVE  o \notin reservations' /\ ~ Granting(o)'
  <2>1. CASE Refusing(o)
    <3>1. over /\ o \notin reservations /\ ~ Granting(o)
      BY <2>1 DEF OrderRepeat
    <3> QED
      BY <1>6, <3>1, GrantingMoves, NoAttempt
  <2>2. ASSUME NEW w \in Workers, Attempts(w, o, "publishRefused"), reservations' = reservations
        PROVE  o \notin reservations' /\ ~ Granting(o)'
    <3>1. o \notin reservations /\ ~ Granting(o)
      BY <1>4, <2>2 DEF OrderRepeat
    <3>2. ASSUME NEW v \in Workers, Attempts(v, o, "publishReserved")
          PROVE  FALSE
      <4>1. v = w
        BY <1>2, <2>2, <3>2 DEF Single, Holds, Attempts
      <4> QED
        BY <2>2, <3>2, <4>1 DEF Attempts, DriveInv, Types
    <3> QED
      BY <2>2, <3>1, <3>2, GrantingMoves
  <2> QED
    BY <1>7, <2>1, <2>2, RefusingMoves
<1>8. published[ReleaseId(o)] > 0 => over
  BY DEF StockInv, OrderStock, OrderRepeat, Granting
<1>9. ASSUME NEW w \in Workers, at'[w] = "return", held'[w].id = ReleaseId(o)
      PROVE  o \notin reservations'
  <2>1. CASE at[w] = "return" /\ held'[w] = held[w]
    <3>1. published[ReleaseId(o)] > 0
      BY <1>9, <2>1, RunningParts, HeldIsPublished DEF DriveInv
    <3> QED
      BY <1>6, <1>8, <1>9, <2>1, <3>1 DEF OrderRepeat
  <2>2. CASE HandlerStep(w) /\ held'[w] = held[w]
    <3>1. EventAt(w) = "inventory.release" /\ OrderAt(w) = o /\ at \in [Workers -> Positions]
      BY <1>9, <2>2 DEF EventAt, OrderAt, Event, OrderOf, ReleaseId, DriveInv, Types
    <3>2. CASE ReleaseLookup(w)
      BY <1>9, <3>1, <3>2, InventoryPaths DEF Goes, ReleaseLookup, stockVars, DriveInv
    <3>3. CASE ReleaseFinish(w)
      BY <1>9, <3>1, <3>3, InventoryPaths DEF DriveInv
    <3>4. CASE ReserveLookup(w) \/ ReserveFinish(w) \/ PublishReserved(w) \/ PublishRefused(w)
      BY <3>1, <3>4, InventoryPaths DEF Goes, DriveInv
    <3>5. CASE Decides(w) \/ PublishConfirmed(w) \/ PublishRelease(w) \/ PublishFailed(w)
      BY <3>1, <3>5, OrderPaths DEF Goes, Answers, DriveInv
    <3>6. CASE SendMail(w)
      BY <3>1, <3>6 DEF SendMail, Announcement
    <3> QED
      BY <2>2, <3>2, <3>3, <3>4, <3>5, <3>6 DEF HandlerStep, Decides
  <2> QED
    BY <1>9, <2>1, <2>2, WorkerMoves DEF DriveInv
<1>10. ASSUME ReleaseId(o) \in handled'
       PROVE  o \notin reservations' /\ published'[ReleaseId(o)] > 0
  <2>1. o \notin reservations /\ published[ReleaseId(o)] > 0
    <3>1. CASE ReleaseId(o) \in handled
      BY <3>1 DEF OrderRepeat
    <3>2. ASSUME NEW w \in Workers, at[w] = "return", held[w].id = ReleaseId(o)
          PROVE  o \notin reservations /\ published[ReleaseId(o)] > 0
      BY <3>2, RunningParts, HeldIsPublished DEF OrderRepeat, DriveInv
    <3> QED
      BY <1>1, <1>10, <3>1, <3>2, GlobalMoves DEF DriveInv
  <2> QED
    BY <1>1, <1>6, <1>8, <2>1, PublishedStays DEF DriveInv
<1> QED
  BY <1>5, <1>7, <1>9, <1>10 DEF OrderRepeat, CreatedId, ReleaseId

LEMMA RepeatStep ==
  ASSUME DriveInv, DriveInv', StockInv, StockInv', OnceInv, OnceInv', RepeatInv, [Next]_vars
  PROVE  RepeatInv'
<1> SUFFICES ASSUME NEW o \in Orders, Once(CreatedId(o))'
             PROVE  OrderRepeat(o)'
  BY DEF RepeatInv, CreatedId
<1>1. Once(CreatedId(o))
  BY EventIds, OnceBefore DEF DriveInv
<1> QED
  BY <1>1, RepeatStays DEF RepeatInv

LEMMA RepeatInit == Init => RepeatInv
<1> SUFFICES ASSUME Init, NEW o \in Orders
             PROVE  OrderRepeat(o)
  BY DEF RepeatInv
<1>1. /\ \A id \in Ids : published[id] = 0
      /\ \A w \in Workers : at[w] = "none"
      /\ reservations = {} /\ handled = {}
  BY DEF Init, C!Init
<1> QED
  BY <1>1, EventIds DEF OrderRepeat, Refusing, Granting

LeakInv == DriveInv /\ StockInv /\ OnceInv /\ RepeatInv

LEMMA LeakInvariance == Spec => []LeakInv
<1>1. DriveInv /\ StockInv /\ [Next]_vars => StockInv'
  BY StockStep
<1>2. DriveInv /\ DriveInv' /\ StockInv' /\ OnceInv /\ [Next]_vars => OnceInv'
  BY OnceStep
<1>3. /\ DriveInv /\ DriveInv' /\ StockInv /\ StockInv' /\ OnceInv /\ OnceInv'
      /\ RepeatInv /\ [Next]_vars
      => RepeatInv'
  BY RepeatStep
<1> QED
  BY <1>1, <1>2, <1>3, StockInit, OnceInit, RepeatInit, DriveInvariance, PTL DEF Spec, LeakInv

\* A FAILED order keeps stock that nothing will release only if its order.created
\* was published twice, or a delivery of that very event failed or was cut off by
\* a crash or lost connection, whatever happens to other events: reserve() and release() are idempotent, but not one after the other.
THEOREM OnlyRepeatsLeakStock == Spec => []LeakedOnlyAfterRepeat
<1>1. ASSUME LeakInv
      PROVE  LeakedOnlyAfterRepeat
  <2> USE <1>1 DEF LeakInv
  <2> SUFFICES ASSUME NEW o \in Orders, order[o] = "FAILED", o \in reservations,
                      ~ (published[CreatedId(o)] > 1), ~ (failures[CreatedId(o)] > 0),
                      ~ (cutOff[CreatedId(o)] > 0)
               PROVE  Driven(Deciding \union {"inventory.release"}, o)
    BY DEF LeakedOnlyAfterRepeat, CreatedId
  <2>1. OrderRepeat(o)
    <3>1. /\ published[CreatedId(o)] \in Nat /\ failures[CreatedId(o)] \in Nat
          /\ cutOff[CreatedId(o)] \in Nat
      BY EventIds DEF DriveInv, Types, CP!TypeOK
    <3> QED
      BY <3>1 DEF RepeatInv, Once
  <2>2. published[ReservedId(o)] > 0 /\ ~ WithinLimit(o)
    BY <2>1 DEF OrderRepeat, Refusing, StockInv, OrderStock
  <2>3. CASE ReservedId(o) \notin handled
    BY <2>2, <2>3, EventIds, UnderWay DEF Driven, Deciding, ReservedId
  <2>4. CASE ReservedId(o) \in handled
    <3>1. published[ReleaseId(o)] > 0 /\ ReleaseId(o) \notin handled
      BY <2>1, <2>2, <2>4 DEF OrderRepeat, StockInv, OrderStock
    <3> QED
      BY <3>1, EventIds, UnderWay DEF Driven, ReleaseId
  <2> QED
    BY <2>3, <2>4
<1> QED
  BY <1>1, LeakInvariance, PTL
-----------------------------------------------------------------------------
(* The fault-free order flow *)

\* No error, crash or lost connection: what saga_nominal runs, for any orders.
NothingFails == MaxErrors = 0 /\ MaxOutages = 0

\* The answer to o was given, the decision taken, and it was announced: whoever
\* is to do it again is past it.
AnswerGiven == {"start", "reserving", "publishReserved", "publishRefused"}
Decision    == {"start"}
Rejection   == {"start", "publishRelease"}
Deliberated == {"start", "publishRelease", "publishConfirmed", "publishFailed"}

OrderSmooth(o) ==
  /\ rollbacks[o] = 0
  /\ outbox[o] # "none" => order[o] # "none"
  /\ published[CreatedId(o)] > 0 => order[o] # "none"
  /\ \A e \in Answers : published[<<e, o>>] > 0 => Past(CreatedId(o), AnswerGiven)
  /\ published[ReleaseId(o)] > 0 => order[o] = "FAILED" /\ Past(ReservedId(o), Rejection)
  /\ order[o] \in Final => \E e \in Answers : Past(<<e, o>>, Decision)
  /\ \A f \in Final :
       published[MailId(o, f)] > 0 =>
         order[o] = f /\ \E e \in Answers : Past(<<e, o>>, Deliberated)

WorkerSmooth(w) ==
  LET o == OrderAt(w)
  IN  /\ at[w] = "releasing" => o \in reservations
      /\ at[w] = "publishConfirmed" => order[o] = "CONFIRMED"
      /\ at[w] \in {"publishRelease", "publishFailed"} => order[o] = "FAILED"

SmoothInv ==
  /\ \A id \in Ids : Once(id)
  /\ \A o \in Orders : OrderSmooth(o)
  /\ \A w \in Workers : WorkerSmooth(w)

LEMMA Stages ==
  /\ Attempt \in Beginnings /\ AnswerGiven \in Beginnings /\ Decision \in Beginnings
  /\ Rejection \in Beginnings /\ Deliberated \in Beginnings
BY DEF Attempt, AnswerGiven, Decision, Rejection, Deliberated, Beginnings

\* Who is at one of these positions holds the only copy.
LEMMA NotPast ==
  ASSUME Types, NEW w \in Workers, NEW A, at[w] \in A
  PROVE  ~ Past(held[w].id, A)
BY DEF Past

\* An order gets one answer.
LEMMA OneAnswer ==
  ASSUME LeakInv, SmoothInv, NEW o \in Orders, NEW d \in Answers, NEW e \in Answers,
         published[<<d, o>>] > 0, published[<<e, o>>] > 0
  PROVE  d = e
<1>1. OrderRepeat(o)
  BY EventIds DEF LeakInv, RepeatInv, SmoothInv
<1> QED
  BY <1>1 DEF OrderRepeat, Refusing, Granting, RefusalId, ReservedId, Answers

\* So it is decided once, and by its first delivery.
LEMMA DecidesOnce ==
  ASSUME LeakInv, SmoothInv, NEW w \in Workers, Decides(w)
  PROVE  order[OrderAt(w)] = "PENDING" /\ held[w].retry = 0
<1> DEFINE o == OrderAt(w)
           e == EventAt(w)
<1> USE DEF LeakInv, DriveInv
<1>1. /\ at[w] = "start" /\ pc[w] # "idle" /\ o \in Orders /\ e \in Answers
      /\ held[w].id = <<e, o>> /\ held[w].id \in Ids
  BY DecisionTaken, HeldParts
<1>2. published[<<e, o>>] > 0
  BY <1>1, HeldIsPublished
<1>3. OrderSmooth(o)
  BY <1>1 DEF SmoothInv
<1>4. order[o] # "none"
  BY <1>1, <1>2, <1>3 DEF OrderSmooth, Past
<1>5. order[o] \notin Final
  <2> SUFFICES ASSUME order[o] \in Final
               PROVE  FALSE
    OBVIOUS
  <2>1. PICK d \in Answers : Past(<<d, o>>, Decision)
    BY <1>3 DEF OrderSmooth
  <2>2. d = e
    BY <1>1, <1>2, <2>1, OneAnswer DEF Past
  <2> QED
    BY <1>1, <2>1, <2>2, NotPast DEF Decision
<1>6. held[w].retry = 0
  <2>1. failures[held[w].id] = 0
    BY <1>1 DEF SmoothInv, Once
  <2> QED
    BY <1>1, <2>1, RetriesFailed
<1> QED
  BY <1>1, <1>4, <1>5, <1>6 DEF Types, Statuses, Final

\* The transactions of an order do not get in each other's way.
LEMMA NoConflict ==
  ASSUME LeakInv, SmoothInv, NEW w \in Workers
  PROVE  ~ TransactionConflict(w)
<1> DEFINE o == OrderAt(w)
<1> USE DEF LeakInv, DriveInv
<1>1. CASE at[w] = "reserving" /\ o \in reservations
  <2>1. o \in Orders /\ held[w].id = CreatedId(o)
    BY <1>1, RunningParts, Routing DEF FlowInv, HandlerKeepsToItsQueue, CreatedId, EventTypes
  <2>2. OrderRepeat(o)
    BY <2>1, EventIds DEF RepeatInv, SmoothInv
  <2> QED
    BY <1>1, <2>1, <2>2, NotPast DEF OrderRepeat, Attempt
<1>2. CASE at[w] = "releasing" /\ o \notin reservations
  BY <1>2 DEF SmoothInv, WorkerSmooth
<1> QED
  BY <1>1, <1>2 DEF TransactionConflict, At

LEMMA SmoothCases ==
  ASSUME NothingFails, LeakInv, SmoothInv, [Next]_vars
  PROVE  \/ UNCHANGED vars
         \/ \E o \in Orders : CreateOrder(o) \/ RelayPublish(o)
         \/ \E R \in Batches : RelayMark(R)
         \/ \E m \in Message, w \in Workers : Deliver(w, m)
         \/ \E w \in Workers : HandlerStep(w) \/ HandlerReturns(w) \/ Conclude(w)
         \/ \E m \in Message : Expire(m)
<1>1. errors = 0 /\ outages = 0
  BY DEF LeakInv, DriveInv, Types, CP!TypeOK, NothingFails
<1>2. ~ \E R \in Batches : RelayRollBack(R)
  BY <1>1 DEF RelayRollBack, NothingFails
<1>3. ~ \E w \in Workers : Throw(w)
  BY <1>1 DEF Throw, NothingFails
<1>4. ~ \E p \in Processes : Crash(p) \/ ConnectionLost(p)
  BY <1>1 DEF Crash, ConnectionLost, C!Crash, C!ConnectionLost, NothingFails
<1> QED
  BY <1>2, <1>3, <1>4, NextCases, NoConflict DEF WorkerStep

\* Nothing fails, then, and the relay's rows follow their orders.
LEMMA SmoothMoves ==
  ASSUME NothingFails, LeakInv, SmoothInv, [Next]_vars
  PROVE  /\ UNCHANGED <<failures, rollbacks, cutOff>>
         /\ \A o \in Orders : outbox'[o] # "none" => outbox[o] # "none" \/ order'[o] # "none"
<1> USE DEF LeakInv, DriveInv
<1> DEFINE G == /\ UNCHANGED <<failures, rollbacks, cutOff>>
                /\ \A o \in Orders : outbox'[o] # "none" => outbox[o] # "none" \/ order'[o] # "none"
<1>1. CASE UNCHANGED vars
  BY <1>1 DEF vars, consumerVars
<1>2. ASSUME NEW o \in Orders, CreateOrder(o)
      PROVE  G
  BY <1>2 DEF CreateOrder, O!Write, consumerVars, Types
<1>3. ASSUME NEW o \in Orders, RelayPublish(o)
      PROVE  G
  BY <1>3 DEF RelayPublish, O!Publish, C!Publish
<1>4. ASSUME NEW R \in Batches, RelayMark(R)
      PROVE  G
  BY <1>4 DEF RelayMark, O!Mark, O!Unpublished, Batches, consumerVars
<1>5. ASSUME NEW m \in Message, NEW w \in Workers, Deliver(w, m)
      PROVE  G
  BY <1>5 DEF Deliver, C!Receive, C!SkipDuplicate
<1>6. ASSUME NEW w \in Workers, HandlerStep(w)
      PROVE  G
  BY <1>6, HandlerStepTypes
<1>7. ASSUME NEW w \in Workers, HandlerReturns(w) \/ Conclude(w)
      PROVE  G
  BY <1>7 DEF HandlerReturns, Conclude, C!HandlerReturns, C!MarkProcessed, C!Ack, C!Republish,
     C!Nack
<1>8. ASSUME NEW m \in Message, Expire(m)
      PROVE  G
  BY <1>8 DEF Expire, C!Expire
<1>9. G
  BY <1>1, <1>2, <1>3, <1>4, <1>5, <1>6, <1>7, <1>8, SmoothCases
<1> QED
  BY <1>9

LEMMA OrderStays ==
  ASSUME LeakInv, SmoothInv, [Next]_vars, NEW o \in Orders
  PROVE  /\ order[o] \in Final => order'[o] = order[o]
         /\ order[o] # "none" => order'[o] # "none"
<1> USE DEF LeakInv, DriveInv
<1>1. ASSUME NEW p \in Orders, CreateOrder(p)
      PROVE  order[o] # "none" => order'[o] = order[o]
  BY <1>1 DEF CreateOrder, Types
<1>2. ASSUME NEW w \in Workers, Decides(w)
      PROVE  /\ order[o] \in Final => order'[o] = order[o]
             /\ order[o] # "none" => order'[o] # "none"
  <2>1. PICK status \in Final : order' = [order EXCEPT ![OrderAt(w)] = status]
    BY <1>2, DecisionTaken
  <2>2. order[OrderAt(w)] = "PENDING"
    BY <1>2, DecidesOnce
  <2> QED
    BY <2>1, <2>2 DEF Types, Final
<1> QED
  BY <1>1, <1>2, OrderMoves DEF Final

\* Every event is published once.
LEMMA PublishedOnce ==
  ASSUME NothingFails, LeakInv, SmoothInv, [Next]_vars, NEW id \in Ids
  PROVE  published'[id] <= 1
<1> USE DEF LeakInv, DriveInv
<1>1. published[id] <= 1 /\ published[id] \in Nat
  BY DEF SmoothInv, Once, Types, CP!TypeOK
<1>2. ASSUME NEW o \in Orders, RelayPublish(o), id = CreatedId(o)
      PROVE  published[id] = 0
  BY <1>1, <1>2 DEF RelayPublish, O!Publish, CreatedId, SmoothInv, OrderSmooth
<1>3. ASSUME NEW w \in Workers, Publishes(w, id)
      PROVE  published[id] = 0
  <2> DEFINE o == OrderAt(w)
             e == EventAt(w)
  <2>1. at[w] # "none"
    BY <1>3 DEF Publishes, PublishReserved, PublishRefused, PublishRelease, PublishConfirmed,
       PublishFailed, PublishStep
  <2>2. o \in Orders /\ held[w].id = <<e, o>> /\ e \in EventTypes /\ pc[w] # "idle"
    BY <2>1, RunningParts
  <2>3. OrderSmooth(o) /\ WorkerSmooth(w)
    BY <2>2 DEF SmoothInv
  <2>4. CASE PublishReserved(w) \/ PublishRefused(w)
    <3>1. /\ at[w] \in {"publishReserved", "publishRefused"} /\ held[w].id = CreatedId(o)
      BY <2>2, <2>4, InventoryPaths DEF Goes, CreatedId
    <3>2. ~ Past(CreatedId(o), AnswerGiven)
      BY <3>1, NotPast DEF AnswerGiven
    <3>3. \E d \in Answers : id = <<d, o>>
      BY <1>3, <3>1 DEF Publishes, PublishReserved, PublishRefused, PublishRelease,
         PublishConfirmed, PublishFailed, PublishStep, ReservedId, RefusalId, Answers
    <3> QED
      BY <1>1, <2>3, <3>2, <3>3 DEF OrderSmooth
  <2>5. CASE PublishRelease(w)
    <3>1. /\ at[w] = "publishRelease" /\ id = ReleaseId(o)
      BY <1>3, <2>5 DEF Publishes, PublishReserved, PublishRefused, PublishRelease,
         PublishConfirmed, PublishFailed, PublishStep
    <3>2. held[w].id = ReservedId(o)
      BY <2>2, <3>1 DEF StockInv, WorkerStock, ReservedId
    <3>3. ~ Past(ReservedId(o), Rejection)
      BY <3>1, <3>2, NotPast DEF Rejection
    <3> QED
      BY <1>1, <2>3, <3>1, <3>3 DEF OrderSmooth
  <2>6. CASE PublishConfirmed(w) \/ PublishFailed(w)
    <3>1. at[w] \in {"publishConfirmed", "publishFailed"} /\ e \in Answers
      BY <2>6, OrderPaths DEF Goes
    <3>2. \E f \in Final : id = MailId(o, f)
      BY <1>3, <3>1 DEF Publishes, PublishReserved, PublishRefused, PublishRelease,
         PublishConfirmed, PublishFailed, PublishStep, Final
    <3>3. published[<<e, o>>] > 0 /\ ~ Past(<<e, o>>, Deliberated)
      BY <2>2, <3>1, HeldIsPublished, NotPast DEF Deliberated
    <3>4. ~ \E d \in Answers : Past(<<d, o>>, Deliberated)
      BY <2>2, <3>1, <3>3, OneAnswer DEF Past
    <3> QED
      BY <1>1, <2>3, <3>2, <3>4 DEF OrderSmooth
  <2> QED
    BY <1>3, <2>4, <2>5, <2>6 DEF Publishes
<1> QED
  BY <1>1, <1>2, <1>3, PublishedMoves

LEMMA OnceStays ==
  ASSUME NothingFails, LeakInv, SmoothInv, [Next]_vars
  PROVE  \A id \in Ids : Once(id)'
BY PublishedOnce, SmoothMoves DEF SmoothInv, Once

\* The handler that is through with a position holds the only copy of its event.
LEMMA HandlerPasses ==
  ASSUME NothingFails, LeakInv, LeakInv', SmoothInv, [Next]_vars, NEW w \in Workers,
         pc[w] # "idle", UNCHANGED <<pc, held>>, NEW A \in Beginnings, at'[w] \notin A
  PROVE  Past(held[w].id, A)'
<1>1. held[w].id \in Ids /\ held'[w] = held[w]
  BY HeldParts DEF LeakInv, DriveInv
<1>2. Once(held[w].id)'
  BY <1>1, OnceStays DEF Once
<1>3. \A id \in Ids : Once(id)' => Single(id)'
  BY DEF LeakInv, OnceInv
<1>4. \A id \in Ids : id = held[w].id => Holds(w, id)' /\ Single(id)'
  <2>1. \A id \in Ids : Once(id)'
    BY OnceStays
  <2> QED
    BY <1>1, <1>3, <2>1 DEF Holds
<1>5. \A id \in Ids : id = held[w].id => Past(id, A)'
  BY <1>4, HolderDecidesAfter DEF LeakInv
<1> QED
  BY <1>1, <1>5 DEF Past, C!Fresh

LEMMA PassedStays ==
  ASSUME NothingFails, LeakInv, LeakInv', SmoothInv, [Next]_vars, NEW A \in Beginnings
  PROVE  \A id \in Ids : Past(id, A) => Past(id, A)'
<1> SUFFICES ASSUME NEW id \in Ids, Past(id, A)
             PROVE  Past(id, A)'
  OBVIOUS
<1>1. Once(id)'
  BY OnceStays DEF Once
<1> QED
  BY <1>1, PastStays DEF LeakInv

LEMMA OrderSmoothStep ==
  ASSUME NothingFails, LeakInv, LeakInv', SmoothInv, [Next]_vars, NEW o \in Orders
  PROVE  OrderSmooth(o)'
<1> USE DEF LeakInv, DriveInv
<1>1. /\ OrderSmooth(o)
      /\ CreatedId(o) \in Ids /\ ReservedId(o) \in Ids /\ \A e \in Answers : <<e, o>> \in Ids
  BY EventIds DEF SmoothInv
<1>2. rollbacks'[o] = 0 /\ (outbox'[o] # "none" => order'[o] # "none")
  BY <1>1, SmoothMoves, OrderStays DEF OrderSmooth
<1>3. published'[CreatedId(o)] > 0 => order'[o] # "none"
  <2>1. RelayPublish(o) => order[o] # "none"
    BY <1>1 DEF RelayPublish, O!Publish, OrderSmooth
  <2> QED
    BY <1>1, <2>1, PublishedBy, OrderStays DEF OrderSmooth
<1>4. ASSUME NEW e \in Answers, published'[<<e, o>>] > 0
      PROVE  Past(CreatedId(o), AnswerGiven)'
  <2>1. CASE published[<<e, o>>] > 0
    BY <1>1, <2>1, Stages, PassedStays DEF OrderSmooth, CreatedId
  <2>2. ASSUME NEW w \in Workers, PublishReserved(w) \/ PublishRefused(w), OrderAt(w) = o
        PROVE  Past(CreatedId(o), AnswerGiven)'
    <3>1. /\ at[w] # "none" /\ UNCHANGED <<pc, held>>
          /\ EventAt(w) = "order.created" /\ at'[w] = "return"
      BY <2>2, InventoryPaths DEF PublishReserved, PublishRefused, PublishStep, C!Publish,
         C!workerVars, Goes, Types
    <3>2. pc[w] # "idle" /\ held[w].id = CreatedId(o)
      BY <2>2, <3>1, RunningParts DEF CreatedId
    <3> QED
      BY <3>1, <3>2, Stages, HandlerPasses DEF AnswerGiven, CreatedId
  <2>3. \/ published'[<<e, o>>] = published[<<e, o>>]
        \/ \E w \in Workers : (PublishReserved(w) \/ PublishRefused(w)) /\ OrderAt(w) = o
    BY PublishedBy DEF Answers, ReservedId, RefusalId
  <2> QED
    BY <1>4, <2>1, <2>2, <2>3
<1>5. ASSUME published'[ReleaseId(o)] > 0
      PROVE  order'[o] = "FAILED" /\ Past(ReservedId(o), Rejection)'
  <2>1. CASE published[ReleaseId(o)] > 0
    BY <1>1, <2>1, Stages, PassedStays, OrderStays DEF OrderSmooth, ReservedId, Final
  <2>2. ASSUME NEW w \in Workers, PublishRelease(w), OrderAt(w) = o
        PROVE  order'[o] = "FAILED" /\ Past(ReservedId(o), Rejection)'
    <3>1. /\ at[w] = "publishRelease" /\ UNCHANGED <<pc, held>> /\ at'[w] = "publishFailed"
      BY <2>2 DEF PublishRelease, PublishStep, C!Publish, C!workerVars, Goto, Types
    <3>2. pc[w] # "idle" /\ held[w].id = ReservedId(o)
      BY <2>2, <3>1, RunningParts DEF ReservedId, StockInv, WorkerStock
    <3>3. order[o] = "FAILED"
      BY <2>2, <3>1 DEF SmoothInv, WorkerSmooth
    <3> QED
      BY <3>1, <3>2, <3>3, Stages, HandlerPasses, OrderStays DEF Rejection, ReservedId, Final
  <2> QED
    BY <1>5, <2>1, <2>2, PublishedBy
<1>6. ASSUME order'[o] \in Final
      PROVE  \E e \in Answers : Past(<<e, o>>, Decision)'
  <2>1. CASE order[o] \in Final
    BY <1>1, <2>1, Stages, PassedStays DEF OrderSmooth
  <2>2. ASSUME NEW w \in Workers, Decides(w), OrderAt(w) = o
        PROVE  \E e \in Answers : Past(<<e, o>>, Decision)'
    <3>1. /\ pc[w] # "idle" /\ UNCHANGED <<pc, held>> /\ at'[w] # "start"
          /\ EventAt(w) \in Answers /\ held[w].id = <<EventAt(w), o>>
      BY <2>2, DecisionTaken, HeldParts DEF consumerVars
    <3>2. Past(held[w].id, Decision)'
      BY <3>1, Stages, HandlerPasses DEF Decision
    <3> QED
      BY <3>1, <3>2 DEF Past
  <2>3. ASSUME NEW p \in Orders, CreateOrder(p)
        PROVE  order'[o] = order[o] \/ order'[o] = "PENDING"
    BY <2>3 DEF CreateOrder, Types
  <2>4. ASSUME NEW w \in Workers, Decides(w), OrderAt(w) # o
        PROVE  order'[o] = order[o]
    BY <2>4, DecisionTaken DEF Types
  <2> QED
    BY <1>6, <2>1, <2>2, <2>3, <2>4, OrderMoves DEF Final
<1>7. ASSUME NEW f \in Final, published'[MailId(o, f)] > 0
      PROVE  order'[o] = f /\ \E e \in Answers : Past(<<e, o>>, Deliberated)'
  <2>1. CASE published[MailId(o, f)] > 0
    <3>1. order[o] = f /\ \E e \in Answers : Past(<<e, o>>, Deliberated)
      BY <1>1, <2>1 DEF OrderSmooth
    <3> QED
      BY <1>1, <3>1, Stages, PassedStays, OrderStays
  <2>2. ASSUME NEW w \in Workers, OrderAt(w) = o,
               \/ PublishConfirmed(w) /\ f = "CONFIRMED"
               \/ PublishFailed(w) /\ f = "FAILED"
        PROVE  order'[o] = f /\ \E e \in Answers : Past(<<e, o>>, Deliberated)'
    <3>1. /\ at[w] \in {"publishConfirmed", "publishFailed"} /\ UNCHANGED <<pc, held>>
          /\ at'[w] = "return" /\ EventAt(w) \in Answers /\ order[o] = f
      BY <2>2, OrderPaths DEF PublishConfirmed, PublishFailed, PublishStep, C!Publish,
         C!workerVars, Goto, Goes, Types, SmoothInv, WorkerSmooth
    <3>2. pc[w] # "idle" /\ held[w].id = <<EventAt(w), o>>
      BY <2>2, <3>1, RunningParts
    <3>3. Past(held[w].id, Deliberated)'
      BY <3>1, <3>2, Stages, HandlerPasses DEF Deliberated
    <3> QED
      BY <3>1, <3>2, <3>3, OrderStays DEF Past
  <2>3. \A p : MailId(o, f) # CreatedId(p)
    BY DEF MailId, CreatedId, Announcement
  <2>4. \/ published'[MailId(o, f)] = published[MailId(o, f)]
        \/ \E w \in Workers : Publishes(w, MailId(o, f))
    BY <2>3, EventIds, PublishedMoves
  <2>5. ASSUME NEW w \in Workers, Publishes(w, MailId(o, f))
        PROVE  /\ OrderAt(w) = o
               /\ \/ PublishConfirmed(w) /\ f = "CONFIRMED"
                  \/ PublishFailed(w) /\ f = "FAILED"
    BY <2>5, Publishers DEF Final
  <2> QED
    BY <1>7, <2>1, <2>2, <2>4, <2>5
<1> QED
  BY <1>2, <1>3, <1>4, <1>5, <1>6, <1>7 DEF OrderSmooth, CreatedId, ReservedId, ReleaseId, MailId

LEMMA WorkerSmoothStep ==
  ASSUME NothingFails, LeakInv, LeakInv', SmoothInv, [Next]_vars, NEW w \in Workers
  PROVE  WorkerSmooth(w)'
<1> DEFINE o == OrderAt(w)
<1> USE DEF LeakInv, DriveInv
<1>1. CASE at'[w] \in {"none", "start"}
  BY <1>1 DEF WorkerSmooth
<1>2. CASE pc[w] # "idle" /\ held'[w] = held[w] /\ at'[w] = at[w]
  <2>1. o \in Orders /\ OrderAt(w)' = o /\ WorkerSmooth(w)
    BY <1>2, HeldParts DEF SmoothInv, OrderAt
  <2>2. ASSUME at[w] = "releasing", NEW v \in Workers, ReleaseFinish(v), OrderAt(v) = o
        PROVE  FALSE
    <3>1. /\ at[v] # "none" /\ EventAt(v) = "inventory.release" /\ at'[v] = "return"
      BY <2>2, InventoryPaths DEF Goes, Types
    <3>2. EventAt(w) = "inventory.release"
      BY <1>2, <2>2, HeldParts, Routing DEF FlowInv, HandlerKeepsToItsQueue, EventTypes
    <3>3. Holds(w, ReleaseId(o)) /\ Holds(v, ReleaseId(o))
      BY <1>2, <2>2, <3>1, <3>2, HeldParts, RunningParts DEF Holds, ReleaseId
    <3>4. Single(ReleaseId(o))
      BY <2>1, EventIds DEF OnceInv, SmoothInv
    <3>5. v = w
      BY <3>3, <3>4 DEF Single
    <3> QED
      BY <1>2, <2>2, <3>1, <3>5
  <2>3. at[w] = "releasing" => o \in reservations'
    BY <2>1, <2>2, ReservationsMove DEF WorkerSmooth
  <2>4. order[o] \in Final => order'[o] = order[o]
    BY <2>1, OrderStays
  <2> QED
    BY <1>2, <2>1, <2>3, <2>4 DEF WorkerSmooth, Final
<1>3. CASE HandlerStep(w) /\ held'[w] = held[w]
  <2>1. /\ pc[w] # "idle" /\ at \in [Workers -> Positions] /\ o \in Orders
        /\ OrderAt(w)' = o /\ WorkerSmooth(w)
    BY <1>3, HandlerStepTypes, RunningParts DEF Types, SmoothInv, OrderAt
  <2>2. CASE ReserveLookup(w) \/ ReserveFinish(w) \/ PublishReserved(w) \/ PublishRefused(w)
    BY <2>1, <2>2, InventoryPaths DEF Goes, WorkerSmooth
  <2>3. CASE ReleaseLookup(w)
    <3>1. reservations' = reservations
      BY <2>3 DEF ReleaseLookup, stockVars
    <3> QED
      BY <2>1, <2>3, <3>1, InventoryPaths DEF Goes, WorkerSmooth
  <2>4. CASE ReleaseFinish(w)
    BY <2>1, <2>4, InventoryPaths DEF Goes, WorkerSmooth
  <2>5. CASE Decides(w)
    <3>1. held[w].retry = 0
      BY <2>5, DecidesOnce
    <3> QED
      BY <2>1, <2>5, <3>1, OrderPaths DEF Goes, WorkerSmooth, Types
  <2>6. CASE PublishConfirmed(w) \/ PublishFailed(w)
    BY <2>1, <2>6, OrderPaths DEF Goes, WorkerSmooth
  <2>7. CASE PublishRelease(w)
    <3>1. order' = order /\ at[w] = "publishRelease" /\ at'[w] = "publishFailed"
      BY <2>1, <2>7 DEF PublishRelease, PublishStep, Goto
    <3> QED
      BY <2>1, <3>1 DEF WorkerSmooth
  <2>8. CASE SendMail(w)
    BY <2>1, <2>8 DEF SendMail, Goto, WorkerSmooth
  <2> QED
    BY <1>3, <2>2, <2>3, <2>4, <2>5, <2>6, <2>7, <2>8 DEF HandlerStep, Decides
<1> QED
  BY <1>1, <1>2, <1>3, WorkerMoves

LEMMA SmoothStep ==
  ASSUME NothingFails, LeakInv, LeakInv', SmoothInv, [Next]_vars
  PROVE  SmoothInv'
BY OnceStays, OrderSmoothStep, WorkerSmoothStep DEF SmoothInv, Once

LEMMA SmoothInit == Init => SmoothInv
<1> SUFFICES ASSUME Init
             PROVE  SmoothInv
  OBVIOUS
<1>1. /\ \A id \in Ids : published[id] = 0 /\ failures[id] = 0 /\ cutOff[id] = 0
      /\ \A w \in Workers : at[w] = "none"
      /\ \A o \in Orders : rollbacks[o] = 0 /\ outbox[o] = "none" /\ order[o] = "none"
  BY DEF Init, C!Init
<1>2. ASSUME NEW o \in Orders
      PROVE  OrderSmooth(o)
  <2>1. /\ published[CreatedId(o)] = 0 /\ published[ReleaseId(o)] = 0
        /\ \A e \in Answers : published[<<e, o>>] = 0
        /\ \A f \in Final : published[MailId(o, f)] = 0
    BY <1>1, EventIds
  <2> QED
    BY <1>1, <2>1 DEF OrderSmooth, Final
<1>3. \A w \in Workers : WorkerSmooth(w)
  BY <1>1 DEF WorkerSmooth
<1> QED
  BY <1>1, <1>2, <1>3 DEF SmoothInv, Once

LEMMA SmoothInvariance ==
  ASSUME NothingFails
  PROVE  Spec => [](LeakInv /\ SmoothInv)
<1>1. LeakInv /\ LeakInv' /\ SmoothInv /\ [Next]_vars => SmoothInv'
  BY SmoothStep
<1> QED
  BY <1>1, SmoothInit, LeakInvariance, PTL DEF Spec

\* While nothing fails, a FAILED order that still holds stock has its release, or
\* an event that leads to it, on its way.
THEOREM FailedOrdersGiveStockBack ==
  ASSUME MaxErrors = 0, MaxOutages = 0
  PROVE  Spec => []FailedHoldsNoStock
<1>1. ASSUME LeakInv, SmoothInv, LeakedOnlyAfterRepeat
      PROVE  FailedHoldsNoStock
  <2> SUFFICES ASSUME NEW o \in Orders, order[o] = "FAILED", o \in reservations
               PROVE  Driven(Deciding \union {"inventory.release"}, o)
    BY DEF FailedHoldsNoStock
  <2>1. Once(CreatedId(o))
    BY <1>1, EventIds DEF SmoothInv
  <2>2. published[CreatedId(o)] \in Nat
    BY <1>1, EventIds DEF LeakInv, DriveInv, Types, CP!TypeOK
  <2>3. ~ (published[CreatedId(o)] > 1) /\ ~ (failures[CreatedId(o)] > 0)
        /\ ~ (cutOff[CreatedId(o)] > 0)
    BY <2>1, <2>2 DEF Once
  <2> QED
    BY <1>1, <2>3 DEF CreatedId, LeakedOnlyAfterRepeat
<1>2. Spec => [](LeakInv /\ SmoothInv)
  BY SmoothInvariance, PTL DEF NothingFails
<1> QED
  BY <1>1, <1>2, OnlyRepeatsLeakStock, PTL
-----------------------------------------------------------------------------
(* The fault-free order flow is the order lifecycle *)

Refusals == {o \in Orders : Refusing(o)}
Told     == {o \in Orders : \E f \in Final : mails[o][f] > 0}

LEMMA Seen == L!vars = <<order, reservations, Refusals, Told>>
BY DEF L!vars, Refusals, Told, Refusing, RefusalId

\* No order names a SKU on two lines.
LinesAreDistinct == \A s \in Skus : I!Distinct(s)

\* Stock is only ever held of SKUs there are.
KnownSkus ==
  \A o \in reservations : \A i \in DOMAIN Lines[o] : Lines[o][i].sku \in Skus

ShownInv == LeakInv /\ SmoothInv /\ IP!IInv /\ KnownSkus

LEMMA AcceptedIsKnown ==
  ASSUME NEW o, ~ I!Refused(o)
  PROVE  \A i \in DOMAIN Lines[o] : Lines[o][i].sku \in Skus
BY DEF I!Refused, I!Unavailable

LEMMA KnownStep ==
  ASSUME LeakInv, KnownSkus, [Next]_vars
  PROVE  KnownSkus'
BY ReservationsMove, AcceptedIsKnown DEF LeakInv, DriveInv, KnownSkus

LEMMA KnownInit == Init => KnownSkus
BY DEF Init, KnownSkus

\* What reserve() accepts the stock can serve, and what it refuses it cannot.
LEMMA FeasibleSets ==
  ASSUME NEW S \in SUBSET Orders
  PROVE  S \in Feasible <=>
           /\ \A o \in S : \A i \in DOMAIN Lines[o] : Lines[o][i].sku \in Skus
           /\ \A s \in Skus : IP!Cardinality(IP!UnitsOfAll(S, s)) <= Seed[s]
<1>1. \A s : I!UnitsOfAll(S, s) = IP!UnitsOfAll(S, s)
  BY SameUnits DEF I!UnitsOfAll, IP!UnitsOfAll
<1>2. \A T : Cardinality(T) = IP!Cardinality(T)
  BY DEF Cardinality, IP!Cardinality
<1> QED
  BY <1>1, <1>2 DEF Feasible

LEMMA AcceptedIsFeasible ==
  ASSUME LinesAreDistinct, ShownInv, NEW o \in Orders \ reservations, ~ I!Refused(o)
  PROVE  reservations \union {o} \in Feasible
<1>1. reservations \union {o} \in SUBSET Orders
  BY DEF ShownInv, IP!IInv, IP!TypeOK
<1>2. ~ IP!Refused(o)
  BY DEF I!Refused, IP!Refused, I!Unavailable, IP!Unavailable
<1>3. ASSUME NEW s \in Skus
      PROVE  IP!Cardinality(IP!UnitsOfAll(reservations \union {o}, s)) <= Seed[s]
  <2>1. IP!Distinct(s)
    BY DEF LinesAreDistinct, I!Distinct, IP!Distinct
  <2> QED
    BY <1>2, <2>1, SameAssumption, IP!AcceptedTogether DEF ShownInv
<1>4. \A p \in reservations \union {o} : \A i \in DOMAIN Lines[p] : Lines[p][i].sku \in Skus
  BY AcceptedIsKnown DEF ShownInv, KnownSkus
<1> QED
  BY <1>1, <1>3, <1>4, FeasibleSets

LEMMA RefusedIsNotFeasible ==
  ASSUME ShownInv, NEW o \in Orders \ reservations, I!Refused(o)
  PROVE  reservations \union {o} \notin Feasible
<1>1. reservations \union {o} \in SUBSET Orders
  BY DEF ShownInv, IP!IInv, IP!TypeOK
<1>2. PICK i \in DOMAIN Lines[o] : I!Unavailable(Lines[o][i])
  BY DEF I!Refused
<1>3. CASE Lines[o][i].sku \notin Skus
  BY <1>1, <1>3, FeasibleSets
<1>4. CASE Lines[o][i].sku \in Skus
  <2> DEFINE s == Lines[o][i].sku
  <2>1. available[s] < Lines[o][i].quantity
    BY <1>2, <1>4 DEF I!Unavailable
  <2>2. ~ (IP!Cardinality(IP!UnitsOfAll(reservations \union {o}, s)) <= Seed[s])
    BY <1>4, <2>1, SameAssumption, IP!RefusedTogether DEF ShownInv
  <2> QED
    BY <1>1, <1>4, <2>2, FeasibleSets
<1> QED
  BY <1>3, <1>4

LEMMA OverTheLimit ==
  ASSUME NEW o \in Orders
  PROVE  WithinLimit(o) <=> o \notin OverLimit
<1> DEFINE t == D!ExactTotal(Lines[o])
           total == D!CalculateOrderTotal(Lines[o])
<1>1. t \in Nat /\ MaxOrderAmount \in Nat
  BY SagaAssumption
<1>2. total = (t + 5) \div 10
  BY DEF D!CalculateOrderTotal, D!RoundToCent
<1> HIDE DEF t, total
<1>3. total \in Int /\ (total > MaxOrderAmount <=> t >= 10 * MaxOrderAmount + 5)
  BY <1>1, <1>2
<1>4. total # Undefined
  BY <1>3, SagaAssumption
<1> QED
  BY <1>3, <1>4 DEF WithinLimit, Verdict, D!ResolveOrderStatus, OverLimit, t, total

\* While an order is attempted nothing is settled about it.
LEMMA AttemptedIsPending ==
  ASSUME LeakInv, SmoothInv, NEW w \in Workers, at[w] = "reserving"
  PROVE  /\ OrderAt(w) \in Orders /\ order[OrderAt(w)] = "PENDING"
         /\ OrderAt(w) \notin reservations /\ ~ Refusing(OrderAt(w))
<1> DEFINE o == OrderAt(w)
<1> USE DEF LeakInv, DriveInv
<1>1. o \in Orders /\ held[w].id = CreatedId(o) /\ pc[w] # "idle"
  BY RunningParts, Routing DEF FlowInv, HandlerKeepsToItsQueue, CreatedId, EventTypes
<1>2. OrderRepeat(o) /\ OrderSmooth(o)
  BY <1>1, EventIds DEF RepeatInv, SmoothInv
<1>3. ~ Past(CreatedId(o), Attempt) /\ ~ Past(CreatedId(o), AnswerGiven)
  BY <1>1, NotPast DEF Attempt, AnswerGiven
<1>4. order[o] # "none"
  BY <1>1, <1>2, HeldIsPublished DEF OrderSmooth
<1>5. order[o] \notin Final
  BY <1>2, <1>3 DEF OrderSmooth, Past
<1> QED
  BY <1>1, <1>2, <1>3, <1>4, <1>5 DEF OrderRepeat, Types, Statuses, Final

LEMMA RefusingStays ==
  ASSUME NothingFails, LeakInv, SmoothInv, [Next]_vars, NEW o \in Orders, Refusing(o)
  PROVE  Refusing(o)'
<1> USE DEF LeakInv, DriveInv
<1>1. CASE published[RefusalId(o)] > 0
  BY <1>1, EventIds, PublishedStays DEF Refusing, RefusalId
<1>2. ASSUME NEW w \in Workers, at[w] = "publishRefused", OrderAt(w) = o
      PROVE  Refusing(o)'
  <2>1. pc[w] = "running" /\ held \in [Workers -> CP!Message \union {None}]
    BY <1>2, RunningParts DEF Types, CP!TypeOK
  <2>2. ASSUME at'[w] = at[w], held'[w] = held[w]
        PROVE  Refusing(o)'
    BY <1>2, <2>2 DEF Refusing, OrderAt
  <2>3. CASE UNCHANGED <<at, held>>
    BY <2>2, <2>3
  <2>4. ASSUME NEW m \in Message, NEW v \in Workers, Deliver(v, m)
        PROVE  at'[w] = at[w] /\ held'[w] = held[w]
    BY <2>1, <2>4 DEF Deliver, C!Receive, C!SkipDuplicate, C!CanDeliver, C!workerVars, Goto, Types
  <2>5. ASSUME NEW v \in Workers, HandlerStep(v), v # w
        PROVE  at'[w] = at[w] /\ held'[w] = held[w]
    BY <2>5, HandlerStepTypes DEF Types
  <2>6. ASSUME HandlerStep(w)
        PROVE  PublishRefused(w)
    BY <1>2, <2>6, DecisionTaken DEF HandlerStep, Decides, ReserveLookup, ReserveFinish,
       PublishReserved, ReleaseLookup, ReleaseFinish, PublishConfirmed, PublishRelease,
       PublishFailed, PublishStep, SendMail, At
  <2>7. ASSUME PublishRefused(w)
        PROVE  Refusing(o)'
    <3>1. C!Publish(RefusalId(o)) /\ RefusalId(o) \in Ids
      BY <1>2, <2>7, EventIds DEF PublishRefused, PublishStep, RefusalId
    <3>2. published'[RefusalId(o)] > 0
      BY <3>1 DEF C!Publish, Types, CP!TypeOK
    <3> QED
      BY <3>2 DEF Refusing, RefusalId
  <2>8. ASSUME NEW v \in Workers, HandlerReturns(v)
        PROVE  at'[w] = at[w] /\ held'[w] = held[w]
    BY <1>2, <2>8 DEF HandlerReturns, C!HandlerReturns, C!Goto, Goto, Types
  <2>9. ASSUME NEW v \in Workers, Conclude(v)
        PROVE  at'[w] = at[w] /\ held'[w] = held[w]
    <3>1. at' = at /\ pc[v] # "running"
      BY <2>9 DEF Conclude, C!MarkProcessed, C!Ack, C!Republish, C!Nack, C!Goto
    <3>2. held' = held \/ held' = [held EXCEPT ![v] = None]
      BY <2>9 DEF Conclude, C!MarkProcessed, C!Ack, C!Republish, C!Nack, C!Goto, C!Finish
    <3> QED
      BY <2>1, <3>1, <3>2
  <2>10. ASSUME NEW p \in Orders, CreateOrder(p) \/ RelayPublish(p)
         PROVE  UNCHANGED <<at, held>>
    BY <2>10 DEF CreateOrder, RelayPublish, C!Publish, C!workerVars, consumerVars
  <2>11. ASSUME NEW R \in Batches, RelayMark(R)
         PROVE  UNCHANGED <<at, held>>
    BY <2>11 DEF RelayMark, consumerVars
  <2>12. ASSUME NEW m \in Message, Expire(m)
         PROVE  UNCHANGED <<at, held>>
    BY <2>12 DEF Expire, C!Expire, C!workerVars
  <2>13. UNCHANGED vars => UNCHANGED <<at, held>>
    BY DEF vars, consumerVars
  <2> QED
    BY <2>2, <2>3, <2>4, <2>5, <2>6, <2>7, <2>8, <2>9, <2>10, <2>11, <2>12, <2>13, SmoothCases
<1> QED
  BY <1>1, <1>2 DEF Refusing

\* An order is refused by the step that finds its stock missing.
LEMMA RefusalsMove ==
  ASSUME NothingFails, LeakInv, SmoothInv, [Next]_vars
  PROVE  \/ Refusals' = Refusals
         \/ \E w \in Workers : ReserveFinish(w) /\ at'[w] = "publishRefused"
<1>1. CASE \E w \in Workers : ReserveFinish(w) /\ at'[w] = "publishRefused"
  BY <1>1
<1>2. CASE ~ \E w \in Workers : ReserveFinish(w) /\ at'[w] = "publishRefused"
  <2>1. ASSUME NEW o \in Orders
        PROVE  Refusing(o)' <=> Refusing(o)
    BY <1>2, RefusingMoves, RefusingStays DEF Attempts, LeakInv, DriveInv, Types
  <2> QED
    BY <2>1 DEF Refusals
<1> QED
  BY <1>1, <1>2

\* The step of OrderLifecycle behind a step of a handler.
LEMMA ShownHold ==
  ASSUME NothingFails, LinesAreDistinct, ShownInv, [Next]_vars, NEW w \in Workers,
         NEW o \in Orders, OrderAt(w) = o, ReserveFinish(w), at'[w] # "publishRefused"
  PROVE  L!Hold(o)
<1> USE DEF ShownInv, LeakInv, DriveInv
<1>1. /\ at[w] = "reserving" /\ at' = [at EXCEPT ![w] = "publishReserved"]
      /\ ~ I!Refused(o) /\ reservations' = reservations \union {o}
  BY InventoryPaths DEF Goes, Types
<1>2. o \in Orders /\ order[o] = "PENDING" /\ o \notin reservations /\ ~ Refusing(o)
  BY <1>1, AttemptedIsPending
<1>3. reservations \union {o} \in Feasible
  BY <1>1, <1>2, AcceptedIsFeasible
<1>4. order' = order /\ mails' = mails
  BY DEF ReserveFinish
<1>5. ~ \E v \in Workers : ReserveFinish(v) /\ at'[v] = "publishRefused"
  BY <1>1 DEF ReserveFinish, At, Types
<1>6. Refusals' = Refusals /\ Told' = Told
  BY <1>4, <1>5, RefusalsMove DEF Told
<1> QED
  BY <1>1, <1>2, <1>3, <1>4, <1>6 DEF L!Hold, Refusals, Told, Refusing, RefusalId

LEMMA ShownRefuse ==
  ASSUME NothingFails, ShownInv, [Next]_vars, NEW w \in Workers,
         NEW o \in Orders, OrderAt(w) = o, ReserveFinish(w), at'[w] = "publishRefused"
  PROVE  L!Refuse(o)
<1> USE DEF ShownInv, LeakInv, DriveInv
<1>1. /\ at[w] = "reserving" /\ at' = [at EXCEPT ![w] = "publishRefused"]
      /\ I!Refused(o) /\ reservations' = reservations
  BY InventoryPaths DEF Goes, Types
<1>2. o \in Orders /\ order[o] = "PENDING" /\ o \notin reservations
  BY <1>1, AttemptedIsPending
<1>3. reservations \union {o} \notin Feasible
  BY <1>1, <1>2, RefusedIsNotFeasible
<1>4. UNCHANGED <<order, mails, held>>
  BY DEF ReserveFinish, consumerVars
<1>5. Refusals' = Refusals \union {o}
  <2>1. ASSUME NEW p \in Orders, p = o
        PROVE  Refusing(p)'
    BY <1>1, <1>4, <2>1 DEF Refusing, OrderAt, Types
  <2>2. ASSUME NEW p \in Orders, Refusing(p)', p # o
        PROVE  Refusing(p)
    BY <1>1, <2>2, RefusingMoves DEF Attempts, Types
  <2>3. \A p \in Orders : Refusing(p) => Refusing(p)'
    BY RefusingStays
  <2> QED
    BY <1>2, <2>1, <2>2, <2>3 DEF Refusals
<1>6. Told' = Told
  BY <1>4 DEF Told
<1> QED
  BY <1>1, <1>2, <1>3, <1>4, <1>5, <1>6 DEF L!Refuse, Refusals, Told, Refusing, RefusalId

LEMMA ShownDecision ==
  ASSUME NothingFails, ShownInv, [Next]_vars, NEW w \in Workers, Decides(w),
         NEW o \in Orders, OrderAt(w) = o
  PROVE  L!Confirm(o) \/ L!Reject(o)
<1> USE DEF ShownInv, LeakInv, DriveInv
<1>1. /\ at[w] = "start" /\ pc[w] # "idle" /\ o \in Orders
      /\ held[w].id = <<EventAt(w), o>>
  BY DecisionTaken, HeldParts
<1>2. order[o] = "PENDING" /\ held[w].retry = 0 /\ published[held[w].id] > 0
  BY <1>1, DecidesOnce, HeldIsPublished
<1>3. UNCHANGED <<reservations, mails>>
  BY DEF Decides, ApplyReserved, ApplyReservationFailed, stockVars
<1>4. Refusals' = Refusals /\ Told' = Told
  <2>1. ~ \E v \in Workers : ReserveFinish(v) /\ at'[v] = "publishRefused"
    <3>1. at'[w] \notin {"publishRefused", "start"} /\ \A v \in Workers \ {w} : at'[v] = at[v]
      BY DecisionTaken, HandlerStepTypes DEF Decides, HandlerStep, Types, ApplyReserved,
         ApplyReservationFailed, Goto
    <3> QED
      BY <3>1 DEF ReserveFinish, At
  <2> QED
    BY <1>3, <2>1, RefusalsMove DEF Told
<1>5. OrderStock(o) /\ OrderSmooth(o)
  BY <1>1 DEF StockInv, SmoothInv
<1>6. CASE EventAt(w) = "inventory.reserved"
  <2>1. o \in reservations
    BY <1>1, <1>2, <1>5, <1>6 DEF OrderStock, Granted, ReservedId, OrderSmooth
  <2>2. \/ order' = [order EXCEPT ![o] = "CONFIRMED"] /\ o \notin OverLimit
        \/ order' = [order EXCEPT ![o] = "FAILED"] /\ o \in OverLimit
    BY <1>1, <1>6, OrderPaths, OverTheLimit DEF Goes
  <2> QED
    BY <1>1, <1>2, <1>3, <1>4, <2>1, <2>2
       DEF L!Confirm, L!Reject, L!Become, Refusals, Told, Refusing, RefusalId
<1>7. CASE EventAt(w) = "inventory.reservation.failed"
  <2>1. order' = [order EXCEPT ![o] = "FAILED"]
    BY <1>2, <1>7, OrderPaths DEF Goes
  <2>2. o \in Refusals
    BY <1>1, <1>2, <1>7 DEF Refusals, Refusing, RefusalId
  <2> QED
    BY <1>1, <1>2, <1>3, <1>4, <2>1, <2>2
       DEF L!Reject, L!Become, Refusals, Told, Refusing, RefusalId
<1> QED
  BY <1>6, <1>7, DecisionTaken DEF Answers

LEMMA ShownReturn ==
  ASSUME NothingFails, ShownInv, [Next]_vars, NEW w \in Workers, ReleaseFinish(w),
         NEW o \in Orders, OrderAt(w) = o
  PROVE  L!Return(o)
<1> USE DEF ShownInv, LeakInv, DriveInv
<1>1. /\ EventAt(w) = "inventory.release" /\ at' = [at EXCEPT ![w] = "return"]
      /\ at[w] = "releasing" /\ o \in reservations /\ reservations' = reservations \ {o}
  BY InventoryPaths DEF Goes
<1>2. o \in Orders /\ pc[w] # "idle" /\ held[w].id = ReleaseId(o)
  BY <1>1, RunningParts DEF ReleaseId
<1>3. order[o] = "FAILED"
  BY <1>2, HeldIsPublished DEF SmoothInv, OrderSmooth
<1>4. UNCHANGED <<order, mails>>
  BY DEF ReleaseFinish
<1>5. ~ \E v \in Workers : ReserveFinish(v) /\ at'[v] = "publishRefused"
  BY <1>1 DEF ReserveFinish, At, Types
<1>6. Refusals' = Refusals /\ Told' = Told
  BY <1>4, <1>5, RefusalsMove DEF Told
<1> QED
  BY <1>1, <1>2, <1>3, <1>4, <1>6 DEF L!Return, Refusals, Told, Refusing, RefusalId

LEMMA ShownMail ==
  ASSUME NothingFails, ShownInv, [Next]_vars, NEW w \in Workers, SendMail(w),
         NEW o \in Orders, OrderAt(w) = o
  PROVE  L!Announce(o) \/ UNCHANGED L!vars
<1> USE DEF ShownInv, LeakInv, DriveInv
<1>1. /\ at[w] = "start" /\ at' = [at EXCEPT ![w] = "return"]
      /\ UNCHANGED <<order, reservations>>
  BY DEF SendMail, At, Goto, stockVars
<1>2. PICK f \in Final : /\ EventAt(w) = Announcement(f)
                         /\ mails' = [mails EXCEPT ![o][f] = @ + 1]
  BY DEF SendMail
<1>3. o \in Orders /\ pc[w] # "idle" /\ held[w].id = MailId(o, f)
  BY <1>1, <1>2, RunningParts DEF MailId
<1>4. order[o] = f
  BY <1>3, HeldIsPublished DEF SmoothInv, OrderSmooth
<1>5. ~ \E v \in Workers : ReserveFinish(v) /\ at'[v] = "publishRefused"
  BY <1>1 DEF ReserveFinish, At, Types
<1>6. Refusals' = Refusals
  BY <1>5, RefusalsMove
<1>7. Told' = Told \union {o}
  <2>1. \A p \in Orders, g \in Final :
          /\ mails[p][g] \in Nat
          /\ mails'[p][g] = IF p = o /\ g = f THEN mails[p][g] + 1 ELSE mails[p][g]
    BY <1>2, <1>3 DEF Types
  <2> QED
    BY <1>3, <2>1 DEF Told
<1>8. CASE o \in Told
  BY <1>1, <1>3, <1>6, <1>7, <1>8, Seen DEF L!vars, Refusals, Told, Refusing, RefusalId
<1>9. CASE o \notin Told
  BY <1>1, <1>3, <1>4, <1>6, <1>7, <1>9
     DEF L!Announce, Refusals, Told, Refusing, RefusalId, Final
<1> QED
  BY <1>3, <1>8, <1>9

LEMMA NothingSeen ==
  ASSUME UNCHANGED <<order, reservations, mails>>, Refusals' = Refusals
  PROVE  UNCHANGED L!vars
BY DEF L!vars, Refusals, Told, Refusing, RefusalId

LEMMA ShownStep ==
  ASSUME NothingFails, LinesAreDistinct, ShownInv, [Next]_vars
  PROVE  [L!Next]_L!vars
<1> USE DEF ShownInv, LeakInv, DriveInv
<1>1. ASSUME NEW o \in Orders, CreateOrder(o)
      PROVE  L!Place(o)
  BY <1>1 DEF CreateOrder, consumerVars, stockVars, L!Place, L!Become, OrderAt
<1>2. ASSUME UNCHANGED <<order, reservations, mails>>,
             ~ \E w \in Workers : ReserveFinish(w) /\ at'[w] = "publishRefused"
      PROVE  UNCHANGED L!vars
  BY <1>2, RefusalsMove, NothingSeen
<1>3. ASSUME UNCHANGED <<order, reservations, mails>>,
             \/ UNCHANGED <<at, held, published>>
             \/ \E w \in Workers : \E p : p # "publishRefused" /\ at' = [at EXCEPT ![w] = p]
      PROVE  UNCHANGED L!vars
  BY <1>2, <1>3 DEF ReserveFinish, At, Types
<1>4. ASSUME NEW w \in Workers, HandlerStep(w)
      PROVE  (\E o \in Orders : L!Advance(o)) \/ UNCHANGED L!vars
  <2>1. PICK o \in Orders : OrderAt(w) = o
    BY <1>4, HandlerStepTypes, RunningParts
  <2>2. CASE ReserveFinish(w)
    <3>1. L!Hold(o) \/ L!Refuse(o)
      BY <2>1, <2>2, ShownHold, ShownRefuse
    <3> QED
      BY <3>1 DEF L!Advance
  <2>3. CASE Decides(w)
    <3>1. L!Confirm(o) \/ L!Reject(o)
      BY <2>1, <2>3, ShownDecision
    <3> QED
      BY <3>1 DEF L!Advance
  <2>4. CASE ReleaseFinish(w)
    <3>1. L!Return(o)
      BY <2>1, <2>4, ShownReturn
    <3> QED
      BY <3>1 DEF L!Advance
  <2>5. CASE SendMail(w)
    <3>1. L!Announce(o) \/ UNCHANGED L!vars
      BY <2>1, <2>5, ShownMail
    <3> QED
      BY <3>1 DEF L!Advance
  <2>6. CASE ReserveLookup(w) \/ ReleaseLookup(w)
    BY <1>3, <2>6 DEF ReserveLookup, ReleaseLookup, Goto, stockVars
  <2>7. CASE \/ PublishReserved(w) \/ PublishRefused(w) \/ PublishRelease(w)
             \/ PublishConfirmed(w) \/ PublishFailed(w)
    BY <1>3, <2>7 DEF PublishReserved, PublishRefused, PublishRelease, PublishConfirmed,
       PublishFailed, PublishStep, Goto, stockVars
  <2> QED
    BY <1>4, <2>2, <2>3, <2>4, <2>5, <2>6, <2>7 DEF HandlerStep, Decides
<1>5. ASSUME NEW o \in Orders, RelayPublish(o)
      PROVE  UNCHANGED L!vars
  BY <1>2, <1>5 DEF RelayPublish, stockVars, ReserveFinish, At
<1>6. ASSUME NEW R \in Batches, RelayMark(R)
      PROVE  UNCHANGED L!vars
  BY <1>3, <1>6 DEF RelayMark, consumerVars, stockVars
<1>7. ASSUME NEW m \in Message, NEW w \in Workers, Deliver(w, m)
      PROVE  UNCHANGED L!vars
  BY <1>2, <1>7 DEF Deliver, Goto, stockVars, ReserveFinish, At, Types
<1>8. ASSUME NEW w \in Workers, HandlerReturns(w) \/ Conclude(w)
      PROVE  UNCHANGED L!vars
  BY <1>2, <1>8 DEF HandlerReturns, Conclude, Goto, stockVars, ReserveFinish, At, Types
<1>9. ASSUME NEW m \in Message, Expire(m)
      PROVE  UNCHANGED L!vars
  BY <1>2, <1>9 DEF Expire, stockVars, ReserveFinish, At
<1>10. UNCHANGED vars => UNCHANGED L!vars
  BY <1>3 DEF vars, consumerVars, stockVars
<1> QED
  BY <1>1, <1>4, <1>5, <1>6, <1>7, <1>8, <1>9, <1>10, SmoothCases DEF L!Next

LEMMA ShownInvariance ==
  ASSUME NothingFails
  PROVE  Spec => []ShownInv
<1>1. Spec => []IP!IInv
  BY FollowsTheBooks, SameAssumption, IP!Invariance
<1>2. LeakInv /\ KnownSkus /\ [Next]_vars => KnownSkus'
  BY KnownStep
<1> QED
  BY <1>1, <1>2, KnownInit, LeakInvariance, SmoothInvariance, PTL DEF Spec, ShownInv

\* While nothing fails, and when no order names a SKU twice, the API, the relay,
\* the broker, three kinds of workers and two databases show the customer nothing
\* but the order lifecycle: stock is held exactly if it suffices, an order decided
\* once and accordingly, a rejected one's stock returned, the outcome announced.
THEOREM FlowImplementsLifecycle ==
  ASSUME MaxErrors = 0, MaxOutages = 0, \A s \in Skus : I!Distinct(s)
  PROVE  Spec => ImplementsLifecycle
<1>1. Init => L!Init
  <2> SUFFICES ASSUME Init
               PROVE  L!Init
    OBVIOUS
  <2>1. /\ \A w \in Workers : at[w] = "none"
        /\ \A o \in Orders : published[RefusalId(o)] = 0 /\ \A f \in Final : mails[o][f] = 0
    BY EventIds DEF Init, C!Init
  <2> QED
    BY <2>1 DEF Init, L!Init, RefusalId
<1>2. ShownInv /\ [Next]_vars => [L!Next]_L!vars
  BY ShownStep DEF NothingFails, LinesAreDistinct
<1>3. Spec => []ShownInv
  BY ShownInvariance DEF NothingFails
<1> QED
  BY <1>1, <1>2, <1>3, PTL DEF Spec, ImplementsLifecycle, L!Spec

\* While nothing fails a decision is final: no redelivered or second answer turns
\* a CONFIRMED order into a FAILED one or back.
THEOREM DecisionsStand ==
  ASSUME MaxErrors = 0, MaxOutages = 0
  PROVE  Spec => L!DecisionIsFinal
<1> DEFINE Keeps(o) == order[o] \in {"CONFIRMED", "FAILED"} => order'[o] = order[o]
<1>1. ASSUME LeakInv, SmoothInv, [Next]_vars
      PROVE  \A o \in Orders : Keeps(o)
  BY <1>1, OrderStays DEF Final
<1>2. Spec => [](LeakInv /\ SmoothInv)
  BY SmoothInvariance DEF NothingFails
<1> QED
  BY <1>1, <1>2, PTL DEF Spec, L!DecisionIsFinal
===============================================================================
