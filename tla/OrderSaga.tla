------------------------------- MODULE OrderSaga -------------------------------
(***************************************************************************)
(* The whole order flow: POST /orders, the outbox relay, the inventory,    *)
(* order and notification workers, PostgreSQL and RabbitMQ.                *)
(*                                                                         *)
(* Every worker follows the protocol of RetryConsumer (instance C); this   *)
(* module replaces its abstract handler by the steps between the awaits of *)
(* the real ones.  Stock is moved by the transactions of Inventory         *)
(* (instance I), which InventoryRows implements, and the relay takes the   *)
(* steps of Outbox (instance O), which OutboxRelay implements.             *)
(***************************************************************************)
EXTENDS Topology, FiniteSets

CONSTANTS
  Orders, Skus, Seed,
  Lines,                      \* [Orders -> Seq([sku, quantity, unitPrice])]
  MaxOrderAmount, Undefined,  \* see OrderDomain
  Replicas,                   \* [Services -> its replicas]
  Invocations,                \* [Services -> those a consumer can have open]
  MaxRetries, None, NoTx,
  MaxPlaced,                  \* bound: orders placed
  MaxErrors,                  \* bound: database, broker or mail errors
  MaxOutages                  \* bound: worker crashes and lost connections

VARIABLES
  \* RabbitMQ, processed_messages and the consumers, see RetryConsumer
  ready, parked, dead, dropped, processed, pc, held, stale,
  published, handled, failedAt, outages,
  \* inventory_items and inventory_reservations, see Inventory
  available, reserved, reservations,
  order,      \* [Orders -> status of the row in orders, or "none"]
  outbox,     \* [Orders -> state of the order.created row in Outbox]
  rollbacks,  \* [Orders -> rolled back relay transactions that had claimed it]
  at,         \* [Workers -> where its running handler has got to]
  mails,      \* [Orders -> [final status -> emails of that kind sent]]
  errors,     \* errors so far
  failures,   \* history: [Ids -> how many deliveries of an event threw]
  cutOff      \* history: [Ids -> how many a crash or lost connection cut off]

Statuses == {"PENDING", "CONFIRMED", "FAILED"}
Final    == {"CONFIRMED", "FAILED"}

\* messageId: `${event}:${orderId}`
Ids == EventTypes \X Orders
Event(id)   == id[1]
OrderOf(id) == id[2]

\* Worker <<q, i, k>> is invocation k of the consumer of queue q in replica i of
\* its service.  A second one is called only while the first is stale.
Services == {"worker", "inventory-worker", "notification-worker"}
Service(q) ==
  CASE q = "order.processing"    -> "worker"
    [] q = "order.notifications" -> "notification-worker"
    [] q \in {"inventory.reserve", "inventory.release"} -> "inventory-worker"
Workers ==
  UNION {{q} \X Replicas[Service(q)] \X Invocations[Service(q)] : q \in Queues}
Process(w) == <<Service(w[1]), w[2]>>
Processes == {Process(w) : w \in Workers}
Host     == [w \in Workers |-> Process(w)]
Serves   == [w \in Workers |-> w[1]]
QueueOf  == [id \in Ids |-> BoundQueue(Event(id))]

\* Every producer is JSON.stringify in publisher.ts: nothing is malformed.
Malformed   == {}
OnMalformed == [q \in Queues |-> "retry"]

C == INSTANCE RetryConsumer WITH MaxPublishes <- 2 + MaxErrors + MaxOutages

Message == C!Message

TxOf(w) ==
  CASE at[w] = "reserving" -> [op |-> "reserve", order |-> OrderOf(held[w].id)]
    [] at[w] = "releasing" -> [op |-> "release", order |-> OrderOf(held[w].id)]
    [] OTHER               -> NoTx

InventoryWorkers == {w \in Workers : Service(w[1]) = "inventory-worker"}

I == INSTANCE Inventory WITH
       Txns <- InventoryWorkers, tx <- [w \in InventoryWorkers |-> TxOf(w)]

O == INSTANCE Outbox WITH
       Rows <- Orders, row <- outbox,
       sent <- [o \in Orders |-> published[<<"order.created", o>>]]

D == INSTANCE OrderDomain

ASSUME SagaAssumption ==
  /\ I!InventoryAssumption
  /\ MaxRetries \in Nat /\ MaxErrors \in Nat /\ MaxOutages \in Nat
  /\ None \notin Message
  /\ MaxOrderAmount \in Nat /\ Undefined \notin Int
  /\ \A o \in Orders : D!ExactTotal(Lines[o]) \in Nat

consumerVars == <<ready, parked, dead, dropped, processed, pc, held, stale,
                  published, handled, failedAt, outages>>
stockVars == <<available, reserved, reservations>>
vars == <<consumerVars, stockVars, order, outbox, rollbacks, at, mails, errors, failures, cutOff>>

Positions == {"none", "start", "reserving", "releasing", "publishReserved",
              "publishRefused", "publishRelease", "publishConfirmed",
              "publishFailed", "return"}

TypeOK ==
  /\ C!TypeOK
  /\ I!TypeOK
  /\ order \in [Orders -> Statuses \union {"none"}]
  /\ outbox \in [Orders -> {"none", "unpublished", "published"}]
  /\ rollbacks \in [Orders -> Nat]
  /\ at \in [Workers -> Positions]
  /\ \A w \in Workers : at[w] # "none" <=> pc[w] = "running"
  /\ mails \in [Orders -> [Final -> Nat]]
  /\ errors \in 0 .. MaxErrors
  /\ failures \in [Ids -> Nat]
  /\ cutOff \in [Ids -> Nat]

Init ==
  /\ C!Init
  /\ available = Seed
  /\ reserved = [s \in Skus |-> 0]
  /\ reservations = {}
  /\ order = [o \in Orders |-> "none"]
  /\ outbox = [o \in Orders |-> "none"]
  /\ rollbacks = [o \in Orders |-> 0]
  /\ at = [w \in Workers |-> "none"]
  /\ mails = [o \in Orders |-> [f \in Final |-> 0]]
  /\ errors = 0
  /\ failures = [id \in Ids |-> 0]
  /\ cutOff = [id \in Ids |-> 0]
-----------------------------------------------------------------------------
(* API and outbox relay *)

Placed == {o \in Orders : order[o] # "none"}

\* POST /orders: the order row and its outbox row, in one transaction.
CreateOrder(o) ==
  /\ order[o] = "none"
  /\ Cardinality(Placed) < MaxPlaced
  /\ order' = [order EXCEPT ![o] = "PENDING"]
  /\ UNCHANGED <<consumerVars, stockVars, at, mails, errors, failures, cutOff>>
  /\ O!Write(o)

\* publishPending, one row: the broker accepts the event.
RelayPublish(o) ==
  /\ C!Publish(<<"order.created", o>>)
  /\ O!Publish(o)
  /\ UNCHANGED <<stockVars, order, at, mails, errors, failures, cutOff>>

\* The relay's transaction commits and with it the marks of its batch.
RelayMark(R) ==
  /\ UNCHANGED <<consumerVars, stockVars, order, at, mails, errors, failures, cutOff>>
  /\ O!Mark(R)

\* The relay died, a publish failed or the transaction timed out: what was
\* published stays published, the marks are rolled back.
RelayRollBack(R) ==
  /\ errors < MaxErrors
  /\ errors' = errors + 1
  /\ UNCHANGED <<consumerVars, stockVars, order, at, mails, failures, cutOff>>
  /\ O!RollBack(R)

Batches == (SUBSET O!Unpublished) \ {{}}
-----------------------------------------------------------------------------
(* Handlers *)

OrderAt(w) == OrderOf(held[w].id)
EventAt(w) == Event(held[w].id)

At(w, q, position) == w[1] = q /\ at[w] = position
Goto(w, position)  == at' = [at EXCEPT ![w] = position]

\* publishMessage: the broker has the event; the handler still waits for the
\* confirm and may see an error instead.
PublishStep(w, position, event, next) ==
  /\ at[w] = position
  /\ C!Publish(<<event, OrderAt(w)>>)
  /\ Goto(w, next)
  /\ UNCHANGED <<stockVars, order, outbox, rollbacks, mails, errors, failures, cutOff>>

\* Mutant of ReserveLookup: an order that is already reserved needs no event.
LookupOnly(w) ==
  /\ At(w, "inventory.reserve", "start")
  /\ Goto(w, IF OrderAt(w) \in reservations THEN "return" ELSE "reserving")
  /\ UNCHANGED <<consumerVars, stockVars, order, outbox, rollbacks, mails, errors, failures, cutOff>>

\* handleOrderCreated -> reserve(): the unlocked read of the reservation.
ReserveLookup(w) ==
  /\ At(w, "inventory.reserve", "start")
  /\ Goto(w, IF OrderAt(w) \in reservations THEN "publishReserved" ELSE "reserving")
  /\ UNCHANGED <<consumerVars, stockVars, order, outbox, rollbacks, mails, errors, failures, cutOff>>

\* Mutant of ReserveFinish: no unique key on inventory_reservations.
ReserveAgain(w) ==
  /\ At(w, "inventory.reserve", "reserving")
  /\ \/ /\ I!Refused(OrderAt(w))
        /\ Goto(w, "publishRefused")
        /\ UNCHANGED stockVars
     \/ /\ ~ I!Refused(OrderAt(w))
        /\ I!TakeStock(OrderAt(w))
        /\ Goto(w, "publishReserved")
  /\ UNCHANGED <<consumerVars, order, outbox, rollbacks, mails, errors, failures, cutOff>>

\* reserve(): locks, checks, updates and commit; or a business failure.
ReserveFinish(w) ==
  /\ At(w, "inventory.reserve", "reserving")
  /\ \/ /\ I!Refused(OrderAt(w))
        /\ Goto(w, "publishRefused")
        /\ UNCHANGED stockVars
     \/ /\ ~ I!Refused(OrderAt(w))
        /\ OrderAt(w) \notin reservations
        /\ I!TakeStock(OrderAt(w))
        /\ Goto(w, "publishReserved")
  /\ UNCHANGED <<consumerVars, order, outbox, rollbacks, mails, errors, failures, cutOff>>

PublishReserved(w) == PublishStep(w, "publishReserved", "inventory.reserved", "return")
PublishRefused(w) ==
  PublishStep(w, "publishRefused", "inventory.reservation.failed", "return")

\* handleRelease -> release(): the unlocked read of the reservation.
ReleaseLookup(w) ==
  /\ At(w, "inventory.release", "start")
  /\ Goto(w, IF OrderAt(w) \in reservations THEN "releasing" ELSE "return")
  /\ UNCHANGED <<consumerVars, stockVars, order, outbox, rollbacks, mails, errors, failures, cutOff>>

ReleaseFinish(w) ==
  /\ At(w, "inventory.release", "releasing")
  /\ OrderAt(w) \in reservations
  /\ I!ReturnStock(OrderAt(w))
  /\ Goto(w, "return")
  /\ UNCHANGED <<consumerVars, order, outbox, rollbacks, mails, errors, failures, cutOff>>

\* Mutant of IsReservationFailed: the routing key of another event is tested.
IsOrderFailed(w) == DeliveredKey(EventAt(w), held[w].retry) = "order.failed"

\* processMessage dispatches on the routing key of the delivery.
IsReservationFailed(w) ==
  DeliveredKey(EventAt(w), held[w].retry) = "inventory.reservation.failed"

\* totalAmount of the event: only inventory.reserved carries one.
TotalAmount(w) ==
  IF EventAt(w) = "inventory.reserved"
    THEN D!CalculateOrderTotal(Lines[OrderAt(w)]) ELSE Undefined

SetStatus(w, status) == order' = [order EXCEPT ![OrderAt(w)] = status]

\* handleInventoryFailed: updateStatus(FAILED).
ApplyReservationFailed(w) ==
  /\ At(w, "order.processing", "start")
  /\ IsReservationFailed(w)
  /\ SetStatus(w, "FAILED")
  /\ Goto(w, "publishFailed")
  /\ UNCHANGED <<consumerVars, stockVars, outbox, rollbacks, mails, errors, failures, cutOff>>

\* Mutant of ApplyReserved: a rejected order's stock is not released.
RejectWithoutRelease(w) ==
  LET status == D!ResolveOrderStatus(TotalAmount(w))
  IN  /\ At(w, "order.processing", "start")
      /\ ~ IsReservationFailed(w)
      /\ SetStatus(w, status)
      /\ Goto(w, IF status = "CONFIRMED" THEN "publishConfirmed" ELSE "publishFailed")
      /\ UNCHANGED <<consumerVars, stockVars, outbox, rollbacks, mails, errors, failures, cutOff>>

\* Mutant of ApplyReserved: an order that is no longer PENDING is skipped.
ApplyOnce(w) ==
  LET status == D!ResolveOrderStatus(TotalAmount(w))
  IN  /\ At(w, "order.processing", "start")
      /\ ~ IsReservationFailed(w)
      /\ \/ /\ order[OrderAt(w)] = "PENDING"
            /\ SetStatus(w, status)
            /\ Goto(w, IF status = "CONFIRMED" THEN "publishConfirmed"
                                              ELSE "publishRelease")
         \/ /\ order[OrderAt(w)] # "PENDING"
            /\ Goto(w, "return")
            /\ UNCHANGED order
      /\ UNCHANGED <<consumerVars, stockVars, outbox, rollbacks, mails, errors, failures, cutOff>>

\* handleInventoryReserved: the 1.5s delay, then updateStatus by the amount.
ApplyReserved(w) ==
  LET status == D!ResolveOrderStatus(TotalAmount(w))
  IN  /\ At(w, "order.processing", "start")
      /\ ~ IsReservationFailed(w)
      /\ SetStatus(w, status)
      /\ Goto(w, IF status = "CONFIRMED" THEN "publishConfirmed" ELSE "publishRelease")
      /\ UNCHANGED <<consumerVars, stockVars, outbox, rollbacks, mails, errors, failures, cutOff>>

PublishConfirmed(w) == PublishStep(w, "publishConfirmed", "order.confirmed", "return")
PublishRelease(w)   == PublishStep(w, "publishRelease", "inventory.release", "publishFailed")

\* Mutant of PublishFailed: nobody is told of the rejection.
RejectSilently(w) ==
  /\ at[w] = "publishFailed"
  /\ Goto(w, "return")
  /\ UNCHANGED <<consumerVars, stockVars, order, outbox, rollbacks, mails, errors, failures, cutOff>>

PublishFailed(w) == PublishStep(w, "publishFailed", "order.failed", "return")

\* The event that tells the customer of a final status.
Announcement(status) == IF status = "CONFIRMED" THEN "order.confirmed" ELSE "order.failed"

\* handleOrderProcessed: mailer.sendMail with the status of the event.
SendMail(w) ==
  /\ At(w, "order.notifications", "start")
  /\ \E status \in Final :
       /\ EventAt(w) = Announcement(status)
       /\ mails' = [mails EXCEPT ![OrderAt(w)][status] = @ + 1]
  /\ Goto(w, "return")
  /\ UNCHANGED <<consumerVars, stockVars, order, outbox, rollbacks, errors, failures, cutOff>>

HandlerStep(w) ==
  \/ ReserveLookup(w)
  \/ ReserveFinish(w)
  \/ PublishReserved(w)
  \/ PublishRefused(w)
  \/ ReleaseLookup(w)
  \/ ReleaseFinish(w)
  \/ ApplyReservationFailed(w)
  \/ ApplyReserved(w)
  \/ PublishConfirmed(w)
  \/ PublishRelease(w)
  \/ PublishFailed(w)
  \/ SendMail(w)
-----------------------------------------------------------------------------
(* The consumer protocol around the handlers *)

Deliver(w, m) ==
  /\ \/ C!Receive(w, m) /\ Goto(w, "start")
     \/ C!SkipDuplicate(w, m) /\ UNCHANGED at
  /\ UNCHANGED <<stockVars, order, outbox, rollbacks, mails, errors, failures, cutOff>>

\* Mutant of HandlerReturns: the position of the handler is kept.
ReturnInPlace(w) ==
  /\ at[w] = "return"
  /\ C!HandlerReturns(w)
  /\ UNCHANGED <<stockVars, order, outbox, rollbacks, at, mails, errors, failures, cutOff>>

HandlerReturns(w) ==
  /\ at[w] = "return"
  /\ C!HandlerReturns(w)
  /\ Goto(w, "none")
  /\ UNCHANGED <<stockVars, order, outbox, rollbacks, mails, errors, failures, cutOff>>

\* The invocation throws and comes to its catch block.
ThrowFrom(w) ==
  /\ C!Throw(w)
  /\ Goto(w, "none")
  /\ failures' = [failures EXCEPT ![held[w].id] = @ + 1]
  /\ UNCHANGED <<stockVars, order, outbox, rollbacks, mails, cutOff>>

\* Another transaction of the order changed the reservation after the unlocked
\* read: reserve() hits the primary key, release() deletes no row; both roll
\* back and throw.
TransactionConflict(w) ==
  /\ \/ /\ At(w, "inventory.reserve", "reserving")
        /\ ~ I!Refused(OrderAt(w))
        /\ OrderAt(w) \in reservations
     \/ /\ At(w, "inventory.release", "releasing")
        /\ OrderAt(w) \notin reservations
  /\ ThrowFrom(w)
  /\ UNCHANGED errors

\* The database, the broker or the mail server fails the current await.
Throw(w) ==
  /\ errors < MaxErrors
  /\ errors' = errors + 1
  /\ ThrowFrom(w)

\* After the handler: markProcessed and ack, or the catch block.
Conclude(w) ==
  /\ C!MarkProcessed(w) \/ C!Ack(w) \/ C!Republish(w) \/ C!Nack(w)
  /\ UNCHANGED <<stockVars, order, outbox, rollbacks, at, mails, errors, failures, cutOff>>

Expire(m) ==
  /\ C!Expire(m)
  /\ UNCHANGED <<stockVars, order, outbox, rollbacks, at, mails, errors, failures, cutOff>>

\* The deliveries that process p has not acknowledged are requeued.
CutOff(p) ==
  cutOff' = [id \in Ids |->
    IF \E w \in Workers : Process(w) = p /\ C!Unacked(w) /\ held[w].id = id
      THEN cutOff[id] + 1 ELSE cutOff[id]]

\* A crash rolls the open database transactions of the process back.
Crash(p) ==
  /\ C!Crash(p)
  /\ CutOff(p)
  /\ at' = [w \in Workers |-> IF Process(w) = p THEN "none" ELSE at[w]]
  /\ UNCHANGED <<stockVars, order, outbox, rollbacks, mails, errors, failures>>

ConnectionLost(p) ==
  /\ C!ConnectionLost(p)
  /\ CutOff(p)
  /\ UNCHANGED <<stockVars, order, outbox, rollbacks, at, mails, errors, failures>>

RelayStep ==
  (\E o \in Orders : RelayPublish(o)) \/ (\E R \in Batches : RelayMark(R))

Ready == {m \in Message : ready[m] > 0}

WorkerStep(w) ==
  \/ HandlerStep(w)
  \/ HandlerReturns(w)
  \/ TransactionConflict(w)
  \/ Conclude(w)

Next ==
  \/ \E o \in Orders : CreateOrder(o)
  \/ RelayStep
  \/ \E R \in Batches : RelayRollBack(R)
  \/ \E m \in Ready : \E w \in Workers : Deliver(w, m)
  \/ \E w \in Workers : WorkerStep(w) \/ Throw(w)
  \/ \E m \in Message : Expire(m)
  \/ \E p \in Processes : Crash(p) \/ ConnectionLost(p)

Spec == Init /\ [][Next]_vars

\* The relay polls every second, consumers take what is ready, invocations run
\* to their end and the retry TTL passes.  Clients need not place orders and
\* errors, crashes and reconnects need not happen.
Fairness ==
  /\ WF_vars(RelayStep)
  /\ \A w \in Workers : WF_vars(WorkerStep(w) \/ \E m \in Ready : Deliver(w, m))
  /\ WF_vars(\E m \in Message : Expire(m))

FairSpec == Spec /\ Fairness
-----------------------------------------------------------------------------
\* Some message of these events about o is still in the broker, or an operator
\* can find it in a dead letter queue.
Driven(events, o) ==
  \E e \in events : C!InBroker(<<e, o>>) \/ <<e, o>> \in dead

Deciding   == {"order.created", "inventory.reserved", "inventory.reservation.failed"}
Announcing == {"order.confirmed", "order.failed"}

\* README, journey of an order: "The order is only CONFIRMED after stock has
\* actually been reserved", and that stock is still held.
ConfirmedOnlyWithStock ==
  \A o \in Orders : order[o] = "CONFIRMED" => o \in reservations

\* A PENDING order is never forgotten: its order.created waits in the outbox or
\* an event that will decide it is on its way, whatever crashed, failed, was
\* redelivered or deduplicated before.
PendingIsDriven ==
  \A o \in Orders :
    order[o] = "PENDING" => outbox[o] = "unpublished" \/ Driven(Deciding, o)

\* A handler has set the status of o and not announced it yet.
BeingAnnounced(o) ==
  \E w \in Workers :
    at[w] \in {"publishConfirmed", "publishRelease", "publishFailed"} /\ OrderAt(w) = o

\* A decided order is never decided in silence: the mail about its present
\* status was sent, or an event that leads to it is on its way or about to be
\* published.
DecidedIsAnnounced ==
  \A o \in Orders :
    order[o] \in Final =>
      \/ mails[o][order[o]] > 0
      \/ Driven(Deciding \union Announcing, o)
      \/ BeingAnnounced(o)

\* The reservation of a FAILED order is only waiting to be released.  The
\* schema's comment on inventory_reservations and README's "absorbed without
\* side effects" promise as much of redelivered events.
FailedHoldsNoStock ==
  \A o \in Orders :
    order[o] = "FAILED" /\ o \in reservations =>
      Driven(Deciding \union {"inventory.release"}, o)

\* Both promises are broken in one way only, see saga_unreserved_confirmation and
\* saga_stock_leak.  An order is CONFIRMED without stock only if the processing
\* of its refusal failed and was retried:
UnstockedOnlyAfterRetry ==
  \A o \in Orders :
    order[o] = "CONFIRMED" /\ o \notin reservations =>
      failures[<<"inventory.reservation.failed", o>>] > 0

\* and a FAILED order keeps stock that nothing will release only if its
\* order.created was published twice, or a delivery of it failed or was cut off.
LeakedOnlyAfterRepeat ==
  \A o \in Orders :
    order[o] = "FAILED" /\ o \in reservations =>
      \/ Driven(Deciding \union {"inventory.release"}, o)
      \/ published[<<"order.created", o>>] > 1
      \/ failures[<<"order.created", o>>] > 0
      \/ cutOff[<<"order.created", o>>] > 0

\* notification-worker: "at-least-once delivery must not send duplicate emails".
\* An attempt that fails after the mail was sent, a crash or a lost connection
\* does send one more, but nothing upstream ever does: however often the events
\* that lead to a mail are published again, redelivered and handled twice, and
\* whatever crashes elsewhere, every mail too many is paid for by a delivery of
\* the mail's own event to the one notification worker that failed or was cut off.
MailsPaidFor ==
  \A o \in Orders, f \in Final :
    mails[o][f] <=
      1 + failures[<<Announcement(f), o>>] + cutOff[<<Announcement(f), o>>]

\* Whatever is redelivered, fails or crashes, the inventory workers change the
\* stock only by the transactions of Inventory, so all it promises holds here.
FollowsInventoryProtocol == I!Spec

\* Every placed order is decided, or one of its events ends in a dead letter
\* queue.
EveryOrderDecided ==
  \A o \in Orders :
    order[o] = "PENDING" ~> order[o] \in Final \/ \E e \in Deciding : <<e, o>> \in dead

\* An order is over the limit if its exact sum is half a cent or more above it.
OverLimit == {o \in Orders : D!ExactTotal(Lines[o]) >= 10 * MaxOrderAmount + 5}

\* Sets of orders that the stock can serve together.
Feasible ==
  {S \in SUBSET Orders :
     /\ \A o \in S : \A i \in DOMAIN Lines[o] : Lines[o][i].sku \in Skus
     /\ \A s \in Skus : Cardinality(I!UnitsOfAll(S, s)) <= Seed[s]}

\* Seen from outside, the fault-free system is the order lifecycle.
L == INSTANCE OrderLifecycle WITH
       status    <- order,
       holding   <- reservations,
       refused   <- {o \in Orders :
                       \/ published[<<"inventory.reservation.failed", o>>] > 0
                       \/ \E w \in Workers :
                            at[w] = "publishRefused" /\ OrderAt(w) = o},
       announced <- {o \in Orders : \E f \in Final : mails[o][f] > 0}

ImplementsLifecycle == L!Spec
EveryOrderSettled == L!EveryOrderSettled
===============================================================================
