# TLA+ verification of the order system

This directory models the order system of this repository (an HTTP API, an
outbox relay, three RabbitMQ consumers, PostgreSQL or Redis) in TLA+. Small instances
are checked with TLC; the theorems are proved for all instances with TLAPS.
Paths below are relative to the repository root.

1. [The system and its hazards](#1-the-system)
2. [Plan](#2-plan)
3. [The modules and the code](#3-modules)
4. [The runs](#4-runs)
5. [The proofs](#5-proofs)
6. [Where code and documentation disagree](#6-findings)
7. [What is not modelled](#7-not-modelled)

## 1. The system

An order travels through the system as a *choreographed saga*:

    POST /orders ──> orders + Outbox ──relay──> order.created
      order.created ──inventory worker──> inventory.reserved | inventory.reservation.failed
      either of them ──order worker──> order.confirmed | [inventory.release,] order.failed
      inventory.release ──inventory worker──> stock goes back
      order.confirmed | order.failed ──notification worker──> mail

| Component | Code | State | Operations | Talks to |
| --- | --- | --- | --- | --- |
| HTTP API | `src/api/` | none of its own | `POST /orders`, `GET` routes, `/health`, `/ready`, shutdown | order storage |
| Order storage | `src/shared/storage/` | `orders`, `Outbox` (or Redis keys, or a `Map`) | `create`, `findById`, `list`, `updateStatus` | PostgreSQL or Redis |
| Outbox relay | `src/outbox-relay/` | `Outbox.published`, its open transaction | `publishPending` every second | PostgreSQL (row locks), broker (confirms) |
| Topology | `src/shared/messaging/connection.ts`, `constants.ts` | exchange, four work queues, each with a retry queue and a dead letter queue | routing, TTL expiry, dead-lettering | broker |
| Connection | `src/shared/messaging/connection.ts` | `channel`, `connection`, `connecting` | `getChannel`, `establishChannel`, disconnect, close | amqplib |
| Consumer protocol | `src/{worker,inventory-worker,notification-worker}/index.ts`, `shared/messaging/{idempotency,publisher}.ts` | `processed_messages`, retry header, unacknowledged deliveries | deliver, skip, handle, claim, ack, republish, nack | broker, PostgreSQL |
| Inventory | `src/shared/repositories/inventory.repository.ts` | `inventory_items`, `inventory_reservations` | `ensureSeeded`, `reserve`, `release` | PostgreSQL (row locks) |
| Order handlers | `src/*/handlers/` | order status | `handleOrderCreated`, `handleRelease`, `handleInventoryReserved`, `handleInventoryFailed`, `handleOrderProcessed` | all of the above |
| Order domain | `src/shared/domain/order.ts` | none | `calculateOrderTotal`, `resolveOrderStatus` | – |
| Mailer, auth, config, observability, process | `src/shared/`, `src/api/plugins/` | – | `sendMail`; exit on an unhandled rejection | SMTP and others |

What makes it hard, and what makes it correct:

* **Consumer protocol.** Every `await` is a place where the process can die,
  the connection can drop (its deliveries are requeued while the invocations
  go on with deliveries the broker no longer knows) or the call can fail. A
  retry is a *new* message; between its confirm and the ack of the original
  both exist. Correct: an accepted message is never lost (queued, parked,
  unacknowledged, claimed or dead-lettered); an id is claimed only once its
  handler has returned; a dead letter was really tried `MAX_RETRIES + 1`
  times; every message is settled in the end.
* **Inventory.** Both transactions read the reservation row without a lock and
  only then lock the stock rows, so a second transaction of the same order can
  commit in between. Correct: stock is conserved, the `reserved` column is
  exactly what the reservation rows account for, nothing is oversold.
* **Order flow.** Compensation (`inventory.release`) and notification race
  through different workers; events are duplicated by the relay, by requeues
  and by retries; the handlers publish in between their writes. Correct: an
  order is only confirmed with stock, a failed one gives it back, no order is
  forgotten while `PENDING` or decided in silence, and every order is decided.
* **Outbox relay.** Fifty publishes inside one transaction that Prisma closes
  after 5 s without stopping the callback, two replicas, and a poll that may
  overlap with the one before. Correct: batches are disjoint, a row is marked
  only after the broker has its event, an event is repeated only after a
  rollback, and every event is published and marked in the end.
* **Connection.** A cached channel that is cleared on disconnect while amqplib
  recovers it. Correct: one attempt to connect at a time, nobody waits for
  ever, only usable channels are cached, connections do not pile up, a process
  becomes ready again after every outage.
* **Order storage.** Three implementations of one interface, one of them with
  two commands per operation, one of them private to its process. Correct:
  each implements the same abstract store, and PostgreSQL keeps an order and
  its event together.

`PROJECT.json` lists every hazard at the line where it bites, with the
properties that cover it.

## 2. Plan

| Step | Modules | State |
| --- | --- | --- |
| 1 | `Topology`, `RetryConsumer`: what all workers share, with the proofs about it | done |
| 2 | `Inventory`: the two stock transactions, atomic from their first lock to the commit | done |
| 3 | `OrderDomain`, `OrderSaga`: the real handlers inside the consumer protocol (instance of `RetryConsumer`), with the transactions of `Inventory` and the steps of `Outbox` | done |
| 4 | `OrderLifecycle`: the abstract specification of an order, implemented by `OrderSaga` when nothing fails | done |
| 5 | `InventoryRows`: `reserve`, `release` and `ensureSeeded` statement by statement, implementing `Inventory`; proofs of conservation and of no overselling | done |
| 6 | `Outbox`, `OutboxRelay`: replicas, `SKIP LOCKED`, batches, overlapping polls, the transaction timeout; proof that they implement `Outbox` | done |
| 7 | `Connection`: `getChannel`, `establishChannel`, recovery, shutdown, readiness | done |
| 8 | `Store`, `OrderStore`: an abstract store and the PostgreSQL, Redis and in-memory ones, with the proof that each implements it | done |
| 9 | Proofs about the flow on top of `RetryConsumerProofs` and `InventoryProofs`: orders are neither forgotten nor decided in silence, the books, the mails | done |
| 10 | Proofs that `InventoryRows` implements `Inventory` and of the safety of `Connection` | done |
| 11 | Proofs about status and stock: what alone confirms without stock or leaks it under faults; that `OrderSaga` implements `OrderLifecycle` when nothing fails | done |

Three abstract specifications carry the composition: `Outbox`, `Inventory` and
`RetryConsumer` are what `OrderSaga` is built from, and the detailed relay and
inventory are separately shown to implement them. That keeps locks, batches and
replicas out of the saga's state space.

Runs stay small (a few orders, two replicas, two or three faults); what is
claimed for *any* number of messages, replicas, transactions, callers or faults
is a theorem. No module that carries theorems reaches a `RECURSIVE` operator.
Where units are added up that are proved about, they are counted as a set.

## 3. Modules

`I ──>` reads "is an instance in", `==>` reads "is shown to implement".

    RetryConsumer ── C ──> OrderSaga <── Topology (EXTENDS)
    Inventory ────── I ──>   │  └─ D ── OrderDomain
    Outbox ───────── O ──>   │
                             ╞══> OrderLifecycle   (nothing fails)
                             ╘══> Inventory        (any faults)
    InventoryRows ══> Inventory
    OutboxRelay   ══> Outbox
    OrderStore    ══> Store
    Connection

The `*Proofs` modules extend the modules they are named after, and so do the
`MC*` modules. `OrderSagaProofs` takes over the invariants of
`RetryConsumerProofs` and `InventoryProofs`, and `InventoryRowsProofs` those of
`InventoryProofs`, by INSTANCE.

**`Topology`** – `assertTopology` as a constant relation between queues and
routing keys, and `DeliveredKey`: what a consumer finds in
`message.fields.routingKey`. On a first delivery this is the key of the
publisher. The retry queues are declared with
`x-dead-letter-routing-key = <work queue>` (`connection.ts:82-89`), so on a
delivery that went through one of them it is the name of the queue. The
assumption `EveryEventHasOneQueue` is what makes `BoundQueue` a function.

**`RetryConsumer`** – `processMessage`/`handleWithRetry`. An invocation
(`Workers`) is at one of six places, which are the places between the awaits:

| `pc` | The code is at |
| --- | --- |
| `idle` | no invocation |
| `running` | `await handler(...)` |
| `done` | `await markProcessed(...)` |
| `claimed` | `channel.ack(message)` after it |
| `failed` | the `catch` block: `await republishForRetry(...)` or `nack` |
| `copied` | `channel.ack(message)` after the republish |

A message is an id and its `x-retry-count`. Design decisions:

* *Broker contents are bags.* Nothing depends on the order of delivery, which
  covers FIFO, requeues, the 5 s parking and competing consumers at once.
* *Delivery and `isAlreadyProcessed` are one step* (`Receive` or
  `SkipDuplicate`): nothing but other consumers' claims can come in between,
  and a claim that arrives after the lookup is the behaviour of a lookup just
  before it. A delivery whose lookup has not returned has changed nothing; if
  the process dies there, the message is simply back.
* *A failing `isAlreadyProcessed` or `republishForRetry`* is an unhandled
  rejection, on which `registerFaultHandlers` exits the process: `Crash`. A
  crash of an idle process changes nothing and is not a step.
* *`ConnectionLost`* requeues the deliveries of a process whose invocations
  keep running. Their acks and nacks are *stale*: they name deliveries that
  the broker no longer knows, so the requeued copy stays. That a recovered
  channel never applies such an ack to another delivery is taken from amqplib.
  `prefetch(1)` counts only deliveries the broker knows, so the process may be
  called again while a stale invocation still runs.
* *`Throw`* may also come from `claimed`: the commit of `markProcessed` can
  succeed and be reported as an error, and `ack` can throw on a closed channel.
* *Malformed payloads* follow the three policies the workers really have:
  the order worker retries them, the inventory worker dead-letters them at
  once, the notification worker acknowledges them unhandled.
* Dead letter queues are sets of ids: what matters is that an operator can find
  the message, not how often.

**`Inventory`** – `reserve` and `release` at READ COMMITTED. `tx[t]` is a
transaction past its unlocked read of the reservation row (`BeginReserve`,
`BeginRelease`); the rest, from the `FOR UPDATE` locks to the commit, is one
step with four outcomes (committed, refused, unique violation or missing row,
rolled back), because any two transactions of one order, and any two that touch
a common SKU, exclude each other there. `available` is an integer, not a
natural number: the column has no CHECK constraint. Units are added up line by
line, as the decrements are, while the *check* looks at each line alone. The sum
is the cardinality of a set with one element `<<i, n>>` for each unit `n` of each
line `i` (`UnitsOf`), which is what a proof without induction can reason about.

**`InventoryRows`** – the same transactions statement by statement:

| `at[t]`, `next[t]` | The code is at |
| --- | --- |
| `idle` | no transaction, or before its unlocked read |
| `locking`, a SKU | `SELECT … FOR UPDATE`, waiting for or about to lock this row |
| `locking`, `None` | all rows are locked: the checks of `reserve`, the start of the updates |
| `updating` | one `UPDATE` per line (`line[t]`), then `create` or `delete` of the reservation and the commit |

The scan takes the rows in *any* order: the array of SKUs is sorted
(`inventory.repository.ts:77`), but `= ANY(…)` without `ORDER BY` does not make
PostgreSQL lock in that order. `seen` is the column as it was read with the
lock, `moved` what the uncommitted updates add up to; nobody else sees them, so
`available` and `reserved` are the committed values and change at the commit.
PostgreSQL aborts one transaction of a cycle of waiters (`DeadlockDetected`);
a timeout or lost connection aborts any (`Abort`); a process dies with all of
its transactions (`Crash`). A worker counts the rows, inserts the seed if there
are none, and only then consumes; when two workers both counted none, the
second insert hits the primary key, the process exits and is started again.
The refinement to `Inventory` keeps the names of its variables.

**`Outbox`** – the promise of the transactional outbox: an event is published
at least once after its row is written, at most once more than transactions
that had claimed the row were rolled back, and marked only after that.

**`OutboxRelay`** – `publishPending`. `Polls` are the invocations that can run
at once, `Host` their process; a process has several because `setInterval`
does not wait. A poll awaits a publish or the statement after it (`publishing`,
`confirmed`), holds the locks of `claim` until its transaction ends and has
`todo` still to publish. `TransactionTimeout` empties the claim (rollback) but
leaves the publish that is in flight: it may still come through, when another
poll has long claimed, sent and even marked the row. The next statement of the
callback then throws (`End`). `createdAt` numbers the rows but their
transactions may commit in another order, so a row may appear below one that is
already published.

**`Connection`** – the three module variables of `connection.ts` and the
connections they are about. `channel` and `connection` are set and cleared
together, so a channel is named by its connection. `setup[k]` is the `await` of
`establishChannel` that attempt `k` is at, `link[k]` the TCP connection below it.
The one thing to know about `recovery: true` is that a connection which
disconnects is *not* replaced: amqplib reconnects it (`Recover`), while the
`disconnect` handler has already cleared the cache and the next caller opens
another. Nothing ever closes the forgotten one, and its handler clears the
cache of whichever connection is current when it disconnects again.

**`OrderStore`** – requests of the API and handlers of the order worker, each at
the command it has got to. `Home(c)` is where the caller's orders are: the
server, or its own process for the in-memory store. Redis' `findAll` and
`updateStatus` are two commands each (`Zrevrange`/`Mget`, `Get`/`Set`); its
`create` is a `MULTI`, which adds to `rows` and to `index`, the sorted set that
`findAll` reads. PostgreSQL's `create` is a transaction: `InsertOrder`,
`InsertEvent` and `Commit`, with its rows unseen by others until the last one, so
that a call can fail and a process die between any two. An answer is the set of
orders found, with their status.

**`Store`** – the contract of `OrderStore.ts` as users of it read it: `create`,
`findById`, `updateStatus` take effect at one moment between call and return;
`findAll` lists at least every order that existed when it was called, each with
a status it had at the moment of the answer. The refinement looks at the store
the *customer's* request uses: with in-memory stores in two processes the
worker's handlers use another one and never find the customer's order, which is
why the class comment reserves it for a single process.

**`OrderDomain`** – `calculateOrderTotal` in tenths of a cent (so that rounding
to the cent is visible) and `resolveOrderStatus`; the total may be `Undefined`,
and comparing that with the limit is false, as in JavaScript. Which orders *are*
over the limit (`OverLimit`, for the lifecycle) is stated of the exact sum, half a
cent or more above it, so that a wrong rounding does not excuse itself.

**`OrderSaga`** – everything together. `C == INSTANCE RetryConsumer` is the
protocol around the handlers; `at[w]` is where the running handler of `w` has
got to, so `running` is refined into the steps between the handler's awaits.
`I == INSTANCE Inventory` provides the stock updates, with the open
transactions read off the handlers' positions. `O == INSTANCE Outbox` is the
relay: `CreateOrder` writes order and outbox row in one step (which
`OrderAndEventTogether` justifies for the statements of that transaction),
`RelayPublish`, `RelayMark` and `RelayRollBack` are what any number of relay
replicas can do to it. `Service`, `Process`, `Host` give the deployment: the
two inventory queues are consumed by one process and fall together.
`Invocations` says how many invocations of a consumer may be open at once: a
second one is only called while the first is stale. Every `messageId` is
`<event>:<orderId>`, for the outbox row as for the handlers' events. `failures`
and `cutOff` are history: how many deliveries of an event threw (`ThrowFrom`), and
how many were unacknowledged when their process died or lost its connection.

**`OrderLifecycle`** – what the customer of one order may rely on: placed, held
or refused, confirmed or rejected, returned, announced. `Feasible` are the sets
of orders the stock can serve together; in `OrderSaga` they are the orders whose
units of each SKU fit into the seed together and whose SKUs all exist.

**`MC*`** give the constants values; definitions headed *Mutant of X* are
deliberately wrong versions of `X`, each of which breaks a property.

## 4. Runs

| Run | Instance | Shows |
| --- | --- | --- |
| `consumer` | one consumer of each worker kind with a malformed message each, a well-formed message, a second invocation of the order worker beside a stale one, one crash or lost connection | `NoMessageLost` under all three policies for malformed payloads, `ClaimAfterHandling`, `DeadOnlyAfterRetries`, `EventuallySettled` |
| `inventory_rows` | four orders over two SKUs that cannot all be served, three transactions of two workers | `LockedIsCurrent`, `StockConserved`, `ReservedIsBacked`, `NoOversellOfDistinctLines`, `ImplementsInventory`, `EveryTransactionEnds` |
| `saga_nominal` | two orders competing for the stock, one at and one over the limit, no faults | the system implements `OrderLifecycle` (safety and liveness) |
| `saga_faults` | one order, one error and one outage anywhere; the order worker, whose handler takes 1.5 s, may be called again beside a stale invocation | `PendingIsDriven`, `DecidedIsAnnounced`, `MailsPaidFor`, `EveryOrderDecided` |
| `saga_inventory_replicas` | an order over the limit or one larger than the stock, two inventory workers, one error anywhere | stock moves only by `Inventory`'s transactions (`FollowsInventoryProtocol`); `MailsPaidFor`, here for failures only; status and stock part only as `UnstockedOnlyAfterRetry` and `LeakedOnlyAfterRepeat` say |
| `relay_replicas` | three events, batches of two, two replicas (as in `docker-compose.prod.yml`), one of them with two overlapping polls, two faults | `ClaimsAreDisjoint`, `MarkedWasSent`, `DuplicatesOnlyAfterRollback`, `ImplementsOutbox`, `EveryEventPublished` |
| `connection` | two callers, three faults | `OneAttempt`, `CachedIsUsable`, `ConnectionsBounded`, `EveryCallerAnswered`, `ReadyAgain` |
| `order_store` | two requests, two handlers, two orders, one process or two, each store, by command and statement, failing or crashing in between | `EventWithOrder`, `ImplementsStore` |
| `inventory_oversell`, `saga_unreserved_confirmation`, `saga_stock_leak`, `api_readiness` | the smallest instance that shows each | a documented claim fails, see section 6 |

**Bounds.** `MaxOutages` bounds crashes and lost connections together,
`MaxErrors` failed awaits and relay rollbacks, `MaxFaults` the faults of the
relay and of a connection, `MaxPublishes` how often one id is published,
`MaxPlaced` the orders.

* *Consumer.* One outage with a retry limit of one lets a copy and its requeued
  original meet in two invocations; what more of either changes is the theorems'
  part. `MaxPublishes` only limits `RetryConsumer`'s own `Next`; in `OrderSaga`
  an id is published again only after a fault, so no bound is needed.
  `saga_inventory_replicas` has no outages: there duplicates come from one error, and
  the cut-off deliveries that `LeakedOnlyAfterRepeat` allows for are the theorem's
  part. In `saga_faults` one outage may hit any process, and only where it cuts off
  the announcement does it pay for a mail.
* *Saga.* Two of everything suffices because orders interact only through the
  stock, which any two orders of an instance cannot share.
* *Inventory.* Two SKUs are what a deadlock needs, three transactions let a
  third one of an order come between two that wait; `oA` names a SKU twice, `oD`
  an unknown one. Transactions, crashes and timeouts are unbounded.
* *Relay.* With three rows and batches of two, one poll's batch is full while
  another finds a rest; two faults let a timed out publish come through after
  the row was claimed again *and* that claim was rolled back too.
* *Connection.* Eight connections are what three faults can leave behind
  (`ConnectionsBounded`), the ninth name is there for an attempt beside them.
* *Store.* Two orders and four callers: a `findAll` can be overtaken by a
  creation and by two updates, and two transactions of `create` can be open while
  others read. Orders and handlers are interchangeable
  (`SYMMETRY`; the run has no liveness property). Nothing is bounded.

**Stopping.** The system is quiescent when no order or event is on its way and
the bounded faults have happened, so deadlock is not checked, except in
`inventory_*` and `order_store`, where a transaction or a call can always begin
or a process crash.

**Fairness.** `WF` of an invocation's own steps: Node resumes an await that
settled. `WF` of delivery and of expiry: RabbitMQ serves an idle consumer and
expires a TTL. `WF` of the relay: `setInterval`. `SF` of the statements of a
transaction: PostgreSQL queues the waiters of a row and serves them in turn,
although the row is locked and unlocked in between. In `Connection`: callers
ask again (the relay every second, publishers with every message), amqplib
keeps reconnecting, the broker comes back, and a process that was told to stop
exits. Nothing makes a client place an order, and no error, crash, timeout or
reconnect is ever required to happen. Where they are bounded, liveness rests on
faults that stop eventually; this matters for the relay, where a broker so slow
that *every* batch takes more than five seconds would repeat its events and
never mark them. Liveness of inventory transactions needs no such bound.

## 5. Proofs

All proofs are checked by `tlapm` with Z3, Zenon and LS4.

`RetryConsumerProofs`, from `ConsumerAssumption` only (any sets of ids, queues,
processes and workers, any retry limit, any bounds):

* `TypeCorrect` – `TypeOK` is inductive as it stands.
* `ClaimsFollowHandling` – `ClaimAfterHandling`. The missing link is the
  invocation between its handler and its claim: `HandledBeforeClaim`, an
  invocation at `done` or `claimed` holds an id that is in `handled`.
* `DeadLettersWereRetried` – `DeadOnlyAfterRetries`. The retry header must be
  evidence: `RetryCountsFailures` says that any copy with count *n*, wherever
  it is, has failed at every count below *n*. `FailedBeforeNextTry` carries
  it from a copy to the next.
* `NothingIsLost` – `NoMessageLost`, the main result. An ack destroys a copy,
  so the invariant must say what else there is: an invocation at `claimed` has
  its id in `processed` (`ClaimedIsProcessed`), and for one at `copied` there
  is, unless the id is settled, a copy with a *higher* retry count somewhere
  (`CopiedHasLaterCopy`). Higher, because such a copy cannot be the one that is
  being acknowledged: without the order two invocations at `copied` could each
  count on the other. Among the copies one is highest, so no finite chain of
  acks takes them all. The proof follows what can happen to one copy in a step:
  it stays (`CopyStays`), it is acknowledged after a copy was made
  (`AckedAfterCopying`), or its id is settled (`SettledStays`).

`OutboxRelayProofs`, from `RelayAssumption` (any finite sets of rows and polls,
any batch size, any number of faults):

* `BatchesAreDisjoint` – `ClaimsAreDisjoint`, which with `TypeOK` is inductive:
  rows that are claimed stay unpublished until their own transaction ends.
* `MarkedRowsWereSent` – `MarkedWasSent`. Marks are committed batchwise, so the
  invariant follows the batch: what an open transaction no longer has to
  publish has been sent (`DoneWasSent`).
* `DuplicatesArePaidFor` – `DuplicatesOnlyAfterRollback`. Counting only what was
  sent is not inductive, since publishes still in flight after a timeout count
  too. `Ledger` adds them: for every row, publishes made and publishes polls may
  still make are at most the rollbacks, plus one if the row is claimed or marked.
  A timeout turns a claim into a rollback and leaves at most one publish of it.
* `RelayImplementsOutbox` – `ImplementsOutbox`: `Publish` is allowed by the ledger,
  `Commit` is `Mark` of the batch, failures are `RollBack` of their claims,
  `Begin`, `Mark` and `End` are invisible.

`InventoryProofs`, from `InventoryAssumption` (any orders with positive
quantities, any SKUs and transactions): `StockIsConserved`,
`ReservationsBackStock` and `DistinctLinesNeverOversell` for atomic transactions.
`OneOrderMore` says what a reservation row adds to the count of all units,
`ReleaseIsExact` that `Math.min` in `release` never cuts anything: the reserved
units are those of all rows, this order's included. `AcceptedTogether` and
`RefusedTogether` say what the decision about one order means for all that hold
stock: with SKUs on one line each, `reserve` accepts exactly if the orders with a
reservation and the new one fit into the seed together.

`InventoryRowsProofs`, from `RowsAssumption` (the same, and any workers and any
order of the scan):

* `LockedRowsStayCurrent` – `LockedIsCurrent`: only rows that are locked are
  updated, because a scan that came to its end has locked every row of its order
  (`ScanIsComplete`).
* `TransactionsAreAtomic` – `ImplementsInventory`. A commit must be one step of
  `Inventory`: what a transaction has moved by then is the count of the units of
  the lines before `line[t]` (`MovedIsCounted`), its checks were made against
  values that are still current (`UpdatesAreChecked`), and a row that someone
  else inserted or deleted since the unlocked read makes the last statement fail.
  Everything before the commit is invisible, everything that ends a transaction
  otherwise is a conflict or a rollback.
* `StockIsConserved`, `ReservationsBackStock`, `DistinctLinesNeverOversell` follow
  from the refinement and `InventoryProofs`; so does the type of `reserved`, which
  is a natural number only because nothing is released twice (`TypeCorrect`).

`ConnectionProofs`, from `ConnectionAssumption` (any callers, connection names
and number of faults):

* `AttemptsAreShared`, `CachedChannelsAreUsable` – `OneAttempt`, `CachedIsUsable`.
  While an attempt is under way nothing is cached (`NothingCached`), and an
  attempt awaits `amqp.connect` exactly while its socket is opened
  (`SetupMatchesLink`).
* `ForgottenConnectionsAreBounded` – `ConnectionsBounded`, that *n* faults leave
  at most 2 ^ *n* connections. The count alone is not inductive: what a fault
  costs is paid later, when callers connect again. `Reach` counts what the
  process can still get to without another fault: its connections, one more for
  each that it will see disconnect, and one if it has to start over. Only
  faults increase `Reach`, and each at most doubles it.

`OrderSagaProofs`, from `SagaAssumption` (the assumption of `Inventory`, natural
bounds, that an order's exact sum is a natural number of tenths of a cent, and that
the `undefined` of an event without a total is not a number; any orders, stock, prices, replicas and
invocations). Two step lemmas
carry it: every step of the flow is a step of the consumer protocol
(`StepIsProtocolStep`, onto `ProtocolStep` of `RetryConsumerProofs`, which is why
the lemmas there do not rest on `MaxPublishes`) and of the inventory
(`StepIsInventoryStep`).

* `StockMovesByTransactions` – `FollowsInventoryProtocol`; hence `BooksBalance`: in
  the whole system no unit is made or lost, the reserved units are those on
  record, and SKUs on one line are not oversold, whatever is redelivered.
* `PendingOrdersAreDriven` – `PendingIsDriven`. The chain from event to event: a
  `PENDING` order has its outbox row and a marked row its event
  (`OutboxBacksOrders`); `handleOrderCreated` does not return before its answer is
  published (`ReservationsAnswered`), the order worker not before the order is
  decided (`AnswersDecide`), and handlers stay in the queue they serve
  (`HandlerKeepsToItsQueue`). What is published and not handled is under way
  (`UnderWay`, from `NoMessageLost` and `ClaimAfterHandling`).
* `DuplicateMailsArePaidFor` – `MailsPaidFor`, with one notification worker
  (`OneMailer`). The ledger counts mails sent and mails that handlers may still
  send against `failures` and `cutOff` of the mail's own event, but for one delivery
  that is worth its mail (`Sending`): it was claimed, or the broker waits for its ack and it has
  not thrown. Since `prefetch(1)` lets one worker have one such delivery, a
  second handler starts only after the first delivery's cost was paid.
* `DecisionsAreAnnounced` and `OneProcessorAnnounces` – `DecidedIsAnnounced`, for two
  situations, because it does not hold in all (section 6). `MailsSent` and
  `AnnouncementArrives` lead from a published announcement to the mail.
  *Without errors*, with any replicas, overlapping invocations and outages, every
  answer is processed on its first try and has one `Verdict`; whoever sets a
  status sets that of an answer that was published, and whoever has handled
  the answer has announced it (`VerdictInv`). *With one order worker that takes
  one order at a time* and any errors, retries and outages, two tries of one
  answer may decide differently. There the status of the order at hand is
  touched by nobody else until its announcement is published, and until then
  the answer is not claimed (`StatusInv`).
* `OnlyRetriesConfirmWithoutStock` – `UnstockedOnlyAfterRetry`, under any faults.
  `StockInv` ties each event to the stock it speaks of: `inventory.reserved` is
  published, or about to be, only for an order that was `Granted` (its
  reservation is there, or its release was published), and `inventory.release`
  only for an order over the limit, by the handler that set `FAILED`. So an order
  that is `CONFIRMED` without a reservation was confirmed by its refusal, and
  that happens only on a delivery with a retry count, which somebody's failure
  paid for (`RetriesFailed`).
* `ConfirmedOrdersHoldStock` – `ConfirmedOnlyWithStock`, *without errors* but with any
  replicas, overlapping invocations and outages: then nothing is retried, and
  with the verdicts of `VerdictInv` nobody confirms an order that is released.
* `OnlyRepeatsLeakStock` – `LeakedOnlyAfterRepeat`, under any faults. As long as an
  event was published once and none of its own deliveries failed or was cut off
  (`Once`; whatever fails elsewhere), one copy of it, held by one invocation or waiting for its first, is all
  there is (`Single`). For `order.created` this means that
  an order is attempted once: while or before that attempt nothing has been
  answered, an order whose refusal is out holds no reservation, and one whose
  reservation was returned is not attempted again (`OrderRepeat`). What was
  reserved and rejected is then released by the one who rejected it.
* `FailedOrdersGiveStockBack` – `FailedHoldsNoStock` *while nothing fails* (no errors,
  no outages). `SmoothInv`: every event is published at most once, an order has
  one answer, and it is decided once, by the handler of that answer.
* `FlowImplementsLifecycle` – `ImplementsLifecycle`, the refinement, *while nothing
  fails* and when no order names a SKU twice. `CreateOrder` is `Place`; the commit
  of `ReserveFinish` is `Hold`, its refusal `Refuse`; the two ways of setting a
  status are `Confirm` and `Reject`; `ReleaseFinish` is `Return`, `SendMail`
  `Announce`; all other steps, of the relay, the broker and the protocol, are
  invisible (`ShownStep`). An order is shown as refused from the moment
  its handler is about to publish the refusal; no step takes that back, because
  the handler goes on only once it is published (`RefusalsMove`).
  With two lines of one SKU the theorem is false: such an order is held although
  the stock cannot serve it (`inventory_oversell`).
* `DecisionsStand` – `DecisionIsFinal` of the lifecycle, *while nothing fails*, for
  all orders, those with repeated SKUs included.

`OrderStoreProofs`, from `StoreAssumption` (any orders, requests, handlers,
processes and deployments):

* `TypeCorrect`.
* `OrderAndEventTogether` – `EventWithOrder`, across the statements of the
  transaction. `Writing`: the orders of open transactions are new and each is
  written by one of them only, so whichever ends, by commit, error or crash, takes
  its order and its event along; what a call has answered is committed.
* `EveryAdapterIsAStore` – `ImplementsStore`. A call of several commands takes effect
  with its last one. That needs that what its first command saw is still there
  (`Reading`; in Redis the index and the records name the same orders): rows never disappear but with the process of the map, and that
  process takes all calls that use the map with it. `StartStep`, `EffectStep` and
  `EndStep` map the three kinds of steps.

`OrderLifecycleProofs`: `TypeCorrect`, `PromiseKept` (from `LifecycleAssumption`:
the empty set of orders can be served, and any part of a set that can) and
`DecisionsAreFinal` (an action property of every step) say what an
implementation of `OrderLifecycle` inherits; `FlowImplementsLifecycle` shows that
`OrderSaga` is one when nothing fails.

The hypotheses `MaxErrors = 0` and `MaxOutages = 0` are the situations themselves:
the model has no step in which something fails then. They are needed.
`ConfirmedOnlyWithStock` is false with one error, `FailedHoldsNoStock` with one
error or outage (section 6), `ImplementsLifecycle` with either. What holds of
status and stock under any faults are `UnstockedOnlyAfterRetry` and
`LeakedOnlyAfterRepeat`.

**Only model-checked**: liveness and everything under fairness
(`EventuallySettled`, `EveryTransactionEnds`, `EveryOrderSettled`,
`EveryOrderDecided`, `EveryEventPublished`, `EveryCallerAnswered`, `ReadyAgain`),
which is out of the provers' reach. Every invariant and every refinement that a
passing run checks is also a theorem, in the situations named with it.

## 6. Findings

* **`saga_unreserved_confirmation`** – the order worker tells
  `inventory.reserved` and `inventory.reservation.failed` apart by
  `message.fields.routingKey` (`src/worker/index.ts:62`). One error while a
  refusal is processed sends it through the retry queue, whose dead-letter
  routing key is `order.processing`. The retry is handled as
  `inventory.reserved` with an undefined total, which is not over the limit: the
  order is `CONFIRMED` without stock. README: "only `CONFIRMED` after stock has
  actually been reserved". `OnlyRetriesConfirmWithoutStock` proves that this is
  the only way there.
* **`saga_stock_leak`** – the reservation row that makes `reserve` idempotent is
  deleted by `release`. Trace: `markProcessed(order.created)` fails; the retry
  comes back after 5 s, the order was rejected after 1.5 s and its stock
  released; the retry reserves again and publishes `inventory.reserved`, whose
  id is already claimed. The `FAILED` order keeps the stock for ever.
  `OnlyRepeatsLeakStock` proves that it takes a repetition of this order's own
  `order.created`: published twice, or a delivery of it that failed or was cut off.
* **`inventory_oversell`** – two lines of one SKU are checked one at a time
  against the stock as it was locked; the order takes more than there is and
  `available` becomes negative. `NoOversellOfDistinctLines` is what remains true.
* **`api_readiness`** – `/ready` (`src/api/app.ts:67`) answers 503 unless
  `isMessagingConnected()`, but the API process never calls `getChannel`: it
  publishes nothing, its events go through the outbox. The run has no callers and
  is never ready, although the broker is back again and again.

Met on the way, and visible in the models without a run of their own:

* README's "no two replicas ever publish the same event" and "without risking
  double-publishes" hold only without rollbacks; `DuplicatesOnlyAfterRollback` is
  the promise with them. One failed publish also repeats all earlier rows of
  its batch.
* "must not send duplicate emails" (`src/notification-worker/index.ts:37`): the
  mail is sent before its id is claimed, so a failure in between repeats it.
  `MailsPaidFor` says that this is the only way: each mail too many has a delivery
  of its own event that failed or was cut off.
* "Lock rows in a stable (sorted) order to avoid deadlocks"
  (`inventory.repository.ts:76`): the query has no `ORDER BY`, and
  `inventory_rows` reaches deadlocks. `EveryTransactionEnds` says that PostgreSQL
  resolves them; the victim's message is retried.
* `DecidedIsAnnounced` needs the order worker to be alone with its order or free
  of errors. TLC's counterexample with one error and two outages: a refused
  order is `FAILED` and its customer told so when the connection is lost before
  `markProcessed`; the redelivery starts beside the stale invocation and fails;
  its retry starts, then the stale invocation claims the id; the retry is
  dispatched as `inventory.reserved` (first finding), sets `CONFIRMED` and the
  process dies. The redelivery is skipped as claimed, and nobody is ever told.
  `saga_faults` has one error and one outage, section 5 the two theorems.
* A duplicate `reserve` that read the missing reservation row before the first
  one committed may find the stock gone and be refused although its order has
  its reservation ("Idempotent per `orderId`", `inventory.repository.ts:59`).
* With `STORE=redis` or `in-memory`, `create` writes no outbox row, so the order
  stays `PENDING` although the response says `eventStored: true`
  (`src/api/routes/orders.ts:41`). The in-memory store wants api and worker in
  one process, but no entry point starts both.

## 7. Not modelled

* **Channel errors on an open connection** after the set-up, and consumers that
  are cancelled by the broker: nothing in the code handles them (the cached
  channel stays, a cancelled consumer receives `null` and returns).
* **Redis and PostgreSQL losing data** after a crash of the server, and messages
  in a broker that is wiped: both are taken to keep what they confirmed. The
  durability of Redis depends on its configuration.
* **Several notification workers**: the deployment gives replicas to the relay
  only; `saga_inventory_replicas` runs a second inventory worker, since its row
  locks are there for that. `MailsPaidFor` is about one notification worker: two
  of them can hold copies of one event at once, which no failed or cut off
  delivery of that event pays for when the relay or a retry upstream published it twice.
* **Order of requests during shutdown** (`src/api/index.ts:19-26`): a request that
  is cut off, between the statements of a transaction too, is covered as a crash or a
  failing command in `OrderStore`.
* **Mail transports, authentication, validation, rate limits, configuration,
  logging, metrics, tracing, containers**: libraries, or no state the order flow
  depends on. `sendMail` is one step that may fail before or after the mail left.
* **RabbitMQ, PostgreSQL, Redis and amqplib themselves**: external; modelled from
  what the code relies on.
* **Time**: the 5 s of a retry, the 1.5 s of processing, the 5 s of a transaction
  and the 1 s of a poll are not measured; any order of these events is possible.
