---------------------------- MODULE RetryConsumer ----------------------------
(***************************************************************************)
(* The consumer protocol that the order, inventory and notification        *)
(* workers share (processMessage / handleWithRetry): skip a message id     *)
(* that is already claimed, run the handler, claim the id, acknowledge; on *)
(* an error park a copy with an incremented retry count on the retry queue *)
(* and acknowledge, or dead-letter after MaxRetries.                       *)
(*                                                                         *)
(* The handler itself is abstract here: it runs and then either returns or *)
(* throws.  OrderSaga plugs the real handlers in.                          *)
(*                                                                         *)
(* Broker contents are bags, so a delivery order is never assumed: this    *)
(* covers RabbitMQ's FIFO order as well as the reordering that requeues,   *)
(* the 5s retry queue and several consumers cause.                         *)
(***************************************************************************)
EXTENDS Integers

CONSTANTS
  Ids,          \* message ids, the keys of processed_messages
  Queues,       \* work queues
  QueueOf,      \* [Ids -> Queues], the queue a message id is routed to
  Processes,    \* operating-system processes that host consumers
  Workers,      \* handler invocations that can be in progress
  Host,         \* [Workers -> Processes]
  Serves,       \* [Workers -> Queues]
  MaxRetries,   \* CONSUMER_SETTINGS.MAX_RETRIES
  Malformed,    \* ids whose payload JSON.parse rejects
  OnMalformed,  \* [Queues -> {"retry", "deadletter", "drop"}]
  MaxOutages,   \* bound: process crashes plus lost connections
  MaxPublishes, \* bound: how often one id is published
  None          \* no message

\* A copy of a message in the broker: its id and its x-retry-count header.
Message == [id : Ids, retry : 0 .. MaxRetries]
Fresh(id) == [id |-> id, retry |-> 0]

ASSUME ConsumerAssumption ==
  /\ QueueOf \in [Ids -> Queues]
  /\ Host \in [Workers -> Processes]
  /\ Serves \in [Workers -> Queues]
  /\ MaxRetries \in Nat
  /\ Malformed \subseteq Ids
  /\ OnMalformed \in [Queues -> {"retry", "deadletter", "drop"}]
  /\ MaxOutages \in Nat
  /\ MaxPublishes \in Nat
  /\ None \notin Message

VARIABLES
  ready,      \* copies in the work queues, not delivered
  parked,     \* copies in the retry queues
  dead,       \* ids that reached a dead letter queue
  dropped,    \* ids acknowledged without being handled or claimed
  processed,  \* the processed_messages table
  pc,         \* [Workers -> control state of the invocation]
  held,       \* [Workers -> the message the invocation was called with]
  stale,      \* invocations whose delivery was requeued under them
  published,  \* history: how often the broker accepted an id from a publisher
  handled,    \* history: ids whose handler returned normally
  failedAt,   \* history: copies whose processing threw
  outages     \* crashes and lost connections so far

brokerVars  == <<ready, parked, dead, dropped>>
workerVars  == <<pc, held, stale>>
historyVars == <<published, handled, failedAt>>
vars == <<brokerVars, processed, workerVars, historyVars, outages>>

\* idle    no message
\* running the handler has been called
\* done    the handler returned, markProcessed not yet committed
\* claimed markProcessed returned, not yet acknowledged
\* failed  the catch block was entered
\* copied  republishForRetry confirmed, not yet acknowledged
States == {"idle", "running", "done", "claimed", "failed", "copied"}

TypeOK ==
  /\ ready \in [Message -> Nat]
  /\ parked \in [Message -> Nat]
  /\ dead \subseteq Ids
  /\ dropped \subseteq Ids
  /\ processed \subseteq Ids
  /\ pc \in [Workers -> States]
  /\ held \in [Workers -> Message \union {None}]
  /\ stale \subseteq Workers
  /\ published \in [Ids -> Nat]
  /\ handled \subseteq Ids
  /\ failedAt \subseteq Message
  /\ outages \in 0 .. MaxOutages
  /\ \A w \in Workers : held[w] = None <=> pc[w] = "idle"

Init ==
  /\ ready = [m \in Message |-> 0]
  /\ parked = [m \in Message |-> 0]
  /\ dead = {}
  /\ dropped = {}
  /\ processed = {}
  /\ pc = [w \in Workers |-> "idle"]
  /\ held = [w \in Workers |-> None]
  /\ stale = {}
  /\ published = [id \in Ids |-> 0]
  /\ handled = {}
  /\ failedAt = {}
  /\ outages = 0
-----------------------------------------------------------------------------
Put(bag, m)  == [bag EXCEPT ![m] = @ + 1]
Take(bag, m) == [bag EXCEPT ![m] = @ - 1]

\* Mutant of NextTry: the retry header is copied, not incremented.
UncountedTry(m) == m
NextTry(m) == [m EXCEPT !.retry = @ + 1]

\* The broker still counts w's delivery as unacknowledged.
Unacked(w) == pc[w] # "idle" /\ w \notin stale

Goto(w, from, to) ==
  /\ pc[w] \in from
  /\ pc' = [pc EXCEPT ![w] = to]
  /\ UNCHANGED <<held, stale>>

\* Mutant of Finish: the message is not forgotten.
FinishHolding(w) ==
  /\ pc' = [pc EXCEPT ![w] = "idle"]
  /\ stale' = stale \ {w}
  /\ UNCHANGED held

\* The invocation returns.
Finish(w) ==
  /\ pc' = [pc EXCEPT ![w] = "idle"]
  /\ held' = [held EXCEPT ![w] = None]
  /\ stale' = stale \ {w}

\* The publisher's message is accepted by the broker and routed.
Publish(id) ==
  /\ ready' = Put(ready, Fresh(id))
  /\ published' = [published EXCEPT ![id] = @ + 1]
  /\ UNCHANGED <<parked, dead, dropped, processed, workerVars, handled, failedAt,
                 outages>>

\* prefetch(1): a consumer is sent nothing while one of its deliveries is
\* unacknowledged.
CanDeliver(w, m) ==
  /\ pc[w] = "idle"
  /\ Serves[w] = QueueOf[m.id]
  /\ ready[m] > 0
  /\ ~ \E v \in Workers : Host[v] = Host[w] /\ Serves[v] = Serves[w] /\ Unacked(v)

\* Mutant of Receive: isAlreadyProcessed is not asked.
ReceiveAgain(w, m) ==
  /\ CanDeliver(w, m)
  /\ ready' = Take(ready, m)
  /\ pc' = [pc EXCEPT ![w] = "running"]
  /\ held' = [held EXCEPT ![w] = m]
  /\ UNCHANGED <<parked, dead, dropped, processed, stale, historyVars, outages>>

\* Delivery of a message isAlreadyProcessed does not know: the handler starts.
Receive(w, m) ==
  /\ CanDeliver(w, m)
  /\ m.id \notin processed
  /\ ready' = Take(ready, m)
  /\ pc' = [pc EXCEPT ![w] = "running"]
  /\ held' = [held EXCEPT ![w] = m]
  /\ UNCHANGED <<parked, dead, dropped, processed, stale, historyVars, outages>>

\* Mutant of SkipDuplicate: any message may be skipped.
SkipUnclaimed(w, m) ==
  /\ CanDeliver(w, m)
  /\ ready' = Take(ready, m)
  /\ UNCHANGED <<parked, dead, dropped, processed, workerVars, historyVars, outages>>

\* Delivery of a message that is already claimed: acknowledged at once.
SkipDuplicate(w, m) ==
  /\ CanDeliver(w, m)
  /\ m.id \in processed
  /\ ready' = Take(ready, m)
  /\ UNCHANGED <<parked, dead, dropped, processed, workerVars, historyVars, outages>>

\* The handler returned.
HandlerReturns(w) ==
  /\ Goto(w, {"running"}, "done")
  /\ held[w].id \notin Malformed
  /\ handled' = handled \union {held[w].id}
  /\ UNCHANGED <<brokerVars, processed, published, failedAt, outages>>

\* The handler, markProcessed or ack threw.  From "claimed" it is a
\* markProcessed whose commit was applied but reported as an error, or an ack
\* on a broken channel.
Throw(w) ==
  /\ Goto(w, {"running", "done", "claimed"}, "failed")
  /\ held[w].id \notin Malformed
  /\ failedAt' = failedAt \union {held[w]}
  /\ UNCHANGED <<brokerVars, processed, published, handled, outages>>

\* JSON.parse threw a SyntaxError.  The order worker treats it as any other
\* error, the inventory worker dead-letters the message at once, the
\* notification worker acknowledges it.
ParseFails(w) ==
  LET id     == held[w].id
      policy == OnMalformed[Serves[w]]
  IN  /\ pc[w] = "running"
      /\ id \in Malformed
      /\ \/ /\ policy = "retry"
            /\ Goto(w, {"running"}, "failed")
            /\ failedAt' = failedAt \union {held[w]}
            /\ UNCHANGED <<dead, dropped>>
         \/ /\ policy = "deadletter"
            /\ dead' = IF w \in stale THEN dead ELSE dead \union {id}
            /\ Finish(w)
            /\ UNCHANGED <<dropped, failedAt>>
         \/ /\ policy = "drop"
            /\ dropped' = dropped \union {id}
            /\ Finish(w)
            /\ UNCHANGED <<dead, failedAt>>
      /\ UNCHANGED <<ready, parked, processed, published, handled, outages>>

\* Mutant of MarkProcessed: the claim may be written before the handler returns.
MarkEarly(w) ==
  /\ Goto(w, {"running", "done"}, "claimed")
  /\ processed' = processed \union {held[w].id}
  /\ UNCHANGED <<brokerVars, historyVars, outages>>

\* INSERT into processed_messages; a unique violation counts as success.
MarkProcessed(w) ==
  /\ Goto(w, {"done"}, "claimed")
  /\ processed' = processed \union {held[w].id}
  /\ UNCHANGED <<brokerVars, historyVars, outages>>

\* channel.ack: the delivery is gone.  The ack of a stale delivery reaches no
\* delivery; the copy that was requeued stays.
Ack(w) ==
  /\ pc[w] \in {"claimed", "copied"}
  /\ Finish(w)
  /\ UNCHANGED <<brokerVars, processed, historyVars, outages>>

\* Mutant of Republish: the broker does not get the copy.
RepublishUnconfirmed(w) ==
  /\ Goto(w, {"failed"}, "copied")
  /\ held[w].retry < MaxRetries
  /\ UNCHANGED <<brokerVars, processed, historyVars, outages>>

\* catch block, retryCount < MAX_RETRIES: republishForRetry is confirmed.
Republish(w) ==
  /\ Goto(w, {"failed"}, "copied")
  /\ held[w].retry < MaxRetries
  /\ parked' = Put(parked, NextTry(held[w]))
  /\ UNCHANGED <<ready, dead, dropped, processed, historyVars, outages>>

\* Mutant of Nack: one retry is left.
NackEarly(w) ==
  /\ pc[w] = "failed"
  /\ held[w].retry >= MaxRetries - 1
  /\ dead' = IF w \in stale THEN dead ELSE dead \union {held[w].id}
  /\ Finish(w)
  /\ UNCHANGED <<ready, parked, dropped, processed, historyVars, outages>>

\* catch block, retries exhausted: nack(message, false, false).
Nack(w) ==
  /\ pc[w] = "failed"
  /\ held[w].retry >= MaxRetries
  /\ dead' = IF w \in stale THEN dead ELSE dead \union {held[w].id}
  /\ Finish(w)
  /\ UNCHANGED <<ready, parked, dropped, processed, historyVars, outages>>

\* The retry queue's TTL passed: the copy is dead-lettered to its work queue.
Expire(m) ==
  /\ parked[m] > 0
  /\ parked' = Take(parked, m)
  /\ ready' = Put(ready, m)
  /\ UNCHANGED <<dead, dropped, processed, workerVars, historyVars, outages>>
-----------------------------------------------------------------------------
\* The broker puts the unacknowledged deliveries of process p back.
Requeue(p) ==
  ready' = [m \in Message |->
              IF \E w \in Workers : Host[w] = p /\ Unacked(w) /\ held[w] = m
                THEN ready[m] + 1 ELSE ready[m]]

\* Process p dies (also by process.exit on an unhandled rejection: a failing
\* isAlreadyProcessed or republishForRetry) and is restarted.  The crash of an
\* idle process changes nothing.
Crash(p) ==
  /\ outages < MaxOutages
  /\ \E w \in Workers : Host[w] = p /\ pc[w] # "idle"
  /\ outages' = outages + 1
  /\ Requeue(p)
  /\ pc'   = [w \in Workers |-> IF Host[w] = p THEN "idle" ELSE pc[w]]
  /\ held' = [w \in Workers |-> IF Host[w] = p THEN None ELSE held[w]]
  /\ stale' = {w \in stale : Host[w] # p}
  /\ UNCHANGED <<parked, dead, dropped, processed, historyVars>>

\* The AMQP connection of p drops and recovers while its invocations go on
\* running: their deliveries are requeued and become stale.
ConnectionLost(p) ==
  /\ outages < MaxOutages
  /\ \E w \in Workers : Host[w] = p /\ Unacked(w)
  /\ outages' = outages + 1
  /\ Requeue(p)
  /\ stale' = stale \union {w \in Workers : Host[w] = p /\ Unacked(w)}
  /\ UNCHANGED <<parked, dead, dropped, processed, pc, held, historyVars>>
-----------------------------------------------------------------------------
Deliver(m) == \E w \in Workers : Receive(w, m) \/ SkipDuplicate(w, m)

\* What an invocation does on its own once it has been called.
Proceed(w) ==
  \/ HandlerReturns(w)
  \/ ParseFails(w)
  \/ MarkProcessed(w)
  \/ Ack(w)
  \/ Republish(w)
  \/ Nack(w)

Next ==
  \/ \E id \in Ids : published[id] < MaxPublishes /\ Publish(id)
  \/ \E m \in Message : Deliver(m) \/ Expire(m)
  \/ \E w \in Workers : Proceed(w) \/ Throw(w)
  \/ \E p \in Processes : Crash(p) \/ ConnectionLost(p)

Spec == Init /\ [][Next]_vars

\* Node runs a resumed invocation to its end, RabbitMQ delivers to an idle
\* consumer and expires parked messages.  Nobody promises a publish, an error
\* or an outage.
Fairness ==
  /\ \A w \in Workers : WF_vars(Proceed(w))
  /\ WF_vars(\E m \in Message : Deliver(m))
  /\ WF_vars(\E m \in Message : Expire(m))

FairSpec == Spec /\ Fairness
-----------------------------------------------------------------------------
Accepted == {id \in Ids : published[id] > 0}

\* Message id is somewhere in the broker, queued or unacknowledged.
InBroker(id) ==
  \/ \E m \in Message : m.id = id /\ (ready[m] > 0 \/ parked[m] > 0)
  \/ \E w \in Workers : Unacked(w) /\ held[w].id = id

Settled(id) == id \in processed \/ id \in dead \/ (id \in dropped /\ id \in Malformed)

\* Every message the broker accepted is still in the broker, or claimed, or in
\* a dead letter queue; only a malformed payload is ever dropped.  Crashes and
\* reconnects between any two of run, markProcessed, republishForRetry and ack
\* must not open a gap.
NoMessageLost == \A id \in Accepted : InBroker(id) \/ Settled(id)

\* An id is claimed in processed_messages only after its handler returned
\* normally at least once, so a crash in the handler cannot make the consumer
\* skip the redelivery.
ClaimAfterHandling == processed \subseteq handled

\* A well-formed message is dead-lettered only after it failed on its first
\* delivery and on each of the MaxRetries retries.
DeadOnlyAfterRetries ==
  \A id \in dead \ Malformed :
    \A r \in 0 .. MaxRetries : [id |-> id, retry |-> r] \in failedAt

\* Every accepted message is eventually claimed, dead-lettered or, when it is
\* malformed, dropped, and stays so: no crash, reconnect or retry leaves it stuck.
EventuallySettled == []<>(\A id \in Accepted : Settled(id))
===============================================================================
