------------------------------- MODULE Topology -------------------------------
(***************************************************************************)
(* The RabbitMQ topology every process asserts when it connects: the topic *)
(* exchange "orders", four retryable work queues and the bindings between  *)
(* routing keys and queues.  Each work queue comes with a ".retry" queue   *)
(* (TTL, dead-letters back to the work queue through the default exchange) *)
(* and a ".dlq" queue (bound to "orders.dlx").                             *)
(***************************************************************************)
EXTENDS Integers

EventTypes ==
  { "order.created", "order.confirmed", "order.failed",
    "inventory.reserved", "inventory.reservation.failed", "inventory.release" }

Queues ==
  { "order.processing", "inventory.reserve", "inventory.release",
    "order.notifications" }

\* bindQueue(queue, "orders", routing key) calls.
Bindings ==
  { <<"order.processing",    "inventory.reserved">>,
    <<"order.processing",    "inventory.reservation.failed">>,
    <<"inventory.reserve",   "order.created">>,
    <<"inventory.release",   "inventory.release">>,
    <<"order.notifications", "order.confirmed">>,
    <<"order.notifications", "order.failed">> }

\* Every event type reaches exactly one queue: a message is never copied by
\* the exchange and never unroutable.
ASSUME EveryEventHasOneQueue ==
  \A e \in EventTypes :
    /\ \E q \in Queues : <<q, e>> \in Bindings
    /\ \A p, q \in Queues :
         <<p, e>> \in Bindings /\ <<q, e>> \in Bindings => p = q

BoundQueue(event) == CHOOSE q \in Queues : <<q, event>> \in Bindings

\* The routing key a consumer reads in message.fields.routingKey.  A first
\* delivery carries the key it was published with.  A delivery that came back
\* through the retry queue was dead-lettered with
\* x-dead-letter-routing-key = <work queue>, which replaces the key; those are
\* exactly the messages whose retry header is at least 1.
DeliveredKey(event, retry) ==
  IF retry = 0 THEN event ELSE BoundQueue(event)
===============================================================================
