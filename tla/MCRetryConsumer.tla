--------------------------- MODULE MCRetryConsumer ---------------------------
(***************************************************************************)
(* An instance of RetryConsumer for TLC: one consumer per worker kind,     *)
(* each with a malformed message of its queue, and a well-formed message   *)
(* of the order queue beside them.  The order worker has room for two      *)
(* invocations: after a lost connection it may be called again while a     *)
(* stale invocation runs on.                                               *)
(***************************************************************************)
EXTENDS RetryConsumer

CONSTANTS orders,                          \* the order worker
          call, again,                     \* its invocations
          inventory, notification,         \* the other workers
          m1, badOrder, badInventory, badNotification

InventoryQueue    == "inventory.reserve"
OrderQueue        == "order.processing"
NotificationQueue == "order.notifications"

MCQueues  == {InventoryQueue, OrderQueue, NotificationQueue}

MCQueueOf == [id \in Ids |->
  CASE id = badInventory    -> InventoryQueue
    [] id = badNotification -> NotificationQueue
    [] OTHER                -> OrderQueue]

MCServes == [w \in Workers |->
  CASE w = inventory    -> InventoryQueue
    [] w = notification -> NotificationQueue
    [] OTHER            -> OrderQueue]

\* Other invocations are named after their process.
MCHost == [w \in Workers |-> IF w \in {call, again} THEN orders ELSE w]

MCMalformed == Ids \ {m1}

MCOnMalformed == [q \in MCQueues |->
  CASE q = InventoryQueue    -> "deadletter"
    [] q = OrderQueue        -> "retry"
    [] q = NotificationQueue -> "drop"]
===============================================================================
