\* every worker kind, malformed messages, overlapping invocations
SPECIFICATION FairSpec
CONSTANTS
  orders = orders
  call = call
  again = again
  inventory = inventory
  notification = notification
  m1 = m1
  badOrder = badOrder
  badInventory = badInventory
  badNotification = badNotification
  None = None
  Ids = {m1, badOrder, badInventory, badNotification}
  Processes = {orders, inventory, notification}
  Workers = {call, again, inventory, notification}
  Queues <- MCQueues
  QueueOf <- MCQueueOf
  Host <- MCHost
  Serves <- MCServes
  Malformed <- MCMalformed
  OnMalformed <- MCOnMalformed
  MaxRetries = 1
  MaxOutages = 1
  MaxPublishes = 1
INVARIANTS TypeOK NoMessageLost ClaimAfterHandling DeadOnlyAfterRetries
PROPERTY EventuallySettled
CHECK_DEADLOCK FALSE
