\* duplicate events race in two inventory workers; one order, over the limit or
\* larger than the stock
SPECIFICATION Spec
CONSTANTS
  kbd = kbd
  r1 = r1
  r2 = r2
  oMax = oMax
  oPlain = oPlain
  oOver = oOver
  oHuge = oHuge
  None = None
  NoTx = NoTx
  Undefined = Undefined
  Orders = {oOver, oHuge}
  Skus = {kbd}
  Seed <- Plenty
  Lines <- MCLines
  MaxOrderAmount = 10
  Replicas <- TwoInventoryWorkers
  Invocations <- OneAtATime
  MaxRetries = 1
  MaxPlaced = 1
  MaxErrors = 1
  MaxOutages = 0
INVARIANTS MailsPaidFor UnstockedOnlyAfterRetry LeakedOnlyAfterRepeat
PROPERTY FollowsInventoryProtocol
CHECK_DEADLOCK FALSE
