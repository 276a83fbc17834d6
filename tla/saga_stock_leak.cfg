\* one database error while an order over the limit is processed
SPECIFICATION Spec
CONSTANTS
  kbd = kbd
  r1 = r1
  r2 = r2
  oMax = oMax
  oPlain = oPlain
  oOver = oOver
  oHuge = oHuge
  None = None
  NoTx = NoTx
  Undefined = Undefined
  Orders = {oOver}
  Skus = {kbd}
  Seed <- Scarce
  Lines <- MCLines
  MaxOrderAmount = 10
  Replicas <- OneOfEach
  Invocations <- OneAtATime
  MaxRetries = 1
  MaxPlaced = 1
  MaxErrors = 1
  MaxOutages = 0
INVARIANT FailedHoldsNoStock
CHECK_DEADLOCK FALSE
