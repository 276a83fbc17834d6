\* two competing orders, at and over the limit; nothing fails
SPECIFICATION FairSpec
CONSTANTS
  kbd = kbd
  r1 = r1
  r2 = r2
  oMax = oMax
  oPlain = oPlain
  oOver = oOver
  oHuge = oHuge
  None = None
  NoTx = NoTx
  Undefined = Undefined
  Orders = {oMax, oOver}
  Skus = {kbd}
  Seed <- Scarce
  Lines <- MCLines
  MaxOrderAmount = 10
  Replicas <- OneOfEach
  Invocations <- OneAtATime
  MaxRetries = 0
  MaxPlaced = 2
  MaxErrors = 0
  MaxOutages = 0
INVARIANTS TypeOK ConfirmedOnlyWithStock FailedHoldsNoStock
PROPERTIES ImplementsLifecycle EveryOrderSettled
CHECK_DEADLOCK FALSE
