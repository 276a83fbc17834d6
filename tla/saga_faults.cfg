\* one order, an error and an outage
SPECIFICATION FairSpec
CONSTANTS
  kbd = kbd
  r1 = r1
  r2 = r2
  oMax = oMax
  oPlain = oPlain
  oOver = oOver
  oHuge = oHuge
  None = None
  NoTx = NoTx
  Undefined = Undefined
  Orders = {oPlain}
  Skus = {kbd}
  Seed <- Scarce
  Lines <- MCLines
  MaxOrderAmount = 10
  Replicas <- OneOfEach
  Invocations <- OrderOverlaps
  MaxRetries = 1
  MaxPlaced = 1
  MaxErrors = 1
  MaxOutages = 1
INVARIANTS PendingIsDriven DecidedIsAnnounced MailsPaidFor
PROPERTY EveryOrderDecided
CHECK_DEADLOCK FALSE
