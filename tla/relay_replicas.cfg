SPECIFICATION FairSpec
CONSTANTS
  Rows = {1, 2, 3}
  Limit = 2
  MaxFaults = 2
  relayA = relayA
  relayB = relayB
  pollA1 = pollA1
  pollA2 = pollA2
  pollB = pollB
  Polls <- MCPolls
  Host <- MCHost
INVARIANTS
  TypeOK
  ClaimsAreDisjoint
  MarkedWasSent
  DuplicatesOnlyAfterRollback
PROPERTIES
  ImplementsOutbox
  EveryEventPublished
CHECK_DEADLOCK FALSE
