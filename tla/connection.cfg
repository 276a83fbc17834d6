SPECIFICATION FairSpec
CONSTANTS
  c1 = c1
  c2 = c2
  None = None
  Callers = {c1, c2}
  Conns = {1, 2, 3, 4, 5, 6, 7, 8, 9}
  MaxFaults = 3
INVARIANTS
  TypeOK
  OneAttempt
  CachedIsUsable
  ConnectionsBounded
PROPERTIES
  EveryCallerAnswered
  ReadyAgain
CHECK_DEADLOCK FALSE
