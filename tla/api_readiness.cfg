SPECIFICATION FairSpec
CONSTANTS
  c1 = c1
  c2 = c2
  None = None
  Callers = {}
  Conns = {1, 2, 3, 4, 5}
  MaxFaults = 2
PROPERTIES
  ReadyAgain
CHECK_DEADLOCK FALSE
