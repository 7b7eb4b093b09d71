CONSTANTS
  c1 = c1
  c2 = c2
  c3 = c3
  c4 = c4
  Callers = {c1, c2, c3, c4}
  Permits = 2
SPECIFICATION FanSpec
INVARIANTS FanTypeOK PermitSpansWork NoStragglers
PROPERTIES Refinement EveryWaiterServed
CHECK_DEADLOCK FALSE
