CONSTANTS
  r1 = r1
  r2 = r2
  q1 = q1
  q2 = q2
  h1 = h1
  h2 = h2
  other = other
  None = None
  Calls = {r1, r2, q1, q2}
  Fresh = {r1, r2}
  Handles = {h1, h2, other}
  Foreign = {other}
  NumSteps = 3
  Kinds <- Three
  MaxAttempts <- RetryFirst
  MaxCrashes = 1
SPECIFICATION Spec
SYMMETRY Alike
INVARIANTS TypeOK FlightIsExact HistoryIsExact NoLimbo
CHECK_DEADLOCK FALSE
