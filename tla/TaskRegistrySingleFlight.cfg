CONSTANTS
  s1 = s1
  s2 = s2
  s3 = s3
  a = a
  b = b
  c1 = c1
  c2 = c2
  NoSubmit = NoSubmit
  Submits <- Two
  Ids = {a}
  IdOf <- TwoRacing
  Parent <- TwoNoNesting
  Signalled = {s2}
  Cancels = {}
  Cap = 2
  MaxEvictions = 0
SPECIFICATION Spec
INVARIANT SingleFlight
CHECK_DEADLOCK FALSE
