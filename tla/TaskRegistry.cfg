CONSTANTS
  s1 = s1
  s2 = s2
  s3 = s3
  a = a
  b = b
  c1 = c1
  NoSubmit = NoSubmit
  Submits <- Three
  Ids <- TwoIds
  IdOf <- RacingIds
  Parent <- Nesting
  Signalled = {s2}
  Cancels = {c1}
  Cap = 1
  MaxEvictions = 1
SPECIFICATION FairSpec
INVARIANTS TypeOK QuietIsClean SlotsMatchRuns
PROPERTIES EveryRunEnds
CHECK_DEADLOCK FALSE
