CONSTANTS
 c1 = c1
 c2 = c2
 Subscribers = {c1, c2}
 Length = 4
 RingCap = 2
SPECIFICATION FairSpec
INVARIANTS TypeOK NoGapNoRepeat
PROPERTIES TerminalEventArrives
CHECK_DEADLOCK FALSE
