CONSTANTS
  MaxSends = 2
  MaxEdits = 1
  MaxFaults = 1
  MaxOthers = 1
SPECIFICATION Spec
INVARIANTS TypeOK ReplayIsExact DisposeDrains 
CHECK_DEADLOCK FALSE
