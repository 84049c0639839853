CONSTANTS
  MaxFaults = 0
  MaxDecay = 1
  MaxHasty = 2
  NoRecord = NoRecord
SPECIFICATION Spec
PROPERTY VerifiedOnlyAfterCheck
CHECK_DEADLOCK FALSE
