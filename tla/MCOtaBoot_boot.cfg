\* Any number of updates; up to four power losses or refused writes.
CONSTANTS
  MaxFaults = 4
  MaxDecay = 2
  MaxHasty = 2
  NoRecord = NoRecord
SPECIFICATION FairSpec
INVARIANTS TypeOK NeverUpdatesRunning KeepsIntactImage
PROPERTY ComesUp
CHECK_DEADLOCK FALSE
