\* Two record sizes.  With records of one byte: two bitmap bytes and ten slots,
\* which run out first.
CONSTANTS
  AreaSize = 20
  DataSizes <- TwoSizes
  FDCM_INDEX_MAX = 1024
  MaxWrites = 11
  MaxFaults = 3
  MarkMayFail = FALSE
  Erased = Erased
  Torn = Torn
  NoRecord = NoRecord
SPECIFICATION Spec
INVARIANTS LogInv CommittedReadable NeverOlder ProgramsBlankSlot EraseOnlyWhenUsedUp
PROPERTY ImplementsRegister
CHECK_DEADLOCK FALSE
