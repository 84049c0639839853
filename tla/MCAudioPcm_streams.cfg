CONSTANTS
  Null = Null
  Foreign = Foreign
  NoTask = NoTask
  Players = {p1}
  Recorders = {r1}
  Dmics = {m1}
  Lengths = {2}
  MaxBytes = 3
  MaxBlocks = 1
  MaxBehind <- Behind
SPECIFICATION FairSpec
INVARIANTS
  AudioInv
  HangsOnlyWhenLate
PROPERTY CallsReturn
CHECK_DEADLOCK FALSE
