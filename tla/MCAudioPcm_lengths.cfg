CONSTANTS
  Null = Null
  Foreign = Foreign
  NoTask = NoTask
  Players = {p1}
  Recorders = {r1}
  Dmics = {}
  Lengths = {2, 4}
  MaxBytes = 3
  MaxBlocks = 2
  MaxBehind <- BehindTwo
SPECIFICATION Spec
INVARIANTS
  InPhase
  WithinBuffer
  NothingLost
CHECK_DEADLOCK FALSE
