CONSTANTS
  Address = {a, b}
  NoAddress = NoAddress
  QUEUE_LEN = 2
  MBOX_SIZE = 2
SPECIFICATION FairSpec
INVARIANTS
  NetInv
  ToldOrOnItsWay
PROPERTIES
  StrandedOnlyByLateLease
  Served
CHECK_DEADLOCK FALSE
