\* The two line buffers of the code, and one restart.
CONSTANTS
  CONSOLE_CMD_LINE_BUF_NUM = 2
  MaxLines = 6
  MaxStarts = 2
SPECIFICATION FairSpec
INVARIANTS ConsoleInv NoLostLine InOrder
PROPERTIES Served StopReturns
CHECK_DEADLOCK FALSE
