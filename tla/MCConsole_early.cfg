\* A line that arrives before console_start is through.
CONSTANTS
  CONSOLE_CMD_LINE_BUF_NUM = 2
  MaxLines = 2
  MaxStarts = 1
SPECIFICATION Spec
PROPERTY EndsOnlyWhenTerminated
CHECK_DEADLOCK FALSE
