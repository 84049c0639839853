CONSTANTS
  wlan = wlan  i2c = i2c  both = both  late = late
  Op0Dev = {wlan, i2c, both}
  Op1Dev = {both, late}
  Wlan = wlan
  WlanOffModes <- DeepModes
  Configs <- BoardConfigs
  Requests <- AllRequests
  Misuses <- AnyMisuse
  MaxChanges = 3
SPECIFICATION FairSpec
INVARIANTS PmInv AllDownWhenAsleep AllUpWhenBack NoBug
PROPERTIES ResumesLatestFirst KeepsDevices InterruptServed EnterModeReturns
\* A PM_BUG_ON and torn lists are ends.
CHECK_DEADLOCK FALSE
