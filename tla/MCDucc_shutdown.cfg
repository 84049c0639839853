\* The suspending flag is checked before the mutex is waited for.
CONSTANTS
  ctrl = ctrl  tcpip = tcpip   PmTask = suspender
  MaxSuspends = 2
  None = None  Release = Release
  User <- Users
  UserCore <- Cores
  Uses <- AllUses
SPECIFICATION Spec
PROPERTY NotSentWhenShutDown
CHECK_DEADLOCK FALSE
