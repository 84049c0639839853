\* Safety, refinement and liveness, with two suspends.  A caller whose message a
\* suspend has lost waits for ever: the system may really stop.
CONSTANTS
  ctrl = ctrl  tcpip = tcpip   PmTask = suspender
  MaxSuspends = 2
  None = None  Release = Release
  User <- Users
  UserCore <- Cores
  Uses <- AllUses
SPECIFICATION FairSpec
INVARIANTS DuccInv WritesToLiveRequest NothingOverflows
PROPERTIES ImplementsRpc CallsReturn
CHECK_DEADLOCK FALSE
