-------------------------------- MODULE Rpc ---------------------------------
(***************************************************************************)
(* What the two cores' calls of each other promise, channel by channel:    *)
(* calls of one channel come one after the other, and a call returns only  *)
(* after the other core has executed it, once.  Whether it ever returns is *)
(* not promised here.                                                      *)
(***************************************************************************)
CONSTANTS
  Channel,
  Caller,
  NoCaller

VARIABLES
  caller,  \* who calls on each channel
  stage    \* how far its call has come

rpcVars == <<caller, stage>>

Init ==
  /\ caller = [ch \in Channel |-> NoCaller]
  /\ stage = [ch \in Channel |-> "free"]

Call(ch, t) ==
  /\ stage[ch] = "free"
  /\ caller' = [caller EXCEPT ![ch] = t]
  /\ stage' = [stage EXCEPT ![ch] = "asked"]

Execute(ch) ==
  /\ stage[ch] = "asked"
  /\ stage' = [stage EXCEPT ![ch] = "executed"]
  /\ UNCHANGED caller

Return(ch) ==
  /\ stage[ch] = "executed"
  /\ caller' = [caller EXCEPT ![ch] = NoCaller]
  /\ stage' = [stage EXCEPT ![ch] = "free"]

Next ==
  \E ch \in Channel : (\E t \in Caller : Call(ch, t)) \/ Execute(ch) \/ Return(ch)

RpcSpec == Init /\ [][Next]_rpcVars
=============================================================================
