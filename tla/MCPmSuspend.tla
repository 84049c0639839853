----------------------------- MODULE MCPmSuspend -----------------------------
(* Four devices: the WLAN system, one with suspend callbacks, one with both  *)
(* kinds, and one with noirq callbacks only.                                 *)
EXTENDS PmSuspend

\* The configuration of the boards (board_xr871_evb_main.c:433), its modes, and
\* those of a platform that supports standby only.
BoardConfigs == {{1, 2, 4}, {2}}
AllRequests == 1 .. 4
DeepModes == {3, 4}

\* Legal use, each kind of misuse alone, and all of them together.
AnyMisuse == {{}, Misuse} \cup {{m} : m \in Misuse}
=============================================================================
