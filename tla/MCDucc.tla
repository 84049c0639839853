------------------------------- MODULE MCDucc -------------------------------
(***************************************************************************)
(* Instance of Ducc for TLC.  On the application core the control task     *)
(* calls the WLAN (normal), the TCP/IP task sends packets (data), and a    *)
(* third task suspends the system.  Both server tasks of the network core  *)
(* call back on the normal channel while they execute.  The data channel   *)
(* to the application core has no callers: it works like the other.        *)
(***************************************************************************)
EXTENDS Ducc

CONSTANTS ctrl, tcpip

Users == {ctrl, tcpip, PmTask}
Cores == [u \in Users |-> "app"]
AllUses == {<<ctrl, "normal">>, <<PmTask, "normal">>, <<tcpip, "data">>,
            <<<<"net", "normal">>, "normal">>, <<<<"net", "data">>, "normal">>}
=============================================================================
