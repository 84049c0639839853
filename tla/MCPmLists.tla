------------------------------ MODULE MCPmLists ------------------------------
(* Three devices, so that a move finds neighbours on both sides.             *)
EXTENDS PmLists
=============================================================================
