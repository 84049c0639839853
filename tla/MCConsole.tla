------------------------------ MODULE MCConsole -----------------------------
(***************************************************************************)
(* Console for TLC: with the code's two buffers six lines wrap around the  *)
(* ring three times and still find reception out of buffers; with three    *)
(* buffers the order in which they are searched matters more.              *)
(***************************************************************************)
EXTENDS Console
=============================================================================
