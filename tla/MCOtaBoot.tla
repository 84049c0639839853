----------------------------- MODULE MCOtaBoot ------------------------------
(* OtaBoot has nothing to bound but faults and decay: the .cfg files do.   *)
EXTENDS OtaBoot
=============================================================================
