------------------------------- MODULE MCFdcm -------------------------------
(***************************************************************************)
(* Instances of Fdcm for TLC.  The areas are cut so small that the slots   *)
(* run out after a few writes, the bitmap spans more than one byte, and    *)
(* either the slots or the bitmap (FDCM_INDEX_MAX) is the limit met first. *)
(***************************************************************************)
EXTENDS Fdcm

OneSize == {1}
TwoSizes == {1, 4}
=============================================================================
