---------------------------- MODULE FdcmRegister ----------------------------
(***************************************************************************)
(* What a flash area managed by fdcm promises to its users: one register   *)
(* that holds the last record written.  A write that reports success       *)
(* replaces the record.  A write that reports an error, or that a power    *)
(* loss cuts short, leaves the old record, the new one, or nothing that    *)
(* can be used - never a record older than the one it was replacing.       *)
(***************************************************************************)
CONSTANTS
  Records,   \* what may be written
  NoRecord   \* what a read yields when the area holds nothing usable: no record

VARIABLES
  reg,      \* the record a read would return, NoRecord when there is none
  pending   \* the record being written, NoRecord when no write is running

regVars == <<reg, pending>>

RegInit ==
  /\ reg = NoRecord
  /\ pending = NoRecord

BeginWrite(v) ==
  /\ pending = NoRecord
  /\ pending' = v
  /\ UNCHANGED reg

\* The old record is given up before the new one is in place: from here on a
\* power loss leaves the register empty.
DropOld ==
  /\ pending # NoRecord
  /\ reg' = NoRecord
  /\ UNCHANGED pending

CompleteWrite ==
  /\ pending # NoRecord
  /\ reg' = pending
  /\ pending' = NoRecord

AbortWrite ==
  /\ pending # NoRecord
  /\ reg' \in {reg, pending, NoRecord}
  /\ pending' = NoRecord

RegNext == (\E v \in Records : BeginWrite(v)) \/ DropOld \/ CompleteWrite \/ AbortWrite

RegSpec == RegInit /\ [][RegNext]_regVars
=============================================================================
