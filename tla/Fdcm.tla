-------------------------------- MODULE Fdcm --------------------------------
(***************************************************************************)
(* The flash device config manager (src/image/fdcm.c): a log of records in *)
(* one erasable flash area.  The area starts with a header (magic, size of *)
(* the bitmap, size of a record), followed by a bitmap that has one bit    *)
(* per record slot, followed by the slots.  NOR flash can only clear bits  *)
(* between two erases, so a used slot is a cleared bit; the record in      *)
(* force is the one in the last slot used.                                 *)
(*                                                                         *)
(* One area and the task that uses it are modelled, one step per flash     *)
(* operation, with a power loss or a flash error possible at every step.   *)
(* The n-th record ever written is the number n, so that "older" can be    *)
(* said; the bytes of a record are left out.                               *)
(***************************************************************************)
EXTENDS Integers

CONSTANTS
  AreaSize,        \* hdl->size, in bytes
  DataSizes,       \* the record sizes callers use on this area
  FDCM_INDEX_MAX,  \* the largest bitmap, in bytes
  MaxWrites,       \* bound: writes begun
  MaxFaults,       \* bound: writes cut short by power loss or flash errors
  MarkMayFail,     \* may programming the bitmap byte fail silently?
  Erased, Torn,    \* contents of flash that is blank, or partly programmed
  NoRecord         \* a read that yields no usable record

FDCM_HEADER_SIZE == 8
FDCM_BYTE_BITS == 8

\* The size of the bitmap for records of ds bytes: a uint16_t, then capped.
BitmapSize(ds) ==
  LET bytes == ((AreaSize - FDCM_HEADER_SIZE - 1)
                  \div (ds * FDCM_BYTE_BITS + 1) + 1) % 65536
  IN  IF bytes > FDCM_INDEX_MAX THEN FDCM_INDEX_MAX ELSE bytes

ASSUME SentinelAssumption ==
  /\ Erased \notin Nat /\ Torn \notin Nat /\ NoRecord \notin Nat
  /\ Erased # Torn

ASSUME BoundsAssumption ==
  /\ MaxWrites \in Nat
  /\ MaxFaults \in Nat
  /\ MarkMayFail \in BOOLEAN

\* What callers owe the layout: a record fits behind the smallest bitmap, and
\* the area is not so large that the bitmap size wraps around 16 bits.
ASSUME AreaAssumption ==
  /\ AreaSize \in Nat
  /\ FDCM_INDEX_MAX \in Nat \ {0}
  /\ DataSizes \subseteq Nat \ {0}
  /\ \A ds \in DataSizes :
       /\ AreaSize >= FDCM_HEADER_SIZE + 1 + ds
       /\ (AreaSize - FDCM_HEADER_SIZE - 1)
             \div (ds * FDCM_BYTE_BITS + 1) + 1 < 65536

VARIABLES
  header,     \* a record size when the header is valid, else Erased or Torn
  bitmap,     \* the set of cleared bits: the slots marked as used
  slot,       \* the content of each slot
  pc,         \* the flash operation the running fdcm_write does next
  dsize,      \* data_size of the running or last write
  bit,        \* bit_cnt of the running write
  attempt,    \* the last record handed to fdcm_write
  committed,  \* the last record whose fdcm_write reported success
  faults      \* number of writes cut short

flash == <<header, bitmap, slot>>
vars == <<header, bitmap, slot, pc, dsize, bit, attempt, committed, faults>>

SlotIdx == 0 .. AreaSize
-----------------------------------------------------------------------------
(* fdcm_bit_count: whole cleared bytes count 8; in the first byte that is  *)
(* not all cleared the bits up to the highest cleared one count; the rest  *)
(* of the bitmap is not looked at.                                         *)
ByteBits(b) == FDCM_BYTE_BITS * b .. FDCM_BYTE_BITS * b + FDCM_BYTE_BITS - 1

FirstOpenByte(bm, size) ==
  CHOOSE b \in 0 .. size :
    /\ \A c \in 0 .. size : c < b => ByteBits(c) \subseteq bm
    /\ b = size \/ ~(ByteBits(b) \subseteq bm)

\* Faults the properties must notice: the last byte is not looked into, or is
\* taken for used up.
SkipsLastByte(bm, size, open) == FDCM_BYTE_BITS * open

FillsLastByte(bm, size, open) ==
  IF open = size \/ bm \cap ByteBits(open) = {}
  THEN FDCM_BYTE_BITS * open
  ELSE FDCM_BYTE_BITS * (open + 1)

BitsCounted(bm, size, open) ==
  LET last == bm \cap ByteBits(open)
  IN  IF open = size \/ last = {}
      THEN FDCM_BYTE_BITS * open
      ELSE 1 + (CHOOSE i \in last : \A j \in last : j <= i)

BitCount(bm, size) == BitsCounted(bm, size, FirstOpenByte(bm, size))

\* Slot i lies inside the area.
RecordFits(ds, i) ==
  FDCM_HEADER_SIZE + BitmapSize(ds) + ds * (i + 1) <= AreaSize

\* Fault: the record size in the header is not compared.
AnyHeaderValid(ds) ==
  /\ header \in DataSizes
  /\ BitmapSize(ds) # 0
  /\ BitmapSize(ds) + FDCM_HEADER_SIZE < AreaSize

HeaderValid(ds) ==
  /\ header = ds
  /\ BitmapSize(ds) # 0
  /\ BitmapSize(ds) + FDCM_HEADER_SIZE < AreaSize

(* fdcm_read: the record in the slot before the first unused one.  With no *)
(* slot used (power was lost between header and bitmap) the address is     *)
(* that of the bitmap's tail; a slot that is blank or partly programmed    *)
(* yields bytes that are no record either.                                 *)
Read(ds) ==
  LET n == BitCount(bitmap, BitmapSize(ds))
  IN  IF HeaderValid(ds) /\ n > 0 /\ slot[n - 1] \in Nat
      THEN slot[n - 1]
      ELSE NoRecord

\* Programming can only clear bits: a slot that is not blank is spoilt.
Program(i, v) == [slot EXCEPT ![i] = IF @ = Erased THEN v ELSE Torn]
-----------------------------------------------------------------------------
Init ==
  /\ header \in {Erased, Torn}
  /\ bitmap = {}
  /\ slot = [i \in SlotIdx |-> Erased]
  /\ pc = "idle"
  /\ dsize \in DataSizes
  /\ bit = 0
  /\ attempt = 0
  /\ committed = 0
  /\ faults = 0

\* Fault: the limit of the slots is forgotten.
LogFullByBitmap(ds, n) == n = FDCM_BYTE_BITS * BitmapSize(ds)

LogFull(ds, n) ==
  n = FDCM_BYTE_BITS * BitmapSize(ds) \/ ~RecordFits(ds, n)

\* fdcm_write up to its first flash operation: append, or start over.  (When
\* the bitmap cannot be allocated the write returns 0 and changes nothing.)
WriteBegin(ds) ==
  LET n == BitCount(bitmap, BitmapSize(ds))
  IN  /\ pc = "idle"
      /\ attempt < MaxWrites
      /\ attempt' = attempt + 1
      /\ dsize' = ds
      /\ \/ /\ HeaderValid(ds) /\ ~LogFull(ds, n)
            /\ pc' = "mark"
            /\ bit' = n
         \/ /\ ~HeaderValid(ds) \/ LogFull(ds, n)
            /\ pc' = "erase"
            /\ bit' = 0
      /\ UNCHANGED <<flash, committed, faults>>

\* Fault: only the header is erased.
EraseHeaderOnly ==
  /\ pc = "erase"
  /\ header' = Erased
  /\ pc' = "header"
  /\ UNCHANGED <<bitmap, slot, dsize, bit, attempt, committed, faults>>

\* fdcm_rewrite
Erase ==
  /\ pc = "erase"
  /\ header' = Erased
  /\ bitmap' = {}
  /\ slot' = [i \in SlotIdx |-> Erased]
  /\ pc' = "header"
  /\ UNCHANGED <<dsize, bit, attempt, committed, faults>>

WriteHeader ==
  /\ pc = "header"
  /\ header' = dsize
  /\ pc' = "firstmark"
  /\ UNCHANGED <<bitmap, slot, dsize, bit, attempt, committed, faults>>

\* Fault: the first bitmap byte is programmed as 0xFF.
MarkFirstForgotten ==
  /\ pc = "firstmark"
  /\ pc' = "data"
  /\ UNCHANGED <<flash, dsize, bit, attempt, committed, faults>>

\* The bitmap byte 0xFE of a rewrite, whose failure is not ignored.
MarkFirst ==
  /\ pc = "firstmark"
  /\ bitmap' = bitmap \cup {0}
  /\ pc' = "data"
  /\ UNCHANGED <<header, slot, dsize, bit, attempt, committed, faults>>

\* The bitmap byte of an append: flash_write's result is ignored.
Mark ==
  /\ pc = "mark"
  /\ bitmap' \in {bitmap \cup {bit}} \cup (IF MarkMayFail THEN {bitmap} ELSE {})
  /\ pc' = "data"
  /\ UNCHANGED <<header, slot, dsize, bit, attempt, committed, faults>>

\* The record itself, and the successful return.
WriteRecord ==
  /\ pc = "data"
  /\ slot' = Program(bit, attempt)
  /\ committed' = attempt
  /\ pc' = "idle"
  /\ UNCHANGED <<header, bitmap, dsize, bit, attempt, faults>>

(* Power is lost, or the flash reports an error that makes fdcm_write      *)
(* return 0, at the operation pc names: it has not started, or it is half  *)
(* done, or it is done and nobody was told.  An erase that has started     *)
(* leaves no valid header behind; a bitmap write changes a single bit.     *)
Interrupt ==
  /\ pc # "idle"
  /\ faults < MaxFaults
  /\ faults' = faults + 1
  /\ pc' = "idle"
  /\ \/ /\ pc \in {"erase", "header"}
        /\ header' \in {header, Torn}
        /\ UNCHANGED <<bitmap, slot>>
     \/ /\ pc = "data"
        /\ slot' \in {slot, Program(bit, attempt), Program(bit, Torn)}
        /\ UNCHANGED <<header, bitmap>>
     \/ /\ pc \in {"firstmark", "mark"}
        /\ UNCHANGED flash
  /\ UNCHANGED <<dsize, bit, attempt, committed>>

Next ==
  \/ \E ds \in DataSizes : WriteBegin(ds)
  \/ Erase \/ WriteHeader \/ MarkFirst
  \/ Mark
  \/ WriteRecord
  \/ Interrupt

Spec == Init /\ [][Next]_vars
-----------------------------------------------------------------------------
TypeOK ==
  /\ header \in DataSizes \cup {Erased, Torn}
  /\ bitmap \subseteq SlotIdx
  /\ slot \in [SlotIdx -> Nat \cup {Erased, Torn}]
  /\ pc \in {"idle", "erase", "header", "firstmark", "mark", "data"}
  /\ dsize \in DataSizes
  /\ bit \in SlotIdx
  /\ attempt \in 0 .. MaxWrites
  /\ committed \in 0 .. attempt
  /\ faults \in 0 .. MaxFaults

\* Once fdcm_write has reported success, and until the next write begins,
\* fdcm_read returns that record: whatever power losses came before it, and
\* wherever they left the log (fdcm.c:193-277).
CommittedReadable ==
  pc = "idle" /\ committed = attempt /\ committed > 0
    => Read(dsize) = committed

\* Neither a power loss nor a flash error brings back a record that a later
\* successful write had replaced, in whatever size the area is read.
NeverOlder ==
  \A ds \in DataSizes : Read(ds) \in Nat => Read(ds) >= committed

\* A record is only ever programmed into a blank slot that lies wholly inside
\* the area, also after earlier writes were cut short.
ProgramsBlankSlot ==
  pc = "data" => slot[bit] = Erased /\ RecordFits(dsize, bit)

\* Wear: an area with a valid header is erased only when every slot that
\* fits and has a bitmap bit has been marked as used.
EraseOnlyWhenUsedUp ==
  pc = "erase" /\ HeaderValid(dsize)
    => \A i \in SlotIdx :
         RecordFits(dsize, i) /\ i < FDCM_BYTE_BITS * BitmapSize(dsize)
           => i \in bitmap

\* The strengthening of the properties above that every step preserves as long
\* as bitmap bytes do get programmed.  A log of n records: the first n slots
\* are marked and inside the area, the others are blank.
LogShape(ds, n) ==
  /\ n \in 0 .. FDCM_BYTE_BITS * BitmapSize(ds)
  /\ bitmap = 0 .. n - 1
  /\ n > 0 => RecordFits(ds, n - 1)
  /\ \A i \in SlotIdx : i >= n => slot[i] = Erased

\* The last record of a valid log is none that a later one replaced.
LogCurrent ==
  header \in DataSizes =>
    \E n \in 0 .. FDCM_BYTE_BITS * BitmapSize(header) :
      /\ LogShape(header, n)
      /\ n > 0 /\ slot[n - 1] \in Nat => slot[n - 1] >= committed

\* What each flash operation of fdcm_write finds.
WriteProgress ==
  /\ pc # "idle" => committed < attempt
  /\ pc \in {"erase", "header", "firstmark"} => bit = 0
  /\ pc = "header" =>
       header = Erased /\ bitmap = {} /\ \A i \in SlotIdx : slot[i] = Erased
  /\ pc = "firstmark" => header = dsize /\ LogShape(dsize, 0)
  /\ pc = "mark" =>
       header = dsize /\ LogShape(dsize, bit) /\ ~LogFull(dsize, bit)
  /\ pc = "data" =>
       header = dsize /\ LogShape(dsize, bit + 1) /\ slot[bit] = Erased

\* What a successful write leaves behind.
WriteResult ==
  pc = "idle" /\ committed = attempt /\ committed > 0 =>
    header = dsize /\ LogShape(dsize, bit + 1) /\ slot[bit] = committed

LogInv ==
  TypeOK /\ LogCurrent /\ WriteProgress /\ WriteResult /\ EraseOnlyWhenUsedUp

\* The area as a register: what fdcm_read returns to whoever knows the record
\* size, and the record fdcm_write has in hand.  Every step of the log is a
\* step of the register or changes nothing a reader can see.
Current == IF header \in DataSizes THEN Read(header) ELSE NoRecord

Register == INSTANCE FdcmRegister WITH
  Records <- 1 .. MaxWrites,
  reg <- Current,
  pending <- IF pc = "idle" THEN NoRecord ELSE attempt

ImplementsRegister == Register!RegSpec
=============================================================================
