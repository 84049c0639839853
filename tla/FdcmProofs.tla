----------------------------- MODULE FdcmProofs -----------------------------
(***************************************************************************)
(* Proofs about the fdcm log for every area size, every set of record      *)
(* sizes and any number of writes and power losses.                        *)
(***************************************************************************)
EXTENDS Fdcm, TLAPS

-----------------------------------------------------------------------------
(* The layout.                                                             *)

\* The bitmap of a record size callers use has at least one byte, and the
\* first slot behind it lies inside the area (fdcm.c:120-122).
LEMMA LayoutFits ==
  ASSUME NEW ds \in DataSizes
  PROVE  BitmapSize(ds) \in Nat \ {0} /\ RecordFits(ds, 0)
<1> DEFINE x == AreaSize - FDCM_HEADER_SIZE - 1
           k == ds * FDCM_BYTE_BITS + 1
           q == x \div k
<1>1. ds \in Nat /\ ds >= 1 /\ x \in Nat /\ x >= ds /\ q + 1 < 65536 /\ AreaSize \in Nat
  BY AreaAssumption DEF FDCM_HEADER_SIZE, FDCM_BYTE_BITS
<1>2. k \in Nat /\ k = 8 * ds + 1 /\ k >= 9
  BY <1>1 DEF FDCM_BYTE_BITS
<1> HIDE DEF x, k
<1>3. q \in Nat /\ q * k <= x
  BY <1>1, <1>2
<1>4. q + ds <= x
  <2>1. CASE q = 0
    BY <2>1, <1>1
  <2>2. CASE q >= 1
    <3>1. q * k = 8 * (q * ds) + q
      BY <1>1, <1>2, <1>3
    <3>2. q * ds >= ds
      BY <2>2, <1>1, <1>3
    <3> DEFINE p == q * ds
    <3>3. p \in Nat
      BY <1>1, <1>3
    <3> HIDE DEF p
    <3>4. QED
      BY <3>1, <3>2, <3>3, <1>1, <1>3 DEF p
  <2>3. QED
    BY <2>1, <2>2, <1>3
<1>5. (q + 1) % 65536 = q + 1
  BY <1>1, <1>3
<1>6. BitmapSize(ds) \in Nat \ {0} /\ BitmapSize(ds) <= q + 1
  <2>1. BitmapSize(ds) = IF q + 1 > FDCM_INDEX_MAX THEN FDCM_INDEX_MAX ELSE q + 1
    BY <1>5 DEF BitmapSize, x, k
  <2> HIDE DEF q
  <2>2. QED
    BY <2>1, <1>3, AreaAssumption
<1>7. ds * (0 + 1) = ds
  BY <1>1
<1>8. QED
  BY <1>1, <1>4, <1>6, <1>7, <1>3 DEF RecordFits, FDCM_HEADER_SIZE, x

\* A slot inside the area has an index the model keeps, and so have the slots
\* before it.
LEMMA FitsInside ==
  ASSUME NEW ds \in DataSizes, NEW i \in Nat, RecordFits(ds, i)
  PROVE  /\ i \in SlotIdx
         /\ \A j \in Nat : j <= i => RecordFits(ds, j)
<1>1. ds \in Nat /\ ds >= 1 /\ AreaSize \in Nat
  BY AreaAssumption
<1>2. BitmapSize(ds) \in Nat
  BY LayoutFits
<1>3. ds * (i + 1) \in Nat /\ ds * (i + 1) >= i + 1
  BY <1>1
<1>4. ASSUME NEW j \in Nat, j <= i PROVE ds * (j + 1) \in Nat /\ ds * (j + 1) <= ds * (i + 1)
  BY <1>1, <1>4
<1>5. QED
  BY <1>1, <1>2, <1>3, <1>4 DEF RecordFits, SlotIdx, FDCM_HEADER_SIZE

\* fdcm_read and fdcm_write accept exactly the headers fdcm_rewrite wrote for
\* the same record size (fdcm.c:210-213, 249-252).
LEMMA HeaderValidIff ==
  ASSUME NEW ds \in DataSizes
  PROVE  HeaderValid(ds) <=> header = ds
<1>1. ds \in Nat /\ ds >= 1 /\ AreaSize \in Nat
  BY AreaAssumption
<1>2. BitmapSize(ds) \in Nat \ {0} /\ FDCM_HEADER_SIZE + BitmapSize(ds) + ds * (0 + 1) <= AreaSize
  BY LayoutFits DEF RecordFits
<1>3. ds * (0 + 1) = ds
  BY <1>1
<1>4. QED
  BY <1>1, <1>2, <1>3 DEF HeaderValid, FDCM_HEADER_SIZE

-----------------------------------------------------------------------------
(* The bitmap.                                                             *)

\* When the cleared bits are the first n, the first byte that is not all
\* cleared is byte n / 8.
LEMMA FirstOpenByteOfPrefix ==
  ASSUME NEW size \in Nat, NEW n \in 0 .. 8 * size
  PROVE  FirstOpenByte(0 .. n - 1, size) = n \div 8
<1> DEFINE P(b) == /\ \A c \in 0 .. size : c < b => ByteBits(c) \subseteq 0 .. n - 1
                   /\ b = size \/ ~(ByteBits(b) \subseteq 0 .. n - 1)
<1>1. n \div 8 \in 0 .. size /\ 8 * (n \div 8) <= n /\ n < 8 * (n \div 8) + 8
  OBVIOUS
<1>2. \A c \in 0 .. size : ByteBits(c) \subseteq 0 .. n - 1 <=> 8 * c + 8 <= n
  <2> TAKE c \in 0 .. size
  <2>1. ASSUME ByteBits(c) \subseteq 0 .. n - 1 PROVE 8 * c + 8 <= n
    <3>1. 8 * c + 7 \in ByteBits(c)
      BY DEF ByteBits, FDCM_BYTE_BITS
    <3>2. QED
      BY <2>1, <3>1
  <2>2. ASSUME 8 * c + 8 <= n PROVE ByteBits(c) \subseteq 0 .. n - 1
    BY <2>2 DEF ByteBits, FDCM_BYTE_BITS
  <2>3. QED
    BY <2>1, <2>2
<1>3. P(n \div 8)
  BY <1>1, <1>2
<1>4. \A b \in 0 .. size : P(b) => b = n \div 8
  BY <1>1, <1>2
<1> HIDE DEF P
<1>5. (CHOOSE b \in 0 .. size : P(b)) = n \div 8
  BY <1>1, <1>3, <1>4
<1>6. QED
  BY <1>5 DEF FirstOpenByte, P

\* fdcm_bit_count counts the slots used when they are the first n, which is
\* the only bitmap the log ever holds (fdcm.c:84-107).
LEMMA BitCountOfPrefix ==
  ASSUME NEW size \in Nat, NEW n \in 0 .. 8 * size
  PROVE  BitCount(0 .. n - 1, size) = n
<1> DEFINE open == n \div 8
           last == (0 .. n - 1) \cap ByteBits(open)
<1>1. open \in 0 .. size /\ 8 * open <= n /\ n < 8 * open + 8
  OBVIOUS
<1>2. BitCount(0 .. n - 1, size)
        = IF open = size \/ last = {} THEN 8 * open
          ELSE 1 + (CHOOSE i \in last : \A j \in last : j <= i)
  <2>1. FirstOpenByte(0 .. n - 1, size) = open
    BY FirstOpenByteOfPrefix
  <2> HIDE DEF open
  <2>2. BitCount(0 .. n - 1, size) = BitsCounted(0 .. n - 1, size, open)
    BY <2>1 DEF BitCount
  <2>3. QED
    BY <2>2 DEF BitsCounted, FDCM_BYTE_BITS
<1>3. last = 8 * open .. n - 1
  BY <1>1 DEF ByteBits, FDCM_BYTE_BITS
<1> HIDE DEF open, last
<1>4. CASE n = 8 * open
  BY <1>1, <1>2, <1>3, <1>4
<1>5. CASE n > 8 * open
  <2>1. open # size
    BY <1>1, <1>5
  <2>2. n - 1 \in last /\ \A j \in last : j \in Int /\ j <= n - 1
    BY <1>1, <1>3, <1>5
  <2>3. \A i \in last : (\A j \in last : j <= i) => i = n - 1
    BY <2>2
  <2>4. (CHOOSE i \in last : \A j \in last : j <= i) = n - 1
    BY <2>2, <2>3
  <2>5. QED
    BY <1>2, <2>1, <2>2, <2>4
<1>6. QED
  BY <1>1, <1>4, <1>5

-----------------------------------------------------------------------------
(* The inductive invariant.                                                *)

\* The slot count fdcm_read and fdcm_write find in a log of n records.
LEMMA LogCount ==
  ASSUME NEW ds \in DataSizes, NEW n, LogShape(ds, n)
  PROVE  BitCount(bitmap, BitmapSize(ds)) = n
BY LayoutFits, BitCountOfPrefix DEF LogShape, FDCM_BYTE_BITS

\* An erased or torn header is not the header of any record size.
LEMMA BadHeader == Erased \notin DataSizes /\ Torn \notin DataSizes
<1>1. \A ds \in DataSizes : ds \in Nat
  BY AreaAssumption
<1>2. QED
  BY <1>1, SentinelAssumption

LEMMA InitInv == Init => LogInv
<1> SUFFICES ASSUME Init PROVE LogInv
  OBVIOUS
<1>1. TypeOK
  BY AreaAssumption, BoundsAssumption, SentinelAssumption DEF Init, TypeOK, SlotIdx
<1>2. header \notin DataSizes
  BY BadHeader DEF Init
<1>3. \A ds \in DataSizes : ~HeaderValid(ds)
  BY <1>2, HeaderValidIff
<1>4. QED
  BY <1>1, <1>2, <1>3
     DEF Init, LogInv, LogCurrent, WriteProgress, WriteResult, EraseOnlyWhenUsedUp

\* fdcm_write up to its first flash operation.
LEMMA WriteBeginInv ==
  ASSUME LogInv, NEW ds \in DataSizes, WriteBegin(ds)
  PROVE  LogInv'
<1> DEFINE n == BitCount(bitmap, BitmapSize(ds))
<1>1. /\ pc = "idle" /\ attempt' = attempt + 1 /\ attempt < MaxWrites
      /\ dsize' = ds /\ UNCHANGED <<header, bitmap, slot, committed, faults>>
  BY DEF WriteBegin, flash
<1>2. /\ attempt \in 0 .. MaxWrites /\ committed \in 0 .. attempt /\ MaxWrites \in Nat
      /\ AreaSize \in Nat /\ TypeOK
  BY AreaAssumption, BoundsAssumption DEF LogInv, TypeOK
<1>3. committed' < attempt' /\ attempt' \in 0 .. MaxWrites /\ committed' \in 0 .. attempt'
  BY <1>1, <1>2
<1>4. LogCurrent'
  BY <1>1 DEF LogInv, LogCurrent, LogShape
<1>5. ASSUME header = ds
      PROVE  LogShape(ds, n) /\ n \in 0 .. FDCM_BYTE_BITS * BitmapSize(ds)
  BY <1>5, LogCount DEF LogInv, LogCurrent
<1>6. CASE HeaderValid(ds) /\ ~LogFull(ds, n) /\ pc' = "mark" /\ bit' = n
  <2>1. header = ds /\ LogShape(ds, n) /\ n \in Nat
    BY <1>5, <1>6, HeaderValidIff, LayoutFits DEF FDCM_BYTE_BITS
  <2>2. n \in SlotIdx
    BY <1>6, <2>1, FitsInside DEF LogFull
  <2> HIDE DEF n
  <2>3. TypeOK'
    BY <1>1, <1>2, <1>3, <1>6, <2>2 DEF TypeOK
  <2>4. WriteProgress'
    BY <1>1, <1>3, <1>6, <2>1 DEF WriteProgress, LogShape, LogFull, RecordFits
  <2>5. QED
    BY <1>4, <1>6, <2>3, <2>4 DEF LogInv, WriteResult, EraseOnlyWhenUsedUp
<1>7. CASE (~HeaderValid(ds) \/ LogFull(ds, n)) /\ pc' = "erase" /\ bit' = 0
  <2>1. TypeOK'
    BY <1>1, <1>2, <1>3, <1>7 DEF TypeOK, SlotIdx
  <2>2. WriteProgress'
    BY <1>1, <1>3, <1>7 DEF WriteProgress
  <2>3. EraseOnlyWhenUsedUp'
    <3>1. SUFFICES ASSUME HeaderValid(ds), NEW i \in SlotIdx,
                          RecordFits(ds, i), i < FDCM_BYTE_BITS * BitmapSize(ds)
                   PROVE  i \in bitmap
      BY <1>1 DEF EraseOnlyWhenUsedUp, HeaderValid, RecordFits
    <3>2. /\ bitmap = 0 .. n - 1 /\ n \in Nat /\ i \in Nat /\ BitmapSize(ds) \in Nat
          /\ LogFull(ds, n)
      BY <1>5, <1>7, <1>2, <3>1, HeaderValidIff, LayoutFits
         DEF LogShape, SlotIdx, FDCM_BYTE_BITS
    <3>3. ~(n <= i)
      BY <3>1, <3>2, FitsInside DEF LogFull, FDCM_BYTE_BITS
    <3> HIDE DEF n
    <3>4. QED
      BY <3>2, <3>3
  <2>4. QED
    BY <1>4, <1>7, <2>1, <2>2, <2>3 DEF LogInv, WriteResult
<1>8. QED
  BY <1>6, <1>7 DEF WriteBegin

LEMMA EraseInv == LogInv /\ Erase => LogInv'
<1> SUFFICES ASSUME LogInv, Erase PROVE LogInv'
  OBVIOUS
<1>1. TypeOK'
  BY AreaAssumption DEF LogInv, TypeOK, Erase, SlotIdx
<1>2. header' \notin DataSizes
  BY BadHeader DEF Erase
<1>3. WriteProgress'
  BY DEF LogInv, WriteProgress, Erase
<1>4. QED
  BY <1>1, <1>2, <1>3 DEF Erase, LogInv, LogCurrent, WriteResult, EraseOnlyWhenUsedUp

LEMMA WriteHeaderInv == LogInv /\ WriteHeader => LogInv'
<1> SUFFICES ASSUME LogInv, WriteHeader PROVE LogInv'
  OBVIOUS
<1>1. TypeOK'
  BY DEF LogInv, TypeOK, WriteHeader
<1>2. dsize \in DataSizes /\ BitmapSize(dsize) \in Nat
  BY LayoutFits DEF LogInv, TypeOK
<1>3. bitmap = {} /\ (\A i \in SlotIdx : slot[i] = Erased) /\ bit = 0 /\ committed < attempt
  BY DEF LogInv, WriteProgress, WriteHeader
<1>4. LogShape(dsize, 0)'
  BY <1>2, <1>3 DEF LogShape, WriteHeader, FDCM_BYTE_BITS, BitmapSize
<1>5. LogCurrent'
  <2>1. header' = dsize /\ dsize' = dsize
    BY DEF WriteHeader
  <2>2. 0 \in 0 .. FDCM_BYTE_BITS * BitmapSize(dsize)
    BY <1>2 DEF FDCM_BYTE_BITS
  <2>3. QED
    BY <1>4, <2>1, <2>2 DEF LogCurrent
<1>6. WriteProgress'
  BY <1>3, <1>4 DEF WriteProgress, WriteHeader
<1>7. QED
  BY <1>1, <1>5, <1>6 DEF WriteHeader, LogInv, WriteResult, EraseOnlyWhenUsedUp

\* Marking slot `bit', the first unused one, in a log of `bit' records.
LEMMA MarkedShape ==
  ASSUME LogInv, header = dsize, LogShape(dsize, bit), ~LogFull(dsize, bit),
         bitmap' = bitmap \cup {bit}, UNCHANGED <<header, slot, dsize, bit, committed>>
  PROVE  /\ LogShape(dsize, bit + 1)' /\ slot'[bit] = Erased
         /\ LogCurrent'
<1>1. /\ dsize \in DataSizes /\ bit \in SlotIdx /\ bit \in Nat /\ AreaSize \in Nat
      /\ BitmapSize(dsize) \in Nat
  BY LayoutFits, AreaAssumption DEF LogInv, TypeOK, SlotIdx
<1>2. /\ bit + 1 \in 0 .. FDCM_BYTE_BITS * BitmapSize(dsize)
      /\ RecordFits(dsize, bit)
  BY <1>1 DEF LogFull, LogShape, FDCM_BYTE_BITS
<1>3. bitmap' = 0 .. (bit + 1) - 1
  BY <1>1 DEF LogShape
<1>4. \A i \in SlotIdx : i >= bit + 1 => slot'[i] = Erased
  BY <1>1 DEF LogShape, SlotIdx
<1>5. slot'[bit] = Erased
  BY <1>1 DEF LogShape
<1>6. (bit + 1) - 1 = bit
  BY <1>1
<1>7. LogShape(dsize, bit + 1)'
  BY <1>2, <1>3, <1>4, <1>6 DEF LogShape, RecordFits
<1>8. LogCurrent'
  BY <1>2, <1>5, <1>6, <1>7, SentinelAssumption DEF LogCurrent
<1>9. QED
  BY <1>5, <1>7, <1>8

LEMMA MarkFirstInv == LogInv /\ MarkFirst => LogInv'
<1> SUFFICES ASSUME LogInv, MarkFirst PROVE LogInv'
  OBVIOUS
<1>1. TypeOK'
  BY AreaAssumption DEF LogInv, TypeOK, MarkFirst, SlotIdx
<1>2. dsize \in DataSizes /\ bit = 0 /\ header = dsize /\ LogShape(dsize, 0) /\ committed < attempt
  BY DEF LogInv, TypeOK, WriteProgress, MarkFirst
<1>3. ~LogFull(dsize, 0)
  BY <1>2, LayoutFits DEF LogFull, FDCM_BYTE_BITS
<1>4. LogShape(dsize, bit + 1)' /\ slot'[bit] = Erased /\ LogCurrent'
  BY <1>2, <1>3, MarkedShape DEF MarkFirst
<1>5. WriteProgress'
  BY <1>2, <1>4 DEF WriteProgress, MarkFirst
<1>6. QED
  BY <1>1, <1>4, <1>5 DEF MarkFirst, LogInv, WriteResult, EraseOnlyWhenUsedUp

LEMMA MarkInv ==
  ASSUME ~MarkMayFail
  PROVE  LogInv /\ Mark => LogInv'
<1> SUFFICES ASSUME LogInv, Mark PROVE LogInv'
  OBVIOUS
<1>0. bitmap' = bitmap \cup {bit}
  BY DEF Mark
<1>1. TypeOK'
  BY <1>0 DEF LogInv, TypeOK, Mark
<1>2. header = dsize /\ LogShape(dsize, bit) /\ ~LogFull(dsize, bit) /\ committed < attempt
  BY DEF LogInv, WriteProgress, Mark
<1>4. LogShape(dsize, bit + 1)' /\ slot'[bit] = Erased /\ LogCurrent'
  BY <1>0, <1>2, MarkedShape DEF Mark
<1>5. WriteProgress'
  BY <1>2, <1>4 DEF WriteProgress, Mark
<1>6. QED
  BY <1>1, <1>4, <1>5 DEF Mark, LogInv, WriteResult, EraseOnlyWhenUsedUp

\* Programming slot `bit', marked but blank, with v or with part of it.
LEMMA ProgrammedShape ==
  ASSUME LogInv, pc = "data", NEW v \in Nat \cup {Torn},
         slot' = Program(bit, v), UNCHANGED <<header, bitmap, dsize, bit>>
  PROVE  /\ LogShape(dsize, bit + 1)' /\ slot'[bit] = v
         /\ slot' \in [SlotIdx -> Nat \cup {Erased, Torn}]
         /\ (v \in Nat => v >= committed') => LogCurrent'
<1>1. /\ dsize \in DataSizes /\ bit \in SlotIdx /\ bit \in Nat /\ AreaSize \in Nat
      /\ header = dsize /\ LogShape(dsize, bit + 1) /\ slot[bit] = Erased
      /\ slot \in [SlotIdx -> Nat \cup {Erased, Torn}]
  BY AreaAssumption DEF LogInv, TypeOK, SlotIdx, WriteProgress
<1>2. slot' = [slot EXCEPT ![bit] = v]
  BY <1>1 DEF Program
<1>3. slot'[bit] = v /\ slot' \in [SlotIdx -> Nat \cup {Erased, Torn}]
  BY <1>1, <1>2
<1>4. \A i \in SlotIdx : i >= bit + 1 => slot'[i] = Erased
  BY <1>1, <1>2 DEF LogShape, SlotIdx
<1>5. (bit + 1) - 1 = bit /\ bit + 1 > 0
  BY <1>1
<1>6. LogShape(dsize, bit + 1)'
  BY <1>1, <1>4 DEF LogShape, RecordFits
<1>7. bit + 1 \in 0 .. FDCM_BYTE_BITS * BitmapSize(dsize)
  BY <1>1 DEF LogShape
<1>8. ASSUME v \in Nat => v >= committed' PROVE LogCurrent'
  BY <1>1, <1>3, <1>5, <1>6, <1>7, <1>8 DEF LogCurrent
<1>9. QED
  BY <1>3, <1>6, <1>8

LEMMA WriteRecordInv == LogInv /\ WriteRecord => LogInv'
<1> SUFFICES ASSUME LogInv, WriteRecord PROVE LogInv'
  OBVIOUS
<1>1. attempt \in Nat /\ committed \in 0 .. attempt /\ header = dsize
  BY BoundsAssumption DEF LogInv, TypeOK, WriteProgress, WriteRecord
<1>2. /\ LogShape(dsize, bit + 1)' /\ slot'[bit] = attempt
      /\ slot' \in [SlotIdx -> Nat \cup {Erased, Torn}]
      /\ LogCurrent'
  BY <1>1, ProgrammedShape DEF WriteRecord
<1>3. TypeOK'
  BY <1>1, <1>2 DEF LogInv, TypeOK, WriteRecord
<1>4. WriteResult'
  BY <1>1, <1>2 DEF WriteResult, WriteRecord
<1>5. QED
  BY <1>2, <1>3, <1>4 DEF WriteRecord, LogInv, WriteProgress, EraseOnlyWhenUsedUp

LEMMA InterruptInv == LogInv /\ Interrupt => LogInv'
<1> SUFFICES ASSUME LogInv, Interrupt PROVE LogInv'
  OBVIOUS
<1>1. /\ pc # "idle" /\ pc' = "idle" /\ committed < attempt
      /\ UNCHANGED <<dsize, bit, attempt, committed>>
  BY DEF LogInv, WriteProgress, Interrupt
<1>2. faults' \in 0 .. MaxFaults
  BY BoundsAssumption DEF LogInv, TypeOK, Interrupt
<1>3. attempt \in Nat /\ committed \in 0 .. attempt
  BY BoundsAssumption DEF LogInv, TypeOK
<1>4. WriteProgress' /\ WriteResult' /\ EraseOnlyWhenUsedUp'
  BY <1>1, <1>3 DEF WriteProgress, WriteResult, EraseOnlyWhenUsedUp
<1>5. CASE header' \in {header, Torn} /\ UNCHANGED <<bitmap, slot>>
  <2>1. TypeOK'
    BY <1>1, <1>2, <1>5 DEF LogInv, TypeOK
  <2>2. LogCurrent'
    BY BadHeader, <1>1, <1>5 DEF LogInv, LogCurrent, LogShape
  <2>3. QED
    BY <1>4, <2>1, <2>2 DEF LogInv
<1>6. CASE pc = "data" /\ slot' \in {Program(bit, attempt), Program(bit, Torn)}
           /\ UNCHANGED <<header, bitmap>>
  <2>1. PICK v \in Nat \cup {Torn} : slot' = Program(bit, v) /\ (v \in Nat => v = attempt)
    BY <1>3, <1>6, SentinelAssumption
  <2>2. slot' \in [SlotIdx -> Nat \cup {Erased, Torn}] /\ LogCurrent'
    BY <1>1, <1>3, <1>6, <2>1, ProgrammedShape
  <2>3. TypeOK'
    BY <1>1, <1>2, <1>6, <2>2 DEF LogInv, TypeOK
  <2>4. QED
    BY <1>4, <2>2, <2>3 DEF LogInv
<1>7. QED
  BY <1>5, <1>6 DEF Interrupt, flash

-----------------------------------------------------------------------------
(* The theorems.                                                           *)

\* LogInv is inductive as long as programming a bitmap byte does not fail
\* silently.
LEMMA NextInv ==
  ASSUME ~MarkMayFail
  PROVE  LogInv /\ [Next]_vars => LogInv'
<1> SUFFICES ASSUME LogInv, [Next]_vars PROVE LogInv'
  OBVIOUS
<1>1. ASSUME NEW ds \in DataSizes, WriteBegin(ds) PROVE LogInv'
  BY <1>1, WriteBeginInv
<1>2. CASE Erase
  BY <1>2, EraseInv
<1>3. CASE WriteHeader
  BY <1>3, WriteHeaderInv
<1>4. CASE MarkFirst
  BY <1>4, MarkFirstInv
<1>5. CASE Mark
  BY <1>5, MarkInv
<1>6. CASE WriteRecord
  BY <1>6, WriteRecordInv
<1>7. CASE Interrupt
  BY <1>7, InterruptInv
<1>8. CASE UNCHANGED vars
  BY <1>8 DEF vars, LogInv, TypeOK, LogCurrent, LogShape, WriteProgress,
              WriteResult, EraseOnlyWhenUsedUp, HeaderValid, LogFull
<1>9. QED
  BY <1>1, <1>2, <1>3, <1>4, <1>5, <1>6, <1>7, <1>8 DEF Next

\* The log always has the shape fdcm_read and fdcm_write rely on, and no area
\* with room left is ever erased.
THEOREM LogIsSound ==
  ASSUME ~MarkMayFail
  PROVE  Spec => []LogInv
<1>1. Init => LogInv
  BY InitInv
<1>2. LogInv /\ [Next]_vars => LogInv'
  BY NextInv
<1>3. QED
  BY <1>1, <1>2, PTL DEF Spec

\* A record fdcm_write reported as written is what fdcm_read returns until the
\* next write, after any number of power losses before.
THEOREM CommittedIsReadable ==
  ASSUME ~MarkMayFail
  PROVE  Spec => []CommittedReadable
<1>1. LogInv => CommittedReadable
  <2> SUFFICES ASSUME LogInv, pc = "idle", committed = attempt, committed > 0
               PROVE  Read(dsize) = committed
    BY DEF CommittedReadable
  <2>1. /\ dsize \in DataSizes /\ header = dsize /\ bit \in Nat /\ committed \in Nat
        /\ LogShape(dsize, bit + 1) /\ slot[bit] = committed
    BY BoundsAssumption, AreaAssumption DEF LogInv, TypeOK, WriteResult, SlotIdx
  <2>2. BitCount(bitmap, BitmapSize(dsize)) = bit + 1
    BY <2>1, LogCount
  <2>3. (bit + 1) - 1 = bit /\ bit + 1 > 0 /\ HeaderValid(dsize)
    BY <2>1, HeaderValidIff
  <2>4. QED
    BY <2>1, <2>2, <2>3 DEF Read
<1>2. QED
  BY <1>1, LogIsSound, PTL

\* No power loss and no flash error brings back a record that a successful
\* write replaced.
THEOREM NeverReadsOlder ==
  ASSUME ~MarkMayFail
  PROVE  Spec => []NeverOlder
<1>1. LogInv => NeverOlder
  <2> SUFFICES ASSUME LogInv, NEW ds \in DataSizes, Read(ds) \in Nat
               PROVE  Read(ds) >= committed
    BY DEF NeverOlder
  <2>1. /\ HeaderValid(ds) /\ BitCount(bitmap, BitmapSize(ds)) > 0
        /\ Read(ds) = slot[BitCount(bitmap, BitmapSize(ds)) - 1]
    BY SentinelAssumption DEF Read
  <2>2. PICK n \in 0 .. FDCM_BYTE_BITS * BitmapSize(ds) :
          /\ LogShape(ds, n)
          /\ n > 0 /\ slot[n - 1] \in Nat => slot[n - 1] >= committed
    BY <2>1, HeaderValidIff DEF LogInv, LogCurrent
  <2>3. BitCount(bitmap, BitmapSize(ds)) = n
    BY <2>2, LogCount
  <2>4. QED
    BY <2>1, <2>2, <2>3
<1>2. QED
  BY <1>1, LogIsSound, PTL

\* Records are only programmed into blank slots inside the area.
THEOREM OnlyBlankSlots ==
  ASSUME ~MarkMayFail
  PROVE  Spec => []ProgramsBlankSlot
<1>1. LogInv => ProgramsBlankSlot
  <2> SUFFICES ASSUME LogInv, pc = "data"
               PROVE  slot[bit] = Erased /\ RecordFits(dsize, bit)
    BY DEF ProgramsBlankSlot
  <2>1. bit \in Nat /\ LogShape(dsize, bit + 1) /\ slot[bit] = Erased
    BY AreaAssumption DEF LogInv, TypeOK, WriteProgress, SlotIdx
  <2>2. (bit + 1) - 1 = bit /\ bit + 1 > 0
    BY <2>1
  <2>3. QED
    BY <2>1, <2>2 DEF LogShape
<1>2. QED
  BY <1>1, LogIsSound, PTL

-----------------------------------------------------------------------------
(* Wear, also when programming a bitmap byte fails silently.  What remains  *)
(* of LogInv then: the cleared bits are an initial segment.  Which records  *)
(* the slots hold is no longer known.                                       *)

UsedArePrefix(ds, n) == n \in 0 .. FDCM_BYTE_BITS * BitmapSize(ds) /\ bitmap = 0 .. n - 1

WearProgress ==
  /\ pc \in {"erase", "header", "firstmark"} => bit = 0
  /\ pc = "header" => header = Erased /\ bitmap = {}
  /\ pc = "firstmark" => header = dsize /\ bitmap = {}
  /\ pc = "mark" => header = dsize /\ UsedArePrefix(dsize, bit) /\ ~LogFull(dsize, bit)

WearInv ==
  /\ TypeOK
  /\ header \in DataSizes =>
       \E n \in 0 .. FDCM_BYTE_BITS * BitmapSize(header) : UsedArePrefix(header, n)
  /\ WearProgress
  /\ EraseOnlyWhenUsedUp

LEMMA UsedCount ==
  ASSUME NEW ds \in DataSizes, NEW n, UsedArePrefix(ds, n)
  PROVE  BitCount(bitmap, BitmapSize(ds)) = n /\ n \in Nat
BY LayoutFits, BitCountOfPrefix DEF UsedArePrefix, FDCM_BYTE_BITS

LEMMA InitWear == Init => WearInv
<1> SUFFICES ASSUME Init PROVE WearInv
  OBVIOUS
<1>1. TypeOK
  BY InitInv DEF LogInv
<1>2. header \notin DataSizes
  BY BadHeader DEF Init
<1>3. QED
  BY <1>1, <1>2 DEF Init, WearInv, WearProgress, EraseOnlyWhenUsedUp

LEMMA WriteBeginWear ==
  ASSUME WearInv, NEW ds \in DataSizes, WriteBegin(ds)
  PROVE  WearInv'
<1> DEFINE n == BitCount(bitmap, BitmapSize(ds))
<1>1. /\ pc = "idle" /\ attempt' = attempt + 1 /\ attempt < MaxWrites
      /\ dsize' = ds /\ UNCHANGED <<header, bitmap, slot, committed, faults>>
  BY DEF WriteBegin, flash
<1>2. /\ attempt \in 0 .. MaxWrites /\ committed \in 0 .. attempt /\ MaxWrites \in Nat
      /\ AreaSize \in Nat /\ TypeOK
  BY AreaAssumption, BoundsAssumption DEF WearInv, TypeOK
<1>3. attempt' \in 0 .. MaxWrites /\ committed' \in 0 .. attempt'
  BY <1>1, <1>2
<1>4. (header \in DataSizes =>
         \E k \in 0 .. FDCM_BYTE_BITS * BitmapSize(header) : UsedArePrefix(header, k))'
  BY <1>1 DEF WearInv, UsedArePrefix
<1>5. ASSUME header = ds PROVE UsedArePrefix(ds, n) /\ n \in Nat
  BY <1>5, UsedCount DEF WearInv
<1>6. CASE HeaderValid(ds) /\ ~LogFull(ds, n) /\ pc' = "mark" /\ bit' = n
  <2>1. header = ds /\ UsedArePrefix(ds, n) /\ n \in Nat
    BY <1>5, <1>6, HeaderValidIff
  <2>2. n \in SlotIdx
    BY <1>6, <2>1, FitsInside DEF LogFull
  <2> HIDE DEF n
  <2>3. TypeOK'
    BY <1>1, <1>2, <1>3, <1>6, <2>2 DEF TypeOK
  <2>4. WearProgress'
    BY <1>1, <1>6, <2>1 DEF WearProgress, UsedArePrefix, LogFull, RecordFits
  <2>5. QED
    BY <1>4, <1>6, <2>3, <2>4 DEF WearInv, EraseOnlyWhenUsedUp
<1>7. CASE (~HeaderValid(ds) \/ LogFull(ds, n)) /\ pc' = "erase" /\ bit' = 0
  <2>1. TypeOK'
    BY <1>1, <1>2, <1>3, <1>7 DEF TypeOK, SlotIdx
  <2>2. WearProgress'
    BY <1>1, <1>7 DEF WearProgress
  <2>3. EraseOnlyWhenUsedUp'
    <3>1. SUFFICES ASSUME HeaderValid(ds), NEW i \in SlotIdx,
                          RecordFits(ds, i), i < FDCM_BYTE_BITS * BitmapSize(ds)
                   PROVE  i \in bitmap
      BY <1>1 DEF EraseOnlyWhenUsedUp, HeaderValid, RecordFits
    <3>2. /\ bitmap = 0 .. n - 1 /\ n \in Nat /\ i \in Nat /\ BitmapSize(ds) \in Nat
          /\ LogFull(ds, n)
      BY <1>5, <1>7, <1>2, <3>1, HeaderValidIff, LayoutFits DEF UsedArePrefix, SlotIdx
    <3>3. ~(n <= i)
      BY <3>1, <3>2, FitsInside DEF LogFull, FDCM_BYTE_BITS
    <3> HIDE DEF n
    <3>4. QED
      BY <3>2, <3>3
  <2>4. QED
    BY <1>4, <1>7, <2>1, <2>2, <2>3 DEF WearInv
<1>8. QED
  BY <1>6, <1>7 DEF WriteBegin

LEMMA EraseWear == WearInv /\ Erase => WearInv'
<1> SUFFICES ASSUME WearInv, Erase PROVE WearInv'
  OBVIOUS
<1>1. TypeOK'
  BY AreaAssumption DEF WearInv, TypeOK, Erase, SlotIdx
<1>2. header' \notin DataSizes
  BY BadHeader DEF Erase
<1>3. QED
  BY <1>1, <1>2 DEF WearInv, WearProgress, Erase, EraseOnlyWhenUsedUp

LEMMA WriteHeaderWear == WearInv /\ WriteHeader => WearInv'
<1> SUFFICES ASSUME WearInv, WriteHeader PROVE WearInv'
  OBVIOUS
<1>1. TypeOK'
  BY DEF WearInv, TypeOK, WriteHeader
<1>2. bitmap = {} /\ bit = 0 /\ dsize \in DataSizes /\ BitmapSize(dsize) \in Nat
  BY LayoutFits DEF WearInv, TypeOK, WearProgress, WriteHeader
<1>3. UsedArePrefix(header, 0)' /\ 0 \in 0 .. FDCM_BYTE_BITS * BitmapSize(header')
  BY <1>2 DEF UsedArePrefix, WriteHeader, FDCM_BYTE_BITS
<1>4. QED
  BY <1>1, <1>2, <1>3 DEF WearInv, WearProgress, WriteHeader, EraseOnlyWhenUsedUp

\* Either mark adds at most the first bit that is not used.
LEMMA MarkedWear ==
  ASSUME WearInv, header = dsize, UsedArePrefix(dsize, bit), ~LogFull(dsize, bit),
         bitmap' \in {bitmap, bitmap \cup {bit}}, pc' = "data",
         UNCHANGED <<header, slot, dsize, bit, attempt, committed, faults>>
  PROVE  WearInv'
<1>1. /\ dsize \in DataSizes /\ bit \in SlotIdx /\ bit \in Nat /\ AreaSize \in Nat
      /\ BitmapSize(dsize) \in Nat
  BY LayoutFits, AreaAssumption DEF WearInv, TypeOK, SlotIdx
<1>2. TypeOK'
  BY <1>1 DEF WearInv, TypeOK
<1>3. bit + 1 \in 0 .. FDCM_BYTE_BITS * BitmapSize(dsize)
  BY <1>1 DEF LogFull, UsedArePrefix, FDCM_BYTE_BITS
<1>4. bitmap' = 0 .. bit - 1 \/ bitmap' = 0 .. (bit + 1) - 1
  <2>1. (0 .. bit - 1) \cup {bit} = 0 .. (bit + 1) - 1
    BY <1>1
  <2>2. QED
    BY <2>1 DEF UsedArePrefix
<1>5. \E n \in 0 .. FDCM_BYTE_BITS * BitmapSize(header') : bitmap' = 0 .. n - 1
  <2>1. header' = dsize /\ bit \in 0 .. FDCM_BYTE_BITS * BitmapSize(dsize)
    BY DEF UsedArePrefix
  <2>2. QED
    BY <1>3, <1>4, <2>1
<1>6. QED
  BY <1>2, <1>5 DEF WearInv, UsedArePrefix, WearProgress, EraseOnlyWhenUsedUp

LEMMA MarkFirstWear == WearInv /\ MarkFirst => WearInv'
<1> SUFFICES ASSUME WearInv, MarkFirst PROVE WearInv'
  OBVIOUS
<1>1. dsize \in DataSizes /\ bit = 0 /\ header = dsize /\ bitmap = {}
  BY DEF WearInv, TypeOK, WearProgress, MarkFirst
<1>2. ~LogFull(dsize, 0) /\ BitmapSize(dsize) \in Nat
  BY <1>1, LayoutFits DEF LogFull, FDCM_BYTE_BITS
<1>3. UsedArePrefix(dsize, 0)
  BY <1>1, <1>2 DEF UsedArePrefix, FDCM_BYTE_BITS
<1>4. QED
  BY <1>1, <1>2, <1>3, MarkedWear DEF MarkFirst

LEMMA NextWear == WearInv /\ [Next]_vars => WearInv'
<1> SUFFICES ASSUME WearInv, [Next]_vars PROVE WearInv'
  OBVIOUS
<1>1. ASSUME NEW ds \in DataSizes, WriteBegin(ds) PROVE WearInv'
  BY <1>1, WriteBeginWear
<1>2. CASE Erase
  BY <1>2, EraseWear
<1>3. CASE WriteHeader
  BY <1>3, WriteHeaderWear
<1>4. CASE MarkFirst
  BY <1>4, MarkFirstWear
<1>5. CASE Mark
  <2>1. header = dsize /\ UsedArePrefix(dsize, bit) /\ ~LogFull(dsize, bit)
    BY <1>5 DEF WearInv, WearProgress, Mark
  <2>2. QED
    BY <1>5, <2>1, MarkedWear DEF Mark
<1>6. CASE WriteRecord
  <2>1. slot' \in [SlotIdx -> Nat \cup {Erased, Torn}] /\ attempt \in Nat /\ committed' \in 0 .. attempt'
    BY <1>6, BoundsAssumption DEF WearInv, TypeOK, WriteRecord, Program
  <2>2. TypeOK'
    BY <1>6, <2>1 DEF WearInv, TypeOK, WriteRecord
  <2>3. QED
    BY <1>6, <2>2 DEF WearInv, WearProgress, UsedArePrefix, WriteRecord, EraseOnlyWhenUsedUp
<1>7. CASE Interrupt
  <2>1. slot' \in [SlotIdx -> Nat \cup {Erased, Torn}] /\ faults' \in 0 .. MaxFaults
    <3>1. /\ slot \in [SlotIdx -> Nat \cup {Erased, Torn}] /\ attempt \in Nat
          /\ faults \in 0 .. MaxFaults /\ MaxFaults \in Nat
      BY BoundsAssumption DEF WearInv, TypeOK
    <3>2. \A v \in {attempt, Torn} : Program(bit, v) \in [SlotIdx -> Nat \cup {Erased, Torn}]
      BY <3>1 DEF Program
    <3>3. slot' \in {slot, Program(bit, attempt), Program(bit, Torn)}
      BY <1>7 DEF Interrupt, flash
    <3>4. QED
      BY <1>7, <3>1, <3>2, <3>3 DEF Interrupt
  <2>2. header' \in {header, Torn} /\ bitmap' = bitmap /\ pc' = "idle"
    BY <1>7 DEF Interrupt, flash
  <2>3. TypeOK'
    BY <1>7, <2>1, <2>2 DEF WearInv, TypeOK, Interrupt
  <2>4. QED
    BY <1>7, <2>2, <2>3, BadHeader
       DEF WearInv, WearProgress, UsedArePrefix, Interrupt, EraseOnlyWhenUsedUp
<1>8. CASE UNCHANGED vars
  BY <1>8 DEF vars, WearInv, TypeOK, WearProgress, UsedArePrefix, EraseOnlyWhenUsedUp,
              HeaderValid, LogFull
<1>9. QED
  BY <1>1, <1>2, <1>3, <1>4, <1>5, <1>6, <1>7, <1>8 DEF Next

\* An area with a valid header is erased only when every slot that fits and has
\* a bitmap bit is used: for both limits, and although fdcm_write ignores
\* whether a bitmap byte was programmed (fdcm.c:262-273).
THEOREM ErasedOnlyWhenUsedUp == Spec => []EraseOnlyWhenUsedUp
<1>1. WearInv => EraseOnlyWhenUsedUp
  BY DEF WearInv
<1>2. QED
  BY <1>1, InitWear, NextWear, PTL DEF Spec

\* Every variable keeps its type: indices stay inside the area, and no record
\* is reported as written that was not handed to fdcm_write.
THEOREM TypeCorrect == Spec => []TypeOK
<1>1. WearInv => TypeOK
  BY DEF WearInv
<1>2. QED
  BY <1>1, InitWear, NextWear, PTL DEF Spec

-----------------------------------------------------------------------------
(* The log implements the register.                                        *)

\* What a reader sees in an empty log, and in one that ends in slot `bit'.
SeenByReader ==
  header \in DataSizes =>
    /\ LogShape(header, 0) => Current = NoRecord
    /\ LogShape(header, bit + 1) =>
         Current = IF slot[bit] \in Nat THEN slot[bit] ELSE NoRecord

LEMMA ReaderSeesLastSlot == LogInv => SeenByReader
<1> SUFFICES ASSUME LogInv, header \in DataSizes
             PROVE  /\ LogShape(header, 0) => Current = NoRecord
                    /\ LogShape(header, bit + 1) =>
                         Current = IF slot[bit] \in Nat THEN slot[bit] ELSE NoRecord
  BY DEF SeenByReader
<1>1. HeaderValid(header)
  BY HeaderValidIff
<1>2. ASSUME LogShape(header, 0) PROVE Current = NoRecord
  BY <1>1, <1>2, LogCount DEF Current, Read
<1>3. ASSUME LogShape(header, bit + 1)
      PROVE  Current = IF slot[bit] \in Nat THEN slot[bit] ELSE NoRecord
  <2>1. bit \in Nat /\ (bit + 1) - 1 = bit /\ bit + 1 > 0
    BY AreaAssumption DEF LogInv, TypeOK, SlotIdx
  <2>2. BitCount(bitmap, BitmapSize(header)) = bit + 1
    BY <1>3, LogCount
  <2>3. QED
    BY <1>1, <2>1, <2>2 DEF Current, Read
<1>4. QED
  BY <1>2, <1>3

LEMMA RefinedStep ==
  ASSUME LogInv, LogInv', SeenByReader, SeenByReader', [Next]_vars
  PROVE  [Register!RegNext]_(Register!regVars)
<1> DEFINE pend == IF pc = "idle" THEN NoRecord ELSE attempt
<1>0. /\ attempt \in Nat /\ attempt' \in Nat /\ committed \in Nat
      /\ NoRecord \notin Nat
      /\ dsize \in DataSizes /\ dsize' \in DataSizes
      /\ slot' \in [SlotIdx -> Nat \cup {Erased, Torn}]
  BY BoundsAssumption, SentinelAssumption DEF LogInv, TypeOK
<1>d. Register!DropOld \/ Register!AbortWrite \/ Register!CompleteWrite
        \/ (\E v \in 1 .. MaxWrites : Register!BeginWrite(v))
        \/ (Current' = Current /\ pend' = pend)
      => [Register!RegNext]_(Register!regVars)
  BY DEF Register!RegNext, Register!regVars
<1>1. ASSUME NEW ds \in DataSizes, WriteBegin(ds) PROVE [Register!RegNext]_(Register!regVars)
  <2>1. Current' = Current
    BY <1>1 DEF WriteBegin, flash, Current, Read, HeaderValid
  <2>2. pc = "idle" /\ pc' # "idle" /\ attempt' \in 1 .. MaxWrites
    BY <1>1, BoundsAssumption DEF WriteBegin, LogInv, TypeOK
  <2>3. Register!BeginWrite(attempt')
    BY <2>1, <2>2 DEF Register!BeginWrite
  <2>4. QED
    BY <1>d, <2>2, <2>3
<1>2. CASE Erase
  <2>1. Current' = NoRecord /\ UNCHANGED attempt /\ pc # "idle" /\ pc' # "idle"
    BY <1>2, BadHeader DEF Erase, Current
  <2>2. Register!DropOld
    BY <1>0, <2>1 DEF Register!DropOld
  <2>3. QED
    BY <1>d, <2>2
<1>3. CASE WriteHeader
  <2>1. Current = NoRecord
    BY <1>3, BadHeader DEF LogInv, WriteProgress, WriteHeader, Current
  <2>2. header' = dsize' /\ LogShape(dsize, 0)' /\ UNCHANGED attempt /\ pc # "idle" /\ pc' # "idle"
    BY <1>3 DEF LogInv, WriteProgress, WriteHeader
  <2>3. Current' = NoRecord
    BY <1>0, <2>2 DEF SeenByReader
  <2>4. QED
    BY <1>d, <2>1, <2>2, <2>3
<1>4. CASE MarkFirst \/ Mark
  <2>1. pc' = "data" /\ pc # "idle" /\ UNCHANGED attempt
    BY <1>4 DEF MarkFirst, Mark
  <2>2. Current' = NoRecord
    BY <1>0, <2>1, SentinelAssumption DEF LogInv, WriteProgress, SeenByReader
  <2>3. Register!DropOld
    BY <1>0, <2>1, <2>2 DEF Register!DropOld
  <2>4. QED
    BY <1>d, <2>3
<1>5. CASE WriteRecord
  <2>1. /\ pc = "data" /\ pc' = "idle" /\ UNCHANGED <<attempt, bit>> /\ committed' = attempt'
        /\ committed' > 0 /\ bit \in Nat
    BY <1>5, AreaAssumption, BoundsAssumption
       DEF WriteRecord, LogInv, WriteProgress, TypeOK, SlotIdx
  <2>2. header' = dsize' /\ LogShape(dsize, bit + 1)' /\ slot'[bit'] = attempt'
    BY <2>1 DEF LogInv, WriteResult
  <2>3. Current' = attempt
    BY <1>0, <2>1, <2>2 DEF SeenByReader
  <2>4. Register!CompleteWrite
    BY <1>0, <2>1, <2>3 DEF Register!CompleteWrite
  <2>5. QED
    BY <1>d, <2>4
<1>6. CASE Interrupt
  <2>1. pc # "idle" /\ pc' = "idle" /\ UNCHANGED <<attempt, dsize, bit>>
    BY <1>6 DEF Interrupt
  <2>2. Current' \in {Current, attempt, NoRecord}
    <3>1. CASE header' \in {header, Torn} /\ UNCHANGED <<bitmap, slot>>
      BY <3>1, BadHeader DEF Current, Read, HeaderValid
    <3>2. CASE pc = "data" /\ slot' \in {Program(bit, attempt), Program(bit, Torn)}
               /\ UNCHANGED <<header, bitmap>>
      <4>1. /\ header' = dsize' /\ LogShape(dsize, bit + 1)' /\ bit \in Nat
            /\ slot'[bit] \in {attempt, Torn}
        <5>1. PICK v \in Nat \cup {Torn} : slot' = Program(bit, v) /\ v \in {attempt, Torn}
          BY <1>0, <3>2
        <5>2. QED
          BY <2>1, <3>2, <5>1, ProgrammedShape, AreaAssumption
             DEF LogInv, TypeOK, WriteProgress, SlotIdx
      <4>2. QED
        BY <1>0, <2>1, <4>1, SentinelAssumption DEF SeenByReader
    <3>3. QED
      BY <1>6, <3>1, <3>2 DEF Interrupt, flash
  <2>3. Register!AbortWrite
    BY <1>0, <2>1, <2>2 DEF Register!AbortWrite
  <2>4. QED
    BY <1>d, <2>3
<1>7. CASE UNCHANGED vars
  BY <1>7, <1>d DEF vars, Current, Read, HeaderValid
<1>8. QED
  BY <1>1, <1>2, <1>3, <1>4, <1>5, <1>6, <1>7 DEF Next

\* fdcm.c implements a register whose writes are atomic to everyone who learns
\* their result, and which an interrupted write can only empty.
THEOREM LogImplementsRegister ==
  ASSUME ~MarkMayFail
  PROVE  Spec => ImplementsRegister
<1>1. Init => Register!RegInit
  <2> SUFFICES ASSUME Init PROVE Register!RegInit
    OBVIOUS
  <2>1. header \notin DataSizes
    BY BadHeader DEF Init
  <2>2. QED
    BY <2>1 DEF Init, Current, Register!RegInit
<1>2. LogInv /\ LogInv' /\ SeenByReader /\ SeenByReader' /\ [Next]_vars
        => [Register!RegNext]_(Register!regVars)
  BY RefinedStep
<1>3. QED
  BY <1>1, <1>2, LogIsSound, ReaderSeesLastSlot, PTL DEF Spec, ImplementsRegister, Register!RegSpec
=============================================================================
