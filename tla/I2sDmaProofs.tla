---------------------------- MODULE I2sDmaProofs -----------------------------
(***************************************************************************)
(* Proofs about I2sDma, for calls of any length.                           *)
(***************************************************************************)
EXTENDS I2sDma, TLAPS
-----------------------------------------------------------------------------
\* A length, or none, is a number.
LEMMA LengthIsNat == \A x \in Lengths \cup {0} : x \in Nat
BY LengthAssumption

\* The length is set for both, and nothing else yet.
LEMMA OpenLengthKeeps ==
  ASSUME I2sInv, ~hung, NEW d \in Dir, NEW s \in Lengths, OpenLength(d, s)
  PROVE  I2sInv'
<1> USE DEF I2sInv, Dir, Half, THRESHOLD, NoDir
<1>1. I2sTypeOK'
  BY PointerAssumption, LengthAssumption, BoundAssumption
     DEF I2sTypeOK, Label, InUse, Inside, DmaOff, WakeUps, OpenLength, Goto, Set, ring, counts, job
<1>2. InUse'
  BY PointerAssumption
     DEF I2sTypeOK, Label, InUse, Inside, DmaOff, OpenLength, Goto, Set, ring, counts, job
<1>3. DmaOff'
  BY PointerAssumption, LengthAssumption
     DEF I2sTypeOK, Label, InUse, Inside, DmaOff, WakeUps, Locked, OneLength, OpenLength, Goto, Set, ring, counts, job
<1>4. WakeUps'
  BY PointerAssumption
     DEF I2sTypeOK, Label, InUse, Inside, DmaOff, WakeUps, OpenLength, Goto, Set, ring, counts, job
<1>5. Locked'
  BY PointerAssumption
     DEF I2sTypeOK, Label, Locked, OpenLength, Goto, Set, ring, counts, job
<1>6. OneLength'
  BY PointerAssumption, LengthAssumption
     DEF I2sTypeOK, Label, InUse, Inside, DmaOff, WakeUps, OneLength, OpenLength, Goto, Set, ring, counts, job
<1>7. Phase'
  BY PointerAssumption, LengthAssumption
     DEF I2sTypeOK, Label, InUse, Inside, DmaOff, WakeUps, OneLength, Phase, Due, Begins, OpenLength, Goto, Set, ring, counts, job
<1>8. WithinBuffer'
  BY PointerAssumption, LengthAssumption
     DEF I2sTypeOK, Label, InUse, Inside, DmaOff, WakeUps, OneLength, WithinBuffer, OpenLength, Goto, Set, ring, counts, job
<1>9. HangsOnlyWhenLate'
  BY DEF I2sTypeOK, Label, Locked, HangsOnlyWhenLate, OpenLength, Goto, Set, ring, counts, job
<1>10. QED
  BY <1>1, <1>2, <1>3, <1>4, <1>5, <1>6, <1>7, <1>8, <1>9

\* A direction is opened when its DMA is off.
LEMMA OpenKeeps ==
  ASSUME I2sInv, ~hung, NEW d \in Dir, Open(d)
  PROVE  I2sInv'
<1> USE DEF I2sInv, Dir, Half, THRESHOLD, NoDir
<1>1. I2sTypeOK'
  BY PointerAssumption, LengthAssumption, BoundAssumption
     DEF I2sTypeOK, Label, InUse, Inside, DmaOff, WakeUps, Open, Sized, Clear, Goto, Set, job
<1>2. InUse'
  BY PointerAssumption
     DEF I2sTypeOK, Label, InUse, Inside, DmaOff, Open, Sized, Clear, Goto, Set, job
<1>3. DmaOff'
  BY PointerAssumption, LengthAssumption
     DEF I2sTypeOK, Label, InUse, Inside, DmaOff, WakeUps, Locked, OneLength, Open, Sized, Clear, Goto, Set, job
<1>4. WakeUps'
  BY PointerAssumption
     DEF I2sTypeOK, Label, InUse, Inside, DmaOff, WakeUps, Open, Sized, Clear, Goto, Set, job
<1>5. Locked'
  BY PointerAssumption
     DEF I2sTypeOK, Label, Locked, Open, Sized, Clear, Goto, Set, job
<1>6. OneLength'
  BY PointerAssumption, LengthAssumption
     DEF I2sTypeOK, Label, InUse, Inside, DmaOff, WakeUps, OneLength, Open, Sized, Clear, Goto, Set, job
<1>7. Phase'
  BY PointerAssumption, LengthAssumption
     DEF I2sTypeOK, Label, InUse, Inside, DmaOff, WakeUps, OneLength, Phase, Due, Begins, Open, Sized, Clear, Goto, Set, job
<1>8. WithinBuffer'
  BY PointerAssumption, LengthAssumption
     DEF I2sTypeOK, Label, InUse, Inside, DmaOff, WakeUps, OneLength, WithinBuffer, Open, Sized, Clear, Goto, Set, job
<1>9. HangsOnlyWhenLate'
  BY DEF I2sTypeOK, Label, Locked, HangsOnlyWhenLate, Open, Sized, Clear, Goto, Set, job
<1>10. QED
  BY <1>1, <1>2, <1>3, <1>4, <1>5, <1>6, <1>7, <1>8, <1>9

\* It stays marked as open, without a DMA.
LEMMA OpenFailsKeeps ==
  ASSUME I2sInv, ~hung, NEW d \in Dir, OpenFails(d)
  PROVE  I2sInv'
<1> USE DEF I2sInv, Dir, Half, THRESHOLD, NoDir
<1>1. I2sTypeOK'
  BY PointerAssumption, LengthAssumption, BoundAssumption
     DEF I2sTypeOK, Label, InUse, Inside, DmaOff, WakeUps, OpenFails, Sized, Clear, Goto, Set, job
<1>2. InUse'
  BY PointerAssumption
     DEF I2sTypeOK, Label, InUse, Inside, DmaOff, OpenFails, Sized, Clear, Goto, Set, job
<1>3. DmaOff'
  BY PointerAssumption, LengthAssumption
     DEF I2sTypeOK, Label, InUse, Inside, DmaOff, WakeUps, Locked, OneLength, OpenFails, Sized, Clear, Goto, Set, job
<1>4. WakeUps'
  BY PointerAssumption
     DEF I2sTypeOK, Label, InUse, Inside, DmaOff, WakeUps, OpenFails, Sized, Clear, Goto, Set, job
<1>5. Locked'
  BY PointerAssumption
     DEF I2sTypeOK, Label, Locked, OpenFails, Sized, Clear, Goto, Set, job
<1>6. OneLength'
  BY PointerAssumption, LengthAssumption
     DEF I2sTypeOK, Label, InUse, Inside, DmaOff, WakeUps, OneLength, OpenFails, Sized, Clear, Goto, Set, job
<1>7. Phase'
  BY PointerAssumption, LengthAssumption
     DEF I2sTypeOK, Label, InUse, Inside, DmaOff, WakeUps, OneLength, Phase, Due, Begins, OpenFails, Sized, Clear, Goto, Set, job
<1>8. WithinBuffer'
  BY PointerAssumption, LengthAssumption
     DEF I2sTypeOK, Label, InUse, Inside, DmaOff, WakeUps, OneLength, WithinBuffer, OpenFails, Sized, Clear, Goto, Set, job
<1>9. HangsOnlyWhenLate'
  BY DEF I2sTypeOK, Label, Locked, HangsOnlyWhenLate, OpenFails, Sized, Clear, Goto, Set, job
<1>10. QED
  BY <1>1, <1>2, <1>3, <1>4, <1>5, <1>6, <1>7, <1>8, <1>9

\* The length has changed since it was set.
LEMMA OpenSmashesKeeps ==
  ASSUME I2sInv, ~hung, NEW d \in Dir, OpenSmashes(d)
  PROVE  I2sInv'
<1> USE DEF I2sInv, Dir, Half, THRESHOLD, NoDir
<1>1. I2sTypeOK'
  BY PointerAssumption, LengthAssumption, BoundAssumption
     DEF I2sTypeOK, Label, InUse, Inside, DmaOff, WakeUps, OpenSmashes, Goto, Set, device, lengths, ring, counts, job
<1>2. InUse'
  BY PointerAssumption
     DEF I2sTypeOK, Label, InUse, Inside, DmaOff, OpenSmashes, Goto, Set, device, lengths, ring, counts, job
<1>3. DmaOff'
  BY PointerAssumption, LengthAssumption
     DEF I2sTypeOK, Label, InUse, Inside, DmaOff, WakeUps, Locked, OneLength, OpenSmashes, Goto, Set, device, lengths, ring, counts, job
<1>4. WakeUps'
  BY PointerAssumption
     DEF I2sTypeOK, Label, InUse, Inside, DmaOff, WakeUps, OpenSmashes, Goto, Set, device, lengths, ring, counts, job
<1>5. Locked'
  BY PointerAssumption
     DEF I2sTypeOK, Label, Locked, OpenSmashes, Goto, Set, device, lengths, ring, counts, job
<1>6. OneLength'
  BY PointerAssumption, LengthAssumption
     DEF I2sTypeOK, Label, InUse, Inside, DmaOff, WakeUps, OneLength, OpenSmashes, Goto, Set, device, lengths, ring, counts, job
<1>7. Phase'
  BY PointerAssumption, LengthAssumption
     DEF I2sTypeOK, Label, InUse, Inside, DmaOff, WakeUps, OneLength, Phase, Due, Begins, OpenSmashes, Goto, Set, device, lengths, ring, counts, job
<1>8. WithinBuffer'
  BY PointerAssumption, LengthAssumption
     DEF I2sTypeOK, Label, InUse, Inside, DmaOff, WakeUps, OneLength, WithinBuffer, OpenSmashes, Goto, Set, device, lengths, ring, counts, job
<1>9. HangsOnlyWhenLate'
  BY DEF I2sTypeOK, Label, Locked, HangsOnlyWhenLate, OpenSmashes, Goto, Set, device, lengths, ring, counts, job
<1>10. QED
  BY <1>1, <1>2, <1>3, <1>4, <1>5, <1>6, <1>7, <1>8, <1>9

\* Its task takes the lock.
LEMMA CloseLockKeeps ==
  ASSUME I2sInv, ~hung, NEW d \in Dir, CloseLock(d)
  PROVE  I2sInv'
<1> USE DEF I2sInv, Dir, Half, THRESHOLD, NoDir
<1>1. I2sTypeOK'
  BY PointerAssumption, LengthAssumption, BoundAssumption
     DEF I2sTypeOK, Label, InUse, Inside, DmaOff, WakeUps, CloseLock, Goto, Set, lengths, ring, counts, job
<1>2. InUse'
  BY PointerAssumption
     DEF I2sTypeOK, Label, InUse, Inside, DmaOff, CloseLock, Goto, Set, lengths, ring, counts, job
<1>3. DmaOff'
  BY PointerAssumption, LengthAssumption
     DEF I2sTypeOK, Label, InUse, Inside, DmaOff, WakeUps, Locked, OneLength, CloseLock, Goto, Set, lengths, ring, counts, job
<1>4. WakeUps'
  BY PointerAssumption
     DEF I2sTypeOK, Label, InUse, Inside, DmaOff, WakeUps, CloseLock, Goto, Set, lengths, ring, counts, job
<1>5. Locked'
  BY PointerAssumption
     DEF I2sTypeOK, Label, Locked, CloseLock, Goto, Set, lengths, ring, counts, job
<1>6. OneLength'
  BY PointerAssumption, LengthAssumption
     DEF I2sTypeOK, Label, InUse, Inside, DmaOff, WakeUps, OneLength, CloseLock, Goto, Set, lengths, ring, counts, job
<1>7. Phase'
  BY PointerAssumption, LengthAssumption
     DEF I2sTypeOK, Label, InUse, Inside, DmaOff, WakeUps, OneLength, Phase, Due, Begins, CloseLock, Goto, Set, lengths, ring, counts, job
<1>8. WithinBuffer'
  BY PointerAssumption, LengthAssumption
     DEF I2sTypeOK, Label, InUse, Inside, DmaOff, WakeUps, OneLength, WithinBuffer, CloseLock, Goto, Set, lengths, ring, counts, job
<1>9. HangsOnlyWhenLate'
  BY DEF I2sTypeOK, Label, Locked, HangsOnlyWhenLate, CloseLock, Goto, Set, lengths, ring, counts, job
<1>10. QED
  BY <1>1, <1>2, <1>3, <1>4, <1>5, <1>6, <1>7, <1>8, <1>9

\* The DMA is off, the pointer and the counts are reset.
LEMMA CloseStopKeeps ==
  ASSUME I2sInv, ~hung, NEW d \in Dir, CloseStop(d)
  PROVE  I2sInv'
<1> USE DEF I2sInv, Dir, Half, THRESHOLD, NoDir
<1>1. I2sTypeOK'
  BY PointerAssumption, LengthAssumption, BoundAssumption
     DEF I2sTypeOK, Label, InUse, Inside, DmaOff, WakeUps, CloseStop, Clear, Goto, Set, job
<1>2. InUse'
  BY PointerAssumption
     DEF I2sTypeOK, Label, InUse, Inside, DmaOff, CloseStop, Clear, Goto, Set, job
<1>3. DmaOff'
  BY PointerAssumption, LengthAssumption
     DEF I2sTypeOK, Label, InUse, Inside, DmaOff, WakeUps, Locked, OneLength, CloseStop, Clear, Goto, Set, job
<1>4. WakeUps'
  BY PointerAssumption
     DEF I2sTypeOK, Label, InUse, Inside, DmaOff, WakeUps, CloseStop, Clear, Goto, Set, job
<1>5. Locked'
  BY PointerAssumption
     DEF I2sTypeOK, Label, Locked, CloseStop, Clear, Goto, Set, job
<1>6. OneLength'
  BY PointerAssumption, LengthAssumption
     DEF I2sTypeOK, Label, InUse, Inside, DmaOff, WakeUps, OneLength, CloseStop, Clear, Goto, Set, job
<1>7. Phase'
  BY PointerAssumption, LengthAssumption
     DEF I2sTypeOK, Label, InUse, Inside, DmaOff, WakeUps, OneLength, Phase, Due, Begins, CloseStop, Clear, Goto, Set, job
<1>8. WithinBuffer'
  BY PointerAssumption, LengthAssumption
     DEF I2sTypeOK, Label, InUse, Inside, DmaOff, WakeUps, OneLength, WithinBuffer, CloseStop, Clear, Goto, Set, job
<1>9. HangsOnlyWhenLate'
  BY DEF I2sTypeOK, Label, Locked, HangsOnlyWhenLate, CloseStop, Clear, Goto, Set, job
<1>10. QED
  BY <1>1, <1>2, <1>3, <1>4, <1>5, <1>6, <1>7, <1>8, <1>9

\* A call has at least one half to go.
LEMMA CallKeeps ==
  ASSUME I2sInv, ~hung, NEW d \in Dir, NEW n \in 1 .. MaxBlocks, Call(d, n)
  PROVE  I2sInv'
<1> USE DEF I2sInv, Dir, Half, THRESHOLD, NoDir
<1>1. I2sTypeOK'
  BY PointerAssumption, LengthAssumption, BoundAssumption
     DEF I2sTypeOK, Label, InUse, Inside, DmaOff, WakeUps, Call, Goto, Set, device, lengths, ring, counts
<1>2. InUse'
  BY PointerAssumption
     DEF I2sTypeOK, Label, InUse, Inside, DmaOff, Call, Goto, Set, device, lengths, ring, counts
<1>3. DmaOff'
  BY PointerAssumption, LengthAssumption
     DEF I2sTypeOK, Label, InUse, Inside, DmaOff, WakeUps, Locked, OneLength, Call, Goto, Set, device, lengths, ring, counts
<1>4. WakeUps'
  BY PointerAssumption
     DEF I2sTypeOK, Label, InUse, Inside, DmaOff, WakeUps, Call, Goto, Set, device, lengths, ring, counts
<1>5. Locked'
  BY PointerAssumption
     DEF I2sTypeOK, Label, Locked, Call, Goto, Set, device, lengths, ring, counts
<1>6. OneLength'
  BY PointerAssumption, LengthAssumption
     DEF I2sTypeOK, Label, InUse, Inside, DmaOff, WakeUps, OneLength, Call, Goto, Set, device, lengths, ring, counts
<1>7. Phase'
  BY PointerAssumption, LengthAssumption
     DEF I2sTypeOK, Label, InUse, Inside, DmaOff, WakeUps, OneLength, Phase, Due, Begins, Call, Goto, Set, device, lengths, ring, counts
<1>8. WithinBuffer'
  BY PointerAssumption, LengthAssumption
     DEF I2sTypeOK, Label, InUse, Inside, DmaOff, WakeUps, OneLength, WithinBuffer, Call, Goto, Set, device, lengths, ring, counts
<1>9. HangsOnlyWhenLate'
  BY DEF I2sTypeOK, Label, Locked, HangsOnlyWhenLate, Call, Goto, Set, device, lengths, ring, counts
<1>10. QED
  BY <1>1, <1>2, <1>3, <1>4, <1>5, <1>6, <1>7, <1>8, <1>9

\* Before the start both halves are filled.
LEMMA FillKeeps ==
  ASSUME I2sInv, ~hung, Fill
  PROVE  I2sInv'
<1> USE DEF I2sInv, Dir, Half, THRESHOLD, NoDir
<1>1. I2sTypeOK'
  <2>1. size["play"] - 1 \in 0 .. MaxBlocks
    BY BoundAssumption DEF I2sTypeOK, Label, InUse, Fill
  <2>2. size' \in [Dir -> 0 .. MaxBlocks]
    BY <2>1 DEF I2sTypeOK, Label, Fill, Set
  <2>3. Wrap("play", First("play")) \in Nat
    <3>0. /\ unit["play"] \in Lengths \cup {0} /\ bufLength \in Lengths \cup {0}
          /\ ptr["play"] \in Nat \cup {Null}
      BY DEF I2sTypeOK, Dir
    <3>1. unit["play"] \in Nat /\ bufLength \in Nat /\ First("play") \in Nat
      BY <3>0, LengthIsNat DEF First
    <3>2. QED
      BY <3>1 DEF Wrap
  <2>4. ptr' \in [Dir -> Nat \cup {Null, Foreign}]
    BY <2>3 DEF I2sTypeOK, Fill, Set
  <2>5. pc' \in [Dir -> Label] /\ unit' \in [Dir -> Lengths \cup {0}]
    BY DEF I2sTypeOK, Label, Fill, Again, Goto, Set
  <2>6. ptr'["play"] # Foreign
    BY <2>3, PointerAssumption DEF I2sTypeOK, Fill, Set
  <2>7. QED
    BY <2>2, <2>5, <2>6, <2>4 DEF I2sTypeOK, Fill, device, lengths, counts
<1>2. InUse'
  BY PointerAssumption
     DEF I2sTypeOK, Label, InUse, Inside, DmaOff, Fill, Wrap, PastEnd, First, Again, Goto, Set, device, lengths, counts
<1>3. DmaOff'
  BY PointerAssumption, LengthAssumption
     DEF I2sTypeOK, Label, InUse, Inside, DmaOff, WakeUps, Locked, OneLength, Fill, Wrap, PastEnd, First, Again, Goto, Set, device, lengths, counts
<1>4. WakeUps'
  BY PointerAssumption
     DEF I2sTypeOK, Label, InUse, Inside, DmaOff, WakeUps, Fill, Wrap, PastEnd, First, Again, Goto, Set, device, lengths, counts
<1>5. Locked'
  BY PointerAssumption
     DEF I2sTypeOK, Label, Locked, Fill, Wrap, PastEnd, First, Again, Goto, Set, device, lengths, counts
<1>6. OneLength'
  BY PointerAssumption, LengthAssumption
     DEF I2sTypeOK, Label, InUse, Inside, DmaOff, WakeUps, OneLength, Fill, Wrap, PastEnd, First, Again, Goto, Set, device, lengths, counts
<1>7. Phase'
  BY PointerAssumption, LengthAssumption
     DEF I2sTypeOK, Label, InUse, Inside, DmaOff, WakeUps, OneLength, Phase, Due, Begins, Fill, Wrap, PastEnd, First, Again, Goto, Set, device, lengths, counts
<1>8. WithinBuffer'
  BY PointerAssumption, LengthAssumption
     DEF I2sTypeOK, Label, InUse, Inside, DmaOff, WakeUps, OneLength, WithinBuffer, Fill, Wrap, PastEnd, First, Again, Goto, Set, device, lengths, counts
<1>9. HangsOnlyWhenLate'
  BY DEF I2sTypeOK, Label, Locked, HangsOnlyWhenLate, Fill, Wrap, PastEnd, First, Again, Goto, Set, device, lengths, counts
<1>10. QED
  BY <1>1, <1>2, <1>3, <1>4, <1>5, <1>6, <1>7, <1>8, <1>9

\* The first half is read first.
LEMMA RecordKeeps ==
  ASSUME I2sInv, ~hung, Record
  PROVE  I2sInv'
<1> USE DEF I2sInv, Dir, Half, THRESHOLD, NoDir
<1>1. I2sTypeOK'
  BY PointerAssumption, LengthAssumption, BoundAssumption
     DEF I2sTypeOK, Label, InUse, Inside, DmaOff, WakeUps, Record, First, Goto, Set, device, lengths, counts, job
<1>2. InUse'
  BY PointerAssumption
     DEF I2sTypeOK, Label, InUse, Inside, DmaOff, Record, First, Goto, Set, device, lengths, counts, job
<1>3. DmaOff'
  BY PointerAssumption, LengthAssumption
     DEF I2sTypeOK, Label, InUse, Inside, DmaOff, WakeUps, Locked, OneLength, Record, First, Goto, Set, device, lengths, counts, job
<1>4. WakeUps'
  BY PointerAssumption
     DEF I2sTypeOK, Label, InUse, Inside, DmaOff, WakeUps, Record, First, Goto, Set, device, lengths, counts, job
<1>5. Locked'
  BY PointerAssumption
     DEF I2sTypeOK, Label, Locked, Record, First, Goto, Set, device, lengths, counts, job
<1>6. OneLength'
  BY PointerAssumption, LengthAssumption
     DEF I2sTypeOK, Label, InUse, Inside, DmaOff, WakeUps, OneLength, Record, First, Goto, Set, device, lengths, counts, job
<1>7. Phase'
  BY PointerAssumption, LengthAssumption
     DEF I2sTypeOK, Label, InUse, Inside, DmaOff, WakeUps, OneLength, Phase, Due, Begins, Record, First, Goto, Set, device, lengths, counts, job
<1>8. WithinBuffer'
  BY PointerAssumption, LengthAssumption
     DEF I2sTypeOK, Label, InUse, Inside, DmaOff, WakeUps, OneLength, WithinBuffer, Record, First, Goto, Set, device, lengths, counts, job
<1>9. HangsOnlyWhenLate'
  BY DEF I2sTypeOK, Label, Locked, HangsOnlyWhenLate, Record, First, Goto, Set, device, lengths, counts, job
<1>10. QED
  BY <1>1, <1>2, <1>3, <1>4, <1>5, <1>6, <1>7, <1>8, <1>9

\* The DMA starts at the first half, and so does the task.
LEMMA TriggerKeeps ==
  ASSUME I2sInv, ~hung, NEW d \in Dir, Trigger(d)
  PROVE  I2sInv'
<1> USE DEF I2sInv, Dir, Half, THRESHOLD, NoDir
<1>1. I2sTypeOK'
  BY PointerAssumption, LengthAssumption, BoundAssumption
     DEF I2sTypeOK, Label, InUse, Inside, DmaOff, WakeUps, Trigger, Goto, Set, lengths, counts, job
<1>2. InUse'
  BY PointerAssumption
     DEF I2sTypeOK, Label, InUse, Inside, DmaOff, Trigger, Goto, Set, lengths, counts, job
<1>3. DmaOff'
  BY PointerAssumption, LengthAssumption
     DEF I2sTypeOK, Label, InUse, Inside, DmaOff, WakeUps, Locked, OneLength, Trigger, Goto, Set, lengths, counts, job
<1>4. WakeUps'
  BY PointerAssumption
     DEF I2sTypeOK, Label, InUse, Inside, DmaOff, WakeUps, Trigger, Goto, Set, lengths, counts, job
<1>5. Locked'
  BY PointerAssumption
     DEF I2sTypeOK, Label, Locked, Trigger, Goto, Set, lengths, counts, job
<1>6. OneLength'
  BY PointerAssumption, LengthAssumption
     DEF I2sTypeOK, Label, InUse, Inside, DmaOff, WakeUps, OneLength, Trigger, Goto, Set, lengths, counts, job
<1>7. Phase'
  BY PointerAssumption, LengthAssumption
     DEF I2sTypeOK, Label, InUse, Inside, DmaOff, WakeUps, OneLength, Phase, Due, Begins, Trigger, Goto, Set, lengths, counts, job
<1>8. WithinBuffer'
  BY PointerAssumption, LengthAssumption
     DEF I2sTypeOK, Label, InUse, Inside, DmaOff, WakeUps, OneLength, WithinBuffer, Trigger, Goto, Set, lengths, counts, job
<1>9. HangsOnlyWhenLate'
  BY DEF I2sTypeOK, Label, Locked, HangsOnlyWhenLate, Trigger, Goto, Set, lengths, counts, job
<1>10. QED
  BY <1>1, <1>2, <1>3, <1>4, <1>5, <1>6, <1>7, <1>8, <1>9

\* Nothing can have stopped the DMA while the lock was held.
LEMMA StartedKeeps ==
  ASSUME I2sInv, ~hung, NEW d \in Dir, Started(d)
  PROVE  I2sInv'
<1> USE DEF I2sInv, Dir, Half, THRESHOLD, NoDir
<1>1. I2sTypeOK'
  BY PointerAssumption, LengthAssumption, BoundAssumption
     DEF I2sTypeOK, Label, InUse, Inside, DmaOff, WakeUps, Started, Goto, Set, lengths, ring, counts, job
<1>2. InUse'
  BY PointerAssumption
     DEF I2sTypeOK, Label, InUse, Inside, DmaOff, Started, Goto, Set, lengths, ring, counts, job
<1>3. DmaOff'
  BY PointerAssumption, LengthAssumption
     DEF I2sTypeOK, Label, InUse, Inside, DmaOff, WakeUps, Locked, OneLength, Started, Goto, Set, lengths, ring, counts, job
<1>4. WakeUps'
  BY PointerAssumption
     DEF I2sTypeOK, Label, InUse, Inside, DmaOff, WakeUps, Started, Goto, Set, lengths, ring, counts, job
<1>5. Locked'
  BY PointerAssumption
     DEF I2sTypeOK, Label, Locked, Started, Goto, Set, lengths, ring, counts, job
<1>6. OneLength'
  BY PointerAssumption, LengthAssumption
     DEF I2sTypeOK, Label, InUse, Inside, DmaOff, WakeUps, OneLength, Started, Goto, Set, lengths, ring, counts, job
<1>7. Phase'
  BY PointerAssumption, LengthAssumption
     DEF I2sTypeOK, Label, InUse, Inside, DmaOff, WakeUps, OneLength, Phase, Due, Begins, Started, Goto, Set, lengths, ring, counts, job
<1>8. WithinBuffer'
  BY PointerAssumption, LengthAssumption
     DEF I2sTypeOK, Label, InUse, Inside, DmaOff, WakeUps, OneLength, WithinBuffer, Started, Goto, Set, lengths, ring, counts, job
<1>9. HangsOnlyWhenLate'
  BY DEF I2sTypeOK, Label, Locked, HangsOnlyWhenLate, Started, Goto, Set, lengths, ring, counts, job
<1>10. QED
  BY <1>1, <1>2, <1>3, <1>4, <1>5, <1>6, <1>7, <1>8, <1>9

\* If the DMA has been stopped since, the pointer is NULL.
LEMMA RestartKeeps ==
  ASSUME I2sInv, ~hung, Restart
  PROVE  I2sInv'
<1> USE DEF I2sInv, Dir, Half, THRESHOLD, NoDir
<1>1. I2sTypeOK'
  BY PointerAssumption, LengthAssumption, BoundAssumption
     DEF I2sTypeOK, Label, InUse, Inside, DmaOff, WakeUps, Restart, Again, Goto, Set, lengths, ring, counts
<1>2. InUse'
  BY PointerAssumption
     DEF I2sTypeOK, Label, InUse, Inside, DmaOff, Restart, Again, Goto, Set, lengths, ring, counts
<1>3. DmaOff'
  BY PointerAssumption, LengthAssumption
     DEF I2sTypeOK, Label, InUse, Inside, DmaOff, WakeUps, Locked, OneLength, Restart, Again, Goto, Set, lengths, ring, counts
<1>4. WakeUps'
  BY PointerAssumption
     DEF I2sTypeOK, Label, InUse, Inside, DmaOff, WakeUps, Restart, Again, Goto, Set, lengths, ring, counts
<1>5. Locked'
  BY PointerAssumption
     DEF I2sTypeOK, Label, Locked, Restart, Again, Goto, Set, lengths, ring, counts
<1>6. OneLength'
  BY PointerAssumption, LengthAssumption
     DEF I2sTypeOK, Label, InUse, Inside, DmaOff, WakeUps, OneLength, Restart, Again, Goto, Set, lengths, ring, counts
<1>7. Phase'
  BY PointerAssumption, LengthAssumption
     DEF I2sTypeOK, Label, InUse, Inside, DmaOff, WakeUps, OneLength, Phase, Due, Begins, Restart, Again, Goto, Set, lengths, ring, counts
<1>8. WithinBuffer'
  BY PointerAssumption, LengthAssumption
     DEF I2sTypeOK, Label, InUse, Inside, DmaOff, WakeUps, OneLength, WithinBuffer, Restart, Again, Goto, Set, lengths, ring, counts
<1>9. HangsOnlyWhenLate'
  BY DEF I2sTypeOK, Label, Locked, HangsOnlyWhenLate, Restart, Again, Goto, Set, lengths, ring, counts
<1>10. QED
  BY <1>1, <1>2, <1>3, <1>4, <1>5, <1>6, <1>7, <1>8, <1>9

\* With interrupts disabled nothing has changed yet.
LEMMA CheckKeeps ==
  ASSUME I2sInv, ~hung, NEW d \in Dir, Check(d)
  PROVE  I2sInv'
<1> USE DEF I2sInv, Dir, Half, THRESHOLD, NoDir
<1>1. I2sTypeOK'
  BY PointerAssumption, LengthAssumption, BoundAssumption
     DEF I2sTypeOK, Label, InUse, Inside, DmaOff, WakeUps, Check, Goto, Set, device, lengths, ring, counts, job
<1>2. InUse'
  BY PointerAssumption
     DEF I2sTypeOK, Label, InUse, Inside, DmaOff, Check, Goto, Set, device, lengths, ring, counts, job
<1>3. DmaOff'
  BY PointerAssumption, LengthAssumption
     DEF I2sTypeOK, Label, InUse, Inside, DmaOff, WakeUps, Locked, OneLength, Check, Goto, Set, device, lengths, ring, counts, job
<1>4. WakeUps'
  BY PointerAssumption
     DEF I2sTypeOK, Label, InUse, Inside, DmaOff, WakeUps, Check, Goto, Set, device, lengths, ring, counts, job
<1>5. Locked'
  BY PointerAssumption
     DEF I2sTypeOK, Label, Locked, Check, Goto, Set, device, lengths, ring, counts, job
<1>6. OneLength'
  BY PointerAssumption, LengthAssumption
     DEF I2sTypeOK, Label, InUse, Inside, DmaOff, WakeUps, OneLength, Check, Goto, Set, device, lengths, ring, counts, job
<1>7. Phase'
  BY PointerAssumption, LengthAssumption
     DEF I2sTypeOK, Label, InUse, Inside, DmaOff, WakeUps, OneLength, Phase, Due, Begins, Check, Goto, Set, device, lengths, ring, counts, job
<1>8. WithinBuffer'
  BY PointerAssumption, LengthAssumption
     DEF I2sTypeOK, Label, InUse, Inside, DmaOff, WakeUps, OneLength, WithinBuffer, Check, Goto, Set, device, lengths, ring, counts, job
<1>9. HangsOnlyWhenLate'
  BY DEF I2sTypeOK, Label, Locked, HangsOnlyWhenLate, Check, Goto, Set, device, lengths, ring, counts, job
<1>10. QED
  BY <1>1, <1>2, <1>3, <1>4, <1>5, <1>6, <1>7, <1>8, <1>9

\* A half is copied: the pointer goes on, and with no half left the call returns.
LEMMA CopyStep ==
  ASSUME I2sTypeOK, NEW d \in Dir, NEW p \in Nat \cup {Foreign}, Copy(d, p),
         d = "play" => p # Foreign, size[d] > 0
  PROVE  /\ ptr' \in [Dir -> Nat \cup {Null, Foreign}] /\ ptr'[d] # Null
         /\ ptr'["play"] # Foreign
         /\ size' \in [Dir -> 0 .. MaxBlocks] /\ unit' \in [Dir -> Lengths \cup {0}]
         /\ pc' \in [Dir -> Label]
         /\ \A e \in Dir : e # d => /\ ptr'[e] = ptr[e] /\ pc'[e] = pc[e]
                                    /\ size'[e] = size[e] /\ unit'[e] = unit[e]
         /\ \/ pc'[d] = "smashed" /\ PastEnd(d, p)
            \/ pc'[d] = "loop" /\ size'[d] > 0 /\ unit'[d] = unit[d]
            \/ pc'[d] = "idle" /\ size'[d] = 0
         /\ p = Foreign \/ ptr'[d] = Wrap(d, p)
<1>1. PICK q \in After(d, p) : ptr' = Set(ptr, d, q)
  BY DEF Copy
<1>2. Wrap(d, p) \in Nat \/ p = Foreign
  <2>0. unit[d] \in Lengths \cup {0} /\ bufLength \in Lengths \cup {0}
    BY DEF I2sTypeOK
  <2>1. unit[d] \in Nat /\ bufLength \in Nat
    BY <2>0, LengthIsNat
  <2>2. QED
    BY <2>1 DEF Wrap
<1>3. q \in Nat \cup {Foreign} /\ (q = Foreign => d # "play") /\ (p = Foreign \/ q = Wrap(d, p))
  BY <1>2, PointerAssumption DEF After
<1>4. ptr' = [ptr EXCEPT ![d] = q] /\ q # Null /\ ptr'[d] = q
  BY <1>1, <1>3, PointerAssumption DEF I2sTypeOK, Set
<1>5. /\ size' = [size EXCEPT ![d] = size[d] - 1] /\ size[d] - 1 \in 0 .. MaxBlocks
      /\ size'[d] = size[d] - 1
  BY BoundAssumption DEF I2sTypeOK, Copy, Set
<1>6. \/ PastEnd(d, p) /\ pc' = [pc EXCEPT ![d] = "smashed"] /\ unit' = unit
      \/ size'[d] > 0 /\ pc' = [pc EXCEPT ![d] = "loop"] /\ unit' = unit
      \/ size'[d] = 0 /\ pc' = [pc EXCEPT ![d] = "idle"] /\ unit' = [unit EXCEPT ![d] = 0]
  BY <1>5 DEF Copy, Again, Goto, Set
<1>7. ptr'["play"] # Foreign /\ ptr' \in [Dir -> Nat \cup {Null, Foreign}]
  BY <1>3, <1>4 DEF I2sTypeOK, Dir
<1>8. size' \in [Dir -> 0 .. MaxBlocks]
  BY <1>5 DEF I2sTypeOK
<1>9. pc' \in [Dir -> Label] /\ unit' \in [Dir -> Lengths \cup {0}]
  BY <1>6 DEF I2sTypeOK, Label
<1>10. /\ pc'[d] = "smashed" \/ pc'[d] = "loop" \/ pc'[d] = "idle"
       /\ \/ pc'[d] = "smashed" /\ PastEnd(d, p)
          \/ pc'[d] = "loop" /\ size'[d] > 0 /\ unit'[d] = unit[d]
          \/ pc'[d] = "idle" /\ size'[d] = 0
  BY <1>6 DEF I2sTypeOK
<1>11. \A e \in Dir : e # d => /\ ptr'[e] = ptr[e] /\ pc'[e] = pc[e]
                              /\ size'[e] = size[e] /\ unit'[e] = unit[e]
  BY <1>4, <1>5, <1>6 DEF I2sTypeOK
<1>12. QED
  BY <1>3, <1>4, <1>7, <1>8, <1>9, <1>10, <1>11

\* After an underrun the task takes the half the DMA is not at.
LEMMA ResyncKeeps ==
  ASSUME I2sInv, ~hung, NEW d \in Dir, Resync(d)
  PROVE  I2sInv'
<1> DEFINE p == IF d = "play" THEN HalfAt(1 - dma[d]) ELSE Foreign
<1> USE DEF Half, THRESHOLD
<1>0. /\ I2sTypeOK /\ InUse /\ DmaOff /\ WakeUps /\ Locked /\ OneLength /\ Phase
      /\ WithinBuffer /\ HangsOnlyWhenLate
  BY DEF I2sInv
<1>1. /\ Copy(d, p) /\ UNCHANGED <<device, wanted, sem, at>> /\ pc[d] = "ring" /\ Inside(d)
      /\ size[d] > 0 /\ chan[d] /\ initiate[d] /\ (d = "play" \/ d = "record")
  BY <1>0 DEF Resync, InUse, Inside, Dir
<1>2. /\ p \in Nat \cup {Foreign} /\ (d = "play" => p # Foreign)
      /\ d = "play" /\ ~mixed[d] => p \in {0, bytes[d]}
  BY <1>0, <1>1, PointerAssumption, LengthAssumption
  DEF Resync, HalfAt, I2sTypeOK, DmaOff, OneLength
<1>3. /\ ptr' \in [Dir -> Nat \cup {Null, Foreign}] /\ ptr'[d] # Null
      /\ ptr'["play"] # Foreign
      /\ size' \in [Dir -> 0 .. MaxBlocks] /\ unit' \in [Dir -> Lengths \cup {0}]
      /\ pc' \in [Dir -> Label]
      /\ \A e \in Dir : e # d => /\ ptr'[e] = ptr[e] /\ pc'[e] = pc[e]
                                 /\ size'[e] = size[e] /\ unit'[e] = unit[e]
      /\ \/ pc'[d] = "smashed" /\ PastEnd(d, p)
         \/ pc'[d] = "loop" /\ size'[d] > 0 /\ unit'[d] = unit[d]
         \/ pc'[d] = "idle" /\ size'[d] = 0
      /\ p = Foreign \/ ptr'[d] = Wrap(d, p)
  <2> HIDE DEF p
  <2> QED BY <1>0, <1>1, <1>2, CopyStep
<1>4. ~mixed[d] => /\ unit[d] = bufLength /\ bytes[d] = bufLength /\ bufLength \in Nat \ {0}
                   /\ (d = "play" => ~PastEnd(d, p))
                   /\ p = 0 => ptr'[d] = bytes[d]
                   /\ p = bytes[d] => ptr'[d] = 0
  <2> HIDE DEF p
  <2> SUFFICES ASSUME ~mixed[d]
      PROVE  /\ unit[d] = bufLength /\ bytes[d] = bufLength /\ bufLength \in Nat \ {0}
             /\ (d = "play" => ~PastEnd(d, p))
             /\ p = 0 => ptr'[d] = bytes[d]
             /\ p = bytes[d] => ptr'[d] = 0
    OBVIOUS
  <2>1. /\ unit[d] = bufLength /\ bytes[d] = bufLength /\ bufLength \in Nat \ {0}
    BY <1>0, <1>1, LengthAssumption DEF OneLength
  <2>2. d = "play" => ~PastEnd(d, p)
    BY <1>2, <2>1 DEF PastEnd
  <2>3. p = 0 => ptr'[d] = bytes[d]
    BY <1>3, <2>1, PointerAssumption DEF Wrap
  <2>4. p = bytes[d] => ptr'[d] = 0
    BY <1>3, <2>1, PointerAssumption DEF Wrap
  <2> QED BY <2>1, <2>2, <2>3, <2>4
<1>5. /\ UNCHANGED <<initiate, chan, running, dma, lock, hung, bufLength, half, bytes, mixed>>
      /\ UNCHANGED <<wanted, sem, at>>
  BY <1>1 DEF device, lengths
<1>6. /\ halves' \in [Dir -> 0 .. 2] /\ ends' \in [Dir -> 0 .. 2]
      /\ halves'[d] = 0 /\ ends'[d] = 0 /\ dma[d] \in Half
      /\ late' \in [Dir -> BOOLEAN] /\ late'[d] = (d = "record")
      /\ \A e \in Dir : e # d => halves'[e] = halves[e] /\ ends'[e] = ends[e]
                                /\ late'[e] = late[e]
  BY <1>0, <1>1 DEF Resync, Clear, Set, I2sTypeOK, Label, DmaOff, WakeUps, Locked, Phase
<1> HIDE DEF p
<1>7. I2sTypeOK'
  BY <1>0, <1>3, <1>5, <1>6, PointerAssumption DEF I2sTypeOK
<1>8. InUse'
  BY <1>0, <1>1, <1>3, <1>5 DEF InUse, Inside
<1>9. DmaOff'
  BY <1>0, <1>1, <1>3, <1>5, <1>6 DEF DmaOff, I2sTypeOK
<1>10. WakeUps'
  BY <1>0, <1>1, <1>3, <1>5, <1>6 DEF WakeUps, I2sTypeOK
<1>11. Locked'
  BY <1>0, <1>1, <1>3, <1>5 DEF Locked
<1>12. OneLength'
  BY <1>0, <1>1, <1>2, <1>3, <1>4, <1>5, <1>6 DEF OneLength, Inside
<1>13. Phase'
  <2>1. CASE d = "play"
    <3>1. ~mixed[d] => ptr'[d] = Begins(d, dma[d])
      BY <1>0, <1>1, <1>4, <1>6, <2>1 DEF p, HalfAt, Begins, OneLength
    <3>2. ASSUME NEW e \in Dir, e # d PROVE UNCHANGED <<late[e], mixed[e], dma[e], Due(e), halves[e], ends[e], bytes[e], ptr[e]>>
      BY <1>3, <1>5, <1>6, <3>2 DEF Due
    <3> QED BY <1>0, <1>3, <1>5, <1>6, <2>1, <3>1, <3>2 DEF Phase, Due, Begins
  <2>2. CASE d = "record"
    <3>2. ASSUME NEW e \in Dir, e # d PROVE UNCHANGED <<late[e], mixed[e], dma[e], Due(e), halves[e], ends[e], bytes[e], ptr[e]>>
      BY <1>3, <1>5, <1>6, <3>2 DEF Due
    <3> QED BY <1>0, <1>3, <1>5, <1>6, <2>2, <3>2 DEF Phase, Begins
  <2> QED BY <1>1, <2>1, <2>2
<1>14. WithinBuffer'
  <2>1. PastEnd(d, p) => d = "play"
    BY DEF PastEnd
  <2>2. QED
    BY <1>0, <1>1, <1>3, <1>4, <1>5, <2>1 DEF WithinBuffer
<1>15. HangsOnlyWhenLate'
  BY <1>0, <1>5 DEF HangsOnlyWhenLate
<1>16. QED
  BY <1>7, <1>8, <1>9, <1>10, <1>11, <1>12, <1>13, <1>14, <1>15 DEF I2sInv

\* The half that is ready is the one the task is at.
LEMMA TakeKeeps ==
  ASSUME I2sInv, ~hung, NEW d \in Dir, Take(d)
  PROVE  I2sInv'
<1> DEFINE p == ptr[d]
<1> USE DEF Half, THRESHOLD
<1>0. /\ I2sTypeOK /\ InUse /\ DmaOff /\ WakeUps /\ Locked /\ OneLength /\ Phase
      /\ WithinBuffer /\ HangsOnlyWhenLate
  BY DEF I2sInv
<1>1. /\ Copy(d, p) /\ UNCHANGED <<device, wanted, sem, at, late>> /\ pc[d] = "ring" /\ Inside(d)
      /\ size[d] > 0 /\ chan[d] /\ initiate[d] /\ (d = "play" \/ d = "record")
  BY <1>0 DEF Take, InUse, Inside, Dir
<1>2. /\ p \in Nat \cup {Foreign} /\ (d = "play" => p # Foreign)
      /\ d = "play" /\ ~mixed[d] => p \in {0, bytes[d]}
  BY <1>0, <1>1, PointerAssumption DEF Take, I2sTypeOK, DmaOff, OneLength
<1>3. /\ ptr' \in [Dir -> Nat \cup {Null, Foreign}] /\ ptr'[d] # Null
      /\ ptr'["play"] # Foreign
      /\ size' \in [Dir -> 0 .. MaxBlocks] /\ unit' \in [Dir -> Lengths \cup {0}]
      /\ pc' \in [Dir -> Label]
      /\ \A e \in Dir : e # d => /\ ptr'[e] = ptr[e] /\ pc'[e] = pc[e]
                                 /\ size'[e] = size[e] /\ unit'[e] = unit[e]
      /\ \/ pc'[d] = "smashed" /\ PastEnd(d, p)
         \/ pc'[d] = "loop" /\ size'[d] > 0 /\ unit'[d] = unit[d]
         \/ pc'[d] = "idle" /\ size'[d] = 0
      /\ p = Foreign \/ ptr'[d] = Wrap(d, p)
  <2> HIDE DEF p
  <2> QED BY <1>0, <1>1, <1>2, CopyStep
<1>4. ~mixed[d] => /\ unit[d] = bufLength /\ bytes[d] = bufLength /\ bufLength \in Nat \ {0}
                   /\ (d = "play" => ~PastEnd(d, p))
                   /\ p = 0 => ptr'[d] = bytes[d]
                   /\ p = bytes[d] => ptr'[d] = 0
  <2> HIDE DEF p
  <2> SUFFICES ASSUME ~mixed[d]
      PROVE  /\ unit[d] = bufLength /\ bytes[d] = bufLength /\ bufLength \in Nat \ {0}
             /\ (d = "play" => ~PastEnd(d, p))
             /\ p = 0 => ptr'[d] = bytes[d]
             /\ p = bytes[d] => ptr'[d] = 0
    OBVIOUS
  <2>1. /\ unit[d] = bufLength /\ bytes[d] = bufLength /\ bufLength \in Nat \ {0}
    BY <1>0, <1>1, LengthAssumption DEF OneLength
  <2>2. d = "play" => ~PastEnd(d, p)
    BY <1>2, <2>1 DEF PastEnd
  <2>3. p = 0 => ptr'[d] = bytes[d]
    BY <1>3, <2>1, PointerAssumption DEF Wrap
  <2>4. p = bytes[d] => ptr'[d] = 0
    BY <1>3, <2>1, PointerAssumption DEF Wrap
  <2> QED BY <2>1, <2>2, <2>3, <2>4
<1>5. /\ UNCHANGED <<initiate, chan, running, dma, lock, hung, bufLength, half, bytes, mixed>>
      /\ UNCHANGED <<wanted, sem, at, late>>
  BY <1>1 DEF device, lengths
<1>6. /\ halves' \in [Dir -> 0 .. 2] /\ ends' \in [Dir -> 0 .. 2]
      /\ halves[d] + ends[d] > 0 /\ halves'[d] + ends'[d] = halves[d] + ends[d] - 1
      /\ dma[d] \in Half
      /\ \A e \in Dir : e # d => halves'[e] = halves[e] /\ ends'[e] = ends[e]
  BY <1>0, <1>1 DEF Take, Clear, Set, I2sTypeOK, Label, DmaOff, WakeUps, Locked, Phase
<1> HIDE DEF p
<1>7. I2sTypeOK'
  BY <1>0, <1>3, <1>5, <1>6, PointerAssumption DEF I2sTypeOK
<1>8. InUse'
  BY <1>0, <1>1, <1>3, <1>5 DEF InUse, Inside
<1>9. DmaOff'
  BY <1>0, <1>1, <1>3, <1>5, <1>6 DEF DmaOff, I2sTypeOK
<1>10. WakeUps'
  BY <1>0, <1>1, <1>3, <1>5, <1>6 DEF WakeUps, I2sTypeOK
<1>11. Locked'
  BY <1>0, <1>1, <1>3, <1>5 DEF Locked
<1>12. OneLength'
  BY <1>0, <1>1, <1>2, <1>3, <1>4, <1>5, <1>6 DEF OneLength, Inside
<1>13. Phase'
  <2>1. ASSUME ~late[d], ~mixed[d], dma[d] \in Half
        PROVE  halves'[d] = 0 /\ ends'[d] = 0 /\ ptr'[d] = Begins(d, dma[d])
    <3>1. halves[d] + ends[d] = 1 /\ Due(d) = Begins(d, 1 - dma[d]) /\ Due(d) = p
      BY <1>0, <1>1, <1>6, <2>1, PointerAssumption DEF Phase, Due, p, I2sTypeOK
    <3>2. ptr'[d] = Begins(d, dma[d])
      BY <1>4, <2>1, <3>1 DEF Begins
    <3>3. halves'[d] = 0 /\ ends'[d] = 0
      BY <1>0, <1>6, <3>1 DEF I2sTypeOK
    <3> QED BY <3>2, <3>3
  <2>2. ~late[d] => dma[d] \in Half
    BY <1>0, <1>1, <1>6 DEF WakeUps, I2sTypeOK
  <2>3. ASSUME NEW e \in Dir, e # d
        PROVE  UNCHANGED <<late[e], mixed[e], dma[e], Due(e), halves[e], ends[e], bytes[e], ptr[e]>>
    BY <1>3, <1>5, <1>6, <2>3 DEF Due
  <2> QED BY <1>0, <1>3, <1>5, <2>1, <2>2, <2>3, PointerAssumption DEF Phase, Due, Begins
<1>14. WithinBuffer'
  <2>1. PastEnd(d, p) => d = "play"
    BY DEF PastEnd
  <2>2. QED
    BY <1>0, <1>1, <1>3, <1>4, <1>5, <2>1 DEF WithinBuffer
<1>15. HangsOnlyWhenLate'
  BY <1>0, <1>5 DEF HangsOnlyWhenLate
<1>16. QED
  BY <1>7, <1>8, <1>9, <1>10, <1>11, <1>12, <1>13, <1>14, <1>15 DEF I2sInv

\* Without a half that is ready the task asks to be woken up.
LEMMA WaitKeeps ==
  ASSUME I2sInv, ~hung, NEW d \in Dir, Wait(d)
  PROVE  I2sInv'
<1> USE DEF I2sInv, Dir, Half, THRESHOLD, NoDir
<1>1. I2sTypeOK'
  BY PointerAssumption, LengthAssumption, BoundAssumption
     DEF I2sTypeOK, Label, InUse, Inside, DmaOff, WakeUps, Wait, Goto, Set, device, lengths, counts, job
<1>2. InUse'
  BY PointerAssumption
     DEF I2sTypeOK, Label, InUse, Inside, DmaOff, Wait, Goto, Set, device, lengths, counts, job
<1>3. DmaOff'
  BY PointerAssumption, LengthAssumption
     DEF I2sTypeOK, Label, InUse, Inside, DmaOff, WakeUps, Locked, OneLength, Wait, Goto, Set, device, lengths, counts, job
<1>4. WakeUps'
  BY PointerAssumption
     DEF I2sTypeOK, Label, InUse, Inside, DmaOff, WakeUps, Wait, Goto, Set, device, lengths, counts, job
<1>5. Locked'
  BY PointerAssumption
     DEF I2sTypeOK, Label, Locked, Wait, Goto, Set, device, lengths, counts, job
<1>6. OneLength'
  BY PointerAssumption, LengthAssumption
     DEF I2sTypeOK, Label, InUse, Inside, DmaOff, WakeUps, OneLength, Wait, Goto, Set, device, lengths, counts, job
<1>7. Phase'
  BY PointerAssumption, LengthAssumption
     DEF I2sTypeOK, Label, InUse, Inside, DmaOff, WakeUps, OneLength, Phase, Due, Begins, Wait, Goto, Set, device, lengths, counts, job
<1>8. WithinBuffer'
  BY PointerAssumption, LengthAssumption
     DEF I2sTypeOK, Label, InUse, Inside, DmaOff, WakeUps, OneLength, WithinBuffer, Wait, Goto, Set, device, lengths, counts, job
<1>9. HangsOnlyWhenLate'
  BY DEF I2sTypeOK, Label, Locked, HangsOnlyWhenLate, Wait, Goto, Set, device, lengths, counts, job
<1>10. QED
  BY <1>1, <1>2, <1>3, <1>4, <1>5, <1>6, <1>7, <1>8, <1>9

\* The half that was waited for is ready.
LEMMA WakeKeeps ==
  ASSUME I2sInv, ~hung, NEW d \in Dir, Wake(d)
  PROVE  I2sInv'
<1> DEFINE p == at[d]
<1> USE DEF Half, THRESHOLD
<1>0. /\ I2sTypeOK /\ InUse /\ DmaOff /\ WakeUps /\ Locked /\ OneLength /\ Phase
      /\ WithinBuffer /\ HangsOnlyWhenLate
  BY DEF I2sInv
<1>1. /\ Copy(d, p) /\ UNCHANGED <<device, wanted, late>> /\ pc[d] = "wait" /\ Inside(d)
      /\ size[d] > 0 /\ chan[d] /\ initiate[d] /\ (d = "play" \/ d = "record")
  BY <1>0 DEF Wake, InUse, Inside, Dir
<1>2. /\ p \in Nat \cup {Foreign} /\ (d = "play" => p # Foreign)
      /\ d = "play" /\ ~mixed[d] => p \in {0, bytes[d]}
  BY <1>0, <1>1, PointerAssumption DEF Wake, I2sTypeOK, WakeUps, OneLength
<1>3. /\ ptr' \in [Dir -> Nat \cup {Null, Foreign}] /\ ptr'[d] # Null
      /\ ptr'["play"] # Foreign
      /\ size' \in [Dir -> 0 .. MaxBlocks] /\ unit' \in [Dir -> Lengths \cup {0}]
      /\ pc' \in [Dir -> Label]
      /\ \A e \in Dir : e # d => /\ ptr'[e] = ptr[e] /\ pc'[e] = pc[e]
                                 /\ size'[e] = size[e] /\ unit'[e] = unit[e]
      /\ \/ pc'[d] = "smashed" /\ PastEnd(d, p)
         \/ pc'[d] = "loop" /\ size'[d] > 0 /\ unit'[d] = unit[d]
         \/ pc'[d] = "idle" /\ size'[d] = 0
      /\ p = Foreign \/ ptr'[d] = Wrap(d, p)
  <2> HIDE DEF p
  <2> QED BY <1>0, <1>1, <1>2, CopyStep
<1>4. ~mixed[d] => /\ unit[d] = bufLength /\ bytes[d] = bufLength /\ bufLength \in Nat \ {0}
                   /\ (d = "play" => ~PastEnd(d, p))
                   /\ p = 0 => ptr'[d] = bytes[d]
                   /\ p = bytes[d] => ptr'[d] = 0
  <2> HIDE DEF p
  <2> SUFFICES ASSUME ~mixed[d]
      PROVE  /\ unit[d] = bufLength /\ bytes[d] = bufLength /\ bufLength \in Nat \ {0}
             /\ (d = "play" => ~PastEnd(d, p))
             /\ p = 0 => ptr'[d] = bytes[d]
             /\ p = bytes[d] => ptr'[d] = 0
    OBVIOUS
  <2>1. /\ unit[d] = bufLength /\ bytes[d] = bufLength /\ bufLength \in Nat \ {0}
    BY <1>0, <1>1, LengthAssumption DEF OneLength
  <2>2. d = "play" => ~PastEnd(d, p)
    BY <1>2, <2>1 DEF PastEnd
  <2>3. p = 0 => ptr'[d] = bytes[d]
    BY <1>3, <2>1, PointerAssumption DEF Wrap
  <2>4. p = bytes[d] => ptr'[d] = 0
    BY <1>3, <2>1, PointerAssumption DEF Wrap
  <2> QED BY <2>1, <2>2, <2>3, <2>4
<1>5. /\ UNCHANGED <<initiate, chan, running, dma, lock, hung, bufLength, half, bytes, mixed>>
      /\ UNCHANGED <<wanted, late>>
  BY <1>1 DEF device, lengths
<1>6. /\ halves' \in [Dir -> 0 .. 2] /\ ends' \in [Dir -> 0 .. 2]
      /\ sem' \in [Dir -> {0, 1}] /\ sem'[d] = 0 /\ ~wanted[d]
      /\ at' \in [Dir -> Nat \cup {Null, Foreign}] /\ at'["play"] # Foreign
      /\ halves[d] + ends[d] = 1 => halves'[d] = 0 /\ ends'[d] = 0
      /\ dma[d] = Null => halves'[d] = 0 /\ ends'[d] = 0
      /\ dma[d] \in Half => halves[d] + ends[d] > 0
      /\ \A e \in Dir : e # d => /\ halves'[e] = halves[e] /\ ends'[e] = ends[e]
                                 /\ sem'[e] = sem[e] /\ at'[e] = at[e]
  <2>1. /\ halves' = [halves EXCEPT ![d] = IF halves[d] > 0 THEN halves[d] - 1 ELSE 0]
        /\ ends' = [ends EXCEPT ![d] = IF ends[d] > 0 THEN ends[d] - 1 ELSE 0]
        /\ sem' = [sem EXCEPT ![d] = 0] /\ at' = [at EXCEPT ![d] = Null] /\ sem[d] = 1
    BY DEF Wake, Set
  <2>2. /\ halves \in [Dir -> 0 .. 2] /\ ends \in [Dir -> 0 .. 2]
        /\ sem \in [Dir -> {0, 1}] /\ at \in [Dir -> Nat \cup {Null, Foreign}]
        /\ at["play"] # Foreign
    BY <1>0 DEF I2sTypeOK
  <2>3. halves' \in [Dir -> 0 .. 2] /\ ends' \in [Dir -> 0 .. 2]
    BY <2>1, <2>2
  <2>4. /\ at' \in [Dir -> Nat \cup {Null, Foreign}] /\ at'["play"] # Foreign
        /\ sem' \in [Dir -> {0, 1}] /\ sem'[d] = 0
    BY <2>1, <2>2, PointerAssumption DEF Dir
  <2>5. ~wanted[d] /\ (dma[d] \in Half => halves[d] + ends[d] > 0)
    BY <1>0, <1>1, <2>1 DEF WakeUps
  <2>6. dma[d] = Null => halves[d] = 0 /\ ends[d] = 0
    BY <1>0 DEF DmaOff
  <2>7. /\ halves[d] + ends[d] = 1 => halves'[d] = 0 /\ ends'[d] = 0
        /\ dma[d] = Null => halves'[d] = 0 /\ ends'[d] = 0
    BY <2>1, <2>2, <2>6
  <2>8. QED
    BY <2>1, <2>2, <2>3, <2>4, <2>5, <2>7
<1> HIDE DEF p
<1>7. I2sTypeOK'
  BY <1>0, <1>3, <1>5, <1>6, PointerAssumption DEF I2sTypeOK
<1>8. InUse'
  BY <1>0, <1>1, <1>3, <1>5 DEF InUse, Inside
<1>9. DmaOff'
  <2>1. ~running[d] \/ dma[d] \in Half
    BY <1>0, <1>1, <1>6 DEF WakeUps, I2sTypeOK
  <2>2. QED
    BY <1>0, <1>1, <1>3, <1>5, <1>6, <2>1 DEF DmaOff
<1>10. WakeUps'
  BY <1>0, <1>1, <1>3, <1>5, <1>6 DEF WakeUps, I2sTypeOK
<1>11. Locked'
  BY <1>0, <1>1, <1>3, <1>5 DEF Locked
<1>12. OneLength'
  BY <1>0, <1>1, <1>2, <1>3, <1>4, <1>5, <1>6 DEF OneLength, Inside
<1>13. Phase'
  <2>1. ASSUME ~late[d], ~mixed[d], dma[d] \in Half
        PROVE  halves'[d] = 0 /\ ends'[d] = 0 /\ ptr'[d] = Begins(d, dma[d])
    <3>1. halves[d] + ends[d] = 1 /\ Due(d) = Begins(d, 1 - dma[d]) /\ Due(d) = p
      BY <1>0, <1>1, <1>6, <2>1, PointerAssumption DEF Phase, Due, p, I2sTypeOK
    <3>2. ptr'[d] = Begins(d, dma[d])
      BY <1>4, <2>1, <3>1 DEF Begins
    <3>3. halves'[d] = 0 /\ ends'[d] = 0
      BY <1>0, <1>6, <3>1 DEF I2sTypeOK
    <3> QED BY <3>2, <3>3
  <2>2. ~late[d] => dma[d] \in Half
    BY <1>0, <1>1, <1>6 DEF WakeUps, I2sTypeOK
  <2>3. ASSUME NEW e \in Dir, e # d
        PROVE  UNCHANGED <<late[e], mixed[e], dma[e], Due(e), halves[e], ends[e], bytes[e], ptr[e]>>
    BY <1>3, <1>5, <1>6, <2>3 DEF Due
  <2> QED BY <1>0, <1>3, <1>5, <2>1, <2>2, <2>3, PointerAssumption DEF Phase, Due, Begins
<1>14. WithinBuffer'
  <2>1. PastEnd(d, p) => d = "play"
    BY DEF PastEnd
  <2>2. QED
    BY <1>0, <1>1, <1>3, <1>4, <1>5, <2>1 DEF WithinBuffer
<1>15. HangsOnlyWhenLate'
  BY <1>0, <1>5 DEF HangsOnlyWhenLate
<1>16. QED
  BY <1>7, <1>8, <1>9, <1>10, <1>11, <1>12, <1>13, <1>14, <1>15 DEF I2sInv

\* A half that ends while none is ready puts the task one half behind.
LEMMA BoundaryKeeps ==
  ASSUME I2sInv, ~hung, NEW d \in Dir, Boundary(d)
  PROVE  I2sInv'
<1> USE DEF I2sInv, Dir, Half, THRESHOLD, NoDir
<1>1. I2sTypeOK'
  BY PointerAssumption, LengthAssumption, BoundAssumption
     DEF I2sTypeOK, Label, InUse, Inside, DmaOff, WakeUps, Boundary, Count, OneMore, Set, lengths, job
<1>2. InUse'
  BY PointerAssumption
     DEF I2sTypeOK, Label, InUse, Inside, DmaOff, Boundary, Count, OneMore, Set, lengths, job
<1>3. DmaOff'
  BY PointerAssumption, LengthAssumption
     DEF I2sTypeOK, Label, InUse, Inside, DmaOff, WakeUps, Locked, OneLength, Boundary, Count, OneMore, Set, lengths, job
<1>4. WakeUps'
  BY PointerAssumption
     DEF I2sTypeOK, Label, InUse, Inside, DmaOff, WakeUps, Boundary, Count, OneMore, Set, lengths, job
<1>5. Locked'
  BY PointerAssumption
     DEF I2sTypeOK, Label, Locked, Boundary, Count, OneMore, Set, lengths, job
<1>6. OneLength'
  BY PointerAssumption, LengthAssumption
     DEF I2sTypeOK, Label, InUse, Inside, DmaOff, WakeUps, OneLength, Boundary, Count, OneMore, Set, lengths, job
<1>7. Phase'
  <2>1. /\ UNCHANGED <<ptr, pc, at, bytes, mixed>> /\ dma[d] \in Half
        /\ dma' = [dma EXCEPT ![d] = 1 - dma[d]]
        /\ late' = [late EXCEPT ![d] = late[d] \/ halves[d] + ends[d] > 0]
    BY DEF Boundary, Set, lengths
  <2>2. /\ halves'[d] + ends'[d] = halves[d] + ends[d] + 1
        /\ halves[d] \in Nat /\ ends[d] \in Nat /\ late[d] \in BOOLEAN
        /\ \A e \in Dir : e # d => halves'[e] = halves[e] /\ ends'[e] = ends[e]
    BY DEF Boundary, Count, Set, I2sTypeOK
  <2>3. UNCHANGED <<Due(d), ptr[d], mixed[d]>> /\ dma'[d] = 1 - dma[d]
        /\ late'[d] = (late[d] \/ halves[d] + ends[d] > 0)
    BY <2>1 DEF Due, I2sTypeOK
  <2>4. ASSUME ~late'[d], ~mixed[d]
        PROVE  halves'[d] + ends'[d] = 1 /\ Due(d)' = (IF 1 - dma'[d] = 0 THEN 0 ELSE bytes'[d])
    <3>0. ~late[d] /\ ~(halves[d] + ends[d] > 0)
      BY <2>3, <2>4, Zenon
    <3>1. ~late[d] /\ halves[d] + ends[d] = 0
      BY <2>2, <3>0
    <3>2. Due(d) = Begins(d, dma[d])
      BY <2>1, <2>2, <2>4, <3>1 DEF Phase
    <3>3. 1 - dma'[d] = dma[d] /\ bytes' = bytes
      BY <2>1, <2>3 DEF Half
    <3> QED BY <2>2, <2>3, <3>1, <3>2, <3>3 DEF Begins
  <2>5. ASSUME NEW e \in Dir, e # d
        PROVE  /\ UNCHANGED <<dma[e], late[e], mixed[e], ptr[e], bytes[e], halves[e], ends[e]>>
               /\ Due(e)' = Due(e)
    BY <2>1, <2>2, <2>5 DEF Due, I2sTypeOK
  <2>6. dma'[d] # Null
    BY <2>1, <2>3, PointerAssumption DEF Half
  <2>7. ASSUME NEW e \in Dir, ~late'[e], ~mixed'[e]
        PROVE  /\ dma'[e] \in Half =>
                    \/ halves'[e] + ends'[e] = 0 /\ Due(e)' = (IF dma'[e] = 0 THEN 0 ELSE bytes'[e])
                    \/ halves'[e] + ends'[e] = 1 /\ Due(e)' = (IF 1 - dma'[e] = 0 THEN 0 ELSE bytes'[e])
               /\ e = "record" /\ dma'[e] = Null => ptr'[e] \in {0, Null}
    <3>1. CASE e = d
      BY <2>3, <2>4, <2>6, <2>7, <3>1
    <3>2. CASE e # d
      BY <2>5, <2>7, <3>2 DEF Phase, Begins
    <3>3. QED
      BY <3>1, <3>2
  <2>8. QED
    BY <2>7 DEF Phase, Begins
<1>8. WithinBuffer'
  BY PointerAssumption, LengthAssumption
     DEF I2sTypeOK, Label, InUse, Inside, DmaOff, WakeUps, OneLength, WithinBuffer, Boundary, Count, OneMore, Set, lengths, job
<1>9. HangsOnlyWhenLate'
  BY DEF I2sTypeOK, Label, Locked, HangsOnlyWhenLate, Boundary, Count, OneMore, Set, lengths, job
<1>10. QED
  BY <1>1, <1>2, <1>3, <1>4, <1>5, <1>6, <1>7, <1>8, <1>9

\* A DMA that is stopped by the interrupt has a task that was late.
LEMMA StopKeeps ==
  ASSUME I2sInv, ~hung, NEW d \in Dir, Stop(d)
  PROVE  I2sInv'
<1> USE DEF I2sInv, Dir, Half, THRESHOLD, NoDir
<1>0. late' = Set(late, d, TRUE) /\ late'[d]
  <2>1. halves[d] + ends[d] > 0
    BY PointerAssumption DEF I2sTypeOK, Label, Stop, OneMore
  <2>2. QED
    BY <2>1 DEF I2sTypeOK, Label, Stop, Set
<1>1. I2sTypeOK'
  <2>1. CASE lock = "none"
    <3>1. UNCHANGED <<initiate, chan, lengths, wanted, sem, lock, pc, at, job, hung>>
      BY <2>1 DEF Stop
    <3>2. /\ dma' = Set(dma, d, Null) /\ running' = Set(running, d, FALSE)
          /\ ptr' = Set(ptr, d, Null)
          /\ halves' = Set(halves, d, 0) /\ ends' = Set(ends, d, 0)
      BY <2>1 DEF Stop, Clear
    <3>3. ptr' \in [Dir -> Nat \cup {Null, Foreign}] /\ ptr'["play"] # Foreign
      BY <3>2, PointerAssumption DEF I2sTypeOK, Label, Set
    <3>4. late' \in [Dir -> BOOLEAN]
      BY <1>0 DEF I2sTypeOK, Label, Set
    <3>5. QED
      BY <3>1, <3>2, <3>3, <3>4 DEF I2sTypeOK, Label, Set, lengths, job
  <2>2. CASE lock # "none"
    <3>1. UNCHANGED <<initiate, chan, running, lengths, ptr, halves, ends, wanted, sem,
                      dma, lock, pc, at, job>> /\ hung' = TRUE
      BY <2>2 DEF Stop, counts
    <3>2. late' \in [Dir -> BOOLEAN]
      BY <1>0 DEF I2sTypeOK, Label, Set
    <3>3. QED
      BY <3>1, <3>2 DEF I2sTypeOK, lengths, job
  <2>3. QED
    BY <2>1, <2>2
<1>2. InUse'
  BY PointerAssumption
     DEF I2sTypeOK, Label, InUse, Inside, DmaOff, Stop, OneMore, Clear, Set, lengths, counts, job
<1>3. DmaOff'
  BY PointerAssumption, LengthAssumption
     DEF I2sTypeOK, Label, InUse, Inside, DmaOff, WakeUps, Locked, OneLength, Stop, OneMore, Clear, Set, lengths, counts, job
<1>4. WakeUps'
  BY PointerAssumption
     DEF I2sTypeOK, Label, InUse, Inside, DmaOff, WakeUps, Stop, OneMore, Clear, Set, lengths, counts, job
<1>5. Locked'
  BY PointerAssumption
     DEF I2sTypeOK, Label, Locked, Stop, OneMore, Clear, Set, lengths, counts, job
<1>6. OneLength'
  BY PointerAssumption, LengthAssumption
     DEF I2sTypeOK, Label, InUse, Inside, DmaOff, WakeUps, OneLength, Stop, OneMore, Clear, Set, lengths, counts, job
<1>7. Phase'
  BY PointerAssumption, LengthAssumption
     DEF I2sTypeOK, Label, InUse, Inside, DmaOff, WakeUps, OneLength, Phase, Due, Begins, Stop, OneMore, Clear, Set, lengths, counts, job
<1>8. WithinBuffer'
  BY PointerAssumption, LengthAssumption
     DEF I2sTypeOK, Label, InUse, Inside, DmaOff, WakeUps, OneLength, WithinBuffer, Stop, OneMore, Clear, Set, lengths, counts, job
<1>9. HangsOnlyWhenLate'
  <2>1. CASE lock = "none"
    BY <2>1 DEF HangsOnlyWhenLate, Stop
  <2>2. CASE lock # "none"
    BY <1>0, <2>2 DEF I2sTypeOK, Label, Locked, HangsOnlyWhenLate, Stop
  <2>3. QED
    BY <2>1, <2>2
<1>10. QED
  BY <1>1, <1>2, <1>3, <1>4, <1>5, <1>6, <1>7, <1>8, <1>9
-----------------------------------------------------------------------------
(* The specification.                                                      *)

\* In the initial state nothing is open and every DMA is off.
LEMMA I2sInitKeeps == I2sInit => I2sInv
<1> SUFFICES ASSUME I2sInit PROVE I2sInv
  OBVIOUS
<1>1. I2sTypeOK
  <2>1. 0 \in 0 .. MaxBlocks /\ 0 \in 0 .. THRESHOLD - 1
    BY BoundAssumption DEF THRESHOLD
  <2>2. Null # Foreign /\ "play" \in Dir /\ NoDir \in Dir \cup {NoDir}
    BY PointerAssumption DEF Dir
  <2>3. QED
    BY <2>1, <2>2 DEF I2sInit, I2sTypeOK, Label
<1>2. InUse /\ DmaOff /\ OneLength
  BY PointerAssumption DEF I2sInit, InUse, Inside, DmaOff, OneLength, Half, Dir
<1>3. WakeUps /\ Locked
  BY DEF I2sInit, WakeUps, Locked, Dir, NoDir
<1>4. Phase /\ WithinBuffer /\ HangsOnlyWhenLate
  BY PointerAssumption DEF I2sInit, Phase, WithinBuffer, HangsOnlyWhenLate, Half
<1>5. QED
  BY <1>1, <1>2, <1>3, <1>4 DEF I2sInv

\* Every step keeps the invariant.
LEMMA I2sNextKeeps == I2sInv /\ [I2sNext]_i2sVars => I2sInv'
<1> SUFFICES ASSUME I2sInv, [I2sNext]_i2sVars PROVE I2sInv'
  OBVIOUS
<1>1. CASE UNCHANGED i2sVars
  BY <1>1 DEF I2sInv, I2sTypeOK, Label, InUse, DmaOff, WakeUps, Locked, OneLength,
              Inside, Phase, Due, Begins, WithinBuffer, HangsOnlyWhenLate,
              i2sVars, device, lengths, ring, counts, job
<1>2. ASSUME ~hung, NEW d \in Dir, Work(d) PROVE I2sInv'
  BY <1>2, FillKeeps, RestartKeeps, RecordKeeps, StartedKeeps, CheckKeeps,
     ResyncKeeps, TakeKeeps, WaitKeeps, WakeKeeps DEF Work
<1>3. CASE I2sNext
  BY <1>2, <1>3, OpenLengthKeeps, OpenKeeps, OpenFailsKeeps, OpenSmashesKeeps, CloseLockKeeps, CloseStopKeeps, CallKeeps,
     TriggerKeeps, BoundaryKeeps, StopKeeps DEF I2sNext, Irq
<1>4. QED
  BY <1>1, <1>3

\* The invariant holds whatever the two tasks do, however late they are and with
\* whatever lengths they open: its parts on lengths and phase speak of a direction
\* until the other is opened with another length (hal_i2s.c:997).
THEOREM DmaInvariance == I2sSpec => []I2sInv
BY I2sInitKeeps, I2sNextKeeps, PTL DEF I2sSpec

\* The invariant puts a task that kept up at the half the DMA is not at.
LEMMA InvInPhase == I2sInv => InPhase
<1> SUFFICES ASSUME I2sInv, NEW d \in Dir, dma[d] \in Half, ~late[d], ~mixed[d]
             PROVE  /\ pc[d] = "ring" /\ halves[d] + ends[d] = 1 => ptr[d] = Begins(d, 1 - dma[d])
                    /\ pc[d] = "wait" /\ sem[d] = 1 => at[d] = Begins(d, 1 - dma[d])
                    /\ pc[d] = "ring" => halves[d] + ends[d] < 2
  BY DEF InPhase
<1>1. halves[d] \in 0 .. 2 /\ ends[d] \in 0 .. 2
  BY DEF I2sInv, I2sTypeOK, Label, THRESHOLD
<1>2. \/ halves[d] + ends[d] = 0 /\ Due(d) = Begins(d, dma[d])
      \/ halves[d] + ends[d] = 1 /\ Due(d) = Begins(d, 1 - dma[d])
  BY DEF I2sInv, Phase
<1>3. pc[d] = "wait" /\ sem[d] = 1 => halves[d] + ends[d] > 0
  BY DEF I2sInv, WakeUps
<1>4. QED
  BY <1>1, <1>2, <1>3 DEF Due

\* A task that keeps up never works on the half the DMA works on, unless the other
\* direction has been opened with another length (hal_i2s.c:752-905, 997).
THEOREM KeepsInPhase == I2sSpec => []InPhase
BY DmaInvariance, InvInPhase, PTL

\* The interrupt waits for the lock only when a task was late (hal_i2s.c:548).
THEOREM HangsLate == I2sSpec => []HangsOnlyWhenLate
<1>1. I2sInv => HangsOnlyWhenLate
  BY DEF I2sInv
<1>2. QED
  BY <1>1, DmaInvariance, PTL

\* A lost task stays lost, and it was lost because it had not looked again whether
\* the DMA runs (hal_i2s.c:767-905).
THEOREM LostStay == I2sSpec => LostForEver
<1> DEFINE Kept == \A d \in Dir :
             /\ Lost(d) => Lost(d)'
             /\ ~Lost(d) /\ Lost(d)' => pc[d] = "ring" /\ dma[d] = Null
<1>1. ASSUME I2sInv, ~hung, NEW d \in Dir,
             \/ \E s \in Lengths : OpenLength(d, s)
             \/ Open(d) \/ OpenFails(d) \/ OpenSmashes(d) \/ CloseLock(d) \/ CloseStop(d)
             \/ \E n \in 1 .. MaxBlocks : Call(d, n)
             \/ Trigger(d) \/ Work(d) \/ Irq(d)
      PROVE  Kept
  <2>0. /\ I2sTypeOK /\ pc \in [Dir -> Label] /\ at \in [Dir -> Nat \cup {Null, Foreign}]
        /\ dma[d] \in Half => ptr[d] # Null
        /\ dma[d] \in Half \cup {Null}
        /\ sem[d] = 1 /\ pc[d] = "wait" => at[d] # Null
    BY <1>1 DEF I2sInv, I2sTypeOK, DmaOff, WakeUps
  <2>1. ASSUME NEW e \in Dir, e # d PROVE pc'[e] = pc[e] /\ at'[e] = at[e]
    BY <1>1, <2>0, <2>1
    DEF OpenLength, Open, OpenFails, OpenSmashes, CloseLock, CloseStop, Call, Trigger, Work, Irq, Boundary, Stop,
        Started, Check, Resync, Take, Wait, Wake, Fill, Restart, Record, Again, Copy, Goto, Set
  <2>2. CASE Wait(d)
    <3>1. pc[d] = "ring" /\ at'[d] = ptr[d]
      BY <2>0, <2>2 DEF Wait, Set
    <3> QED BY <2>0, <2>1, <3>1 DEF Lost
  <2>3. CASE Wake(d)
    <3>1. pc[d] = "wait" /\ at[d] # Null /\ pc'[d] # "wait"
      BY <2>0, <2>3 DEF Wake, Copy, Again, Goto, Set
    <3> QED BY <2>1, <3>1 DEF Lost
  <2>4. CASE Irq(d)
    BY <2>4 DEF Irq, Boundary, Stop, Lost
  <2>5. CASE ~Wait(d) /\ ~Wake(d) /\ ~Irq(d)
    <3>1. (pc[d] # "wait" /\ pc'[d] # "wait") \/ UNCHANGED <<pc, at>>
      BY <1>1, <2>0, <2>5
      DEF OpenLength, Open, OpenFails, OpenSmashes, CloseLock, CloseStop, Call, Trigger, Work,
          Started, Check, Resync, Take, Fill, Restart, Record, Again, Copy, Goto, Set
    <3> QED BY <2>1, <3>1 DEF Lost
  <2>6. QED
    BY <2>2, <2>3, <2>4, <2>5
<1>2. I2sInv /\ [I2sNext]_i2sVars => [Kept]_i2sVars
  BY <1>1 DEF I2sNext
<1>3. I2sSpec => [][Kept]_i2sVars
  BY <1>2, DmaInvariance, PTL DEF I2sSpec
<1>4. QED
  BY <1>3 DEF LostForEver
=============================================================================
