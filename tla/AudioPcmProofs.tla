--------------------------- MODULE AudioPcmProofs ----------------------------
(***************************************************************************)
(* Proofs about AudioPcm, for any tasks, any lengths of buffers and writes *)
(* of any length.                                                          *)
(***************************************************************************)
EXTENDS AudioPcm, I2sDmaProofs
-----------------------------------------------------------------------------
(* The driver, seen from outside.                                          *)

\* Tasks are in one role, and no task is NoTask.
LEMMA TaskFacts ==
  /\ \A t \in Owners : t \in Task /\ t # NoTask /\ t \notin Dmics
                       /\ (t \in Players \/ t \in Recorders)
  /\ \A t \in Players : t \in Owners /\ DirOf(t) = "play" /\ t \notin Recorders
  /\ \A t \in Recorders : t \in Owners /\ DirOf(t) = "record" /\ t \notin Players
  /\ \A t \in Dmics : t \in Task /\ t # NoTask /\ DirOf(t) = "record" /\ t \notin Owners
  /\ \A t \in Task : DirOf(t) \in Dir /\ (t \in Owners \/ t \in Dmics)
  /\ \A t \in Owners : DirOf(t) = "play" => t \in Players
BY TaskAssumption DEF Owners, Task, DirOf, Dir

\* Inside a call the task opens and closes nothing, works in its own direction
\* and takes at most one half.
LEMMA DriverStep ==
  ASSUME I2sInv, NEW d \in Dir, Trigger(d) \/ Work(d)
  PROVE  /\ UNCHANGED <<initiate, chan, half, mixed>> /\ Inside(d)
         /\ \A e \in Dir : e # d => pc'[e] = pc[e] /\ size'[e] = size[e]
         /\ size'[d] = size[d] \/ (size[d] > 0 /\ size'[d] = size[d] - 1)
<1>0. /\ pc \in [Dir -> Label] /\ size \in [Dir -> 0 .. MaxBlocks]
      /\ pc[d] \in {"loop", "ring", "wait"} => size[d] > 0
  BY DEF I2sInv, I2sTypeOK, InUse
<1>1. CASE Trigger(d)
  <2>1. UNCHANGED <<initiate, chan, half, mixed, size>> /\ Inside(d)
    BY <1>1 DEF Trigger, lengths, job, Inside
  <2>2. \A e \in Dir : e # d => pc'[e] = pc[e]
    BY <1>0, <1>1 DEF Trigger, Goto, Set
  <2>3. QED
    BY <2>1, <2>2
<1>2. CASE Started(d)
  <2>1. UNCHANGED <<initiate, chan, half, mixed, size>> /\ Inside(d)
    BY <1>2 DEF Started, lengths, job, Inside
  <2>2. \A e \in Dir : e # d => pc'[e] = pc[e]
    BY <1>0, <1>2 DEF Started, Goto, Set
  <2>3. QED
    BY <2>1, <2>2
<1>3. CASE Check(d) \/ Wait(d)
  <2>1. UNCHANGED <<device, size>> /\ Inside(d)
    BY <1>3 DEF Check, Wait, job, Inside
  <2>2. \A e \in Dir : e # d => pc'[e] = pc[e]
    BY <1>0, <1>3 DEF Check, Wait, Goto, Set
  <2>3. QED
    BY <2>1, <2>2 DEF device, lengths
<1>4. CASE Resync(d) \/ Take(d) \/ Wake(d)
  <2>1. Copy(d, ptr[d]) \/ Copy(d, at[d]) \/ \E p : Copy(d, p)
    BY <1>4 DEF Resync, Take, Wake
  <2>2. UNCHANGED device /\ pc[d] \in {"ring", "wait"}
    BY <1>4 DEF Resync, Take, Wake
  <2>3. \A e \in Dir : e # d => pc'[e] = pc[e] /\ size'[e] = size[e]
    BY <1>0, <2>1 DEF Copy, Again, Goto, Set
  <2>4. size'[d] = size[d] - 1
    BY <1>0, <2>1 DEF Copy, Set
  <2>5. QED
    BY <1>0, <2>2, <2>3, <2>4 DEF device, lengths, Inside
<1>5. CASE d = "play" /\ Fill
  <2>1. UNCHANGED device /\ pc[d] = "loop"
    BY <1>5 DEF Fill
  <2>2. \A e \in Dir : e # d => pc'[e] = pc[e] /\ size'[e] = size[e]
    BY <1>0, <1>5 DEF Fill, Again, Goto, Set
  <2>3. size'[d] = size[d] - 1
    BY <1>0, <1>5 DEF Fill, Set
  <2>4. QED
    BY <1>0, <2>1, <2>2, <2>3 DEF device, lengths, Inside
<1>6. CASE d = "play" /\ Restart
  <2>1. UNCHANGED <<initiate, chan, half, mixed, size>> /\ Inside(d)
    BY <1>6 DEF Restart, lengths, Inside
  <2>2. \A e \in Dir : e # d => pc'[e] = pc[e]
    BY <1>0, <1>6 DEF Restart, Again, Goto, Set
  <2>3. QED
    BY <2>1, <2>2
<1>7. CASE d = "record" /\ Record
  <2>1. UNCHANGED <<device, size>> /\ Inside(d)
    BY <1>7 DEF Record, job, Inside
  <2>2. \A e \in Dir : e # d => pc'[e] = pc[e]
    BY <1>0, <1>7 DEF Record, Goto, Set
  <2>3. QED
    BY <2>1, <2>2 DEF device, lengths
<1>8. QED
  BY <1>1, <1>2, <1>3, <1>4, <1>5, <1>6, <1>7 DEF Work

\* The interrupt touches no call.
LEMMA InterruptStep ==
  ASSUME NEW d \in Dir, Irq(d)
  PROVE  UNCHANGED <<initiate, chan, half, mixed, pc, size>>
BY DEF Irq, Boundary, Stop, lengths, job

\* A call begins.
LEMMA CallStep ==
  ASSUME I2sInv, NEW d \in Dir, NEW n, Call(d, n)
  PROVE  /\ UNCHANGED <<initiate, chan, half, mixed>> /\ pc[d] = "idle" /\ pc'[d] = "loop"
         /\ n \in Nat /\ size'[d] = n
         /\ \A e \in Dir : e # d => pc'[e] = pc[e] /\ size'[e] = size[e]
BY BoundAssumption DEF I2sInv, I2sTypeOK, Call, Goto, Set, device, lengths

\* What is passed on is one call of the driver, or none.
LEMMA PassCalls ==
  /\ PassCache => (\E n : Call("play", n)) \/ UNCHANGED i2sVars
  /\ \A t, k : Pass(t, k) => (\E n : Call("play", n)) \/ UNCHANGED i2sVars
<1>1. \A k, r : Took(k, r) => \E n : Call("play", n)
  BY DEF Took
<1>2. QED
  BY <1>1 DEF PassCache, Pass

\* What happens is a step of the driver, or none.
LEMMA DriverNext ==
  ASSUME Next PROVE [I2sNext]_i2sVars
<1>1. ~hung /\ \A d \in Dir : pc[d] # "smashed"
  BY DEF Next, Up, Smashed
<1>2. ASSUME NEW n, NEW d \in Dir, Call(d, n) PROVE I2sNext
  BY <1>1, <1>2 DEF I2sNext, Call
<1>3. ASSUME NEW d \in Dir,
             \/ \E s \in Lengths : OpenLength(d, s)
             \/ Open(d) \/ OpenFails(d) \/ OpenSmashes(d) \/ CloseLock(d) \/ CloseStop(d)
             \/ Trigger(d) \/ Work(d) \/ Irq(d)
      PROVE  I2sNext
  BY <1>1, <1>3 DEF I2sNext
<1>4. ASSUME NEW t \in Task, Step(t) PROVE [I2sNext]_i2sVars
  <2>1. CASE \/ AskOpen(t) \/ AskClose(t) \/ OpenDmic(t) \/ CloseDmic(t)
             \/ KeepRest(t) \/ ReadReturns(t)
             \/ OpenCodec(t) \/ TakeStream(t) \/ CloseCodec(t)
    BY <2>1 DEF AskOpen, AskClose, OpenDmic, CloseDmic, KeepRest, ReadReturns,
                OpenCodec, TakeStream, CloseCodec
  <2>2. ASSUME NEW n \in 1 .. MaxBytes,
               WriteCached(t, n) \/ WriteFirst(t, n) \/ WriteAll(t, n) \/ Read(t, n)
        PROVE  [I2sNext]_i2sVars
    <3>1. \/ UNCHANGED i2sVars
          \/ \E h : Call("play", h)
          \/ \E h : Call("record", h)
      BY <2>2, PassCalls DEF WriteCached, WriteFirst, WriteAll, Read
    <3>2. QED
      BY <1>2, <3>1 DEF Dir
  <2>3. CASE Flush(t) \/ FlushMore(t) \/ WriteMore(t)
    <3>1. (\E h : Call("play", h)) \/ UNCHANGED i2sVars
      BY <2>3, PassCalls DEF Flush, FlushMore, WriteMore
    <3>2. QED
      BY <1>2, <3>1 DEF Dir
  <2>4. CASE OpenI2s(t) \/ CloseStream(t) \/ CloseI2s(t)
    BY <1>3, <2>4, TaskFacts DEF OpenI2s, CloseStream, CloseI2s
  <2>5. CASE Drive(t)
    BY <1>3, <2>5, TaskFacts DEF Drive
  <2>6. QED
    BY <1>4, <2>1, <2>2, <2>3, <2>4, <2>5 DEF Step, Begin, Proceed
<1>5. ASSUME NEW d \in Dir, Interrupt(d) PROVE I2sNext
  BY <1>3, <1>5 DEF Interrupt
<1>6. QED
  BY <1>4, <1>5 DEF Next

\* A stream that no other length has come across takes what the driver takes.
LEMMA SameHalf ==
  ASSUME I2sInv, chan["play"]
  PROVE  /\ Room \in Nat /\ bufLength \in Nat \ {0}
         /\ ~mixed["play"] => Room = bufLength
<1>1. initiate["play"]
  BY DEF I2sInv, InUse, Dir
<1>2. bufLength \in Lengths /\ (~mixed["play"] => half["play"] = bufLength)
  BY <1>1 DEF I2sInv, OneLength, Dir
<1>3. half["play"] \in Lengths \cup {0}
  BY DEF I2sInv, I2sTypeOK, Dir
<1>4. QED
  BY <1>2, <1>3, LengthIsNat, LengthAssumption DEF Room

\* So the cache is one half for it.
LEMMA PassCacheStep ==
  ASSUME I2sInv, chan["play"], PassCache
  PROVE  /\ UNCHANGED <<initiate, chan, half, mixed>> /\ pc'["record"] = pc["record"]
         /\ ~mixed["play"] => size'["play"] = 1
<1>1. CASE \E r \in 0 .. bufLength - 1 : Took(Room, r)
  <2>1. PICK r \in 0 .. bufLength - 1, h \in 1 .. MaxBlocks :
               Room = bufLength * h + r /\ Call("play", h)
    BY <1>1 DEF Took
  <2>2. /\ UNCHANGED <<initiate, chan, half, mixed>> /\ pc'["record"] = pc["record"]
        /\ h \in Nat /\ size'["play"] = h
    BY <2>1, CallStep DEF Dir
  <2>3. ASSUME ~mixed["play"] PROVE h = 1
    <3>1. bufLength = bufLength * h + r /\ bufLength \in Nat \ {0} /\ h \in Nat \ {0}
          /\ r \in Nat
      BY <2>1, <2>2, <2>3, SameHalf
    <3>2. QED
      BY <3>1
  <2>4. QED
    BY <2>2, <2>3
<1>2. CASE Room < bufLength /\ UNCHANGED i2sVars
  <2>1. UNCHANGED <<initiate, chan, half, mixed, pc>>
    BY <1>2 DEF i2sVars, device, lengths
  <2>2. mixed["play"]
    BY <1>2, SameHalf
  <2>3. QED
    BY <2>1, <2>2
<1>3. QED
  BY <1>1, <1>2 DEF PassCache
-----------------------------------------------------------------------------
(* Steps that leave the driver alone.                                      *)

\* Whole halves add up.
LEMMA Halves ==
  \A h, n \in Nat : /\ h * n \in Nat /\ h * 0 = 0 /\ h * 1 = h
                   /\ h * (n - 1) = h * n - h
OBVIOUS

\* Between two calls the driver has nothing to copy.
LEMMA NothingToCopy ==
  I2sInv /\ pc["play"] = "idle" => ToCopy = 0
<1>1. I2sInv /\ pc["play"] = "idle" => size["play"] = 0 /\ half["play"] \in Nat
  BY LengthIsNat DEF I2sInv, I2sTypeOK, InUse, Dir
<1>2. QED
  BY <1>1, Halves DEF ToCopy

\* What the driver has to copy, of whole halves.
LEMMA CopySteps ==
  ASSUME I2sInv
  PROVE  /\ ToCopy \in Nat
         /\ half'["play"] = half["play"] =>
              /\ \A n \in Nat : size'["play"] = n => ToCopy' = Room * n
              /\ size'["play"] = size["play"] - 1 => ToCopy' = ToCopy - Room
              /\ size'["play"] = size["play"] => ToCopy' = ToCopy
<1>1. size["play"] \in Nat /\ half["play"] \in Nat
  BY LengthIsNat DEF I2sInv, I2sTypeOK, Dir
<1>2. QED
  BY <1>1, Halves DEF ToCopy, Room

\* The owner of a stream goes on, and has the driver or leaves it idle.
LEMMA OwnerStays ==
  ASSUME AudioInv, NEW t \in Owners,
         tpc[t] \notin {"closed", "open", "stream", "i2s"},
         tpc'[t] \notin {"closed", "open", "stream", "i2s"},
         \A u \in Task : u # t => tpc'[u] = tpc[u],
         UNCHANGED <<initiate, chan, stream>>,
         \A d \in Dir : d # DirOf(t) => pc'[d] = pc[d],
         tpc'[t] \in Calling \cup {"i2s", "closing"} \/ pc'[DirOf(t)] = "idle"
  PROVE  OneOwner'
<1>1. \A d \in Dir :
        pc'[d] # "idle" =>
          \E u \in Owners : DirOf(u) = d /\ tpc'[u] \in Calling \cup {"i2s", "closing"}
  <2> SUFFICES ASSUME NEW d \in Dir, pc'[d] # "idle"
               PROVE  \E u \in Owners : DirOf(u) = d /\ tpc'[u] \in Calling \cup {"i2s", "closing"}
    OBVIOUS
  <2>1. CASE d = DirOf(t)
    BY <2>1
  <2>2. CASE d # DirOf(t)
    <3>1. PICK u \in Owners : DirOf(u) = d /\ tpc[u] \in Calling \cup {"i2s", "closing"}
      BY <2>2 DEF AudioInv, OneOwner
    <3>2. u # t /\ u \in Task
      BY <2>2, <3>1, TaskFacts
    <3>3. QED
      BY <3>1, <3>2
  <2>3. QED
    BY <2>1, <2>2
<1>2. \A u \in Task : Opened(u)' <=> Opened(u)
  BY DEF Opened
<1>3. QED
  BY <1>1, <1>2, TaskFacts DEF AudioInv, OneOwner, Opened

\* The owner of the play stream goes on, and its own account is right.
LEMMA PlayerBalance ==
  ASSUME AudioInv, NEW t \in Players, Opened(t), Opened(t)',
         \A u \in Task : u # t => tpc'[u] = tpc[u],
         ~mixed'["play"] => Account(t)',
         tpc'[t] = "i2s" => owed' = 0 /\ length' = 0
  PROVE  Balance'
<1>1. \A u \in Players : u # t => ~Opened(u) /\ tpc'[u] = tpc[u]
  BY TaskFacts DEF AudioInv, OneOwner
<1>2. QED
  BY <1>1 DEF Balance, Account, Opened

\* Somebody else goes on.
LEMMA OtherBalance ==
  ASSUME AudioInv, \A u \in Players : tpc'[u] = tpc[u],
         UNCHANGED <<length, rest, owed>>, UNCHANGED <<ToCopy, Room>>,
         mixed["play"] => mixed'["play"]
  PROVE  Balance'
BY DEF AudioInv, Balance, Account, Opened

\* A task asks for its stream.
LEMMA AskOpenKeeps ==
  ASSUME AudioInv, NEW t \in Task, AskOpen(t), I2sInv'
  PROVE  AudioInv'
<1>0. UNCHANGED <<initiate, chan, half, mixed, pc>> /\ I2sTypeOK' /\ UNCHANGED ToCopy
  BY CopySteps DEF AudioInv, AskOpen, i2sVars, device, lengths, job, I2sInv
<1>1. AudioTypeOK'
  BY <1>0, TaskFacts DEF AudioInv, AudioTypeOK, Roles, AskOpen, To
<1>2. OneOwner'
  BY <1>0, TaskFacts DEF AudioInv, AudioTypeOK, OneOwner, Roles, Opened, Calling, AskOpen, To
<1>3. Roles'
  BY <1>0, TaskFacts DEF AudioInv, AudioTypeOK, Roles, AskOpen, To
<1>4. Balance'
  BY <1>0, TaskFacts DEF AudioInv, AudioTypeOK, OneOwner, Roles, Balance, Account, Room, Opened, AskOpen, To
<1>5. QED
  BY <1>1, <1>2, <1>3, <1>4 DEF AudioInv

\* It has the manager's lock, or gives up.
LEMMA OpenCodecKeeps ==
  ASSUME AudioInv, NEW t \in Task, OpenCodec(t), I2sInv'
  PROVE  AudioInv'
<1>0. UNCHANGED <<initiate, chan, half, mixed, pc>> /\ I2sTypeOK' /\ UNCHANGED ToCopy
  BY CopySteps DEF AudioInv, OpenCodec, i2sVars, device, lengths, job, I2sInv
<1>1. AudioTypeOK'
  BY <1>0, TaskFacts DEF AudioInv, AudioTypeOK, Roles, OpenCodec, To
<1>2. OneOwner'
  BY <1>0, TaskFacts DEF AudioInv, AudioTypeOK, OneOwner, Roles, Opened, Calling, OpenCodec, To
<1>3. Roles'
  BY <1>0, TaskFacts DEF AudioInv, AudioTypeOK, Roles, OpenCodec, To
<1>4. Balance'
  BY <1>0, TaskFacts DEF AudioInv, AudioTypeOK, OneOwner, Roles, Balance, Account, Room, Opened, OpenCodec, To
<1>5. QED
  BY <1>1, <1>2, <1>3, <1>4 DEF AudioInv

\* It has the stream, which nobody had.
LEMMA TakeStreamKeeps ==
  ASSUME AudioInv, NEW t \in Task, TakeStream(t), I2sInv'
  PROVE  AudioInv'
<1>0. UNCHANGED <<initiate, chan, half, mixed, pc>> /\ I2sTypeOK' /\ UNCHANGED ToCopy
  BY CopySteps DEF AudioInv, TakeStream, i2sVars, device, lengths, job, I2sInv
<1>1. AudioTypeOK'
  BY <1>0, TaskFacts DEF AudioInv, AudioTypeOK, Roles, TakeStream, To, Set
<1>2. OneOwner'
  BY <1>0, TaskFacts DEF AudioInv, AudioTypeOK, OneOwner, Roles, Opened, Calling, TakeStream, To, Set
<1>3. Roles'
  BY <1>0, TaskFacts DEF AudioInv, AudioTypeOK, Roles, TakeStream, To, Set
<1>4. Balance'
  BY <1>0, TaskFacts DEF AudioInv, AudioTypeOK, OneOwner, Roles, Balance, Account, Room, Opened, TakeStream, To, Set
<1>5. QED
  BY <1>1, <1>2, <1>3, <1>4 DEF AudioInv

\* The stream of recording is used without the driver.
LEMMA OpenDmicKeeps ==
  ASSUME AudioInv, NEW t \in Task, OpenDmic(t), I2sInv'
  PROVE  AudioInv'
<1>0. UNCHANGED <<initiate, chan, half, mixed, pc>> /\ I2sTypeOK' /\ UNCHANGED ToCopy
  BY CopySteps DEF AudioInv, OpenDmic, i2sVars, device, lengths, job, I2sInv
<1>1. AudioTypeOK'
  BY <1>0, TaskFacts DEF AudioInv, AudioTypeOK, Roles, OpenDmic, To, Set
<1>2. OneOwner'
  BY <1>0, TaskFacts DEF AudioInv, AudioTypeOK, OneOwner, Roles, Opened, Calling, OpenDmic, To, Set
<1>3. Roles'
  BY <1>0, TaskFacts DEF AudioInv, AudioTypeOK, Roles, OpenDmic, To, Set
<1>4. Balance'
  BY <1>0, TaskFacts DEF AudioInv, AudioTypeOK, OneOwner, Roles, Balance, Account, Room, Opened, OpenDmic, To, Set
<1>5. QED
  BY <1>1, <1>2, <1>3, <1>4 DEF AudioInv

\* The cache holds the new bytes too.
LEMMA WriteCachedKeeps ==
  ASSUME AudioInv, NEW t \in Task, NEW n \in 1 .. MaxBytes, WriteCached(t, n), I2sInv'
  PROVE  AudioInv'
<1>0. UNCHANGED <<initiate, chan, half, mixed, pc>> /\ I2sTypeOK' /\ UNCHANGED ToCopy
  BY CopySteps DEF AudioInv, WriteCached, i2sVars, device, lengths, job, I2sInv
<1>1. AudioTypeOK'
  BY <1>0, TaskFacts DEF AudioInv, AudioTypeOK, Roles, WriteCached, Playing, Owe
<1>2. OneOwner'
  BY <1>0, TaskFacts DEF AudioInv, AudioTypeOK, OneOwner, Roles, Opened, Calling, WriteCached, Playing
<1>3. Roles'
  BY <1>0, TaskFacts DEF AudioInv, AudioTypeOK, Roles, WriteCached, Playing
<1>4. Balance'
  BY <1>0, TaskFacts DEF AudioInv, AudioTypeOK, OneOwner, Roles, Balance, Account, Room, Opened, WriteCached, Playing, Owe
<1>5. QED
  BY <1>1, <1>2, <1>3, <1>4 DEF AudioInv

\* What the driver did not take is in the cache.
LEMMA KeepRestKeeps ==
  ASSUME AudioInv, NEW t \in Task, KeepRest(t), I2sInv'
  PROVE  AudioInv'
<1>0. UNCHANGED <<initiate, chan, half, mixed, pc>> /\ I2sTypeOK' /\ UNCHANGED ToCopy
  BY CopySteps DEF AudioInv, KeepRest, i2sVars, device, lengths, job, I2sInv
<1>1. AudioTypeOK'
  BY <1>0 DEF AudioInv, AudioTypeOK, KeepRest, Keep, To
<1>2. OneOwner'
  <2>1. t \in Owners /\ DirOf(t) = "play"
    BY TaskFacts DEF AudioInv, Roles, KeepRest
  <2>2. \A u \in Task : u # t => tpc'[u] = tpc[u]
    BY DEF AudioInv, AudioTypeOK, KeepRest, Keep, To
  <2>3. /\ tpc[t] = "rest" /\ tpc'[t] \in {"ready", "smashed"} /\ UNCHANGED stream
        /\ pc'["play"] = "idle"
    BY <1>0, <2>1, TaskFacts DEF AudioInv, AudioTypeOK, KeepRest, Keep, To
  <2>4. QED
    BY <1>0, <2>1, <2>2, <2>3, OwnerStays DEF Calling
<1>3. Roles'
  BY <1>0, TaskFacts DEF AudioInv, AudioTypeOK, Roles, KeepRest, Keep, To
<1>4. Balance'
  <2>1. ToCopy = 0
    BY NothingToCopy DEF AudioInv, KeepRest
  <2>2. t \in Players /\ tpc[t] = "rest" /\ Opened(t) /\ rest \in Nat
    BY TaskFacts DEF AudioInv, AudioTypeOK, Roles, Opened, KeepRest
  <2>3. /\ length' = rest /\ UNCHANGED <<owed, Room>>
        /\ tpc'[t] = IF rest > Room THEN "smashed" ELSE "ready"
        /\ \A u \in Task : u # t => tpc'[u] = tpc[u]
    BY <1>0, <2>2, TaskFacts DEF AudioInv, AudioTypeOK, KeepRest, Keep, To, Room
  <2>4. ASSUME ~mixed'["play"] PROVE Account(t)'
    <3>1. owed = rest /\ rest < Room
      BY <1>0, <2>1, <2>2, <2>4 DEF AudioInv, Balance, Account
    <3>2. Room \in Nat
      BY LengthIsNat DEF AudioInv, I2sInv, I2sTypeOK, Room, Dir
    <3>3. QED
      BY <2>2, <2>3, <3>1, <3>2 DEF Account
  <2>5. Opened(t)' /\ tpc'[t] # "i2s"
    BY <2>3 DEF Opened
  <2>6. QED
    BY <2>2, <2>3, <2>4, <2>5, PlayerBalance
<1>5. QED
  BY <1>1, <1>2, <1>3, <1>4 DEF AudioInv

\* The call has returned.
LEMMA ReadReturnsKeeps ==
  ASSUME AudioInv, NEW t \in Task, ReadReturns(t), I2sInv'
  PROVE  AudioInv'
<1>0. UNCHANGED <<initiate, chan, half, mixed, pc>> /\ I2sTypeOK' /\ UNCHANGED ToCopy
  BY CopySteps DEF AudioInv, ReadReturns, i2sVars, device, lengths, job, I2sInv
<1>1. AudioTypeOK'
  BY <1>0, TaskFacts DEF AudioInv, AudioTypeOK, Roles, ReadReturns, To
<1>2. OneOwner'
  <2>1. t \in Owners /\ DirOf(t) = "record"
    BY TaskFacts DEF AudioInv, Roles, ReadReturns
  <2>2. \A u \in Task : u # t => tpc'[u] = tpc[u]
    BY DEF AudioInv, AudioTypeOK, ReadReturns, To
  <2>3. /\ tpc[t] = "read" /\ tpc'[t] = "ready" /\ UNCHANGED stream
        /\ pc'["record"] = "idle"
    BY <1>0, <2>1 DEF AudioInv, AudioTypeOK, ReadReturns, To
  <2>4. QED
    BY <1>0, <2>1, <2>2, <2>3, OwnerStays DEF Calling
<1>3. Roles'
  BY <1>0, TaskFacts DEF AudioInv, AudioTypeOK, Roles, ReadReturns, To
<1>4. Balance'
  BY <1>0, TaskFacts DEF AudioInv, AudioTypeOK, OneOwner, Roles, Balance, Account, Room, Opened, ReadReturns, To
<1>5. QED
  BY <1>1, <1>2, <1>3, <1>4 DEF AudioInv

\* Nothing is lost by asking.
LEMMA AskCloseKeeps ==
  ASSUME AudioInv, NEW t \in Task, AskClose(t), I2sInv'
  PROVE  AudioInv'
<1>0. UNCHANGED <<initiate, chan, half, mixed, pc>> /\ I2sTypeOK' /\ UNCHANGED ToCopy
  BY CopySteps DEF AudioInv, AskClose, i2sVars, device, lengths, job, I2sInv
<1>1. AudioTypeOK'
  BY <1>0, TaskFacts DEF AudioInv, AudioTypeOK, Roles, AskClose, To
<1>2. OneOwner'
  BY <1>0, TaskFacts DEF AudioInv, AudioTypeOK, OneOwner, Roles, Opened, Calling, AskClose, To
<1>3. Roles'
  BY <1>0, TaskFacts DEF AudioInv, AudioTypeOK, Roles, AskClose, To
<1>4. Balance'
  BY <1>0, TaskFacts DEF AudioInv, AudioTypeOK, OneOwner, Roles, Balance, Account, Room, Opened, AskClose, To
<1>5. QED
  BY <1>1, <1>2, <1>3, <1>4 DEF AudioInv

\* It has the manager's lock.
LEMMA CloseCodecKeeps ==
  ASSUME AudioInv, NEW t \in Task, CloseCodec(t), I2sInv'
  PROVE  AudioInv'
<1>0. UNCHANGED <<initiate, chan, half, mixed, pc>> /\ I2sTypeOK' /\ UNCHANGED ToCopy
  BY CopySteps DEF AudioInv, CloseCodec, i2sVars, device, lengths, job, I2sInv
<1>1. AudioTypeOK'
  BY <1>0, TaskFacts DEF AudioInv, AudioTypeOK, Roles, CloseCodec, To
<1>2. OneOwner'
  BY <1>0, TaskFacts DEF AudioInv, AudioTypeOK, OneOwner, Roles, Opened, Calling, CloseCodec, To
<1>3. Roles'
  BY <1>0, TaskFacts DEF AudioInv, AudioTypeOK, Roles, CloseCodec, To
<1>4. Balance'
  BY <1>0, TaskFacts DEF AudioInv, AudioTypeOK, OneOwner, Roles, Balance, Account, Room, Opened, CloseCodec, To
<1>5. QED
  BY <1>1, <1>2, <1>3, <1>4 DEF AudioInv

\* The driver was not used.
LEMMA CloseDmicKeeps ==
  ASSUME AudioInv, NEW t \in Task, CloseDmic(t), I2sInv'
  PROVE  AudioInv'
<1>0. UNCHANGED <<initiate, chan, half, mixed, pc>> /\ I2sTypeOK' /\ UNCHANGED ToCopy
  BY CopySteps DEF AudioInv, CloseDmic, i2sVars, device, lengths, job, I2sInv
<1>1. AudioTypeOK'
  BY <1>0, TaskFacts DEF AudioInv, AudioTypeOK, Roles, CloseDmic, To, Set
<1>2. OneOwner'
  BY <1>0, TaskFacts DEF AudioInv, AudioTypeOK, OneOwner, Roles, Opened, Calling, CloseDmic, To, Set
<1>3. Roles'
  BY <1>0, TaskFacts DEF AudioInv, AudioTypeOK, Roles, CloseDmic, To, Set
<1>4. Balance'
  BY <1>0, TaskFacts DEF AudioInv, AudioTypeOK, OneOwner, Roles, Balance, Account, Room, Opened, CloseDmic, To, Set
<1>5. QED
  BY <1>1, <1>2, <1>3, <1>4 DEF AudioInv

-----------------------------------------------------------------------------
(* Steps that use the driver.                                              *)

\* Its task finds the driver open, and idle.
LEMMA PlayerCalls ==
  ASSUME AudioInv, NEW t \in Task, Playing(t)
  PROVE  /\ t \in Players /\ t \in Owners /\ DirOf(t) = "play" /\ tpc[t] = "ready"
         /\ Opened(t) /\ chan["play"] /\ pc["play"] = "idle"
<1>1. t \in Players /\ t \in Owners /\ DirOf(t) = "play" /\ tpc[t] = "ready" /\ Opened(t)
  BY TaskFacts DEF Playing, Opened
<1>2. chan["play"]
  BY <1>1 DEF AudioInv, OneOwner
<1>3. ASSUME NEW u \in Owners, DirOf(u) = "play", tpc[u] \in Calling \cup {"i2s", "closing"}
      PROVE  FALSE
  BY <1>1, <1>3, TaskFacts DEF AudioInv, OneOwner, Opened, Calling
<1>4. QED
  BY <1>1, <1>2, <1>3 DEF AudioInv, OneOwner, Dir

\* A write fills up the cache and passes it on.
LEMMA WriteFirstKeeps ==
  ASSUME AudioInv, NEW t \in Task, NEW n \in 1 .. MaxBytes, WriteFirst(t, n), I2sInv'
  PROVE  AudioInv'
<1>1. /\ t \in Players /\ t \in Owners /\ DirOf(t) = "play" /\ tpc[t] = "ready"
      /\ tpc' = [tpc EXCEPT ![t] = "first"] /\ tpc'[t] = "first"
      /\ \A u \in Task : u # t => tpc'[u] = tpc[u]
  BY TaskFacts DEF AudioInv, AudioTypeOK, WriteFirst, Playing, To
<1>2. /\ UNCHANGED <<initiate, chan, mgr, stream, length, mixed, Room>>
      /\ pc'["record"] = pc["record"]
      /\ ~mixed["play"] => ToCopy' = Room
      /\ Room \in Nat
  <2>1. chan["play"] /\ PassCache
    BY PlayerCalls DEF WriteFirst
  <2>2. /\ UNCHANGED <<initiate, chan, half, mixed>> /\ pc'["record"] = pc["record"]
        /\ ~mixed["play"] => size'["play"] = 1
    BY <2>1, PassCacheStep DEF AudioInv
  <2>3. Room \in Nat
    BY <2>1, SameHalf DEF AudioInv
  <2>4. QED
    BY <2>2, <2>3, CopySteps, Halves DEF WriteFirst, AudioInv, Room
<1>3. /\ rest' \in Nat /\ owed' \in Nat
      /\ ~mixed["play"] => owed' = ToCopy' + rest'
  <2>1. /\ rest' = n - (Room - length) /\ length + n >= Room
        /\ length \in Nat /\ n \in Nat /\ owed \in Nat
    BY SizeAssumption DEF AudioInv, AudioTypeOK, WriteFirst
  <2>2. CASE mixed["play"]
    BY <1>2, <2>1, <2>2 DEF WriteFirst, Owe
  <2>3. CASE ~mixed["play"]
    <3>1. owed = length /\ owed' = owed + n
      BY <1>1, <2>3 DEF AudioInv, Balance, Account, WriteFirst, Owe
    <3>2. QED
      BY <1>2, <2>1, <2>3, <3>1
  <2>4. QED
    BY <2>2, <2>3
<1>4. AudioTypeOK'
  BY <1>1, <1>2, <1>3 DEF AudioInv, AudioTypeOK, I2sInv
<1>5. OneOwner'
  BY <1>1, <1>2, OwnerStays DEF Dir, Calling
<1>6. Roles'
  BY <1>1, <1>2, TaskFacts DEF AudioInv, Roles
<1>7. Balance'
  <2>1. ~mixed'["play"] => Account(t)'
    BY <1>1, <1>2, <1>3 DEF Account
  <2>2. Opened(t) /\ Opened(t)' /\ tpc'[t] # "i2s"
    BY <1>1 DEF Opened
  <2>3. QED
    BY <1>1, <2>1, <2>2, PlayerBalance
<1>8. QED
  BY <1>4, <1>5, <1>6, <1>7 DEF AudioInv

\* Bytes that are passed on are copied, or kept.
LEMMA PassKeeps ==
  ASSUME AudioInv, NEW t \in Players, NEW k \in Nat, Pass(t, k), I2sInv',
         tpc[t] \in {"ready", "first"}, pc["play"] = "idle",
         UNCHANGED <<mgr, stream>>, owed' \in Nat, ~mixed["play"] => owed' = k
  PROVE  AudioInv'
<1>1. t \in Task /\ t \in Owners /\ DirOf(t) = "play" /\ Opened(t) /\ chan["play"]
  BY TaskFacts DEF AudioInv, OneOwner, Opened
<1>2. /\ Room \in Nat /\ bufLength \in Nat \ {0}
      /\ ~mixed["play"] => Room = bufLength
  BY <1>1, SameHalf DEF AudioInv
<1>3. CASE \E r \in 0 .. bufLength - 1 : Took(k, r) /\ rest' = r /\ length' = 0 /\ To(t, "rest")
  <2>1. PICK r \in 0 .. bufLength - 1, h \in 1 .. MaxBlocks :
               k = bufLength * h + r /\ Call("play", h) /\ rest' = r
    BY <1>3 DEF Took
  <2>2. /\ tpc' = [tpc EXCEPT ![t] = "rest"] /\ tpc'[t] = "rest" /\ length' = 0
        /\ \A u \in Task : u # t => tpc'[u] = tpc[u]
    BY <1>1, <1>3 DEF AudioInv, AudioTypeOK, To
  <2>3. /\ h \in Nat /\ size'["play"] = h /\ pc'["record"] = pc["record"]
        /\ UNCHANGED <<initiate, chan, half, mixed>>
    BY <2>1, CallStep DEF AudioInv, Dir
  <2>4. rest' \in Nat
    BY <1>2, <2>1
  <2>5. AudioTypeOK'
    BY <1>1, <2>2, <2>4 DEF AudioInv, AudioTypeOK, I2sInv
  <2>6. OneOwner'
    BY <1>1, <2>2, <2>3, OwnerStays DEF Dir, Calling
  <2>7. Roles'
    BY <1>1, <2>2, TaskFacts DEF AudioInv, Roles
  <2>8. Balance'
    <3>1. ASSUME ~mixed'["play"] PROVE Account(t)'
      <4>1. ToCopy' = Room * h
        BY <2>3, CopySteps DEF AudioInv
      <4>2. owed' = ToCopy' + rest' /\ rest' < Room
        BY <1>2, <2>1, <2>3, <3>1, <4>1
      <4>3. Room' = Room
        BY <2>3 DEF Room
      <4>4. QED
        BY <2>2, <4>2, <4>3 DEF Account
    <3>2. Opened(t)' /\ tpc'[t] # "i2s"
      BY <2>2 DEF Opened
    <3>3. QED
      BY <1>1, <2>2, <3>1, <3>2, PlayerBalance
  <2>9. QED
    BY <2>5, <2>6, <2>7, <2>8 DEF AudioInv
<1>4. CASE k < bufLength /\ Keep(t, k) /\ rest' = 0 /\ UNCHANGED i2sVars
  <2>1. /\ tpc'[t] = IF k > Room THEN "smashed" ELSE "ready"
        /\ \A u \in Task : u # t => tpc'[u] = tpc[u]
        /\ length' = k /\ rest' = 0
    BY <1>1, <1>4 DEF AudioInv, AudioTypeOK, Keep, To
  <2>2. UNCHANGED <<initiate, chan, half, mixed, pc>>
    BY <1>4 DEF i2sVars, device, lengths
  <2>3. AudioTypeOK'
    BY <1>1, <1>4, <2>1 DEF AudioInv, AudioTypeOK, I2sInv, Keep, To
  <2>4. OneOwner'
    BY <1>1, <2>1, <2>2, OwnerStays
  <2>5. Roles'
    BY <1>1, <2>1, TaskFacts DEF AudioInv, Roles
  <2>6. Balance'
    <3>1. ~mixed'["play"] => Account(t)'
      BY <1>2, <1>4, <2>1, <2>2 DEF Account, Room
    <3>2. Opened(t)' /\ tpc'[t] # "i2s"
      BY <2>1 DEF Opened
    <3>3. QED
      BY <1>1, <2>1, <3>1, <3>2, PlayerBalance
  <2>7. QED
    BY <2>3, <2>4, <2>5, <2>6 DEF AudioInv
<1>5. QED
  BY <1>3, <1>4 DEF Pass

\* With the cache passed on, what is left of the write follows.
LEMMA WriteMoreKeeps ==
  ASSUME AudioInv, NEW t \in Task, WriteMore(t), I2sInv'
  PROVE  AudioInv'
<1>1. t \in Players /\ tpc[t] = "first" /\ pc["play"] = "idle" /\ Pass(t, rest)
      /\ UNCHANGED <<mgr, stream, owed>>
  BY TaskFacts DEF AudioInv, Roles, WriteMore
<1>2. rest \in Nat /\ owed \in Nat /\ (~mixed["play"] => owed = rest)
  BY <1>1, NothingToCopy DEF AudioInv, AudioTypeOK, Balance, Account
<1>3. QED
  BY <1>1, <1>2, PassKeeps

\* With an empty cache the write is passed on as it is.
LEMMA WriteAllKeeps ==
  ASSUME AudioInv, NEW t \in Task, NEW n \in 1 .. MaxBytes, WriteAll(t, n), I2sInv'
  PROVE  AudioInv'
<1>1. /\ t \in Players /\ tpc[t] = "ready" /\ pc["play"] = "idle"
      /\ Pass(t, n) /\ UNCHANGED <<mgr, stream>> /\ length = 0
      /\ owed' = IF mixed["play"] THEN 0 ELSE owed + n
  BY PlayerCalls DEF WriteAll, Owe
<1>2. owed' \in Nat /\ n \in Nat /\ (~mixed["play"] => owed' = n)
  BY <1>1 DEF AudioInv, AudioTypeOK, Balance, Account
<1>3. QED
  BY <1>1, <1>2, PassKeeps

\* The first half of a flush is passed on.
LEMMA FlushKeeps ==
  ASSUME AudioInv, NEW t \in Task, Flush(t), I2sInv'
  PROVE  AudioInv'
<1>1. /\ t \in Players /\ t \in Owners /\ DirOf(t) = "play" /\ tpc[t] = "ready"
      /\ tpc' = [tpc EXCEPT ![t] = "flush"] /\ tpc'[t] = "flush"
      /\ \A u \in Task : u # t => tpc'[u] = tpc[u]
  BY TaskFacts DEF AudioInv, AudioTypeOK, Flush, Playing, To
<1>2. /\ UNCHANGED <<initiate, chan, mgr, stream, mixed>>
      /\ pc'["record"] = pc["record"]
      /\ ~mixed["play"] => ToCopy' = Room
      /\ Room \in Nat
  <2>1. chan["play"] /\ PassCache
    BY PlayerCalls DEF Flush
  <2>2. /\ UNCHANGED <<initiate, chan, half, mixed>> /\ pc'["record"] = pc["record"]
        /\ ~mixed["play"] => size'["play"] = 1
    BY <2>1, PassCacheStep DEF AudioInv
  <2>3. Room \in Nat
    BY <2>1, SameHalf DEF AudioInv
  <2>4. QED
    BY <2>2, <2>3, CopySteps, Halves DEF Flush, AudioInv
<1>3. /\ rest' \in Nat /\ length' = 0 /\ owed' \in Nat
      /\ ~mixed["play"] => owed' = ToCopy'
  <2>1. rest' \in Nat /\ length' = 0 /\ length \in Nat /\ owed \in Nat
    BY DEF AudioInv, AudioTypeOK, Flush
  <2>2. CASE mixed["play"]
    BY <2>1, <2>2 DEF Flush, Owe
  <2>3. CASE ~mixed["play"]
    <3>1. owed = length /\ owed' = owed + (Room - length)
      BY <1>1, <2>3 DEF AudioInv, Balance, Account, Flush, Owe
    <3>2. QED
      BY <1>2, <2>1, <2>3, <3>1
  <2>4. QED
    BY <2>2, <2>3
<1>4. AudioTypeOK'
  BY <1>1, <1>2, <1>3 DEF AudioInv, AudioTypeOK, I2sInv
<1>5. OneOwner'
  BY <1>1, <1>2, OwnerStays DEF Dir, Calling
<1>6. Roles'
  BY <1>1, <1>2, TaskFacts DEF AudioInv, Roles
<1>7. Balance'
  <2>1. ~mixed'["play"] => Account(t)'
    BY <1>1, <1>2, <1>3 DEF Account
  <2>2. Opened(t) /\ Opened(t)' /\ tpc'[t] # "i2s"
    BY <1>1 DEF Opened
  <2>3. QED
    BY <1>1, <2>1, <2>2, PlayerBalance
<1>8. QED
  BY <1>4, <1>5, <1>6, <1>7 DEF AudioInv

\* The rest of it.
LEMMA FlushMoreKeeps ==
  ASSUME AudioInv, NEW t \in Task, FlushMore(t), I2sInv'
  PROVE  AudioInv'
<1>1. /\ t \in Players /\ t \in Owners /\ DirOf(t) = "play" /\ tpc[t] = "flush"
      /\ pc["play"] = "idle" /\ UNCHANGED <<mgr, stream, length>>
      /\ Opened(t) /\ chan["play"]
  BY TaskFacts DEF AudioInv, Roles, OneOwner, Opened, FlushMore
<1>2. /\ ~mixed["play"] => owed = 0 /\ length = 0 /\ Room > 0
      /\ Room \in Nat /\ owed \in Nat
  BY <1>1, NothingToCopy, SameHalf DEF AudioInv, AudioTypeOK, Balance, Account
<1>3. CASE rest > 0 /\ PassCache /\ rest' = rest - 1 /\ Owe(Room) /\ UNCHANGED tpc
  <2>1. /\ UNCHANGED <<initiate, chan, half, mixed>> /\ pc'["record"] = pc["record"]
        /\ ~mixed["play"] => size'["play"] = 1
    BY <1>1, <1>3, PassCacheStep DEF AudioInv
  <2>2. owed' \in Nat /\ (~mixed["play"] => owed' = Room)
    BY <1>2, <1>3 DEF Owe
  <2>3. AudioTypeOK'
    BY <1>1, <1>3, <2>2 DEF AudioInv, AudioTypeOK, I2sInv
  <2>4. OneOwner'
    BY <1>1, <1>3, <2>1, OwnerStays DEF Dir, Calling
  <2>5. Roles'
    BY <1>1, <1>3, TaskFacts DEF AudioInv, Roles
  <2>6. Balance'
    <3>1. ~mixed["play"] => ToCopy' = Room
      BY <1>2, <2>1, CopySteps, Halves DEF AudioInv
    <3>2. ~mixed'["play"] => Account(t)'
      BY <1>1, <1>2, <1>3, <2>1, <2>2, <3>1 DEF Account
    <3>3. QED
      BY <1>1, <1>3, <3>2, PlayerBalance DEF Opened
  <2>7. QED
    BY <2>3, <2>4, <2>5, <2>6 DEF AudioInv
<1>4. CASE To(t, "ready") /\ UNCHANGED <<i2sVars, rest, owed>>
  <2>1. /\ tpc' = [tpc EXCEPT ![t] = "ready"] /\ tpc'[t] = "ready"
        /\ \A u \in Task : u # t => tpc'[u] = tpc[u]
    BY <1>1, <1>4 DEF AudioInv, AudioTypeOK, To
  <2>2. UNCHANGED <<initiate, chan, half, mixed, pc>>
    BY <1>4 DEF i2sVars, device, lengths
  <2>3. AudioTypeOK'
    BY <1>1, <1>4, <2>1 DEF AudioInv, AudioTypeOK, I2sInv
  <2>4. OneOwner'
    BY <1>1, <2>1, <2>2, OwnerStays
  <2>5. Roles'
    BY <1>1, <2>1, TaskFacts DEF AudioInv, Roles
  <2>6. Balance'
    <3>1. ~mixed'["play"] => Account(t)'
      BY <1>1, <1>2, <1>4, <2>1, <2>2 DEF Account, Room
    <3>2. Opened(t)'
      BY <2>1 DEF Opened
    <3>3. QED
      BY <1>1, <2>1, <3>1, <3>2, PlayerBalance
  <2>7. QED
    BY <2>3, <2>4, <2>5, <2>6 DEF AudioInv
<1>5. QED
  BY <1>3, <1>4 DEF FlushMore

\* A recorder calls.
LEMMA ReadKeeps ==
  ASSUME AudioInv, NEW t \in Task, NEW n \in 1 .. MaxBytes, Read(t, n), I2sInv'
  PROVE  AudioInv'
<1>1. /\ t \in Recorders /\ t \in Owners /\ DirOf(t) = "record" /\ tpc[t] = "ready"
      /\ tpc' = [tpc EXCEPT ![t] = "read"] /\ tpc'[t] = "read"
      /\ \A u \in Task : u # t => tpc'[u] = tpc[u]
      /\ UNCHANGED <<mgr, stream, length, rest, owed>>
  BY TaskFacts DEF AudioInv, AudioTypeOK, Read, To
<1>2. PICK h \in 1 .. MaxBlocks : Call("record", h)
  BY DEF Read
<1>3. /\ UNCHANGED <<initiate, chan, half, mixed>>
      /\ pc'["play"] = pc["play"] /\ size'["play"] = size["play"]
  BY <1>2, CallStep DEF AudioInv, Dir
<1>4. AudioTypeOK'
  BY <1>1 DEF AudioInv, AudioTypeOK, I2sInv
<1>5. OneOwner'
  BY <1>1, <1>3, OwnerStays DEF Dir, Calling
<1>6. Roles'
  BY <1>1, TaskFacts DEF AudioInv, Roles
<1>7. Balance'
  BY <1>1, <1>3, TaskFacts, CopySteps, OtherBalance DEF AudioInv, Room
<1>8. QED
  BY <1>4, <1>5, <1>6, <1>7 DEF AudioInv

\* The lock of the driver is taken.
LEMMA CloseI2sKeeps ==
  ASSUME AudioInv, NEW t \in Task, CloseI2s(t), I2sInv'
  PROVE  AudioInv'
<1>1. /\ t \in Owners /\ DirOf(t) \in Dir /\ tpc[t] = "closing"
      /\ UNCHANGED <<mgr, stream, tpc, length, rest, owed>>
  BY TaskFacts DEF AudioInv, Roles, CloseI2s, pcmVars
<1>2. /\ UNCHANGED <<initiate, chan, half, mixed, size>>
      /\ \A d \in Dir : d # DirOf(t) => pc'[d] = pc[d]
  BY DEF AudioInv, I2sInv, I2sTypeOK, CloseI2s, CloseLock, Goto, Set, lengths, job
<1>3. AudioTypeOK'
  BY <1>1 DEF AudioInv, AudioTypeOK, I2sInv
<1>4. OneOwner'
  BY <1>1, <1>2, OwnerStays
<1>5. Roles'
  BY <1>1 DEF AudioInv, Roles
<1>6. Balance'
  BY <1>1, <1>2, CopySteps, OtherBalance DEF AudioInv, Room
<1>7. QED
  BY <1>3, <1>4, <1>5, <1>6 DEF AudioInv
-----------------------------------------------------------------------------
(* Opening and closing the driver.                                         *)

\* The owner of a stream opens the I2S, or keeps the stream in vain.
LEMMA OpenI2sKeeps ==
  ASSUME AudioInv, NEW t \in Task, OpenI2s(t), I2sInv'
  PROVE  AudioInv'
<1>1. /\ t \in Owners /\ DirOf(t) \in Dir /\ tpc[t] = "i2s" /\ stream[DirOf(t)] = t
      /\ UNCHANGED <<mgr, stream, length, rest, owed>>
  BY TaskFacts DEF AudioInv, OneOwner, Opened, Roles, OpenI2s
<1>2. /\ UNCHANGED size
      /\ \A d \in Dir : d # DirOf(t) =>
           /\ pc'[d] = pc[d] /\ initiate'[d] = initiate[d] /\ chan'[d] = chan[d]
           /\ half'[d] = half[d] /\ (mixed[d] => mixed'[d])
      /\ \/ tpc'[t] = "i2s" /\ pc'[DirOf(t)] # "idle"
         \/ tpc'[t] = "ready" /\ chan'[DirOf(t)] /\ pc'[DirOf(t)] = "idle"
         \/ tpc'[t] = "closed" /\ pc'[DirOf(t)] = "idle"
      /\ tpc' \in [Task -> {"closed", "open", "stream", "i2s", "ready", "first", "rest",
                           "flush", "read", "close", "closing", "smashed"}]
      /\ \A u \in Task : u # t => tpc'[u] = tpc[u]
  <2>1. CASE (\E s \in Lengths : OpenLength(DirOf(t), s)) /\ UNCHANGED tpc
    BY <1>1, <2>1
    DEF AudioInv, AudioTypeOK, I2sInv, I2sTypeOK, OpenLength, Goto, Set, job
  <2>2. CASE Open(DirOf(t)) /\ To(t, "ready")
    BY <1>1, <2>2
    DEF AudioInv, AudioTypeOK, I2sInv, I2sTypeOK, Open, Goto, Set, To, job
  <2>3. CASE OpenFails(DirOf(t)) /\ To(t, "closed")
    BY <1>1, <2>3
    DEF AudioInv, AudioTypeOK, I2sInv, I2sTypeOK, OpenFails, Goto, Set, To, job
  <2>4. CASE OpenSmashes(DirOf(t)) /\ UNCHANGED tpc
    BY <1>1, <2>4
    DEF AudioInv, AudioTypeOK, I2sInv, I2sTypeOK, OpenSmashes, Goto, Set, device, lengths, job
  <2>5. QED
    BY <2>1, <2>2, <2>3, <2>4 DEF OpenI2s
<1>3. AudioTypeOK'
  BY <1>1, <1>2 DEF AudioInv, AudioTypeOK, I2sInv
<1>4. \A u \in Owners : u # t /\ Opened(u) => DirOf(u) # DirOf(t)
  BY <1>1, TaskFacts DEF AudioInv, OneOwner
<1>5. OneOwner'
  <2>1. \A u \in Task : Opened(u)' => Opened(u)
    BY <1>1, <1>2 DEF Opened
  <2>2. \A d \in Dir : initiate'[d] => stream'[d] \in Owners
    BY <1>1, <1>2 DEF AudioInv, OneOwner
  <2>3. ASSUME NEW u \in Owners
        PROVE  /\ tpc'[u] = "i2s" /\ pc'[DirOf(u)] = "idle" => ~initiate'[DirOf(u)]
               /\ Opened(u)' /\ tpc'[u] # "i2s" => chan'[DirOf(u)]
    <3>1. CASE u = t
      BY <1>2, <3>1 DEF Opened
    <3>2. CASE u # t
      BY <1>1, <1>2, <1>4, <3>2, TaskFacts DEF AudioInv, OneOwner, Opened
    <3>3. QED
      BY <3>1, <3>2
  <2>4. ASSUME NEW d \in Dir, pc'[d] # "idle"
        PROVE  \E u \in Owners : DirOf(u) = d /\ tpc'[u] \in Calling \cup {"i2s", "closing"}
    <3>1. CASE d = DirOf(t)
      BY <1>1, <1>2, <2>4, <3>1
    <3>2. CASE d # DirOf(t)
      <4>1. PICK u \in Owners : DirOf(u) = d /\ tpc[u] \in Calling \cup {"i2s", "closing"}
        BY <1>2, <2>4, <3>2 DEF AudioInv, OneOwner
      <4>2. u # t /\ u \in Task
        BY <3>2, <4>1, TaskFacts
      <4>3. QED
        BY <1>2, <4>1, <4>2
    <3>3. QED
      BY <3>1, <3>2
  <2>5. QED
    BY <1>1, <2>1, <2>2, <2>3, <2>4 DEF AudioInv, OneOwner
<1>6. Roles'
  BY <1>1, <1>2, TaskFacts DEF AudioInv, Roles
<1>7. Balance'
  <2>1. CASE t \in Recorders
    BY <1>1, <1>2, <2>1, TaskFacts, CopySteps, OtherBalance DEF AudioInv, Room, Dir
  <2>2. CASE t \in Players
    <3>1. owed = 0 /\ length = 0
      BY <1>1, <2>2 DEF AudioInv, Balance
    <3>2. \A u \in Players : u # t => ~Opened(u) /\ tpc'[u] = tpc[u]
      BY <1>2, <1>4, <2>2, TaskFacts
    <3>3. ASSUME ~mixed'["play"] PROVE Account(t)'
      <4>1. tpc'[t] = "ready" => Room' > 0
        <5>1. ASSUME chan'["play"] PROVE Room' > 0
          <6>1. initiate'["play"]
            BY <5>1 DEF I2sInv, InUse, Dir
          <6>2. bufLength' \in Lengths /\ half'["play"] = bufLength'
            BY <3>3, <6>1 DEF I2sInv, OneLength, Dir
          <6>3. QED
            BY <6>2, LengthAssumption DEF Room
        <5>2. QED
          BY <1>2, <2>2, <5>1, TaskFacts
      <4>2. QED
        BY <1>1, <1>2, <3>1, <4>1 DEF Account
    <3>4. QED
      BY <1>1, <1>2, <3>1, <3>2, <3>3 DEF Balance, Account, Opened
  <2>3. QED
    BY <1>1, <2>1, <2>2, TaskFacts
<1>8. QED
  BY <1>3, <1>5, <1>6, <1>7 DEF AudioInv

\* The owner has stopped the DMA and gives its stream back.
LEMMA CloseStreamKeeps ==
  ASSUME AudioInv, NEW t \in Task, CloseStream(t), I2sInv'
  PROVE  AudioInv'
<1>1. /\ t \in Owners /\ DirOf(t) \in Dir /\ tpc[t] = "closing" /\ stream[DirOf(t)] = t
      /\ mgr = t /\ mgr' = NoTask /\ UNCHANGED <<rest, size>>
  BY TaskFacts DEF AudioInv, OneOwner, Opened, Roles, CloseStream, CloseStop, job
<1>2. /\ stream' = [stream EXCEPT ![DirOf(t)] = NoTask]
      /\ tpc' = [tpc EXCEPT ![t] = "closed"]
      /\ tpc'[t] = "closed" /\ \A u \in Task : u # t => tpc'[u] = tpc[u]
  BY <1>1 DEF AudioInv, AudioTypeOK, CloseStream, Set, To
<1>3. /\ ~initiate'[DirOf(t)] /\ pc'[DirOf(t)] = "idle"
      /\ \A d \in Dir : d # DirOf(t) =>
           initiate'[d] = initiate[d] /\ chan'[d] = chan[d] /\ pc'[d] = pc[d]
                /\ stream'[d] = stream[d] /\ half'[d] = half[d] /\ mixed'[d] = mixed[d]
  BY <1>1, <1>2 DEF AudioInv, AudioTypeOK, I2sInv, I2sTypeOK, CloseStream, CloseStop, Goto, Set
<1>4. /\ t \in Players => length' = 0 /\ owed' = 0
      /\ t \notin Players => UNCHANGED <<length, owed>>
  BY DEF CloseStream
<1>5. AudioTypeOK'
  BY <1>1, <1>2, <1>4, SizeAssumption DEF AudioInv, AudioTypeOK, I2sInv
<1>6. \A u \in Task : u # t /\ Opened(u) => DirOf(u) # DirOf(t)
  BY <1>1, TaskFacts DEF AudioInv, OneOwner
<1>7. OneOwner'
  <2>1. \A u \in Task : Opened(u)' => u # t /\ Opened(u)
    BY <1>2 DEF Opened
  <2>2. \A d \in Dir : initiate'[d] => stream'[d] \in Owners
    BY <1>3 DEF AudioInv, OneOwner
  <2>3. \A u \in Task : Opened(u)' => stream'[DirOf(u)] = u
    BY <1>3, <1>6, <2>1, TaskFacts DEF AudioInv, OneOwner
  <2>4. ASSUME NEW u \in Owners
        PROVE  /\ tpc'[u] = "i2s" /\ pc'[DirOf(u)] = "idle" => ~initiate'[DirOf(u)]
               /\ Opened(u)' /\ tpc'[u] # "i2s" => chan'[DirOf(u)]
    <3>1. CASE u = t
      BY <1>2, <3>1 DEF Opened
    <3>2. CASE u # t
      BY <1>2, <1>3, <1>6, <3>2, TaskFacts DEF AudioInv, OneOwner, Opened
    <3>3. QED
      BY <3>1, <3>2
  <2>5. ASSUME NEW d \in Dir, pc'[d] # "idle"
        PROVE  \E u \in Owners : DirOf(u) = d /\ tpc'[u] \in Calling \cup {"i2s", "closing"}
    <3>1. PICK u \in Owners : DirOf(u) = d /\ tpc[u] \in Calling \cup {"i2s", "closing"}
      BY <1>3, <2>5 DEF AudioInv, OneOwner
    <3>2. u # t /\ u \in Task
      BY <1>3, <2>5, <3>1, TaskFacts
    <3>3. QED
      BY <1>2, <3>1, <3>2
  <2>6. QED
    BY <2>2, <2>3, <2>4, <2>5 DEF OneOwner
<1>8. Roles'
  BY <1>1, <1>2, TaskFacts DEF AudioInv, Roles
<1>9. Balance'
  <2>1. CASE t \in Recorders
    BY <1>1, <1>2, <1>3, <1>4, <2>1, TaskFacts, CopySteps, OtherBalance DEF AudioInv, Room, Dir
  <2>2. CASE t \in Players
    <3>1. \A u \in Players : ~Opened(u)' /\ tpc'[u] \in {"closed", "open", "stream"}
      BY <1>2, <1>6, <2>2, TaskFacts DEF Opened
    <3>2. QED
      BY <1>4, <2>2, <3>1 DEF Balance, Account
  <2>3. QED
    BY <1>1, <2>1, <2>2, TaskFacts
<1>10. QED
  BY <1>5, <1>7, <1>8, <1>9 DEF AudioInv

\* The task in the driver goes on, and what it copies is not owed any more.
LEMMA DriveKeeps ==
  ASSUME AudioInv, NEW t \in Task, Drive(t), I2sInv'
  PROVE  AudioInv'
<1>1. /\ t \in Owners /\ DirOf(t) \in Dir /\ tpc[t] \in Calling
      /\ UNCHANGED <<mgr, stream, tpc, length, rest>>
  BY TaskFacts DEF AudioInv, Roles, Drive, Calling
<1>2. /\ UNCHANGED <<initiate, chan, half, mixed>> /\ Inside(DirOf(t))
      /\ \A d \in Dir : d # DirOf(t) => pc'[d] = pc[d] /\ size'[d] = size[d]
      /\ \/ size'[DirOf(t)] = size[DirOf(t)]
         \/ size[DirOf(t)] > 0 /\ size'[DirOf(t)] = size[DirOf(t)] - 1
  BY <1>1, DriverStep DEF AudioInv, Drive
<1>3. OneOwner'
  BY <1>1, <1>2, OwnerStays DEF Calling
<1>4. Roles'
  BY <1>1 DEF AudioInv, Roles
<1>5. CASE t \in Recorders
  <2>1. UNCHANGED owed
    BY <1>1, <1>5, TaskFacts DEF Drive, Copied
  <2>2. AudioTypeOK'
    BY <1>1, <2>1 DEF AudioInv, AudioTypeOK, I2sInv
  <2>3. Balance'
    BY <1>1, <1>2, <1>5, <2>1, TaskFacts, CopySteps, OtherBalance DEF AudioInv, Room, Dir
  <2>4. QED
    BY <1>3, <1>4, <2>2, <2>3 DEF AudioInv
<1>6. CASE t \in Players
  <2>1. DirOf(t) = "play" /\ chan["play"] /\ Opened(t) /\ tpc[t] # "read"
    BY <1>1, <1>6, TaskFacts DEF AudioInv, OneOwner, Roles, Opened, Calling
  <2>2. /\ ToCopy \in Nat /\ ToCopy' \in Nat /\ rest \in Nat /\ owed \in Nat /\ Room \in Nat
    <3>1. ToCopy' \in Nat
      BY LengthIsNat, Halves DEF I2sInv, I2sTypeOK, ToCopy, Dir
    <3>2. QED
      BY <2>1, <3>1, CopySteps, SameHalf DEF AudioInv, AudioTypeOK
  <2>3. ASSUME ~mixed["play"]
        PROVE  owed' = owed + ToCopy' - ToCopy
    <3>1. CASE size' = size
      BY <1>2, <2>1, <2>2, <3>1, CopySteps DEF Drive, Copied, AudioInv
    <3>2. CASE size' # size
      <4>1. size'["play"] = size["play"] - 1
        <5>1. size' \in [Dir -> 0 .. MaxBlocks] /\ size \in [Dir -> 0 .. MaxBlocks]
          BY DEF AudioInv, I2sInv, I2sTypeOK
        <5>2. \E d \in Dir : size'[d] # size[d]
          BY <3>2, <5>1
        <5>3. QED
          BY <1>2, <2>1, <5>2
      <4>2. unit["play"] = Room
        BY <1>2, <2>1, <2>3, SameHalf DEF AudioInv, I2sInv, OneLength, Dir
      <4>3. owed' = owed + (-unit["play"])
        BY <2>1, <2>3, <3>2 DEF Drive, Copied, Owe
      <4>4. ToCopy' = ToCopy - Room
        BY <1>2, <4>1, CopySteps DEF AudioInv
      <4>5. QED
        BY <2>2, <4>2, <4>3, <4>4
    <3>3. QED
      BY <3>1, <3>2
  <2>4. ~mixed["play"] => Account(t)
    BY <1>6 DEF AudioInv, Balance
  <2>5. tpc[t] \in {"first", "rest", "flush"}
    BY <1>1, <2>1 DEF Calling
  <2>6. owed' \in Nat
    <3>1. CASE mixed["play"]
      BY <2>1, <2>2, <3>1 DEF Drive, Copied, Owe
    <3>2. CASE ~mixed["play"]
      BY <2>2, <2>3, <2>4, <2>5, <3>2 DEF Account
    <3>3. QED
      BY <3>1, <3>2
  <2>7. AudioTypeOK'
    BY <1>1, <2>6 DEF AudioInv, AudioTypeOK, I2sInv
  <2>8. Balance'
    <3>1. ASSUME ~mixed'["play"] PROVE Account(t)'
      <4>1. ~mixed["play"] /\ Room' = Room
        BY <1>2, <3>1 DEF Room
      <4>2. QED
        BY <1>1, <2>2, <2>3, <2>4, <2>5, <4>1 DEF Account
    <3>2. Opened(t)' /\ tpc'[t] # "i2s"
      BY <1>1, <2>1, <2>5 DEF Opened
    <3>3. QED
      BY <1>1, <1>6, <2>1, <3>1, <3>2, PlayerBalance
  <2>9. QED
    BY <1>3, <1>4, <2>7, <2>8 DEF AudioInv
<1>7. QED
  BY <1>1, <1>5, <1>6, TaskFacts

\* The interrupt.
LEMMA InterruptKeeps ==
  ASSUME AudioInv, NEW d \in Dir, Interrupt(d), I2sInv'
  PROVE  AudioInv'
<1>1. UNCHANGED <<initiate, chan, half, mixed, pc, size, mgr, stream, tpc, length, rest, owed>>
  BY InterruptStep DEF Interrupt, pcmVars
<1>2. AudioTypeOK' /\ OneOwner' /\ Roles'
  BY <1>1 DEF AudioInv, AudioTypeOK, I2sInv, OneOwner, Opened, Roles
<1>3. Balance'
  BY <1>1, CopySteps, OtherBalance DEF AudioInv, Room
<1>4. QED
  BY <1>2, <1>3 DEF AudioInv
-----------------------------------------------------------------------------
(* The invariant.                                                          *)

\* Everything is closed at first.
LEMMA InitKeeps == Init => AudioInv
<1> SUFFICES ASSUME Init PROVE AudioInv
  OBVIOUS
<1>1. I2sInv
  BY I2sInitKeeps DEF Init
<1>2. \A t \in Task : tpc[t] = "closed" /\ ~Opened(t)
  BY DEF Init, Opened
<1>3. AudioTypeOK
  BY <1>1 DEF Init, AudioTypeOK, I2sInv
<1>4. OneOwner
  BY <1>2, TaskFacts DEF Init, I2sInit, OneOwner
<1>5. Roles
  BY <1>2, TaskFacts DEF Init, Roles
<1>6. Balance
  BY <1>2, TaskFacts DEF Init, Balance, Account
<1>7. QED
  BY <1>1, <1>3, <1>4, <1>5, <1>6 DEF AudioInv

\* Every step keeps the invariant.
LEMMA NextKeeps == AudioInv /\ [Next]_vars => AudioInv'
<1> SUFFICES ASSUME AudioInv, [Next]_vars PROVE AudioInv'
  OBVIOUS
<1>1. CASE Next
  <2>1. I2sInv'
    BY <1>1, DriverNext, I2sNextKeeps DEF AudioInv
  <2>2. ASSUME NEW t \in Task, Begin(t) PROVE AudioInv'
    BY <2>1, <2>2, AskOpenKeeps, AskCloseKeeps, OpenDmicKeeps, CloseDmicKeeps,
       WriteCachedKeeps, WriteFirstKeeps, WriteAllKeeps, ReadKeeps, FlushKeeps DEF Begin
  <2>3. ASSUME NEW t \in Task, Proceed(t) PROVE AudioInv'
    BY <2>1, <2>3, OpenI2sKeeps, CloseStreamKeeps, WriteMoreKeeps, KeepRestKeeps,
       FlushMoreKeeps, ReadReturnsKeeps DEF Proceed
  <2>4. ASSUME NEW t \in Task,
               Drive(t) \/ OpenCodec(t) \/ TakeStream(t) \/ CloseCodec(t) \/ CloseI2s(t)
        PROVE  AudioInv'
    BY <2>1, <2>4, DriveKeeps, OpenCodecKeeps, TakeStreamKeeps, CloseCodecKeeps, CloseI2sKeeps
  <2>5. ASSUME NEW d \in Dir, Interrupt(d) PROVE AudioInv'
    BY <2>1, <2>5, InterruptKeeps
  <2>6. QED
    BY <1>1, <2>2, <2>3, <2>4, <2>5 DEF Next, Step
<1>2. CASE UNCHANGED vars
  <2>1. UNCHANGED i2sVars /\ UNCHANGED pcmVars
    BY <1>2 DEF vars
  <2>2. I2sInv'
    BY <2>1, I2sNextKeeps DEF AudioInv
  <2>3. UNCHANGED <<initiate, chan, half, mixed, pc, size, mgr, stream, tpc, length, rest, owed>>
    BY <2>1 DEF i2sVars, device, lengths, job, pcmVars
  <2>4. AudioTypeOK' /\ OneOwner' /\ Roles'
    BY <2>2, <2>3 DEF AudioInv, AudioTypeOK, I2sInv, OneOwner, Opened, Roles
  <2>5. Balance'
    BY <2>3, CopySteps, OtherBalance DEF AudioInv, Room
  <2>6. QED
    BY <2>2, <2>4, <2>5 DEF AudioInv
<1>3. QED
  BY <1>1, <1>2

\* Every stream and the driver behind it have one task at a time, which calls the
\* driver only in the state the call is meant for; and while recording has not
\* been opened with another length of buffer than playback, the bytes of a write
\* are accounted for at every step of it (audio_pcm.c:128-427, hal_i2s.c:997).
THEOREM Invariance == Spec => []AudioInv
BY InitKeeps, NextKeeps, PTL DEF Spec

\* The calls of audio_pcm.c use the driver as I2sDma says it is used: every step
\* is one of its steps, or leaves it alone.
THEOREM ImplementsDriver == Spec => I2sSpec
<1>1. Init => I2sInit
  BY DEF Init
<1>2. [Next]_vars => [I2sNext]_i2sVars
  BY DriverNext DEF vars
<1>3. QED
  BY <1>1, <1>2, PTL DEF Spec, I2sSpec

\* A task that keeps up copies to and from the half that the DMA has left,
\* whatever is opened, written, flushed and closed, as long as no stream of
\* another length is opened next to its own (hal_i2s.c:752-905, 997).
THEOREM StreamsKeepInPhase == Spec => []InPhase
BY ImplementsDriver, KeepsInPhase, PTL

\* The interrupt waits for the driver's lock only behind a late task.
THEOREM StreamsHangLate == Spec => []HangsOnlyWhenLate
BY ImplementsDriver, HangsLate, PTL

\* Only two lengths of buffer at a time make the driver write beyond a buffer:
\* the pointer wraps in time however late the task is (hal_i2s.c:752-905, 997).
THEOREM StreamsStayWithin == Spec => []WithinBuffer
<1>1. AudioInv => WithinBuffer
  BY DEF AudioInv, I2sInv
<1>2. QED
  BY <1>1, Invariance, PTL

\* A write loses no byte, however it is split, and what a flush adds is played,
\* as long as recording is not opened with another length of buffer
\* (audio_pcm.c:128-219, hal_i2s.c:997).
THEOREM WritesLoseNothing == Spec => []NothingLost
<1>1. AudioInv => NothingLost
  BY DEF AudioInv, Balance, Account, NothingLost
<1>2. QED
  BY <1>1, Invariance, PTL

\* A task that waits for a stream of card 0 with the manager's lock keeps both for
\* ever: its owner cannot close it (audio_pcm.c:262, 280, 407).
THEOREM DeadlockStays == Spec => [][Deadlocked => Deadlocked']_vars
<1>1. ASSUME AudioInv, Deadlocked, Next PROVE Deadlocked'
  <2>1. PICK t \in Owners : tpc[t] = "stream" /\ stream[DirOf(t)] \in Owners
    BY <1>1 DEF Deadlocked
  <2>2. /\ t \in Task /\ mgr = t /\ DirOf(t) \in Dir /\ t # NoTask /\ NoTask \notin Owners
        /\ stream[DirOf(t)] # NoTask
    BY <1>1, <2>1, TaskFacts DEF AudioInv, Roles
  <2>3. ASSUME NEW u \in Task, Step(u)
        PROVE  tpc'[t] = "stream" /\ stream'[DirOf(t)] = stream[DirOf(t)]
    <3>1. u # t
      BY <2>1, <2>2, <2>3, TaskFacts
      DEF Step, Begin, Proceed, AskOpen, AskClose, OpenDmic, CloseDmic, WriteCached, WriteFirst,
          WriteAll, Read, Flush, Playing, OpenI2s, CloseStream, WriteMore, KeepRest, FlushMore,
          ReadReturns, Drive, Calling, OpenCodec, TakeStream, CloseCodec, CloseI2s
    <3>2. tpc'[t] = tpc[t]
      BY <1>1, <2>2, <2>3, <3>1
      DEF AudioInv, AudioTypeOK, To,
          Step, Begin, Proceed, AskOpen, AskClose, OpenDmic, CloseDmic, WriteCached, WriteFirst,
          WriteAll, Pass, Keep, Read, Flush, Playing, OpenI2s, CloseStream, WriteMore, KeepRest, FlushMore,
          ReadReturns, Drive, OpenCodec, TakeStream, CloseCodec, CloseI2s, pcmVars
    <3>3. CASE UNCHANGED stream
      BY <2>1, <3>2, <3>3
    <3>4. CASE TakeStream(u) \/ CloseStream(u)
      BY <1>1, <2>2, <3>1, <3>4, TaskFacts DEF AudioInv, Roles, TakeStream, CloseStream
    <3>5. CASE OpenDmic(u)
      BY <1>1, <2>1, <2>2, <3>2, <3>5 DEF AudioInv, AudioTypeOK, OpenDmic, Set
    <3>6. CASE CloseDmic(u)
      <4>1. stream["record"] \notin Owners
        BY <1>1, <3>6, TaskFacts DEF AudioInv, OneOwner, Opened, CloseDmic
      <4>2. QED
        BY <1>1, <2>1, <2>2, <3>2, <3>6, <4>1 DEF AudioInv, AudioTypeOK, CloseDmic, Set
    <3>7. QED
      BY <2>3, <3>3, <3>4, <3>5, <3>6
      DEF Step, Begin, Proceed, AskOpen, AskClose, WriteCached, WriteFirst, WriteAll, Read, Flush,
          OpenI2s, WriteMore, KeepRest, FlushMore, ReadReturns, Drive, OpenCodec, CloseCodec,
          CloseI2s, pcmVars
  <2>4. ASSUME NEW d \in Dir, Interrupt(d)
        PROVE  tpc'[t] = "stream" /\ stream'[DirOf(t)] = stream[DirOf(t)]
    BY <2>1, <2>4 DEF Interrupt, pcmVars
  <2>5. tpc'[t] = "stream" /\ stream'[DirOf(t)] = stream[DirOf(t)]
    BY <1>1, <2>3, <2>4 DEF Next
  <2>6. QED
    BY <2>1, <2>5 DEF Deadlocked
<1>2. AudioInv /\ [Next]_vars => [Deadlocked => Deadlocked']_vars
  BY <1>1
<1>3. QED
  BY <1>2, Invariance, PTL DEF Spec

\* A stream is locked by tasks of its direction.
OwnStreams == \A d \in Dir : stream[d] # NoTask => stream[d] \in Task /\ DirOf(stream[d]) = d

LEMMA StreamsOwned == Spec => []OwnStreams
<1>1. Init => OwnStreams
  BY DEF Init, OwnStreams
<1>2. ASSUME AudioInv, OwnStreams, Next PROVE OwnStreams'
  <2>1. ASSUME NEW t \in Task, Step(t) PROVE OwnStreams'
    <3>1. \/ UNCHANGED stream
          \/ stream' = Set(stream, DirOf(t), t)
          \/ stream' = Set(stream, DirOf(t), NoTask)
      BY <2>1, TaskFacts
      DEF Step, Begin, Proceed, AskOpen, AskClose, OpenDmic, CloseDmic, WriteCached, WriteFirst,
          WriteAll, Read, Flush, OpenI2s, CloseStream, WriteMore, KeepRest, FlushMore,
          ReadReturns, Drive, OpenCodec, TakeStream, CloseCodec, CloseI2s, pcmVars
    <3> QED BY <1>2, <3>1, TaskFacts DEF AudioInv, AudioTypeOK, OwnStreams, Set
  <2>2. ASSUME NEW d \in Dir, Interrupt(d) PROVE OwnStreams'
    BY <1>2, <2>2 DEF Interrupt, pcmVars, OwnStreams
  <2>3. QED
    BY <1>2, <2>1, <2>2 DEF Next
<1>3. AudioInv /\ OwnStreams /\ [Next]_vars => OwnStreams'
  BY <1>2 DEF vars, pcmVars, OwnStreams
<1>4. QED
  BY <1>1, <1>3, Invariance, PTL DEF Spec

\* The lock that a failed snd_pcm_open keeps is never given back: the task that
\* has it waits for it when it tries again, and no other gets it.
THEOREM LeakStays == Spec => LeakedForEver
<1> DEFINE Kept == \A d \in Dir : Leaked(d) =>
             /\ Leaked(d)'
             /\ \A t \in Task : DirOf(t) = d => ~Opened(t)'
<1>1. ASSUME AudioInv, OwnStreams, Next, NEW d \in Dir, Leaked(d)
      PROVE  Leaked(d)' /\ \A t \in Task : DirOf(t) = d => ~Opened(t)'
  <2> DEFINE o == stream[d]
  <2>1. /\ o \in Owners /\ o \in Task /\ o # NoTask /\ ~Opened(o)
        /\ \A u \in Task : DirOf(u) = d => ~Opened(u)
    BY <1>1, TaskFacts DEF AudioInv, OneOwner, Leaked
  <2>2. ASSUME NEW t \in Task, Step(t)
        PROVE  stream'[d] = stream[d] /\ \A u \in Task : DirOf(u) = d => ~Opened(u)'
    <3>1. \A u \in Task : u # t => tpc'[u] = tpc[u]
      BY <1>1, <2>2
      DEF AudioInv, AudioTypeOK, To,
          Step, Begin, Proceed, AskOpen, AskClose, OpenDmic, CloseDmic, WriteCached, WriteFirst,
          WriteAll, Pass, Keep, Read, Flush, Playing, OpenI2s, CloseStream, WriteMore, KeepRest, FlushMore,
          ReadReturns, Drive, OpenCodec, TakeStream, CloseCodec, CloseI2s, pcmVars
    <3>2. CASE DirOf(t) # d
      <4>1. stream'[d] = stream[d]
        BY <1>1, <2>2, <3>2, TaskFacts
        DEF AudioInv, AudioTypeOK, Set,
            Step, Begin, Proceed, AskOpen, AskClose, OpenDmic, CloseDmic, WriteCached, WriteFirst,
            WriteAll, Read, Flush, OpenI2s, CloseStream, WriteMore, KeepRest, FlushMore,
            ReadReturns, Drive, OpenCodec, TakeStream, CloseCodec, CloseI2s, pcmVars
      <4> QED BY <2>1, <3>1, <3>2, <4>1 DEF Opened
    <3>3. CASE DirOf(t) = d
      <4>1. tpc[t] \in {"closed", "open", "stream"}
        BY <2>1, <3>3 DEF Opened
      <4>2. ~OpenDmic(t) /\ ~(tpc[t] = "stream" /\ TakeStream(t))
        BY <2>1, <3>3, TaskFacts DEF OpenDmic, TakeStream
      <4>3. AskOpen(t) \/ OpenCodec(t)
        BY <2>2, <4>1, <4>2
        DEF Step, Begin, Proceed, AskOpen, AskClose, CloseDmic, WriteCached, WriteFirst,
            WriteAll, Read, Flush, Playing, OpenI2s, CloseStream, WriteMore, KeepRest, FlushMore,
            ReadReturns, Drive, Calling, TakeStream, CloseCodec, CloseI2s
      <4>4. UNCHANGED stream /\ tpc'[t] \in {"closed", "open", "stream"}
        BY <1>1, <4>3 DEF AudioInv, AudioTypeOK, AskOpen, OpenCodec, To
      <4> QED BY <2>1, <3>1, <4>4 DEF Opened
    <3> QED BY <3>2, <3>3
  <2>3. ASSUME NEW e \in Dir, Interrupt(e)
        PROVE  stream'[d] = stream[d] /\ \A u \in Task : DirOf(u) = d => ~Opened(u)'
    BY <2>1, <2>3 DEF Interrupt, pcmVars, Opened
  <2>4. stream'[d] = stream[d] /\ \A u \in Task : DirOf(u) = d => ~Opened(u)'
    BY <1>1, <2>2, <2>3 DEF Next
  <2>5. DirOf(o) = d
    BY <1>1, <2>1 DEF OwnStreams
  <2>6. QED
    BY <2>1, <2>4, <2>5 DEF Leaked
<1>2. AudioInv /\ OwnStreams /\ [Next]_vars => [Kept]_vars
  BY <1>1
<1>3. Spec => [][Kept]_vars
  BY <1>2, Invariance, StreamsOwned, PTL DEF Spec
<1>4. QED
  BY <1>3 DEF LeakedForEver
=============================================================================
