------------------------------- MODULE I2sDma -------------------------------
(***************************************************************************)
(* The I2S driver with DMA (src/driver/chip/hal_i2s.c).  For each direction *)
(* there is a buffer of two halves, which a circular DMA plays or records   *)
(* one after the other, and an interrupt at the end of each half.  A task   *)
(* fills, or empties, the half that the DMA has just left; it waits on a    *)
(* semaphore when there is none.  The interrupt stops a DMA whose task is   *)
(* far too late.  Both directions share the lock of HAL_I2S_Trigger, and    *)
(* one I2S_BUF_LENGTH: whoever is opened last sets the length of a half for *)
(* both, while the other's buffer and DMA keep the length they had.         *)
(*                                                                         *)
(* One task per direction is modelled, as snd_pcm_open makes sure.  Its     *)
(* sections with interrupts disabled are single steps; a boundary of the    *)
(* DMA and its interrupt are one, since the interrupt is served before the  *)
(* DMA is through with the next half.  Pointers are offsets, in bytes, into *)
(* the buffer of their direction; the samples are left out.  A copy beyond  *)
(* the end of the buffer may overwrite anything: there the model ends.      *)
(***************************************************************************)
EXTENDS Integers

CONSTANTS
  Null,      \* the pointer NULL, and a DMA that is off
  Foreign,   \* a pointer that is not into the buffer of its direction
  Lengths,   \* bytes in a half of the buffers that are asked for
  MaxBlocks, \* bound: halves a call reads or writes
  MaxBehind  \* bound, by direction: halves that end before a task gets to them

Dir == {"play", "record"}
NoDir == "none"
Half == {0, 1}

\* Fault: the DMA is stopped at the end of every half.
ThresholdOfOne == 1

\* UNDERRUN_THRESHOLD and OVERRUN_THRESHOLD
THRESHOLD == 3

ASSUME PointerAssumption == Null \notin Nat /\ Foreign \notin Nat /\ Null # Foreign
ASSUME LengthAssumption == Lengths \subseteq Nat \ {0}
ASSUME BoundAssumption == MaxBlocks \in Nat /\ MaxBehind \in [Dir -> Nat]

VARIABLES
  initiate,  \* isTxInitiate, isRxInitiate
  chan,      \* has HAL_I2S_Open got a buffer and a DMA channel?
  running,   \* txRunning, rxRunning
  bufLength, \* half of I2S_BUF_LENGTH, which both directions use
  half,      \* half of the bufSize that the direction was opened with
  bytes,     \* half of txLength, rxLength and of the buffer
  mixed,     \* history: I2S_BUF_LENGTH was another's since the direction was opened
  ptr,       \* writePointer, readPointer
  halves,    \* txHalfCallCount, rxHalfCallCount
  ends,      \* txEndCallCount, rxEndCallCount
  wanted,    \* isTxSemaphore, isRxSemaphore: the task asks to be woken up
  sem,       \* txReady, rxReady
  dma,       \* the half the DMA works on, which txDmaPointer follows
  lock,      \* devTriggerLock: the direction whose task holds it
  pc,        \* where the task of this direction is
  at,        \* lastWritePointer, lastReadPointer of a task that waits
  size,      \* halves left to read or write ...
  unit,      \* ... of writeSize, readSize bytes each
  hung,      \* the interrupt waits for devTriggerLock: nothing runs any more
  late       \* history: a half ended before its predecessor was taken

counts == <<halves, ends>>
ring == <<ptr, counts, wanted, sem, late>>
lengths == <<bufLength, half, bytes, mixed>>
device == <<initiate, chan, running, dma, lock, hung, lengths>>
job == <<size, unit>>
i2sVars == <<device, ring, pc, at, job>>

Set(f, d, v) == [f EXCEPT ![d] = v]
Goto(d, label) == pc' = Set(pc, d, label)

I2sInit ==
  /\ initiate = [d \in Dir |-> FALSE] /\ chan = [d \in Dir |-> FALSE]
  /\ running = [d \in Dir |-> FALSE]
  /\ bufLength = 0
  /\ half = [d \in Dir |-> 0] /\ bytes = [d \in Dir |-> 0]
  /\ mixed = [d \in Dir |-> FALSE]
  /\ ptr = [d \in Dir |-> Null]
  /\ halves = [d \in Dir |-> 0] /\ ends = [d \in Dir |-> 0]
  /\ wanted = [d \in Dir |-> FALSE] /\ sem = [d \in Dir |-> 0]
  /\ dma = [d \in Dir |-> Null]
  /\ lock = NoDir
  /\ pc = [d \in Dir |-> "idle"]
  /\ at = [d \in Dir |-> Null]
  /\ size = [d \in Dir |-> 0] /\ unit = [d \in Dir |-> 0]
  /\ hung = FALSE
  /\ late = [d \in Dir |-> FALSE]
-----------------------------------------------------------------------------
(* HAL_I2S_Open and HAL_I2S_Close.                                         *)

Clear(d) == halves' = Set(halves, d, 0) /\ ends' = Set(ends, d, 0)

\* The length is set for both directions.  (While isTxInitiate is set the call
\* fails and changes nothing.)
OpenLength(d, s) ==
  /\ pc[d] = "idle" /\ ~initiate[d]
  /\ initiate' = Set(initiate, d, TRUE)
  /\ bufLength' = s /\ half' = Set(half, d, s)
  /\ mixed' = [e \in Dir |-> e # d /\ (mixed[e] \/ (initiate[e] /\ s # half[e]))]
  /\ Goto(d, "opening")
  /\ UNCHANGED <<chan, running, dma, lock, hung, bytes, ring, at, job>>

\* The buffer and the DMA get the length that I2S_BUF_LENGTH has by then: one that
\* the other direction has set meanwhile, and not the same each time it is read.
Sized(d) ==
  \E s \in Lengths : (mixed[d] \/ s = bufLength) /\ bytes' = Set(bytes, d, s)

Open(d) ==
  /\ pc[d] = "opening"
  /\ Sized(d)
  /\ chan' = Set(chan, d, TRUE)
  /\ Clear(d)
  /\ sem' = Set(sem, d, 0)
  /\ Goto(d, "idle")
  /\ UNCHANGED <<initiate, running, dma, lock, hung, bufLength, half, mixed,
                 ptr, wanted, late, at, job>>

\* No memory, or no DMA channel: isTxInitiate stays set.
OpenFails(d) ==
  /\ pc[d] = "opening"
  /\ Sized(d)
  /\ Clear(d)
  /\ Goto(d, "idle")
  /\ UNCHANGED <<initiate, chan, running, dma, lock, hung, bufLength, half, mixed,
                 ptr, wanted, sem, late, at, job>>

\* More is cleared, or given to the DMA, than has been allocated.
OpenSmashes(d) ==
  /\ pc[d] = "opening" /\ mixed[d]
  /\ Goto(d, "smashed")
  /\ UNCHANGED <<device, ring, at, job>>

\* HAL_I2S_Trigger(false, d) waits for its lock ...
CloseLock(d) ==
  /\ pc[d] = "idle" /\ initiate[d]
  /\ lock = NoDir
  /\ lock' = d
  /\ Goto(d, "closing")
  /\ UNCHANGED <<initiate, chan, running, dma, hung, lengths, ring, at, job>>

\* ... stops the DMA and gives the lock back; the rest of HAL_I2S_Close.
CloseStop(d) ==
  /\ pc[d] = "closing"
  /\ lock' = NoDir
  /\ dma' = Set(dma, d, Null) /\ running' = Set(running, d, FALSE)
  /\ initiate' = Set(initiate, d, FALSE) /\ chan' = Set(chan, d, FALSE)
  /\ half' = Set(half, d, 0) /\ bytes' = Set(bytes, d, 0)
  /\ mixed' = Set(mixed, d, FALSE)
  /\ ptr' = Set(ptr, d, Null)
  /\ Clear(d)
  /\ late' = Set(late, d, FALSE)
  /\ Goto(d, "idle")
  /\ UNCHANGED <<bufLength, wanted, sem, at, job, hung>>
-----------------------------------------------------------------------------
(* HAL_I2S_Write_DMA and HAL_I2S_Read_DMA.                                 *)

\* What a half is, is looked up once.  Fewer bytes are refused and change nothing.
Call(d, n) ==
  /\ pc[d] = "idle" /\ chan[d]
  /\ n \in 1 .. MaxBlocks
  /\ size' = Set(size, d, n) /\ unit' = Set(unit, d, bufLength)
  /\ Goto(d, "loop")
  /\ UNCHANGED <<device, ring, at>>

\* With no half left the call returns.
Again(d, n) ==
  \/ n > 0 /\ Goto(d, "loop") /\ UNCHANGED unit
  \/ n = 0 /\ Goto(d, "idle") /\ unit' = Set(unit, d, 0)

First(d) == IF ptr[d] = Null THEN 0 ELSE ptr[d]

\* Fault: the end of the buffer is not its start.
WrapLate(d, p) == IF p + unit[d] <= 2 * bufLength THEN p + unit[d] ELSE 0

\* The pointer behind a half at p, by the length of the buffer that was opened last.
Wrap(d, p) == IF p + unit[d] < 2 * bufLength THEN p + unit[d] ELSE 0

\* Does a half that is written to p reach beyond the buffer?
PastEnd(d, p) == d = "play" /\ p + unit[d] > 2 * bytes[d]

\* Playback that is not running: a half is filled; with both full it starts.
Fill ==
  /\ pc["play"] = "loop" /\ ~running["play"]
  /\ ptr' = Set(ptr, "play", Wrap("play", First("play")))
  /\ size' = Set(size, "play", size["play"] - 1)
  /\ \/ PastEnd("play", First("play"))
        /\ Goto("play", "smashed") /\ UNCHANGED unit
     \/ ~PastEnd("play", First("play")) /\ Wrap("play", First("play")) = 0
        /\ Goto("play", "trigger") /\ UNCHANGED unit
     \/ ~PastEnd("play", First("play")) /\ Wrap("play", First("play")) # 0
        /\ Again("play", size["play"] - 1)
  /\ UNCHANGED <<device, counts, wanted, sem, at, late>>

\* Recording that is not running starts.
Record ==
  /\ pc["record"] = "loop" /\ ~running["record"]
  /\ ptr' = Set(ptr, "record", First("record"))
  /\ late' = Set(late, "record", late["record"] /\ ptr["record"] # Null)
  /\ Goto("record", "trigger")
  /\ UNCHANGED <<device, counts, wanted, sem, at, job>>

\* HAL_I2S_Trigger(true, d): with the lock, the DMA starts at the first half ...
Trigger(d) ==
  /\ pc[d] = "trigger"
  /\ lock = NoDir
  /\ lock' = d
  /\ dma' = Set(dma, d, 0)
  /\ late' = Set(late, d, d = "record" /\ late[d])
  /\ Goto(d, "started")
  /\ UNCHANGED <<initiate, chan, running, hung, lengths, ptr, counts, wanted, sem, at, job>>

\* ... and, when the task gets to it, is said to run.
Started(d) ==
  /\ pc[d] = "started"
  /\ running' = Set(running, d, TRUE)
  /\ lock' = NoDir
  /\ Goto(d, IF d = "play" THEN "restart" ELSE "loop")
  /\ UNCHANGED <<initiate, chan, dma, hung, lengths, ring, at, job>>

\* HAL_I2S_Write_DMA says so again.
Restart ==
  /\ pc["play"] = "restart"
  /\ running' = Set(running, "play", TRUE)
  /\ Again("play", size["play"])
  /\ UNCHANGED <<initiate, chan, dma, lock, hung, lengths, ring, at, size>>

\* It runs; what follows is done with interrupts disabled.
Check(d) ==
  /\ pc[d] = "loop" /\ running[d]
  /\ Goto(d, "ring")
  /\ UNCHANGED <<device, ring, at, job>>

\* What lies behind a foreign pointer may be the start of the buffer.
After(d, p) == IF p = Foreign THEN {0, Foreign} ELSE {Wrap(d, p)}

\* A half is copied to or from p.
Copy(d, p) ==
  /\ \E q \in After(d, p) : ptr' = Set(ptr, d, q)
  /\ size' = Set(size, d, size[d] - 1)
  /\ \/ PastEnd(d, p) /\ Goto(d, "smashed") /\ UNCHANGED unit
     \/ ~PastEnd(d, p) /\ Again(d, size[d] - 1)

\* Where a half begins, by the length of the buffer that was opened last.
HalfAt(h) == IF h = 0 THEN 0 ELSE bufLength

\* Fault: the half the DMA has come to is taken.
ResyncToDma(d) ==
  /\ pc[d] = "ring"
  /\ halves[d] > 0 /\ ends[d] > 0
  /\ Clear(d)
  /\ Copy(d, IF d = "play" THEN HalfAt(dma[d]) ELSE Foreign)
  /\ late' = Set(late, d, d = "record")
  /\ UNCHANGED <<device, wanted, sem, at>>

\* Two interrupts or more have come since: underrun or overrun, and a new start
\* from the half the DMA is not at - in the code, for recording, from that of
\* the playback buffer.
Resync(d) ==
  /\ pc[d] = "ring"
  /\ halves[d] > 0 /\ ends[d] > 0
  /\ Clear(d)
  /\ Copy(d, IF d = "play" THEN HalfAt(1 - dma[d]) ELSE Foreign)
  /\ late' = Set(late, d, d = "record")
  /\ UNCHANGED <<device, wanted, sem, at>>

\* One has come: the half is ready.
Take(d) ==
  /\ pc[d] = "ring"
  /\ \/ /\ halves[d] > 0 /\ ends[d] = 0
        /\ halves' = Set(halves, d, halves[d] - 1) /\ UNCHANGED ends
     \/ /\ halves[d] = 0 /\ ends[d] > 0
        /\ ends' = Set(ends, d, ends[d] - 1) /\ UNCHANGED halves
  /\ Copy(d, ptr[d])
  /\ UNCHANGED <<device, wanted, sem, at, late>>

\* None: the task asks to be woken up, and waits.
Wait(d) ==
  /\ pc[d] = "ring"
  /\ halves[d] = 0 /\ ends[d] = 0
  /\ wanted' = Set(wanted, d, TRUE)
  /\ at' = Set(at, d, ptr[d])
  /\ Goto(d, "wait")
  /\ UNCHANGED <<device, ptr, counts, sem, job, late>>

\* It is: with interrupts disabled again, one of each kind is taken off, and the
\* half that was waited for is copied, however many have come.
Wake(d) ==
  /\ pc[d] = "wait"
  /\ sem[d] = 1
  /\ sem' = Set(sem, d, 0)
  /\ halves' = Set(halves, d, IF halves[d] > 0 THEN halves[d] - 1 ELSE 0)
  /\ ends' = Set(ends, d, IF ends[d] > 0 THEN ends[d] - 1 ELSE 0)
  /\ Copy(d, at[d])
  /\ at' = Set(at, d, Null)
  /\ UNCHANGED <<device, wanted, late>>
-----------------------------------------------------------------------------
(* The interrupt.                                                          *)

Count(d) ==
  IF dma[d] = 0
  THEN halves' = Set(halves, d, halves[d] + 1) /\ UNCHANGED ends
  ELSE ends' = Set(ends, d, ends[d] + 1) /\ UNCHANGED halves

InBound(d) == halves[d] + ends[d] < MaxBehind[d]

OneMore(d) == (IF dma[d] = 0 THEN halves[d] ELSE ends[d]) + 1

\* Fault: nobody is woken up.
BoundaryUnannounced(d) ==
  /\ dma[d] \in Half /\ OneMore(d) < THRESHOLD /\ InBound(d)
  /\ Count(d)
  /\ dma' = Set(dma, d, 1 - dma[d])
  /\ wanted' = Set(wanted, d, FALSE)
  /\ late' = Set(late, d, late[d] \/ halves[d] + ends[d] > 0)
  /\ UNCHANGED <<initiate, chan, running, ptr, sem, lock, hung, lengths, pc, at, job>>

\* I2S_DMAHalfCallback, I2S_DMAEndCallback
Boundary(d) ==
  /\ dma[d] \in Half /\ OneMore(d) < THRESHOLD /\ InBound(d)
  /\ Count(d)
  /\ dma' = Set(dma, d, 1 - dma[d])
  /\ sem' = Set(sem, d, IF wanted[d] THEN 1 ELSE sem[d])
  /\ wanted' = Set(wanted, d, FALSE)
  /\ late' = Set(late, d, late[d] \/ halves[d] + ends[d] > 0)
  /\ UNCHANGED <<initiate, chan, running, ptr, lock, hung, lengths, pc, at, job>>

\* ... for the third time of its kind: I2S_DMA_BUFFER_CHECK_Threshold stops the
\* DMA with HAL_I2S_Trigger, which waits for its lock.
Stop(d) ==
  /\ dma[d] \in Half /\ OneMore(d) >= THRESHOLD /\ InBound(d)
  /\ late' = Set(late, d, late[d] \/ halves[d] + ends[d] > 0)
  /\ IF lock = NoDir
     THEN /\ dma' = Set(dma, d, Null) /\ running' = Set(running, d, FALSE)
          /\ ptr' = Set(ptr, d, Null)
          /\ Clear(d)
          /\ UNCHANGED hung
     ELSE /\ hung' = TRUE
          /\ UNCHANGED <<dma, running, ptr, counts>>
  /\ UNCHANGED <<initiate, chan, wanted, sem, lock, lengths, pc, at, job>>

Irq(d) == Boundary(d) \/ Stop(d)

\* What a task does inside HAL_I2S_Write_DMA and HAL_I2S_Read_DMA, apart from
\* waiting for the lock.
Work(d) ==
  \/ Started(d) \/ Check(d)
  \/ Resync(d) \/ Take(d) \/ Wait(d) \/ Wake(d)
  \/ d = "play" /\ (Fill \/ Restart)
  \/ d = "record" /\ Record

I2sNext ==
  /\ ~hung /\ \A d \in Dir : pc[d] # "smashed"
  /\ \E d \in Dir :
       \/ \E s \in Lengths : OpenLength(d, s)
       \/ Open(d) \/ OpenFails(d) \/ OpenSmashes(d)
       \/ CloseLock(d) \/ CloseStop(d)
       \/ \E n \in 1 .. MaxBlocks : Call(d, n)
       \/ Trigger(d) \/ Work(d)
       \/ Irq(d)

I2sSpec == I2sInit /\ [][I2sNext]_i2sVars
-----------------------------------------------------------------------------
Label == {"idle", "opening", "loop", "trigger", "started", "restart", "ring", "wait",
          "closing", "smashed"}

\* The task is in HAL_I2S_Write_DMA or HAL_I2S_Read_DMA.
Inside(d) == pc[d] \in {"loop", "trigger", "started", "restart", "ring", "wait"}

I2sTypeOK ==
  /\ initiate \in [Dir -> BOOLEAN] /\ chan \in [Dir -> BOOLEAN]
  /\ running \in [Dir -> BOOLEAN]
  /\ bufLength \in Lengths \cup {0}
  /\ half \in [Dir -> Lengths \cup {0}] /\ bytes \in [Dir -> Lengths \cup {0}]
  /\ mixed \in [Dir -> BOOLEAN]
  /\ ptr \in [Dir -> Nat \cup {Null, Foreign}]
  /\ halves \in [Dir -> 0 .. THRESHOLD - 1] /\ ends \in [Dir -> 0 .. THRESHOLD - 1]
  /\ wanted \in [Dir -> BOOLEAN] /\ sem \in [Dir -> {0, 1}]
  /\ dma \in [Dir -> Half \cup {Null}]
  /\ lock \in Dir \cup {NoDir}
  /\ pc \in [Dir -> Label]
  /\ at \in [Dir -> Nat \cup {Null, Foreign}]
  /\ ptr["play"] # Foreign /\ at["play"] # Foreign
  /\ size \in [Dir -> 0 .. MaxBlocks] /\ unit \in [Dir -> Lengths \cup {0}]
  /\ hung \in BOOLEAN
  /\ late \in [Dir -> BOOLEAN]

\* Where the DMA begins with a half of its buffer.
Begins(d, h) == IF h = 0 THEN 0 ELSE bytes[d]

\* A task that has kept up with the DMA never copies to, or from, the half that
\* the DMA is playing or recording: also after an underrun, a stop or a restart
\* (hal_i2s.c:752-905), and while the other direction is opened and closed with
\* the same length of buffer (hal_i2s.c:997).
InPhase ==
  \A d \in Dir :
    dma[d] \in Half /\ ~late[d] /\ ~mixed[d] =>
      /\ pc[d] = "ring" /\ halves[d] + ends[d] = 1 => ptr[d] = Begins(d, 1 - dma[d])
      /\ pc[d] = "wait" /\ sem[d] = 1 => at[d] = Begins(d, 1 - dma[d])
      /\ pc[d] = "ring" => halves[d] + ends[d] < 2

\* However late the task is, nothing is written beyond the buffer of playback, and
\* no buffer gets another size than it is cleared and played with, unless the
\* other direction has been opened with another length (hal_i2s.c:775, 821, 997).
WithinBuffer ==
  \A d \in Dir : pc[d] = "smashed" => mixed[d]

\* The interrupt that takes a lock (hal_i2s.c:550, 562) waits for it only when a
\* task was late by several halves and another, or the same, is just starting
\* or stopping a DMA.
HangsOnlyWhenLate ==
  hung => \E d, e \in Dir : late[d] /\ pc[e] \in {"started", "closing"}

\* A task whose pointer the interrupt has cleared between the task's look at
\* txRunning (hal_i2s.c:767) and its disabling of interrupts: it waits for ever.
Lost(d) == pc[d] = "wait" /\ at[d] = Null

\* It gets there by waiting for a DMA that is already off, and neither the
\* interrupt nor the task of the other direction brings it back
\* (hal_i2s.c:767-905).
LostForEver ==
  [][\A d \in Dir :
       /\ Lost(d) => Lost(d)'
       /\ ~Lost(d) /\ Lost(d)' => pc[d] = "ring" /\ dma[d] = Null]_i2sVars

\* The strengthening that every step preserves.
\* Only a direction that is open is used; and only a task in the loop
\* has halves left.
InUse ==
  \A d \in Dir :
    /\ chan[d] \/ pc[d] \in {"opening", "closing", "smashed"} => initiate[d]
    /\ dma[d] \in Half \/ Inside(d) => chan[d]
    /\ pc[d] = "opening" => ~chan[d]
    /\ \/ pc[d] \in {"loop", "ring", "wait"}
       \/ d = "record" /\ pc[d] \in {"trigger", "started"}
       => size[d] > 0
    /\ pc[d] \in {"idle", "opening", "closing"} => size[d] = 0

\* A DMA that is off has nothing to report; one that is on has a task that
\* knows it, or is about to.
DmaOff ==
  \A d \in Dir :
    /\ dma[d] = Null => halves[d] = 0 /\ ends[d] = 0
    /\ dma[d] \in Half => ptr[d] # Null /\ (running[d] \/ pc[d] = "started")
    /\ running[d] \/ pc[d] \in {"ring", "restart"} => dma[d] \in Half \/ ptr[d] = Null
    /\ pc[d] = "trigger" => dma[d] = Null /\ ptr[d] # Null /\ (d = "play" => ptr[d] = 0)
    /\ pc[d] = "started" => dma[d] \in Half

\* Whoever waits has asked for it, or is already woken up.
WakeUps ==
  \A d \in Dir :
    /\ wanted[d] => pc[d] = "wait" /\ halves[d] = 0 /\ ends[d] = 0
    /\ sem[d] = 1 <=> pc[d] = "wait" /\ ~wanted[d]
    /\ pc[d] = "wait" /\ wanted[d] => (dma[d] = Null <=> at[d] = Null)
    /\ pc[d] = "wait" /\ ~wanted[d] =>
         /\ at[d] # Null
         /\ dma[d] = Null => late[d] /\ ~running[d]
         /\ dma[d] \in Half => halves[d] + ends[d] > 0

Locked == \A d \in Dir : lock = d <=> pc[d] \in {"started", "closing"}

\* A direction that no other length has come across has one length everywhere, and
\* playback is at the start of one of its halves.
OneLength ==
  \A d \in Dir :
    /\ initiate[d] => bufLength \in Lengths
    /\ initiate[d] /\ ~mixed[d] => half[d] = bufLength
    /\ chan[d] /\ ~mixed[d] => bytes[d] = bufLength
    /\ Inside(d) /\ ~mixed[d] => unit[d] = bufLength
    /\ ~initiate[d] => ptr[d] = Null
    /\ d = "play" /\ ~chan[d] => ptr[d] = Null
    /\ d = "play" /\ ~mixed[d] =>
         /\ ptr[d] \in {Null, 0, bytes[d]}
         /\ pc[d] = "wait" => at[d] \in {Null, 0, bytes[d]}

\* While the task keeps up, at most one half is ready, and its pointer is to
\* that half, or to the one the DMA will leave next.
Due(d) == IF pc[d] = "wait" THEN at[d] ELSE ptr[d]

Phase ==
  \A d \in Dir : ~late[d] /\ ~mixed[d] =>
    /\ dma[d] \in Half =>
         \/ halves[d] + ends[d] = 0 /\ Due(d) = Begins(d, dma[d])
         \/ halves[d] + ends[d] = 1 /\ Due(d) = Begins(d, 1 - dma[d])
    /\ d = "record" /\ dma[d] = Null => ptr[d] \in {0, Null}

I2sInv ==
  /\ I2sTypeOK /\ InUse /\ DmaOff /\ WakeUps /\ Locked /\ OneLength /\ Phase
  /\ WithinBuffer /\ HangsOnlyWhenLate
=============================================================================
