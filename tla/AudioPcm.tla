------------------------------ MODULE AudioPcm ------------------------------
(***************************************************************************)
(* Opening, writing, flushing, reading and closing the streams of          *)
(* src/audio/pcm/audio_pcm.c, over the I2S driver of I2sDma.               *)
(*                                                                         *)
(* A stream belongs to the task that opened it: its lock (play_lock or     *)
(* cap_lock) is held from snd_pcm_open to snd_pcm_close.  Opening takes it *)
(* while the lock of the audio manager is held, and closing needs that     *)
(* lock to give it back.  Playback passes whole halves to the driver and   *)
(* keeps what is left of a write, less than a half, for the next one.      *)
(* Each stream brings its own length of buffer, which its task also gives  *)
(* to every later call; the driver takes halves of I2S_BUF_LENGTH, which   *)
(* may be the other stream's.  A cache that gets more than it has room for *)
(* may overwrite anything: there the model ends, too.                      *)
(*                                                                         *)
(* Card 0 is the codec behind the I2S.  Card 1, the digital microphone,    *)
(* only shares the lock of recording; its driver is left out.  Callers     *)
(* close what they have opened, and only the owner reads or writes.        *)
(***************************************************************************)
EXTENDS I2sDma

CONSTANTS
  Players,    \* tasks that play, on card 0
  Recorders,  \* tasks that record from card 0
  Dmics,      \* tasks that record from card 1
  NoTask,
  MaxBytes    \* bound: bytes a call reads or writes

Owners == Players \cup Recorders
Task == Owners \cup Dmics
DirOf(t) == IF t \in Players THEN "play" ELSE "record"

ASSUME TaskAssumption ==
  /\ Players \cap Recorders = {} /\ Owners \cap Dmics = {}
  /\ NoTask \notin Task
ASSUME SizeAssumption ==
  /\ MaxBytes \in Nat
  /\ \A s \in Lengths, n \in Lengths \cup {MaxBytes} : n < s * (MaxBlocks + 1)

VARIABLES
  mgr,     \* the task that holds the manager's lock
  stream,  \* play_lock and cap_lock: the task that holds each
  tpc,     \* where a task is
  length,  \* bytes in the cache of playback
  rest,    \* bytes of the write, or halves of the flush, still to be passed on
  owed     \* history: bytes accepted for playback, or added by a flush, that the
           \* driver has not copied; not kept any more when the lengths are mixed

pcmVars == <<mgr, stream, tpc, length, rest, owed>>
vars == <<i2sVars, pcmVars>>

Owe(n) == owed' = IF mixed["play"] THEN 0 ELSE owed + n

To(t, label) == tpc' = [tpc EXCEPT ![t] = label]

Init ==
  /\ I2sInit
  /\ mgr = NoTask
  /\ stream = [d \in Dir |-> NoTask]
  /\ tpc = [t \in Task |-> "closed"]
  /\ length = 0 /\ rest = 0 /\ owed = 0
-----------------------------------------------------------------------------
(* snd_pcm_open.                                                           *)

AskOpen(t) ==
  /\ t \in Owners /\ tpc[t] = "closed"
  /\ To(t, "open")
  /\ UNCHANGED <<i2sVars, mgr, stream, length, rest, owed>>

\* The manager's lock is taken and the codec opened; if that fails the lock is
\* given back at once.
OpenCodec(t) ==
  /\ tpc[t] = "open"
  /\ mgr = NoTask
  /\ \/ mgr' = t /\ To(t, "stream")
     \/ To(t, "closed") /\ UNCHANGED mgr
  /\ UNCHANGED <<i2sVars, stream, length, rest, owed>>

\* Fault: the lock of the stream is not waited for.
TakeAnyStream(t) ==
  /\ tpc[t] = "stream"
  /\ mgr' = NoTask
  /\ stream' = Set(stream, DirOf(t), t) /\ To(t, "i2s")
  /\ UNCHANGED <<i2sVars, length, rest, owed>>

\* The lock of the stream is waited for with the manager's lock held.  Without
\* memory for the cache both are given back.
TakeStream(t) ==
  /\ tpc[t] = "stream"
  /\ stream[DirOf(t)] = NoTask
  /\ mgr' = NoTask
  /\ \/ stream' = Set(stream, DirOf(t), t) /\ To(t, "i2s")
     \/ t \in Players /\ To(t, "closed") /\ UNCHANGED stream
  /\ UNCHANGED <<i2sVars, length, rest, owed>>

\* The I2S is opened without the manager's lock.  When it cannot be, the lock of
\* the stream is kept.
OpenI2s(t) ==
  /\ tpc[t] = "i2s"
  /\ \/ \E s \in Lengths : OpenLength(DirOf(t), s) /\ UNCHANGED tpc
     \/ Open(DirOf(t)) /\ To(t, "ready")
     \/ OpenFails(DirOf(t)) /\ To(t, "closed")
     \/ OpenSmashes(DirOf(t)) /\ UNCHANGED tpc
  /\ UNCHANGED <<mgr, stream, length, rest, owed>>

\* Card 1.  (If its driver cannot be opened the lock is given back at once.)
OpenDmic(t) ==
  /\ t \in Dmics /\ tpc[t] = "closed"
  /\ stream["record"] = NoTask
  /\ stream' = Set(stream, "record", t) /\ To(t, "ready")
  /\ UNCHANGED <<i2sVars, mgr, length, rest, owed>>
-----------------------------------------------------------------------------
(* snd_pcm_write and snd_pcm_flush.                                        *)

Playing(t) == t \in Players /\ tpc[t] = "ready"

\* Half of the buffer of the stream, and the room in its cache.
Room == half["play"]

\* The cache gets k bytes.
Keep(t, k) == length' = k /\ To(t, IF k > Room THEN "smashed" ELSE "ready")

\* HAL_I2S_Write_DMA with k bytes takes whole halves, all but the last r bytes ...
Took(k, r) == \E h \in 1 .. MaxBlocks : k = bufLength * h + r /\ Call("play", h)

\* ... and refuses fewer bytes than a half.
Pass(t, k) ==
  \/ /\ \E r \in 0 .. bufLength - 1 : Took(k, r) /\ rest' = r
     /\ length' = 0
     /\ To(t, "rest")
  \/ /\ k < bufLength
     /\ Keep(t, k) /\ rest' = 0
     /\ UNCHANGED i2sVars

\* With the cache as it is filled up: what the driver does not take is dropped.
PassCache ==
  \/ \E r \in 0 .. bufLength - 1 : Took(Room, r)
  \/ Room < bufLength /\ UNCHANGED i2sVars

\* What is in the cache, and the new bytes, do not fill a half.
WriteCached(t, n) ==
  /\ Playing(t) /\ length > 0 /\ length + n < Room
  /\ length' = length + n
  /\ Owe(n)
  /\ UNCHANGED <<i2sVars, mgr, stream, tpc, rest>>

\* Fault: the bytes that filled up the cache are not skipped.
WriteFirstUnskipped(t, n) ==
  /\ Playing(t) /\ length > 0 /\ length + n >= Room
  /\ PassCache /\ To(t, "first")
  /\ rest' = n
  /\ Owe(n)
  /\ UNCHANGED <<mgr, stream, length>>

\* They do: the cache is filled up and passed on first ...
WriteFirst(t, n) ==
  /\ Playing(t) /\ length > 0 /\ length + n >= Room
  /\ PassCache /\ To(t, "first")
  /\ rest' = n - (Room - length)
  /\ Owe(n)
  /\ UNCHANGED <<mgr, stream, length>>

\* ... and then the remaining bytes.
WriteMore(t) ==
  /\ tpc[t] = "first" /\ pc["play"] = "idle"
  /\ Pass(t, rest)
  /\ UNCHANGED <<mgr, stream, owed>>

\* The cache is empty.
WriteAll(t, n) ==
  /\ Playing(t) /\ length = 0
  /\ Pass(t, n)
  /\ Owe(n)
  /\ UNCHANGED <<mgr, stream>>

\* What the driver did not take is kept.
KeepRest(t) ==
  /\ tpc[t] = "rest" /\ pc["play"] = "idle"
  /\ Keep(t, rest) /\ rest' = 0
  /\ UNCHANGED <<i2sVars, mgr, stream, owed>>

\* The cache, if there is anything in it, is padded and passed on, and two
\* halves of silence after it.
Flush(t) ==
  /\ Playing(t)
  /\ PassCache /\ To(t, "flush")
  /\ rest' = IF length > 0 THEN 2 ELSE 1
  /\ length' = 0 /\ Owe(Room - length)
  /\ UNCHANGED <<mgr, stream>>

FlushMore(t) ==
  /\ tpc[t] = "flush" /\ pc["play"] = "idle"
  /\ IF rest > 0
     THEN PassCache /\ rest' = rest - 1 /\ Owe(Room) /\ UNCHANGED tpc
     ELSE To(t, "ready") /\ UNCHANGED <<i2sVars, rest, owed>>
  /\ UNCHANGED <<mgr, stream, length>>
-----------------------------------------------------------------------------
(* snd_pcm_read.                                                           *)

\* Whole halves of the stream are asked for, whole halves of the driver are read.
\* (Fewer bytes than either are refused.)
Read(t, n) ==
  /\ t \in Recorders /\ tpc[t] = "ready"
  /\ n >= half["record"]
  /\ \E h \in 1 .. MaxBlocks :
       h = (half["record"] * (n \div half["record"])) \div bufLength /\ Call("record", h)
  /\ To(t, "read")
  /\ UNCHANGED <<mgr, stream, length, rest, owed>>

ReadReturns(t) ==
  /\ tpc[t] = "read" /\ pc["record"] = "idle"
  /\ To(t, "ready")
  /\ UNCHANGED <<i2sVars, mgr, stream, length, rest, owed>>
-----------------------------------------------------------------------------
(* snd_pcm_close.                                                          *)

AskClose(t) ==
  /\ t \in Owners /\ tpc[t] = "ready"
  /\ To(t, "close")
  /\ UNCHANGED <<i2sVars, mgr, stream, length, rest, owed>>

CloseCodec(t) ==
  /\ tpc[t] = "close"
  /\ mgr = NoTask
  /\ mgr' = t /\ To(t, "closing")
  /\ UNCHANGED <<i2sVars, stream, length, rest, owed>>

CloseI2s(t) ==
  /\ tpc[t] = "closing"
  /\ CloseLock(DirOf(t))
  /\ UNCHANGED pcmVars

\* The cache is freed with what is in it.
CloseStream(t) ==
  /\ tpc[t] = "closing"
  /\ CloseStop(DirOf(t))
  /\ stream' = Set(stream, DirOf(t), NoTask)
  /\ mgr' = NoTask
  /\ IF t \in Players THEN length' = 0 /\ owed' = 0 ELSE UNCHANGED <<length, owed>>
  /\ To(t, "closed")
  /\ UNCHANGED rest

CloseDmic(t) ==
  /\ t \in Dmics /\ tpc[t] = "ready"
  /\ stream' = Set(stream, "record", NoTask) /\ To(t, "closed")
  /\ UNCHANGED <<i2sVars, mgr, length, rest, owed>>
-----------------------------------------------------------------------------
Calling == {"first", "rest", "flush", "read"}

\* Halves of a write that the driver has copied are not owed any more.
Copied(t, d) ==
  IF d = "play" /\ size' # size THEN Owe(-unit[d]) ELSE UNCHANGED owed

\* A task inside the driver.
Drive(t) ==
  /\ tpc[t] \in Calling
  /\ Trigger(DirOf(t)) \/ Work(DirOf(t))
  /\ Copied(t, DirOf(t))
  /\ UNCHANGED <<mgr, stream, tpc, length, rest>>

Interrupt(d) == Irq(d) /\ UNCHANGED pcmVars

\* What a caller decides.
Begin(t) ==
  \/ AskOpen(t) \/ AskClose(t) \/ OpenDmic(t) \/ CloseDmic(t)
  \/ \E n \in 1 .. MaxBytes :
       WriteCached(t, n) \/ WriteFirst(t, n) \/ WriteAll(t, n) \/ Read(t, n)
  \/ Flush(t)

\* What needs no lock, or has it.
Proceed(t) ==
  \/ OpenI2s(t) \/ CloseStream(t)
  \/ WriteMore(t) \/ KeepRest(t) \/ FlushMore(t) \/ ReadReturns(t)

Step(t) ==
  Begin(t) \/ Proceed(t) \/ Drive(t)
  \/ OpenCodec(t) \/ TakeStream(t) \/ CloseCodec(t) \/ CloseI2s(t)

\* Memory has been overwritten.
Smashed == (\E d \in Dir : pc[d] = "smashed") \/ (\E t \in Players : tpc[t] = "smashed")

Up == ~hung /\ ~Smashed

Next ==
  /\ Up
  /\ \/ \E t \in Task : Step(t)
     \/ \E d \in Dir : Interrupt(d)

Spec == Init /\ [][Next]_vars

\* The locks a task waits for.
Acquire(t) == OpenCodec(t) \/ TakeStream(t) \/ CloseCodec(t) \/ CloseI2s(t)

\* With the lock it starts a DMA, and soon looks at it.
Attend(t) == pc[DirOf(t)] \in {"trigger", "loop"} /\ Drive(t)

\* Tasks that can go on do, and a DMA that is on gets through its buffer.  Locks
\* are given to those who wait by priority and in turn, and a task is not
\* overrun between starting a DMA and looking at it for ever.
TaskFairness(t) ==
  /\ WF_vars(Up /\ (Proceed(t) \/ Drive(t)))
  /\ SF_vars(Up /\ Acquire(t)) /\ SF_vars(Up /\ Attend(t))

FairSpec ==
  /\ Spec
  /\ \A t \in Owners : TaskFairness(t)
  /\ \A d \in Dir : WF_vars(Up /\ Interrupt(d))
-----------------------------------------------------------------------------
AudioTypeOK ==
  /\ I2sTypeOK
  /\ mgr \in Owners \cup {NoTask}
  /\ stream \in [Dir -> Task \cup {NoTask}]
  /\ tpc \in [Task -> {"closed", "open", "stream", "i2s", "ready", "first", "rest",
                       "flush", "read", "close", "closing", "smashed"}]
  /\ length \in Nat /\ rest \in Nat /\ owed \in Nat

\* The tasks between taking the lock of their stream and giving it back.
Opened(t) == tpc[t] \notin {"closed", "open", "stream"}

\* A stream, and the driver in its direction, are used by one task at a time, and
\* every call of the driver meets the state it is meant for: it is opened when it
\* is closed, and used and closed when it is open and idle (audio_pcm.c:325, 160,
\* 231, 410).  So HAL_I2S_Open never finds "device opened already".
OneOwner ==
  /\ \A t \in Task : Opened(t) => stream[DirOf(t)] = t
  /\ \A d \in Dir : initiate[d] => stream[d] \in Owners
  /\ \A t \in Owners :
       /\ tpc[t] = "i2s" /\ pc[DirOf(t)] = "idle" => ~initiate[DirOf(t)]
       /\ Opened(t) /\ tpc[t] # "i2s" => chan[DirOf(t)]
  /\ \A d \in Dir : pc[d] # "idle" =>
       \E t \in Owners : DirOf(t) = d /\ tpc[t] \in Calling \cup {"i2s", "closing"}

\* The strengthening that every step preserves.
Roles ==
  /\ \A t \in Players : tpc[t] # "read"
  /\ \A t \in Recorders : tpc[t] \notin {"first", "rest", "flush", "smashed"}
  /\ \A t \in Dmics : tpc[t] \in {"closed", "ready"}
  /\ \A t \in Owners : mgr = t <=> tpc[t] \in {"stream", "closing"}

ToCopy == half["play"] * size["play"]

Account(t) ==
  /\ tpc[t] \in {"ready", "close", "closing"} => owed = length /\ length < Room
  /\ tpc[t] = "first" => owed = ToCopy + rest
  /\ tpc[t] = "rest" => owed = ToCopy + rest /\ rest < Room
  /\ tpc[t] = "flush" => owed = ToCopy /\ length = 0
  /\ tpc[t] # "smashed"

Balance ==
  /\ ~mixed["play"] => \A t \in Players : Account(t)
  /\ \A t \in Players : tpc[t] = "i2s" => owed = 0 /\ length = 0
  /\ (\A t \in Players : ~Opened(t)) => owed = 0 /\ length = 0

AudioInv == I2sInv /\ AudioTypeOK /\ OneOwner /\ Roles /\ Balance

\* Every byte that snd_pcm_write has accepted, and every half of a flush, has been
\* copied once, or is in the cache, which has room for it (audio_pcm.c:128-219) -
\* as long as recording is not opened with another length of buffer (hal_i2s.c:997).
NothingLost ==
  ~mixed["play"] => \A t \in Players :
    /\ tpc[t] = "ready" => owed = length /\ length < Room
    /\ tpc[t] # "smashed"

\* Somebody keeps the manager's lock while it waits for a stream in use.
Contended == \E t \in Owners : tpc[t] = "stream" /\ stream[DirOf(t)] # NoTask

\* If the stream is used by a task on card 0, that task needs the manager's lock
\* to close it: from then on nobody opens or closes a stream of card 0 any more
\* (audio_pcm.c:262, 280).
Deadlocked == \E t \in Owners : tpc[t] = "stream" /\ stream[DirOf(t)] \in Owners

\* A stream whose lock outlived the call that took it, since the I2S could not be
\* opened: whoever asks, nobody opens this direction again, with either card
\* (audio_pcm.c:262-329, 335-342).
Leaked(d) == stream[d] \in Owners /\ ~Opened(stream[d])
LeakedForEver ==
  [][\A d \in Dir : Leaked(d) =>
       /\ Leaked(d)'
       /\ \A t \in Task : DirOf(t) = d => ~Opened(t)']_vars

\* Calls return, unless memory is overwritten, the interrupt hangs, the stop of an
\* underrun or overrun has met the task before its wait, or two tasks want the same
\* stream.
Stuck(t) ==
  \/ hung \/ Smashed
  \/ Lost(DirOf(t)) /\ tpc[t] \in Calling
  \/ Contended /\ tpc[t] \in {"open", "stream", "close"}

CallsReturn ==
  \A t \in Owners : tpc[t] \notin {"closed", "ready"} ~> tpc[t] \in {"closed", "ready"} \/ Stuck(t)
=============================================================================
