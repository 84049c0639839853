------------------------------- MODULE Console ------------------------------
(***************************************************************************)
(* The serial console (src/console/console.c).  The UART interrupt fills   *)
(* line buffers and releases a counting semaphore; the console task takes  *)
(* the lines and executes them; an owner task starts and stops all this,   *)
(* and another one silences the UART for a while (console_disable).        *)
(* There is no lock: the task closes the interrupt around its two updates  *)
(* of the buffer bitmaps, so these are single steps here, and so is every  *)
(* run of the interrupt handler.                                           *)
(*                                                                         *)
(* Lines are numbered in the order they are typed; their characters, and   *)
(* with them rx_data_cnt, are left out.                                    *)
(***************************************************************************)
EXTENDS Integers

CONSTANTS
  CONSOLE_CMD_LINE_BUF_NUM,
  MaxLines,   \* bound: lines typed
  MaxStarts   \* bound: calls of console_start

ASSUME BufNumAssumption == CONSOLE_CMD_LINE_BUF_NUM \in Nat \ {0}
ASSUME BoundsAssumption == MaxLines \in Nat /\ MaxStarts \in Nat

Buf == 0 .. CONSOLE_CMD_LINE_BUF_NUM - 1
CONSOLE_INVALID_BUF_IDX == CONSOLE_CMD_LINE_BUF_NUM

VARIABLES
  state,    \* console->state
  free,     \* free_buf_bitmap, as the set of its valid indices
  ready,    \* ready_buf_bitmap
  rx,       \* rx_buf_idx
  last,     \* last_cmd_buf_idx
  sem,      \* the count of cmd_sem
  line,     \* the number of the line each buffer holds
  task,     \* where the console task is, "none" when it does not exist
  taskBuf,  \* cmd_buf_idx, CONSOLE_INVALID_BUF_IDX when it has none
  done,     \* the last line executed
  cb,       \* is the receive callback enabled?
  typed,    \* lines typed so far
  owner,    \* where the owner is in console_start or console_stop
  starts

bufs == <<free, ready, rx, line>>
vars == <<state, bufs, last, sem, task, taskBuf, done, cb, typed, owner, starts>>

\* console_get_valid_buf_idx: the first valid index after last_idx, going round.
Dist(from, b) ==
  IF b > from THEN b - from - 1 ELSE b - from - 1 + CONSOLE_CMD_LINE_BUF_NUM

\* Fault: the search starts at the first buffer each time.
FirstBufIdx(valid, last_idx) ==
  IF valid = {} THEN CONSOLE_INVALID_BUF_IDX
  ELSE CHOOSE b \in valid : \A c \in valid : b <= c

ValidBufIdx(valid, last_idx) ==
  IF valid = {} THEN CONSOLE_INVALID_BUF_IDX
  ELSE CHOOSE b \in valid : \A c \in valid : Dist(last_idx, b) <= Dist(last_idx, c)

\* What memset and the loop of console_start leave in g_console.
Fresh ==
  /\ free' = Buf \ {0} /\ ready' = {} /\ rx' = 0
  /\ last' = CONSOLE_CMD_LINE_BUF_NUM - 1

Init ==
  /\ state = "STOP"
  /\ free = Buf \ {0} /\ ready = {} /\ rx = 0
  /\ last = CONSOLE_CMD_LINE_BUF_NUM - 1
  /\ sem = 0
  /\ line = [b \in Buf |-> 0]
  /\ task = "none" /\ taskBuf = CONSOLE_INVALID_BUF_IDX
  /\ done = 0
  /\ cb = FALSE
  /\ typed = 0
  /\ owner = "idle" /\ starts = 0
-----------------------------------------------------------------------------
(* console_rx_callback, run by the UART interrupt.                         *)

RxOn == cb /\ typed < MaxLines

\* Fault: the semaphore is not released when reception runs out of buffers.
RxLineUnannounced ==
  /\ RxOn
  /\ rx # CONSOLE_INVALID_BUF_IDX
  /\ line' = [line EXCEPT ![rx] = typed + 1]
  /\ ready' = ready \cup {rx}
  /\ rx' = ValidBufIdx(free, rx)
  /\ free' = free \ {rx'}
  /\ sem' = IF rx' = CONSOLE_INVALID_BUF_IDX THEN sem ELSE sem + 1
  /\ typed' = typed + 1
  /\ UNCHANGED <<state, last, task, taskBuf, done, cb, owner, starts>>

\* The end of a line: console_rx_cmdline.  (Other characters only move
\* rx_data_cnt, on or back to 0.)
RxLine ==
  /\ RxOn
  /\ rx # CONSOLE_INVALID_BUF_IDX
  /\ line' = [line EXCEPT ![rx] = typed + 1]
  /\ ready' = ready \cup {rx}
  /\ rx' = ValidBufIdx(free, rx)
  /\ free' = free \ {rx'}
  /\ sem' = sem + 1
  /\ typed' = typed + 1
  /\ UNCHANGED <<state, last, task, taskBuf, done, cb, owner, starts>>

\* ... of a line that finds no receive buffer.
RxLineDiscarded ==
  /\ RxOn
  /\ rx = CONSOLE_INVALID_BUF_IDX
  /\ typed' = typed + 1
  /\ UNCHANGED <<state, bufs, last, sem, task, taskBuf, done, cb, owner, starts>>
-----------------------------------------------------------------------------
(* console_task                                                            *)

TaskWait ==
  /\ task = "wait"
  /\ sem > 0
  /\ sem' = sem - 1
  /\ task' = "check"
  /\ UNCHANGED <<state, bufs, last, taskBuf, done, cb, typed, owner, starts>>

TaskCheck ==
  /\ task = "check"
  /\ task' = IF state = "START" THEN "take" ELSE "none"
  /\ UNCHANGED <<state, bufs, last, sem, taskBuf, done, cb, typed, owner, starts>>

\* With interrupts closed.  (Without a ready line the task would wait again.)
TaskTake ==
  /\ task = "take"
  /\ taskBuf' = ValidBufIdx(ready, last)
  /\ ready' = ready \ {taskBuf'}
  /\ task' = IF taskBuf' = CONSOLE_INVALID_BUF_IDX THEN "wait" ELSE "exec"
  /\ UNCHANGED <<state, free, rx, line, last, sem, done, cb, typed, owner, starts>>

\* cmd_exec
TaskExec ==
  /\ task = "exec"
  /\ done' = line[taskBuf]
  /\ last' = taskBuf
  /\ task' = "release"
  /\ UNCHANGED <<state, bufs, sem, taskBuf, cb, typed, owner, starts>>

\* Fault: the buffer is freed even if reception had none and takes it.
TaskReleaseTwice ==
  /\ task = "release"
  /\ rx' = IF rx = CONSOLE_INVALID_BUF_IDX THEN taskBuf ELSE rx
  /\ free' = free \cup {taskBuf}
  /\ taskBuf' = CONSOLE_INVALID_BUF_IDX
  /\ task' = "wait"
  /\ UNCHANGED <<state, ready, line, last, sem, done, cb, typed, owner, starts>>

\* With interrupts closed: the buffer is received into, or freed.
TaskRelease ==
  /\ task = "release"
  /\ \/ /\ rx = CONSOLE_INVALID_BUF_IDX
        /\ rx' = taskBuf
        /\ UNCHANGED free
     \/ /\ rx # CONSOLE_INVALID_BUF_IDX
        /\ free' = free \cup {taskBuf}
        /\ UNCHANGED rx
  /\ taskBuf' = CONSOLE_INVALID_BUF_IDX
  /\ task' = "wait"
  /\ UNCHANGED <<state, ready, line, last, sem, done, cb, typed, owner, starts>>
-----------------------------------------------------------------------------
(* console_start and console_stop, called by one task at a time, and never *)
(* by the console task itself; console_disable and console_enable.         *)

\* The console is set up and its task created, unless memory runs out.
Start ==
  /\ owner = "idle" /\ state = "STOP"
  /\ starts < MaxStarts /\ starts' = starts + 1
  /\ Fresh
  /\ sem' = 0
  /\ \/ task' = "wait" /\ owner' = "created"
     \/ UNCHANGED <<task, owner>>
  /\ UNCHANGED <<state, line, taskBuf, done, cb, typed>>

StartEnable ==
  /\ owner = "created"
  /\ cb' = TRUE
  /\ owner' = "enabled"
  /\ UNCHANGED <<state, bufs, last, sem, task, taskBuf, done, typed, starts>>

StartDone ==
  /\ owner = "enabled"
  /\ state' = "START"
  /\ owner' = "idle"
  /\ UNCHANGED <<bufs, last, sem, task, taskBuf, done, cb, typed, starts>>

\* console_stop: the callback is disabled, and the task told to end ...
Stop ==
  /\ owner = "idle" /\ state = "START"
  /\ cb' = FALSE
  /\ state' = "TERMINATE"
  /\ owner' = "stopping"
  /\ UNCHANGED <<bufs, last, sem, task, taskBuf, done, typed, starts>>

\* Fault: the task is told to end without being woken up.
StopReleaseForgotten ==
  /\ owner = "stopping"
  /\ owner' = "waiting"
  /\ UNCHANGED <<state, bufs, last, sem, task, taskBuf, done, cb, typed, starts>>

\* ... and woken up.
StopRelease ==
  /\ owner = "stopping"
  /\ sem' = sem + 1
  /\ owner' = "waiting"
  /\ UNCHANGED <<state, bufs, last, task, taskBuf, done, cb, typed, starts>>

StopDone ==
  /\ owner = "waiting"
  /\ task = "none"
  /\ sem' = 0
  /\ state' = "STOP"
  /\ owner' = "idle"
  /\ UNCHANGED <<bufs, last, task, taskBuf, done, cb, typed, starts>>

Silence(on) ==
  /\ state = "START"
  /\ cb' = on
  /\ UNCHANGED <<state, bufs, last, sem, task, taskBuf, done, typed, owner, starts>>

Receive == RxLine \/ RxLineDiscarded
Task == TaskWait \/ TaskCheck \/ TaskTake \/ TaskExec \/ TaskRelease
Owner == StartEnable \/ StartDone \/ StopRelease \/ StopDone

Next ==
  \/ Receive \/ Task \/ Owner
  \/ Start \/ Stop
  \/ \E on \in BOOLEAN : Silence(on)

Spec == Init /\ [][Next]_vars

\* The console task is ready to run and has a higher priority than those that
\* start it (os_thread.h:44-45), and the commands it executes return; what
\* console_start and console_stop have begun they go on with.
FairSpec == Spec /\ WF_vars(Task) /\ WF_vars(Owner)
-----------------------------------------------------------------------------
TypeOK ==
  /\ state \in {"STOP", "START", "TERMINATE"}
  /\ free \subseteq Buf /\ ready \subseteq Buf
  /\ rx \in Buf \cup {CONSOLE_INVALID_BUF_IDX}
  /\ last \in Buf
  /\ sem \in Nat
  /\ line \in [Buf -> 0 .. typed]
  /\ task \in {"none", "wait", "check", "take", "exec", "release"}
  /\ taskBuf \in Buf \cup {CONSOLE_INVALID_BUF_IDX}
  /\ done \in 0 .. typed
  /\ cb \in BOOLEAN
  /\ typed \in Nat
  /\ owner \in {"idle", "created", "enabled", "stopping", "waiting"}
  /\ starts \in Nat

\* Every buffer is in exactly one place: free, received into, ready, or with
\* the task; interrupt and task never work on the same one (console.c:96-108,
\* 202-238).
EachBufferOnce ==
  /\ free \cap ready = {}
  /\ rx \notin free \cup ready
  /\ taskBuf \notin free \cup ready
  /\ rx = taskBuf => rx = CONSOLE_INVALID_BUF_IDX
  /\ Buf \subseteq free \cup ready \cup {rx, taskBuf}

\* No wake-up is lost and none is too many: a task that waits has nothing to
\* execute, and a task that takes a line finds one.
NoLostLine ==
  /\ task = "wait" /\ sem = 0 => ready = {}
  /\ task = "take" => ready # {}

\* Lines are executed in the order they were typed, each at most once.
InOrder == task = "exec" => line[taskBuf] > done

\* The strengthening that every step preserves.  Seen from the buffer executed
\* last, the buffers form a ring: the one being executed, then the ready ones
\* in the order they were typed, then the one received into, then the free ones.
Depth(b) == Dist(last, b)

Held == IF task = "exec" THEN 1 ELSE 0

RxDepth ==
  IF rx # CONSOLE_INVALID_BUF_IDX THEN Depth(rx)
  ELSE IF task = "release" THEN CONSOLE_CMD_LINE_BUF_NUM - 1
  ELSE CONSOLE_CMD_LINE_BUF_NUM

Ring ==
  /\ Held <= RxDepth
  /\ ready = {b \in Buf : Held <= Depth(b) /\ Depth(b) < RxDepth}
  /\ free = {b \in Buf : RxDepth < Depth(b) /\ b # taskBuf}
  /\ task = "exec" => taskBuf \in Buf /\ Depth(taskBuf) = 0
  /\ task = "release" => taskBuf = last /\ rx # last
  /\ task \notin {"exec", "release"} => taskBuf = CONSOLE_INVALID_BUF_IDX

\* The semaphore counts the ready lines, and the wake-up of console_stop.
Announced ==
  /\ task # "none" =>
       sem + (IF task \in {"check", "take"} THEN 1 ELSE 0)
         = RxDepth - Held + (IF owner = "waiting" THEN 1 ELSE 0)
  /\ task = "take" => Held < RxDepth
  /\ state = "START" => owner = "idle"
  /\ owner = "idle" /\ state = "STOP" => task = "none"

Typed ==
  /\ \A b \in ready : done < line[b]
  /\ \A b, c \in ready : Depth(b) < Depth(c) => line[b] < line[c]
  /\ task = "exec" =>
       done < line[taskBuf] /\ \A c \in ready : line[taskBuf] < line[c]

\* Interrupt and task never share a buffer and lose none; the ready ones are in the
\* order they were typed, and the semaphore counts them (console.c:85-108, 202-238).
ConsoleInv == TypeOK /\ Ring /\ Announced /\ Typed

\* A line that was received is executed, unless the console is stopped.
Served ==
  \A b \in Buf :
    state = "START" /\ task # "none" /\ b \in ready ~> b \notin ready \/ state # "START"

\* console_stop returns.
StopReturns == owner \in {"stopping", "waiting"} ~> owner = "idle"

\* "to be terminated" (console.c:45): that state ends the task, no other does.
EndsOnlyWhenTerminated ==
  [][task # "none" /\ task' = "none" => state = "TERMINATE"]_vars

\* ... but for one case: a line that is typed after console_start enabled the
\* callback and before it sets the state wakes the task too early.  The line
\* stays where it is,
EndsOnlyByEarlyLine ==
  [][task # "none" /\ task' = "none" /\ state # "TERMINATE" =>
       owner = "enabled" /\ ready # {}]_vars

\* ... and the console is deaf until it is stopped: it collects lines, and
\* executes none.
DeafUntilStopped ==
  [][state = "START" /\ task = "none" =>
       /\ task' = "none" /\ done' = done
       /\ \A b \in ready : b \in ready' /\ line'[b] = line[b]]_vars

\* Why lines are served: the task brings a ready line nearer by each of its
\* steps, whatever arrives meanwhile, so that at most as many lines as there
\* are other buffers come first.
StepsToExec ==
  CASE task = "release" -> 4 [] task = "wait" -> 3 [] task = "check" -> 2
    [] task = "take" -> 1 [] OTHER -> 0
LineRank(b) == 6 * Depth(b) + StepsToExec
ServedSooner ==
  [][state = "START" /\ task # "none" =>
       \/ UNCHANGED <<task, last>>
       \/ \A b \in ready \cap ready' : LineRank(b)' < LineRank(b)]_vars

\* The steps the task has left until it sees that it is told to end, whatever
\* lines it has not yet executed.
TaskRank ==
  CASE task = "take" -> 5 [] task = "exec" -> 4 [] task = "release" -> 3
    [] task = "wait" -> 2 [] task = "check" -> 1 [] OTHER -> 0

\* Why console_stop returns: the task it waits for is awake or woken up,
StopHeard == owner = "waiting" => state = "TERMINATE" /\ (task = "wait" => sem > 0)

\* ... and comes to its end.
StopNearer == [][owner = "waiting" => (TaskRank' < TaskRank \/ UNCHANGED task)]_vars
=============================================================================
