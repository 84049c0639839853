-------------------------------- MODULE Ducc --------------------------------
(***************************************************************************)
(* DUCC (src/sys/ducc): how tasks of the application core and of the       *)
(* network core call each other.  ducc_app_ioctl and ducc_net_ioctl lock a *)
(* mutex, put the address of a request on their own stack into a hardware  *)
(* FIFO (src/driver/chip/hal_mbox.c), and wait on a semaphore; the other   *)
(* core's interrupt moves the address to a message queue, a server task    *)
(* executes it and sends a release message back, which the interrupt turns *)
(* into the semaphore.  There is one such channel per direction and class  *)
(* of commands.  Server tasks of the network core call back while they     *)
(* execute a request.                                                      *)
(*                                                                         *)
(* Modelled with it: a suspend of the application core to standby or       *)
(* sleep (wlan_sys_suspend, the two ducc_hw_mbox_suspend), which shuts the *)
(* mailbox down under the calls in progress.  A request is named after the *)
(* task that made it.                                                      *)
(***************************************************************************)
EXTENDS Integers, Sequences

CONSTANTS
  User,            \* tasks that are no server tasks
  UserCore,        \* the core each of them runs on
  PmTask,          \* the application's task that suspends the system
  Uses,            \* which task makes calls of which class
  MaxSuspends,     \* bound: suspends of the application core
  None, Release    \* no task; DUCC_RELEASE_REQ_VAL

MBOX_QUEUE_SIZE == 4
DUCC_MBOX_SIZE == 8

Core == {"app", "net"}
Class == {"normal", "data"}

\* enum DUCC_ID: messages to a core, of a class.  Each has a server task, and
\* the semaphore and the mutex of the calls whose release it carries.
Id == Core \X Class
Other(c) == IF c = "app" THEN "net" ELSE "app"
Peer(id) == <<Other(id[1]), id[2]>>

NetNormal == <<"net", "normal">>

Task == User \cup Id
CoreOf(t) == IF t \in User THEN UserCore[t] ELSE t[1]

ASSUME UserAssumption ==
  /\ User \cap Id = {}
  /\ UserCore \in [User -> Core]
  /\ PmTask \in User /\ UserCore[PmTask] = "app"
  /\ Release # None /\ {None, Release} \cap Task = {}

ASSUME UsesAssumption == Uses \subseteq Task \X Class

ASSUME BoundAssumption == MaxSuspends \in Nat

VARIABLES
  fifo,        \* the hardware FIFO of each id
  queue,       \* g_ducc_mbox
  sem,         \* g_ducc_req_sem
  mutex,       \* who holds the mutex of the calls answered through an id
  pc,          \* where each task is in its ioctl
  class,       \* the class of that call
  req,         \* the request on its stack: "none", "open" or "answered"
  server,      \* where each server task is
  serving,     \* the request it has in hand
  suspending,  \* g_ducc_hw_mbox_suspending of each core
  up,          \* has the message box a clock, and is it out of reset?
  pm,          \* how far the application core's suspend has come
  netpm,       \* and the network core's
  suspends,    \* number of suspends begun
  lost         \* history: callers whose request or release was lost

channels == <<fifo, queue, sem>>
calls == <<mutex, pc, class, req>>
servers == <<server, serving>>
power == <<suspending, up, pm, netpm, suspends>>
vars == <<channels, calls, servers, power, lost>>

\* wait_id and send_id of a call.
WaitId(t) == <<CoreOf(t), class[t]>>
SendId(t) == Peer(WaitId(t))

\* The messages in a FIFO, and that none is there twice.
Messages(s) == {s[i] : i \in 1 .. Len(s)}
Distinct(s) == \A i, j \in 1 .. Len(s) : i # j => s[i] # s[j]

Running(c) == c = "net" => netpm # "asleep"

Init ==
  /\ fifo = [id \in Id |-> <<>>]
  /\ queue = [id \in Id |-> <<>>]
  /\ sem = [id \in Id |-> 0]
  /\ mutex = [id \in Id |-> None]
  /\ pc = [t \in Task |-> "idle"]
  /\ class = [t \in Task |-> "normal"]
  /\ req = [t \in Task |-> "none"]
  /\ server = [id \in Id |-> "recv"]
  /\ serving = [id \in Id |-> None]
  /\ suspending = [c \in Core |-> FALSE]
  /\ up = TRUE
  /\ pm = "awake" /\ netpm = "awake"
  /\ suspends = 0
  /\ lost = {}
-----------------------------------------------------------------------------
(* ducc_app_ioctl, ducc_net_ioctl                                          *)

\* May the task make a call now?  Servers do while they execute a request; the
\* suspending task has one call to make.
MayCall(t) ==
  /\ t \in Id => server[t] = "exec"
  /\ t = PmTask => pm = "notify"

\* The call is not refused.  (If it is, nothing changes.)
Ioctl(t, k) ==
  /\ Running(CoreOf(t))
  /\ pc[t] = "idle" /\ <<t, k>> \in Uses /\ MayCall(t)
  /\ ~suspending[CoreOf(t)]
  /\ pc' = [pc EXCEPT ![t] = "lock"]
  /\ class' = [class EXCEPT ![t] = k]
  /\ UNCHANGED <<channels, mutex, req, servers, power, lost>>

\* Fault: the mutex is not there.
LockNothing(t) ==
  /\ Running(CoreOf(t))
  /\ pc[t] = "lock"
  /\ mutex' = [mutex EXCEPT ![WaitId(t)] = t]
  /\ req' = [req EXCEPT ![t] = "open"]
  /\ pc' = [pc EXCEPT ![t] = "send"]
  /\ UNCHANGED <<channels, class, servers, power, lost>>

Lock(t) ==
  /\ Running(CoreOf(t))
  /\ pc[t] = "lock"
  /\ mutex[WaitId(t)] = None
  /\ mutex' = [mutex EXCEPT ![WaitId(t)] = t]
  /\ req' = [req EXCEPT ![t] = "open"]
  /\ pc' = [pc EXCEPT ![t] = "send"]
  /\ UNCHANGED <<channels, class, servers, power, lost>>

\* ducc_hw_mbox_send, which spins while the FIFO is full.  A message box that
\* is in reset takes nothing: whoever waits for the message waits in vain.
Put(id, m, waiter) ==
  IF up
  THEN /\ Len(fifo[id]) < MBOX_QUEUE_SIZE
       /\ fifo' = [fifo EXCEPT ![id] = Append(@, m)]
       /\ UNCHANGED lost
  ELSE /\ lost' = lost \cup {waiter}
       /\ UNCHANGED fifo

Send(t) ==
  /\ Running(CoreOf(t))
  /\ pc[t] = "send"
  /\ Put(SendId(t), t, t)
  /\ pc' = [pc EXCEPT ![t] = "wait"]
  /\ UNCHANGED <<queue, sem, mutex, class, req, servers, power>>

\* Fault: the wait ends although nobody has answered.
WakeTimesOut(t) ==
  /\ Running(CoreOf(t))
  /\ pc[t] = "wait"
  /\ pc' = [pc EXCEPT ![t] = "unlock"]
  /\ UNCHANGED <<channels, mutex, class, req, servers, power, lost>>

\* Fault: the semaphore is looked at and not taken.
WakeWithoutTaking(t) ==
  /\ Running(CoreOf(t))
  /\ pc[t] = "wait"
  /\ sem[WaitId(t)] > 0
  /\ pc' = [pc EXCEPT ![t] = "unlock"]
  /\ UNCHANGED <<channels, mutex, class, req, servers, power, lost>>

Wake(t) ==
  /\ Running(CoreOf(t))
  /\ pc[t] = "wait"
  /\ sem[WaitId(t)] > 0
  /\ sem' = [sem EXCEPT ![WaitId(t)] = @ - 1]
  /\ pc' = [pc EXCEPT ![t] = "unlock"]
  /\ UNCHANGED <<fifo, queue, mutex, class, req, servers, power, lost>>

\* The mutex is released and the request's stack frame given up.  In the
\* suspending task wlan_sys_suspend goes on to poll the network core.
Return(t) ==
  /\ Running(CoreOf(t))
  /\ pc[t] = "unlock"
  /\ mutex' = [mutex EXCEPT ![WaitId(t)] = None]
  /\ req' = [req EXCEPT ![t] = "none"]
  /\ pc' = [pc EXCEPT ![t] = "idle"]
  /\ pm' = IF t = PmTask THEN "poll" ELSE pm
  /\ UNCHANGED <<channels, class, servers, suspending, up, netpm, suspends, lost>>
-----------------------------------------------------------------------------
(* MBOX_IRQCallback and ducc_mbox_msg_callback, for one message.  The      *)
(* network core masks the interrupt while its mailbox is suspended.        *)

Irq(id) ==
  LET m == Head(fifo[id])
  IN  /\ up /\ id[1] = "net" => netpm \notin {"down", "asleep"}
      /\ fifo[id] # <<>>
      /\ fifo' = [fifo EXCEPT ![id] = Tail(@)]
      /\ \/ /\ m = Release
            /\ sem' = [sem EXCEPT ![id] = @ + 1]
            /\ UNCHANGED <<queue, lost>>
         \/ /\ m # Release /\ Len(queue[id]) < DUCC_MBOX_SIZE
            /\ queue' = [queue EXCEPT ![id] = Append(@, m)]
            /\ UNCHANGED <<sem, lost>>
         \/ /\ m # Release /\ Len(queue[id]) = DUCC_MBOX_SIZE
            /\ lost' = lost \cup {m}
            /\ UNCHANGED <<queue, sem>>
      /\ UNCHANGED <<calls, servers, power>>
-----------------------------------------------------------------------------
(* The server tasks: ducc_app_normal_task, ducc_app_data_task,             *)
(* ducc_net_normal_task, ducc_net_data_task.                               *)
Recv(id) ==
  /\ Running(id[1])
  /\ server[id] = "recv" /\ queue[id] # <<>>
  /\ serving' = [serving EXCEPT ![id] = Head(queue[id])]
  /\ queue' = [queue EXCEPT ![id] = Tail(@)]
  /\ server' = [server EXCEPT ![id] = "exec"]
  /\ UNCHANGED <<fifo, sem, calls, power, lost>>

\* Fault: the command is executed, its result is not written.
ExecWithoutResult(id) ==
  /\ Running(id[1])
  /\ server[id] = "exec" /\ pc[id] = "idle"
  /\ server' = [server EXCEPT ![id] = "reply"]
  /\ UNCHANGED <<channels, calls, serving, power, lost>>

\* The command is executed and its result written to the caller's stack.
Exec(id) ==
  /\ Running(id[1])
  /\ server[id] = "exec" /\ pc[id] = "idle"
  /\ req' = [req EXCEPT ![serving[id]] = "answered"]
  /\ server' = [server EXCEPT ![id] = "reply"]
  /\ UNCHANGED <<channels, mutex, pc, class, serving, power, lost>>

\* Fault: "continue" before the release is sent.
ReplyForgotten(id) ==
  /\ Running(id[1])
  /\ server[id] = "reply"
  /\ server' = [server EXCEPT ![id] = IF serving[id] = PmTask THEN "pm" ELSE "recv"]
  /\ serving' = [serving EXCEPT ![id] = None]
  /\ UNCHANGED <<channels, calls, power, lost>>

\* The caller is released; after DUCC_APP_CMD_POWER_NOTIFY, pm_enter_mode.
Reply(id) ==
  /\ Running(id[1])
  /\ server[id] = "reply"
  /\ Put(Peer(id), Release, serving[id])
  /\ server' = [server EXCEPT ![id] = IF serving[id] = PmTask THEN "pm" ELSE "recv"]
  /\ serving' = [serving EXCEPT ![id] = None]
  /\ UNCHANGED <<queue, sem, calls, power>>
-----------------------------------------------------------------------------
(* The application core suspends.  To standby it first notifies the        *)
(* network core and waits for it to sleep (wlan_sys_suspend); to sleep it  *)
(* does not.  Any other device may make the suspend fail in between.       *)

Standby ==
  /\ pm = "awake"
  /\ suspends < MaxSuspends /\ suspends' = suspends + 1
  /\ pm' = "notify"
  /\ UNCHANGED <<channels, calls, servers, suspending, up, netpm, lost>>

NetSleeps ==
  /\ pm = "poll" /\ netpm = "asleep"
  /\ pm' = "polled"
  /\ UNCHANGED <<channels, calls, servers, suspending, up, netpm, suspends, lost>>

\* ducc_hw_mbox_suspend of the application core: the flag ...
SuspendFlag ==
  /\ \/ /\ pm = "awake"
        /\ suspends < MaxSuspends /\ suspends' = suspends + 1
        /\ pm' = "flagged"
     \/ /\ pm = "polled"
        /\ pm' = "deinit"
        /\ UNCHANGED suspends
  /\ suspending' = [suspending EXCEPT !["app"] = TRUE]
  /\ UNCHANGED <<channels, calls, servers, up, netpm, lost>>

\* ... and, in standby, ducc_hw_mbox_deinit of all four ids: the message box
\* is put into reset, with what it holds.
Held(id, m) == m \in Messages(fifo[id])

SuspendDeinit ==
  /\ pm = "deinit"
  /\ pm' = "down"
  /\ up' = FALSE
  /\ lost' = lost \cup {t \in Task : \E id \in Id :
                           \/ Held(id, t)
                           \/ Held(id, Release) /\ mutex[id] = t}
  /\ fifo' = [id \in Id |-> <<>>]
  /\ UNCHANGED <<queue, sem, calls, servers, suspending, netpm, suspends>>

\* The suspend is over, or has failed; wlan_sys_suspend also by its timeout.
Resume ==
  /\ pm \in {"poll", "polled", "flagged", "down"}
  /\ pm' = "awake"
  /\ up' = TRUE
  /\ suspending' = [suspending EXCEPT !["app"] = FALSE]
  /\ UNCHANGED <<channels, calls, servers, netpm, suspends, lost>>

(* pm_enter_mode in the network core's server task.                        *)
NetSuspend ==
  /\ server[NetNormal] = "pm"
  /\ \/ /\ netpm = "awake" /\ netpm' = "flagged"
        /\ suspending' = [suspending EXCEPT !["net"] = TRUE]
     \/ /\ netpm = "flagged" /\ netpm' = "down"
        /\ UNCHANGED suspending
     \/ /\ netpm = "down" /\ netpm' = "asleep"
        /\ UNCHANGED suspending
  /\ UNCHANGED <<channels, calls, servers, up, pm, suspends, lost>>

NetResume ==
  /\ server[NetNormal] = "pm"
  /\ netpm' = "awake"
  /\ suspending' = [suspending EXCEPT !["net"] = FALSE]
  /\ server' = [server EXCEPT ![NetNormal] = "recv"]
  /\ UNCHANGED <<channels, calls, serving, up, pm, suspends, lost>>

CallStep(t) == Lock(t) \/ Send(t) \/ Wake(t) \/ Return(t)
ServerStep(id) == Recv(id) \/ Exec(id) \/ Reply(id)

Next ==
  \/ \E t \in Task : (\E k \in Class : Ioctl(t, k)) \/ CallStep(t)
  \/ \E id \in Id : Irq(id) \/ ServerStep(id)
  \/ Standby \/ NetSleeps \/ SuspendFlag \/ SuspendDeinit \/ Resume
  \/ NetSuspend \/ NetResume

Spec == Init /\ [][Next]_vars

\* Tasks and interrupts that can run do, and both cores wake up again.  A
\* server task that waits for a mutex gets it if it is given back again and
\* again (waiting tasks are served by priority, and in turn), and the commands
\* it executes end: they make finitely many calls.
Fairness ==
  /\ \A t \in Task : WF_vars(CallStep(t))
  /\ \A id \in Id : WF_vars(Irq(id)) /\ WF_vars(ServerStep(id))
  /\ \A id \in Id : (\E k \in Class : <<id, k>> \in Uses)
                     => SF_vars(Lock(id)) /\ SF_vars(Exec(id))
  /\ WF_vars(Resume) /\ WF_vars(NetResume)

FairSpec == Spec /\ Fairness
-----------------------------------------------------------------------------
TypeOK ==
  /\ fifo \in [Id -> Seq(Task \cup {Release})]
  /\ queue \in [Id -> Seq(Task)]
  /\ sem \in [Id -> Nat]
  /\ mutex \in [Id -> Task \cup {None}]
  /\ pc \in [Task -> {"idle", "lock", "send", "wait", "unlock"}]
  /\ class \in [Task -> Class]
  /\ req \in [Task -> {"none", "open", "answered"}]
  /\ server \in [Id -> {"recv", "exec", "reply", "pm"}]
  /\ serving \in [Id -> Task \cup {None}]
  /\ suspending \in [Core -> BOOLEAN]
  /\ up \in BOOLEAN
  /\ pm \in {"awake", "notify", "poll", "polled", "flagged", "deinit", "down"}
  /\ netpm \in {"awake", "flagged", "down", "asleep"}
  /\ suspends \in 0 .. MaxSuspends
  /\ lost \subseteq Task

\* A server task writes only to the stack of a caller that waits for it; no
\* caller has returned or makes another call (ducc_app.c:178-193, ducc_net.c).
WritesToLiveRequest ==
  \A id \in Id :
    server[id] = "exec" =>
      pc[serving[id]] = "wait" /\ req[serving[id]] = "open"

\* A FIFO never holds more than a request and a release: no sender ever spins on
\* a full one (ducc_hw_mbox.c:208-217), and the interrupt never drops a
\* request because the queue is full (ducc_mbox.c:139).
NothingOverflows ==
  \A id \in Id : Len(fifo[id]) <= 2 /\ Len(queue[id]) <= 1 /\ sem[id] <= 1

\* The strengthening of the two that every step preserves.  The call that holds
\* the mutex of a channel is in one place at a time: its request in the FIFO, in
\* the queue or with the server, or its release in the FIFO or the semaphore.
InFifo(id) == Held(Peer(id), mutex[id])
InQueue(id) == queue[Peer(id)] # <<>>
InHand(id) == serving[Peer(id)] # None
Coming(id) == Held(id, Release)
Posted(id) == sem[id] # 0

OnePlace(id) ==
  /\ InFifo(id) => ~InQueue(id) /\ ~InHand(id) /\ ~Coming(id) /\ ~Posted(id)
  /\ InQueue(id) => ~InHand(id) /\ ~Coming(id) /\ ~Posted(id)
  /\ InHand(id) => ~Coming(id) /\ ~Posted(id)
  /\ Coming(id) => ~Posted(id)

\* Its caller waits, and the result is there once the server has written it.
Awaited(id) ==
  InFifo(id) \/ InQueue(id) \/ InHand(id) \/ Coming(id) \/ Posted(id) =>
    /\ mutex[id] # None /\ pc[mutex[id]] = "wait"
    /\ InFifo(id) \/ InQueue(id) \/ server[Peer(id)] = "exec" =>
         req[mutex[id]] = "open"
    /\ server[Peer(id)] = "reply" \/ Coming(id) \/ Posted(id) =>
         req[mutex[id]] = "answered"

\* What the FIFO, the queue and the server have is the holder's or a release.
Contents(id) ==
  /\ Messages(fifo[id]) \subseteq {mutex[Peer(id)], Release} \ {None}
  /\ Distinct(fifo[id])
  /\ queue[id] \in {<<>>, <<mutex[Peer(id)]>>}
  /\ sem[id] \in {0, 1}
  /\ serving[id] \in {None, mutex[Peer(id)]}
  /\ server[id] \in {"exec", "reply"} <=> serving[id] # None

\* Who holds a mutex is in a call of that channel, and the other way round.
Inside(t) == pc[t] \in {"send", "wait", "unlock"}

Holders ==
  /\ \A id \in Id : mutex[id] # None =>
                      Inside(mutex[id]) /\ WaitId(mutex[id]) = id
  /\ \A t \in Task : Inside(t) => mutex[WaitId(t)] = t
  /\ \A t \in Task : pc[t] = "send" => req[t] = "open"
  /\ \A t \in Task : pc[t] = "unlock" => req[t] = "answered"

DuccInv ==
  /\ TypeOK
  /\ Holders
  /\ \A id \in Id : Contents(id) /\ OnePlace(id) /\ Awaited(id)

\* A call that was sent returns, unless a suspend has lost somebody's message.
CallsReturn ==
  \A t \in Task : pc[t] = "wait" ~> pc[t] = "idle" \/ lost # {}

\* "send req %d when suspending" is refused (ducc_app.c:153-156): no request
\* is given to a message box that the suspend has shut down.
NotSentWhenShutDown ==
  [][\A t \in Task : pc[t] = "send" /\ pc'[t] = "wait" => up]_vars

R == INSTANCE Rpc WITH
  Channel <- Id, Caller <- Task, NoCaller <- None,
  caller <- mutex,
  stage <- [id \in Id |-> IF mutex[id] = None THEN "free"
                          ELSE IF req[mutex[id]] = "answered" THEN "executed"
                          ELSE "asked"]

\* Each call is executed once before it returns, one at a time per channel.
ImplementsRpc == R!RpcSpec

\* A caller that waits is owed an answer, or its message was lost and nothing
\* is under way for it: no other call is ever forgotten.
Somewhere(id) == InFifo(id) \/ InQueue(id) \/ InHand(id) \/ Coming(id) \/ Posted(id)
WaitsAreOwed ==
  /\ \A t \in lost : pc[t] = "wait"
  /\ \A t \in Task : pc[t] = "wait" => (t \in lost <=> ~Somewhere(WaitId(t)))

\* What a lost message costs: its caller waits for ever, with the mutex of the
\* channel (OS_WAIT_FOREVER in ducc_app.c:178-193), and so does everybody who
\* waits for that mutex.
LostForEver ==
  [][\A t \in lost :
       /\ t \in lost' /\ pc'[t] = "wait" /\ mutex'[WaitId(t)] = t
       /\ \A u \in Task : pc[u] = "lock" /\ WaitId(u) = WaitId(t) => pc'[u] = "lock"]_vars

\* The steps of the suspend during which the flag forbids new calls.
Flagged == pm \in {"flagged", "deinit", "down"}

\* The only thing that loses messages is the shut down message box: no queue
\* overflows, and a request is lost as it is sent only into that.
LostOnlyByShutdown ==
  [][/\ lost' # lost => ~up' /\ pm' = "down" /\ suspending'["app"]
     /\ \A t \in Task : pc[t] = "send" /\ pc'[t] = "wait" => (t \in lost' <=> ~up)]_vars
=============================================================================
