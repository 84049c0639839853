------------------------------ MODULE PmSuspend ------------------------------
(***************************************************************************)
(* Power management (src/pm/pm.c): a task brings the system to sleep with  *)
(* pm_enter_mode.  Devices are suspended one by one, first those with a    *)
(* "suspend" callback, while other tasks still run; then, with the         *)
(* scheduler stopped and interrupts masked, those with a "noirq" callback; *)
(* after the sleep, or when anything fails, they are resumed.              *)
(*                                                                         *)
(* A device is linked by one list node per kind of callback.  The four     *)
(* lists are used as stacks: list_add and list_move put a node at the head.*)
(* Other tasks register and unregister devices meanwhile.  The lists are    *)
(* sequences here; PmLists has their pointers, and shows what a change that *)
(* falls into a list_move does to them.                                    *)
(***************************************************************************)
EXTENDS Integers, Sequences

CONSTANTS
  Op0Dev, Op1Dev,  \* devices with suspend/resume, with suspend_noirq/resume_noirq
  Wlan,            \* WLAN_SYS_DEV, which the WLAN power callback (un)registers
  WlanOffModes,    \* pm_wlan_mode_platform_config
  Configs,         \* values of pm_mode_platform_config, as sets of modes
  Requests,        \* modes asked of pm_enter_mode
  Misuses,         \* what a system may do beyond the legal, as sets of kinds of Misuse
  MaxChanges       \* bound: devices registered or unregistered while suspending

\* Callbacks that return with interrupts on, tasks that preempt the suspending one
\* between callbacks, devices registered twice, requests for which there is no mode.
Misuse == {"unmask", "preempt", "twice", "nomode"}

PM_MODE_ON == 0
PM_MODE_SLEEP == 1
PM_MODE_HIBERNATION == 3
PM_MODE_POWEROFF == 4
PM_MODE_MAX == 5
Mode == 0 .. PM_MODE_MAX - 1

Dev == Op0Dev \cup Op1Dev
Node == (Op0Dev \X {0}) \cup (Op1Dev \X {1})
NoNode == <<>>

ASSUME DeviceAssumption == Wlan \in Op0Dev

ASSUME ModeAssumption ==
  /\ Requests \subseteq Mode
  /\ \A c \in Configs : c \subseteq Mode
  /\ WlanOffModes \subseteq Mode /\ {PM_MODE_HIBERNATION, PM_MODE_POWEROFF} \subseteq WlanOffModes

ASSUME BoundAssumption == MaxChanges \in Nat

ASSUME MisuseAssumption == Misuses \subseteq SUBSET Misuse

VARIABLES
  dpm_list, dpm_suspended_list,         \* OP0 nodes, head first
  dpm_late_early_list, dpm_noirq_list,  \* OP1 nodes, head first
  pc,       \* what the suspending task does next; "bug" is PM_BUG_ON's endless loop,
            \* and "torn" the end of what the lists can tell (see Torn)
  mode,     \* state_use of pm_enter_mode
  alive,    \* net_alive of pm_enter_mode
  cur,      \* the node whose callback runs, NoNode when none does
  masked,   \* are interrupts masked?
  pending,  \* is an interrupt pending that check_wakeup_irqs looks for?
  down,     \* the nodes whose device is suspended, the latest first
  changes,
  misuse    \* what the system may do beyond the legal; it stays as it is

lists == <<dpm_list, dpm_suspended_list, dpm_late_early_list, dpm_noirq_list>>
vars == <<lists, pc, mode, alive, cur, masked, pending, down, changes, misuse>>
-----------------------------------------------------------------------------
InSeq(n, s) == \E i \in 1 .. Len(s) : s[i] = n

\* list_del, for a node that is linked at most once.
Unlink(s, n) ==
  LET at == CHOOSE i \in 1 .. Len(s) : s[i] = n
  IN  IF InSeq(n, s)
      THEN [i \in 1 .. Len(s) - 1 |-> IF i < at THEN s[i] ELSE s[i + 1]]
      ELSE s

\* Fault: list_move_tail in place of list_move.
PushTail(n, s) == Append(s, n)

\* list_add
Push(n, s) == <<n>> \o s

\* The suspended nodes after that of n.
Downed(n) == <<n>> \o Unlink(down, n)

Linked(n) ==
  InSeq(n, dpm_list) \/ InSeq(n, dpm_suspended_list)
    \/ InSeq(n, dpm_late_early_list) \/ InSeq(n, dpm_noirq_list)

Registered(d) == Linked(<<d, 0>>) \/ Linked(<<d, 1>>)

\* The deepest mode not above the one asked for that the platform supports;
\* the loop of pm_enter_mode runs below PM_MODE_ON when there is none.
ModeUsed(config, state) ==
  IF \E s \in config : s <= state
  THEN CHOOSE s \in config : s <= state /\ \A t \in config : t <= state => t <= s
  ELSE PM_MODE_ON - 1

Init ==
  /\ dpm_list = <<>> /\ dpm_suspended_list = <<>>
  /\ dpm_late_early_list = <<>> /\ dpm_noirq_list = <<>>
  /\ pc = "idle"
  /\ mode = PM_MODE_ON
  /\ alive = FALSE
  /\ cur = NoNode
  /\ masked = FALSE /\ pending = FALSE
  /\ down = <<>>
  /\ changes = 0
  /\ misuse \in Misuses
-----------------------------------------------------------------------------
(* Registering and unregistering devices, by other tasks while the         *)
(* scheduler runs: always while a callback waits, and at any other time if *)
(* they can preempt the suspending task.  A driver does not unregister its *)
(* device from inside its own callback (hal_i2c.c:627, core.c:924), and    *)
(* nobody else switches the WLAN while the system is being suspended.      *)
OthersRun ==
  /\ ~masked
  /\ pc \in {"idle", "callback", "resumecb"} \/ ("preempt" \in misuse /\ pc \in {"suspend", "enter", "resume"})
  /\ IF pc = "idle" THEN UNCHANGED changes
     ELSE changes < MaxChanges /\ changes' = changes + 1

MayChange(d) == pc # "idle" => d # Wlan /\ (cur # NoNode => cur[1] # d)

\* The two list_adds of a device, each with interrupts masked, in one step.
AddNodes(d) ==
  /\ dpm_list' = IF d \in Op0Dev THEN Push(<<d, 0>>, dpm_list) ELSE dpm_list
  /\ dpm_late_early_list' =
       IF d \in Op1Dev THEN Push(<<d, 1>>, dpm_late_early_list) ELSE dpm_late_early_list
  /\ UNCHANGED <<dpm_suspended_list, dpm_noirq_list>>

RemoveNodes(d) ==
  /\ dpm_list' = Unlink(dpm_list, <<d, 0>>)
  /\ dpm_suspended_list' = Unlink(dpm_suspended_list, <<d, 0>>)
  /\ dpm_late_early_list' = Unlink(dpm_late_early_list, <<d, 1>>)
  /\ dpm_noirq_list' = Unlink(dpm_noirq_list, <<d, 1>>)

\* Fault: PM_BUG_ON does not stop the second registration.
RegisterAgain(d) ==
  /\ OthersRun
  /\ MayChange(d)
  /\ ~Registered(d) \/ "twice" \in misuse
  /\ AddNodes(d)
  /\ UNCHANGED <<pc, mode, alive, cur, masked, pending, down>>

\* pm_register_ops: a node that is linked is a bug; the search for duplicates
\* that follows finds none.
Register(d) ==
  /\ OthersRun
  /\ MayChange(d)
  /\ \/ ~Registered(d) /\ AddNodes(d) /\ UNCHANGED pc
     \/ Registered(d) /\ "twice" \in misuse /\ pc' = "bug" /\ UNCHANGED lists
  /\ UNCHANGED <<mode, alive, cur, masked, pending, down>>

\* pm_unregister_ops; a device that is suspended is given up with it.
Unregister(d) ==
  /\ OthersRun
  /\ MayChange(d)
  /\ Registered(d)
  /\ RemoveNodes(d)
  /\ down' = Unlink(Unlink(down, <<d, 0>>), <<d, 1>>)
  /\ UNCHANGED <<pc, mode, alive, cur, masked, pending>>

\* dpm_suspend and dpm_resume move a node with interrupts on (pm.c:442, 513).
\* A change of the same lists before or after the move is one of the actions
\* above.  One that falls between the loads and the stores of list_move may leave
\* lists that are none, as may the removal of the only node between the test that
\* there is one and its use; what follows is not described.
Torn(d) ==
  /\ "preempt" \in misuse /\ ~masked
  /\ d \in Op0Dev \ {Wlan}
  /\ \/ pc = "suspend" /\ dpm_list = <<<<d, 0>>>>
     \/ pc = "callback"
     \/ pc = "resume" /\ dpm_suspended_list # <<>>
  /\ changes < MaxChanges /\ changes' = changes + 1
  /\ pc' = "torn"
  /\ UNCHANGED <<lists, mode, alive, cur, masked, pending, down>>

\* An interrupt that nobody can serve while interrupts are masked.
Interrupt ==
  /\ masked
  /\ pending' = TRUE
  /\ UNCHANGED <<lists, pc, mode, alive, cur, masked, down, changes>>
-----------------------------------------------------------------------------
(* pm_enter_mode, dpm_suspend                                              *)

EnterMode ==
  /\ pc = "idle"
  /\ \E config \in Configs, state \in Requests :
       /\ "nomode" \in misuse \/ \E s \in config : s <= state
       /\ mode' = ModeUsed(config, state)
       /\ mode' # PM_MODE_ON
  /\ alive' = Registered(Wlan)
  /\ \/ mode' \in Mode /\ pc' = "suspend"
        /\ IF alive' /\ mode' \in WlanOffModes THEN RemoveNodes(Wlan) ELSE UNCHANGED lists
     \/ mode' \notin Mode /\ pc' = "bug" /\ UNCHANGED lists
  /\ changes' = 0
  /\ UNCHANGED <<cur, masked, pending, down>>

SuspendCall ==
  /\ pc = "suspend"
  /\ dpm_list # <<>>
  /\ cur' = Head(dpm_list)
  /\ pc' = "callback"
  /\ UNCHANGED <<lists, mode, alive, masked, pending, down, changes>>

\* The callback returned 0: the device is moved to the suspended ones.
SuspendDone ==
  /\ pc = "callback"
  /\ dpm_list' = Unlink(dpm_list, cur)
  /\ dpm_suspended_list' = Push(cur, dpm_suspended_list)
  /\ down' = Downed(cur)
  /\ cur' = NoNode
  /\ pc' = "suspend"
  /\ UNCHANGED <<dpm_late_early_list, dpm_noirq_list, mode, alive, masked, pending, changes>>

\* Fault: a device that failed is taken for suspended, and the others are left up.
SuspendFailGoesOn ==
  /\ pc = "callback"
  /\ cur' = NoNode
  /\ pc' = "enter"
  /\ UNCHANGED <<lists, mode, alive, masked, pending, down, changes>>

SuspendFail ==
  /\ pc = "callback"
  /\ cur' = NoNode
  /\ pc' = "resume"
  /\ UNCHANGED <<lists, mode, alive, masked, pending, down, changes>>

SuspendAll ==
  /\ pc = "suspend"
  /\ dpm_list = <<>>
  /\ pc' = "enter"
  /\ UNCHANGED <<lists, mode, alive, cur, masked, pending, down, changes, misuse>>
-----------------------------------------------------------------------------
(* suspend_enter, dpm_suspend_noirq: nobody else runs.                     *)

Mask ==
  /\ pc = "enter"
  /\ masked' = TRUE
  /\ pc' = "masked"
  /\ UNCHANGED <<lists, mode, alive, cur, pending, down, changes>>

FirstCheck ==
  /\ pc = "masked"
  /\ pc' = IF pending THEN "unmask" ELSE "noirq"
  /\ UNCHANGED <<lists, mode, alive, cur, masked, pending, down, changes>>

NoirqFail ==
  /\ pc = "noirq"
  /\ dpm_late_early_list # <<>>
  /\ pc' = "resume_noirq"
  /\ UNCHANGED <<lists, mode, alive, cur, masked, pending, down, changes>>

\* Fault: the pending interrupt is seen before the device is moved.
NoirqDoneUnmoved ==
  /\ pc = "noirq"
  /\ dpm_late_early_list # <<>>
  /\ down' = Downed(Head(dpm_late_early_list))
  /\ IF pending
     THEN UNCHANGED lists /\ pc' = "resume_noirq"
     ELSE /\ dpm_late_early_list' = Tail(dpm_late_early_list)
          /\ dpm_noirq_list' = Push(Head(dpm_late_early_list), dpm_noirq_list)
          /\ UNCHANGED <<dpm_list, dpm_suspended_list, pc>>
  /\ UNCHANGED <<mode, alive, cur, masked, pending, changes>>

NoirqDone ==
  /\ pc = "noirq"
  /\ dpm_late_early_list # <<>>
  /\ dpm_late_early_list' = Tail(dpm_late_early_list)
  /\ dpm_noirq_list' = Push(Head(dpm_late_early_list), dpm_noirq_list)
  /\ down' = Downed(Head(dpm_late_early_list))
  /\ pc' = IF pending THEN "resume_noirq" ELSE "noirq"
  /\ UNCHANGED <<dpm_list, dpm_suspended_list, mode, alive, cur, masked, pending, changes>>

\* The callback returned 0 with interrupts on: the loop ends, without an error
\* and without moving the device.
NoirqUnmasked ==
  /\ pc = "noirq"
  /\ dpm_late_early_list # <<>>
  /\ "unmask" \in misuse
  /\ down' = Downed(Head(dpm_late_early_list))
  /\ masked' = FALSE
  /\ pending' = FALSE
  /\ pc' = "lastcheck"
  /\ UNCHANGED <<lists, mode, alive, cur, changes>>

NoirqAll ==
  /\ pc = "noirq"
  /\ dpm_late_early_list = <<>>
  /\ pc' = "lastcheck"
  /\ UNCHANGED <<lists, mode, alive, cur, masked, pending, down, changes>>

\* Setting up the wake-up sources may fail, and the system does not sleep.
LastCheck ==
  /\ pc = "lastcheck"
  /\ \/ pc' = "resume_noirq"
     \/ ~pending /\ pc' = "asleep"
  /\ UNCHANGED <<lists, mode, alive, cur, masked, pending, down, changes>>

\* A pending interrupt ends the sleep, except that of PM_MODE_POWEROFF.
Wake ==
  /\ pc = "asleep"
  /\ mode # PM_MODE_POWEROFF
  /\ \/ pending /\ masked /\ pc' = "resume_noirq"
     \/ ~masked /\ pc' = "bug"
  /\ UNCHANGED <<lists, mode, alive, cur, masked, pending, down, changes, misuse>>
-----------------------------------------------------------------------------
(* dpm_resume_noirq, dpm_resume, the end of pm_enter_mode                  *)

ResumeNoirq ==
  /\ pc = "resume_noirq"
  /\ dpm_noirq_list # <<>>
  /\ dpm_noirq_list' = Tail(dpm_noirq_list)
  /\ dpm_late_early_list' = Push(Head(dpm_noirq_list), dpm_late_early_list)
  /\ down' = Unlink(down, Head(dpm_noirq_list))
  /\ UNCHANGED <<dpm_list, dpm_suspended_list, pc, mode, alive, cur, masked, pending, changes>>

ResumeNoirqAll ==
  /\ pc = "resume_noirq"
  /\ dpm_noirq_list = <<>>
  /\ pc' = "unmask"
  /\ UNCHANGED <<lists, mode, alive, cur, masked, pending, down, changes>>

\* Fault: an early return leaves the interrupts masked.
UnmaskForgotten ==
  /\ pc = "unmask"
  /\ pc' = "resume"
  /\ UNCHANGED <<lists, mode, alive, cur, masked, pending, down, changes>>

Unmask ==
  /\ pc = "unmask"
  /\ masked' = FALSE
  /\ pending' = FALSE
  /\ pc' = "resume"
  /\ UNCHANGED <<lists, mode, alive, cur, down, changes>>

\* Fault: the device is not moved back.
ResumeCallUnmoved ==
  /\ pc = "resume"
  /\ dpm_suspended_list # <<>>
  /\ cur' = Head(dpm_suspended_list)
  /\ pc' = "resumecb"
  /\ UNCHANGED <<lists, mode, alive, masked, pending, down, changes>>

\* Fault: list_del in place of list_move.
ResumeCallDropped ==
  /\ pc = "resume"
  /\ dpm_suspended_list # <<>>
  /\ cur' = Head(dpm_suspended_list)
  /\ dpm_suspended_list' = Tail(dpm_suspended_list)
  /\ pc' = "resumecb"
  /\ UNCHANGED <<dpm_list, dpm_late_early_list, dpm_noirq_list, mode, alive, masked, pending, down,
                 changes>>

\* The device is moved back before its callback is called.
ResumeCall ==
  /\ pc = "resume"
  /\ dpm_suspended_list # <<>>
  /\ cur' = Head(dpm_suspended_list)
  /\ dpm_suspended_list' = Tail(dpm_suspended_list)
  /\ dpm_list' = Push(Head(dpm_suspended_list), dpm_list)
  /\ pc' = "resumecb"
  /\ UNCHANGED <<dpm_late_early_list, dpm_noirq_list, mode, alive, masked, pending, down, changes>>

ResumeReturn ==
  /\ pc = "resumecb"
  /\ down' = Unlink(down, cur)
  /\ cur' = NoNode
  /\ pc' = "resume"
  /\ UNCHANGED <<lists, mode, alive, masked, pending, changes>>

\* Fault: the WLAN is started whether or not it was stopped.
LeaveModeStartsAnyway ==
  /\ pc = "resume"
  /\ dpm_suspended_list = <<>>
  /\ IF alive
     THEN /\ AddNodes(Wlan)
          /\ pc' = IF Registered(Wlan) THEN "bug" ELSE "idle"
     ELSE UNCHANGED lists /\ pc' = "idle"
  /\ UNCHANGED <<mode, alive, cur, masked, pending, down, changes>>

LeaveMode ==
  /\ pc = "resume"
  /\ dpm_suspended_list = <<>>
  /\ IF alive /\ mode \in WlanOffModes
     THEN IF Registered(Wlan) THEN pc' = "bug" /\ UNCHANGED lists
          ELSE pc' = "idle" /\ AddNodes(Wlan)
     ELSE pc' = "idle" /\ UNCHANGED lists
  /\ UNCHANGED <<mode, alive, cur, masked, pending, down, changes>>

Suspending == SuspendCall \/ SuspendDone \/ SuspendFail \/ SuspendAll
Entering ==
  \/ Mask \/ FirstCheck
  \/ NoirqFail \/ NoirqDone \/ NoirqUnmasked \/ NoirqAll
  \/ LastCheck
Resuming ==
  ResumeNoirq \/ ResumeNoirqAll \/ Unmask \/ ResumeCall \/ ResumeReturn \/ LeaveMode

TaskStep == UNCHANGED misuse /\ (Suspending \/ Entering \/ Wake \/ Resuming)

Next ==
  \/ /\ UNCHANGED misuse
     /\ \/ \E d \in Dev : Register(d) \/ Unregister(d) \/ Torn(d)
        \/ Interrupt
        \/ EnterMode
  \/ TaskStep

Spec == Init /\ [][Next]_vars

\* The suspending task executes and callbacks return; a pending interrupt
\* wakes the CPU.  Nobody has to suspend, and no interrupt has to come.
FairSpec == Spec /\ WF_vars(TaskStep)
-----------------------------------------------------------------------------
Distinct(s) == \A i, j \in 1 .. Len(s) : s[i] = s[j] => i = j

TypeOK ==
  /\ dpm_list \in Seq(Op0Dev \X {0}) /\ dpm_suspended_list \in Seq(Op0Dev \X {0})
  /\ dpm_late_early_list \in Seq(Op1Dev \X {1}) /\ dpm_noirq_list \in Seq(Op1Dev \X {1})
  /\ pc \in {"idle", "suspend", "callback", "enter", "masked", "noirq", "lastcheck",
             "asleep", "resume_noirq", "unmask", "resume", "resumecb", "bug", "torn"}
  /\ mode \in -1 .. PM_MODE_MAX - 1
  /\ alive \in BOOLEAN /\ masked \in BOOLEAN /\ pending \in BOOLEAN
  /\ cur \in Node \cup {NoNode}
  /\ down \in Seq(Node)
  /\ changes \in 0 .. MaxChanges
  /\ misuse \in Misuses

ListsProper ==
  /\ Distinct(dpm_list) /\ Distinct(dpm_suspended_list)
  /\ Distinct(dpm_late_early_list) /\ Distinct(dpm_noirq_list)
  /\ \A n \in Node :
       /\ ~(InSeq(n, dpm_list) /\ InSeq(n, dpm_suspended_list))
       /\ ~(InSeq(n, dpm_late_early_list) /\ InSeq(n, dpm_noirq_list))

\* However devices come and go, fail, or open the interrupts: a node is linked
\* into one list at most, and once (pm.c:393-446, 474-511, 662-737), as long as no
\* change falls into a list_move.
NodesOnce == pc # "torn" => ListsProper

\* The system sleeps only when every device registered at that moment has
\* been suspended ("Execute "suspend" callbacks for all devices", pm.c:416,
\* and of "noirq suspend", pm.c:359), unless a noirq callback opens the interrupts
\* (pm.c:385) or a task comes between dpm_suspend and the stop of the scheduler
\* (pm.c:636).
AllDownWhenAsleep ==
  pc = "asleep" /\ misuse \cap {"unmask", "preempt"} = {} =>
    dpm_list = <<>> /\ dpm_late_early_list = <<>>

\* Whatever failed or interrupted the suspend, and whoever preempted it, no device
\* is left suspended when pm_enter_mode returns (pm.c:487-517), unless a noirq
\* callback opened the interrupts.
AllUpWhenBack == pc = "idle" /\ "unmask" \notin misuse => down = <<>>

\* Devices are resumed in the reverse of the order they were suspended in, also
\* when others are registered or unregistered in between (pm.c:391-517), unless a
\* noirq callback opened the interrupts.
ResumesLatestFirst ==
  [][\A n \in Node :
       InSeq(n, down) /\ ~InSeq(n, down') /\ Linked(n)' /\ "unmask" \notin misuse
         => n = Head(down)]_vars

\* Stopping and restarting the WLAN around a suspend, whatever fails and whoever
\* preempts, ends in none of the PM_BUG_ON loops (pm.c:672-680, 723-729, 859): what
\* does is a device registered twice, a mode that there is none of, and a callback
\* that opens the interrupts.
NoBug == misuse \cap {"unmask", "twice", "nomode"} = {} => pc # "bug"

\* No failure, wake-up or second registration drops a device from power
\* management or brings one back: as long as no change falls into a list_move, a
\* node comes or goes when a driver asks for it, or when the WLAN is stopped by
\* EnterMode and started by LeaveMode (pm.c:365-528, 868-885).
KeepsDevices ==
  [][pc' # "torn" => \A n \in Node : Linked(n)' # Linked(n) =>
       \/ pc' = pc /\ (pc # "idle" => changes' = changes + 1)
       \/ n[1] = Wlan /\ alive' /\ mode' \in WlanOffModes /\ "idle" \in {pc, pc'}]_vars

\* How far the suspending task has come, and how many callbacks and returns are
\* left to it before it comes further.
Stage ==
  CASE pc \in {"suspend", "callback"} -> 0
    [] pc = "enter" -> 1
    [] pc = "masked" -> 2
    [] pc = "noirq" -> 3
    [] pc = "lastcheck" -> 4
    [] pc = "asleep" -> 5
    [] pc = "resume_noirq" -> 6
    [] pc = "unmask" -> 7
    [] pc \in {"resume", "resumecb"} -> 8
    [] OTHER -> 9
CallsLeft ==
  CASE pc = "suspend" -> 2 * Len(dpm_list) + 1
    [] pc = "callback" -> 2 * Len(dpm_list)
    [] pc = "noirq" -> Len(dpm_late_early_list)
    [] pc = "resume_noirq" -> Len(dpm_noirq_list)
    [] pc = "resume" -> 2 * Len(dpm_suspended_list)
    [] pc = "resumecb" -> 2 * Len(dpm_suspended_list) + 1
    [] OTHER -> 0

\* Every step of the suspending task brings it nearer to its return, whatever
\* fails: it never goes back to a stage it has left, and only a device
\* that another task registers can add to its work (pm.c:365-594).
SuspendAdvances ==
  [][pc \notin {"idle", "bug", "torn"} /\ changes' = changes /\ <<pc, lists>>' # <<pc, lists>> =>
       Stage' > Stage \/ (Stage' = Stage /\ CallsLeft' < CallsLeft)]_vars

\* The strengthening of the safety properties that every step preserves.
InHand ==
  /\ pc \in {"callback", "resumecb"} => cur \in Op0Dev \X {0} /\ InSeq(cur, dpm_list)
  /\ pc \notin {"callback", "resumecb", "bug"} => cur = NoNode

Phases ==
  /\ pc \notin {"noirq", "lastcheck", "asleep", "resume_noirq", "bug"} => dpm_noirq_list = <<>>
  /\ pc = "idle" => dpm_suspended_list = <<>>
  /\ "preempt" \notin misuse /\ pc \in {"enter", "masked", "noirq", "lastcheck", "asleep"} => dpm_list = <<>>

\* The nodes of the lists of suspended devices, those suspended last first.
SuspendedNodes ==
  (IF pc = "resumecb" THEN <<cur>> ELSE <<>>) \o (dpm_noirq_list \o dpm_suspended_list)

\* As long as no noirq callback opens the interrupts.
DownAreListed ==
  /\ masked <=> pc \in {"masked", "noirq", "lastcheck", "asleep", "resume_noirq", "unmask"}
  /\ pc \in {"lastcheck", "asleep"} => dpm_late_early_list = <<>>
  /\ Distinct(down)
  /\ pc # "bug" => down = SuspendedNodes

WlanStaysOff ==
  pc \notin {"idle", "bug"} =>
    mode \in Mode /\ (alive /\ mode \in WlanOffModes => ~Registered(Wlan))

ListInv ==
  /\ ListsProper /\ InHand /\ Phases
  /\ "unmask" \notin misuse => DownAreListed
  /\ WlanStaysOff

PmInv == TypeOK /\ (pc # "torn" => ListInv)

\* An interrupt that comes while interrupts are masked is served in the end,
\* unless the system was powered off.
InterruptServed == pending ~> ~pending \/ (pc = "asleep" /\ mode = PM_MODE_POWEROFF)

\* pm_enter_mode returns, or the system sleeps, if the use is legal; if it is not,
\* nothing but the loop of a PM_BUG_ON or lists that are torn can keep it.
EnterModeReturns ==
  pc = "suspend" ~> pc \in {"idle", "asleep"} \/ (misuse # {} /\ pc \in {"bug", "torn"})
=============================================================================
