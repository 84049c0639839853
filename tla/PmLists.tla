------------------------------ MODULE PmLists ------------------------------
(***************************************************************************)
(* The list nodes behind dpm_list and dpm_suspended_list (src/pm/pm.c,     *)
(* include/sys/list.h), pointer by pointer: dpm_suspend and dpm_resume move *)
(* a node with list_move, whose loads and stores another task can come      *)
(* between, while pm_register_ops and pm_unregister_ops change the same     *)
(* lists with interrupts masked.  PmSuspend has sequences in their place.   *)
(***************************************************************************)
EXTENDS Naturals, Sequences, FiniteSets

CONSTANTS
  Dev,         \* devices with suspend and resume callbacks
  MaxChanges   \* bound: devices registered or unregistered while suspending, and also
               \* when idle once the lists are torn

ASSUME ListsAssumption ==
  IsFiniteSet(Dev) /\ MaxChanges \in Nat

dpm_list == "dpm_list"
dpm_suspended_list == "dpm_suspended_list"
List == {dpm_list, dpm_suspended_list}
Cell == Dev \cup List

VARIABLES
  next, prev,  \* of every list head and every device's node
  pc,          \* what the suspending task does next; "astray" when it has taken a list
               \* head for a device, or another task stays in a PM_BUG_ON or a search
  from, to,    \* the list it empties and the list it fills
  dev,         \* the device it has in hand
  p, n,        \* arguments of __list_del and __list_add
  registered,  \* the devices whose drivers have registered them
  down,        \* the devices whose last callback was a successful suspend
  changes,
  harm         \* history: "torn" by a change inside a list_move, "late" for the stop of the
               \* scheduler, "gone" between the test of a list and its use

cells == <<next, prev>>
vars == <<cells, pc, from, to, dev, p, n, registered, down, changes, harm>>

\* The order of the loads and stores of list_move.
MoveSteps == <<"load_prev", "load_next", "unlink_next", "unlink_prev",
               "load_head", "link_next", "set_next", "set_prev", "link_prev">>
Moving == {MoveSteps[i] : i \in 1 .. Len(MoveSteps)}

Init ==
  /\ next = [c \in Cell |-> c] /\ prev = [c \in Cell |-> c]
  /\ pc = "idle"
  /\ from = dpm_list /\ to = dpm_suspended_list
  /\ dev = dpm_list /\ p = dpm_list /\ n = dpm_list
  /\ registered = {} /\ down = {}
  /\ changes = 0 /\ harm = {}
-----------------------------------------------------------------------------
(* list_add and list_del with interrupts masked, and what they are called   *)
(* for by other tasks: while a callback waits, and between any two accesses *)
(* of the suspending task, until it stops the scheduler.                    *)

\* The cells that list_for_each comes to, h itself if the search ends.
Walk(h) ==
  LET cell[k \in 0 .. Cardinality(Cell)] == IF k = 0 THEN next[h] ELSE next[cell[k - 1]]
  IN  {cell[k] : k \in 0 .. Cardinality(Cell)}

Devices(h) == Walk(h) \ {h}

OthersRun(d) ==
  /\ pc \notin {"asleep", "astray"}
  /\ pc = "callback" => d # dev
  /\ IF pc = "idle" /\ "torn" \notin harm THEN UNCHANGED changes
     ELSE changes < MaxChanges /\ changes' = changes + 1

\* A device linked in front of dpm_list is lost when list_move has read what it is
\* about to store there: the new first node of dpm_list in dpm_suspend, the one to
\* link in front of in dpm_resume.
Overwritten ==
  \/ p = dpm_list /\ pc \in {"load_next", "unlink_next", "unlink_prev"}
  \/ to = dpm_list /\ pc \in {"link_next", "set_next", "set_prev", "link_prev"}

\* An unlinked node comes back, or is where a search never leaves it, when list_move
\* holds a pointer to it.
Relinked(d) ==
  \/ d = dev /\ pc \in Moving
  \/ d = p /\ pc \in {"load_next", "unlink_next", "unlink_prev"}
  \/ d = n /\ pc \in {"unlink_next", "unlink_prev", "link_next", "set_next", "set_prev", "link_prev"}

\* PM_BUG_ON, or a search that does not come back to where it began.
GoesAstray == pc' = "astray" /\ UNCHANGED <<cells, registered, down, harm>>

Clean(d) == next[d] = d /\ d \notin Walk(dpm_list) /\ dpm_list \in Walk(dpm_list)

\* Fault: the list head keeps its first node.
RegisterBehind(d) ==
  /\ OthersRun(d)
  /\ d \notin registered /\ Clean(d)
  /\ prev' = [prev EXCEPT ![next[dpm_list]] = d, ![d] = dpm_list]
  /\ next' = [next EXCEPT ![d] = next[dpm_list]]
  /\ registered' = registered \cup {d}
  /\ UNCHANGED <<pc, from, to, dev, p, n, down, harm>>

\* pm_register_ops
Register(d) ==
  /\ OthersRun(d)
  /\ d \notin registered
  /\ \/ /\ Clean(d)
        /\ prev' = [prev EXCEPT ![next[dpm_list]] = d, ![d] = dpm_list]
        /\ next' = [next EXCEPT ![d] = next[dpm_list], ![dpm_list] = d]
        /\ registered' = registered \cup {d}
        /\ harm' = harm \cup (IF Overwritten THEN {"torn"} ELSE {})
                        \cup (IF pc = "suspended" THEN {"late"} ELSE {})
        /\ UNCHANGED <<pc, down>>
     \/ ~Clean(d) /\ GoesAstray
  /\ UNCHANGED <<from, to, dev, p, n>>

\* pm_unregister_ops
Unregister(d) ==
  /\ OthersRun(d)
  /\ d \in registered
  /\ \/ /\ next[d] # d
        /\ prev' = [prev EXCEPT ![next[d]] = prev[d], ![d] = d]
        /\ next' = [next EXCEPT ![prev[d]] = next[d], ![d] = d]
        /\ registered' = registered \ {d} /\ down' = down \ {d}
        /\ harm' = harm \cup (IF Relinked(d) THEN {"torn"} ELSE {})
        /\ UNCHANGED pc
     \/ next[d] = d /\ GoesAstray
  /\ UNCHANGED <<from, to, dev, p, n>>
-----------------------------------------------------------------------------
(* dpm_suspend and dpm_resume                                              *)

Begin ==
  /\ pc = "idle"
  /\ pc' = "loop" /\ from' = dpm_list /\ to' = dpm_suspended_list
  /\ dev' = dpm_list
  /\ changes' = (IF "torn" \in harm THEN changes ELSE 0) /\ harm' = harm \ {"late"}
  /\ UNCHANGED <<cells, p, n, registered, down>>

NotEmpty ==
  /\ pc = "loop"
  /\ next[from] # from
  /\ pc' = "take"
  /\ UNCHANGED <<cells, from, to, dev, p, n, registered, down, changes, harm>>

\* dpm_suspend calls before it moves, dpm_resume moves before it calls.  The node may
\* be gone since the test that there is one: then the list head is the "device".
Take ==
  /\ pc = "take"
  /\ dev' = next[from]
  /\ pc' = IF dev' \notin Dev THEN "astray" ELSE IF from = dpm_list THEN "callback" ELSE "load_prev"
  /\ harm' = IF dev' = from THEN harm \cup {"gone"} ELSE harm
  /\ UNCHANGED <<cells, from, to, p, n, registered, down, changes>>

CallbackReturns ==
  /\ pc = "callback"
  /\ IF from = dpm_list
     THEN pc' = "load_prev" /\ down' = down \cup {dev}
     ELSE pc' = "loop" /\ down' = down \ {dev}
  /\ UNCHANGED <<cells, from, to, dev, p, n, registered, changes, harm>>

\* An error ends the loop of dpm_suspend, and dpm_resume follows.
CallbackFails ==
  /\ pc = "callback" /\ from = dpm_list
  /\ pc' = "loop" /\ from' = dpm_suspended_list /\ to' = dpm_list
  /\ UNCHANGED <<cells, dev, p, n, registered, down, changes, harm>>

LoopEnds ==
  /\ pc = "loop"
  /\ next[from] = from
  /\ pc' = IF from = dpm_list THEN "suspended" ELSE "idle"
  /\ UNCHANGED <<cells, from, to, dev, p, n, registered, down, changes, harm>>

\* OS_ThreadSuspendScheduler
StopScheduler ==
  /\ pc = "suspended"
  /\ pc' = "asleep"
  /\ UNCHANGED <<cells, from, to, dev, p, n, registered, down, changes, harm>>

Resume ==
  /\ pc = "asleep"
  /\ pc' = "loop" /\ from' = dpm_suspended_list /\ to' = dpm_list
  /\ UNCHANGED <<cells, dev, p, n, registered, down, changes, harm>>

StepTo(step) == pc' = step /\ UNCHANGED <<from, to, dev, registered, down, changes, harm>>

\* __list_del(entry->prev, entry->next)
ListDel ==
  \/ pc = "load_prev" /\ p' = prev[dev] /\ StepTo("load_next") /\ UNCHANGED <<cells, n>>
  \/ pc = "load_next" /\ n' = next[dev] /\ StepTo("unlink_next") /\ UNCHANGED <<cells, p>>
  \/ /\ pc = "unlink_next" /\ prev' = [prev EXCEPT ![n] = p]
     /\ StepTo("unlink_prev") /\ UNCHANGED <<next, p, n>>
  \/ /\ pc = "unlink_prev" /\ next' = [next EXCEPT ![p] = n]
     /\ StepTo("load_head") /\ UNCHANGED <<prev, p, n>>

AfterMove == IF from = dpm_list THEN "loop" ELSE "callback"

\* Fault: the node behind the new head does not learn of it.
ListAddOneWay ==
  \/ pc = "load_head" /\ n' = next[to] /\ StepTo("set_next") /\ UNCHANGED <<cells, p>>
  \/ /\ pc = "set_next" /\ next' = [next EXCEPT ![dev] = n]
     /\ StepTo("set_prev") /\ UNCHANGED <<prev, p, n>>
  \/ /\ pc = "set_prev" /\ prev' = [prev EXCEPT ![dev] = to]
     /\ StepTo("link_prev") /\ UNCHANGED <<next, p, n>>
  \/ /\ pc = "link_prev" /\ next' = [next EXCEPT ![to] = dev]
     /\ StepTo(AfterMove) /\ UNCHANGED <<prev, p, n>>

\* list_add: __list_add(list, head, head->next)
ListAdd ==
  \/ pc = "load_head" /\ n' = next[to] /\ StepTo("link_next") /\ UNCHANGED <<cells, p>>
  \/ /\ pc = "link_next" /\ prev' = [prev EXCEPT ![n] = dev]
     /\ StepTo("set_next") /\ UNCHANGED <<next, p, n>>
  \/ /\ pc = "set_next" /\ next' = [next EXCEPT ![dev] = n]
     /\ StepTo("set_prev") /\ UNCHANGED <<prev, p, n>>
  \/ /\ pc = "set_prev" /\ prev' = [prev EXCEPT ![dev] = to]
     /\ StepTo("link_prev") /\ UNCHANGED <<next, p, n>>
  \/ /\ pc = "link_prev" /\ next' = [next EXCEPT ![to] = dev]
     /\ StepTo(AfterMove) /\ UNCHANGED <<prev, p, n>>

Next ==
  \/ \E d \in Dev : Register(d) \/ Unregister(d)
  \/ Begin \/ NotEmpty \/ Take \/ CallbackReturns \/ CallbackFails \/ LoopEnds
  \/ StopScheduler \/ Resume
  \/ ListDel \/ ListAdd

Spec == Init /\ [][Next]_vars
-----------------------------------------------------------------------------
\* The type invariant.
TypeOK ==
  /\ next \in [Cell -> Cell] /\ prev \in [Cell -> Cell]
  /\ pc \in {"idle", "loop", "take", "callback", "suspended", "asleep", "astray"} \cup Moving
  /\ from \in List /\ to \in List \ {from}
  /\ dev \in Cell /\ p \in Cell /\ n \in Cell
  /\ registered \subseteq Dev /\ down \subseteq Dev
  /\ changes \in 0 .. MaxChanges /\ harm \subseteq {"torn", "late", "gone"}

ListsWhole ==
  /\ \A c \in Cell : prev[next[c]] = c /\ next[prev[c]] = c
  /\ Devices(dpm_list) \cup Devices(dpm_suspended_list) = registered
  /\ Devices(dpm_list) \cap Devices(dpm_suspended_list) = {}
  /\ \A d \in registered :
       pc # "callback" \/ d # dev => (d \in down <=> d \in Devices(dpm_suspended_list))

\* Between two moves the two directions of the lists agree, every registered
\* device is in one of the lists and every other device in none; those suspended
\* are in the one, the others in the other, but for the device in hand
\* (pm.c:424-446, 503-517, 681-736), and nothing has gone astray.  This survives
\* every change by another task but those that list_move overwrites or undoes.
ListsInv ==
  /\ TypeOK
  /\ pc \notin Moving /\ "torn" \notin harm =>
       ListsWhole /\ (pc = "astray" => "gone" \in harm)

\* dpm_suspend executes "suspend" callbacks for all devices (pm.c:416), also those
\* registered while it works, up to the moment it finds its list empty: only what
\* comes between that and the stop of the scheduler (pm.c:636), or into a list_move,
\* is up when the system sleeps.
AllDevicesDown == pc = "asleep" /\ harm = {} => registered \subseteq down
=============================================================================
