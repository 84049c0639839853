----------------------------- MODULE DuccProofs ------------------------------
(***************************************************************************)
(* Proofs about Ducc, for any tasks, any use they make of the two classes  *)
(* of calls, and any number of suspends.                                   *)
(***************************************************************************)
EXTENDS Ducc, TLAPS
-----------------------------------------------------------------------------
(* Ids, tasks and sequences.                                               *)

\* The two directions of a class are each other's peers.
LEMMA PeerFacts ==
  ASSUME NEW id \in Id
  PROVE  /\ Peer(id) \in Id /\ Peer(id) # id /\ Peer(Peer(id)) = id
         /\ id[1] \in Core /\ id[2] \in Class
BY DEF Peer, Id, Core, Class, Other

\* Different ids have different peers.
LEMMA PeerInjective ==
  ASSUME NEW a \in Id, NEW b \in Id
  PROVE  Peer(a) = b <=> a = Peer(b)
BY PeerFacts

\* Tasks are neither None nor Release.
LEMMA TaskFacts ==
  ASSUME NEW t \in Task
  PROVE  t # None /\ t # Release /\ CoreOf(t) \in Core
<1>1. t # None /\ t # Release
  BY UserAssumption
<1>2. CoreOf(t) \in Core
  <2>1. CASE t \in User
    BY <2>1, UserAssumption DEF CoreOf
  <2>2. CASE t \notin User
    BY <2>2, PeerFacts DEF CoreOf, Task
  <2>3. QED
    BY <2>1, <2>2
<1>3. QED
  BY <1>1, <1>2

\* A call waits on an id of its own core, and sends on the peer of that.
LEMMA CallIds ==
  ASSUME TypeOK, NEW t \in Task
  PROVE  /\ WaitId(t) \in Id /\ SendId(t) \in Id
         /\ SendId(t) = Peer(WaitId(t)) /\ Peer(SendId(t)) = WaitId(t)
<1>1. WaitId(t) \in Id
  BY TaskFacts DEF WaitId, Id, TypeOK
<1>2. QED
  BY <1>1, PeerFacts DEF SendId

\* A message that is put at the end.
LEMMA AppendMessages ==
  ASSUME NEW S, NEW s \in Seq(S), NEW x \in S
  PROVE  /\ Messages(Append(s, x)) = Messages(s) \cup {x}
         /\ Append(s, x) \in Seq(S)
         /\ Distinct(s) /\ x \notin Messages(s) => Distinct(Append(s, x))
<1> DEFINE a == Append(s, x)
<1>1. a \in Seq(S) /\ Len(a) = Len(s) + 1 /\ a[Len(s) + 1] = x
      /\ \A i \in 1 .. Len(s) : a[i] = s[i]
  OBVIOUS
<1>2. Len(s) \in Nat /\ 1 .. Len(a) = (1 .. Len(s)) \cup {Len(s) + 1}
  BY <1>1
<1> HIDE DEF a
<1>3. Messages(a) = Messages(s) \cup {x}
  BY <1>1, <1>2 DEF Messages
<1>4. ASSUME Distinct(s), x \notin Messages(s) PROVE Distinct(a)
  BY <1>1, <1>2, <1>4 DEF Distinct, Messages
<1>5. QED
  BY <1>1, <1>3, <1>4 DEF a

\* A message that is taken from the head.
LEMMA TailMessages ==
  ASSUME NEW S, NEW s \in Seq(S), s # <<>>, Distinct(s)
  PROVE  /\ Head(s) \in S /\ Tail(s) \in Seq(S)
         /\ Head(s) \in Messages(s)
         /\ Messages(Tail(s)) = Messages(s) \ {Head(s)}
         /\ Distinct(Tail(s))
<1> DEFINE t == Tail(s)
<1>1. Len(s) \in Nat \ {0} /\ Head(s) = s[1] /\ s[1] \in S /\ t \in Seq(S)
  OBVIOUS
<1>2. Len(t) = Len(s) - 1 /\ \A i \in 1 .. Len(t) : t[i] = s[i + 1]
  OBVIOUS
<1> HIDE DEF t
<1>3. Head(s) \in Messages(s)
  BY <1>1 DEF Messages
<1>4. Messages(t) \subseteq Messages(s) \ {Head(s)}
  <2>1. ASSUME NEW i \in 1 .. Len(t) PROVE t[i] \in Messages(s) \ {Head(s)}
    <3>1. i + 1 \in 1 .. Len(s) /\ i + 1 # 1 /\ 1 \in 1 .. Len(s) /\ t[i] = s[i + 1]
      BY <1>1, <1>2, <2>1
    <3>2. QED
      BY <1>1, <3>1 DEF Messages, Distinct
  <2>2. QED
    BY <2>1 DEF Messages
<1>5. Messages(s) \ {Head(s)} \subseteq Messages(t)
  <2>1. ASSUME NEW i \in 1 .. Len(s), s[i] # Head(s) PROVE s[i] \in Messages(t)
    <3>1. i - 1 \in 1 .. Len(t) /\ t[i - 1] = s[i]
      BY <1>1, <1>2, <2>1
    <3>2. QED
      BY <3>1 DEF Messages
  <2>2. QED
    BY <2>1 DEF Messages
<1>6. Distinct(t)
  <2>1. SUFFICES ASSUME NEW i \in 1 .. Len(t), NEW j \in 1 .. Len(t), i # j
                 PROVE t[i] # t[j]
    BY DEF Distinct
  <2>2. i \in Int /\ j \in Int /\ i + 1 # j + 1
    BY <2>1
  <2>3. i + 1 \in 1 .. Len(s) /\ j + 1 \in 1 .. Len(s)
    BY <1>1, <1>2, <2>1
  <2>4. QED
    BY <1>2, <2>2, <2>3 DEF Distinct
<1>7. QED
  BY <1>1, <1>3, <1>4, <1>5, <1>6 DEF t

\* An empty sequence holds nothing; one with nothing in it is empty.
LEMMA EmptyMessages ==
  /\ Messages(<<>>) = {} /\ Distinct(<<>>)
  /\ \A S : \A s \in Seq(S) : s # <<>> => Messages(s) # {}
<1>1. Messages(<<>>) = {} /\ Distinct(<<>>)
  BY DEF Messages, Distinct
<1>2. ASSUME NEW S, NEW s \in Seq(S), s # <<>> PROVE Messages(s) # {}
  <2>1. 1 \in 1 .. Len(s)
    BY <1>2
  <2>2. QED
    BY <2>1 DEF Messages
<1>3. QED
  BY <1>1, <1>2

\* Distinct messages out of two are at most two.
LEMMA AtMostTwo ==
  ASSUME NEW S, NEW s \in Seq(S), NEW a, NEW b, Distinct(s), Messages(s) \subseteq {a, b}
  PROVE  Len(s) <= 2
<1>1. SUFFICES ASSUME Len(s) >= 3 PROVE FALSE
  OBVIOUS
<1>2. 1 \in 1 .. Len(s) /\ 2 \in 1 .. Len(s) /\ 3 \in 1 .. Len(s)
  BY <1>1
<1>3. s[1] # s[2] /\ s[1] # s[3] /\ s[2] # s[3]
  BY <1>2 DEF Distinct
<1>4. s[1] \in {a, b} /\ s[2] \in {a, b} /\ s[3] \in {a, b}
  BY <1>2 DEF Messages
<1>5. QED
  BY <1>3, <1>4
-----------------------------------------------------------------------------
(* The type invariant.                                                     *)

\* What is left when the head of a sequence is taken.
LEMMA TailType ==
  ASSUME NEW S, NEW s \in Seq(S), s # <<>>
  PROVE  Head(s) \in S /\ Tail(s) \in Seq(S)
OBVIOUS

\* The initial state is well typed.
LEMMA InitType == Init => TypeOK
<1>1. SUFFICES ASSUME Init PROVE TypeOK
  OBVIOUS
<1>2. fifo \in [Id -> Seq(Task \cup {Release})] /\ queue \in [Id -> Seq(Task)]
  BY <1>1 DEF Init
<1>3. sem \in [Id -> Nat] /\ mutex \in [Id -> Task \cup {None}]
      /\ suspends \in 0 .. MaxSuspends
  BY <1>1, BoundAssumption DEF Init
<1>4. /\ pc \in [Task -> {"idle", "lock", "send", "wait", "unlock"}]
      /\ class \in [Task -> Class]
      /\ req \in [Task -> {"none", "open", "answered"}]
  BY <1>1 DEF Init, Class
<1>5. QED
  BY <1>1, <1>2, <1>3, <1>4 DEF Init, TypeOK

\* A message put into a FIFO that takes it, or lost.
LEMMA PutType ==
  ASSUME TypeOK, NEW id \in Id, NEW m \in Task \cup {Release}, NEW w \in Task,
         Put(id, m, w)
  PROVE  fifo' \in [Id -> Seq(Task \cup {Release})] /\ lost' \subseteq Task
<1>1. CASE up
  <2>1. Append(fifo[id], m) \in Seq(Task \cup {Release})
    BY DEF TypeOK
  <2>2. QED
    BY <1>1, <2>1 DEF Put, TypeOK
<1>2. CASE ~up
  BY <1>2 DEF Put, TypeOK
<1>3. QED
  BY <1>1, <1>2

\* Every step keeps the types.  A server only executes and answers a request
\* that is there.
LEMMA TypeStep ==
  ASSUME TypeOK, [Next]_vars,
         \A id \in Id : server[id] \in {"exec", "reply"} => serving[id] # None
  PROVE  TypeOK'
<1> USE DEF channels, calls, servers, power
<1>1. ASSUME NEW t \in Task, NEW k \in Class, Ioctl(t, k) PROVE TypeOK'
  BY <1>1 DEF Ioctl, TypeOK
<1>2. ASSUME NEW t \in Task, Lock(t) PROVE TypeOK'
  BY <1>2, CallIds DEF Lock, TypeOK
<1>3. ASSUME NEW t \in Task, Send(t) PROVE TypeOK'
  BY <1>3, CallIds, PutType DEF Send, TypeOK
<1>4. ASSUME NEW t \in Task, Wake(t) PROVE TypeOK'
  <2>1. sem[WaitId(t)] - 1 \in Nat
    BY <1>4, CallIds DEF Wake, TypeOK
  <2>2. sem' \in [Id -> Nat]
    BY <1>4, <2>1, CallIds DEF Wake, TypeOK
  <2>3. QED
    BY <1>4, <2>2 DEF Wake, TypeOK
<1>5. ASSUME NEW t \in Task, Return(t) PROVE TypeOK'
  BY <1>5, CallIds DEF Return, TypeOK
<1>6. ASSUME NEW id \in Id, Irq(id) PROVE TypeOK'
  <2>1. Head(fifo[id]) \in Task \cup {Release} /\ Tail(fifo[id]) \in Seq(Task \cup {Release})
    BY <1>6, TailType DEF Irq, TypeOK
  <2>2. CASE Head(fifo[id]) = Release
    <3>1. fifo' \in [Id -> Seq(Task \cup {Release})]
      BY <1>6, <2>1 DEF Irq, TypeOK
    <3>2. sem' = [sem EXCEPT ![id] = @ + 1] /\ UNCHANGED <<queue, lost>>
      BY <1>6, <2>2 DEF Irq
    <3>3. sem' \in [Id -> Nat]
      BY <3>2 DEF TypeOK
    <3>4. QED
      BY <1>6, <3>1, <3>2, <3>3 DEF Irq, TypeOK
  <2>3. CASE Head(fifo[id]) \in Task
    <3>1. Append(queue[id], Head(fifo[id])) \in Seq(Task)
      BY <2>3 DEF TypeOK
    <3>2. fifo' \in [Id -> Seq(Task \cup {Release})]
      BY <1>6, <2>1 DEF Irq, TypeOK
    <3>3. \/ queue' = queue /\ lost' = lost \cup {Head(fifo[id])} /\ sem' = sem
          \/ queue' = [queue EXCEPT ![id] = Append(@, Head(fifo[id]))]
             /\ UNCHANGED <<sem, lost>>
      BY <1>6, <2>3, TaskFacts DEF Irq
    <3>5. sem' = sem /\ queue' \in [Id -> Seq(Task)] /\ lost' \subseteq Task
      BY <2>3, <3>1, <3>3 DEF TypeOK
    <3>4. QED
      BY <1>6, <3>2, <3>5 DEF Irq, TypeOK
  <2>4. QED
    BY <2>1, <2>2, <2>3
<1>7. ASSUME NEW id \in Id, Recv(id) PROVE TypeOK'
  <2>1. Head(queue[id]) \in Task /\ Tail(queue[id]) \in Seq(Task)
    BY <1>7, TailType DEF Recv, TypeOK
  <2>2. QED
    BY <1>7, <2>1 DEF Recv, TypeOK
<1>8. ASSUME NEW id \in Id, Exec(id) PROVE TypeOK'
  BY <1>8 DEF Exec, TypeOK
<1>9. ASSUME NEW id \in Id, Reply(id) PROVE TypeOK'
  <2>1. serving[id] \in Task
    BY <1>9 DEF Reply, TypeOK
  <2>2. QED
    BY <1>9, <2>1, PeerFacts, PutType DEF Reply, TypeOK
<1>10. CASE Standby
  BY <1>10, BoundAssumption DEF Standby, TypeOK
<1>11. CASE NetSleeps
  BY <1>11 DEF NetSleeps, TypeOK
<1>12. CASE SuspendFlag
  <2>1. suspending' \in [Core -> BOOLEAN]
    BY <1>12 DEF SuspendFlag, TypeOK
  <2>2. suspends' \in 0 .. MaxSuspends
    BY <1>12, BoundAssumption DEF SuspendFlag, TypeOK
  <2>3. QED
    BY <1>12, <2>1, <2>2 DEF SuspendFlag, TypeOK
<1>13. CASE SuspendDeinit
  <2>1. fifo' \in [Id -> Seq(Task \cup {Release})] /\ lost' \subseteq Task
    BY <1>13 DEF SuspendDeinit, TypeOK
  <2>2. QED
    BY <1>13, <2>1 DEF SuspendDeinit, TypeOK
<1>14. CASE Resume
  BY <1>14 DEF Resume, TypeOK
<1>15. CASE NetSuspend
  BY <1>15 DEF NetSuspend, TypeOK
<1>16. CASE NetResume
  BY <1>16 DEF NetResume, TypeOK
<1>17. CASE UNCHANGED vars
  BY <1>17 DEF vars, TypeOK
<1>18. QED
  BY <1>1, <1>2, <1>3, <1>4, <1>5, <1>6, <1>7, <1>8, <1>9, <1>10, <1>11, <1>12,
     <1>13, <1>14, <1>15, <1>16, <1>17 DEF Next, CallStep, ServerStep
-----------------------------------------------------------------------------
(* The inductive invariant, action by action.                              *)

Channel(id) == Contents(id) /\ OnePlace(id) /\ Awaited(id)

\* Nothing of a call is under way before it is sent and after it is answered.
Quiet(id) ==
  ~InFifo(id) /\ ~InQueue(id) /\ ~InHand(id) /\ ~Coming(id) /\ ~Posted(id)

\* A task holds the mutex of one channel at most, and nobody else holds it.
LEMMA HolderIsIn ==
  ASSUME TypeOK, Holders, NEW id \in Id, mutex[id] # None
  PROVE  /\ mutex[id] \in Task /\ Inside(mutex[id]) /\ WaitId(mutex[id]) = id
         /\ \A other \in Id : mutex[other] = mutex[id] => other = id
BY DEF TypeOK, Holders

\* A call whose caller does not wait is quiet.
LEMMA QuietUnlessWaiting ==
  ASSUME NEW id \in Id, Channel(id), mutex[id] = None \/ pc[mutex[id]] # "wait"
  PROVE  Quiet(id)
BY DEF Channel, Awaited, Quiet

\* A step that leaves calls, servers and messages alone keeps the invariant.
LEMMA FrameStep ==
  ASSUME DuccInv, TypeOK', UNCHANGED <<channels, calls, servers>>
  PROVE  DuccInv'
BY DEF DuccInv, Holders, Inside, WaitId, Contents, OnePlace, Awaited, InFifo,
       InQueue, InHand, Coming, Posted, Held, channels, calls, servers

\* Holders, one task and one mutex at a time.
LEMMA HoldersByParts ==
  ASSUME \A id \in Id : mutex'[id] # None =>
                          Inside(mutex[id])' /\ WaitId(mutex[id])' = id,
         \A u \in Task : /\ Inside(u)' => mutex'[WaitId(u)'] = u
                         /\ pc'[u] = "send" => req'[u] = "open"
                         /\ pc'[u] = "unlock" => req'[u] = "answered"
  PROVE  Holders'
BY DEF Holders, Inside, WaitId

\* A task that enters its ioctl holds nothing yet.
LEMMA IoctlHolders ==
  ASSUME DuccInv, TypeOK', NEW t \in Task, NEW k \in Class, Ioctl(t, k)
  PROVE  Holders'
<1> USE DEF channels, servers, calls, power
<1>1. TypeOK /\ Holders /\ WaitId(t) \in Id
  BY CallIds DEF DuccInv
<1>2. ASSUME NEW id \in Id, mutex'[id] # None
      PROVE  Inside(mutex[id])' /\ WaitId(mutex[id])' = id
  BY <1>1, <1>2, TaskFacts DEF Holders, Ioctl, TypeOK, Inside, WaitId
<1>3. ASSUME NEW u \in Task
      PROVE  /\ Inside(u)' => mutex'[WaitId(u)'] = u
             /\ pc'[u] = "send" => req'[u] = "open"
             /\ pc'[u] = "unlock" => req'[u] = "answered"
  BY <1>1, <1>3, TaskFacts DEF Holders, Ioctl, TypeOK, Inside, WaitId
<1>4. QED
  BY <1>2, <1>3, HoldersByParts

\* A task that takes a free mutex becomes its holder.
LEMMA LockHolders ==
  ASSUME DuccInv, TypeOK', NEW t \in Task, Lock(t)
  PROVE  Holders'
<1> USE DEF channels, servers, calls, power
<1>1. TypeOK /\ Holders /\ WaitId(t) \in Id
  BY CallIds DEF DuccInv
<1>2. ASSUME NEW id \in Id, mutex'[id] # None
      PROVE  Inside(mutex[id])' /\ WaitId(mutex[id])' = id
  BY <1>1, <1>2, TaskFacts DEF Holders, Lock, TypeOK, Inside, WaitId
<1>3. ASSUME NEW u \in Task
      PROVE  /\ Inside(u)' => mutex'[WaitId(u)'] = u
             /\ pc'[u] = "send" => req'[u] = "open"
             /\ pc'[u] = "unlock" => req'[u] = "answered"
  <2>1. CASE u = t
    BY <1>1, <2>1 DEF Lock, TypeOK, Inside, WaitId
  <2>2. CASE u # t
    <3>1. pc'[u] = pc[u] /\ req'[u] = req[u] /\ class'[u] = class[u]
      BY <2>2 DEF Lock, TypeOK
    <3>2. Inside(u) => mutex[WaitId(u)] = u /\ WaitId(u) # WaitId(t)
      BY <1>1, TaskFacts DEF Holders, Lock
    <3>3. WaitId(u)' = WaitId(u) /\ WaitId(u) \in Id
      BY <1>1, <3>1, CallIds DEF WaitId
    <3>4. QED
      BY <1>1, <3>1, <3>2, <3>3 DEF Holders, Lock, TypeOK, Inside
  <2>3. QED
    BY <2>1, <2>2
<1>4. QED
  BY <1>2, <1>3, HoldersByParts

\* Sending changes no mutex.
LEMMA SendHolders ==
  ASSUME DuccInv, TypeOK', NEW t \in Task, Send(t)
  PROVE  Holders'
<1> USE DEF channels, servers, calls, power
<1>1. TypeOK /\ Holders /\ WaitId(t) \in Id
  BY CallIds DEF DuccInv
<1>2. ASSUME NEW id \in Id, mutex'[id] # None
      PROVE  Inside(mutex[id])' /\ WaitId(mutex[id])' = id
  BY <1>1, <1>2, TaskFacts DEF Holders, Send, TypeOK, Inside, WaitId
<1>3. ASSUME NEW u \in Task
      PROVE  /\ Inside(u)' => mutex'[WaitId(u)'] = u
             /\ pc'[u] = "send" => req'[u] = "open"
             /\ pc'[u] = "unlock" => req'[u] = "answered"
  BY <1>1, <1>3, TaskFacts DEF Holders, Send, TypeOK, Inside, WaitId
<1>4. QED
  BY <1>2, <1>3, HoldersByParts

\* A caller is woken when its request is answered.
LEMMA WakeHolders ==
  ASSUME DuccInv, TypeOK', NEW t \in Task, Wake(t)
  PROVE  Holders'
<1> USE DEF channels, servers, calls, power
<1>1. TypeOK /\ Holders /\ WaitId(t) \in Id
  BY CallIds DEF DuccInv
<1>0. req[t] = "answered"
  <2>1. pc[t] = "wait" /\ mutex[WaitId(t)] = t /\ sem[WaitId(t)] # 0
    BY <1>1 DEF Holders, Inside, Wake
  <2>2. Awaited(WaitId(t)) /\ Posted(WaitId(t))
    BY <1>1, <2>1 DEF DuccInv, Posted
  <2>3. QED
    BY <2>1, <2>2 DEF Awaited
<1>2. ASSUME NEW id \in Id, mutex'[id] # None
      PROVE  Inside(mutex[id])' /\ WaitId(mutex[id])' = id
  BY <1>1, <1>2, TaskFacts DEF Holders, Wake, TypeOK, Inside, WaitId
<1>3. ASSUME NEW u \in Task
      PROVE  /\ Inside(u)' => mutex'[WaitId(u)'] = u
             /\ pc'[u] = "send" => req'[u] = "open"
             /\ pc'[u] = "unlock" => req'[u] = "answered"
  BY <1>0, <1>1, <1>3, TaskFacts DEF Holders, Wake, TypeOK, Inside, WaitId
<1>4. QED
  BY <1>2, <1>3, HoldersByParts

\* A caller gives back the mutex it holds.
LEMMA ReturnHolders ==
  ASSUME DuccInv, TypeOK', NEW t \in Task, Return(t)
  PROVE  Holders'
<1> USE DEF channels, servers, calls, power
<1>1. TypeOK /\ Holders /\ WaitId(t) \in Id
  BY CallIds DEF DuccInv
<1>2. ASSUME NEW id \in Id, mutex'[id] # None
      PROVE  Inside(mutex[id])' /\ WaitId(mutex[id])' = id
  BY <1>1, <1>2, TaskFacts DEF Holders, Return, TypeOK, Inside, WaitId
<1>3. ASSUME NEW u \in Task
      PROVE  /\ Inside(u)' => mutex'[WaitId(u)'] = u
             /\ pc'[u] = "send" => req'[u] = "open"
             /\ pc'[u] = "unlock" => req'[u] = "answered"
  BY <1>1, <1>3, TaskFacts DEF Holders, Return, TypeOK, Inside, WaitId
<1>4. QED
  BY <1>2, <1>3, HoldersByParts

\* A task enters its ioctl: nobody waits for it.
LEMMA IoctlStep ==
  ASSUME DuccInv, TypeOK', NEW t \in Task, NEW k \in Class, Ioctl(t, k)
  PROVE  DuccInv'
<1> USE DEF channels, servers
<1>1. Holders'
  BY IoctlHolders
<1>2. ASSUME NEW id \in Id PROVE Channel(id)'
  <2>1. Contents(id)' /\ OnePlace(id)'
    BY DEF DuccInv, Contents, OnePlace, InFifo, InQueue, InHand, Coming, Posted,
           Held, Ioctl
  <2>2. Awaited(id)'
    BY HolderIsIn DEF DuccInv, Awaited, InFifo, InQueue, InHand, Coming, Posted,
           Held, Ioctl, TypeOK, Inside
  <2>3. QED
    BY <2>1, <2>2 DEF Channel
<1>3. QED
  BY <1>1, <1>2 DEF DuccInv, Channel

\* A task takes a mutex that is free: the channel is quiet.
LEMMA LockStep ==
  ASSUME DuccInv, TypeOK', NEW t \in Task, Lock(t)
  PROVE  DuccInv'
<1> USE DEF channels, servers
<1> DEFINE w == WaitId(t)
<1>1. TypeOK /\ Holders /\ w \in Id /\ mutex[w] = None /\ t # None /\ t # Release
  BY CallIds, TaskFacts DEF DuccInv, Lock
<1>2. mutex' = [mutex EXCEPT ![w] = t] /\ UNCHANGED <<channels, servers>>
      /\ req' = [req EXCEPT ![t] = "open"] /\ pc' = [pc EXCEPT ![t] = "send"]
  BY DEF Lock
<1>3. Quiet(w) /\ t \notin Messages(fifo[Peer(w)]) /\ Channel(w) /\ Channel(Peer(w))
  <2>1. Channel(w) /\ Channel(Peer(w)) /\ Peer(Peer(w)) = w
    BY <1>1, PeerFacts DEF DuccInv, Channel
  <2>2. Quiet(w) /\ t \notin Messages(fifo[Peer(w)])
    BY <1>1, <2>1, QuietUnlessWaiting DEF Channel, Contents
  <2>3. QED
    BY <2>1, <2>2
<1> HIDE DEF w
<1>4. ASSUME NEW id \in Id PROVE Channel(id)'
  <2>1. Channel(id) /\ Peer(id) \in Id /\ (Peer(id) = w <=> id = Peer(w))
    BY <1>1, PeerFacts, PeerInjective DEF DuccInv, Channel
  <2>2. Contents(id)'
    BY <1>1, <1>2, <1>3, <2>1, PeerFacts
    DEF Contents, Channel, Quiet, InQueue, InHand, TypeOK
  <2>3. OnePlace(id)' /\ Awaited(id)'
    <3>1. CASE id = w
      BY <1>1, <1>2, <1>3, <3>1
      DEF OnePlace, Awaited, Quiet, InFifo, InQueue, InHand, Coming, Posted, Held, TypeOK
    <3>2. CASE id # w
      <4>1. mutex'[id] = mutex[id] /\ (mutex[id] # None =>
              mutex[id] \in Task /\ req'[mutex[id]] = req[mutex[id]]
              /\ (pc[mutex[id]] = "wait" => pc'[mutex[id]] = "wait"))
        BY <1>1, <1>2, <3>2, HolderIsIn DEF TypeOK, Inside, Lock
      <4>2. QED
        BY <1>2, <2>1, <4>1
        DEF OnePlace, Awaited, Channel, InFifo, InQueue, InHand, Coming, Posted, Held
    <3>3. QED
      BY <3>1, <3>2
  <2>4. QED
    BY <2>2, <2>3 DEF Channel
<1>5. QED
  BY <1>4, LockHolders DEF DuccInv, Channel

\* A call gives its mutex back when it is answered: the channel is quiet.
LEMMA ReturnStep ==
  ASSUME DuccInv, TypeOK', NEW t \in Task, Return(t)
  PROVE  DuccInv'
<1> USE DEF channels, servers
<1> DEFINE w == WaitId(t)
<1>1. TypeOK /\ Holders /\ w \in Id /\ mutex[w] = t /\ pc[t] = "unlock" /\ t # None
      /\ Peer(w) \in Id
  BY CallIds, TaskFacts, PeerFacts DEF DuccInv, Return, Holders, Inside
<1>2. mutex' = [mutex EXCEPT ![w] = None] /\ UNCHANGED <<channels, servers>>
      /\ req' = [req EXCEPT ![t] = "none"] /\ pc' = [pc EXCEPT ![t] = "idle"]
  BY DEF Return
<1>3. Quiet(w) /\ Channel(w) /\ Channel(Peer(w)) /\ Peer(Peer(w)) = w
  BY <1>1, QuietUnlessWaiting, PeerFacts DEF DuccInv, Channel
<1> HIDE DEF w
<1>4. ASSUME NEW id \in Id PROVE Channel(id)'
  <2>1. Channel(id) /\ Peer(id) \in Id /\ (Peer(id) = w <=> id = Peer(w))
    BY <1>1, PeerFacts, PeerInjective DEF DuccInv, Channel
  <2>2. Contents(id)'
    <3>1. CASE id = Peer(w)
      BY <1>1, <1>2, <1>3, <2>1, <3>1
      DEF Contents, Channel, Quiet, InFifo, InQueue, InHand, Held, TypeOK
    <3>2. CASE id # Peer(w)
      BY <1>1, <1>2, <2>1, <3>2 DEF Contents, Channel, TypeOK
    <3>3. QED
      BY <3>1, <3>2
  <2>3. OnePlace(id)' /\ Awaited(id)'
    <3>1. CASE id = w
      <4>1. None \notin Messages(fifo[Peer(w)])
        BY <1>3 DEF Channel, Contents
      <4>2. QED
        BY <1>1, <1>2, <1>3, <3>1, <4>1
        DEF OnePlace, Awaited, Quiet, InFifo, InQueue, InHand, Coming, Posted, Held, TypeOK
    <3>2. CASE id # w
      <4>1. mutex'[id] = mutex[id] /\ (mutex[id] # None =>
              mutex[id] \in Task /\ req'[mutex[id]] = req[mutex[id]]
              /\ pc'[mutex[id]] = pc[mutex[id]])
        BY <1>1, <1>2, <3>2, HolderIsIn DEF TypeOK
      <4>2. QED
        BY <1>2, <2>1, <4>1
        DEF OnePlace, Awaited, Channel, InFifo, InQueue, InHand, Coming, Posted, Held
    <3>3. QED
      BY <3>1, <3>2
  <2>4. QED
    BY <2>2, <2>3 DEF Channel
<1>5. QED
  BY <1>4, ReturnHolders DEF DuccInv, Channel

\* A message that is put where it is not yet.
LEMMA PutMessages ==
  ASSUME TypeOK, NEW id \in Id, NEW m \in Task \cup {Release}, NEW w, Put(id, m, w),
         Distinct(fifo[id]), m \notin Messages(fifo[id])
  PROVE  /\ \A other \in Id : other # id => fifo'[other] = fifo[other]
         /\ up => Messages(fifo'[id]) = Messages(fifo[id]) \cup {m}
         /\ ~up => fifo'[id] = fifo[id]
         /\ Distinct(fifo'[id])
<1>1. CASE up
  <2>1. fifo'[id] = Append(fifo[id], m)
        /\ \A other \in Id : other # id => fifo'[other] = fifo[other]
    BY <1>1 DEF Put, TypeOK
  <2>2. fifo[id] \in Seq(Task \cup {Release})
    BY DEF TypeOK
  <2>3. QED
    BY <1>1, <2>1, <2>2, AppendMessages
<1>2. CASE ~up
  BY <1>2 DEF Put
<1>3. QED
  BY <1>1, <1>2

\* A request is sent, or lost.
LEMMA SendStep ==
  ASSUME DuccInv, TypeOK', NEW t \in Task, Send(t)
  PROVE  DuccInv'
<1> USE DEF servers
<1> DEFINE w == WaitId(t)
<1>1. /\ TypeOK /\ Holders /\ w \in Id /\ mutex[w] = t /\ t # None /\ t # Release
      /\ Peer(w) \in Id /\ Peer(Peer(w)) = w /\ req[t] = "open" /\ pc[t] = "send"
      /\ Peer(w) # w
  BY CallIds, TaskFacts, PeerFacts DEF DuccInv, Send, Holders, Inside
<1>2. /\ Put(Peer(w), t, t) /\ pc' = [pc EXCEPT ![t] = "wait"]
      /\ UNCHANGED <<queue, sem, mutex, req, servers>>
  BY DEF Send, SendId
<1>3. Channel(w) /\ Channel(Peer(w))
  BY <1>1 DEF DuccInv, Channel
<1>4. Quiet(w)
  BY <1>1, <1>3, QuietUnlessWaiting
<1> HIDE DEF w
<1>5. /\ \A other \in Id : other # Peer(w) => fifo'[other] = fifo[other]
      /\ Messages(fifo'[Peer(w)]) \in
           {Messages(fifo[Peer(w)]) \cup {t}, Messages(fifo[Peer(w)])}
      /\ Distinct(fifo'[Peer(w)])
  <2>1. Distinct(fifo[Peer(w)]) /\ t \notin Messages(fifo[Peer(w)])
    BY <1>1, <1>3, <1>4 DEF Channel, Contents, Quiet, InFifo, Held
  <2>2. QED
    BY <1>1, <1>2, <2>1, PutMessages
<1>6. ASSUME NEW id \in Id PROVE Channel(id)'
  <2>1. Channel(id) /\ Peer(id) \in Id /\ (Peer(id) = w <=> id = Peer(w))
        /\ (Peer(id) = Peer(w) <=> id = w)
    BY <1>1, PeerFacts, PeerInjective DEF DuccInv, Channel
  <2>2. Contents(id)'
    BY <1>1, <1>2, <1>5, <2>1 DEF Contents, Channel
  <2>3. OnePlace(id)' /\ Awaited(id)'
    <3>1. CASE id = w
      BY <1>1, <1>2, <1>3, <1>4, <1>5, <3>1
      DEF OnePlace, Awaited, Quiet, InFifo, InQueue, InHand, Coming, Posted, Held,
          TypeOK, Channel, Contents
    <3>2. CASE id # w
      <4>1. mutex[id] # None => mutex[id] \in Task /\ pc'[mutex[id]] = pc[mutex[id]]
        <5>1. mutex[id] # None => mutex[id] \in Task /\ mutex[id] # t
          BY <1>1, <3>2, HolderIsIn
        <5>2. QED
          BY <1>1, <1>2, <5>1 DEF TypeOK
      <4>2. (Coming(id)' <=> Coming(id)) /\ (InFifo(id)' <=> InFifo(id))
        BY <1>1, <1>2, <1>5, <2>1, <3>2 DEF Coming, InFifo, Held
      <4>3. QED
        BY <1>2, <2>1, <4>1, <4>2
        DEF OnePlace, Awaited, Channel, InQueue, InHand, Posted
    <3>3. QED
      BY <3>1, <3>2
  <2>4. QED
    BY <2>2, <2>3 DEF Channel
<1>7. QED
  BY <1>6, SendHolders DEF DuccInv, Channel

\* A caller takes the semaphore: with that its channel is quiet.
LEMMA WakeStep ==
  ASSUME DuccInv, TypeOK', NEW t \in Task, Wake(t)
  PROVE  DuccInv'
<1> USE DEF servers
<1> DEFINE w == WaitId(t)
<1>1. /\ TypeOK /\ Holders /\ w \in Id /\ mutex[w] = t /\ t # None
      /\ Peer(w) \in Id /\ Peer(Peer(w)) = w
  BY CallIds, TaskFacts, PeerFacts DEF DuccInv, Wake, Holders, Inside
<1>2. Channel(w) /\ Channel(Peer(w))
  BY <1>1 DEF DuccInv, Channel
<1>3. /\ pc' = [pc EXCEPT ![t] = "unlock"] /\ sem[w] = 1
      /\ sem' = [sem EXCEPT ![w] = 0]
      /\ UNCHANGED <<fifo, queue, mutex, req, servers>>
  <2>1. sem[w] \in {0, 1} /\ sem[w] > 0
    BY <1>2 DEF Channel, Contents, Wake
  <2>2. sem[w] = 1
    BY <2>1
  <2>3. QED
    BY <2>2 DEF Wake
<1> HIDE DEF w
<1>4. ASSUME NEW id \in Id PROVE Channel(id)'
  <2>1. Channel(id)
    BY DEF DuccInv, Channel
  <2>2. Contents(id)'
    BY <1>1, <1>3, <2>1 DEF Contents, Channel, TypeOK
  <2>3. OnePlace(id)' /\ Awaited(id)'
    <3>1. CASE id = w
      BY <1>1, <1>2, <1>3, <3>1
      DEF OnePlace, Awaited, InFifo, InQueue, InHand, Coming, Posted, Held, TypeOK,
          Channel
    <3>2. CASE id # w
      <4>1. mutex[id] # None => mutex[id] \in Task /\ pc'[mutex[id]] = pc[mutex[id]]
        BY <1>1, <1>3, <3>2, HolderIsIn DEF TypeOK
      <4>2. sem'[id] = sem[id]
        BY <1>1, <1>3, <3>2 DEF TypeOK
      <4>3. QED
        BY <1>3, <2>1, <4>1, <4>2
        DEF OnePlace, Awaited, Channel, InFifo, InQueue, InHand, Coming, Posted, Held
    <3>3. QED
      BY <3>1, <3>2
  <2>4. QED
    BY <2>2, <2>3 DEF Channel
<1>5. QED
  BY <1>4, WakeHolders DEF DuccInv, Channel

\* The interrupt moves a request from the FIFO to the queue, which is empty, or a
\* release to the semaphore, which is zero.
LEMMA IrqStep ==
  ASSUME DuccInv, TypeOK', NEW x \in Id, Irq(x)
  PROVE  DuccInv'
<1> USE DEF calls, servers
<1> DEFINE m == Head(fifo[x])
<1>1. /\ TypeOK /\ Channel(x) /\ Channel(Peer(x)) /\ Peer(x) \in Id
      /\ Peer(Peer(x)) = x /\ Peer(x) # x
  BY PeerFacts DEF DuccInv, Channel
<1>2. /\ fifo[x] # <<>> /\ fifo' = [fifo EXCEPT ![x] = Tail(@)]
      /\ UNCHANGED <<calls, servers>>
  BY DEF Irq
<1>3. /\ m \in Messages(fifo[x]) /\ Distinct(fifo'[x])
      /\ Messages(fifo'[x]) = Messages(fifo[x]) \ {m}
      /\ \A other \in Id : other # x => fifo'[other] = fifo[other]
  <2>1. fifo[x] \in Seq(Task \cup {Release}) /\ Distinct(fifo[x])
    BY <1>1 DEF TypeOK, Channel, Contents
  <2>2. fifo'[x] = Tail(fifo[x])
        /\ \A other \in Id : other # x => fifo'[other] = fifo[other]
    BY <1>1, <1>2 DEF TypeOK
  <2>3. QED
    BY <1>2, <2>1, <2>2, TailMessages
<1>4. Holders'
  BY <1>2 DEF DuccInv, Holders, Inside, WaitId
<1>5. CASE m = Release
  <2>1. sem' = [sem EXCEPT ![x] = @ + 1] /\ UNCHANGED queue
    BY <1>5 DEF Irq
  <2>2. Coming(x) /\ ~Posted(x)
    BY <1>1, <1>3, <1>5 DEF Coming, Held, Channel, OnePlace
  <2>3. sem'[x] = 1 /\ \A other \in Id : other # x => sem'[other] = sem[other]
    BY <1>1, <2>1, <2>2 DEF Posted, TypeOK
  <2>4. ASSUME NEW id \in Id PROVE Channel(id)'
    <3>1. Channel(id) /\ Peer(id) \in Id /\ (Peer(id) = x <=> id = Peer(x))
      BY <1>1, PeerFacts, PeerInjective DEF DuccInv, Channel
    <3>2. Contents(id)'
      BY <1>2, <1>3, <2>1, <2>3, <3>1 DEF Contents, Channel
    <3>3. CASE id = x
      BY <1>1, <1>2, <1>3, <1>5, <2>1, <2>2, <2>3, <3>2, <3>3
      DEF OnePlace, Awaited, InFifo, InQueue, InHand, Coming, Posted, Held, Channel
    <3>4. CASE id # x
      <4>1. (Coming(id)' <=> Coming(id)) /\ (Posted(id)' <=> Posted(id))
        BY <1>3, <2>3, <3>4 DEF Coming, Held, Posted
      <4>2. InFifo(id)' <=> InFifo(id)
        <5>1. mutex[id] # Release
          BY <1>1, TaskFacts, UserAssumption DEF TypeOK
        <5>2. QED
          BY <1>2, <1>3, <1>5, <3>1, <5>1 DEF InFifo, Held
      <4>3. QED
        BY <1>2, <2>1, <3>1, <3>2, <4>1, <4>2
        DEF OnePlace, Awaited, InQueue, InHand, Channel
    <3>5. QED
      BY <3>3, <3>4
  <2>5. QED
    BY <1>4, <2>4 DEF DuccInv, Channel
<1>6. CASE m # Release
  <2>1. m = mutex[Peer(x)] /\ m # None /\ InFifo(Peer(x))
    BY <1>1, <1>3, <1>6 DEF Channel, Contents, InFifo, Held
  <2>2. queue[x] = <<>> /\ ~Coming(Peer(x)) /\ ~Posted(Peer(x)) /\ ~InHand(Peer(x))
    BY <1>1, <2>1 DEF Channel, OnePlace, InQueue
  <2>3. queue' = [queue EXCEPT ![x] = <<m>>] /\ UNCHANGED sem
    <3>1. Append(queue[x], m) = <<m>> /\ Len(queue[x]) = 0
      BY <2>2
    <3>2. Len(queue[x]) # DUCC_MBOX_SIZE
      BY <3>1 DEF DUCC_MBOX_SIZE
    <3>3. queue' = [queue EXCEPT ![x] = Append(@, m)] /\ UNCHANGED sem
      BY <1>6, <3>2 DEF Irq
    <3>4. QED
      BY <3>1, <3>3
  <2>4. queue'[x] = <<m>> /\ \A other \in Id : other # x => queue'[other] = queue[other]
    BY <1>1, <2>3 DEF TypeOK
  <2>5. ASSUME NEW id \in Id PROVE Channel(id)'
    <3>1. Channel(id) /\ Peer(id) \in Id /\ (Peer(id) = x <=> id = Peer(x))
      BY <1>1, PeerFacts, PeerInjective DEF DuccInv, Channel
    <3>2. Contents(id)'
      BY <1>2, <1>3, <2>1, <2>3, <2>4, <3>1 DEF Contents, Channel
    <3>3. CASE id = Peer(x)
      <4>1. ~InFifo(id)' /\ InQueue(id)' /\ ~InHand(id)' /\ ~Coming(id)' /\ ~Posted(id)'
        <5>1. InQueue(id)'
          BY <1>1, <2>4, <3>3 DEF InQueue
        <5>2. ~InFifo(id)' /\ ~InHand(id)' /\ ~Coming(id)' /\ ~Posted(id)'
          BY <1>1, <1>2, <1>3, <2>1, <2>2, <2>3, <3>3
          DEF InFifo, InHand, Coming, Posted, Held
        <5>3. QED
          BY <5>1, <5>2
      <4>2. QED
        BY <1>1, <1>2, <2>1, <3>1, <3>2, <3>3, <4>1 DEF OnePlace, Awaited, Channel,
           Contents, InHand
    <3>4. CASE id # Peer(x)
      <4>1. /\ Coming(id)' <=> Coming(id)
            /\ InFifo(id)' <=> InFifo(id)
            /\ InQueue(id)' <=> InQueue(id)
        BY <1>2, <1>3, <1>6, <2>4, <3>1, <3>4 DEF Coming, Held, InFifo, InQueue
      <4>2. QED
        BY <1>2, <2>3, <3>1, <3>2, <4>1
        DEF OnePlace, Awaited, InHand, Posted, Channel
    <3>5. QED
      BY <3>3, <3>4
  <2>6. QED
    BY <1>4, <2>5 DEF DuccInv, Channel
<1>7. QED
  BY <1>5, <1>6

\* The server takes the request off its queue.
LEMMA RecvStep ==
  ASSUME DuccInv, TypeOK', NEW x \in Id, Recv(x)
  PROVE  DuccInv'
<1> USE DEF calls
<1>1. /\ TypeOK /\ Channel(x) /\ Channel(Peer(x)) /\ Peer(x) \in Id
      /\ Peer(Peer(x)) = x /\ Peer(x) # x
  BY PeerFacts DEF DuccInv, Channel
<1>2. queue[x] = <<mutex[Peer(x)]>> /\ serving[x] = None /\ InQueue(Peer(x))
      /\ mutex[Peer(x)] # None
  BY <1>1 DEF Recv, Channel, Contents, InQueue, Awaited
<1>3. /\ serving'[x] = mutex[Peer(x)] /\ queue'[x] = <<>> /\ server'[x] = "exec"
      /\ \A other \in Id : other # x => /\ serving'[other] = serving[other]
                                       /\ queue'[other] = queue[other]
                                       /\ server'[other] = server[other]
      /\ UNCHANGED <<fifo, sem, calls>>
  <2>1. Head(queue[x]) = mutex[Peer(x)] /\ Tail(queue[x]) = <<>>
    BY <1>2
  <2>2. QED
    BY <1>1, <2>1 DEF Recv, TypeOK
<1>4. Holders'
  BY <1>3 DEF DuccInv, Holders, Inside, WaitId
<1>5. ASSUME NEW id \in Id PROVE Channel(id)'
  <2>1. Channel(id) /\ Peer(id) \in Id /\ (Peer(id) = x <=> id = Peer(x))
    BY <1>1, PeerFacts, PeerInjective DEF DuccInv, Channel
  <2>2. Contents(id)'
    BY <1>1, <1>2, <1>3, <2>1 DEF Contents, Channel
  <2>3. OnePlace(id)' /\ Awaited(id)'
    BY <1>1, <1>2, <1>3, <2>1
    DEF OnePlace, Awaited, InFifo, InQueue, InHand, Coming, Posted, Held, Channel
  <2>4. QED
    BY <2>2, <2>3 DEF Channel
<1>6. QED
  BY <1>4, <1>5 DEF DuccInv, Channel

\* The server writes the result to the stack of the caller that holds the mutex.
LEMMA ExecStep ==
  ASSUME DuccInv, TypeOK', NEW x \in Id, Exec(x)
  PROVE  DuccInv'
<1>1. /\ TypeOK /\ Holders /\ Channel(x) /\ Channel(Peer(x)) /\ Peer(x) \in Id
      /\ Peer(Peer(x)) = x /\ Peer(x) # x
  BY PeerFacts DEF DuccInv, Channel
<1> DEFINE h == serving[x]
<1>2. h # None /\ h = mutex[Peer(x)] /\ InHand(Peer(x)) /\ h \in Task
      /\ pc[h] = "wait" /\ req[h] = "open"
  BY <1>1 DEF Exec, Channel, Contents, InHand, Awaited, TypeOK
<1>3. /\ server'[x] = "reply" /\ req'[h] = "answered"
      /\ \A other \in Id : other # x => server'[other] = server[other]
      /\ \A u \in Task : u # h => req'[u] = req[u]
      /\ UNCHANGED <<channels, mutex, pc, class, serving>>
  BY <1>1, <1>2 DEF Exec, TypeOK
<1> HIDE DEF h
<1>4. Holders'
  BY <1>1, <1>2, <1>3 DEF Holders, Inside, WaitId
<1>5. ASSUME NEW id \in Id PROVE Channel(id)'
  <2>1. Channel(id) /\ Peer(id) \in Id /\ (Peer(id) = x <=> id = Peer(x))
    BY <1>1, PeerFacts, PeerInjective DEF DuccInv, Channel
  <2>2. Contents(id)'
    BY <1>1, <1>2, <1>3, <2>1 DEF Contents, Channel, channels, h
  <2>3. OnePlace(id)'
    BY <1>3, <2>1
    DEF OnePlace, InFifo, InQueue, InHand, Coming, Posted, Held, Channel, channels
  <2>4. Awaited(id)'
    <3>1. CASE id = Peer(x)
      BY <1>1, <1>2, <1>3, <2>1, <3>1
      DEF OnePlace, Awaited, InFifo, InQueue, InHand, Coming, Posted, Held, Channel,
          channels
    <3>2. CASE id # Peer(x)
      <4>1. mutex[id] # None => mutex[id] \in Task /\ req'[mutex[id]] = req[mutex[id]]
        BY <1>1, <1>2, <1>3, <3>2, HolderIsIn
      <4>2. QED
        BY <1>3, <2>1, <3>2, <4>1
        DEF Awaited, InFifo, InQueue, InHand, Coming, Posted, Held, Channel, channels
    <3>3. QED
      BY <3>1, <3>2
  <2>5. QED
    BY <2>2, <2>3, <2>4 DEF Channel
<1>6. QED
  BY <1>4, <1>5 DEF DuccInv, Channel

\* The release is sent, or lost.
LEMMA ReplyStep ==
  ASSUME DuccInv, TypeOK', NEW x \in Id, Reply(x)
  PROVE  DuccInv'
<1> USE DEF calls
<1>1. /\ TypeOK /\ Channel(x) /\ Channel(Peer(x)) /\ Peer(x) \in Id
      /\ Peer(Peer(x)) = x /\ Peer(x) # x
  BY PeerFacts DEF DuccInv, Channel
<1> DEFINE y == Peer(x)
<1>2. serving[x] # None /\ serving[x] = mutex[y] /\ InHand(y) /\ req[mutex[y]] = "answered"
      /\ pc[mutex[y]] = "wait" /\ mutex[y] # Release
  BY <1>1, TaskFacts DEF Reply, Channel, Contents, InHand, Awaited, TypeOK
<1>3. ~InFifo(y) /\ ~InQueue(y) /\ ~Coming(y) /\ ~Posted(y)
  BY <1>1, <1>2 DEF Channel, OnePlace
<1>4. /\ Put(y, Release, serving[x]) /\ UNCHANGED <<queue, sem, calls>>
      /\ serving'[x] = None /\ server'[x] \in {"pm", "recv"}
      /\ \A other \in Id : other # x => /\ serving'[other] = serving[other]
                                       /\ server'[other] = server[other]
  BY <1>1 DEF Reply, TypeOK
<1>5. /\ \A other \in Id : other # y => fifo'[other] = fifo[other]
      /\ Messages(fifo'[y]) \in {Messages(fifo[y]) \cup {Release}, Messages(fifo[y])}
      /\ Distinct(fifo'[y])
  <2>1. Distinct(fifo[y]) /\ Release \notin Messages(fifo[y])
    BY <1>1, <1>3 DEF Channel, Contents, Coming, Held
  <2>2. QED
    BY <1>1, <1>4, <2>1, PutMessages
<1>6. Holders'
  BY <1>4 DEF DuccInv, Holders, Inside, WaitId
<1> HIDE DEF y
<1>7. ASSUME NEW id \in Id PROVE Channel(id)'
  <2>1. Channel(id) /\ Peer(id) \in Id /\ (Peer(id) = x <=> id = y) /\ y \in Id
        /\ Peer(y) = x
    BY <1>1, PeerFacts, PeerInjective DEF DuccInv, Channel, y
  <2>2. Contents(id)'
    BY <1>4, <1>5, <2>1, UserAssumption DEF Contents, Channel
  <2>3. OnePlace(id)' /\ Awaited(id)'
    <3>1. CASE id = y
      BY <1>2, <1>3, <1>4, <1>5, <2>1, <3>1, <1>1
      DEF OnePlace, Awaited, InFifo, InQueue, InHand, Coming, Posted, Held, y
    <3>2. CASE id # y
      <4>1. mutex[id] # Release
        BY <1>1, TaskFacts, UserAssumption DEF TypeOK
      <4>2. (InFifo(id)' <=> InFifo(id)) /\ (Coming(id)' <=> Coming(id))
        BY <1>4, <1>5, <2>1, <3>2, <4>1 DEF InFifo, Coming, Held
      <4>3. QED
        BY <1>4, <2>1, <3>2, <4>2 DEF OnePlace, Awaited, InQueue, InHand, Posted, Channel
    <3>3. QED
      BY <3>1, <3>2
  <2>4. QED
    BY <2>2, <2>3 DEF Channel
<1>8. QED
  BY <1>6, <1>7 DEF DuccInv, Channel

\* The message box is put into reset: what it held is gone.
LEMMA DeinitStep ==
  ASSUME DuccInv, TypeOK', SuspendDeinit
  PROVE  DuccInv'
<1> USE DEF calls, servers
<1>1. (\A id \in Id : fifo'[id] = <<>>) /\ UNCHANGED <<queue, sem, calls, servers>>
  BY DEF SuspendDeinit
<1>2. Holders'
  BY <1>1 DEF DuccInv, Holders, Inside, WaitId
<1>3. ASSUME NEW id \in Id PROVE Channel(id)'
  <2>1. Channel(id) /\ Peer(id) \in Id /\ Messages(<<>>) = {} /\ Distinct(<<>>)
    BY PeerFacts, EmptyMessages DEF DuccInv, Channel
  <2>2. ~InFifo(id)' /\ ~Coming(id)'
    BY <1>1, <2>1 DEF InFifo, Coming, Held
  <2>3. Contents(id)'
    BY <1>1, <2>1 DEF Contents, Channel
  <2>4. OnePlace(id)' /\ Awaited(id)'
    BY <1>1, <2>1, <2>2 DEF OnePlace, Awaited, InQueue, InHand, Posted, Channel
  <2>5. QED
    BY <2>3, <2>4 DEF Channel
<1>4. QED
  BY <1>2, <1>3 DEF DuccInv, Channel

\* The network core's server goes back to its queue.
LEMMA NetResumeStep ==
  ASSUME DuccInv, TypeOK', NetResume
  PROVE  DuccInv'
<1> USE DEF calls, channels
<1>1. NetNormal \in Id
  BY DEF NetNormal, Id, Core, Class
<1>2. /\ UNCHANGED <<channels, calls, serving>>
      /\ \A id \in Id : \/ server'[id] = server[id]
                        \/ server[id] = "pm" /\ server'[id] = "recv"
  BY <1>1 DEF NetResume, DuccInv, TypeOK
<1>3. Holders'
  BY <1>2 DEF DuccInv, Holders, Inside, WaitId
<1>4. ASSUME NEW id \in Id PROVE Channel(id)'
  <2>1. Channel(id) /\ Peer(id) \in Id
    BY PeerFacts DEF DuccInv, Channel
  <2>2. QED
    BY <1>2, <2>1
    DEF Contents, OnePlace, Awaited, InFifo, InQueue, InHand, Coming, Posted, Held,
        Channel
<1>5. QED
  BY <1>3, <1>4 DEF DuccInv, Channel
-----------------------------------------------------------------------------
(* The theorems.                                                           *)

\* At the beginning nothing is under way.
LEMMA InitInv == Init => DuccInv
<1>1. SUFFICES ASSUME Init PROVE DuccInv
  OBVIOUS
<1>2. Holders
  BY <1>1 DEF Init, Holders, Inside
<1>3. ASSUME NEW id \in Id PROVE Contents(id) /\ OnePlace(id) /\ Awaited(id)
  <2>1. Peer(id) \in Id /\ Messages(<<>>) = {} /\ Distinct(<<>>)
    BY PeerFacts, EmptyMessages
  <2>2. fifo[id] = <<>> /\ fifo[Peer(id)] = <<>> /\ queue[id] = <<>>
        /\ queue[Peer(id)] = <<>> /\ serving[id] = None /\ serving[Peer(id)] = None
        /\ sem[id] = 0 /\ server[id] = "recv"
    BY <1>1, <2>1 DEF Init
  <2>3. QED
    BY <2>1, <2>2
    DEF Contents, OnePlace, Awaited, InFifo, InQueue, InHand, Coming, Posted, Held
<1>4. QED
  BY <1>1, <1>2, <1>3, InitType DEF DuccInv

\* Every step keeps the inductive invariant.
LEMMA NextInv == DuccInv /\ [Next]_vars => DuccInv'
<1>1. SUFFICES ASSUME DuccInv, [Next]_vars PROVE DuccInv'
  OBVIOUS
<1>2. TypeOK'
  <2>1. \A id \in Id : server[id] \in {"exec", "reply"} => serving[id] # None
    BY <1>1 DEF DuccInv, Contents
  <2>2. QED
    BY <1>1, <2>1, TypeStep DEF DuccInv
<1>3. ASSUME NEW t \in Task, NEW k \in Class, Ioctl(t, k) PROVE DuccInv'
  BY <1>1, <1>2, <1>3, IoctlStep
<1>4. ASSUME NEW t \in Task, CallStep(t) PROVE DuccInv'
  BY <1>1, <1>2, <1>4, LockStep, SendStep, WakeStep, ReturnStep DEF CallStep
<1>5. ASSUME NEW id \in Id, Irq(id) \/ ServerStep(id) PROVE DuccInv'
  BY <1>1, <1>2, <1>5, IrqStep, RecvStep, ExecStep, ReplyStep DEF ServerStep
<1>6. CASE SuspendDeinit
  BY <1>1, <1>2, <1>6, DeinitStep
<1>7. CASE NetResume
  BY <1>1, <1>2, <1>7, NetResumeStep
<1>8. CASE \/ Standby \/ NetSleeps \/ SuspendFlag \/ Resume \/ NetSuspend
           \/ UNCHANGED vars
  <2>1. UNCHANGED <<channels, calls, servers>>
    BY <1>8 DEF Standby, NetSleeps, SuspendFlag, Resume, NetSuspend, vars
  <2>2. QED
    BY <1>1, <1>2, <2>1, FrameStep
<1>9. QED
  BY <1>1, <1>3, <1>4, <1>5, <1>6, <1>7, <1>8 DEF Next

\* The request a server has in hand is its channel's, and its caller waits.
LEMMA LiveByInv == DuccInv => WritesToLiveRequest
<1>1. SUFFICES ASSUME DuccInv, NEW id \in Id, server[id] = "exec"
               PROVE pc[serving[id]] = "wait" /\ req[serving[id]] = "open"
  BY DEF WritesToLiveRequest
<1>2. Peer(id) \in Id /\ Peer(Peer(id)) = id
  BY PeerFacts
<1>3. serving[id] # None /\ serving[id] = mutex[Peer(id)] /\ Awaited(Peer(id))
  BY <1>1, <1>2 DEF DuccInv, Contents
<1>4. QED
  BY <1>1, <1>2, <1>3 DEF Awaited, InHand

\* The invariant the runs check, for any tasks on the two cores, any use they
\* make of the channels, and suspends at any moment (ducc_app.c, ducc_net.c).
THEOREM Invariance == Spec => []DuccInv
<1>1. QED
  BY InitInv, NextInv, PTL DEF Spec

\* A server never writes to the stack of a caller that no longer waits for it,
\* also when suspends lose requests and releases.
THEOREM LiveRequests == Spec => []WritesToLiveRequest
BY LiveByInv, Invariance, PTL

\* No FIFO, queue or semaphore ever holds more than a request and a release, however
\* many tasks call: no sender spins, no interrupt drops a request.
THEOREM NoOverflow == Spec => []NothingOverflows
<1>1. DuccInv => NothingOverflows
  <2>1. SUFFICES ASSUME DuccInv, NEW id \in Id
                 PROVE Len(fifo[id]) <= 2 /\ Len(queue[id]) <= 1 /\ sem[id] <= 1
    BY DEF NothingOverflows
  <2>2. Contents(id) /\ fifo[id] \in Seq(Task \cup {Release})
    BY <2>1 DEF DuccInv, TypeOK
  <2>3. Len(fifo[id]) <= 2
    <3>1. Messages(fifo[id]) \subseteq {mutex[Peer(id)], Release} /\ Distinct(fifo[id])
      BY <2>2 DEF Contents
    <3>2. QED
      BY <2>2, <3>1, AtMostTwo
  <2>4. Len(queue[id]) <= 1
    <3>1. queue[id] = <<>> \/ queue[id] = <<mutex[Peer(id)]>>
      BY <2>2 DEF Contents
    <3>2. CASE queue[id] = <<>>
      BY <3>2
    <3>3. CASE queue[id] = <<mutex[Peer(id)]>>
      BY <3>3
    <3>4. QED
      BY <3>1, <3>2, <3>3
  <2>5. sem[id] <= 1
    BY <2>2 DEF Contents
  <2>6. QED
    BY <2>3, <2>4, <2>5
<1>2. QED
  BY <1>1, Invariance, PTL
-----------------------------------------------------------------------------
(* The refinement.                                                         *)

Stage(id) ==
  IF mutex[id] = None THEN "free"
  ELSE IF req[mutex[id]] = "answered" THEN "executed" ELSE "asked"

\* A channel is called.
LEMMA CallMaps ==
  ASSUME TypeOK, NEW t \in Task, NEW id \in Id, mutex[id] = None, t # None,
         mutex' = [mutex EXCEPT ![id] = t], req'[t] # "answered",
         \A other \in Id : other # id => Stage(other)' = Stage(other)
  PROVE  R!Next
<1>1. Stage(id) = "free" /\ Stage(id)' = "asked" /\ mutex'[id] = t
  BY DEF Stage, TypeOK
<1>2. R!Call(id, t)
  BY <1>1 DEF R!Call, Stage
<1>3. QED
  BY <1>2 DEF R!Next

\* A call is executed.
LEMMA ExecuteMaps ==
  ASSUME TypeOK, NEW id \in Id, UNCHANGED mutex, Stage(id) = "asked",
         Stage(id)' = "executed",
         \A other \in Id : other # id => Stage(other)' = Stage(other)
  PROVE  R!Next
<1>1. R!Execute(id)
  BY DEF R!Execute, Stage
<1>2. QED
  BY <1>1 DEF R!Next

\* A call returns.
LEMMA ReturnMaps ==
  ASSUME TypeOK, NEW id \in Id, Stage(id) = "executed",
         mutex' = [mutex EXCEPT ![id] = None],
         \A other \in Id : other # id => Stage(other)' = Stage(other)
  PROVE  R!Next
<1>1. Stage(id)' = "free"
  BY DEF Stage, TypeOK
<1>2. R!Return(id)
  BY <1>1 DEF R!Return, Stage
<1>3. QED
  BY <1>2 DEF R!Next

\* The initial states of the calls are initial states of the abstract ones.
LEMMA InitMaps == Init => R!Init
BY DEF Init, R!Init

\* Every step is a call, an execution or a return on one channel, or a stutter.
LEMMA NextMaps ==
  ASSUME DuccInv, [Next]_vars
  PROVE  R!Next \/ UNCHANGED R!rpcVars
<1> USE DEF channels, servers, power, calls
<1>1. TypeOK /\ Holders
  BY DEF DuccInv
<1>2. ASSUME NEW t \in Task, Lock(t) PROVE R!Next
  <2>1. WaitId(t) \in Id /\ mutex[WaitId(t)] = None /\ t # None /\ ~Inside(t)
    BY <1>1, <1>2, CallIds, TaskFacts DEF Lock, Inside
  <2>2. req'[t] # "answered" /\ mutex' = [mutex EXCEPT ![WaitId(t)] = t]
        /\ \A u \in Task : u # t => req'[u] = req[u]
    BY <1>1, <1>2 DEF Lock, TypeOK
  <2>3. ASSUME NEW other \in Id, other # WaitId(t) PROVE Stage(other)' = Stage(other)
    <3>1. mutex'[other] = mutex[other]
      BY <1>1, <2>1, <2>2, <2>3 DEF TypeOK
    <3>2. mutex[other] # None => mutex[other] \in Task /\ mutex[other] # t
      BY <1>1, <2>1, HolderIsIn
    <3>3. QED
      BY <2>2, <3>1, <3>2 DEF Stage
  <2>4. QED
    BY <1>1, <2>1, <2>2, <2>3, CallMaps
<1>3. ASSUME NEW t \in Task, Return(t) PROVE R!Next
  <2>1. /\ WaitId(t) \in Id /\ mutex[WaitId(t)] = t /\ t # None
        /\ req[t] = "answered"
    BY <1>1, <1>3, CallIds, TaskFacts DEF Return, Inside, Holders
  <2>2. mutex' = [mutex EXCEPT ![WaitId(t)] = None]
        /\ \A u \in Task : u # t => req'[u] = req[u]
    BY <1>1, <1>3 DEF Return, TypeOK
  <2>3. ASSUME NEW other \in Id, other # WaitId(t) PROVE Stage(other)' = Stage(other)
    <3>1. mutex'[other] = mutex[other]
      BY <1>1, <2>1, <2>2, <2>3 DEF TypeOK
    <3>2. mutex[other] # None => mutex[other] \in Task /\ mutex[other] # t
      BY <1>1, <2>1, <2>3, HolderIsIn
    <3>3. QED
      BY <2>2, <3>1, <3>2 DEF Stage
  <2>4. Stage(WaitId(t)) = "executed"
    BY <2>1 DEF Stage
  <2>5. QED
    BY <1>1, <2>1, <2>2, <2>3, <2>4, ReturnMaps
<1>4. ASSUME NEW id \in Id, Exec(id) PROVE R!Next
  <2>1. /\ Peer(id) \in Id /\ serving[id] = mutex[Peer(id)] /\ serving[id] # None
        /\ req[serving[id]] = "open" /\ serving[id] \in Task
    <3>1. WritesToLiveRequest
      BY LiveByInv
    <3>2. QED
      BY <1>1, <1>4, <3>1, PeerFacts
      DEF WritesToLiveRequest, Exec, DuccInv, Contents, TypeOK
  <2>2. req' = [req EXCEPT ![serving[id]] = "answered"] /\ UNCHANGED mutex
    BY <1>4 DEF Exec
  <2>3. Stage(Peer(id)) = "asked" /\ Stage(Peer(id))' = "executed"
    BY <1>1, <2>1, <2>2 DEF Stage, TypeOK
  <2>4. ASSUME NEW other \in Id, other # Peer(id) PROVE Stage(other)' = Stage(other)
    <3>1. mutex[other] # None => mutex[other] \in Task /\ mutex[other] # serving[id]
      BY <1>1, <2>1, <2>4, HolderIsIn
    <3>2. QED
      BY <1>1, <2>2, <3>1 DEF Stage, TypeOK
  <2>5. QED
    BY <1>1, <2>1, <2>2, <2>3, <2>4, ExecuteMaps
<1>5. ASSUME UNCHANGED <<mutex, req>> PROVE UNCHANGED R!rpcVars
  BY <1>5 DEF R!rpcVars
<1>6. CASE \/ \E t \in Task : (\E k \in Class : Ioctl(t, k)) \/ Send(t) \/ Wake(t)
           \/ \E id \in Id : Irq(id) \/ Recv(id) \/ Reply(id)
           \/ Standby \/ NetSleeps \/ SuspendFlag \/ SuspendDeinit \/ Resume
           \/ NetSuspend \/ NetResume \/ UNCHANGED vars
  <2>1. UNCHANGED <<mutex, req>>
    BY <1>6 DEF Ioctl, Send, Wake, Irq, Recv, Reply, Standby, NetSleeps, SuspendFlag,
                SuspendDeinit, Resume, NetSuspend, NetResume, vars
  <2>2. QED
    BY <1>5, <2>1
<1>7. QED
  BY <1>2, <1>3, <1>4, <1>6 DEF Next, CallStep, ServerStep

\* Calls of the other core are executed once, before they return, and one at a
\* time on each channel.
THEOREM Refinement == Spec => ImplementsRpc
<1>1. DuccInv /\ [Next]_vars => [R!Next]_(R!rpcVars)
  BY NextMaps
<1>2. QED
  BY <1>1, InitMaps, Invariance, PTL DEF Spec, ImplementsRpc, R!RpcSpec

\* FIFOs and queues only ever hold requests of tasks and releases.
THEOREM TypeCorrect == Spec => []TypeOK
<1>1. DuccInv => TypeOK
  BY DEF DuccInv
<1>2. QED
  BY <1>1, Invariance, PTL
-----------------------------------------------------------------------------
(* Lost messages.                                                          *)

\* What WaitsAreOwed says, channel by channel.
OwedAt(id) ==
  mutex[id] # None /\ pc[mutex[id]] = "wait" => (mutex[id] \in lost <=> ~Somewhere(id))
LostWait == \A t \in lost : pc[t] = "wait"
OwedInv == LostWait /\ \A id \in Id : OwedAt(id)

LEMMA OwedByChannel == DuccInv /\ OwedInv => WaitsAreOwed
<1> SUFFICES ASSUME DuccInv, OwedInv, NEW t \in Task, pc[t] = "wait"
             PROVE  t \in lost <=> ~Somewhere(WaitId(t))
  BY DEF WaitsAreOwed, OwedInv, LostWait
<1>1. WaitId(t) \in Id /\ mutex[WaitId(t)] = t /\ t # None
  BY CallIds, TaskFacts DEF DuccInv, Holders, Inside
<1>2. QED
  BY <1>1 DEF OwedInv, OwedAt

\* A channel that a step does not touch.
LEMMA OwedElsewhere ==
  ASSUME NEW id \in Id, OwedAt(id), mutex'[id] = mutex[id],
         mutex[id] # None => /\ pc'[mutex[id]] = "wait" => pc[mutex[id]] = "wait"
                             /\ mutex[id] \in lost' <=> mutex[id] \in lost,
         Somewhere(id)' <=> Somewhere(id)
  PROVE  OwedAt(id)'
BY DEF OwedAt

\* A message stays somewhere when it is not the channel's that moves.
LEMMA SomewhereFrame ==
  ASSUME NEW id \in Id, mutex'[id] = mutex[id],
         Messages(fifo[id])' = Messages(fifo[id]),
         Messages(fifo[Peer(id)])' = Messages(fifo[Peer(id)]),
         queue'[Peer(id)] = queue[Peer(id)], serving'[Peer(id)] = serving[Peer(id)],
         sem'[id] = sem[id]
  PROVE  Somewhere(id)' <=> Somewhere(id)
BY DEF Somewhere, InFifo, InQueue, InHand, Coming, Posted, Held

\* Calls that begin and end.
LEMMA LockOwed ==
  ASSUME DuccInv, OwedInv, NEW t \in Task, Lock(t) PROVE OwedInv'
<1> DEFINE w == WaitId(t)
<1>1. TypeOK /\ Holders /\ w \in Id /\ mutex[w] = None /\ t # None
  BY CallIds, TaskFacts DEF DuccInv, Lock
<1>2. /\ mutex' = [mutex EXCEPT ![w] = t] /\ pc' = [pc EXCEPT ![t] = "send"]
      /\ pc[t] = "lock" /\ UNCHANGED <<channels, servers, lost>>
  BY DEF Lock
<1> HIDE DEF w
<1>3. LostWait'
  BY <1>1, <1>2 DEF OwedInv, LostWait, TypeOK
<1>4. ASSUME NEW id \in Id PROVE OwedAt(id)'
  <2>1. CASE id = w
    BY <1>1, <1>2, <2>1 DEF OwedAt, TypeOK
  <2>2. CASE id # w
    <3>1. /\ mutex'[id] = mutex[id]
          /\ mutex[id] # None => mutex[id] # t /\ mutex[id] \in Task /\ pc'[mutex[id]] = pc[mutex[id]]
      BY <1>1, <1>2, <2>2, HolderIsIn DEF TypeOK, Inside
    <3>2. Somewhere(id)' <=> Somewhere(id)
      BY <1>2, <3>1, SomewhereFrame DEF channels, servers
    <3>3. QED
      BY <1>2, <3>1, <3>2, OwedElsewhere DEF OwedInv
  <2>3. QED
    BY <2>1, <2>2
<1>5. QED
  BY <1>3, <1>4 DEF OwedInv

LEMMA ReturnOwed ==
  ASSUME DuccInv, OwedInv, NEW t \in Task, Return(t) PROVE OwedInv'
<1> DEFINE w == WaitId(t)
<1>1. TypeOK /\ Holders /\ w \in Id /\ mutex[w] = t /\ t # None /\ pc[t] = "unlock"
  BY CallIds, TaskFacts DEF DuccInv, Return, Holders, Inside
<1>2. /\ mutex' = [mutex EXCEPT ![w] = None] /\ pc' = [pc EXCEPT ![t] = "idle"]
      /\ UNCHANGED <<channels, servers, lost>>
  BY DEF Return
<1> HIDE DEF w
<1>3. LostWait'
  BY <1>1, <1>2 DEF OwedInv, LostWait, TypeOK
<1>4. ASSUME NEW id \in Id PROVE OwedAt(id)'
  <2>1. CASE id = w
    BY <1>1, <1>2, <2>1 DEF OwedAt, TypeOK
  <2>2. CASE id # w
    <3>1. /\ mutex'[id] = mutex[id]
          /\ mutex[id] # None => mutex[id] # t /\ mutex[id] \in Task /\ pc'[mutex[id]] = pc[mutex[id]]
      BY <1>1, <1>2, <2>2, HolderIsIn DEF TypeOK, Inside
    <3>2. Somewhere(id)' <=> Somewhere(id)
      BY <1>2, <3>1, SomewhereFrame DEF channels, servers
    <3>3. QED
      BY <1>2, <3>1, <3>2, OwedElsewhere DEF OwedInv
  <2>3. QED
    BY <2>1, <2>2
<1>5. QED
  BY <1>3, <1>4 DEF OwedInv

\* A task enters ioctl: nobody waits more or less than before.
LEMMA IoctlOwed ==
  ASSUME DuccInv, OwedInv, NEW t \in Task, NEW k \in Class, Ioctl(t, k) PROVE OwedInv'
<1>1. /\ pc[t] = "idle" /\ pc' = [pc EXCEPT ![t] = "lock"] /\ pc \in [Task -> {"idle", "lock", "send", "wait", "unlock"}]
      /\ UNCHANGED <<channels, mutex, servers, lost>> /\ lost \subseteq Task
  BY DEF Ioctl, DuccInv, TypeOK
<1>2. \A u \in Task : u # t => pc'[u] = pc[u]
  BY <1>1
<1>3. LostWait'
  BY <1>1, <1>2 DEF OwedInv, LostWait
<1>4. ASSUME NEW id \in Id PROVE OwedAt(id)'
  <2>1. mutex[id] # None => mutex[id] \in Task /\ (pc'[mutex[id]] = "wait" => pc[mutex[id]] = "wait")
    BY <1>1, <1>2 DEF DuccInv, TypeOK
  <2>2. Somewhere(id)' <=> Somewhere(id)
    BY <1>1, SomewhereFrame DEF channels, servers
  <2>3. QED
    BY <1>1, <2>1, <2>2, OwedElsewhere DEF OwedInv
<1>5. QED
  BY <1>3, <1>4 DEF OwedInv

\* A request is under way, or lost; its caller waits from now on.
LEMMA SendOwed ==
  ASSUME DuccInv, OwedInv, NEW t \in Task, Send(t)
  PROVE  OwedInv' /\ (t \in lost' <=> ~up) /\ (up => lost' = lost)
<1> DEFINE w == WaitId(t)
<1>1. /\ TypeOK /\ Holders /\ w \in Id /\ mutex[w] = t /\ t # None /\ t # Release
      /\ Peer(w) \in Id /\ Peer(Peer(w)) = w /\ pc[t] = "send" /\ Peer(w) # w
      /\ Channel(w) /\ Channel(Peer(w))
  BY CallIds, TaskFacts, PeerFacts DEF DuccInv, Send, Holders, Inside, Channel
<1>2. /\ Put(Peer(w), t, t) /\ pc' = [pc EXCEPT ![t] = "wait"]
      /\ UNCHANGED <<queue, sem, mutex, servers>>
  BY DEF Send, SendId
<1>3. Quiet(w) /\ t \notin Messages(fifo[Peer(w)]) /\ Distinct(fifo[Peer(w)])
  BY <1>1, QuietUnlessWaiting DEF Channel, Contents, Quiet, InFifo, Held
<1> HIDE DEF w
<1>4. /\ \A other \in Id : other # Peer(w) => fifo'[other] = fifo[other]
      /\ up => Messages(fifo'[Peer(w)]) = Messages(fifo[Peer(w)]) \cup {t}
      /\ ~up => fifo'[Peer(w)] = fifo[Peer(w)]
  BY <1>1, <1>2, <1>3, PutMessages
<1>5. t \notin lost /\ lost' = IF up THEN lost ELSE lost \cup {t}
  BY <1>1, <1>2 DEF OwedInv, LostWait, Put
<1>6. \A u \in Task : u # t => pc'[u] = pc[u]
  BY <1>2 DEF Send, DuccInv, TypeOK
<1>7. LostWait'
  BY <1>1, <1>2, <1>5, <1>6 DEF OwedInv, LostWait, TypeOK
<1>8. ASSUME NEW id \in Id PROVE OwedAt(id)'
  <2>1. CASE id = w
    <3>1. InFifo(id)' <=> up
      BY <1>1, <1>2, <1>3, <1>4, <2>1 DEF InFifo, Held, Quiet
    <3>2. ~InQueue(id)' /\ ~InHand(id)' /\ ~Posted(id)'
      BY <1>1, <1>2, <1>3, <2>1 DEF Quiet, InQueue, InHand, Posted, servers
    <3>3. ~Coming(id)'
      BY <1>1, <1>3, <1>4, <2>1 DEF Quiet, Coming, Held
    <3>4. Somewhere(id)' <=> up
      BY <3>1, <3>2, <3>3 DEF Somewhere
    <3>5. mutex'[id] = t /\ (t \in lost' <=> ~up)
      BY <1>1, <1>2, <1>5, <2>1
    <3>6. QED
      BY <3>4, <3>5 DEF OwedAt
  <2>2. CASE id # w
    <3>1. mutex[id] # None => mutex[id] # t /\ mutex[id] \in Task
      BY <1>1, <2>2, HolderIsIn
    <3>2. Peer(id) # Peer(w) /\ Peer(id) \in Id
      BY <1>1, <2>2, PeerFacts, PeerInjective
    <3>3. InFifo(id)' <=> InFifo(id)
      BY <1>2, <1>4, <3>2 DEF InFifo, Held
    <3>4. Coming(id)' <=> Coming(id)
      BY <1>1, <1>4 DEF Coming, Held
    <3>5. Somewhere(id)' <=> Somewhere(id)
      BY <1>2, <3>3, <3>4 DEF Somewhere, InQueue, InHand, Posted, servers
    <3>6. QED
      BY <1>2, <1>5, <1>6, <3>1, <3>5, OwedElsewhere DEF OwedInv
  <2>3. QED
    BY <2>1, <2>2
<1>9. QED
  BY <1>5, <1>7, <1>8 DEF OwedInv

\* A caller that wakes up was owed that.
LEMMA WakeOwed ==
  ASSUME DuccInv, OwedInv, NEW t \in Task, Wake(t) PROVE OwedInv' /\ t \notin lost
<1> DEFINE w == WaitId(t)
<1>1. TypeOK /\ Holders /\ w \in Id /\ mutex[w] = t /\ t # None /\ pc[t] = "wait"
  BY CallIds, TaskFacts DEF DuccInv, Wake, Holders, Inside
<1>2. /\ sem[w] > 0 /\ sem' = [sem EXCEPT ![w] = @ - 1] /\ pc' = [pc EXCEPT ![t] = "unlock"]
      /\ UNCHANGED <<fifo, queue, mutex, servers, lost>>
  BY DEF Wake
<1> HIDE DEF w
<1>3. Posted(w)
  BY <1>1, <1>2 DEF Posted, TypeOK
<1>4. t \notin lost
  BY <1>1, <1>3 DEF OwedInv, OwedAt, Somewhere
<1>5. LostWait'
  BY <1>1, <1>2, <1>4 DEF OwedInv, LostWait, TypeOK
<1>6. ASSUME NEW id \in Id PROVE OwedAt(id)'
  <2>1. CASE id = w
    BY <1>1, <1>2, <2>1 DEF OwedAt, TypeOK
  <2>2. CASE id # w
    <3>1. /\ sem'[id] = sem[id]
          /\ mutex[id] # None => mutex[id] # t /\ mutex[id] \in Task /\ pc'[mutex[id]] = pc[mutex[id]]
      BY <1>1, <1>2, <2>2, HolderIsIn DEF TypeOK
    <3>2. Somewhere(id)' <=> Somewhere(id)
      BY <1>2, <3>1, SomewhereFrame DEF servers
    <3>3. QED
      BY <1>2, <3>1, <3>2, OwedElsewhere DEF OwedInv
  <2>3. QED
    BY <2>1, <2>2
<1>7. QED
  BY <1>4, <1>5, <1>6 DEF OwedInv

\* A step that moves messages and touches no call.
LEMMA StillOwed ==
  ASSUME OwedInv, UNCHANGED <<mutex, pc, lost>>,
         \A id \in Id : Somewhere(id)' <=> Somewhere(id)
  PROVE  OwedInv'
BY DEF OwedInv, OwedAt, LostWait

\* The interrupt loses nothing: the queue it finds is empty.
LEMMA IrqOwed ==
  ASSUME DuccInv, OwedInv, NEW x \in Id, Irq(x) PROVE OwedInv' /\ lost' = lost
<1> DEFINE m == Head(fifo[x])
<1> DEFINE y == Peer(x)
<1>1. TypeOK /\ Channel(x) /\ Channel(y) /\ y \in Id /\ Peer(y) = x /\ y # x
  BY PeerFacts DEF DuccInv, Channel
<1>2. /\ fifo[x] # <<>> /\ fifo' = [fifo EXCEPT ![x] = Tail(@)]
      /\ UNCHANGED <<calls, servers>>
  BY DEF Irq
<1>3. /\ m \in Messages(fifo[x])
      /\ Messages(fifo'[x]) = Messages(fifo[x]) \ {m}
      /\ \A other \in Id : other # x => fifo'[other] = fifo[other]
  <2>1. fifo[x] \in Seq(Task \cup {Release}) /\ Distinct(fifo[x])
    BY <1>1 DEF TypeOK, Channel, Contents
  <2>2. QED
    BY <1>1, <1>2, <2>1, TailMessages DEF TypeOK
<1>4. CASE m = Release
  <2>1. sem' = [sem EXCEPT ![x] = @ + 1] /\ UNCHANGED <<queue, lost>>
    BY <1>4 DEF Irq
  <2>2. Coming(x) /\ Posted(x)' /\ \A other \in Id : other # x => sem'[other] = sem[other]
    BY <1>1, <1>3, <1>4, <2>1 DEF Coming, Held, Posted, TypeOK
  <2>3. ASSUME NEW id \in Id PROVE Somewhere(id)' <=> Somewhere(id)
    <3>1. CASE id = x
      BY <2>2, <3>1 DEF Somewhere
    <3>2. CASE id # x
      <4>1. mutex[id] # Release /\ Peer(id) \in Id
        BY <1>1, TaskFacts, UserAssumption, PeerFacts DEF TypeOK
      <4>2. (InFifo(id)' <=> InFifo(id)) /\ (Coming(id)' <=> Coming(id))
        BY <1>2, <1>3, <1>4, <3>2, <4>1 DEF InFifo, Coming, Held, calls
      <4>3. QED
        BY <1>2, <2>1, <2>2, <3>2, <4>2
        DEF Somewhere, InQueue, InHand, Posted, servers
    <3>3. QED
      BY <3>1, <3>2
  <2>4. QED
    BY <1>2, <2>1, <2>3, StillOwed DEF calls
<1>5. CASE m # Release
  <2>1. m = mutex[y] /\ InFifo(y) /\ queue[x] = <<>>
    <3>1. m = mutex[y] /\ InFifo(y)
      BY <1>1, <1>3, <1>5 DEF Channel, Contents, InFifo, Held
    <3>2. QED
      BY <1>1, <3>1 DEF Channel, OnePlace, InQueue
  <2>2. queue' = [queue EXCEPT ![x] = <<m>>] /\ UNCHANGED <<sem, lost>>
    <3>1. Append(queue[x], m) = <<m>> /\ Len(queue[x]) = 0
      BY <2>1
    <3>2. Len(queue[x]) # DUCC_MBOX_SIZE
      BY <3>1 DEF DUCC_MBOX_SIZE
    <3>3. QED
      BY <1>5, <3>1, <3>2 DEF Irq
  <2>3. InQueue(y)' /\ \A other \in Id : other # x => queue'[other] = queue[other]
    BY <1>1, <2>2 DEF InQueue, TypeOK
  <2>4. ASSUME NEW id \in Id PROVE Somewhere(id)' <=> Somewhere(id)
    <3>1. CASE id = y
      BY <2>1, <2>3, <3>1 DEF Somewhere
    <3>2. CASE id # y
      <4>1. Peer(id) \in Id /\ Peer(id) # x
        BY <1>1, <3>2, PeerFacts, PeerInjective
      <4>2. (InFifo(id)' <=> InFifo(id)) /\ (Coming(id)' <=> Coming(id))
        BY <1>2, <1>3, <1>5, <4>1 DEF InFifo, Coming, Held, calls
      <4>3. QED
        BY <1>2, <2>2, <2>3, <4>1, <4>2 DEF Somewhere, InQueue, InHand, Posted, servers
    <3>3. QED
      BY <3>1, <3>2
  <2>5. QED
    BY <1>2, <2>2, <2>4, StillOwed DEF calls
<1>6. QED
  BY <1>4, <1>5, <1>2 DEF Irq

\* The request goes from the queue into the server's hand.
LEMMA RecvOwed ==
  ASSUME DuccInv, OwedInv, NEW x \in Id, Recv(x) PROVE OwedInv'
<1>1. TypeOK /\ Channel(x) /\ Peer(x) \in Id /\ Peer(Peer(x)) = x
      /\ Channel(Peer(x))
  BY PeerFacts DEF DuccInv, Channel
<1>2. queue[x] = <<mutex[Peer(x)]>> /\ InQueue(Peer(x)) /\ mutex[Peer(x)] # None
  BY <1>1 DEF Recv, Channel, Contents, InQueue, Awaited
<1>3. /\ serving'[x] = mutex[Peer(x)]
      /\ \A other \in Id : other # x => /\ serving'[other] = serving[other]
                                       /\ queue'[other] = queue[other]
      /\ UNCHANGED <<fifo, sem, calls, lost>>
  <2>1. Head(queue[x]) = mutex[Peer(x)]
    BY <1>2
  <2>2. QED
    BY <1>1, <2>1 DEF Recv, TypeOK
<1>4. ASSUME NEW id \in Id PROVE Somewhere(id)' <=> Somewhere(id)
  <2>1. CASE id = Peer(x)
    <3>1. InHand(id)'
      BY <1>1, <1>2, <1>3, <2>1 DEF InHand
    <3>2. QED
      BY <1>2, <2>1, <3>1 DEF Somewhere
  <2>2. CASE id # Peer(x)
    <3>1. Peer(id) \in Id /\ Peer(id) # x
      BY <1>1, <2>2, PeerFacts, PeerInjective
    <3>2. QED
      BY <1>3, <3>1, SomewhereFrame DEF calls
  <2>3. QED
    BY <2>1, <2>2
<1>5. QED
  BY <1>3, <1>4, StillOwed DEF calls

\* The server's hand is not emptied by executing the request.
LEMMA ExecOwed ==
  ASSUME OwedInv, NEW x \in Id, Exec(x) PROVE OwedInv'
<1>1. UNCHANGED <<channels, mutex, pc, serving, lost>>
  BY DEF Exec
<1>2. ASSUME NEW id \in Id PROVE Somewhere(id)' <=> Somewhere(id)
  BY <1>1, SomewhereFrame DEF channels
<1>3. QED
  BY <1>1, <1>2, StillOwed

\* The server's release is on its way, or lost with nothing else under way.
LEMMA ReplyOwed ==
  ASSUME DuccInv, OwedInv, NEW x \in Id, Reply(x) PROVE OwedInv' /\ (up => lost' = lost)
<1> DEFINE y == Peer(x)
<1>1. TypeOK /\ Holders /\ Channel(x) /\ Channel(y) /\ y \in Id /\ Peer(y) = x /\ y # x
  BY PeerFacts DEF DuccInv, Channel
<1>2. /\ serving[x] # None /\ serving[x] = mutex[y] /\ InHand(y) /\ mutex[y] \in Task
      /\ pc[mutex[y]] = "wait" /\ mutex[y] # Release
  BY <1>1, TaskFacts DEF Reply, Channel, Contents, InHand, Awaited, TypeOK
<1>3. ~InFifo(y) /\ ~InQueue(y) /\ ~Coming(y) /\ ~Posted(y) /\ mutex[y] \notin lost
  BY <1>1, <1>2 DEF Channel, OnePlace, OwedInv, OwedAt, Somewhere
<1>4. /\ Put(y, Release, mutex[y]) /\ UNCHANGED <<queue, sem, calls>>
      /\ serving'[x] = None
      /\ \A other \in Id : other # x => serving'[other] = serving[other]
  BY <1>1, <1>2 DEF Reply, TypeOK
<1>5. /\ \A other \in Id : other # y => fifo'[other] = fifo[other]
      /\ up => Messages(fifo'[y]) = Messages(fifo[y]) \cup {Release}
      /\ ~up => fifo'[y] = fifo[y]
  <2>1. Distinct(fifo[y]) /\ Release \notin Messages(fifo[y])
    BY <1>1, <1>3 DEF Channel, Contents, Coming, Held
  <2>2. QED
    BY <1>1, <1>4, <2>1, PutMessages
<1> HIDE DEF y
<1>6. lost' = IF up THEN lost ELSE lost \cup {mutex[y]}
  BY <1>4 DEF Put
<1>7. LostWait'
  BY <1>2, <1>4, <1>6 DEF OwedInv, LostWait, calls
<1>8. ASSUME NEW id \in Id PROVE OwedAt(id)'
  <2>1. CASE id = y
    <3>1. ~InFifo(id)'
      BY <1>1, <1>2, <1>3, <1>4, <1>5, <2>1 DEF InFifo, Held, calls
    <3>2. ~InQueue(id)' /\ ~InHand(id)' /\ ~Posted(id)'
      BY <1>1, <1>3, <1>4, <2>1 DEF InQueue, InHand, Posted
    <3>3. Coming(id)' <=> up
      BY <1>3, <1>5, <2>1 DEF Coming, Held
    <3>4. Somewhere(id)' <=> up
      BY <3>1, <3>2, <3>3 DEF Somewhere
    <3>5. mutex'[id] = mutex[y] /\ (mutex[y] \in lost' <=> ~up)
      BY <1>3, <1>4, <1>6, <2>1 DEF calls
    <3>6. QED
      BY <3>4, <3>5 DEF OwedAt
  <2>2. CASE id # y
    <3>1. mutex[id] # None => mutex[id] # mutex[y]
      BY <1>1, <2>2, HolderIsIn
    <3>2. Peer(id) \in Id /\ Peer(id) # x
      BY <1>1, <2>2, PeerFacts, PeerInjective
    <3>3. mutex[id] # Release
      BY <1>1, TaskFacts, UserAssumption DEF TypeOK
    <3>4. (InFifo(id)' <=> InFifo(id)) /\ (Coming(id)' <=> Coming(id))
      BY <1>4, <1>5, <2>2, <3>2, <3>3 DEF InFifo, Coming, Held, calls
    <3>5. Somewhere(id)' <=> Somewhere(id)
      BY <1>4, <3>2, <3>4 DEF Somewhere, InQueue, InHand, Posted
    <3>6. QED
      BY <1>4, <1>6, <3>1, <3>5, OwedElsewhere DEF OwedInv, calls
  <2>3. QED
    BY <2>1, <2>2
<1>9. QED
  BY <1>6, <1>7, <1>8 DEF OwedInv

\* Whom the reset of the message box leaves waiting: the callers whose request or
\* release it held, and nobody else.
LEMMA DeinitOwed ==
  ASSUME DuccInv, OwedInv, SuspendDeinit PROVE OwedInv'
<1> DEFINE Caught(t) == \E id \in Id : Held(id, t) \/ (Held(id, Release) /\ mutex[id] = t)
<1>1. /\ TypeOK /\ Holders /\ \A id \in Id : Channel(id) /\ Peer(id) \in Id /\ Peer(Peer(id)) = id
      /\ lost' = lost \cup {t \in Task : Caught(t)}
      /\ \A id \in Id : fifo'[id] = <<>>
      /\ UNCHANGED <<queue, sem, calls, servers>>
  BY PeerFacts DEF DuccInv, SuspendDeinit, Channel
<1>2. ASSUME NEW t \in Task, NEW id \in Id, Held(id, t)
      PROVE  t = mutex[Peer(id)] /\ InFifo(Peer(id)) /\ pc[t] = "wait"
  <2>1. t = mutex[Peer(id)] /\ InFifo(Peer(id))
    BY <1>1, <1>2, TaskFacts DEF Channel, Contents, Held, InFifo
  <2>2. QED
    BY <1>1, <2>1 DEF Channel, Awaited
<1>3. ASSUME NEW t \in Task, NEW id \in Id, Held(id, Release), mutex[id] = t
      PROVE  Coming(id) /\ pc[t] = "wait"
  BY <1>1, <1>3 DEF Channel, Awaited, Coming
<1>4. ASSUME NEW t \in Task, Caught(t) PROVE pc[t] = "wait"
  BY <1>2, <1>3, <1>4
<1>5. LostWait'
  BY <1>1, <1>4 DEF OwedInv, LostWait, calls
<1>6. ASSUME NEW id \in Id, mutex[id] # None, pc[mutex[id]] = "wait"
      PROVE  mutex[id] \in lost' <=> ~Somewhere(id)'
  <2>1. mutex[id] \in Task /\ \A other \in Id : mutex[other] = mutex[id] => other = id
    BY <1>1, <1>6, HolderIsIn
  <2>2. Caught(mutex[id]) => InFifo(id) \/ Coming(id)
    <3>1. ASSUME NEW j \in Id, Held(j, mutex[id]) PROVE InFifo(id)
      <4>1. mutex[id] = mutex[Peer(j)] /\ InFifo(Peer(j)) /\ Peer(j) \in Id
        BY <1>1, <1>2, <2>1, <3>1
      <4>2. QED
        BY <2>1, <4>1
    <3>2. ASSUME NEW j \in Id, Held(j, Release), mutex[j] = mutex[id] PROVE Coming(id)
      BY <2>1, <3>2 DEF Coming
    <3>3. QED
      BY <3>1, <3>2
  <2>3. InFifo(id) \/ Coming(id) => Caught(mutex[id])
    BY <1>1 DEF InFifo, Coming
  <2>4. mutex[id] \in lost' <=> mutex[id] \in lost \/ Caught(mutex[id])
    BY <1>1, <2>1
  <2>5. ~InFifo(id)' /\ ~Coming(id)'
    BY <1>1, EmptyMessages DEF InFifo, Coming, Held
  <2>6. /\ InQueue(id)' <=> InQueue(id)
        /\ InHand(id)' <=> InHand(id)
        /\ Posted(id)' <=> Posted(id)
    BY <1>1 DEF InQueue, InHand, Posted, servers
  <2>7. mutex[id] \in lost <=> ~Somewhere(id)
    BY <1>6 DEF OwedInv, OwedAt
  <2>8. OnePlace(id)
    BY <1>1 DEF Channel
  <2> HIDE DEF Caught
  <2>9. QED
    BY <2>2, <2>3, <2>4, <2>5, <2>6, <2>7, <2>8 DEF OnePlace, Somewhere
<1>7. ASSUME NEW id \in Id PROVE OwedAt(id)'
  BY <1>1, <1>6 DEF OwedAt, calls
<1>8. QED
  BY <1>5, <1>7 DEF OwedInv

\* A step that leaves calls and messages alone.
LEMMA FrameOwed ==
  ASSUME OwedInv, UNCHANGED <<channels, calls, serving, lost>> PROVE OwedInv'
<1>1. ASSUME NEW id \in Id PROVE Somewhere(id)' <=> Somewhere(id)
  BY SomewhereFrame DEF channels, calls
<1>2. QED
  BY <1>1, StillOwed DEF calls

\* Every step keeps track of who is owed an answer.
LEMMA NextOwed == DuccInv /\ OwedInv /\ [Next]_vars => OwedInv'
<1> SUFFICES ASSUME DuccInv, OwedInv, [Next]_vars PROVE OwedInv'
  OBVIOUS
<1>1. ASSUME NEW t \in Task, NEW k \in Class, Ioctl(t, k) PROVE OwedInv'
  BY <1>1, IoctlOwed
<1>2. ASSUME NEW t \in Task, CallStep(t) PROVE OwedInv'
  BY <1>2, LockOwed, SendOwed, WakeOwed, ReturnOwed DEF CallStep
<1>3. ASSUME NEW id \in Id, Irq(id) \/ ServerStep(id) PROVE OwedInv'
  BY <1>3, IrqOwed, RecvOwed, ExecOwed, ReplyOwed DEF ServerStep
<1>4. CASE SuspendDeinit
  BY <1>4, DeinitOwed
<1>5. CASE \/ Standby \/ NetSleeps \/ SuspendFlag \/ Resume \/ NetSuspend \/ NetResume
           \/ UNCHANGED vars
  <2>1. UNCHANGED <<channels, calls, serving, lost>>
    BY <1>5 DEF Standby, NetSleeps, SuspendFlag, Resume, NetSuspend, NetResume, vars, servers
  <2>2. QED
    BY <2>1, FrameOwed
<1>6. QED
  BY <1>1, <1>2, <1>3, <1>4, <1>5 DEF Next

LEMMA InitOwed == Init => OwedInv
<1> SUFFICES ASSUME Init PROVE OwedInv
  OBVIOUS
<1>1. \A id \in Id : mutex[id] = None
  BY DEF Init
<1>2. QED
  BY <1>1 DEF Init, OwedInv, OwedAt, LostWait

LEMMA OwedInvariance == Spec => []OwedInv
<1>1. QED
  BY InitOwed, NextOwed, Invariance, PTL DEF Spec

\* A caller that waits is owed an answer or was left by a lost message, at any moment
\* of any number of suspends (ducc_app.c:178-193, hal_mbox.c:283-293).
THEOREM EveryWaitIsOwed == Spec => []WaitsAreOwed
BY OwedByChannel, OwedInvariance, Invariance, PTL

\* No step forgets whom it left waiting.
LEMMA LostGrows == [Next]_vars => \A t \in lost : t \in lost'
<1> SUFFICES ASSUME [Next]_vars, NEW t \in lost PROVE t \in lost'
  OBVIOUS
<1>1. ASSUME NEW id, NEW m, NEW w, Put(id, m, w) PROVE t \in lost'
  BY <1>1 DEF Put
<1>2. ASSUME NEW u \in Task, (\E k \in Class : Ioctl(u, k)) \/ CallStep(u) PROVE t \in lost'
  BY <1>1, <1>2 DEF Ioctl, CallStep, Lock, Send, Wake, Return
<1>3. ASSUME NEW id \in Id, Irq(id) \/ ServerStep(id) PROVE t \in lost'
  BY <1>1, <1>3 DEF Irq, ServerStep, Recv, Exec, Reply
<1>4. CASE \/ Standby \/ NetSleeps \/ SuspendFlag \/ SuspendDeinit \/ Resume
           \/ NetSuspend \/ NetResume \/ UNCHANGED vars
  BY <1>4 DEF Standby, NetSleeps, SuspendFlag, SuspendDeinit, Resume, NetSuspend,
              NetResume, vars
<1>5. QED
  BY <1>2, <1>3, <1>4 DEF Next

\* The mutex of a caller that waits stays his, and who waits for it waits on.
LEMMA LockedOut ==
  ASSUME DuccInv, [Next]_vars, NEW t \in Task, pc[t] = "wait"
  PROVE  /\ mutex[WaitId(t)] = t /\ mutex'[WaitId(t)] = t
         /\ \A u \in Task : pc[u] = "lock" /\ WaitId(u) = WaitId(t) => pc'[u] = "lock"
<1> DEFINE w == WaitId(t)
<1> DEFINE Kept == mutex'[w] = t /\ \A u \in Task : pc[u] = "lock" /\ WaitId(u) = w => pc'[u] = "lock"
<1>1. TypeOK /\ Holders /\ w \in Id /\ mutex[w] = t /\ t # None
  BY CallIds, TaskFacts DEF DuccInv, Holders, Inside
<1> HIDE DEF w
<1>2. ASSUME UNCHANGED <<mutex, pc>> PROVE Kept
  BY <1>1, <1>2
<1>3. ASSUME NEW v \in Task, NEW k \in Class, Ioctl(v, k) PROVE Kept
  BY <1>1, <1>3 DEF Ioctl, TypeOK
<1>4. ASSUME NEW v \in Task, Lock(v) PROVE Kept
  <2>1. WaitId(v) # w /\ mutex' = [mutex EXCEPT ![WaitId(v)] = v]
        /\ pc' = [pc EXCEPT ![v] = "send"]
    BY <1>1, <1>4 DEF Lock
  <2>2. QED
    BY <1>1, <2>1 DEF TypeOK
<1>5. ASSUME NEW v \in Task, Send(v) \/ Wake(v) PROVE Kept
  <2>1. UNCHANGED mutex /\ pc[v] \in {"send", "wait"}
        /\ \A u \in Task : u # v => pc'[u] = pc[u]
    BY <1>1, <1>5 DEF Send, Wake, TypeOK
  <2>2. QED
    BY <1>1, <2>1
<1>6. ASSUME NEW v \in Task, Return(v) PROVE Kept
  <2>1. mutex[WaitId(v)] = v /\ v # t /\ pc[v] = "unlock"
    BY <1>1, <1>6 DEF Return, Holders, Inside
  <2>2. WaitId(v) # w /\ mutex' = [mutex EXCEPT ![WaitId(v)] = None]
        /\ pc' = [pc EXCEPT ![v] = "idle"]
    BY <1>1, <1>6, <2>1 DEF Return
  <2>3. QED
    BY <1>1, <2>1, <2>2 DEF TypeOK
<1> HIDE DEF Kept
<1>7. ASSUME \/ \E id \in Id : Irq(id) \/ ServerStep(id)
             \/ Standby \/ NetSleeps \/ SuspendFlag \/ SuspendDeinit \/ Resume
             \/ NetSuspend \/ NetResume \/ UNCHANGED vars
      PROVE  Kept
  <2>1. UNCHANGED <<mutex, pc>>
    BY <1>7 DEF Irq, ServerStep, Recv, Exec, Reply, Standby, NetSleeps, SuspendFlag,
                SuspendDeinit, Resume, NetSuspend, NetResume, vars, calls
  <2>2. QED
    BY <1>2, <2>1
<1>8. Kept
  BY <1>3, <1>4, <1>5, <1>2, <1>6, <1>7 DEF Next, CallStep
<1>9. QED
  BY <1>1, <1>8 DEF w, Kept

\* A caller whose message was lost waits for ever with the mutex, and whoever wants to
\* call through the same channel waits with it (ducc_app.c:178-193).
THEOREM LostCallsStay == Spec => LostForEver
<1>1. DuccInv /\ OwedInv /\ [Next]_vars
      => [\A t \in lost :
            /\ t \in lost' /\ pc'[t] = "wait" /\ mutex'[WaitId(t)] = t
            /\ \A u \in Task : pc[u] = "lock" /\ WaitId(u) = WaitId(t) => pc'[u] = "lock"]_vars
  <2> SUFFICES ASSUME DuccInv, OwedInv, [Next]_vars, NEW t \in lost
               PROVE  /\ t \in lost' /\ pc'[t] = "wait" /\ mutex'[WaitId(t)] = t
                      /\ \A u \in Task : pc[u] = "lock" /\ WaitId(u) = WaitId(t)
                                         => pc'[u] = "lock"
    OBVIOUS
  <2>1. t \in Task /\ pc[t] = "wait" /\ t \in lost'
    BY LostGrows DEF DuccInv, TypeOK, OwedInv, LostWait
  <2>2. pc'[t] = "wait"
    BY <2>1, NextOwed DEF OwedInv, LostWait
  <2>3. QED
    BY <2>1, <2>2, LockedOut
<1>2. QED
  BY <1>1, Invariance, OwedInvariance, PTL DEF Spec, LostForEver

\* The message box is in reset between the two halves of a suspend, the flag of the
\* application core is set from the first on, and the suspending task makes its
\* call before either.
PowerInv ==
  /\ up <=> pm # "down"
  /\ suspending["app"] <=> Flagged
  /\ pc[PmTask] # "idle" => pm = "notify"

LEMMA PowerInvariance == Spec => []PowerInv
<1>1. Init => PowerInv
  BY UserAssumption DEF Init, PowerInv, Flagged, Task, Core
<1>2. TypeOK /\ PowerInv /\ [Next]_vars => PowerInv'
  <2> SUFFICES ASSUME TypeOK, PowerInv, [Next]_vars PROVE PowerInv'
    OBVIOUS
  <2>1. PmTask \in Task
    BY UserAssumption DEF Task
  <2>2. ASSUME NEW t \in Task, \E k \in Class : Ioctl(t, k) PROVE PowerInv'
    BY <2>1, <2>2 DEF Ioctl, MayCall, TypeOK, PowerInv, Flagged, power
  <2>3. ASSUME NEW t \in Task, Lock(t) \/ Send(t) \/ Wake(t) PROVE PowerInv'
    <3>1. pc[t] # "idle" /\ UNCHANGED power /\ \A u \in Task : u # t => pc'[u] = pc[u]
      BY <2>3 DEF Lock, Send, Wake, TypeOK
    <3>2. QED
      BY <2>1, <3>1 DEF PowerInv, Flagged, power
  <2>4. ASSUME NEW t \in Task, Return(t) PROVE PowerInv'
    <3>1. /\ pc[t] # "idle" /\ pc'[t] = "idle" /\ UNCHANGED <<up, suspending>>
          /\ pm' = IF t = PmTask THEN "poll" ELSE pm
          /\ \A u \in Task : u # t => pc'[u] = pc[u]
      BY <2>4 DEF Return, TypeOK
    <3>2. QED
      BY <2>1, <3>1 DEF PowerInv, Flagged
  <2>5. ASSUME NEW id \in Id, Irq(id) \/ ServerStep(id) PROVE PowerInv'
    <3>1. UNCHANGED <<pc, power>>
      BY <2>5 DEF Irq, ServerStep, Recv, Exec, Reply, calls
    <3>2. QED
      BY <3>1 DEF PowerInv, Flagged, power
  <2>6. CASE Standby
    BY <2>6 DEF Standby, PowerInv, Flagged, calls
  <2>7. CASE NetSleeps
    BY <2>7 DEF NetSleeps, PowerInv, Flagged, calls
  <2>8. CASE SuspendFlag
    <3>1. suspending'["app"] = TRUE /\ UNCHANGED <<up, pc>>
      BY <2>8 DEF SuspendFlag, TypeOK, Core, calls
    <3>2. pm \in {"awake", "polled"} /\ pm' \in {"flagged", "deinit"}
      BY <2>8 DEF SuspendFlag
    <3>3. QED
      BY <3>1, <3>2 DEF PowerInv, Flagged
  <2>9. CASE SuspendDeinit
    BY <2>9 DEF SuspendDeinit, PowerInv, Flagged, calls
  <2>10. CASE Resume
    BY <2>10 DEF Resume, PowerInv, Flagged, calls, TypeOK, Core
  <2>11. CASE NetSuspend
    <3>1. suspending'["app"] = suspending["app"] /\ UNCHANGED <<pc, up, pm>>
      BY <2>11 DEF NetSuspend, TypeOK, Core, calls
    <3>2. QED
      BY <3>1 DEF PowerInv, Flagged
  <2>12. CASE NetResume
    <3>1. suspending'["app"] = suspending["app"] /\ UNCHANGED <<pc, up, pm>>
      BY <2>12 DEF NetResume, TypeOK, Core, calls
    <3>2. QED
      BY <3>1 DEF PowerInv, Flagged
  <2>13. CASE UNCHANGED vars
    BY <2>13 DEF vars, power, calls, PowerInv, Flagged
  <2>14. QED
    BY <2>2, <2>3, <2>4, <2>5, <2>6, <2>7, <2>8, <2>9, <2>10, <2>11, <2>12, <2>13
    DEF Next, CallStep
<1>3. QED
  BY <1>1, <1>2, TypeCorrect, PTL DEF Spec

\* Only the message box in reset loses messages, and it is in reset only while the
\* flag forbids new calls: no queue ever overflows, and of the requests that are
\* sent exactly those are lost that were let in before (ducc_app.c:153-156).
THEOREM OnlyShutdownLoses == Spec => LostOnlyByShutdown
<1> DEFINE A == /\ lost' # lost => ~up' /\ pm' = "down" /\ suspending'["app"]
                /\ \A t \in Task : pc[t] = "send" /\ pc'[t] = "wait" => (t \in lost' <=> ~up)
<1>1. DuccInv /\ OwedInv /\ PowerInv /\ [Next]_vars => [A]_vars
  <2> SUFFICES ASSUME DuccInv, OwedInv, PowerInv, [Next]_vars PROVE A
    OBVIOUS
  <2>1. TypeOK
    BY DEF DuccInv
  <2>2. ASSUME UNCHANGED lost, \A t \in Task : pc[t] = "send" => pc'[t] # "wait" PROVE A
    BY <2>2
  <2>3. ~up => pm = "down" /\ suspending["app"]
    BY DEF PowerInv, Flagged
  <2>4. ASSUME NEW t \in Task, (\E k \in Class : Ioctl(t, k)) \/ Lock(t) \/ Wake(t) \/ Return(t)
        PROVE  A
    <3>1. UNCHANGED lost /\ pc[t] # "send" /\ \A u \in Task : u # t => pc'[u] = pc[u]
      BY <2>1, <2>4 DEF Ioctl, Lock, Wake, Return, TypeOK
    <3>2. QED
      BY <2>2, <3>1
  <2>5. ASSUME NEW t \in Task, Send(t) PROVE A
    <3>1. (t \in lost' <=> ~up) /\ (up => lost' = lost)
      BY <2>5, SendOwed
    <3>2. UNCHANGED power /\ \A u \in Task : u # t => pc'[u] = pc[u]
      BY <2>1, <2>5 DEF Send, TypeOK
    <3>3. QED
      BY <2>3, <3>1, <3>2 DEF power
  <2>6. ASSUME NEW id \in Id, Irq(id) \/ Recv(id) \/ Exec(id) PROVE A
    <3>1. UNCHANGED <<lost, pc>>
      BY <2>6, IrqOwed DEF Irq, Recv, Exec, calls
    <3>2. QED
      BY <2>2, <3>1
  <2>7. ASSUME NEW id \in Id, Reply(id) PROVE A
    <3>1. (up => lost' = lost) /\ UNCHANGED <<pc, power>>
      BY <2>7, ReplyOwed DEF Reply, calls
    <3>2. QED
      BY <2>3, <3>1 DEF power
  <2>8. CASE SuspendDeinit
    <3>1. ~up' /\ pm' = "down" /\ suspending'["app"] /\ UNCHANGED pc
      BY <2>8 DEF SuspendDeinit, PowerInv, Flagged, calls
    <3>2. QED
      BY <3>1
  <2>9. CASE \/ Standby \/ NetSleeps \/ SuspendFlag \/ Resume \/ NetSuspend \/ NetResume
             \/ UNCHANGED vars
    <3>1. UNCHANGED <<lost, pc>>
      BY <2>9 DEF Standby, NetSleeps, SuspendFlag, Resume, NetSuspend, NetResume, vars, calls
    <3>2. QED
      BY <2>2, <3>1
  <2>10. QED
    BY <2>4, <2>5, <2>6, <2>7, <2>8, <2>9 DEF Next, CallStep, ServerStep
<1>2. QED
  BY <1>1, Invariance, OwedInvariance, PowerInvariance, PTL DEF Spec, LostOnlyByShutdown
=============================================================================
