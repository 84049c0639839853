---------------------------- MODULE NetCtrlProofs ----------------------------
(***************************************************************************)
(* Proofs about NetCtrl, for any addresses and any length of the queue and *)
(* of the mailbox.                                                         *)
(***************************************************************************)
EXTENDS NetCtrl, TLAPS
-----------------------------------------------------------------------------
(* Sequences of messages.                                                  *)

\* What is put at the end of a sequence.
LEMMA AppendFacts ==
  ASSUME NEW S, NEW s \in Seq(S), NEW x \in S
  PROVE  /\ Append(s, x) \in Seq(S) /\ Len(s) \in Nat
         /\ Len(Append(s, x)) = Len(s) + 1
         /\ Append(s, x)[Len(s) + 1] = x
         /\ \A i \in 1 .. Len(s) : Append(s, x)[i] = s[i]
OBVIOUS

\* What is left when the head is taken.
LEMMA TailFacts ==
  ASSUME NEW S, NEW s \in Seq(S), s # <<>>
  PROVE  /\ Tail(s) \in Seq(S) /\ Head(s) = s[1] /\ Head(s) \in S
         /\ Len(s) \in Nat \ {0} /\ Len(Tail(s)) = Len(s) - 1
         /\ \A i \in 1 .. Len(Tail(s)) : Tail(s)[i] = s[i + 1]
OBVIOUS

\* Replies that are no longer current.
LEMMA ExpiredFacts ==
  ASSUME NEW s \in Seq(Mail)
  PROVE  /\ Expired(s) \in Seq(Mail) /\ Len(Expired(s)) = Len(s) /\ Len(s) \in Nat
         /\ \A i \in 1 .. Len(s) :
              Expired(s)[i] = IF s[i] \in Reply THEN "stale" ELSE s[i]
<1>1. Len(s) \in Nat /\ DOMAIN s = 1 .. Len(s) /\ \A i \in 1 .. Len(s) : s[i] \in Mail
  OBVIOUS
<1>2. \A i \in 1 .. Len(s) :
        Expired(s)[i] = (IF s[i] \in Reply THEN "stale" ELSE s[i]) /\ Expired(s)[i] \in Mail
  BY <1>1 DEF Expired, Mail
<1>3. Expired(s) \in [1 .. Len(s) -> Mail]
  BY <1>1, <1>2 DEF Expired
<1>4. QED
  BY <1>1, <1>2, <1>3

\* A message that is in a sequence stays there when another is put behind it,
\* and when the head is taken if that is another one.
LEMMA InAppend ==
  ASSUME NEW s \in Seq(Message), NEW x \in Message, NEW y
  PROVE  /\ In(y, s) => In(y, Append(s, x))
         /\ In(x, Append(s, x))
BY AppendFacts, \A i \in 1 .. Len(s) : i \in 1 .. Len(s) + 1, Len(s) + 1 \in 1 .. Len(s) + 1 DEF In

LEMMA InTail ==
  ASSUME NEW s \in Seq(Message), s # <<>>, NEW y, In(y, s), Head(s) # y
  PROVE  In(y, Tail(s))
<1>1. PICK i \in 1 .. Len(s) : s[i] = y
  BY DEF In
<1>2. i - 1 \in 1 .. Len(Tail(s)) /\ Tail(s)[i - 1] = y
  BY <1>1, TailFacts
<1>3. QED
  BY <1>2 DEF In

\* The request in the mailbox when something is put there ...
LEMMA AppendRequest ==
  ASSUME NEW s \in Seq(Mail), NEW x \in Mail, NEW r \in Request
  PROVE  /\ Holds(s, r) /\ x \notin Request => Holds(Append(s, x), r)
         /\ HoldsNone(s) /\ x \notin Request => HoldsNone(Append(s, x))
         /\ HoldsNone(s) => Holds(Append(s, r), r)
<1>1. r \in Mail
  BY DEF Mail
<1>2. ASSUME Holds(s, r), x \notin Request PROVE Holds(Append(s, x), r)
  BY <1>2, AppendFacts DEF Holds
<1>3. ASSUME HoldsNone(s), x \notin Request PROVE HoldsNone(Append(s, x))
  BY <1>3, AppendFacts DEF HoldsNone
<1>4. ASSUME HoldsNone(s) PROVE Holds(Append(s, r), r)
  <2>1. \A i \in 1 .. Len(s) : Append(s, r)[i] \notin Request
    BY <1>1, <1>4, AppendFacts DEF HoldsNone
  <2>2. Len(s) + 1 \in 1 .. Len(Append(s, r)) /\ Append(s, r)[Len(s) + 1] = r
    BY <1>1, AppendFacts
  <2>3. QED
    BY <1>1, <2>1, <2>2, AppendFacts DEF Holds
<1>5. QED
  BY <1>2, <1>3, <1>4

\* ... and when the head is taken.
LEMMA TailRequest ==
  ASSUME NEW s \in Seq(Mail), s # <<>>, NEW r \in Request
  PROVE  /\ Holds(s, r) /\ Head(s) \notin Request => Holds(Tail(s), r)
         /\ Holds(s, r) /\ Head(s) \in Request => Head(s) = r /\ HoldsNone(Tail(s))
         /\ HoldsNone(s) => HoldsNone(Tail(s)) /\ Head(s) \notin Request
<1>1. ASSUME Holds(s, r), Head(s) \notin Request PROVE Holds(Tail(s), r)
  <2>1. PICK i \in 1 .. Len(s) : s[i] = r /\ \A j \in 1 .. Len(s) : s[j] \in Request => j = i
    BY <1>1 DEF Holds
  <2>2. i - 1 \in 1 .. Len(Tail(s)) /\ Tail(s)[i - 1] = r
    BY <1>1, <2>1, TailFacts
  <2>3. \A j \in 1 .. Len(Tail(s)) : Tail(s)[j] \in Request => j = i - 1
    BY <2>1, TailFacts
  <2>4. QED
    BY <2>2, <2>3 DEF Holds
<1>2. ASSUME Holds(s, r), Head(s) \in Request PROVE Head(s) = r /\ HoldsNone(Tail(s))
  <2>1. 1 \in 1 .. Len(s)
    BY TailFacts
  <2>2. QED
    BY <1>2, <2>1, TailFacts DEF Holds, HoldsNone
<1>3. ASSUME HoldsNone(s) PROVE HoldsNone(Tail(s)) /\ Head(s) \notin Request
  <2>1. 1 \in 1 .. Len(s)
    BY TailFacts
  <2>2. QED
    BY <1>3, <2>1, TailFacts DEF HoldsNone
<1>4. QED
  BY <1>1, <1>2, <1>3

\* Requests do not expire.
LEMMA ExpiredRequest ==
  ASSUME NEW s \in Seq(Mail), NEW r \in Request
  PROVE  /\ Holds(s, r) => Holds(Expired(s), r)
         /\ HoldsNone(s) => HoldsNone(Expired(s))
<1>1. r \notin Reply /\ "stale" \notin Request
  BY DEF Request, Reply
<1>2. QED
  BY <1>1, ExpiredFacts DEF Holds, HoldsNone

\* Replies behind the start stay there.
LEMMA AppendStart ==
  ASSUME NEW s \in Seq(Mail), NEW x \in Mail, StartFirst(s),
         x \notin Reply \/ Holds(s, "start")
  PROVE  StartFirst(Append(s, x))
<1>1. SUFFICES ASSUME NEW i \in 1 .. Len(s) + 1, Append(s, x)[i] \in Reply
               PROVE \E j \in 1 .. i - 1 : Append(s, x)[j] = "start"
  BY AppendFacts DEF StartFirst
<1>2. CASE i \in 1 .. Len(s)
  <2>1. PICK j \in 1 .. i - 1 : s[j] = "start"
    BY <1>1, <1>2, AppendFacts DEF StartFirst
  <2>2. QED
    BY <1>2, <2>1, AppendFacts
<1>3. CASE i = Len(s) + 1
  <2>1. PICK j \in 1 .. Len(s) : s[j] = "start"
    BY <1>1, <1>3, AppendFacts DEF Holds
  <2>2. QED
    BY <1>3, <2>1, AppendFacts
<1>4. QED
  BY <1>2, <1>3, AppendFacts

LEMMA TailStart ==
  ASSUME NEW s \in Seq(Mail), s # <<>>, StartFirst(s), Head(s) # "start"
  PROVE  Head(s) \notin Reply /\ StartFirst(Tail(s))
<1>1. Head(s) \notin Reply
  BY TailFacts DEF StartFirst
<1>2. ASSUME NEW i \in 1 .. Len(Tail(s)), Tail(s)[i] \in Reply
      PROVE \E j \in 1 .. i - 1 : Tail(s)[j] = "start"
  <2>1. i + 1 \in 1 .. Len(s) /\ s[i + 1] \in Reply
    BY <1>2, TailFacts
  <2>2. PICK j \in 1 .. (i + 1) - 1 : s[j] = "start"
    BY <2>1 DEF StartFirst
  <2>3. j - 1 \in 1 .. i - 1 /\ Tail(s)[j - 1] = "start"
    BY <1>2, <2>2, TailFacts
  <2>4. QED
    BY <2>3
<1>3. QED
  BY <1>1, <1>2 DEF StartFirst

LEMMA ExpiredStart ==
  ASSUME NEW s \in Seq(Mail)
  PROVE  StartFirst(Expired(s))
BY ExpiredFacts, "stale" \notin Reply DEF StartFirst, Reply
-----------------------------------------------------------------------------
(* The type invariant.                                                     *)

\* The initial state satisfies the invariant.
LEMMA InitInv == Init => NetInv
<1>1. SUFFICES ASSUME Init PROVE NetInv
  OBVIOUS
<1>2. queue \in Seq(Message) /\ mbox \in Seq(Mail) /\ Len(queue) = 0 /\ Len(mbox) = 0
  BY <1>1 DEF Init
<1>3. TypeOK
  <2>1. Len(queue) <= QUEUE_LEN /\ Len(mbox) <= MBOX_SIZE
    BY <1>2, SizeAssumption
  <2>2. ctl \in Place /\ job \in Job /\ dhcp \in State /\ {ip, told, offered} \subseteq {NoAddress}
    BY <1>1 DEF Init, Place, Job, State, Stopped
  <2>3. QED
    BY <1>1, <1>2, <2>1, <2>2 DEF Init, TypeOK
<1>4. RequestInv /\ JobInv /\ LeaseInv /\ StartInv
  BY <1>1, <1>2 DEF Init, RequestInv, JobInv, LeaseInv, StartInv, HoldsNone, Request, Stopped
<1>5. QED
  BY <1>3, <1>4 DEF NetInv

\* The steps that put something into the mailbox, or expire its replies.
LEMMA MailboxType ==
  ASSUME TypeOK, NEW x \in Mail, HasRoom(mbox, MBOX_SIZE)
  PROVE  Append(mbox, x) \in Seq(Mail) /\ Len(Append(mbox, x)) <= MBOX_SIZE
BY AppendFacts, SizeAssumption DEF TypeOK, HasRoom

LEMMA QueueType ==
  ASSUME TypeOK, NEW x \in Message, HasRoom(queue, QUEUE_LEN)
  PROVE  Append(queue, x) \in Seq(Message) /\ Len(Append(queue, x)) <= QUEUE_LEN
BY AppendFacts, SizeAssumption DEF TypeOK, HasRoom

\* What DHCP does keeps types, whatever is left in the mailbox.
LEMMA ReceivesType ==
  ASSUME TypeOK, NEW reply, NEW mails \in Seq(Mail), Len(mails) <= MBOX_SIZE,
         Receives(reply, mails), UNCHANGED <<wlan, server, queue, ctl, waits, told, link, up>>
  PROVE  TypeOK'
<1>1. Expired(mails) \in Seq(Mail) /\ Len(Expired(mails)) <= MBOX_SIZE
  BY ExpiredFacts
<1>2. mbox' \in Seq(Mail) /\ Len(mbox') <= MBOX_SIZE
  BY <1>1 DEF Receives, Ask, Bind, Begin
<1>3. job' \in Job /\ at' \in {"flag", "post", "rest"}
  BY DEF Receives, Ask, Bind, Begin, thread, TypeOK, Job
<1>4. ip' \in Address \cup {NoAddress} /\ offered' \in Address \cup {NoAddress} /\ dhcp' \in State
  BY DEF Receives, Ask, Bind, Begin, thread, client, TypeOK, State, Stopped, Leased
<1>5. QED
  BY <1>2, <1>3, <1>4 DEF TypeOK

LEMMA ServeType ==
  ASSUME TypeOK, NEW request, ctl = request, NEW mails \in Seq(Mail), Len(mails) <= MBOX_SIZE,
         Serve(request, mails), UNCHANGED <<wlan, server, queue>>
  PROVE  TypeOK'
<1>1. Expired(mails) \in Seq(Mail) /\ Len(Expired(mails)) <= MBOX_SIZE
  BY ExpiredFacts
<1>2. mbox' \in Seq(Mail) /\ Len(mbox') <= MBOX_SIZE
  BY <1>1 DEF Serve, Discover, Ask, GiveUp, Begin
<1>3. job' \in Job /\ at' \in {"flag", "post", "rest"}
  BY DEF Serve, Discover, Ask, GiveUp, Begin, thread, TypeOK, Job
<1>4. /\ ip' \in Address \cup {NoAddress} /\ offered' \in Address \cup {NoAddress} /\ dhcp' \in State
      /\ link' \in BOOLEAN /\ up' \in BOOLEAN /\ told' \in Address \cup {NoAddress}
  BY DEF Serve, Discover, Ask, GiveUp, Begin, Done, thread, client, interface, control, TypeOK, State, Stopped, Leased
<1>5. ctl' \in Place /\ waits' \in BOOLEAN
  <2>1. Following(ctl) \in Place
    BY DEF Serve, Following, Place, Request
  <2>2. QED
    BY <2>1 DEF Serve, Done, control, TypeOK
<1>6. QED
  BY <1>2, <1>3, <1>4, <1>5 DEF TypeOK

\* A request that is taken from the mailbox is the one the control task waits
\* for, and no other is left.
LEMMA FetchedRequest ==
  ASSUME TypeOK, RequestInv, job = "none", mbox # <<>>
  PROVE  /\ Head(mbox) \in Request =>
              waits /\ ctl = Head(mbox) /\ HoldsNone(Tail(mbox))
         /\ Head(mbox) \notin Request =>
              IF waits THEN Holds(Tail(mbox), ctl) ELSE HoldsNone(Tail(mbox))
         /\ Tail(mbox) \in Seq(Mail) /\ Len(Tail(mbox)) <= MBOX_SIZE
<1>1. mbox \in Seq(Mail) /\ Len(mbox) <= MBOX_SIZE
  BY DEF TypeOK
<1>2. Tail(mbox) \in Seq(Mail) /\ Len(Tail(mbox)) <= MBOX_SIZE
  BY <1>1, TailFacts, SizeAssumption
<1>3. CASE waits
  <2>1. ctl \in Request /\ Holds(mbox, ctl)
    BY <1>3 DEF RequestInv
  <2>2. QED
    BY <1>1, <1>2, <1>3, <2>1, TailRequest
<1>4. CASE ~waits
  <2>1. HoldsNone(mbox) /\ "start" \in Request
    BY <1>4 DEF RequestInv, Request
  <2>2. HoldsNone(Tail(mbox)) /\ Head(mbox) \notin Request
    BY <1>1, <2>1, TailRequest
  <2>3. QED
    BY <1>2, <1>4, <2>2
<1>5. QED
  BY <1>3, <1>4

\* Every step keeps the types.
LEMMA TypeStep ==
  ASSUME TypeOK, RequestInv, [Next]_vars
  PROVE  TypeOK'
<1>m. mbox \in Seq(Mail) /\ Len(mbox) <= MBOX_SIZE /\ queue \in Seq(Message)
  BY DEF TypeOK
<1>e. Expired(mbox) \in Seq(Mail) /\ Len(Expired(mbox)) <= MBOX_SIZE
  BY <1>m, ExpiredFacts
<1> USE DEF events, control, thread, interface, client
<1>1. CASE WlanEvent
  BY <1>1 DEF WlanEvent, TypeOK, Event
<1>2. CASE PostEvent
  <2>1. server \in Message
    BY <1>2 DEF PostEvent, TypeOK, Message
  <2>2. queue' \in Seq(Message) /\ Len(queue') <= QUEUE_LEN
    BY <1>2, <2>1, QueueType DEF PostEvent
  <2>3. QED
    BY <1>2, <2>2 DEF PostEvent, TypeOK
<1>3. CASE Receive
  <2>1. queue' \in Seq(Message) /\ Len(queue') <= QUEUE_LEN
    BY <1>3, <1>m, TailFacts, SizeAssumption DEF Receive, TypeOK
  <2>2. ctl' \in Place
    BY <1>3 DEF Receive, Goto, Place
  <2>3. QED
    BY <1>3, <2>1, <2>2 DEF Receive, Goto, TypeOK
<1>4. CASE PostLink
  <2>1. ctl \in Mail /\ ctl' \in Place
    BY <1>4 DEF PostLink, Goto, Mail, Place
  <2>2. mbox' \in Seq(Mail) /\ Len(mbox') <= MBOX_SIZE
    BY <1>4, <2>1, MailboxType DEF PostLink
  <2>3. QED
    BY <1>4, <2>1, <2>2 DEF PostLink, Goto, TypeOK
<1>5. CASE BringUp \/ IfStarted \/ BringDown
  <2>1. ctl' \in Place
    BY <1>5 DEF BringUp, IfStarted, BringDown, Goto, Place, Request
  <2>2. QED
    BY <1>5, <2>1 DEF BringUp, IfStarted, BringDown, Goto, TypeOK
<1>6. CASE PostRequest
  <2>1. ctl \in Mail
    BY <1>6 DEF PostRequest, Mail
  <2>2. mbox' \in Seq(Mail) /\ Len(mbox') <= MBOX_SIZE
    BY <1>6, <2>1, MailboxType DEF PostRequest
  <2>3. QED
    BY <1>6, <2>2 DEF PostRequest, TypeOK
<1>7. CASE Tell
  BY <1>7 DEF Tell, TypeOK, Place
<1>8. CASE Timer
  <2>1. mbox' \in Seq(Mail) /\ Len(mbox') <= MBOX_SIZE
    BY <1>8, <1>m, <1>e DEF Timer, RequestTimeout, LeaseTimeout, Discover, Ask, GiveUp, Bind
  <2>2. job' \in Job /\ at' \in {"flag", "post", "rest"}
    BY <1>8 DEF Timer, RequestTimeout, LeaseTimeout, Begin, GiveUp, Bind, TypeOK, Job
  <2>3. /\ ip' \in Address \cup {NoAddress} /\ offered' \in Address \cup {NoAddress}
        /\ dhcp' \in State
    BY <1>8 DEF Timer, RequestTimeout, LeaseTimeout, Discover, Ask, GiveUp, Bind, TypeOK, State, Stopped, Leased
  <2>4. link' = link /\ up' = up
    BY <1>8 DEF Timer, RequestTimeout, LeaseTimeout
  <2>5. QED
    BY <1>8, <2>1, <2>2, <2>3, <2>4 DEF Timer, TypeOK
<1>9. ASSUME NEW reply \in Reply \cup {"arp"}, Arrive(reply) PROVE TypeOK'
  <2>1. mbox' \in Seq(Mail) /\ Len(mbox') <= MBOX_SIZE
    BY <1>9, MailboxType DEF Arrive, Mail
  <2>2. QED
    BY <1>9, <2>1 DEF Arrive, TypeOK
<1>10. CASE Fetch
  <2> DEFINE mail == Head(mbox)
             rest == Tail(mbox)
  <2>1. /\ rest \in Seq(Mail) /\ Len(rest) <= MBOX_SIZE
        /\ mail \in Request => ctl = mail
        /\ UNCHANGED <<wlan, server, queue>>
    BY <1>10, FetchedRequest DEF Fetch
  <2>e. Expired(rest) \in Seq(Mail) /\ Len(Expired(rest)) <= MBOX_SIZE
    BY <2>1, ExpiredFacts
  <2>2. CASE LinkUp(rest)
    <3>1. mbox' \in Seq(Mail) /\ Len(mbox') <= MBOX_SIZE
      BY <2>1, <2>2, <2>e DEF LinkUp, NetworkChanged, Discover, Ask
    <3>2. /\ job' \in Job /\ at' \in {"flag", "post", "rest"} /\ dhcp' \in State
          /\ offered' \in Address \cup {NoAddress}
      BY <2>2 DEF LinkUp, NetworkChanged, Discover, Ask, Begin, TypeOK, Job, State
    <3>3. QED
      BY <2>1, <2>2, <3>1, <3>2 DEF LinkUp, TypeOK
  <2>3. CASE LinkDown(rest)
    BY <2>1, <2>3 DEF LinkDown, TypeOK
  <2>4. CASE Serve(mail, rest)
    <3>1. ctl = mail
      BY <2>1, <2>4 DEF Serve, Request
    <3>2. QED
      BY <2>1, <2>4, <3>1, ServeType
  <2>5. CASE Receives(mail, rest) /\ UNCHANGED <<control, link, up>>
    BY <2>1, <2>5, ReceivesType
  <2>6. CASE mbox' = rest /\ UNCHANGED <<control, thread, interface, client>>
    BY <2>1, <2>6 DEF TypeOK
  <2>7. QED
    BY <1>10, <2>2, <2>3, <2>4, <2>5, <2>6 DEF Fetch
<1>11. CASE Flag
  BY <1>11 DEF Flag, TypeOK
<1>12. CASE PostStatus
  <2>1. queue' \in Seq(Message) /\ Len(queue') <= QUEUE_LEN
    BY <1>12, QueueType DEF PostStatus, Message
  <2>2. QED
    BY <1>12, <2>1 DEF PostStatus, TypeOK
<1>13. CASE Finish
  <2>1. mbox' \in Seq(Mail) /\ Len(mbox') <= MBOX_SIZE
    BY <1>13, <1>m, <1>e DEF Finish, Discover, Ask
  <2>2. ctl' \in Place /\ waits' \in BOOLEAN /\ told' = told
    <3>1. job \in {"release", "set_down"} => Following(ctl) \in Place
      BY DEF RequestInv, Following, Place, Request
    <3>2. QED
      BY <1>13, <3>1 DEF Finish, Done, TypeOK
  <2>3. /\ ip' \in Address \cup {NoAddress} /\ offered' \in Address \cup {NoAddress}
        /\ dhcp' \in State
    BY <1>13 DEF Finish, Discover, Ask, TypeOK, State, Leased
  <2>4. QED
    BY <1>13, <2>1, <2>2, <2>3 DEF Finish, Begin, TypeOK, Job
<1>14. CASE UNCHANGED vars
  BY <1>14 DEF vars, TypeOK
<1>15. QED
  BY <1>1, <1>2, <1>3, <1>4, <1>5, <1>6, <1>7, <1>8, <1>9, <1>10, <1>11, <1>12, <1>13, <1>14
     DEF Next, Control, Work
-----------------------------------------------------------------------------
(* Requests.                                                               *)

\* Whatever DHCP does to the mailbox, its requests stay.
LEMMA SameRequests ==
  ASSUME NEW s \in Seq(Mail), mbox' \in {s, Expired(s)}
  PROVE  /\ HoldsNone(s) => HoldsNone(mbox')
         /\ \A r \in Request : Holds(s, r) => Holds(mbox', r)
<1>1. "start" \in Request
  BY DEF Request
<1>2. QED
  BY <1>1, ExpiredRequest

\* Every step keeps a request in the mailbox while the control task waits for
\* it, and only then.
LEMMA RequestStep ==
  ASSUME TypeOK, RequestInv, [Next]_vars
  PROVE  RequestInv'
<1>m. mbox \in Seq(Mail)
  BY DEF TypeOK
<1>n. ctl \notin Request => ~waits /\ job \notin {"release", "set_down"} /\ HoldsNone(mbox)
  BY DEF RequestInv, Request
<1> USE DEF events, control, thread, interface, client
<1>1. CASE WlanEvent \/ PostEvent
  BY <1>1 DEF WlanEvent, PostEvent, RequestInv
<1>2. CASE Receive
  <2>1. ctl \notin Request /\ UNCHANGED <<waits, job, mbox>>
    BY <1>2 DEF Receive, Goto, Request
  <2>2. QED
    BY <1>n, <2>1 DEF RequestInv
<1>3. CASE PostLink
  <2>1. ctl \notin Request /\ ctl \in Mail /\ mbox' = Append(mbox, ctl) /\ UNCHANGED <<waits, job>>
    BY <1>3 DEF PostLink, Goto, Request, Mail
  <2>2. HoldsNone(mbox')
    <3>1. "start" \in Request
      BY DEF Request
    <3>2. QED
      BY <1>m, <1>n, <2>1, <3>1, AppendRequest
  <2>3. QED
    BY <1>n, <2>1, <2>2 DEF RequestInv
<1>4. CASE BringUp \/ IfStarted \/ BringDown \/ Tell
  <2>1. ctl \notin Request /\ UNCHANGED <<waits, job, mbox>>
    BY <1>4 DEF BringUp, IfStarted, BringDown, Tell, Goto, Request
  <2>2. QED
    BY <1>n, <2>1 DEF RequestInv
<1>5. CASE PostRequest
  <2>1. ctl \in Request /\ ~waits /\ HoldsNone(mbox) /\ job \notin {"release", "set_down"}
    BY <1>5 DEF PostRequest, RequestInv
  <2>2. Holds(mbox', ctl)
    BY <1>5, <1>m, <2>1, AppendRequest DEF PostRequest, Mail
  <2>3. QED
    BY <1>5, <2>1, <2>2 DEF PostRequest, RequestInv
<1>6. CASE Timer
  <2>1. UNCHANGED <<ctl, waits>> /\ job = "none" /\ job' \in {"none", "restart", "bind"}
        /\ mbox' \in {mbox, Expired(mbox)}
    BY <1>6 DEF Timer, RequestTimeout, LeaseTimeout, Discover, Ask, GiveUp, Bind, Begin
  <2>2. QED
    BY <1>m, <2>1, SameRequests DEF RequestInv
<1>7. ASSUME NEW reply \in Reply \cup {"arp"}, Arrive(reply) PROVE RequestInv'
  <2>1. reply \in Mail /\ reply \notin Request /\ mbox' = Append(mbox, reply)
        /\ UNCHANGED <<ctl, waits, job>> /\ "start" \in Request
    BY <1>7 DEF Arrive, Mail, Reply, Request
  <2>2. HoldsNone(mbox) => HoldsNone(mbox')
    BY <1>m, <2>1, AppendRequest
  <2>3. \A r \in Request : Holds(mbox, r) => Holds(mbox', r)
    BY <1>m, <2>1, AppendRequest
  <2>4. QED
    BY <2>1, <2>2, <2>3 DEF RequestInv
<1>8. CASE Fetch
  <2> DEFINE mail == Head(mbox)
             rest == Tail(mbox)
  <2>1. /\ job = "none" /\ rest \in Seq(Mail)
        /\ mail \in Request => waits /\ ctl = mail /\ HoldsNone(rest)
        /\ mail \notin Request =>
              IF waits THEN Holds(rest, ctl) ELSE HoldsNone(rest)
        /\ waits => ctl \in Request
    BY <1>8, FetchedRequest DEF Fetch, RequestInv
  <2>2. CASE Serve(mail, rest)
    <3>1. mail \in Request /\ mbox' \in {rest, Expired(rest)}
      BY <2>2 DEF Serve, Discover, Ask, GiveUp, Request
    <3>2. waits /\ ctl = mail /\ HoldsNone(mbox')
      BY <2>1, <3>1, SameRequests
    <3>3. \/ waits' = FALSE /\ job' = "none"
          \/ UNCHANGED <<waits, ctl>> /\ job' = ctl /\ job' \in {"release", "set_down"}
      BY <2>1, <2>2, <3>2 DEF Serve, Done, GiveUp, Begin
    <3>4. QED
      BY <3>1, <3>2, <3>3 DEF RequestInv
  <2>3. CASE ~Serve(mail, rest)
    <3>1. /\ mail \notin Request /\ UNCHANGED <<ctl, waits>>
          /\ job' \notin {"release", "set_down"} /\ mbox' \in {rest, Expired(rest)}
      BY <1>8, <2>1, <2>3 DEF Fetch, LinkUp, LinkDown, NetworkChanged, Receives, Heeded,
           Ignored, Discover, Ask, Bind, Begin, Request, Reply
    <3>2. QED
      BY <2>1, <3>1, SameRequests DEF RequestInv
  <2>4. QED
    BY <2>2, <2>3
<1>9. CASE Flag \/ PostStatus
  BY <1>9 DEF Flag, PostStatus, RequestInv
<1>10. CASE Finish
  <2>1. mbox' \in {mbox, Expired(mbox)} /\ job' = "none"
    BY <1>10 DEF Finish, Discover, Ask, Begin
  <2>2. CASE job \in {"release", "set_down"}
    <3>1. HoldsNone(mbox') /\ waits' = FALSE
      BY <1>10, <1>m, <2>1, <2>2, SameRequests DEF RequestInv, Finish, Done
    <3>2. QED
      BY <2>1, <3>1 DEF RequestInv
  <2>3. CASE job \notin {"release", "set_down"}
    <3>1. UNCHANGED <<ctl, waits>>
      BY <1>10, <2>3 DEF Finish
    <3>2. QED
      BY <1>m, <2>1, <2>3, <3>1, SameRequests DEF RequestInv
  <2>4. QED
    BY <2>2, <2>3
<1>11. CASE UNCHANGED vars
  BY <1>11 DEF vars, RequestInv
<1>12. QED
  BY <1>1, <1>2, <1>3, <1>4, <1>5, <1>6, <1>7, <1>8, <1>9, <1>10, <1>11 DEF Next, Control, Work
-----------------------------------------------------------------------------
(* Jobs of the TCP/IP thread.                                              *)

\* Whoever is neither the TCP/IP thread nor a server of DHCP leaves the job,
\* the interface and the state of DHCP alone.
LEMMA OthersLeaveAlone ==
  ASSUME WlanEvent \/ PostEvent \/ Control
         \/ \E reply \in Reply \cup {"arp"} : Arrive(reply)
  PROVE  UNCHANGED <<job, at, link, up, ip, dhcp, offered>>
BY DEF WlanEvent, PostEvent, Control, Receive, PostLink, BringUp, IfStarted, BringDown,
   PostRequest, Tell, Arrive, Goto, thread, interface, client

\* The cases of a message that is taken from the mailbox.
LEMMA FetchCases ==
  ASSUME Fetch, TypeOK, RequestInv
  PROVE  /\ job = "none" /\ UNCHANGED <<queue, up>>
         /\ \/ UNCHANGED <<job, at, ip, dhcp, offered>> /\ ctl' = ctl /\ told' = told
            \/ /\ UNCHANGED <<ip, ctl, waits, told>>
               /\ \/ /\ dhcp \in Leased /\ job' = "changed" /\ at' = "flag"
                     /\ UNCHANGED <<dhcp, offered>>
                  \/ /\ dhcp \notin Stopped \cup Leased /\ dhcp' = "SELECTING"
                     /\ offered' = NoAddress /\ UNCHANGED <<job, at>>
            \/ /\ ctl = "start" /\ ctl' = "receive" /\ dhcp' = "SELECTING"
               /\ UNCHANGED <<job, at, ip, told>>
            \/ /\ ctl = "release" /\ job' = "release" /\ at' = "flag" /\ dhcp' = "OFF"
               /\ UNCHANGED <<ip, ctl, told>>
            \/ /\ ctl = "set_down" /\ job' = "set_down" /\ at' = "flag"
               /\ UNCHANGED <<ip, dhcp, offered, ctl, told>>
            \/ /\ ctl = "set_addr" /\ ctl' = "stop" /\ ip' = NoAddress
               /\ UNCHANGED <<job, at, dhcp, offered, told>>
            \/ /\ ctl = "stop" /\ waits /\ ctl' = "receive" /\ dhcp' = "OFF"
               /\ UNCHANGED <<job, at, ip, offered, told>>
            \/ /\ Head(mbox) \in Reply \cup {"arp"} /\ UNCHANGED <<ctl, waits, told>>
               /\ Receives(Head(mbox), Tail(mbox))
<1> DEFINE mail == Head(mbox)
           rest == Tail(mbox)
<1>1. /\ job = "none" /\ UNCHANGED <<queue, up>>
      /\ mail \in Request => ctl = mail /\ waits
  BY FetchedRequest DEF Fetch, LinkUp, LinkDown, Serve, GiveUp, Done, interface
<1> USE DEF control, thread, interface, client
<1>2. CASE mail = "link_up" /\ LinkUp(rest)
  BY <1>1, <1>2 DEF LinkUp, NetworkChanged, Begin, Discover, Ask
<1>3. CASE mail = "link_down" /\ LinkDown(rest)
  BY <1>1, <1>3 DEF LinkDown
<1>4. CASE Serve(mail, rest)
  <2>1. ctl = mail /\ waits
    BY <1>1, <1>4 DEF Serve, Request
  <2>2. QED
    BY <1>1, <1>4, <2>1 DEF Serve, Discover, Ask, GiveUp, Begin, Done, Following
<1>5. CASE Receives(mail, rest) /\ UNCHANGED <<control, link, up>>
  <2>1. mail \in Reply \cup {"arp"}
    BY <1>5 DEF Receives, Heeded, Reply
  <2>2. QED
    BY <1>1, <1>5, <2>1
<1>6. CASE UNCHANGED <<control, thread, interface, client>>
  BY <1>1, <1>6
<1>7. QED
  BY <1>2, <1>3, <1>4, <1>5, <1>6 DEF Fetch

\* The cases of a reply.
LEMMA ReplyCases ==
  ASSUME TypeOK, NEW reply, NEW mails, Receives(reply, mails)
  PROVE  \/ /\ dhcp \in {"SELECTING", "REQUESTING"} /\ dhcp' \in {"REQUESTING", "CHECKING"}
            /\ UNCHANGED <<job, at, ip>>
         \/ /\ dhcp \in {"REBOOTING", "REBINDING", "RENEWING"} /\ job' = "bind" /\ at' = "flag"
            /\ ip' = offered /\ UNCHANGED <<dhcp, offered>>
         \/ /\ dhcp \in {"REQUESTING", "RENEWING", "REBINDING", "REBOOTING"}
            /\ job' = "nak" /\ at' = "flag" /\ UNCHANGED <<dhcp, offered, ip>>
         \/ dhcp = "CHECKING" /\ dhcp' = "BACKING_OFF" /\ UNCHANGED <<job, at, ip, offered>>
BY DEF Receives, Heeded, Ask, Bind, Begin, thread, client

\* The cases of a timer.
LEMMA TimerCases ==
  ASSUME Timer
  PROVE  /\ job = "none" /\ UNCHANGED <<queue, ctl, waits, told, link, up>>
         /\ \/ /\ dhcp \in {"BACKING_OFF", "REBOOTING"} /\ dhcp' = "SELECTING"
               /\ offered' = NoAddress /\ UNCHANGED <<job, at, ip>>
            \/ /\ dhcp \in {"REQUESTING", "REBINDING"} /\ job' = "restart" /\ at' = "flag"
               /\ dhcp' = "OFF" /\ UNCHANGED ip
            \/ /\ dhcp = "CHECKING" /\ job' = "bind" /\ at' = "flag" /\ ip' = offered
               /\ UNCHANGED <<dhcp, offered>>
            \/ /\ dhcp \in {"REQUESTING", "BOUND", "RENEWING"}
               /\ dhcp' \in {"RENEWING", "REBINDING"} /\ UNCHANGED <<job, at, ip, offered>>
BY DEF Timer, RequestTimeout, LeaseTimeout, Discover, Ask, GiveUp, Bind, Begin,
   control, thread, interface, client

\* The cases of the end of a job.
LEMMA FinishCases ==
  ASSUME Finish, RequestInv
  PROVE  /\ at = "rest" /\ job' = "none" /\ at' = "flag" /\ UNCHANGED <<queue, link, up, told>>
         /\ \/ job = "bind" /\ dhcp' = "BOUND" /\ UNCHANGED <<ip, offered, ctl>>
            \/ job = "changed" /\ dhcp' = "REBOOTING" /\ UNCHANGED <<ip, offered, ctl>>
            \/ /\ job \in {"restart", "nak"} /\ dhcp' = "SELECTING" /\ ip' = NoAddress
               /\ offered' = NoAddress /\ UNCHANGED ctl
            \/ /\ job = "release" /\ ip' = NoAddress /\ ctl' = "stop"
               /\ UNCHANGED <<dhcp, offered>>
            \/ /\ job = "set_down" /\ ctl' = "set_addr" /\ UNCHANGED <<ip, dhcp, offered>>
BY DEF Finish, RequestInv, Discover, Ask, Begin, Done, Following, control, client

\* Every step keeps what is known of a job.
LEMMA JobStep ==
  ASSUME TypeOK, RequestInv, JobInv, [Next]_vars
  PROVE  JobInv'
<1>1. CASE WlanEvent \/ PostEvent \/ Control \/ \E reply \in Reply \cup {"arp"} : Arrive(reply)
  BY <1>1, OthersLeaveAlone DEF JobInv
<1>2. CASE Timer
  BY <1>2, TimerCases DEF JobInv, Stopped
<1>3. CASE Fetch
  <2>1. CASE Receives(Head(mbox), Tail(mbox))
    BY <1>3, <2>1, FetchCases, ReplyCases DEF JobInv, Stopped
  <2>2. CASE ~Receives(Head(mbox), Tail(mbox))
    BY <1>3, <2>2, FetchCases DEF JobInv, Stopped, Leased
  <2>3. QED
    BY <2>1, <2>2
<1>4. CASE Flag
  BY <1>4 DEF Flag, JobInv, TypeOK, interface, client
<1>5. CASE PostStatus
  BY <1>5 DEF PostStatus, JobInv, interface, client
<1>6. CASE Finish
  BY <1>6, FinishCases DEF JobInv, Stopped
<1>7. CASE UNCHANGED vars
  BY <1>7 DEF vars, thread, interface, client, JobInv
<1>8. QED
  BY <1>1, <1>2, <1>3, <1>4, <1>5, <1>6, <1>7 DEF Next, Work
-----------------------------------------------------------------------------
(* Leases.                                                                 *)

\* The queue only loses its head, and only to the control task.
LEMMA QueueSteps ==
  ASSUME TypeOK, [Next]_vars
  PROVE  /\ ~Receive /\ In("NETWORK_UP", queue) => In("NETWORK_UP", queue')
         /\ Receive /\ In("NETWORK_UP", queue) =>
              In("NETWORK_UP", queue') \/ ctl' = "tell"
<1>m. queue \in Seq(Message)
  BY DEF TypeOK
<1>1. CASE PostEvent
  <2>1. server \in Message
    BY <1>1 DEF PostEvent, TypeOK, Message
  <2>2. QED
    BY <1>1, <1>m, <2>1, InAppend DEF PostEvent, Receive, control
<1>2. CASE PostStatus
  <2>1. queue' = Append(queue, "NETWORK_UP") \/ queue' = Append(queue, "NETWORK_DOWN")
    BY <1>2 DEF PostStatus
  <2>2. "NETWORK_UP" \in Message /\ "NETWORK_DOWN" \in Message
    BY DEF Message
  <2>3. In("NETWORK_UP", queue) => In("NETWORK_UP", queue')
    BY <1>m, <2>1, <2>2, InAppend
  <2>4. ~Receive
    BY <1>2 DEF PostStatus, ControlBlocked, Receive, Request
  <2>5. QED
    BY <2>3, <2>4
<1>3. CASE Receive
  <2>1. ASSUME In("NETWORK_UP", queue), Head(queue) # "NETWORK_UP"
        PROVE In("NETWORK_UP", queue')
    BY <1>3, <1>m, <2>1, InTail DEF Receive
  <2>2. ASSUME Head(queue) = "NETWORK_UP" PROVE ctl' = "tell"
    BY <1>3, <2>2 DEF Receive, Goto
  <2>3. QED
    BY <1>3, <2>1, <2>2
<1>4. CASE ~PostEvent /\ ~PostStatus /\ ~Receive
  <2>1. queue' = queue
    BY <1>4 DEF Next, Control, Work, WlanEvent, PostLink, BringUp, IfStarted, BringDown,
       PostRequest, Tell, Timer, Fetch, Flag, Finish, Arrive, vars
  <2>2. QED
    BY <1>4, <2>1
<1>5. QED
  BY <1>1, <1>2, <1>3, <1>4

\* Where the steps of the control task lead.
LEMMA ControlPlaces ==
  ASSUME Control
  PROVE  /\ ctl' # ctl => ctl \notin Request /\ ctl' \notin {"set_addr", "stop"}
         /\ ctl \in Request => ~Receive /\ UNCHANGED queue
         /\ ctl' = "start" => ctl = "start" \/ BringUp
BY DEF Control, Receive, PostLink, BringUp, IfStarted, BringDown, PostRequest, Tell, Goto, Request

\* Every step keeps what is known of leases.
LEMMA LeaseStep ==
  ASSUME NetInv, [Next]_vars
  PROVE  LeaseInv'
<1>i. TypeOK /\ RequestInv /\ JobInv /\ LeaseInv /\ StartInv
  BY DEF NetInv
<1>1. CASE WlanEvent \/ PostEvent \/ \E reply \in Reply \cup {"arp"} : Arrive(reply)
  <2>1. UNCHANGED <<job, at, up, ip, dhcp, offered, ctl>> /\ ~Receive
    BY <1>1, OthersLeaveAlone DEF WlanEvent, PostEvent, Arrive, control, Receive, ControlBlocked
  <2>2. QED
    BY <1>i, <2>1, QueueSteps DEF LeaseInv
<1>2. CASE Control
  <2>1. UNCHANGED <<job, at, up, ip, dhcp, offered>>
    BY <1>2, OthersLeaveAlone
  <2>2. /\ ctl \in {"set_addr", "stop"} => UNCHANGED <<ctl, queue>>
        /\ ctl \notin {"set_addr", "stop"} => ctl' \notin {"set_addr", "stop"}
    BY <1>2, ControlPlaces DEF Request
  <2>3. QED
    BY <1>i, <2>1, <2>2 DEF LeaseInv
<1>3. CASE Timer
  BY <1>3, <1>i, TimerCases DEF LeaseInv, Stopped
<1>4. CASE Fetch
  <2>1. CASE Receives(Head(mbox), Tail(mbox))
    BY <1>4, <1>i, <2>1, FetchCases, ReplyCases DEF LeaseInv, Stopped
  <2>2. CASE ~Receives(Head(mbox), Tail(mbox))
    BY <1>4, <1>i, <2>2, FetchCases DEF LeaseInv, StartInv, Stopped, Leased
  <2>3. QED
    BY <2>1, <2>2
<1>5. CASE Flag
  BY <1>5, <1>i DEF Flag, LeaseInv, JobInv, TypeOK, interface, client, control
<1>6. CASE PostStatus
  <2>1. UNCHANGED <<job, up, ip, dhcp, offered, ctl>> /\ job # "none" /\ at = "post"
    BY <1>6 DEF PostStatus, interface, client, control
  <2>2. ~Receive
    BY <1>6 DEF PostStatus, ControlBlocked, Receive, Request
  <2>3. up /\ job = "bind" => In("NETWORK_UP", queue')
    <3>1. up => queue' = Append(queue, "NETWORK_UP")
      BY <1>6 DEF PostStatus
    <3>2. queue \in Seq(Message) /\ "NETWORK_UP" \in Message
      BY <1>i DEF TypeOK, Message
    <3>3. QED
      BY <3>1, <3>2, InAppend
  <2>4. QED
    BY <1>i, <2>1, <2>2, <2>3, QueueSteps DEF LeaseInv
<1>7. CASE Finish
  BY <1>7, <1>i, FinishCases DEF LeaseInv, JobInv, Stopped
<1>8. CASE UNCHANGED vars
  BY <1>8, <1>i DEF vars, thread, interface, client, control, LeaseInv
<1>9. QED
  BY <1>1, <1>2, <1>3, <1>4, <1>5, <1>6, <1>7, <1>8 DEF Next, Work
-----------------------------------------------------------------------------
(* Starting DHCP.                                                          *)

\* Every step keeps the interface down while DHCP is being started over it.
LEMMA StartStep ==
  ASSUME NetInv, [Next]_vars
  PROVE  StartInv'
<1>i. TypeOK /\ RequestInv /\ JobInv /\ LeaseInv /\ StartInv /\ mbox \in Seq(Mail)
  BY DEF NetInv, TypeOK
<1>s. SUFFICES ASSUME ctl' = "start" PROVE StartInv'
  BY DEF StartInv
<1>r. "start" \in Request /\ {"link_up", "link_down", "stale", "arp"} \cap (Request \cup Reply) = {}
      /\ Request \cap Reply = {}
  BY DEF Request, Reply
<1>1. CASE WlanEvent \/ PostEvent
  BY <1>1, <1>i, OthersLeaveAlone DEF WlanEvent, PostEvent, control, StartInv
<1>2. CASE BringUp
  <2>1. /\ ~up /\ dhcp \in Stopped /\ ctl = "bring_up"
        /\ UNCHANGED <<job, up, dhcp>>
    BY <1>s, <1>2 DEF BringUp, Goto, thread, interface, client
  <2>2. job \in {"none", "restart"}
    <3>1. job \notin {"release", "set_down"}
      BY <1>i, <2>1 DEF RequestInv
    <3>2. job \notin {"nak", "changed", "bind"}
      BY <1>i, <2>1 DEF JobInv, Stopped, Leased
    <3>3. QED
      BY <1>i, <3>1, <3>2 DEF TypeOK, Job
  <2>3. QED
    BY <2>1, <2>2 DEF StartInv, Stopped
<1>3. CASE Control /\ ~BringUp
  <2>1. ctl = "start" /\ ~up /\ dhcp \in Stopped \cup {"SELECTING"} /\ job \in {"none", "restart"}
        /\ UNCHANGED <<job, up, dhcp>>
    BY <1>s, <1>i, <1>3, ControlPlaces, OthersLeaveAlone DEF StartInv
  <2>2. PostRequest
    BY <1>3, <2>1 DEF Control, Receive, PostLink, IfStarted, BringDown, Tell
  <2>3. ASSUME StartFirst(mbox) PROVE StartFirst(mbox')
    BY <1>i, <1>r, <2>1, <2>2, <2>3, AppendStart DEF PostRequest, Mail
  <2>4. QED
    BY <1>i, <2>1, <2>3 DEF StartInv
<1>4. ASSUME NEW reply \in Reply \cup {"arp"}, Arrive(reply) PROVE StartInv'
  <2>1. /\ ctl = "start" /\ UNCHANGED <<job, up, dhcp>>
        /\ reply \in Mail /\ mbox' = Append(mbox, reply) /\ HasRoom(mbox, MBOX_SIZE)
    BY <1>s, <1>4, OthersLeaveAlone DEF Arrive, control, Mail
  <2>2. waits /\ job \notin {"release", "set_down"}
    BY <1>4, <1>i, <2>1 DEF Arrive, ControlBlocked, StartInv
  <2>3. Holds(mbox, "start")
    BY <1>i, <2>1, <2>2 DEF RequestInv
  <2>4. ASSUME StartFirst(mbox) PROVE StartFirst(mbox')
    BY <1>i, <2>1, <2>3, <2>4, AppendStart
  <2>5. QED
    BY <1>i, <2>1, <2>4 DEF StartInv
<1>5. CASE Timer
  <2>1. ctl = "start"
    BY <1>s, <1>5, TimerCases
  <2>2. QED
    BY <1>5, <1>i, <2>1, TimerCases DEF StartInv, Stopped
<1>6. CASE Fetch
  <2> DEFINE mail == Head(mbox)
             rest == Tail(mbox)
  <2>1. ctl = "start" /\ mail # "start"
    <3>1. ctl = "start"
      BY <1>s, <1>6, <1>i, FetchCases
    <3>2. ASSUME mail = "start" PROVE Serve("start", rest)
      BY <1>6, <3>2 DEF Fetch, Receives, Heeded, Ignored, Reply
    <3>3. Serve("start", rest) => Done
      BY DEF Serve
    <3>4. Done => ctl' = "receive"
      BY <3>1 DEF Done, Following
    <3>5. QED
      BY <1>s, <3>1, <3>2, <3>3, <3>4
  <2>2. /\ mail \notin Request /\ rest \in Seq(Mail) /\ mbox # <<>> /\ job = "none"
        /\ UNCHANGED up
    BY <1>6, <1>i, <2>1, FetchedRequest, FetchCases DEF Fetch
  <2>3. ~up /\ dhcp \in Stopped \cup {"SELECTING"}
        /\ (dhcp = "SELECTING" => StartFirst(mbox))
    BY <1>i, <2>1 DEF StartInv
  <2>4. dhcp = "SELECTING" => mail \notin Reply /\ StartFirst(rest)
    BY <1>i, <2>1, <2>2, <2>3, TailStart
  <2>5. ~Receives(mail, rest)
    BY <2>3, <2>4 DEF Receives, Heeded, Stopped, Reply
  <2>6. CASE LinkUp(rest)
    <3>1. CASE dhcp \in Stopped
      BY <2>2, <2>3, <2>6, <3>1 DEF LinkUp, NetworkChanged, StartInv, thread, client, Stopped, Leased
    <3>2. CASE dhcp = "SELECTING"
      <4>1. mbox' = Expired(rest) /\ dhcp' = "SELECTING" /\ UNCHANGED <<job, up>>
        BY <2>6, <3>2 DEF LinkUp, NetworkChanged, Discover, Ask, thread, Stopped, Leased
      <4>2. StartFirst(Expired(rest))
        BY <2>2, ExpiredStart
      <4>3. QED
        BY <2>2, <2>3, <4>1, <4>2 DEF StartInv, StartFirst
    <3>3. QED
      BY <2>3, <3>1, <3>2
  <2>7. CASE mbox' = rest /\ UNCHANGED <<thread, client>>
    BY <2>2, <2>3, <2>4, <2>7 DEF StartInv, thread, client
  <2>8. QED
    BY <1>6, <2>2, <2>5, <2>6, <2>7 DEF Fetch, LinkDown, Serve, Request
<1>7. CASE Flag \/ PostStatus
  BY <1>7, <1>s, <1>i DEF Flag, PostStatus, StartInv, interface, client, control
<1>8. CASE Finish
  <2>1. ctl = "start"
    BY <1>s, <1>8, FinishCases, <1>i
  <2>2. job = "restart" /\ ~up
    BY <1>8, <1>i, <2>1 DEF StartInv, Finish
  <2>3. dhcp' = "SELECTING" /\ mbox' = Expired(mbox) /\ job' = "none" /\ up' = up
    BY <1>8, <2>2 DEF Finish, Discover, Ask, Begin
  <2>4. QED
    BY <1>i, <2>2, <2>3, ExpiredStart DEF StartInv
<1>9. CASE UNCHANGED vars
  BY <1>9, <1>i DEF vars, thread, interface, client, control, StartInv
<1>10. QED
  BY <1>1, <1>2, <1>3, <1>4, <1>5, <1>6, <1>7, <1>8, <1>9 DEF Next, Work

\* Every step keeps the invariant.
LEMMA InvStep == NetInv /\ [Next]_vars => NetInv'
<1> SUFFICES ASSUME NetInv, [Next]_vars PROVE NetInv'
  OBVIOUS
<1>1. TypeOK /\ RequestInv /\ JobInv
  BY DEF NetInv
<1>2. TypeOK' /\ RequestInv' /\ JobInv'
  BY <1>1, TypeStep, RequestStep, JobStep
<1>3. LeaseInv' /\ StartInv'
  BY LeaseStep, StartStep
<1>4. QED
  BY <1>2, <1>3 DEF NetInv

\* The control task waits exactly while its request is in the mailbox or being
\* served, the interface is only up with a lease, and DHCP is only started over
\* an interface that is down, whatever messages and replies are still around.
THEOREM Invariance == Spec => []NetInv
<1>1. Init => NetInv
  BY InitInv
<1>2. NetInv /\ [Next]_vars => NetInv'
  BY InvStep
<1>3. QED
  BY <1>1, <1>2, PTL DEF Spec

\* Every variable of the control task, of the TCP/IP thread and of the client
\* keeps its type.
THEOREM TypeCorrect == Spec => []TypeOK
<1>1. NetInv => TypeOK
  BY DEF NetInv
<1>2. QED
  BY <1>1, Invariance, PTL
-----------------------------------------------------------------------------
(* The address the network core was told.                                  *)

\* Every step keeps the promise that the network core is or will be told.
LEMMA ToldStep ==
  ASSUME NetInv, ToldOrOnItsWay, [Next]_vars
  PROVE  ToldOrOnItsWay'
<1>i. TypeOK /\ RequestInv /\ JobInv /\ LeaseInv
  BY DEF NetInv
<1>1. CASE WlanEvent \/ PostEvent \/ \E reply \in Reply \cup {"arp"} : Arrive(reply)
  <2>1. UNCHANGED <<job, at, up, ip, ctl, told>> /\ ~Receive
    BY <1>1, OthersLeaveAlone DEF WlanEvent, PostEvent, Arrive, control, Receive, ControlBlocked
  <2>2. QED
    BY <1>i, <2>1, QueueSteps DEF ToldOrOnItsWay, UpOnItsWay
<1>2. CASE Control
  <2>1. UNCHANGED <<job, at, up, ip>>
    BY <1>2, OthersLeaveAlone
  <2>2. CASE Tell
    BY <2>1, <2>2 DEF Tell, ToldOrOnItsWay
  <2>3. CASE Receive
    BY <1>i, <2>1, <2>3, QueueSteps DEF Receive, Goto, ToldOrOnItsWay, UpOnItsWay
  <2>4. CASE ~Tell /\ ~Receive
    <3>1. ctl # "tell" /\ told' = told
      BY <1>2, <2>4
         DEF Control, PostLink, BringUp, IfStarted, BringDown, PostRequest, Goto, Request
    <3>2. QED
      BY <1>i, <2>1, <2>4, <3>1, QueueSteps DEF ToldOrOnItsWay, UpOnItsWay
  <2>5. QED
    BY <2>2, <2>3, <2>4
<1>3. CASE Timer
  BY <1>3, <1>i, TimerCases DEF LeaseInv, ToldOrOnItsWay, UpOnItsWay
<1>4. CASE Fetch
  <2>1. job = "none" /\ UNCHANGED <<queue, up, told>>
    BY <1>4, <1>i, FetchCases
  <2>2. ctl = "tell" => ctl' = "tell"
    BY <1>4, <1>i, FetchCases
  <2>3. CASE up /\ ctl \in {"set_addr", "stop"}
    BY <1>i, <2>1, <2>3 DEF LeaseInv, ToldOrOnItsWay, UpOnItsWay
  <2>4. CASE ip' = ip
    BY <2>1, <2>2, <2>4 DEF ToldOrOnItsWay, UpOnItsWay
  <2>5. CASE up /\ ctl \notin {"set_addr", "stop"} /\ ip' # ip
    BY <1>4, <1>i, <2>5, FetchCases, ReplyCases DEF LeaseInv, Stopped
  <2>6. QED
    BY <2>1, <2>3, <2>4, <2>5 DEF ToldOrOnItsWay
<1>5. CASE Flag
  BY <1>5, <1>i DEF Flag, ToldOrOnItsWay, UpOnItsWay, TypeOK, control
<1>6. CASE PostStatus
  <2>1. UNCHANGED <<up, ip, told, ctl>> /\ (up => queue' = Append(queue, "NETWORK_UP"))
    BY <1>6 DEF PostStatus, interface, control
  <2>2. queue \in Seq(Message) /\ "NETWORK_UP" \in Message
    BY <1>i DEF TypeOK, Message
  <2>3. up => In("NETWORK_UP", queue')
    BY <2>1, <2>2, InAppend
  <2>4. QED
    BY <2>1, <2>3 DEF ToldOrOnItsWay, UpOnItsWay
<1>7. CASE Finish
  <2>1. job # "bind" => ~up'
    BY <1>7, <1>i, FinishCases DEF JobInv, Finish
  <2>2. job = "bind" => UNCHANGED <<ip, up, ctl, told, queue>> /\ at = "rest"
    BY <1>7, <1>i, FinishCases
  <2>3. QED
    BY <2>1, <2>2 DEF ToldOrOnItsWay, UpOnItsWay
<1>8. CASE UNCHANGED vars
  BY <1>8 DEF vars, thread, interface, control, ToldOrOnItsWay, UpOnItsWay
<1>9. QED
  BY <1>1, <1>2, <1>3, <1>4, <1>5, <1>6, <1>7, <1>8 DEF Next, Work

\* An interface that is up has the address the network core was told, unless a
\* NETWORK_UP is on its way, for any number of addresses and any size of the
\* queue and the mailbox.
THEOREM AddressTold == Spec => []ToldOrOnItsWay
<1>1. Init => ToldOrOnItsWay
  BY DEF Init, ToldOrOnItsWay
<1>2. NetInv /\ ToldOrOnItsWay /\ [Next]_vars => ToldOrOnItsWay'
  BY ToldStep
<1>3. QED
  BY <1>1, <1>2, Invariance, PTL DEF Spec
-----------------------------------------------------------------------------
(* Where the control task cannot go on.                                    *)

\* The step that strands the interface.
LEMMA LateStep ==
  ASSUME NetInv, [Next]_vars, ~Stranded, Stranded'
  PROVE  Fetch /\ ctl = "stop" /\ waits /\ dhcp # "OFF"
<1>i. TypeOK /\ RequestInv /\ JobInv
  BY DEF NetInv
<1>s. up' /\ dhcp' = "OFF" /\ job' = "none"
  BY DEF Stranded
<1>1. ~UNCHANGED <<up, dhcp, job>>
  BY DEF Stranded
<1>2. ~(WlanEvent \/ PostEvent \/ Control
         \/ \E reply \in Reply \cup {"arp"} : Arrive(reply))
  BY <1>1, OthersLeaveAlone
<1>3. ~Timer
  BY <1>1, <1>s, TimerCases
<1>4. ~(Flag \/ PostStatus)
  BY <1>s DEF Flag, PostStatus
<1>5. ~Finish
  BY <1>s, <1>i, FinishCases DEF JobInv, Finish
<1>6. CASE Fetch
  <2>1. ~Receives(Head(mbox), Tail(mbox))
    BY <1>s, <1>1, <1>6, <1>i, ReplyCases, FetchCases
  <2>2. ctl = "stop" /\ dhcp # "OFF"
    BY <1>s, <1>1, <1>6, <1>i, <2>1, FetchCases DEF Stranded
  <2>3. Head(mbox) \in Request
    BY <1>s, <1>6, <2>1, <2>2
       DEF Fetch, LinkUp, LinkDown, NetworkChanged, Discover, Ask, Serve, Request, client
  <2>4. QED
    BY <1>6, <1>i, <2>2, <2>3, FetchedRequest DEF Fetch
<1>7. ~UNCHANGED vars
  BY <1>1 DEF vars, thread, interface, client
<1>8. QED
  BY <1>2, <1>3, <1>4, <1>5, <1>6, <1>7 DEF Next, Work

\* The interface is only left up without DHCP by a lease that was bound after
\* the interface had been set down and before the request to stop DHCP.
THEOREM LateLease == Spec => StrandedOnlyByLateLease
<1>1. NetInv /\ [Next]_vars
      => (~Stranded /\ Stranded' => ctl = "stop" /\ waits /\ dhcp # "OFF")
  BY LateStep
<1>2. QED
  BY <1>1, Invariance, PTL DEF Spec, StrandedOnlyByLateLease

\* When the control task and the TCP/IP thread wait for each other, they do so
\* for ever: no event, timer or reply gets them out of it.
THEOREM HangsForEver == Spec => [][Hung => Hung']_vars
<1>1. ASSUME Hung, [Next]_vars PROVE Hung'
  <2>1. CASE WlanEvent
    BY <1>1, <2>1 DEF WlanEvent, Hung, HasRoom, control, thread
  <2>2. ASSUME NEW reply \in Reply \cup {"arp"}, Arrive(reply) PROVE Hung'
    BY <1>1, <2>2 DEF Arrive, Hung, HasRoom, control, thread
  <2>3. ~PostEvent /\ ~Control /\ ~Timer /\ ~Fetch /\ ~Work
    BY <1>1 DEF Hung, PostEvent, Control, Receive, PostLink, BringUp, IfStarted, BringDown,
                PostRequest, Tell, Timer, Fetch, Work, Flag, PostStatus, Finish, Request
  <2>4. CASE UNCHANGED vars
    BY <1>1, <2>4 DEF vars, Hung, HasRoom, control, thread
  <2>5. QED
    BY <1>1, <2>1, <2>2, <2>3, <2>4 DEF Next
<1>2. QED
  BY <1>1, PTL DEF Spec

\* An interface without DHCP is left so by a control task that has no request to make.
StrandedInv == Stranded => ctl \notin Request \cup {"bring_down"}

\* What the steps do to a stranded interface.
LEMMA StrandedStep ==
  ASSUME NetInv, StrandedInv, Stranded, [Next]_vars
  PROVE  Stranded' /\ ip' = ip /\ ctl' \notin Request \cup {"bring_down"}
<1>i. TypeOK /\ RequestInv /\ JobInv
  BY DEF NetInv
<1>s. up /\ dhcp = "OFF" /\ job = "none" /\ ctl \notin Request \cup {"bring_down"}
  BY DEF Stranded, StrandedInv
<1>1. CASE WlanEvent \/ PostEvent \/ \E reply \in Reply \cup {"arp"} : Arrive(reply)
  <2>1. UNCHANGED <<up, dhcp, job, ip, ctl>>
    BY <1>1, OthersLeaveAlone DEF WlanEvent, PostEvent, Arrive, control
  <2>2. QED
    BY <1>s, <2>1 DEF Stranded
<1>2. CASE Control
  <2>1. UNCHANGED <<up, dhcp, job, ip>>
    BY <1>2, OthersLeaveAlone
  <2>2. ctl' \notin Request \cup {"bring_down"}
    BY <1>2, <1>s DEF Control, Receive, PostLink, BringUp, IfStarted, BringDown, PostRequest,
       Tell, Goto, Request, Stopped
  <2>3. QED
    BY <1>s, <2>1, <2>2 DEF Stranded
<1>3. ~Timer
  BY <1>s, TimerCases
<1>4. CASE Fetch
  <2>1. ~Receives(Head(mbox), Tail(mbox))
    BY <1>s, <1>i, ReplyCases
  <2>2. UNCHANGED <<up, dhcp, job, ip, ctl>>
    BY <1>4, <1>i, <1>s, <2>1, FetchCases DEF Leased, Stopped, Request
  <2>3. QED
    BY <1>s, <2>2 DEF Stranded
<1>5. ~Work
  BY <1>s DEF Work, Flag, PostStatus, Finish
<1>6. CASE UNCHANGED vars
  BY <1>6, <1>s DEF vars, thread, interface, client, control, Stranded
<1>7. QED
  BY <1>1, <1>2, <1>3, <1>4, <1>5, <1>6 DEF Next

LEMMA StrandedInvariance == Spec => []StrandedInv
<1>1. Init => StrandedInv
  BY DEF Init, StrandedInv, Stranded
<1>2. NetInv /\ StrandedInv /\ [Next]_vars => StrandedInv'
  <2> SUFFICES ASSUME NetInv, StrandedInv, [Next]_vars, Stranded'
               PROVE  ctl' \notin Request \cup {"bring_down"}
    BY DEF StrandedInv
  <2>1. CASE Stranded
    BY <2>1, StrandedStep
  <2>2. CASE ~Stranded
    <3>1. Fetch /\ ctl = "stop" /\ dhcp # "OFF"
      BY <2>2, LateStep
    <3>2. dhcp' = "OFF" /\ job' = "none"
      BY DEF Stranded
    <3>3. TypeOK /\ RequestInv
      BY DEF NetInv
    <3>4. ctl' = "receive"
      BY <3>1, <3>2, <3>3, FetchCases, ReplyCases
    <3>5. QED
      BY <3>4 DEF Request
  <2>3. QED
    BY <2>1, <2>2
<1>3. QED
  BY <1>1, <1>2, Invariance, PTL DEF Spec

\* A stranded interface stays up with its address and without DHCP, and the control
\* task has no request left to make about it (net_ctrl.c:83-123, 285-297).
THEOREM StrandedStays == Spec => StrandedForEver
<1>1. NetInv /\ StrandedInv /\ [Next]_vars
      => (Stranded => Stranded' /\ ip' = ip /\ ctl' \notin Request \cup {"bring_down"})
  BY StrandedStep
<1>2. QED
  BY <1>1, Invariance, StrandedInvariance, PTL DEF Spec, StrandedForEver
-----------------------------------------------------------------------------
(* The request in the mailbox.                                             *)

\* What the steps do to the mailbox.
LEMMA MailboxSteps ==
  ASSUME TypeOK, RequestInv, [Next]_vars
  PROVE  \/ mbox' \in {mbox, Expired(mbox)}
         \/ mbox # <<>> /\ mbox' \in {Tail(mbox), Expired(Tail(mbox))}
         \/ \E x \in Mail : mbox' = Append(mbox, x) /\ (x \in Request => HoldsNone(mbox))
<1>1. CASE WlanEvent \/ PostEvent \/ Receive \/ BringUp \/ IfStarted \/ BringDown \/ Tell
           \/ Flag \/ PostStatus \/ UNCHANGED vars
  BY <1>1 DEF WlanEvent, PostEvent, Receive, BringUp, IfStarted, BringDown, Tell, Flag,
     PostStatus, vars
<1>2. CASE PostLink
  BY <1>2 DEF PostLink, Mail, Request
<1>3. CASE PostRequest
  BY <1>3 DEF PostRequest, Mail, RequestInv
<1>4. CASE Timer \/ Finish
  BY <1>4 DEF Timer, RequestTimeout, LeaseTimeout, Finish, Discover, Ask, GiveUp, Bind
<1>5. CASE Fetch
  BY <1>5 DEF Fetch, LinkUp, LinkDown, NetworkChanged, Serve, Receives, Discover, Ask,
     GiveUp, Bind
<1>6. ASSUME NEW reply \in Reply \cup {"arp"}, Arrive(reply)
      PROVE  \E x \in Mail : mbox' = Append(mbox, x) /\ (x \in Request => HoldsNone(mbox))
  BY <1>6 DEF Arrive, Reply, Mail, Request
<1>7. QED
  BY <1>1, <1>2, <1>3, <1>4, <1>5, <1>6 DEF Next, Control, Work

\* The control task waits for one request at a time, and nothing that arrives
\* later is served before it: with each message the TCP/IP thread takes, it is
\* nearer (tcpip.c:77-157).
THEOREM RequestsComeNearer == Spec => RequestInTurn
<1> DEFINE Nearer ==
      \A i \in 1 .. Len(mbox), j \in 1 .. Len(mbox') :
        mbox[i] \in Request /\ mbox'[j] \in Request =>
          j <= i /\ (Len(mbox') < Len(mbox) => j < i)
<1>1. NetInv /\ [Next]_vars => Nearer
  <2> SUFFICES ASSUME NetInv, [Next]_vars, NEW i \in 1 .. Len(mbox), NEW j \in 1 .. Len(mbox'),
                      mbox[i] \in Request, mbox'[j] \in Request
               PROVE  j <= i /\ (Len(mbox') < Len(mbox) => j < i)
    OBVIOUS
  <2>1. TypeOK /\ RequestInv /\ mbox \in Seq(Mail) /\ Len(mbox) \in Nat
    BY DEF NetInv, TypeOK
  <2>2. \A k \in 1 .. Len(mbox) : mbox[k] \in Request => k = i
    BY <2>1 DEF RequestInv, Holds, HoldsNone
  <2>3. ~HoldsNone(mbox)
    BY DEF HoldsNone
  <2>4. \A x \in Reply \cup {"stale"} : x \notin Request
    BY DEF Reply, Request
  <2>5. CASE mbox' \in {mbox, Expired(mbox)}
    BY <2>1, <2>2, <2>4, <2>5, ExpiredFacts
  <2>6. CASE mbox # <<>> /\ mbox' \in {Tail(mbox), Expired(Tail(mbox))}
    <3>1. /\ Tail(mbox) \in Seq(Mail) /\ Len(Tail(mbox)) = Len(mbox) - 1
          /\ \A k \in 1 .. Len(Tail(mbox)) : Tail(mbox)[k] = mbox[k + 1]
      BY <2>1, <2>6, TailFacts
    <3>2. Len(mbox') = Len(mbox) - 1 /\ Tail(mbox)[j] \in Request
      BY <2>4, <2>6, <3>1, ExpiredFacts
    <3>3. j + 1 \in 1 .. Len(mbox) /\ mbox[j + 1] \in Request
      BY <2>1, <3>1, <3>2
    <3>4. QED
      BY <2>2, <3>3
  <2>7. ASSUME NEW x \in Mail, mbox' = Append(mbox, x), x \in Request => HoldsNone(mbox)
        PROVE  j <= i /\ (Len(mbox') < Len(mbox) => j < i)
    <3>1. x \notin Request
      BY <2>3, <2>7
    <3>2. j \in 1 .. Len(mbox) /\ mbox'[j] = mbox[j] /\ Len(mbox') = Len(mbox) + 1
      BY <2>1, <2>7, <3>1, AppendFacts
    <3>3. QED
      BY <2>1, <2>2, <3>2
  <2>8. QED
    BY <2>1, <2>5, <2>6, <2>7, MailboxSteps
<1>2. QED
  BY <1>1, Invariance, PTL DEF Spec, RequestInTurn
=============================================================================
