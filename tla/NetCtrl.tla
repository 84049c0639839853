------------------------------ MODULE NetCtrl ------------------------------
(***************************************************************************)
(* How the application core follows the WLAN in station mode:              *)
(* project/common/net_ctrl, the control task of project/wlan_demo and the  *)
(* part of lwIP it drives.                                                 *)
(*                                                                         *)
(*   network core -> DUCC server -> queue -> control task -> mbox -> tcpip *)
(*                                    ^                                |   *)
(*                                    +------- status callback --------+   *)
(*                                                                         *)
(* The DUCC server posts the events of the WLAN to the queue of the        *)
(* control task, which sets the link and starts and stops DHCP through     *)
(* the mailbox of the TCP/IP thread.  Requests of the netif API wait for   *)
(* that thread; tcpip_callback does not.  Whenever the interface goes up   *)
(* or down the TCP/IP thread posts to the control task, which tells the    *)
(* network core the address.  All of these wait for room without timeout.  *)
(*                                                                         *)
(* The control task has the higher priority: the TCP/IP thread and the     *)
(* task that delivers packets run only while it is blocked.  It reads the  *)
(* interface and the state of DHCP without asking, wherever the TCP/IP     *)
(* thread happens to be.                                                   *)
(*                                                                         *)
(* Left out: failed allocations, sockets and other traffic in the mailbox, *)
(* starting and stopping the whole network, smart config, access point.    *)
(***************************************************************************)
EXTENDS Integers, Sequences

CONSTANTS
  Address,    \* addresses the DHCP servers lease
  NoAddress,  \* IP_ADDR_ANY
  QUEUE_LEN,  \* SYS_CTRL_MSG_QUEUE_LEN
  MBOX_SIZE   \* TCPIP_MBOX_SIZE

ASSUME AddressAssumption == NoAddress \notin Address
ASSUME SizeAssumption == QUEUE_LEN \in Nat \ {0} /\ MBOX_SIZE \in Nat \ {0}

VARIABLES
  wlan,     \* the station is associated
  server,   \* the event the DUCC server is posting, or "none"
  queue,    \* messages to the control task
  ctl,      \* where the control task is
  waits,    \* the control task waits for its request to be done
  told,     \* the address the network core was told
  mbox,     \* messages to the TCP/IP thread
  job,      \* what the TCP/IP thread is doing that spans a status callback
  at,       \* where in its job it is
  link, up, \* NETIF_FLAG_LINK_UP, NETIF_FLAG_UP
  ip,       \* netif->ip_addr
  dhcp,     \* netif->dhcp->state, "NULL" if there is no client yet
  offered   \* offered_ip_addr

events == <<wlan, server>>
control == <<ctl, waits, told>>
thread == <<job, at>>
interface == <<link, up, ip>>
client == <<dhcp, offered>>
vars == <<events, queue, control, mbox, thread, interface, client>>

Event == {"CONNECTED", "DISCONNECTED", "OTHER"}
Message == Event \cup {"NETWORK_UP", "NETWORK_DOWN"}
Request == {"start", "release", "set_down", "set_addr", "stop"}
Reply == {"offer", "ack", "nak"}
Mail == {"link_up", "link_down", "arp", "stale"} \cup Request \cup Reply
Place == {"receive", "link_up", "bring_up", "link_down", "if_started", "bring_down", "tell"} \cup Request
Job == {"none", "release", "restart", "nak", "changed", "set_down", "bind"}
Stopped == {"NULL", "OFF"}
Leased == {"BOUND", "RENEWING", "REBINDING", "REBOOTING"}
State == Stopped \cup Leased \cup {"SELECTING", "REQUESTING", "CHECKING", "BACKING_OFF"}

Init ==
  /\ wlan = FALSE /\ server = "none"
  /\ queue = <<>> /\ mbox = <<>>
  /\ ctl = "receive" /\ waits = FALSE /\ told = NoAddress
  /\ job = "none" /\ at = "flag"
  /\ link = FALSE /\ up = FALSE /\ ip = NoAddress
  /\ dhcp = "NULL" /\ offered = NoAddress
-----------------------------------------------------------------------------
(* The network core and the DUCC server.                                   *)

\* The station is associated or loses its access point, or anything else
\* happens that is reported: a scan ends, a connection fails.
WlanEvent ==
  /\ server = "none"
  /\ \/ wlan' = ~wlan /\ server' = IF wlan THEN "DISCONNECTED" ELSE "CONNECTED"
     \/ server' = "OTHER" /\ UNCHANGED wlan
  /\ UNCHANGED <<queue, control, mbox, thread, interface, client>>

HasRoom(s, size) == Len(s) < size

\* net_sys_callback.
PostEvent ==
  /\ server # "none"
  /\ HasRoom(queue, QUEUE_LEN)
  /\ queue' = Append(queue, server) /\ server' = "none"
  /\ UNCHANGED <<wlan, control, mbox, thread, interface, client>>
-----------------------------------------------------------------------------
(* The control task.                                                       *)

Goto(place) == ctl' = place /\ UNCHANGED <<waits, told>>

\* net_ctrl_msg_process.
Receive ==
  /\ ctl = "receive" /\ queue # <<>>
  /\ queue' = Tail(queue)
  /\ Goto(CASE Head(queue) = "CONNECTED" -> "link_up"
            [] Head(queue) = "DISCONNECTED" -> "link_down"
            [] Head(queue) = "NETWORK_UP" -> "tell"
            [] OTHER -> "receive")
  /\ UNCHANGED <<events, mbox, thread, interface, client>>

\* tcpip_callback.
PostLink ==
  /\ ctl \in {"link_up", "link_down"}
  /\ HasRoom(mbox, MBOX_SIZE)
  /\ mbox' = Append(mbox, ctl)
  /\ Goto(IF ctl = "link_up" THEN "bring_up" ELSE "if_started")
  /\ UNCHANGED <<events, queue, thread, interface, client>>

\* Fault: a client that was stopped counts as started.
BringUpOnce ==
  /\ ctl = "bring_up"
  /\ Goto(IF up \/ dhcp # "NULL" THEN "receive" ELSE "start")
  /\ UNCHANGED <<events, queue, mbox, thread, interface, client>>

\* net_config(nif, 1).
BringUp ==
  /\ ctl = "bring_up"
  /\ Goto(IF up \/ dhcp \notin Stopped THEN "receive" ELSE "start")
  /\ UNCHANGED <<events, queue, mbox, thread, interface, client>>

\* "if dhcp is started and not bound, stop it".
IfStarted ==
  /\ ctl = "if_started"
  /\ Goto(IF dhcp \in Stopped \cup {"BOUND"} THEN "receive" ELSE "bring_down")
  /\ UNCHANGED <<events, queue, mbox, thread, interface, client>>

\* net_config(nif, 0).
BringDown ==
  /\ ctl = "bring_down"
  /\ Goto(IF link THEN "release" ELSE "set_down")
  /\ UNCHANGED <<events, queue, mbox, thread, interface, client>>

\* TCPIP_NETIFAPI: post the request and wait.
PostRequest ==
  /\ ctl \in Request /\ ~waits
  /\ HasRoom(mbox, MBOX_SIZE)
  /\ mbox' = Append(mbox, ctl) /\ waits' = TRUE
  /\ UNCHANGED <<events, queue, ctl, told, thread, interface, client>>

\* wlan_set_ip_addr: the other core reads the address during the call.
Tell ==
  /\ ctl = "tell"
  /\ told' = ip /\ ctl' = "receive"
  /\ UNCHANGED <<events, queue, waits, mbox, thread, interface, client>>

Control ==
  Receive \/ PostLink \/ BringUp \/ IfStarted \/ BringDown \/ PostRequest \/ Tell

\* What netif_config does when a request is done.
Following(request) ==
  CASE request \in {"start", "stop"} -> "receive"
    [] request \in {"release", "set_addr"} -> "stop"
    [] request = "set_down" -> "set_addr"

\* TCPIP_NETIFAPI_ACK.
Done == waits' = FALSE /\ ctl' = Following(ctl) /\ UNCHANGED told
-----------------------------------------------------------------------------
(* The TCP/IP thread: DHCP.                                                *)

\* Fault: the control task has no higher priority.
NoPriority == TRUE

\* The control task can do nothing, so that tasks of lower priority may run.
ControlBlocked ==
  \/ ctl = "receive" /\ queue = <<>>
  \/ ctl \in Request /\ waits
  \/ ctl \in {"link_up", "link_down"} \cup Request /\ ~HasRoom(mbox, MBOX_SIZE)
  \/ ctl = "tell"

Begin(work) == job' = work /\ at' = "flag"

\* Fault: the same transaction id in every request.
NeverExpired(mails) == mails

\* A request with a new transaction id: replies to earlier ones are ignored.
Expired(mails) ==
  [i \in DOMAIN mails |-> IF mails[i] \in Reply THEN "stale" ELSE mails[i]]

\* dhcp_set_state and the request sent in that state.
Ask(state, mails) == dhcp' = state /\ mbox' = Expired(mails)

\* dhcp_discover.
Discover(mails) == Ask("SELECTING", mails) /\ offered' = NoAddress

\* Fault: dhcp_release does not call netif_set_down.
GiveUpAndStayUp(work, mails) ==
  /\ job' = work /\ at' = "rest"
  /\ Ask("OFF", mails) /\ offered' = NoAddress

\* dhcp_release, up to netif_set_down.
GiveUp(work, mails) ==
  Begin(work) /\ Ask("OFF", mails) /\ offered' = NoAddress

\* dhcp_bind, up to netif_set_up.
Bind == Begin("bind") /\ ip' = offered

\* dhcp_network_changed.
NetworkChanged(mails) ==
  \/ /\ dhcp \in Stopped
     /\ mbox' = mails
     /\ UNCHANGED <<thread, client>>
  \/ /\ dhcp \in Leased
     /\ Begin("changed")
     /\ mbox' = mails
     /\ UNCHANGED client
  \/ /\ dhcp \notin Stopped \cup Leased
     /\ Discover(mails)
     /\ UNCHANGED thread

\* dhcp_timeout.  Asking again in the same state changes nothing here.
RequestTimeout ==
  /\ \/ /\ dhcp \in {"BACKING_OFF", "REBOOTING"}
        /\ Discover(mbox)
        /\ UNCHANGED <<thread, ip>>
     \/ /\ dhcp \in {"REQUESTING", "REBINDING"}
        /\ GiveUp("restart", mbox)
        /\ UNCHANGED ip
     \/ /\ dhcp = "CHECKING"
        /\ Bind
        /\ UNCHANGED <<mbox, client>>
  /\ UNCHANGED <<link, up>>

\* dhcp_t1_timeout and dhcp_t2_timeout.
LeaseTimeout ==
  /\ dhcp \in {"REQUESTING", "BOUND", "RENEWING"}
  /\ \E state \in {"RENEWING", "REBINDING"} \ {dhcp} : Ask(state, mbox)
  /\ UNCHANGED <<thread, interface, offered>>

\* sys_timeouts_mbox_fetch finds that a timer is due.
Timer ==
  /\ ControlBlocked /\ job = "none"
  /\ RequestTimeout \/ LeaseTimeout
  /\ UNCHANGED <<events, queue, control>>

\* Whether dhcp_recv or dhcp_arp_reply acts on a reply in this state, if it has
\* the current transaction id.
Heeded(reply) ==
  \/ reply = "offer" /\ dhcp = "SELECTING"
  \/ reply \in {"ack", "nak"} /\ dhcp \in {"REQUESTING", "RENEWING", "REBINDING", "REBOOTING"}
  \/ reply = "arp" /\ dhcp = "CHECKING"

\* What they do: dhcp_handle_offer, dhcp_handle_ack and dhcp_check, dhcp_bind,
\* dhcp_handle_nak, dhcp_decline.
Receives(reply, mails) ==
  /\ Heeded(reply)
  /\ \/ /\ reply = "offer"
        /\ offered' \in Address /\ Ask("REQUESTING", mails)
        /\ UNCHANGED <<thread, ip>>
     \/ /\ reply = "ack" /\ dhcp = "REQUESTING"
        /\ offered' \in Address /\ dhcp' = "CHECKING" /\ mbox' = mails
        /\ UNCHANGED <<thread, ip>>
     \/ /\ reply = "ack" /\ dhcp # "REQUESTING"
        /\ Bind
        /\ mbox' = mails
        /\ UNCHANGED client
     \/ /\ reply = "nak"
        /\ Begin("nak")
        /\ mbox' = mails
        /\ UNCHANGED <<client, ip>>
     \/ /\ reply = "arp"
        /\ Ask("BACKING_OFF", mails)
        /\ UNCHANGED <<thread, ip, offered>>

\* An answer to what the client asked last reaches the mailbox: tcpip_input,
\* which drops it when there is no room.
Arrive(reply) ==
  /\ ControlBlocked
  /\ wlan /\ Heeded(reply)
  /\ HasRoom(mbox, MBOX_SIZE)
  /\ mbox' = Append(mbox, reply)
  /\ UNCHANGED <<events, queue, control, thread, interface, client>>
-----------------------------------------------------------------------------
(* The TCP/IP thread: messages and jobs.                                   *)

\* netif_set_link_up and netif_set_link_down.
LinkUp(mails) ==
  /\ ~link /\ link' = TRUE
  /\ NetworkChanged(mails)
  /\ UNCHANGED <<control, up, ip>>
LinkDown(mails) ==
  /\ link' = FALSE /\ mbox' = mails
  /\ UNCHANGED <<control, thread, up, ip, client>>

\* The requests: dhcp_start, dhcp_release, netif_set_down, netif_set_addr and
\* dhcp_stop.
Serve(request, mails) ==
  \/ /\ request = "start"
     /\ Discover(mails)
     /\ Done
     /\ UNCHANGED <<thread, interface>>
  \/ /\ request = "release"
     /\ GiveUp("release", mails)
     /\ UNCHANGED <<control, interface>>
  \/ /\ request = "set_down"
     /\ Begin("set_down") /\ mbox' = mails
     /\ UNCHANGED <<control, interface, client>>
  \/ /\ request = "set_addr"
     /\ ip' = NoAddress /\ mbox' = mails
     /\ Done
     /\ UNCHANGED <<thread, link, up, client>>
  \/ /\ request = "stop"
     /\ dhcp' = "OFF" /\ mbox' = mails
     /\ Done
     /\ UNCHANGED <<thread, interface, offered>>

Ignored(mail) ==
  \/ mail = "link_up" /\ link
  \/ mail \in Reply \cup {"stale", "arp"} /\ ~Heeded(mail)

\* tcpip_thread takes a message.
Fetch ==
  LET mail == Head(mbox)  rest == Tail(mbox) IN
  /\ ControlBlocked /\ job = "none" /\ mbox # <<>>
  /\ \/ mail = "link_up" /\ LinkUp(rest)
     \/ mail = "link_down" /\ LinkDown(rest)
     \/ Serve(mail, rest)
     \/ Receives(mail, rest) /\ UNCHANGED <<control, link, up>>
     \/ /\ Ignored(mail) /\ mbox' = rest
        /\ UNCHANGED <<control, thread, interface, client>>
  /\ UNCHANGED <<events, queue>>

\* netif_set_up and netif_set_down: change the flag, and call back if it was
\* not so already.
Flag ==
  /\ ControlBlocked /\ job # "none" /\ at = "flag"
  /\ up' = (job = "bind")
  /\ at' = IF up' = up THEN "rest" ELSE "post"
  /\ UNCHANGED <<events, queue, control, mbox, job, link, ip, client>>

\* netif_status_callback.
PostStatus ==
  /\ ControlBlocked /\ job # "none" /\ at = "post"
  /\ HasRoom(queue, QUEUE_LEN)
  /\ queue' = Append(queue, IF up THEN "NETWORK_UP" ELSE "NETWORK_DOWN")
  /\ at' = "rest"
  /\ UNCHANGED <<events, control, mbox, job, interface, client>>

\* What follows netif_set_up or netif_set_down.
Finish ==
  /\ ControlBlocked /\ job # "none" /\ at = "rest"
  /\ Begin("none")
  /\ \/ /\ job = "bind"
        /\ dhcp' = "BOUND"
        /\ UNCHANGED <<control, mbox, ip, offered>>
     \/ /\ job = "changed"
        /\ Ask("REBOOTING", mbox)
        /\ UNCHANGED <<control, ip, offered>>
     \/ /\ job \in {"restart", "nak"}
        /\ ip' = NoAddress /\ Discover(mbox)
        /\ UNCHANGED control
     \/ /\ job = "release"
        /\ ip' = NoAddress /\ Done
        /\ UNCHANGED <<mbox, client>>
     \/ /\ job = "set_down"
        /\ Done
        /\ UNCHANGED <<mbox, ip, client>>
  /\ UNCHANGED <<events, queue, link, up>>

Work == Flag \/ PostStatus \/ Finish
-----------------------------------------------------------------------------
Next ==
  \/ WlanEvent \/ PostEvent \/ Control
  \/ Timer \/ Fetch \/ Work
  \/ \E reply \in Reply \cup {"arp"} : Arrive(reply)

Spec == Init /\ [][Next]_vars

\* Tasks run when they can.  Timers come at intervals, so that the TCP/IP
\* thread also gets to its messages.
FairSpec ==
  /\ Spec
  /\ WF_vars(PostEvent) /\ WF_vars(Control)
  /\ WF_vars(Work) /\ SF_vars(Fetch)
-----------------------------------------------------------------------------
(* Properties.                                                             *)

TypeOK ==
  /\ wlan \in BOOLEAN /\ server \in Event \cup {"none"}
  /\ queue \in Seq(Message) /\ Len(queue) <= QUEUE_LEN
  /\ mbox \in Seq(Mail) /\ Len(mbox) <= MBOX_SIZE
  /\ ctl \in Place /\ waits \in BOOLEAN
  /\ job \in Job /\ at \in {"flag", "post", "rest"}
  /\ link \in BOOLEAN /\ up \in BOOLEAN
  /\ {ip, told, offered} \subseteq Address \cup {NoAddress}
  /\ dhcp \in State

In(x, s) == \E i \in 1 .. Len(s) : s[i] = x

\* A request is in the mailbox once, and only while the control task waits for it.
Holds(mails, request) ==
  \E i \in 1 .. Len(mails) :
    mails[i] = request /\ \A j \in 1 .. Len(mails) : mails[j] \in Request => j = i
HoldsNone(mails) == \A i \in 1 .. Len(mails) : mails[i] \notin Request
RequestInv ==
  /\ waits => ctl \in Request
  /\ job \in {"release", "set_down"} => waits /\ ctl = job
  /\ IF waits /\ job \notin {"release", "set_down"}
       THEN Holds(mbox, ctl) ELSE HoldsNone(mbox)

\* The state of DHCP and of the interface while the TCP/IP thread is in a job.
JobInv ==
  /\ job = "none" => at = "flag"
  /\ job \in {"restart", "release"} => dhcp = "OFF"
  /\ job = "nak" => dhcp \in {"REQUESTING", "RENEWING", "REBINDING", "REBOOTING"}
  /\ job = "changed" => dhcp \in Leased
  /\ job = "bind" => dhcp \notin Stopped /\ ip = offered
  /\ job # "none" /\ at # "flag" => up = (job = "bind")

\* Without a lease the interface is down, with one it has its address, unless
\* the control task is in between setting it down and stopping DHCP.
LeaseInv ==
  /\ up /\ job # "bind" => dhcp \in {"BOUND", "RENEWING", "REBINDING", "OFF"}
  /\ up /\ dhcp \notin Stopped /\ ctl \notin {"set_addr", "stop"} => ip = offered
  /\ up /\ ctl \in {"set_addr", "stop"} =>
       \/ In("NETWORK_UP", queue)
       \/ job = "bind" /\ at = "post"

\* DHCP is only started over an interface that is down and stays down: what a
\* server answers to a client that is just giving up comes after the start.
StartFirst(mails) ==
  \A i \in 1 .. Len(mails) :
    mails[i] \in Reply => \E j \in 1 .. i - 1 : mails[j] = "start"
StartInv ==
  ctl = "start" =>
    /\ ~up /\ dhcp \in Stopped \cup {"SELECTING"}
    /\ job \in {"none", "restart"}
    /\ dhcp = "SELECTING" => StartFirst(mbox)

NetInv == TypeOK /\ RequestInv /\ JobInv /\ LeaseInv /\ StartInv

\* The control task is still to be told, or is telling, that the interface is up.
UpOnItsWay ==
  \/ In("NETWORK_UP", queue)
  \/ job = "bind" /\ at = "post"
  \/ ctl = "tell"

\* An interface that is up has the address the network core was told, unless
\* a NETWORK_UP is on its way: the address never changes behind its back,
\* though a renewal and a new lease do not call back when the interface is up.
ToldOrOnItsWay == up /\ told # ip => UpOnItsWay

\* The interface is up and nobody looks after its lease.  The control task
\* then neither starts nor stops DHCP again.
Stranded == up /\ dhcp = "OFF" /\ job = "none"

\* netif_config: the interface is only left like that when a lease was bound
\* after it was set down and before DHCP is stopped, which takes two requests;
\* releasing the lease first closes that window.
StrandedOnlyByLateLease ==
  [][~Stranded /\ Stranded' => ctl = "stop" /\ waits /\ dhcp # "OFF"]_vars

\* What that costs: whatever the station and the timers do, the control task never
\* again posts a request, and the address stays that of the lease nobody renews.
StrandedForEver ==
  [][Stranded =>
       Stranded' /\ ip' = ip /\ ctl' \notin Request \cup {"bring_down"}]_vars

\* Nothing gets ahead of the request the control task waits for: it comes
\* nearer with each message the TCP/IP thread takes and no timer or
\* reply puts it back.
RequestInTurn ==
  [][\A i \in 1 .. Len(mbox), j \in 1 .. Len(mbox') :
       mbox[i] \in Request /\ mbox'[j] \in Request =>
         j <= i /\ (Len(mbox') < Len(mbox) => j < i)]_vars

\* The control task waits for the TCP/IP thread, which waits for room in the
\* queue of the control task.
Hung ==
  /\ \/ ctl \in Request /\ waits
     \/ ctl \in {"link_up", "link_down"} \cup Request /\ ~HasRoom(mbox, MBOX_SIZE)
  /\ job # "none" /\ at = "post" /\ ~HasRoom(queue, QUEUE_LEN)

\* Once the station stays associated and no more events come, the link is up
\* and DHCP runs, whatever was disconnected and stopped before, unless the
\* tasks hang or the interface was stranded.
Served ==
  <>[](wlan /\ server = "none") =>
    \/ <>[]Hung
    \/ <>[](link /\ Stranded)
    \/ <>[]link /\ []<>(dhcp \notin Stopped)
=============================================================================
