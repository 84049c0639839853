# XR871 SDK: specifications, model checking and proofs

The XR871 is a microcontroller with two Cortex-M cores, one for applications
(APP) and one for the wireless network (NET). Its SDK, `03_SDK/xr871sdk`, is C
code over FreeRTOS. This directory holds TLA+ modules that model the parts of
the SDK whose correctness depends on the order of things - flash logs that
lose power, images that are updated in place, a console without locks, devices
that are suspended while others register, two cores that call each other,
audio streams over a DMA, a network interface that follows the WLAN - with
the TLC configurations that check them on small instances and proofs, checked by
TLAPS, that hold for every value of the constants.

All paths below are relative to `03_SDK/xr871sdk` unless they start with a
module's name. `PROJECT.json` lists components, runs, the mutants that
show each property can fail, the source lines of every definition, the hazards
each property is aimed at, the findings and the theorems.

## 1. Inventory

| Component | State it keeps | Operations | Interacts with | What is hard |
|---|---|---|---|---|
| fdcm (`src/image/fdcm.c`) | a flash area: header, bitmap, record slots; a reference count and mutex | open, close, read, write, deinit | flash driver below; OTA, sysinfo above | power loss between any two flash operations; three limits that meet (bits, slots, cap); records of two sizes |
| OTA and boot (`src/ota/ota.c`, `project/bootloader/bootloader.c`, `project/common/ctrl_img/ctrl_img.c`) | boot configuration (image, verified or not); two images; watchdog | boot, fall back, check and accept or reject, update, switch | fdcm or raw flash for the configuration; watchdog | power loss anywhere; a reboot that returns; ignored results; never ending without an image that boots |
| console (`src/console/console.c`) | two line buffers in two bitmaps, a semaphore, state | receive interrupt, task, start, stop, enable, disable | UART interrupt, commands | no locks; wake-ups; buffers run out; order |
| power management (`src/pm/pm.c`) | four device lists, the mode, interrupt mask | enter mode, register, unregister | all drivers, WLAN, scheduler | lists change while they are walked; errors half way; order of resuming; interrupts that race the suspend |
| DUCC (`src/sys/ducc`, `src/driver/chip/hal_mbox.c`) | hardware FIFOs, message queues, semaphores, mutexes, requests on callers' stacks | ioctl from each core, server tasks, suspend, resume, start, stop | both cores; WLAN control; Ethernet output | a request used after its call returned; messages that are dropped; calls during a suspend |
| network control (`project/common/net_ctrl`, `project/common/ctrl_msg`, the DHCP client and thread of lwIP) | control task, bounded message queue, mailbox, interface flags, DHCP state | post, handle connect, disconnect, up, down; serve requests, timers, replies | DUCC server task, TCP/IP thread, WLAN API | tasks that wait for each other; state read across tasks; replies that come late |
| WLAN control (`src/net/wlan/wlan_ctrl.c`) | WLAN device, NET core on or off | init, deinit, suspend, resume | DUCC, power management | waiting for the other core without a timeout |
| audio (`src/audio/pcm`, `src/audio/manager`, `src/driver/chip/hal_i2s.c`) | stream locks, manager's lock, cache of a write; the ring of two halves, its counts and pointers | init, open, write, flush, read, close, deinit; interrupts of the DMA | codec, I2S, DMA | lock order of open and close; error paths that keep locks; a DMA that goes on while its task is late |
| AT commands (`src/atcmd`) | byte queue, parser state | get, peek, dispatch | serial reception | queue count |
| mbuf (`src/sys/mbuf`) | chains of buffers | get, free, adjust, prepend, split, copy | DUCC, Ethernet | lengths and head room |
| DMA, mailbox, watchdog, other HAL drivers (`src/driver/chip`) | channel bitmap, registers | request, release, init | all drivers | channels shared by tasks and interrupts |
| OS wrappers (`src/kernel/os`) | handles of FreeRTOS objects | thin wrappers | FreeRTOS | deletion, ticks and milliseconds |
| eFuse access, cloud client, SNTP, ping, MQTT transport, commands, demos | little | straight-line use of the above | - | data, not order |
| vendored code: FreeRTOS, lwIP, mbed TLS, FatFs, shttpd, udhcp, HTTPClient, cJSON, MQTT packet, cedarx | - | - | - | not this program's own logic |

What makes each of the components that carry the program's own logic correct:

- **fdcm** - a write that reported success can be read back; no crash brings an
  older record back; no slot is programmed twice; the area is erased only when it
  is full; all in all, it is a register that survives power loss.
- **OTA and boot** - an update never touches the running image; whenever power
  is lost an intact image remains and the configuration names one; the device
  comes up again; "verified" means verified.
- **console** - interrupt and task never share a buffer; no line is lost
  once it was accepted, none is executed twice, all in the order typed; stop
  returns.
- **power management** - asleep means every device down; returned means every
  device up; resuming reverses suspending; lists are never corrupted; interrupts
  are served; no legal use reaches a `PM_BUG_ON`.
- **DUCC** - each call is executed exactly once and returns; the server touches
  a request only while its caller waits; nothing is sent to a mailbox that is down.
- **audio** - a stream has one owner; as long as both directions use one length of
  buffer no byte of a write is lost or played twice and a task that keeps up never
  touches the half the DMA is at; nothing is written beyond a buffer; calls return.
- **network control** - an interface that is up has a lease, and the network
  core knows its address; a station that stays associated has DHCP running,
  whatever was connected and disconnected before; nobody waits for ever in a cycle
  of tasks.

## 2. Modules

| Module | Extends / instantiates | Models |
|---|---|---|
| `FdcmRegister` | - | abstract: what an fdcm area promises, a register that may become empty but never older |
| `Fdcm` | instantiates `FdcmRegister` | `fdcm_read`, `fdcm_write` with `fdcm_rewrite` and `fdcm_bit_count`, one step per flash operation |
| `MCFdcm`, `FdcmProofs` | `Fdcm` | instances; proofs |
| `OtaBoot` | instantiates `FdcmRegister` for the configuration | bootloader, `ctrl_img_init`, `ota_update`, the watchdog |
| `MCOtaBoot`, `OtaBootProofs` | `OtaBoot` | instances; proofs |
| `Console` | - | receive interrupt, console task, start, stop, enable, disable |
| `MCConsole`, `ConsoleProofs` | `Console` | instances; proofs |
| `PmSuspend` | - | `pm_enter_mode` and all below it, `pm_register_ops`, `pm_unregister_ops` |
| `MCPmSuspend`, `PmSuspendProofs` | `PmSuspend` | instances; proofs |
| `PmLists` | - | `list_move` in `dpm_suspend` and `dpm_resume`, pointer by pointer, against registering and unregistering |
| `MCPmLists` | `PmLists` | instances |
| `Rpc` | - | abstract: what the calls between the cores promise |
| `Ducc` | instantiates `Rpc` | both ioctls, the server tasks, the mailbox interrupt, the suspend of both cores |
| `MCDucc`, `DuccProofs` | `Ducc` | instance; proofs |
| `I2sDma` | - | `HAL_I2S_Open`, `_Close`, `_Write_DMA`, `_Read_DMA`, `_Trigger` and the interrupts of the DMA |
| `I2sDmaProofs` | `I2sDma` | proofs about the driver by itself |
| `AudioPcm` | extends `I2sDma` | `snd_pcm_open`, `_write`, `_flush`, `_read`, `_close` of several tasks, over the driver |
| `MCAudioPcm`, `AudioPcmProofs` | `AudioPcm`, `I2sDmaProofs` | instances; proofs |
| `NetCtrl` | - | control task, DUCC server, TCP/IP thread with the DHCP client and the interface, status callback |
| `MCNetCtrl`, `NetCtrlProofs` | `NetCtrl` | instance; proofs |

Conventions: variables and actions keep the names of the C code where TLA+
allows it. A program counter `pc`, `task` or `owner` names what a task does
next. Definitions whose comment begins with "Fault:" are not part of the
specification: they are forms that a plausible mistake would give an action, and
`PROJECT.json` ("mutants") says which property notices each.

### 2.1 Fdcm

The area is the variables `header` (a record size when it is valid), `bitmap`
(the set of cleared bits) and `slot`. Flash only clears bits between two erases:
`Program` turns a slot that is not blank into `Torn`. One action per flash
operation: `WriteBegin` (everything `fdcm_write` reads and decides up to its
first flash operation), `Erase`, `WriteHeader`, `MarkFirst`, `Mark`,
`WriteRecord`, and `Interrupt`, a power loss or flash error at the operation that
`pc` names, which may have had no effect, half an effect or all of it. Records
are numbered in the order of writing, so that "older" is `<`. `Read(ds)` is what
`fdcm_read` returns to a caller that uses records of `ds` bytes.

Abstracted: the bytes of records, the reference count of handles, more than one
task per area (`fdcm_read` and `fdcm_write` of one area are not serialised by the code). Assumed by `AreaAssumption`: a record fits, and the
16-bit size of the bitmap does not wrap.

### 2.2 OtaBoot

An image is two booleans: would its application section, and would the rest of
its sections, pass their checksums. The configuration is a `FdcmRegister`, the
specification that `Fdcm` is proved to implement; this is how the two
components compose. `trusted` records whether a boot or an update has ever used a
configuration that could not be read (the code goes on with what its stack
holds, and so does the model, with any value) or had a write of it refused
(ignored by all callers). `armed` is the watchdog: `HAL_WDG_Reboot` starts it and
returns, the code goes on, and `Watchdog` may fire at any later step. What goes on:
after a fallback the bootloader jumps to the entry of the image that has just failed
(`BootLeap`: its code starts up as an application, which finds a configuration that
names the other image, or it goes astray); after a rejection `ctrl_img_init` marks the other
image and returns; after a switch `ota_update` returns to the console task, which enables
the interrupts again (`console.c:212`, `232`) and serves the next line, and the flash is
polled, so that a queued `ota` command begins. Such an update is counted in `hasty`.
Assumed: the code of a damaged image neither writes the flash nor stops the watchdog
before it fires, and the `wdg` test command (`cmd_wdg.c`) is not used to stop it.

### 2.3 Console

The two bitmaps are sets. The task closes the interrupt around each of its
updates of the bitmaps, so every update is one step, and so is a run of the
interrupt handler for a line end. Lines are numbered; their characters are left
out. `owner` is the task in `console_start` or `console_stop`; `console_stop` polls, so it is three
steps, and `console_start` is three because the callback is enabled before the
state is set.

Two guards are the model's: `console_stop` is called only on a console that is
started (`Stop`; the code does not ask), and `console_enable` and `console_disable`
check the state and switch the interrupt in one step (`Silence`; see section 4).

### 2.4 PmSuspend

A device has one list node per kind of callback; the four lists are sequences of
nodes, head first (`Push` is `list_add`, `Unlink` is `list_del`). A `suspend` or
`resume` callback blocks, so `SuspendCall` and `SuspendDone` or `SuspendFail` are
separate steps between which other tasks `Register` and `Unregister` devices;
`noirq` callbacks run with the scheduler stopped and are one step with the move
that follows them. `down` is the history the properties need: which
devices are suspended, the latest first. `masked` and `pending` are the interrupt
mask and what `check_wakeup_irqs` would find. `misuse` is what a system may do beyond
legal use, chosen at the start from the constant `Misuses`: `"unmask"` (a `noirq` callback
returns with interrupts on), `"preempt"` (other tasks run between callbacks, not only while
one blocks), `"twice"` (a device is registered again), `"nomode"` (a mode is asked for that
has no supported one at or below it). One run has them all, and each property says which of
them it survives.

In this module moving a node with `list_move` is one step. The code does it with interrupts
on (`pm.c:442`, `513`), so that with `"preempt"` another task can register or unregister a
device between its loads and stores. Sequences cannot say what the lists are then:
`Torn(d)` is such a change of a device `d`, and also the removal of the only node between
`list_empty` and its use; it ends the model in `pc = "torn"`, and what is said of lists is
said up to that point. What happens there is in `PmLists`: the heads of
`dpm_list` and `dpm_suspended_list` and one node per device with `next` and `prev`, a
`list_move` of one step per load and store, and `Register` and `Unregister`, which the code
does mask, between any two of them. `Overwritten` and `Relinked` name the moments at which a
change is harmful, by what the suspending task has read and not yet stored; the history
`harm` remembers one (`"torn"`), a registration between the end of `dpm_suspend` and the
stop of the scheduler (`"late"`), and a list that was emptied between its test and its use
(`"gone"`). The lists go on after a harmful change, wherever the pointers lead
(`"astray"`: a `PM_BUG_ON`, an endless search, or a list head taken for a device). Every
one of the moments is needed: with any of them left out of `Overwritten` or `Relinked`,
`ListsInv` is violated. `PmLists` leaves out everything else of `pm_enter_mode`:
the `noirq` lists, whose moves have the interrupts masked, the WLAN, wake-ups, and an error
other than of a `suspend` callback.

Abstracted: statistics, debug records, the test levels of `suspend_test`; the two
`list_add`s of a device with both kinds of callbacks are one step; the search for
duplicates in `pm_register_ops` (683, 699), which walks the lists without protection, finds
none in `PmSuspend`, and is one step in `PmLists`: that the suspending task moves the very node
a slower search stands at is left out. `list_del` of a node that was never in a list has no effect, so only what is
registered is unregistered. Taken from the drivers: a device is not unregistered
inside its own callback.

### 2.5 Ducc

One channel per direction and class of commands: a hardware FIFO, the queue the
interrupt fills, a server task, the semaphore and mutex of the calls it answers. A
channel is named by the core its messages go to, so `<<"net", "normal">>` is
`DUCC_ID_APP2NET_NORMAL`; the calls of a core wait on `WaitId` and send on
`SendId`. The code of both cores is the same up to the names of commands and is
modelled once. `ducc_app_ioctl` is five steps (`Ioctl` with the check of the
suspending flag, `Lock`, `Send`, `Wake`, `Return`); a server loop is `Recv`,
`Exec`, `Reply`, and a server of the network core may make calls while it is in
`Exec`. A request is named by the task on whose stack it lies, and `req` says
whether it is there and answered; the properties are about who still refers to it.

The suspend to standby is `Standby`, the call of `wlan_power_notify` by `PmTask`,
`NetSleeps`, `SuspendFlag` and `SuspendDeinit`; to sleep it is `SuspendFlag` only.
The network core suspends inside its server task after the release has been
sent (`NetSuspend`). Either may fail at any point (`Resume`, `NetResume`). `lost` is
history: whose request or release a message box in reset has swallowed.

Taken from the hardware, not from the source: putting the message box into reset
empties it and it takes nothing while in reset; its interrupt stays pending as
long as a FIFO holds a message. Left out: `ducc_app_start` and `ducc_app_stop`
(called when no task of the WLAN runs), hibernation and power-off (before which
`pm.c` stops the WLAN), and the commands' own effects.

### 2.6 I2sDma and AudioPcm

`I2sDma` has one task per direction and a DMA with its interrupt. A pointer is an
offset in bytes into the buffer of its direction; `dma` is the half the DMA is at.
Sections with interrupts disabled are single steps: `Check` and `Copy` look at the two
counts and take a half, `Wait` and `Wake` are the semaphore, `Trigger` and `Started` the
start of the DMA with its lock taken in between, `Boundary` the end of a half with the
interrupt that follows it, which counts, wakes, and stops a DMA whose task is three
halves behind. `hung` is the interrupt waiting for that lock: nothing runs any
more. `late` is history: a half ended before the one before it was taken.

The driver has one `I2S_BUF_LENGTH` (`hal_i2s.c:111`) that every `HAL_I2S_Open` sets
(997), whatever the other direction was opened with. So there are four lengths: `bufLength` is
that variable; `half` what a direction was opened with, which `audio_pcm.c` splits writes
and reads by; `bytes` the size its buffer and DMA got; and `unit` what a call that has
begun takes for a half, since it looks once. All are of a half, not of the buffer. Opening
is two steps, `OpenLength` and `Open` or `OpenFails`, since it has no lock of its own and
the manager's has been given back: the other direction may set the variable between
997 and its use for the buffer (1002) and the DMA. `mixed[d]` is history:
while `d` was open `I2S_BUF_LENGTH` was set to something else. After that calls of `d` are
modelled as the code does them, with halves refused, dropped, or copied to the wrong
place (`Pass`, `PassCache`, `Wrap`, `HalfAt`); where one would write beyond a
buffer or the cache, memory is overwritten and the model ends (`OpenSmashes`, the label
"smashed"). Reading beyond the end of a recording buffer changes nothing else and
is not tracked.

`AudioPcm` extends it with tasks that open, write, flush, read and close. They
hold the lock of a stream from open to close (`stream`) and the manager's lock
while they open and close (`mgr`). Writes are numbers of bytes: `length` is in
the cache, `rest` is still to be passed on, `owed` is history, what was accepted or
added by a flush and not copied; when the lengths are mixed it is no longer kept. A driver
call of a task is `pc` of its direction; that every step of the composition is one of the
driver is a theorem. The digital microphone (card 1) only shares the lock of recording.

Left out: the codec and the amplifier, `aud_handler` and the playback flag, the
write lock, the driver of the microphone, transfers by interrupt without DMA,
`snd_pcm_init` and `_deinit`, samples.

### 2.7 NetCtrl

Two bounded queues and two tasks. `queue` holds messages for the control task,
from the DUCC server (`PostEvent`) and from the status callback (`PostStatus`);
`mbox` holds messages for the TCP/IP thread: `link_up` and `link_down`, which
nobody waits for, requests of the netif API, for which the control task waits
(`waits`), and replies to DHCP, which are dropped when there is no room. `ctl` is
where the control task is in `net_ctrl_msg_process` and `netif_config`; its looks at
DHCP and at the interface (`BringUp`, `IfStarted`, `BringDown`) are steps of their own,
since nothing protects them. Its priority is higher: the thread, its timers and the
arrival of packets need `ControlBlocked`.

`job` is what the TCP/IP thread does around a call of `netif_set_up` or
`netif_set_down`: binding a lease, giving one up, checking one again. Inside it the
flag changes (`Flag`), the callback posts, waiting for room (`PostStatus`), and the
rest follows (`Finish`). DHCP is the state machine of `dhcp.c` with an
address checked by ARP, all timers, and transaction identifiers: a request with a
new one makes the replies under way `stale` (`Expired`).

Assumed: the network core reports connections and disconnections in turn, one
event at a time. Left out: failed allocations, other traffic in the mailbox,
`net_sys_start` and `net_sys_stop`, access point mode, smart config and Airkiss.

## 3. Runs

Twelve runs. Those that pass have some ten thousand to 1.4 million states, and the longest
takes a minute or two.

| Run | Question | Bounds, and why they are enough |
|---|---|---|
| `MCFdcm_crash` | Is the log sound under crashes, with two record sizes, and a register? Is it erased only when it is used up? | 10 slots under 2 bitmap bytes for records of 1 byte, fewer for records of 4; 11 writes, 3 faults: the log fills and is erased, the second bitmap byte is begun, the area changes hands, and a crash can hit a log that a crash has damaged |
| `MCOtaBoot_boot` | Is a bootable image always left, and does the device come up? | any number of updates, 4 faults, 2 rotten sections, 2 updates begun while the watchdog runs: two power losses in one update and two in the next boot; a hasty update after a switch and another after the rejection it leads to |
| `MCOtaBoot_verified` | Does "verified" mean verified? (violated) | 1 rotten section is enough |
| `MCConsole_lines` | Buffers, wake-ups, order; are lines taken, does stop return? | the code's 2 buffers, 6 lines (the ring turns three times), 2 starts |
| `MCConsole_early` | Does the console task end only when it is told to? (violated) | 2 lines |
| `MCPmSuspend_devices` | Asleep means down, back means up, order, no device dropped, no hang, interrupts served, return or sleep: which of these survive which misuse? | four devices: the WLAN, one with `suspend`, one with both kinds, one with `noirq` only; 3 changes per suspend; the boards' modes and a platform with standby only; no misuse, each of the four kinds alone, and all together |
| `MCPmLists_preempted` | Are the pointers whole, and is every device suspended, when other tasks come between any two accesses, and not at one of the moments named? | three devices, so that a move has neighbours on both sides; 3 changes per suspend, and 3 once the lists are torn |
| `MCDucc_calls` | Requests, overflow, refinement of `Rpc`, do calls return? | two tasks and the suspending one on the application core, both servers of the network core calling back, 2 suspends: every channel but one is used, tasks queue for a mutex, and a second suspend finds what the first has lost |
| `MCDucc_shutdown` | Is a request ever given to a message box that is shut down? (violated) | the same |
| `MCAudioPcm_streams` | One owner, phase of task and DMA, nothing lost, a hanging interrupt, calls that return | one player, one recorder, one user of the microphone, one length; halves of 2 bytes and writes of up to 3, so that writes fill the cache exactly, leave a rest and span a half; a player may be 5 halves late and is stopped after 3, a recorder 1 (an overrun's pointer into the other buffer, `Foreign`, is then reached by the proofs only) |
| `MCAudioPcm_lengths` | What holds when the two streams may use different lengths? | one player, one recorder, halves of 2 and 4 bytes; writes of up to 3 bytes, calls of up to 2 halves; a player may be 2 halves late, enough for an underrun. Safety only: liveness is too large; so is a second player, of whom `OneOwner` and `DeadlockStays` speak as theorems, while in `streams` the two locks are met through a leak and the microphone |
| `MCNetCtrl_link` | Are requests and replies matched, is the network core told, can the interface be left without DHCP, is DHCP running in the end? | two addresses, a queue and a mailbox of 2: both fill up, a reply is behind and before every request, the tasks can hang on each other, and any number of events, timers and replies |

`CHECK_DEADLOCK FALSE` is given where the bounds on writes, lines or faults, a
`PM_BUG_ON`, a lost message that everybody waits for, overwritten memory or a torn list
really let the system, or what is said of it, stop.

One type invariant per module: those of `Fdcm`, `Console`, `PmSuspend`, `PmLists`,
`Ducc`, `AudioPcm` and `NetCtrl` are conjuncts of the invariant that their runs check. `NodesOnce`
and `EachBufferOnce` follow from them (theorems `LinkedOnce`, `BuffersAreSeparate`).
Properties hold up to these bounds; those that are also theorems (section 5)
hold without them. Symmetry is not used: order matters to the lists, and the
instances are small.

### Fairness

- `OtaBoot!Fairness`: the CPU executes (weak fairness of booting, checking,
  updating and of completing a write), and a watchdog that was started fires.
  Updates need not be asked for and power need not fail. An update begun within each
  half second before a reset would keep a device from ever running undisturbed;
  `MaxHasty` says that this ends.
- `Console!FairSpec`: the console task runs at a higher priority than the tasks
  that start it and its commands return (weak fairness of `Task`); an owner
  inside `console_start` or `console_stop` goes on. Nobody has to type.
- `PmSuspend!FairSpec`: the suspending task executes, callbacks return, and an
  interrupt that is pending wakes the CPU. Nobody has to suspend, and no
  interrupt has to come. Registration by other tasks is bounded per suspend
  (`MaxChanges`), which stands for drivers that do not register for ever.
- `Ducc!FairSpec`: tasks and interrupts that can run do, and both cores wake up
  (weak fairness). A server that waits for a mutex gets it if it is given back
  again and again, since FreeRTOS serves waiting tasks by priority and in turn,
  and a command ends, so a server makes finitely many calls in it (strong fairness
  of `Lock` and `Exec` for the servers that call back). Nobody has to call or to
  suspend; `Lock` by other tasks is only weakly fair, and `CallsReturn` begins
  where the request has been sent.

- `AudioPcm!FairSpec`: while the interrupt does not hang and no memory has been
  overwritten, a task that can go on in
  an open, a driver call or a close does, and the DMA comes to the end of its
  halves (weak fairness). A lock that is given back again and again is obtained,
  and a task that gets to the ring again and again while the DMA goes on is
  scheduled in time to take a half (strong fairness of `Acquire` and `Attend`).
  Nobody has to open, write or close.
- `NetCtrl!FairSpec`: the DUCC server posts when there is room, the control task
  runs, and a job of the TCP/IP thread goes on when the callback has room (weak
  fairness). A message is taken from the mailbox even if timers fire again and
  again, because they come at intervals (strong fairness of `Fetch`). No event, no
  timer and no reply has to come.

## 4. Findings

Each is the counterexample of a run that checks what a comment or an assertion
says.

| Run | What the code does |
|---|---|
| `MCOtaBoot_verified` | After a rejected image, `ctrl_img_init` goes on past `HAL_WDG_Reboot`, logs "check sections OK" and stores the other image, unchecked, as verified (`ctrl_img.c:86`). `MarksAreChecked` proves that this is the only way an unchecked image is marked, and what has to go wrong first. |
| `MCConsole_early` | A line between enabling the callback and setting the state ends the console task of a console that is then "started" (`console.c:293`). `EarlyEnd` proves that it ends untold in no other way, `StaysDeaf` that it then executes nothing until it is stopped. |
| `MCDucc_shutdown` | `ducc_app_ioctl` checks the suspending flag before it waits for the mutex: a caller that waited sends its request into a message box in reset, waits for ever and keeps the mutex (`ducc_app.c:153`). `OnlyShutdownLoses` proves that nothing else loses a message, `LostCallsStay` that caller and channel do not recover. |

Observed while modelling, without a run of their own:

- `ota.c:366`: an `ota` command queued behind one that succeeds is served before the
  watchdog fires: it erases the image just installed, which the configuration already
  names (unverified); the other image then has to carry the next boot, and does
  (`KeepsIntactImage`). Queued behind a rejection it replaces the image whose code runs.
- `bootloader.c:168`: the fallback goes on into the image that has just failed its
  check, for the half second the watchdog takes.
- `pm.c:385`: a `noirq` callback that succeeds with interrupts on ends the loop without an
  error (the comment at 359 says "for all devices"), and the system sleeps with devices up.
  `AllDownWhenAsleep`, `AllUpWhenBack` and `ResumesLatestFirst` fail without their exception
  for `"unmask"`.
- `pm.c:636`: a device that another task registers between the last look at `dpm_list`
  (427) and the stop of the scheduler stays up during the sleep: `AllDevicesDown` fails
  without its exception for `"late"`, `AllDownWhenAsleep` without that for `"preempt"`.
- `pm.c:442`, `513`: `list_move` runs with interrupts on. A registration between its load of
  `entry->prev` and its stores (442), or between its load of the head and its last
  store (513), is overwritten: the device is in no list, is not suspended, and is registered no
  less. A device unregistered there may be linked again, and unregistering or searching then goes
  wherever the pointers lead. `ListsInv` fails without its exception for `"torn"`.
- `pm.c:427`, `503`: the only device in a list may be unregistered between `list_empty`
  and the use of its first node; the list head is then called as a device.
- `pm.c:850`: with no supported mode at or below the one asked for, the search
  passes `PM_MODE_ON` in an unsigned type and the assertion hangs the device.
- `pm.c:674`: `pm_register_ops` looks for duplicates to tolerate them, but its
  first test hangs on any of them; `pm_test` registers one twice (966-967).
- `pm.c:442`: a device that is unregistered while its own `suspend` callback blocks
  is linked again by `list_move`; drivers wait for their callback first.
- `console.c:95`, `174`: what is left of a line that was too long, or whose beginning
  met no free buffer, is executed as a command. `console.c:340`:
  `console_enable` checks the state, and a `console_stop` in between leaves the
  interrupt on a deleted semaphore.
- `fdcm.c:170`: the mutex protects the reference count only, its timeout is
  ignored, and `fdcm_deinit` (303) resets the count with handles open.
- `at_queue.c:67`: bytes that find no room are dropped, yet one is taken from
  the empty queue; its count becomes -1.
- results ignored (`fdcm.c:272`, `ota.c:365`, `pm.c:638`), lengths and offsets
  of images: `boot_size` has been counted down to 0 when the room for the
  image is computed from it (`ota.c:128`, `334`).

Audio:

- `hal_i2s.c:997`: opening one direction sets the length by which the other one's calls
  go (`mixed`). With recording opened with a larger buffer during playback, the driver
  refuses the full cache of a write (760-762), and `audio_pcm.c:153-154` drops it; with a
  smaller one it takes smaller halves. Its pointer wraps at the end of a buffer of the
  other length (778, 824) and restarts at its middle (798), while buffer and DMA keep
  theirs: task and DMA part, halves are copied beyond the buffer, or more is left for the cache
  than it has room for (`audio_pcm.c:160-171`). Two directions opened at the same time
  race for it (997, 1002, 1008), and more may be cleared than was allocated. Nothing in
  the repository says that the lengths may differ, so there is no run that refutes it;
  what holds of a stream until then, and of all streams with one length,
  are `InPhase`, `WithinBuffer` and `NothingLost`.
- `audio_pcm.c:262`: a second player waits for the stream with the manager's lock
  held, which the first needs to close it: both wait for ever (`Deadlocked`, the
  theorem `DeadlockStays`), and so does whoever opens or closes on card 0.
- `hal_i2s.c:767`: the interrupt may stop the DMA between a task's look at
  `txRunning` and its disabling of interrupts: the task waits for an interrupt
  that does not come (`Lost`; `LostStay` proves that nothing but this makes a task
  lost, and that it stays so).
- `hal_i2s.c:548`: the interrupt waits for `devTriggerLock`, so the system hangs when
  a task holds it (`HangsOnlyWhenLate` says when).
- `audio_pcm.c:325`: when the I2S cannot be opened, the lock of the stream is kept
  and nobody opens it again (`Leaked`, the theorem `LeakStays`); so it is with the
  playback flag when memory runs out.
- `audio_pcm.c:400`: closing a recording switches the speaker's amplifier off, because
  `current_outdev` decides; `snd_pcm_read` of card 1 takes the path of card 0.
- `hal_i2s.c:872`: after an overrun recording goes on at an address in the playback
  buffer; 613: the end interrupt of recording sets `rxDmaPointer` to the half just
  left. 812: a task that woke up late takes both counts down without bringing its
  pointer and the DMA together.

Network:

- `net_ctrl.c:117`: with the link already down, the interface is set down, its
  address cleared and DHCP stopped by three requests. An ACK that is in the mailbox
  between them binds the lease again; then DHCP is stopped. The interface is
  up with an address nobody renews; "connected" finds it "already up", "disconnected"
  finds DHCP off, and neither starts DHCP again (`Stranded`, the theorem `StrandedStays`).
- `net_ctrl.c:68`, `208`: the control task waits for the TCP/IP thread, which waits in
  the status callback for room in the control task's queue, which the DUCC server
  has filled; the server waits too (`Hung`, the theorem `HangsForEver`). It takes
  as many unread messages as the queue is long, 16.
- `net_ctrl.c:112`: the branch is chosen by the link flag before the `link_down`
  just posted has been processed: DHCP is then released over a WLAN that is gone.
- `net_ctrl.c:107-123`: bringing the interface down a second time by command, with the
  link up, releases DHCP after it was stopped, without a socket.
- `net_ctrl.c:279`, `288`: a failed `tcpip_callback` is ignored, and the link never
  follows. `net_sys_stop` clears `g_wlan_netif` while the control task uses it.
- `dhcp.c:1610`: an ACK to a renewal binds the old offer whatever address it names;
  346, 351: the lease timers count on below 0. The network core is never told
  that an address is gone.
- that the network core is told the address rests on the priority of the control
  task: without it, it could read the address before a new one is set (the
  fault `NoPriority`).

## 5. Proofs

| Theorem | Says | From |
|---|---|---|
| `FdcmProofs!LogIsSound` | `[]LogInv` | marks do not fail silently |
| `FdcmProofs!CommittedIsReadable`, `NeverReadsOlder`, `OnlyBlankSlots` | the three safety properties | the same |
| `FdcmProofs!LogImplementsRegister` | `Spec => ImplementsRegister` | the same |
| `OtaBootProofs!BootIsOnTrack`, `RunningImageIsSafe`, `IntactImageRemains` | `[]BootInv` and the two safety properties | - |
| `OtaBootProofs!MarksAreChecked` | `MarksChecked`: which images are ever stored as verified | - |
| `OtaBootProofs!ConfigurationIsRegister` | `UsesRegister`: every step uses the configuration as a register | - |
| `OtaBootProofs!BootingEnds`, `BootNeverWaits` | `ComesNearer`, `[]NeverWaitsInVain`: a chain of fallbacks and reboots ends in an image that runs | between two faults, with an intact image (that one remains is `IntactImageRemains`) |
| `ConsoleProofs!ConsoleIsSound`, `BuffersAreSeparate`, `WakeUpsMatchLines`, `LinesInOrder` | `[]ConsoleInv` and the three safety properties, for any number of buffers | - |
| `ConsoleProofs!EarlyEnd`, `StaysDeaf` | `EndsOnlyByEarlyLine`, `DeafUntilStopped`: when the task ends untold, and what follows | - |
| `ConsoleProofs!LinesComeNearer` | `ServedSooner`: every step of the task lowers the rank of every ready line | the console is started and has its task |
| `ConsoleProofs!StopWakes`, `StopEnds` | `[]StopHeard`, `StopNearer`: the task is woken up and ends in at most five steps | - |
| `PmSuspendProofs!Invariance`, `LinkedOnce` | `[]PmInv`, `[]NodesOnce`, for any devices and any misuse | lists up to the first change that falls into a `list_move` |
| `PmSuspendProofs!DevicesKept` | `KeepsDevices`: no device is dropped or linked again by a suspend, a failure or a second registration | the same |
| `PmSuspendProofs!SuspendingEnds` | `SuspendAdvances`: every step of the suspending task lowers its rank | a device that another task registers or unregisters excepted |
| `PmSuspendProofs!AllUp`, `LatestFirst` | every device up at return; resuming in reverse | no `noirq` callback opens the interrupts |
| `PmSuspendProofs!AllDown` | every device down when asleep | moreover nobody preempts the suspending task |
| `PmSuspendProofs!NeverHangs` | no `PM_BUG_ON` | legal registration and modes, interrupts stay masked; preemption is allowed |
| `DuccProofs!Invariance`, `LiveRequests`, `NoOverflow` | `[]DuccInv` and the two safety properties, for any tasks, any use of the channels and any number of suspends | - |
| `DuccProofs!Refinement` | `Spec => ImplementsRpc` | - |
| `DuccProofs!EveryWaitIsOwed` | `[]WaitsAreOwed`: who waits has something under way, or its message was lost | - |
| `DuccProofs!OnlyShutdownLoses`, `LostCallsStay` | `LostOnlyByShutdown`, `LostForEver`: what loses a message, and that its caller and the channel stay blocked | - |
| `FdcmProofs!ErasedOnlyWhenUsedUp` | the area is erased only when bits, slots or the cap are used up | also when marks fail |
| `TypeCorrect` in `FdcmProofs`, `OtaBootProofs`, `ConsoleProofs`, `PmSuspendProofs`, `DuccProofs`, `NetCtrlProofs` | `[]TypeOK` | - |
| `I2sDmaProofs!DmaInvariance`, `KeepsInPhase`, `HangsLate` | the driver's invariant, `[]InPhase`, `[]HangsOnlyWhenLate`, for any lengths, sizes of calls and delays | one task per direction; phase while the other direction is not opened with another length |
| `I2sDmaProofs!LostStay` | `LostForEver`: how a task gets lost, and that nothing wakes it | - |
| `AudioPcmProofs!Invariance`, `WritesLoseNothing` | `[]AudioInv`, `[]NothingLost`, for any tasks, lengths and sizes | callers close what they open; bytes are accounted for while recording is not opened with another length |
| `AudioPcmProofs!StreamsStayWithin` | `[]WithinBuffer`: only two lengths at a time make the driver write beyond a buffer | - |
| `AudioPcmProofs!ImplementsDriver`, `StreamsKeepInPhase`, `StreamsHangLate` | the streams use the driver as `I2sDma` describes, so its properties carry over | phase as above |
| `AudioPcmProofs!DeadlockStays` | two tasks that want one stream never get on | - |
| `AudioPcmProofs!LeakStays` | `LeakedForEver`: after a failed open nobody opens the direction again | callers close only what they have opened |
| `NetCtrlProofs!Invariance`, `AddressTold`, `LateLease` | `[]NetInv`, `[]ToldOrOnItsWay`, `StrandedOnlyByLateLease`, for any addresses, queue and mailbox | events in turn, no failed allocations |
| `NetCtrlProofs!HangsForEver` | a hang of control task and TCP/IP thread never ends | - |
| `NetCtrlProofs!StrandedStays` | `StrandedForEver`: a stranded interface keeps its address, and no request about it is made | events in turn, no failed allocations |
| `NetCtrlProofs!RequestsComeNearer` | `RequestInTurn`: nothing overtakes the request that is waited for | the same |

The conditions on the right exclude what section 4 reports: ignored results of
marks, callbacks that open the interrupts, late registration, changes inside a
`list_move`, unsupported modes, duplicates, and a second length of buffer. The assumptions on constants (`...Assumption` in the modules) are
evaluated by TLC in every run.

The arguments:

- **Fdcm.** Readability alone is not inductive: what a read returns depends on
  the bitmap being an initial segment and on which slots are blank. `LogInv` says
  that under a valid header the cleared bits are exactly `0 .. n - 1`, all slots
  from `n` on are blank, and what each flash operation finds (`WriteProgress`) and
  leaves (`WriteResult`). The lemmas on `BitsCounted` and `BitCount` show that the
  byte-wise count is `n` on such a bitmap. Refinement follows action by action:
  a write begins `BeginWrite`, the record completes it, an erase or a mark is
  `DropOld` or a stutter.
- **OtaBoot.** `OnTrack` ties the code's copy of the configuration to the stored
  one, and to the image that runs as long as the watchdog does not, at every program
  point; `ImagesKept` is the safety property with the record being written included, and
  with what an update relies on: that the image beside the one it replaces is intact. For `MarksAreChecked` and
  `BootingEnds` the proofs add what a rejection leaves behind: an image that has
  failed is not the one the fallback record names, and the record being written is
  the one the program point is about. `BootRank` puts an image that runs at 0, a
  configuration that names an intact image before one that does not, a
  rejection above the reboot with the other image, and everything done with the
  watchdog running above the boot it leads to.
- **Console.** `Ring`: seen from the buffer executed last, the buffers are the one
  being executed, then the ready ones, then the one being received into, then the
  free ones, in the order of the indices; `Announced` counts the semaphore
  against the ready ones; `Typed` orders the lines along the ring. The lemmas are
  about `Dist`, the distance along the ring. The rank of a line is its distance from
  the buffer executed last, and then the steps to the next execution. That a stop is
  heard rests on who owns the console: `console_stop` sets the state first and then
  gives the semaphore, and nothing takes it but the task.
- **PmSuspend.** `DownAreListed`: the stack `down` is the node whose resume
  callback runs, then `dpm_noirq_list`, then `dpm_suspended_list`; the latest
  suspended device is then by definition at the head of the list that is resumed
  next. `Phases` says which lists are empty when, `WlanStaysOff` that the condition
  evaluated twice gives one answer. The lemmas are about removing from and
  pushing onto sequences without duplicates. That no device is dropped follows from
  `NodesOnce` and `InHand`: a node that is moved is in the list it is taken from, and
  in no other. All of it is said of lists that are lists, hence of `pc # "torn"`. The rank of `SuspendAdvances` is the stage of `pm_enter_mode`, and
  within one the length of the list that is worked on.

- **Ducc.** That a server only writes to a request whose caller waits is not
  inductive: it rests on where the request or its release is before. `DuccInv`
  says that the call that holds a channel's mutex is in one place at a time
  (`OnePlace`: request in the FIFO, in the queue or with the server, release in the
  FIFO or in the semaphore), that its caller waits and its result is there once
  the server has written it (`Awaited`), and that FIFOs, queues and servers hold
  nothing else (`Contents`), so that a lost message leaves nothing behind. The proof
  has a lemma per action, each of which looks at the channel that moves and at the
  others; the lemmas before them are about the messages of a FIFO as a set. In the
  refinement `Lock` is `Call`, `Exec` is `Execute`, `Return` is `Return`, and
  everything else a stutter. `WaitsAreOwed` is the converse of `OnePlace`: a caller that
  waits has its call in some place unless the box in reset swallowed it, and then
  nothing is left; its proof follows the same lemmas.

- **I2sDma.** The two counts say how far the DMA is ahead of the task. `Phase`
  says that a task that was never late has taken all halves but the one that is
  due; `DmaOff` and `WakeUps` what the pointers and the semaphore are when the DMA was
  stopped and when a wake-up is under way. Stop and restart bring pointer and DMA together again.
  Both need `OneLength`: until another length comes across (`mixed`) the four lengths of a direction
  agree, and the pointer of playback is at the start of one of two halves; the rest of
  the invariant holds whatever the lengths are.
  A lost task is one that `WakeUps` gives no wake-up: its DMA is off, and only it could start it.
- **AudioPcm.** `OneOwner` gives each direction of the driver its only task,
  `Roles` which calls a task makes, `Balance` how `owed` is divided between cache, rest
  and the call under way at each point of a write or flush (`Account`), until the lengths are
  mixed. Driver steps keep what
  `I2sDmaProofs` shows; steps of the streams change the driver only by opening,
  closing and calling it while it is idle. A leaked stream needs one more invariant, that a
  stream is locked by tasks of its direction: none of them is open, so none gives it back.
- **NetCtrl.** `RequestInv` puts the request the control task waits for in the mailbox
  exactly once or into the job at hand. `JobInv` and `LeaseInv` say what DHCP
  and the interface are around a callback, and that only a control task between
  clearing the address and stopping DHCP can meet an interface without a lease that is
  up. `StartInv` rests on the transaction identifiers: replies in the mailbox of a
  client that is starting are behind the request to start it. Lemmas on sequences
  say how appending, taking and expiring keep these.

What the predicates proved here say (`ComesNearer`, `ServedSooner`,
`LostForEver` and the others that no run lists) stands with the properties of their
modules. Each was checked with TLC on the instance of the module's run before it was
proved; the runs check what it is there to explain.

Only model-checked: liveness (`ComesUp`, `Served` of the console and of the network,
`StopReturns`, `InterruptServed`, `EnterModeReturns`, `CallsReturn` of the calls between the cores
and of audio), which needs fairness and `ENABLED`, out of the prover's reach. What
they rest on is proved where it can be said of single steps: that each step lowers a
rank (`BootingEnds`, `LinesComeNearer`, `StopEnds`, `SuspendingEnds`,
`RequestsComeNearer`), that nobody waits for what is not under way (`BootNeverWaits`, `StopWakes`,
`EveryWaitIsOwed`), and that the exceptions the liveness properties name - a lost call, a
lost task, a hang, two tasks on one stream - and the state a leak or a late lease leaves do last
(`LostCallsStay`, `LostStay`, `HangsForEver`, `DeadlockStays`, `LeakStays`, `StrandedStays`), so that they are
no weaker than they have to be. The rest is that the steps are taken.

## 6. Plan

Done, in this order: `Fdcm`, `OtaBoot`, `Console`, `PmSuspend` with `PmLists`, `Ducc`,
`I2sDma` with `AudioPcm`, `NetCtrl`, each with its abstract specification where it has one, its
run and its theorems. What would come next:

1. `FdcmHandle`: two tasks over open, close and deinit of the reference count.
2. Starting and stopping the network (`net_sys_start`, `net_sys_stop`) with `Ducc`'s start
   and stop, over `NetCtrl`.
3. `HalDma`: channels requested and released; `AtQueue`; `Mbuf` as operators on
   chains checked against a reference definition.
4. Composing `PmSuspend` with `Ducc` as one of its devices.

## 7. Not modelled

What hardware registers do, the WLAN stack (binary), parsing and formatting,
cryptography and checksums (an image "passes" or not), vendored libraries, and
the commands and demos, which only call what is described here. Nine tenths of
the C in the repository are such libraries, tables and register descriptions; of lwIP only
the parts that the control task drives are modelled. `PROJECT.json` gives the
reason for each component.
