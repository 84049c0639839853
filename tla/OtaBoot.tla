------------------------------ MODULE OtaBoot -------------------------------
(***************************************************************************)
(* Booting and updating over the air: the bootloader, which picks one of   *)
(* two images by the boot configuration; ctrl_img_init, which the booted   *)
(* application runs to check an image that is not verified yet; and        *)
(* ota_update, which replaces an image and switches the configuration.     *)
(* The boot configuration is a record kept by fdcm, used here as the       *)
(* register fdcm.c is shown to implement.                                  *)
(*                                                                         *)
(* An image is reduced to whether its application section and the rest of  *)
(* its sections would pass their checksums.  Power may be lost at every    *)
(* step and the flash may refuse a write of the configuration.             *)
(* HAL_WDG_Reboot only starts a 500 ms watchdog and returns, so code that  *)
(* "reboots" goes on until the watchdog fires: the bootloader jumps into   *)
(* the image it has just found damaged, and the console serves its next    *)
(* command, which may be another update.                                   *)
(***************************************************************************)
EXTENDS Integers

CONSTANTS
  MaxFaults,   \* bound: power losses and refused writes
  MaxDecay,    \* bound: sections that rot in flash
  MaxHasty,    \* bound: updates begun while the watchdog already runs
  NoRecord     \* the configuration area holds no usable record

ASSUME BoundsAssumption == MaxFaults \in Nat /\ MaxDecay \in Nat /\ MaxHasty \in Nat

Image == {1, 2}
Other(i) == 3 - i
Record == [image : Image, state : {"unverified", "verified"}]

\* What an ota_cfg on the stack may hold when nothing was stored in it.
AnyCfg == [image : Image \cup {0}, state : {"unverified", "verified", "junk"}]

ASSUME NoRecordAssumption == NoRecord \notin Record

VARIABLES
  app, rest,   \* [Image -> BOOLEAN]: do these sections pass their check?
  reg,         \* the boot configuration that a read would return
  pending,     \* the configuration being written, NoRecord if none is
  pc,          \* where the CPU is
  cfg,         \* the configuration the running code works with
  booted,      \* the image whose application was loaded, 0 before that
  seq,         \* image_priv.image_seq, 0 as long as image_init has not run
  armed,       \* the reboot watchdog runs
  faults, decay, hasty,
  trusted      \* no boot missed its configuration, no write of it was refused

flash == <<app, rest>>
vars == <<app, rest, reg, pending, pc, cfg, booted, seq, armed, faults, decay, hasty, trusted>>

Cfg == INSTANCE FdcmRegister WITH Records <- Record

Intact(i) == app[i] /\ rest[i]

\* The program points at which a write of the configuration is in progress.
Writing == {"fallback", "reject", "accept", "acceptother", "switch"}
Updating == {"erase", "fetchapp", "fetchrest", "verify"}
PC == {"boot", "load", "leap", "init", "check", "rejected", "run", "hang"}
        \cup Writing \cup Updating

Init ==
  /\ app \in [Image -> BOOLEAN] /\ rest \in [Image -> BOOLEAN]
  /\ reg \in Record /\ Intact(reg.image)
  /\ pending = NoRecord
  /\ pc = "boot"
  /\ cfg = reg
  /\ booted = 0 /\ seq = 0
  /\ armed = FALSE
  /\ faults = 0 /\ decay = 0 /\ hasty = 0
  /\ trusted = TRUE
-----------------------------------------------------------------------------
(* ota_read_cfg.  Its callers ignore a failure, and go on with whatever    *)
(* the stack held.                                                         *)
ReadCfg ==
  /\ cfg' \in IF reg \in Record THEN {reg} ELSE AnyCfg
  /\ trusted' = (trusted /\ reg \in Record)

\* The bootloader up to image_init; a configuration that names no image ends
\* in BOOT_ABORT.
BootReadCfg ==
  /\ pc = "boot"
  /\ ReadCfg
  /\ pc' = IF cfg'.image \in Image THEN "load" ELSE "hang"
  /\ UNCHANGED <<flash, reg, pending, booted, seq, armed, faults, decay, hasty>>

\* The bootloader loads and checks the application section.
BootLoad ==
  /\ pc = "load"
  /\ app[cfg.image]
  /\ booted' = cfg.image
  /\ pc' = "init"
  /\ UNCHANGED <<flash, reg, pending, cfg, seq, armed, faults, decay, hasty, trusted>>

\* Fault: the fallback forgets to change the image.
BootFallbackToItself ==
  /\ pc = "load"
  /\ ~app[cfg.image]
  /\ cfg' = [cfg EXCEPT !.state = "unverified"]
  /\ Cfg!BeginWrite(cfg')
  /\ pc' = "fallback"
  /\ UNCHANGED <<flash, booted, seq, armed, faults, decay, hasty, trusted>>

BootFallback ==
  /\ pc = "load"
  /\ ~app[cfg.image]
  /\ cfg' = [image |-> Other(cfg.image), state |-> "unverified"]
  /\ Cfg!BeginWrite(cfg')
  /\ pc' = "fallback"
  /\ UNCHANGED <<flash, booted, seq, armed, faults, decay, hasty, trusted>>

\* reboot() has returned, and the bootloader jumps to the entry that the header
\* of the damaged application names: its code starts up, or it goes astray.
BootLeap ==
  /\ pc = "leap"
  /\ \/ pc' = "init" /\ booted' = Other(cfg.image)
     \/ pc' = "hang" /\ UNCHANGED booted
  /\ UNCHANGED <<flash, reg, pending, cfg, seq, armed, faults, decay, hasty, trusted>>

\* ctrl_img_init: read the configuration, choose the image.
InitReadCfg ==
  /\ pc = "init"
  /\ ReadCfg
  /\ seq' = cfg'.image
  /\ pc' = IF cfg'.image \in Image /\ cfg'.state # "verified" THEN "check" ELSE "run"
  /\ UNCHANGED <<flash, reg, pending, booted, armed, faults, decay, hasty>>

\* ctrl_img_init: all sections of an unverified image are checked.
InitAccept ==
  /\ pc = "check"
  /\ Intact(seq)
  /\ cfg' = [cfg EXCEPT !.state = "verified"]
  /\ Cfg!BeginWrite(cfg')
  /\ pc' = "accept"
  /\ UNCHANGED <<flash, booted, seq, armed, faults, decay, hasty, trusted>>

InitReject ==
  /\ pc = "check"
  /\ ~Intact(seq)
  /\ cfg' = [image |-> Other(cfg.image), state |-> "unverified"]
  /\ Cfg!BeginWrite(cfg')
  /\ pc' = "reject"
  /\ UNCHANGED <<flash, booted, seq, armed, faults, decay, hasty, trusted>>

\* The watchdog is started, and the code goes on to mark the other image.
InitRejected ==
  /\ pc = "rejected"
  /\ armed' = TRUE
  /\ cfg' = [cfg EXCEPT !.state = "verified"]
  /\ Cfg!BeginWrite(cfg')
  /\ pc' = "acceptother"
  /\ UNCHANGED <<flash, booted, seq, faults, decay, hasty, trusted>>
-----------------------------------------------------------------------------
(* ota_update *)

\* Fault: the meaning of the state is exchanged.
TargetExchanged(c) == IF c.state = "verified" THEN c.image ELSE Other(c.image)

\* The image ota_update replaces.
Target(c) == IF c.state = "unverified" THEN c.image ELSE Other(c.image)

\* The console serves an update also when the watchdog is running: a command
\* queued behind an update that succeeded, or given to an image about to go.
Hasten ==
  /\ armed => hasty < MaxHasty
  /\ hasty' = IF armed THEN hasty + 1 ELSE hasty

\* Fault: a configuration that could not be read is not refused.
UpdateBeginUnread ==
  /\ pc = "run"
  /\ Hasten
  /\ \E c \in (IF reg \in Record THEN {reg} ELSE AnyCfg) :
       cfg' = [c EXCEPT !.image = Target(c)]
  /\ pc' = "erase"
  /\ UNCHANGED <<flash, reg, pending, booted, seq, armed, faults, decay, trusted>>

UpdateBegin ==
  /\ pc = "run"
  /\ Hasten
  /\ \E c \in (IF reg \in Record THEN {reg} ELSE AnyCfg) :
       /\ c \in Record
       /\ cfg' = [c EXCEPT !.image = Target(c)]
  /\ pc' = "erase"
  /\ UNCHANGED <<flash, reg, pending, booted, seq, armed, faults, decay, trusted>>

\* The whole image is erased; ota_update gives up when the flash refuses.
UpdateErase ==
  /\ pc = "erase"
  /\ app' = [app EXCEPT ![cfg.image] = FALSE]
  /\ rest' = [rest EXCEPT ![cfg.image] = FALSE]
  /\ pc' \in {"fetchapp", "run"}
  /\ UNCHANGED <<reg, pending, cfg, booted, seq, armed, faults, decay, hasty, trusted>>

\* Sections are received and programmed; what the server sends may be damaged.
UpdateFetchApp ==
  /\ pc = "fetchapp"
  /\ \E ok \in BOOLEAN : app' = [app EXCEPT ![cfg.image] = ok]
  /\ pc' = "fetchrest"
  /\ UNCHANGED <<rest, reg, pending, cfg, booted, seq, armed, faults, decay, hasty, trusted>>

UpdateFetchRest ==
  /\ pc = "fetchrest"
  /\ \E ok \in BOOLEAN : rest' = [rest EXCEPT ![cfg.image] = ok]
  /\ pc' = "verify"
  /\ UNCHANGED <<app, reg, pending, cfg, booted, seq, armed, faults, decay, hasty, trusted>>

\* The transfer or the programming fails, or the check does.
UpdateGiveUp ==
  /\ \/ pc \in {"fetchapp", "fetchrest"}
     \/ pc = "verify" /\ (seq = 0 \/ ~Intact(cfg.image))
  /\ pc' = "run"
  /\ UNCHANGED <<flash, reg, pending, cfg, booted, seq, armed, faults, decay, hasty, trusted>>

\* Fault: the downloaded image is not checked.
UpdateSwitchUnchecked ==
  /\ pc = "verify"
  /\ cfg' = [cfg EXCEPT !.state = "unverified"]
  /\ Cfg!BeginWrite(cfg')
  /\ pc' = "switch"
  /\ UNCHANGED <<flash, booted, seq, armed, faults, decay, hasty, trusted>>

UpdateSwitch ==
  /\ pc = "verify"
  /\ seq # 0 /\ Intact(cfg.image)
  /\ cfg' = [cfg EXCEPT !.state = "unverified"]
  /\ Cfg!BeginWrite(cfg')
  /\ pc' = "switch"
  /\ UNCHANGED <<flash, booted, seq, armed, faults, decay, hasty, trusted>>
-----------------------------------------------------------------------------
(* Writing the configuration, and what follows it.                         *)

WriteDropsOld ==
  /\ pc \in Writing
  /\ Cfg!DropOld
  /\ UNCHANGED <<flash, pc, cfg, booted, seq, armed, faults, decay, hasty, trusted>>

\* The callers go on: after reboot(), after HAL_WDG_Reboot() in ota_update, into
\* it after a rejection, and out of ctrl_img_init.
AfterWrite ==
  \/ pc = "fallback" /\ pc' = "leap" /\ armed' = TRUE
  \/ pc = "switch" /\ pc' = "run" /\ armed' = TRUE
  \/ pc = "reject" /\ pc' = "rejected" /\ UNCHANGED armed
  \/ pc \in {"accept", "acceptother"} /\ pc' = "run" /\ UNCHANGED armed

WriteDone ==
  /\ Cfg!CompleteWrite
  /\ AfterWrite
  /\ UNCHANGED <<flash, cfg, booted, seq, faults, decay, hasty, trusted>>

\* The result of ota_write_cfg is ignored by all its callers.
WriteRefused ==
  /\ faults < MaxFaults
  /\ faults' = faults + 1
  /\ Cfg!AbortWrite
  /\ AfterWrite
  /\ trusted' = FALSE
  /\ UNCHANGED <<flash, cfg, booted, seq, decay, hasty>>
-----------------------------------------------------------------------------
(* A reset loses everything but the flash.                                 *)
Restart ==
  /\ \/ Cfg!AbortWrite
     \/ pending = NoRecord /\ UNCHANGED <<reg, pending>>
  /\ pc' = "boot"
  /\ booted' = 0 /\ seq' = 0
  /\ armed' = FALSE
  /\ UNCHANGED <<flash, cfg, decay, hasty, trusted>>

Watchdog ==
  /\ armed
  /\ Restart
  /\ UNCHANGED faults

PowerLoss ==
  /\ faults < MaxFaults
  /\ faults' = faults + 1
  /\ Restart

Decay(i) ==
  /\ decay < MaxDecay
  /\ decay' = decay + 1
  /\ \/ app' = [app EXCEPT ![i] = FALSE] /\ UNCHANGED rest
     \/ rest' = [rest EXCEPT ![i] = FALSE] /\ UNCHANGED app
  /\ UNCHANGED <<reg, pending, pc, cfg, booted, seq, armed, faults, hasty, trusted>>

Boot == BootReadCfg \/ BootLoad \/ BootFallback \/ BootLeap
InitImg == InitReadCfg \/ InitAccept \/ InitReject \/ InitRejected
Update == UpdateErase \/ UpdateFetchApp \/ UpdateFetchRest \/ UpdateGiveUp \/ UpdateSwitch
Write == WriteDropsOld \/ WriteDone

Next ==
  \/ Boot \/ InitImg
  \/ UpdateBegin \/ Update
  \/ Write \/ WriteRefused
  \/ Watchdog \/ PowerLoss
  \/ \E i \in Image : Decay(i)

Spec == Init /\ [][Next]_vars

\* The CPU executes, and a running watchdog fires; updates need not be asked
\* for, and a write that lost the old record goes on to complete.
Fairness ==
  /\ WF_vars(Boot) /\ WF_vars(InitImg) /\ WF_vars(Update)
  /\ WF_vars(WriteDone) /\ WF_vars(Watchdog)

FairSpec == Spec /\ Fairness
-----------------------------------------------------------------------------
TypeOK ==
  /\ app \in [Image -> BOOLEAN] /\ rest \in [Image -> BOOLEAN]
  /\ reg \in Record \cup {NoRecord} /\ pending \in Record \cup {NoRecord}
  /\ pc \in PC
  /\ cfg \in AnyCfg
  /\ booted \in Image \cup {0} /\ seq \in Image \cup {0}
  /\ armed \in BOOLEAN /\ trusted \in BOOLEAN
  /\ faults \in 0 .. MaxFaults /\ decay \in 0 .. MaxDecay
  /\ hasty \in 0 .. MaxHasty

\* As long as every boot found its configuration and no write of it was
\* refused, an update only ever erases and programs the image that is not the
\* one running (ota.c:287-300 with ctrl_img.c:76-92).  Once the watchdog runs,
\* the configuration may name the other image, and this no longer holds: the
\* image that has failed its check is then replaced while its code executes.
NeverUpdatesRunning ==
  trusted /\ ~armed /\ pc \in Updating => cfg.image # booted

\* ... so that whatever point of a boot or an update the power is lost at, an
\* intact image remains, and the configuration, when it can be read at all,
\* names one.  Only an update begun while the watchdog runs may erase the image
\* the configuration names, and then one not marked as verified.
KeepsIntactImage ==
  trusted /\ decay = 0 =>
    /\ \E i \in Image : Intact(i)
    /\ reg # NoRecord /\ (reg.state = "verified" \/ hasty = 0) => Intact(reg.image)

\* The strengthening of the two properties that every step preserves.
WriteInProgress == pending # NoRecord => pc \in Writing

\* Code that names an image by its configuration has one to name.
CfgInHand ==
  /\ pc \in {"load", "leap", "check", "rejected"} \cup Writing \cup Updating => cfg.image \in Image
  /\ pc = "check" => seq \in Image

\* What the running image knows of the configuration.
Verified(i) == reg \in Record /\ reg.image = i /\ reg.state = "verified"

\* The image whose code runs is the one of the configuration, until the watchdog
\* has been started.
OnTrack ==
  /\ pc = "load" => reg \in Record /\ cfg = reg
  /\ pc \in {"fallback", "leap"} => ~app[Other(cfg.image)]
  /\ pc \in {"fallback", "reject", "switch"} => pending = cfg
  /\ pc \in {"leap", "rejected"} => reg \in Record /\ cfg = reg
  /\ pc = "leap" => armed
  /\ pc \in {"init", "check", "run"} \cup Updating => reg \in Record
  /\ pc = "init" => reg.image = booted \/ armed
  /\ pc = "check" => cfg = reg /\ seq = reg.image /\ (reg.image = booted \/ armed)
  /\ pc \in {"accept", "acceptother"} =>
       pending.state = "verified" /\ (pending.image = booted \/ armed)
  /\ pc = "run" => Verified(booted) \/ armed
  /\ pc \in Updating => cfg.image = Target(reg) /\ (Verified(booted) \/ (armed /\ hasty # 0))

\* ... and of the images, as long as no section rots: what is not intact is
\* neither verified nor about to be named, and has another one beside it.
ImagesKept ==
  /\ \E i \in Image : Intact(i)
  /\ reg # NoRecord /\ (reg.state = "verified" \/ hasty = 0) => Intact(reg.image)
  /\ pending # NoRecord => Intact(pending.image)
  /\ pc = "rejected" => Intact(reg.image)
  /\ pc \in Updating \cup {"switch"} => Intact(Other(cfg.image))
  /\ pc = "run" /\ reg.state = "unverified" => Intact(Other(reg.image))

BootInv ==
  /\ TypeOK
  /\ WriteInProgress
  /\ CfgInHand
  /\ trusted => OnTrack
  /\ trusted /\ decay = 0 => ImagesKept

\* The device comes up again after power losses, rejected updates and rotten
\* sections, as long as the configuration survives and one image is intact.
ComesUp ==
  pc = "boot" ~> (pc = "run" /\ ~armed) \/ ~trusted \/ ~(\E i \in Image : Intact(i))

\* "check sections OK: seq %d" (ctrl_img.c:88): an image is marked verified by
\* ctrl_img_init only after all of its sections passed the check.
VerifiedOnlyAfterCheck ==
  [][pending # NoRecord /\ pending' = NoRecord /\ reg' = pending
       => (pc \in {"accept", "acceptother"} => pending.image = seq)]_vars

\* ... which is so unless the image that was booted has failed its check: then,
\* while the watchdog already runs, the other image is stored as verified
\* without a check of its own.  An image that rots, a configuration that was
\* lost, or an update begun while the watchdog was running comes first, and
\* only the first two can leave the other image damaged as well.
MarksChecked ==
  [][pending # NoRecord /\ pending' = NoRecord /\ reg' = pending =>
       /\ pc = "accept" => pending.image = seq /\ (decay = 0 => Intact(seq))
       /\ pc = "acceptother" =>
            /\ pending.image = Other(seq) /\ ~Intact(seq)
            /\ trusted /\ decay = 0 => hasty # 0 /\ Intact(Other(seq))]_vars

\* What boot, check and update do to the configuration are operations of the
\* register, with records a later boot can use, also when the configuration
\* in hand is what the stack held.
UsesRegister == [][Cfg!RegNext]_(Cfg!regVars)

\* How far the device is from an image that runs, 0 when it is there.  With the
\* watchdog running the device has to boot once more, which takes longer when
\* the configuration, or the one being written, names a damaged image.
Usable ==
  /\ reg # NoRecord => Intact(reg.image)
  /\ pending # NoRecord => Intact(pending.image)
Detour == IF Usable THEN 0 ELSE 12
BootRank ==
  IF armed
    THEN 6 + Detour + CASE pc = "leap" -> 6
                        [] pc = "init" -> 5
                        [] pc = "check" -> 4
                        [] pc = "reject" -> 3
                        [] pc = "rejected" -> 2
                        [] pc \in {"accept", "acceptother", "switch"} -> 1
                        [] OTHER -> 0
    ELSE CASE pc = "run" -> 0
           [] pc = "accept" -> 1
           [] pc = "check" -> 2 + Detour
           [] pc = "init" -> 3 + Detour
           [] pc = "load" -> 4 + Detour
           [] pc = "boot" -> 5 + Detour
           [] pc = "rejected" -> 8
           [] pc = "reject" -> 9
           [] pc = "fallback" -> 13
           [] OTHER -> 25

\* Why it comes up: between two faults every step brings it nearer, whichever
\* image the configuration names.
ComesNearer ==
  [][trusted' /\ (\E i \in Image : Intact(i)) /\ (Boot \/ InitImg \/ WriteDone \/ Watchdog)
       => BootRank' < BootRank]_vars

\* Nor does it wait for something that no longer comes: a write that nobody began
\* or a watchdog that nobody started.
NeverWaitsInVain ==
  /\ pc \in Writing => pending # NoRecord
  /\ trusted /\ pc = "hang" => armed
=============================================================================
