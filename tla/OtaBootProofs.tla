--------------------------- MODULE OtaBootProofs ----------------------------
(***************************************************************************)
(* Proofs about booting and updating, for any number of power losses,      *)
(* refused writes and rotten sections.  BootInv is inductive: what the     *)
(* running image relies on (OnTrack) and that one image stays intact       *)
(* (ImagesKept) need each other at the steps that write the configuration. *)
(***************************************************************************)
EXTENDS OtaBoot, TLAPS

\* The other image is an image, and another one.
LEMMA OtherImage ==
  \A i \in Image : Other(i) \in Image /\ Other(i) # i /\ Other(Other(i)) = i
BY DEF Image, Other

\* The other of two images is the intact one.
LEMMA OtherIsIntact ==
  ASSUME \E j \in Image : Intact(j), NEW i \in Image, ~Intact(Other(i)) PROVE Intact(i)
BY DEF Image, Other, Intact

\* The values a configuration on the stack may take, and how they are changed.
LEMMA CfgValues ==
  /\ Record \subseteq AnyCfg
  /\ NoRecord \notin Record
  /\ 0 \notin Image
  /\ \A c \in AnyCfg : c.image \in Image \cup {0}
  /\ \A c \in Record : c.image \in Image
BY NoRecordAssumption DEF Record, AnyCfg, Image

LEMMA CfgUpdates ==
  /\ \A i \in Image :
       /\ [image |-> i, state |-> "unverified"] \in Record
       /\ [image |-> i, state |-> "verified"] \in Record
  /\ \A c \in AnyCfg :
       /\ [c EXCEPT !.state = "verified"] = [image |-> c.image, state |-> "verified"]
       /\ [c EXCEPT !.state = "unverified"] = [image |-> c.image, state |-> "unverified"]
       /\ \A i \in Image :
            /\ [c EXCEPT !.image = i] = [image |-> i, state |-> c.state]
            /\ [image |-> i, state |-> c.state] \in AnyCfg
BY DEF Record, AnyCfg

\* The device is delivered with an intact image and a configuration naming it.
LEMMA InitBoot == Init => BootInv
<1> SUFFICES ASSUME Init PROVE BootInv
  OBVIOUS
<1>1. reg.image \in Image
  BY CfgValues DEF Init
<1>2. TypeOK
  <2>1. faults \in 0 .. MaxFaults /\ decay \in 0 .. MaxDecay /\ hasty \in 0 .. MaxHasty
    BY BoundsAssumption DEF Init
  <2>2. QED
    BY <2>1, CfgValues DEF Init, TypeOK, PC
<1>3. WriteInProgress
  BY DEF Init, WriteInProgress
<1>4. CfgInHand /\ OnTrack
  <2>1. pc = "boot"
    BY DEF Init
  <2>2. QED
    BY <2>1 DEF CfgInHand, OnTrack, Writing, Updating
<1>5. ImagesKept
  BY <1>1 DEF Init, ImagesKept, Updating
<1>6. QED
  BY <1>2, <1>3, <1>4, <1>5 DEF BootInv

\* The bootloader: it names the image of the configuration it read ...
LEMMA BootReadCfgKeeps == ASSUME BootInv, BootReadCfg PROVE BootInv'
<1> USE DEF BootInv
<1>1. TypeOK'
  BY CfgValues DEF BootReadCfg, ReadCfg, TypeOK, PC, flash
<1>2. WriteInProgress'
  BY DEF BootReadCfg, ReadCfg, WriteInProgress, Writing
<1>3. CfgInHand'
  BY DEF BootReadCfg, ReadCfg, TypeOK, CfgInHand, Updating, Writing
<1>4. trusted' => OnTrack'
  BY DEF BootReadCfg, ReadCfg, OnTrack, Updating
<1>5. trusted' /\ decay' = 0 => ImagesKept'
  BY DEF BootReadCfg, ReadCfg, ImagesKept, Intact, flash, Updating
<1>6. QED
  BY <1>1, <1>2, <1>3, <1>4, <1>5

\* ... loads its application ...
LEMMA BootLoadKeeps == ASSUME BootInv, BootLoad PROVE BootInv'
<1> USE DEF BootInv
<1>1. TypeOK'
  BY CfgValues DEF BootLoad, TypeOK, PC, flash
<1>2. WriteInProgress'
  BY DEF BootLoad, WriteInProgress, Writing
<1>3. CfgInHand'
  BY DEF BootLoad, TypeOK, CfgInHand, Updating, Writing
<1>4. trusted' => OnTrack'
  BY DEF BootLoad, OnTrack, Updating
<1>5. trusted' /\ decay' = 0 => ImagesKept'
  BY DEF BootLoad, ImagesKept, Intact, flash, Updating
<1>6. QED
  BY <1>1, <1>2, <1>3, <1>4, <1>5

\* ... or changes the configuration, which only a damaged image makes it do.
LEMMA BootFallbackKeeps == ASSUME BootInv, BootFallback PROVE BootInv'
<1> USE DEF BootInv
<1>1. TypeOK'
  BY CfgValues, CfgUpdates, OtherImage DEF BootFallback, Cfg!BeginWrite, TypeOK, PC, flash, CfgInHand, Writing
<1>2. WriteInProgress'
  BY DEF BootFallback, Cfg!BeginWrite, WriteInProgress, Writing
<1>3. CfgInHand'
  <2>1. cfg'.image = Other(cfg.image) /\ cfg.image \in Image
    BY DEF BootFallback, CfgInHand
  <2>2. QED
    BY <2>1, OtherImage DEF BootFallback, CfgInHand
<1>4. trusted' => OnTrack'
  <2>1. cfg.image \in Image /\ cfg' = [image |-> Other(cfg.image), state |-> "unverified"]
    BY DEF BootFallback, CfgInHand
  <2>2. Other(cfg'.image) = cfg.image /\ ~app'[cfg.image]
    BY <2>1, OtherImage DEF BootFallback, flash
  <2>3. QED
    BY <2>2 DEF BootFallback, Cfg!BeginWrite, OnTrack, Updating, Other
<1>5. trusted' /\ decay' = 0 => ImagesKept'
  <2>1. cfg.image \in Image /\ ~Intact(cfg.image) /\ pending'.image = Other(cfg.image)
    BY DEF BootFallback, Cfg!BeginWrite, CfgInHand, Intact
  <2>2. trusted' /\ decay' = 0 => Intact(Other(cfg.image))
    BY <2>1, OtherImage, OtherIsIntact DEF BootFallback, ImagesKept
  <2>3. QED
    BY <2>1, <2>2 DEF BootFallback, Cfg!BeginWrite, ImagesKept, Intact, flash, Updating
<1>6. QED
  BY <1>1, <1>2, <1>3, <1>4, <1>5

\* The damaged image is entered, with the watchdog running.
LEMMA BootLeapKeeps == ASSUME BootInv, BootLeap PROVE BootInv'
<1> USE DEF BootInv
<1>1. TypeOK'
  BY OtherImage DEF BootLeap, TypeOK, PC, flash, CfgInHand
<1>2. WriteInProgress'
  BY DEF BootLeap, WriteInProgress, Writing
<1>3. CfgInHand'
  BY DEF BootLeap, CfgInHand, Updating, Writing
<1>4. trusted' => OnTrack'
  BY DEF BootLeap, OnTrack, Updating
<1>5. trusted' /\ decay' = 0 => ImagesKept'
  BY DEF BootLeap, ImagesKept, Intact, flash, Updating
<1>6. QED
  BY <1>1, <1>2, <1>3, <1>4, <1>5

\* ctrl_img_init: it checks the image the configuration names ...
LEMMA InitReadCfgKeeps == ASSUME BootInv, InitReadCfg PROVE BootInv'
<1> USE DEF BootInv
<1>1. TypeOK'
  BY CfgValues DEF InitReadCfg, ReadCfg, TypeOK, PC, flash
<1>2. WriteInProgress'
  BY DEF InitReadCfg, ReadCfg, WriteInProgress, Writing
<1>3. CfgInHand'
  BY CfgValues DEF InitReadCfg, ReadCfg, TypeOK, CfgInHand, Updating, Writing
<1>4. trusted' => OnTrack'
  BY CfgValues DEF InitReadCfg, ReadCfg, OnTrack, Updating, Verified, TypeOK, Record
<1>5. trusted' /\ decay' = 0 => ImagesKept'
  <2>1. trusted' => reg \in Record /\ reg.image \in Image /\ cfg' = reg
    BY CfgValues DEF InitReadCfg, ReadCfg
  <2>2. trusted' /\ pc' = "run" => reg.state = "verified"
    BY <2>1 DEF InitReadCfg
  <2>3. QED
    BY <2>1, <2>2 DEF InitReadCfg, ReadCfg, ImagesKept, Intact, flash, Updating
<1>6. QED
  BY <1>1, <1>2, <1>3, <1>4, <1>5

\* ... marks it as verified when it is intact ...
LEMMA InitAcceptKeeps == ASSUME BootInv, InitAccept PROVE BootInv'
<1> USE DEF BootInv
<1>1. TypeOK'
  <2>1. cfg' \in Record
    BY CfgUpdates DEF InitAccept, TypeOK, CfgInHand
  <2>2. QED
    BY <2>1, CfgValues DEF InitAccept, Cfg!BeginWrite, TypeOK, PC, Writing, flash
<1>2. WriteInProgress'
  BY DEF InitAccept, Cfg!BeginWrite, WriteInProgress, Writing
<1>3. CfgInHand'
  BY DEF InitAccept, Cfg!BeginWrite, TypeOK, CfgInHand, Updating, Writing
<1>4. trusted' => OnTrack'
  BY CfgUpdates DEF InitAccept, Cfg!BeginWrite, OnTrack, Updating, TypeOK
<1>5. trusted' /\ decay' = 0 => ImagesKept'
  <2>1. trusted => pending'.image = cfg.image /\ Intact(cfg.image)
    BY DEF InitAccept, Cfg!BeginWrite, OnTrack, TypeOK, AnyCfg
  <2>2. QED
    BY <2>1 DEF InitAccept, Cfg!BeginWrite, ImagesKept, Intact, flash, Updating
<1>6. QED
  BY <1>1, <1>2, <1>3, <1>4, <1>5

\* ... turns to the other image when it is not ...
LEMMA InitRejectKeeps == ASSUME BootInv, InitReject PROVE BootInv'
<1> USE DEF BootInv
<1>1. TypeOK'
  BY CfgValues, CfgUpdates, OtherImage DEF InitReject, Cfg!BeginWrite, TypeOK, PC, flash, CfgInHand, Writing
<1>2. WriteInProgress'
  BY DEF InitReject, Cfg!BeginWrite, WriteInProgress, Writing
<1>3. CfgInHand'
  <2>1. cfg'.image = Other(cfg.image) /\ cfg.image \in Image
    BY DEF InitReject, CfgInHand
  <2>2. QED
    BY <2>1, OtherImage DEF InitReject, CfgInHand
<1>4. trusted' => OnTrack'
  BY DEF InitReject, Cfg!BeginWrite, OnTrack, Updating
<1>5. trusted' /\ decay' = 0 => ImagesKept'
  <2>1. trusted => cfg.image = seq /\ seq \in Image
    BY DEF InitReject, OnTrack, CfgInHand
  <2>2. trusted' /\ decay' = 0 => Intact(Other(cfg.image)) /\ pending'.image = Other(cfg.image)
    BY <2>1, OtherImage, OtherIsIntact DEF InitReject, Cfg!BeginWrite, ImagesKept
  <2>3. QED
    BY <2>2 DEF InitReject, Cfg!BeginWrite, ImagesKept, Intact, flash, Updating
<1>6. QED
  BY <1>1, <1>2, <1>3, <1>4, <1>5

\* ... and then marks that one, with the watchdog running.
LEMMA InitRejectedKeeps == ASSUME BootInv, InitRejected PROVE BootInv'
<1> USE DEF BootInv
<1>1. TypeOK'
  <2>1. cfg' \in Record
    BY CfgUpdates DEF InitRejected, TypeOK, CfgInHand
  <2>2. QED
    BY <2>1, CfgValues DEF InitRejected, Cfg!BeginWrite, TypeOK, PC, Writing, flash
<1>2. WriteInProgress'
  BY DEF InitRejected, Cfg!BeginWrite, WriteInProgress, Writing
<1>3. CfgInHand'
  BY DEF InitRejected, Cfg!BeginWrite, TypeOK, CfgInHand, Updating, Writing
<1>4. trusted' => OnTrack'
  BY DEF InitRejected, Cfg!BeginWrite, OnTrack, Updating
<1>5. trusted' /\ decay' = 0 => ImagesKept'
  <2>1. trusted => pending'.image = reg.image /\ reg \in Record
    BY DEF InitRejected, Cfg!BeginWrite, OnTrack, TypeOK, AnyCfg
  <2>2. QED
    BY <2>1 DEF InitRejected, Cfg!BeginWrite, ImagesKept, Intact, flash, Updating
<1>6. QED
  BY <1>1, <1>2, <1>3, <1>4, <1>5

\* ota_update: the image it replaces is not the one that runs.
LEMMA UpdateBeginKeeps == ASSUME BootInv, UpdateBegin PROVE BootInv'
<1> USE DEF BootInv
<1>1. TypeOK'
  <2>1. cfg' \in AnyCfg
    <3>1. PICK c \in Record : cfg' = [c EXCEPT !.image = Target(c)]
      BY DEF UpdateBegin
    <3>2. Target(c) \in Image
      BY CfgValues, OtherImage DEF Target
    <3>3. c \in AnyCfg
      BY CfgValues
    <3>4. cfg' = [image |-> Target(c), state |-> c.state]
      BY <3>1, <3>2, <3>3, CfgUpdates
    <3>5. QED
      BY <3>2, <3>3, <3>4, CfgUpdates
  <2>2. hasty' \in 0 .. MaxHasty
    BY BoundsAssumption DEF UpdateBegin, Hasten, TypeOK
  <2>3. QED
    BY <2>1, <2>2 DEF UpdateBegin, TypeOK, PC, Updating, flash
<1>2. WriteInProgress'
  BY DEF UpdateBegin, WriteInProgress, Writing
<1>3. CfgInHand'
  BY CfgValues, CfgUpdates, OtherImage DEF UpdateBegin, TypeOK, CfgInHand, Updating, Writing, Target, Record
<1>4. trusted' => OnTrack'
  <2>1. trusted => reg \in Record /\ cfg'.image = Target(reg)
    BY CfgValues, CfgUpdates, OtherImage DEF UpdateBegin, OnTrack, Target
  <2>2. armed => hasty' # 0
    BY DEF UpdateBegin, Hasten, TypeOK
  <2>3. QED
    BY <2>1, <2>2 DEF UpdateBegin, OnTrack, Updating, Target, Other, Verified
<1>5. trusted' /\ decay' = 0 => ImagesKept'
  <2>1. trusted => reg \in Record /\ reg.image \in Image /\ cfg'.image = Target(reg)
    BY CfgValues, CfgUpdates, OtherImage DEF UpdateBegin, OnTrack, Target
  <2>2. trusted /\ decay = 0 => Intact(Other(Target(reg)))
    <3>1. ASSUME trusted, decay = 0, reg.state = "unverified" PROVE Intact(Other(Target(reg)))
      BY <3>1 DEF UpdateBegin, ImagesKept, Target
    <3>2. ASSUME trusted, decay = 0, reg.state # "unverified" PROVE Intact(Other(Target(reg)))
      <4>1. reg \in Record /\ reg.state = "verified" /\ reg # NoRecord
        BY <2>1, <3>2, CfgValues DEF Record
      <4>2. Intact(reg.image)
        BY <3>2, <4>1 DEF ImagesKept
      <4>3. Target(reg) = Other(reg.image) /\ reg.image \in Image
        BY <2>1, <3>2 DEF Target
      <4>4. QED
        BY <4>2, <4>3, OtherImage
    <3>3. QED
      BY <3>1, <3>2
  <2>3. hasty' = 0 => hasty = 0
    BY DEF UpdateBegin, Hasten, TypeOK
  <2>4. QED
    BY <2>1, <2>2, <2>3 DEF UpdateBegin, ImagesKept, Intact, flash, Updating, Other
<1>6. QED
  BY <1>1, <1>2, <1>3, <1>4, <1>5

\* What is done to the image being replaced touches none of what is relied on.
LEMMA ReplacingSpares ==
  ASSUME BootInv, pc \in Updating, pc' \in Updating \cup {"run"},
         UNCHANGED <<reg, pending, cfg, trusted, decay, hasty>>,
         \A i \in Image : i # cfg.image => (Intact(i)' <=> Intact(i)),
         trusted', decay' = 0
  PROVE  ImagesKept'
<1> USE DEF BootInv
<1>1. pending = NoRecord /\ cfg.image \in Image /\ OnTrack /\ ImagesKept
  BY DEF WriteInProgress, Writing, Updating, CfgInHand
<1>2. reg \in Record /\ reg.image \in Image /\ cfg.image = Target(reg) /\ (reg.state = "verified" \/ hasty # 0)
  BY <1>1, CfgValues DEF OnTrack, Verified
<1>3. Other(cfg.image) \in Image /\ Other(cfg.image) # cfg.image
  BY <1>1, OtherImage
<1>4. Intact(Other(cfg.image))' /\ Other(cfg.image)' = Other(cfg.image)
  BY <1>1, <1>3 DEF ImagesKept, Intact, Other
<1>5. reg.state = "verified" => reg.image # cfg.image /\ Intact(reg.image)'
  BY <1>1, <1>2, CfgValues, OtherImage DEF ImagesKept, Target
<1>6. reg.state = "unverified" => reg.image = cfg.image
  BY <1>2 DEF Target
<1>7. QED
  BY <1>1, <1>2, <1>3, <1>4, <1>5, <1>6 DEF ImagesKept, Updating, Intact, Other

\* Erasing and programming spare the image the configuration names.
LEMMA UpdateEraseKeeps == ASSUME BootInv, UpdateErase PROVE BootInv'
<1> USE DEF BootInv
<1>1. TypeOK'
  BY DEF UpdateErase, TypeOK, PC, flash, Updating
<1>2. WriteInProgress'
  BY DEF UpdateErase, WriteInProgress, Writing
<1>3. CfgInHand'
  BY DEF UpdateErase, TypeOK, CfgInHand, Updating, Writing
<1>4. trusted' => OnTrack'
  BY DEF UpdateErase, OnTrack, Updating, Verified
<1>5. trusted' /\ decay' = 0 => ImagesKept'
  <2>1. pc \in Updating /\ pc' \in Updating \cup {"run"}
    BY DEF UpdateErase, Updating
  <2>2. \A i \in Image : i # cfg.image => (Intact(i)' <=> Intact(i))
    BY DEF UpdateErase, Intact, TypeOK, CfgInHand
  <2>3. UNCHANGED <<reg, pending, cfg, trusted, decay, hasty>>
    BY DEF UpdateErase
  <2>4. QED
    BY <2>1, <2>2, <2>3, ReplacingSpares
<1>6. QED
  BY <1>1, <1>2, <1>3, <1>4, <1>5

\* The application section.
LEMMA UpdateFetchAppKeeps == ASSUME BootInv, UpdateFetchApp PROVE BootInv'
<1> USE DEF BootInv
<1>1. TypeOK'
  BY DEF UpdateFetchApp, TypeOK, PC, flash, Updating
<1>2. WriteInProgress'
  BY DEF UpdateFetchApp, WriteInProgress, Writing
<1>3. CfgInHand'
  BY DEF UpdateFetchApp, TypeOK, CfgInHand, Updating, Writing
<1>4. trusted' => OnTrack'
  BY DEF UpdateFetchApp, OnTrack, Updating, Verified
<1>5. trusted' /\ decay' = 0 => ImagesKept'
  <2>1. pc \in Updating /\ pc' \in Updating \cup {"run"}
    BY DEF UpdateFetchApp, Updating
  <2>2. \A i \in Image : i # cfg.image => (Intact(i)' <=> Intact(i))
    BY DEF UpdateFetchApp, Intact, TypeOK, CfgInHand
  <2>3. UNCHANGED <<reg, pending, cfg, trusted, decay, hasty>>
    BY DEF UpdateFetchApp
  <2>4. QED
    BY <2>1, <2>2, <2>3, ReplacingSpares
<1>6. QED
  BY <1>1, <1>2, <1>3, <1>4, <1>5

\* The other sections.
LEMMA UpdateFetchRestKeeps == ASSUME BootInv, UpdateFetchRest PROVE BootInv'
<1> USE DEF BootInv
<1>1. TypeOK'
  BY DEF UpdateFetchRest, TypeOK, PC, flash, Updating
<1>2. WriteInProgress'
  BY DEF UpdateFetchRest, WriteInProgress, Writing
<1>3. CfgInHand'
  BY DEF UpdateFetchRest, TypeOK, CfgInHand, Updating, Writing
<1>4. trusted' => OnTrack'
  BY DEF UpdateFetchRest, OnTrack, Updating, Verified
<1>5. trusted' /\ decay' = 0 => ImagesKept'
  <2>1. pc \in Updating /\ pc' \in Updating \cup {"run"}
    BY DEF UpdateFetchRest, Updating
  <2>2. \A i \in Image : i # cfg.image => (Intact(i)' <=> Intact(i))
    BY DEF UpdateFetchRest, Intact, TypeOK, CfgInHand
  <2>3. UNCHANGED <<reg, pending, cfg, trusted, decay, hasty>>
    BY DEF UpdateFetchRest
  <2>4. QED
    BY <2>1, <2>2, <2>3, ReplacingSpares
<1>6. QED
  BY <1>1, <1>2, <1>3, <1>4, <1>5

\* A failed update leaves things as they are.
LEMMA UpdateGiveUpKeeps == ASSUME BootInv, UpdateGiveUp PROVE BootInv'
<1> USE DEF BootInv
<1>1. TypeOK'
  BY DEF UpdateGiveUp, TypeOK, PC, flash
<1>2. WriteInProgress'
  BY DEF UpdateGiveUp, WriteInProgress, Writing
<1>3. CfgInHand'
  BY DEF UpdateGiveUp, TypeOK, CfgInHand, Updating, Writing
<1>4. trusted' => OnTrack'
  BY DEF UpdateGiveUp, OnTrack, Updating, Verified
<1>5. trusted' /\ decay' = 0 => ImagesKept'
  <2>1. pc \in Updating /\ pc' = "run" /\ \A i \in Image : Intact(i)' <=> Intact(i)
    BY DEF UpdateGiveUp, Updating, flash, Intact
  <2>2. UNCHANGED <<reg, pending, cfg, trusted, decay, hasty>>
    BY DEF UpdateGiveUp
  <2>3. QED
    BY <2>1, <2>2, ReplacingSpares
<1>6. QED
  BY <1>1, <1>2, <1>3, <1>4, <1>5

\* Only an intact image is switched to.
LEMMA UpdateSwitchKeeps == ASSUME BootInv, UpdateSwitch PROVE BootInv'
<1> USE DEF BootInv
<1>1. TypeOK'
  <2>1. cfg' \in Record
    BY CfgUpdates DEF UpdateSwitch, TypeOK, CfgInHand, Updating
  <2>2. QED
    BY <2>1, CfgValues DEF UpdateSwitch, Cfg!BeginWrite, TypeOK, PC, Writing, flash
<1>2. WriteInProgress'
  BY DEF UpdateSwitch, Cfg!BeginWrite, WriteInProgress, Writing
<1>3. CfgInHand'
  BY DEF UpdateSwitch, Cfg!BeginWrite, TypeOK, CfgInHand, Updating, Writing
<1>4. trusted' => OnTrack'
  BY DEF UpdateSwitch, Cfg!BeginWrite, OnTrack, Updating
<1>5. trusted' /\ decay' = 0 => ImagesKept'
  BY CfgUpdates DEF UpdateSwitch, Cfg!BeginWrite, ImagesKept, Intact, flash, TypeOK, OnTrack, Updating
<1>6. QED
  BY <1>1, <1>2, <1>3, <1>4, <1>5

\* Writing the configuration: the old record is given up ...
LEMMA WriteDropsOldKeeps == ASSUME BootInv, WriteDropsOld PROVE BootInv'
<1> USE DEF BootInv
<1>1. TypeOK'
  BY DEF WriteDropsOld, Cfg!DropOld, TypeOK, PC, flash
<1>2. WriteInProgress'
  BY DEF WriteDropsOld, Cfg!DropOld, WriteInProgress, Writing
<1>3. CfgInHand'
  BY DEF WriteDropsOld, Cfg!DropOld, TypeOK, CfgInHand, Updating, Writing
<1>4. trusted' => OnTrack'
  BY DEF WriteDropsOld, Cfg!DropOld, OnTrack, Updating, Writing, flash, Other
<1>5. trusted' /\ decay' = 0 => ImagesKept'
  BY CfgValues DEF WriteDropsOld, Cfg!DropOld, ImagesKept, Intact, flash, Updating, Writing, Other
<1>6. QED
  BY <1>1, <1>2, <1>3, <1>4, <1>5

\* ... and the new one takes its place.
LEMMA WriteDoneKeeps == ASSUME BootInv, WriteDone PROVE BootInv'
<1> USE DEF BootInv
<1>1. TypeOK'
  BY DEF WriteDone, Cfg!CompleteWrite, AfterWrite, TypeOK, PC, flash, Writing
<1>2. WriteInProgress'
  BY DEF WriteDone, Cfg!CompleteWrite, AfterWrite, WriteInProgress, Writing
<1>3. CfgInHand'
  BY DEF WriteDone, AfterWrite, CfgInHand, Writing, Updating
<1>4. trusted' => OnTrack'
  <2>1. pending # NoRecord /\ reg' = pending /\ reg' \in Record /\ UNCHANGED <<flash, cfg, booted, trusted>>
    BY DEF WriteDone, Cfg!CompleteWrite, TypeOK
  <2>2. CASE pc = "fallback"
    BY <2>1, <2>2 DEF WriteDone, AfterWrite, OnTrack, Updating, flash, Other
  <2>3. CASE pc = "switch" \/ pc = "reject"
    BY <2>1, <2>3 DEF WriteDone, AfterWrite, OnTrack, Updating
  <2>4. CASE pc \in {"accept", "acceptother"}
    BY <2>1, <2>4 DEF WriteDone, AfterWrite, OnTrack, Updating, Verified
  <2>5. QED
    BY <2>2, <2>3, <2>4 DEF WriteDone, AfterWrite
<1>5. trusted' /\ decay' = 0 => ImagesKept'
  <2>1. pending # NoRecord /\ reg' = pending /\ pending' = NoRecord /\ UNCHANGED <<flash, cfg>>
    BY DEF WriteDone, Cfg!CompleteWrite
  <2>2. pc' \notin Updating /\ pc' # "switch"
    BY DEF WriteDone, AfterWrite, Updating
  <2>3. trusted /\ pc' = "run" /\ reg'.state = "unverified" => pc = "switch" /\ reg' = cfg
    BY <2>1 DEF WriteDone, AfterWrite, OnTrack
  <2>4. QED
    BY <2>1, <2>2, <2>3 DEF WriteDone, ImagesKept, Intact, flash, Other
<1>6. QED
  BY <1>1, <1>2, <1>3, <1>4, <1>5

\* A write that is refused ends the trust in the configuration.
LEMMA WriteRefusedKeeps == ASSUME BootInv, WriteRefused PROVE BootInv'
<1> USE DEF BootInv
<1>1. TypeOK'
  <2>1. faults' \in 0 .. MaxFaults
    BY BoundsAssumption DEF WriteRefused, TypeOK
  <2>2. pc' \in PC /\ armed' \in BOOLEAN
    BY DEF WriteRefused, AfterWrite, TypeOK, PC
  <2>3. QED
    BY <2>1, <2>2 DEF WriteRefused, Cfg!AbortWrite, TypeOK, flash
<1>2. WriteInProgress'
  BY DEF WriteRefused, Cfg!AbortWrite, AfterWrite, WriteInProgress, Writing
<1>3. CfgInHand'
  BY DEF WriteRefused, AfterWrite, CfgInHand, Writing, Updating
<1>4. trusted' => OnTrack'
  BY DEF WriteRefused, Cfg!AbortWrite, AfterWrite, OnTrack, Updating
<1>5. trusted' /\ decay' = 0 => ImagesKept'
  BY DEF WriteRefused, Cfg!AbortWrite, AfterWrite, ImagesKept, Intact, flash
<1>6. QED
  BY <1>1, <1>2, <1>3, <1>4, <1>5

\* A reset leaves nothing but the flash.
LEMMA WatchdogKeeps == ASSUME BootInv, Watchdog PROVE BootInv'
<1> USE DEF BootInv
<1>1. TypeOK'
  BY DEF Watchdog, Restart, Cfg!AbortWrite, TypeOK, PC, flash
<1>2. WriteInProgress'
  BY DEF Watchdog, Restart, Cfg!AbortWrite, WriteInProgress, Writing
<1>3. CfgInHand'
  BY DEF Watchdog, Restart, Cfg!AbortWrite, TypeOK, CfgInHand, Updating, Writing
<1>4. trusted' => OnTrack'
  BY DEF Watchdog, Restart, Cfg!AbortWrite, OnTrack, Updating
<1>5. trusted' /\ decay' = 0 => ImagesKept'
  BY DEF Watchdog, Restart, Cfg!AbortWrite, ImagesKept, Intact, flash, Updating
<1>6. QED
  BY <1>1, <1>2, <1>3, <1>4, <1>5

\* So does a power loss.
LEMMA PowerLossKeeps == ASSUME BootInv, PowerLoss PROVE BootInv'
<1> USE DEF BootInv
<1>1. TypeOK'
  <2>1. faults' \in 0 .. MaxFaults
    BY BoundsAssumption DEF PowerLoss, TypeOK
  <2>2. QED
    BY <2>1 DEF PowerLoss, Restart, Cfg!AbortWrite, TypeOK, PC, flash
<1>2. WriteInProgress'
  BY DEF PowerLoss, Restart, Cfg!AbortWrite, WriteInProgress, Writing
<1>3. CfgInHand'
  BY DEF PowerLoss, Restart, Cfg!AbortWrite, TypeOK, CfgInHand, Updating, Writing
<1>4. trusted' => OnTrack'
  BY DEF PowerLoss, Restart, Cfg!AbortWrite, OnTrack, Updating
<1>5. trusted' /\ decay' = 0 => ImagesKept'
  BY DEF PowerLoss, Restart, Cfg!AbortWrite, ImagesKept, Intact, flash, Updating
<1>6. QED
  BY <1>1, <1>2, <1>3, <1>4, <1>5

\* A section that rots.
LEMMA DecayKeeps == ASSUME BootInv, NEW i \in Image, Decay(i) PROVE BootInv'
<1> USE DEF BootInv
<1>1. decay \in Nat /\ decay' = decay + 1 /\ decay' \in 0 .. MaxDecay
  BY BoundsAssumption DEF Decay, TypeOK
<1>2. TypeOK'
  BY <1>1 DEF Decay, TypeOK
<1>3. WriteInProgress' /\ CfgInHand'
  BY DEF Decay, WriteInProgress, CfgInHand
<1>4. trusted' => OnTrack'
  <2>1. UNCHANGED <<reg, pending, pc, cfg, booted, seq, armed, hasty, trusted>>
    BY DEF Decay
  <2>2. \A j \in Image : ~app[j] => ~app'[j]
    BY DEF Decay, TypeOK
  <2>3. pc \in {"fallback", "leap"} => Other(cfg.image) \in Image
    BY OtherImage DEF CfgInHand, Writing
  <2>4. QED
    BY <2>1, <2>2, <2>3 DEF OnTrack, Verified, Target, Other
<1>5. decay' # 0
  BY <1>1
<1>6. QED
  BY <1>2, <1>3, <1>4, <1>5

\* Every step of the device keeps the invariant.
LEMMA NextKeeps == BootInv /\ [Next]_vars => BootInv'
<1> SUFFICES ASSUME BootInv, [Next]_vars PROVE BootInv'
  OBVIOUS
<1>1. CASE Boot
  BY <1>1, BootReadCfgKeeps, BootLoadKeeps, BootFallbackKeeps, BootLeapKeeps DEF Boot
<1>2. CASE InitImg
  BY <1>2, InitReadCfgKeeps, InitAcceptKeeps, InitRejectKeeps, InitRejectedKeeps DEF InitImg
<1>3. CASE UpdateBegin \/ Update
  BY <1>3, UpdateBeginKeeps, UpdateEraseKeeps, UpdateFetchAppKeeps, UpdateFetchRestKeeps,
     UpdateGiveUpKeeps, UpdateSwitchKeeps DEF Update
<1>4. CASE Write \/ WriteRefused
  BY <1>4, WriteDropsOldKeeps, WriteDoneKeeps, WriteRefusedKeeps DEF Write
<1>5. CASE Watchdog \/ PowerLoss
  BY <1>5, WatchdogKeeps, PowerLossKeeps
<1>6. CASE \E i \in Image : Decay(i)
  BY <1>6, DecayKeeps
<1>7. CASE UNCHANGED vars
  BY <1>7 DEF vars, BootInv, TypeOK, WriteInProgress, CfgInHand, OnTrack, ImagesKept,
       Verified, Intact
<1>8. QED
  BY <1>1, <1>2, <1>3, <1>4, <1>5, <1>6, <1>7 DEF Next

\* Type correctness, and what a running image relies on, in every state.
THEOREM BootIsOnTrack == Spec => []BootInv
<1>1. QED
  BY InitBoot, NextKeeps, PTL DEF Spec

\* ota_update never erases or programs the image that is running
\* (ota.c:287-300), as long as the configuration could be read and written and
\* the watchdog does not already run; also when commands are queued behind one
\* another.
THEOREM RunningImageIsSafe == Spec => []NeverUpdatesRunning
<1>1. BootInv => NeverUpdatesRunning
  <2>1. ASSUME BootInv, trusted, ~armed, pc \in Updating PROVE cfg.image # booted
    <3>1. reg \in Record /\ reg.image = booted /\ reg.state = "verified" /\ cfg.image = Target(reg)
      BY <2>1 DEF BootInv, OnTrack, Verified
    <3>2. cfg.image = Other(reg.image)
      BY <3>1 DEF Target
    <3>3. QED
      BY <3>1, <3>2, OtherImage, CfgValues
  <2>2. QED
    BY <2>1 DEF NeverUpdatesRunning
<1>2. QED
  BY <1>1, BootIsOnTrack, PTL

\* An intact image remains through every boot and update, wherever the power
\* is lost and however many updates are begun while the watchdog runs; a
\* readable configuration names one, unless such an update was begun and the
\* image is not marked as verified (bootloader.c:130-189, ctrl_img.c:76-92,
\* ota.c:287-366).
THEOREM IntactImageRemains == Spec => []KeepsIntactImage
<1>1. BootInv => KeepsIntactImage
  BY DEF BootInv, ImagesKept, KeepsIntactImage
<1>2. QED
  BY <1>1, BootIsOnTrack, PTL

\* What the code takes for an image is one, although it goes on with what its
\* stack holds when the configuration cannot be read.
THEOREM TypeCorrect == Spec => []TypeOK
<1>1. BootInv => TypeOK
  BY DEF BootInv
<1>2. QED
  BY <1>1, BootIsOnTrack, PTL
-----------------------------------------------------------------------------
(* What is marked and written, and why the device comes up.                *)

\* While a check rejects an image, the other one is in hand, and the rejected
\* one stays as bad as it was found to be.
RejectInv ==
  /\ pc = "check" => cfg.image = seq
  /\ pc \in {"reject", "rejected"} =>
       /\ seq \in Image /\ cfg.image = Other(seq) /\ ~Intact(seq)
       /\ trusted /\ decay = 0 => hasty # 0
  /\ pc = "reject" => pending.image = Other(seq)

\* ... and what is then stored as verified is the image that was checked, or
\* the other one.
MarkInv ==
  /\ pc = "accept" => seq \in Image /\ pending.image = seq /\ (decay = 0 => Intact(seq))
  /\ pc = "acceptother" =>
       /\ seq \in Image /\ pending.image = Other(seq) /\ ~Intact(seq)
       /\ trusted /\ decay = 0 => hasty # 0 /\ Intact(Other(seq))

\* A configuration is only changed from an image that is not intact.
TurnInv ==
  /\ pc = "fallback" => pending.image \in Image /\ ~app[Other(pending.image)]
  /\ trusted /\ reg # NoRecord /\ pc \in {"rejected", "acceptother"} => reg.image = Other(seq)

\* The watchdog is not running where the bootloader works, and is where
\* something is left to it.
ArmInv ==
  /\ armed => pc \notin {"boot", "load", "fallback"}
  /\ pc \in {"leap", "acceptother"} => armed

WriteInv == RejectInv /\ MarkInv /\ TurnInv /\ ArmInv /\ NeverWaitsInVain

LEMMA InitWrite == Init => WriteInv
<1> SUFFICES ASSUME Init PROVE WriteInv
  OBVIOUS
<1>1. pc = "boot" /\ ~armed
  BY DEF Init
<1>2. QED
  BY <1>1 DEF WriteInv, RejectInv, MarkInv, TurnInv, ArmInv, NeverWaitsInVain, Writing

\* Steps to a point where neither an image is judged nor the configuration written.
LEMMA ElsewhereWrites ==
  ASSUME pc' \in {"boot", "load", "init", "run", "hang"} \cup Updating,
         pc' \in {"boot", "load"} => ~armed',
         trusted' /\ pc' = "hang" => armed'
  PROVE  WriteInv'
BY DEF WriteInv, RejectInv, MarkInv, TurnInv, ArmInv, NeverWaitsInVain, Writing, Updating

\* The bootloader.
LEMMA BootWrites == ASSUME BootInv, WriteInv, Boot PROVE WriteInv'
<1>1. CASE BootReadCfg
  <2>1. ~armed'
    BY <1>1 DEF BootReadCfg, WriteInv, ArmInv
  <2>2. trusted' => pc' # "hang"
    BY <1>1, CfgValues DEF BootReadCfg, ReadCfg
  <2>3. QED
    BY <1>1, <2>1, <2>2, ElsewhereWrites DEF BootReadCfg
<1>2. CASE BootLoad
  BY <1>2, ElsewhereWrites DEF BootLoad, WriteInv, ArmInv
<1>3. CASE BootFallback
  <2>1. cfg.image \in Image /\ Other(cfg.image) \in Image /\ Other(Other(cfg.image)) = cfg.image
    BY <1>3, OtherImage DEF BootFallback, BootInv, CfgInHand
  <2>2. pending' = [image |-> Other(cfg.image), state |-> "unverified"] /\ pc' = "fallback"
    BY <1>3 DEF BootFallback, Cfg!BeginWrite
  <2>3. pending' # NoRecord
    BY <2>1, <2>2, CfgUpdates, CfgValues
  <2>4. ~armed' /\ ~app'[cfg.image]
    BY <1>3 DEF BootFallback, flash, WriteInv, ArmInv
  <2>5. QED
    BY <2>1, <2>2, <2>3, <2>4
    DEF WriteInv, RejectInv, MarkInv, TurnInv, ArmInv, NeverWaitsInVain, Writing
<1>4. CASE BootLeap
  BY <1>4, ElsewhereWrites DEF BootLeap, WriteInv, ArmInv
<1>5. QED
  BY <1>1, <1>2, <1>3, <1>4 DEF Boot

\* ctrl_img_init reads, and accepts ...
LEMMA AcceptWrites ==
  ASSUME BootInv, WriteInv, InitReadCfg \/ InitAccept PROVE WriteInv'
<1>1. CASE InitReadCfg
  BY <1>1 DEF InitReadCfg, WriteInv, RejectInv, MarkInv, TurnInv, ArmInv, NeverWaitsInVain, Writing
<1>2. CASE InitAccept
  <2>1. cfg.image = seq /\ seq \in Image /\ cfg \in AnyCfg
    BY <1>2 DEF InitAccept, WriteInv, RejectInv, BootInv, CfgInHand, TypeOK
  <2>2. pending' = [image |-> seq, state |-> "verified"] /\ pc' = "accept" /\ seq' = seq
    BY <1>2, <2>1, CfgUpdates DEF InitAccept, Cfg!BeginWrite
  <2>3. pending' # NoRecord
    BY <2>1, <2>2, CfgUpdates, CfgValues
  <2>4. Intact(seq)'
    BY <1>2, <2>2 DEF InitAccept, flash, Intact
  <2>5. QED
    BY <2>1, <2>2, <2>3, <2>4
    DEF WriteInv, RejectInv, MarkInv, TurnInv, ArmInv, NeverWaitsInVain, Writing
<1>3. QED
  BY <1>1, <1>2

\* ... or rejects, and goes on.
LEMMA RejectWrites ==
  ASSUME BootInv, WriteInv, InitReject \/ InitRejected PROVE WriteInv'
<1>1. CASE InitReject
  <2>1. cfg.image = seq /\ seq \in Image
    BY <1>1 DEF InitReject, WriteInv, RejectInv, BootInv, CfgInHand
  <2>2. /\ cfg' = [image |-> Other(seq), state |-> "unverified"] /\ pending' = cfg'
        /\ pc' = "reject" /\ seq' = seq
    BY <1>1, <2>1 DEF InitReject, Cfg!BeginWrite
  <2>3. pending' \in Record /\ pending' # NoRecord
    <3>1. Other(seq) \in Image
      BY <2>1, OtherImage
    <3>2. QED
      BY <2>2, <3>1, CfgUpdates, CfgValues
  <2>4. ~Intact(seq)'
    BY <1>1, <2>2 DEF InitReject, flash, Intact
  <2>5. trusted' /\ decay' = 0 => hasty' # 0
    BY <1>1, CfgValues DEF InitReject, BootInv, OnTrack, ImagesKept
  <2>6. QED
    BY <2>1, <2>2, <2>3, <2>4, <2>5
    DEF WriteInv, RejectInv, MarkInv, TurnInv, ArmInv, NeverWaitsInVain, Writing
<1>2. CASE InitRejected
  <2>1. seq \in Image /\ cfg.image = Other(seq) /\ ~Intact(seq) /\ cfg \in AnyCfg
    BY <1>2 DEF InitRejected, WriteInv, RejectInv, BootInv, TypeOK
  <2>2. /\ pending' = [image |-> Other(seq), state |-> "verified"]
        /\ pc' = "acceptother" /\ seq' = seq /\ reg' = reg /\ armed'
    BY <1>2, <2>1, CfgUpdates DEF InitRejected, Cfg!BeginWrite
  <2>3. pending' \in Record /\ pending' # NoRecord
    <3>1. Other(seq) \in Image
      BY <2>1, OtherImage
    <3>2. QED
      BY <2>2, <3>1, CfgUpdates, CfgValues
  <2>4. UNCHANGED <<flash, trusted, decay, hasty>> /\ (trusted /\ decay = 0 => hasty # 0)
    BY <1>2 DEF InitRejected, WriteInv, RejectInv
  <2>5. trusted /\ decay = 0 => Intact(Other(seq))
    BY <1>2, <2>1, <2>4 DEF InitRejected, BootInv, OnTrack, ImagesKept
  <2>6. ~Intact(seq)' /\ (trusted' /\ decay' = 0 => hasty' # 0 /\ Intact(Other(seq))')
    BY <2>1, <2>2, <2>4, <2>5 DEF flash, Intact, Other
  <2>7. trusted' /\ reg' # NoRecord => reg'.image = Other(seq)'
    BY <1>2, <2>2 DEF InitRejected, WriteInv, TurnInv, Other
  <2>8. QED
    BY <2>1, <2>2, <2>3, <2>6, <2>7
    DEF WriteInv, RejectInv, MarkInv, TurnInv, ArmInv, NeverWaitsInVain, Writing
<1>3. QED
  BY <1>1, <1>2

\* An update writes a configuration as its last step.
LEMMA UpdateWrites == ASSUME BootInv, WriteInv, UpdateBegin \/ Update PROVE WriteInv'
<1>1. CASE UpdateBegin \/ UpdateErase \/ UpdateFetchApp \/ UpdateFetchRest \/ UpdateGiveUp
  BY <1>1, ElsewhereWrites
  DEF UpdateBegin, UpdateErase, UpdateFetchApp, UpdateFetchRest, UpdateGiveUp, Updating
<1>2. CASE UpdateSwitch
  <2>1. pending' = [image |-> cfg.image, state |-> "unverified"] /\ pc' = "switch"
    BY <1>2, CfgUpdates DEF UpdateSwitch, Cfg!BeginWrite, BootInv, TypeOK
  <2>2. pending' # NoRecord
    BY <1>2, <2>1, CfgUpdates, CfgValues DEF UpdateSwitch, BootInv, CfgInHand, Updating
  <2>3. QED
    BY <2>1, <2>2
    DEF WriteInv, RejectInv, MarkInv, TurnInv, ArmInv, NeverWaitsInVain, Writing
<1>3. QED
  BY <1>1, <1>2 DEF Update

\* The configuration is written.
LEMMA WriteWrites == ASSUME BootInv, WriteInv, Write \/ WriteRefused PROVE WriteInv'
<1>1. CASE WriteDropsOld
  BY <1>1 DEF WriteDropsOld, Cfg!DropOld, flash, Intact, Other,
    WriteInv, RejectInv, MarkInv, TurnInv, ArmInv, NeverWaitsInVain, Writing
<1>2. CASE WriteDone
  <2>1. pc' \in {"leap", "run", "rejected"} /\ (pc' = "leap" => armed')
    BY <1>2 DEF WriteDone, AfterWrite
  <2>2. ASSUME pc' = "rejected"
        PROVE  /\ seq' \in Image /\ cfg'.image = Other(seq)' /\ ~Intact(seq)'
               /\ trusted' /\ decay' = 0 => hasty' # 0
               /\ reg'.image = Other(seq)'
    <3>1. pc = "reject"
      BY <1>2, <2>2 DEF WriteDone, AfterWrite
    <3>2. QED
      BY <1>2, <3>1
      DEF WriteDone, Cfg!CompleteWrite, WriteInv, RejectInv, flash, Intact, Other
  <2>3. QED
    BY <2>1, <2>2 DEF WriteInv, RejectInv, MarkInv, TurnInv, ArmInv, NeverWaitsInVain, Writing
<1>3. CASE WriteRefused
  <2>1. pc' \in {"leap", "run", "rejected"} /\ (pc' = "leap" => armed')
    BY <1>3 DEF WriteRefused, AfterWrite
  <2>2. ~trusted'
    BY <1>3 DEF WriteRefused
  <2>3. pc' = "rejected" => seq' \in Image /\ cfg'.image = Other(seq)' /\ ~Intact(seq)'
    BY <1>3 DEF WriteRefused, AfterWrite, WriteInv, RejectInv, flash, Intact, Other
  <2>4. QED
    BY <2>1, <2>2, <2>3 DEF WriteInv, RejectInv, MarkInv, TurnInv, ArmInv, NeverWaitsInVain, Writing
<1>4. QED
  BY <1>1, <1>2, <1>3 DEF Write

\* A section that rots makes no rejected image intact.
LEMMA DecayWrites == ASSUME BootInv, WriteInv, NEW i \in Image, Decay(i) PROVE WriteInv'
<1>1. UNCHANGED <<reg, pending, pc, cfg, booted, seq, armed, faults, hasty, trusted>>
  BY DEF Decay
<1>2. decay' # 0
  BY BoundsAssumption DEF Decay, BootInv, TypeOK
<1>3. \A j \in Image : (~app[j] => ~app'[j]) /\ (~Intact(j) => ~Intact(j)')
  BY DEF Decay, BootInv, TypeOK, Intact
<1>4. \A j \in Image : Other(j) \in Image /\ Other(j)' = Other(j)
  BY OtherImage DEF Other
<1>5. RejectInv' /\ MarkInv'
  BY <1>1, <1>2, <1>3, <1>4 DEF WriteInv, RejectInv, MarkInv
<1>6. TurnInv' /\ ArmInv' /\ NeverWaitsInVain'
  BY <1>1, <1>3, <1>4 DEF WriteInv, TurnInv, ArmInv, NeverWaitsInVain, Other
<1>7. QED
  BY <1>5, <1>6 DEF WriteInv

LEMMA NextWrites == BootInv /\ WriteInv /\ [Next]_vars => WriteInv'
<1> SUFFICES ASSUME BootInv, WriteInv, [Next]_vars PROVE WriteInv'
  OBVIOUS
<1>1. CASE Boot \/ InitImg
  BY <1>1, BootWrites, AcceptWrites, RejectWrites DEF InitImg
<1>2. CASE UpdateBegin \/ Update \/ Write \/ WriteRefused
  BY <1>2, UpdateWrites, WriteWrites
<1>3. CASE Watchdog \/ PowerLoss
  BY <1>3, ElsewhereWrites DEF Watchdog, PowerLoss, Restart
<1>4. CASE \E i \in Image : Decay(i)
  BY <1>4, DecayWrites
<1>5. CASE UNCHANGED vars
  BY <1>5 DEF vars, flash, WriteInv, RejectInv, MarkInv, TurnInv, ArmInv, NeverWaitsInVain, Intact, Other
<1>6. QED
  BY <1>1, <1>2, <1>3, <1>4, <1>5 DEF Next

LEMMA WritesSound == Spec => [](BootInv /\ WriteInv)
<1>1. Spec => []WriteInv
  BY BootIsOnTrack, InitWrite, NextWrites, PTL DEF Spec
<1>2. QED
  BY <1>1, BootIsOnTrack, PTL

\* ctrl_img_init stores an image as verified only after it has checked all its
\* sections (ctrl_img.c:86-92), except that after a check that failed it also
\* stores the other one, unchecked (ctrl_img.c:78-84).  With a configuration that
\* was always read and written and no section rotten, that takes an update begun
\* while the watchdog was running, and the other image is intact.
THEOREM MarksAreChecked == Spec => MarksChecked
<1>1. MarkInv => [pending # NoRecord /\ pending' = NoRecord /\ reg' = pending =>
         /\ pc = "accept" => pending.image = seq /\ (decay = 0 => Intact(seq))
         /\ pc = "acceptother" =>
              /\ pending.image = Other(seq) /\ ~Intact(seq)
              /\ trusted /\ decay = 0 => hasty # 0 /\ Intact(Other(seq))]_vars
  BY DEF MarkInv
<1>2. WriteInv => MarkInv
  BY DEF WriteInv
<1>3. QED
  BY <1>1, <1>2, WritesSound, PTL DEF MarksChecked

\* The bootloader, ctrl_img_init and ota_update use the configuration only as
\* fdcm's register allows, and write only records that name an image, also
\* when they go on with what the stack held (bootloader.c:130-175,
\* ctrl_img.c:76-92, ota.c:287-365).  Together with the proof that fdcm's log
\* implements the register this is what the update relies on fdcm for.
THEOREM ConfigurationIsRegister == Spec => UsesRegister
<1> USE DEF Cfg!regVars
<1>1. ASSUME BootInv, NEW v, Cfg!BeginWrite(v), v \in Record PROVE Cfg!RegNext
  BY <1>1 DEF Cfg!RegNext
<1>2. ASSUME BootInv, Boot \/ InitImg PROVE [Cfg!RegNext]_(Cfg!regVars)
  <2>1. CASE BootReadCfg \/ BootLoad \/ BootLeap \/ InitReadCfg
    BY <2>1 DEF BootReadCfg, BootLoad, BootLeap, InitReadCfg
  <2>2. CASE BootFallback \/ InitReject
    <3>1. cfg.image \in Image
      BY <1>2, <2>2 DEF BootFallback, InitReject, BootInv, CfgInHand
    <3>2. cfg' \in Record
      BY <2>2, <3>1, OtherImage, CfgUpdates DEF BootFallback, InitReject
    <3>3. QED
      BY <1>1, <1>2, <2>2, <3>2 DEF BootFallback, InitReject
  <2>3. CASE InitAccept \/ InitRejected
    <3>1. cfg.image \in Image /\ cfg \in AnyCfg
      BY <1>2, <2>3 DEF InitAccept, InitRejected, BootInv, CfgInHand, TypeOK
    <3>2. cfg' = [cfg EXCEPT !.state = "verified"]
      BY <2>3 DEF InitAccept, InitRejected
    <3>3. cfg' \in Record
      BY <3>1, <3>2, CfgUpdates
    <3>4. QED
      BY <1>1, <1>2, <2>3, <3>3 DEF InitAccept, InitRejected
  <2>4. QED
    BY <1>2, <2>1, <2>2, <2>3 DEF Boot, InitImg
<1>3. ASSUME BootInv, UpdateBegin \/ Update PROVE [Cfg!RegNext]_(Cfg!regVars)
  <2>1. CASE UpdateSwitch
    <3>1. cfg.image \in Image /\ cfg \in AnyCfg
      BY <1>3, <2>1 DEF UpdateSwitch, BootInv, CfgInHand, TypeOK, Updating
    <3>2. cfg' \in Record
      BY <2>1, <3>1, CfgUpdates DEF UpdateSwitch
    <3>3. QED
      BY <1>1, <1>3, <2>1, <3>2 DEF UpdateSwitch
  <2>2. CASE ~UpdateSwitch
    BY <1>3, <2>2
    DEF UpdateBegin, Update, UpdateErase, UpdateFetchApp, UpdateFetchRest, UpdateGiveUp
  <2>3. QED
    BY <2>1, <2>2
<1>4. ASSUME Write \/ WriteRefused \/ Watchdog \/ PowerLoss PROVE [Cfg!RegNext]_(Cfg!regVars)
  BY <1>4 DEF Write, WriteDropsOld, WriteDone, WriteRefused, Watchdog, PowerLoss, Restart, Cfg!RegNext
<1>5. ASSUME NEW i \in Image, Decay(i) PROVE [Cfg!RegNext]_(Cfg!regVars)
  BY <1>5 DEF Decay
<1>6. BootInv /\ [Next]_vars => [Cfg!RegNext]_(Cfg!regVars)
  BY <1>2, <1>3, <1>4, <1>5 DEF Next, vars
<1>7. QED
  BY <1>6, BootIsOnTrack, PTL DEF Spec, UsesRegister

\* A damaged image is a detour of a whole boot.
LEMMA Detours ==
  /\ Detour \in {0, 12}
  /\ Detour = 0 <=> Usable
BY DEF Detour

\* The bootloader brings the device nearer to an image that runs ...
LEMMA BootNearer ==
  ASSUME BootInv, WriteInv, Boot, trusted', \E i \in Image : Intact(i)
  PROVE  BootRank' < BootRank
<1>1. trusted
  BY DEF Boot, BootReadCfg, ReadCfg, BootLoad, BootFallback, BootLeap
<1>2. CASE BootReadCfg
  <2>1. reg \in Record /\ pc' = "load" /\ ~armed /\ ~armed'
    BY <1>2, CfgValues DEF BootReadCfg, ReadCfg, WriteInv, ArmInv
  <2>2. Detour' = Detour
    BY <1>2 DEF BootReadCfg, Detour, Usable, Intact, flash
  <2>3. QED
    BY <1>2, <2>1, <2>2, Detours DEF BootReadCfg, BootRank
<1>3. CASE BootLoad
  <2>1. ~armed /\ ~armed' /\ Detour' = Detour
    BY <1>3 DEF BootLoad, Detour, Usable, Intact, flash, WriteInv, ArmInv
  <2>2. QED
    BY <1>3, <2>1, Detours DEF BootLoad, BootRank
<1>4. CASE BootFallback
  <2>1. ~Usable /\ ~armed /\ ~armed'
    BY <1>1, <1>4, CfgValues DEF BootFallback, Usable, Intact, BootInv, OnTrack, WriteInv, ArmInv
  <2>2. QED
    BY <1>4, <2>1, Detours DEF BootFallback, BootRank
<1>5. CASE BootLeap
  <2>1. armed /\ armed' /\ Detour' = Detour
    BY <1>5 DEF BootLeap, Detour, Usable, Intact, flash, WriteInv, ArmInv
  <2>2. QED
    BY <1>5, <2>1, Detours DEF BootLeap, BootRank
<1>6. QED
  BY <1>2, <1>3, <1>4, <1>5 DEF Boot

\* ... so does the check of the image ...
LEMMA InitNearer ==
  ASSUME BootInv, WriteInv, InitImg, trusted', \E i \in Image : Intact(i)
  PROVE  BootRank' < BootRank
<1>1. trusted /\ UNCHANGED <<reg, flash>>
  BY DEF InitImg, InitReadCfg, ReadCfg, InitAccept, InitReject, InitRejected, Cfg!BeginWrite
<1>2. Detour \in {0, 12} /\ Detour' \in {0, 12}
  BY DEF Detour
<1>3. CASE InitReadCfg
  <2>1. Detour' = Detour /\ armed' = armed
    BY <1>3 DEF InitReadCfg, Detour, Usable, Intact, flash
  <2>2. QED
    BY <1>2, <1>3, <2>1 DEF InitReadCfg, BootRank
<1>4. CASE InitAccept
  <2>1. pending'.image = seq /\ reg.image = seq
    BY <1>1, <1>4 DEF InitAccept, Cfg!BeginWrite, BootInv, OnTrack, TypeOK, AnyCfg
  <2>2. Usable' /\ armed' = armed
    BY <1>1, <1>4, <2>1 DEF InitAccept, Usable, Intact, flash
  <2>3. QED
    BY <1>2, <1>4, <2>2 DEF InitAccept, BootRank, Detour
<1>5. CASE InitReject
  <2>1. ~Usable /\ armed' = armed
    BY <1>1, <1>5, CfgValues DEF InitReject, Usable, BootInv, OnTrack
  <2>2. QED
    BY <1>2, <1>5, <2>1, Detours DEF InitReject, BootRank
<1>6. CASE InitRejected
  <2>1. seq \in Image /\ cfg.image = Other(seq) /\ ~Intact(seq) /\ reg = cfg
    BY <1>1, <1>6 DEF InitRejected, WriteInv, RejectInv, BootInv, OnTrack
  <2>2. pending'.image = Other(seq)
    BY <1>6, <2>1 DEF InitRejected, Cfg!BeginWrite, BootInv, TypeOK, AnyCfg
  <2>3. Intact(Other(seq))
    BY <2>1, OtherImage, OtherIsIntact
  <2>4. Usable'
    BY <1>1, <2>1, <2>2, <2>3 DEF Usable, Intact, flash
  <2>5. pc = "rejected" /\ pc' = "acceptother" /\ armed'
    BY <1>6 DEF InitRejected
  <2>6. BootRank' = 7
    BY <2>4, <2>5 DEF BootRank, Detour
  <2>7. BootRank >= 8
    BY <1>2, <2>5 DEF BootRank
  <2>8. BootRank \in Int
    BY <1>2, <2>5 DEF BootRank
  <2>9. QED
    BY <2>6, <2>7, <2>8
<1>7. QED
  BY <1>3, <1>4, <1>5, <1>6 DEF InitImg

\* ... a write of the configuration that turns to the intact image ...
LEMMA WriteNearer ==
  ASSUME BootInv, WriteInv, WriteDone, trusted', \E i \in Image : Intact(i)
  PROVE  BootRank' < BootRank
<1>1. Usable' <=> Intact(pending.image)
  BY DEF WriteDone, Cfg!CompleteWrite, Usable, Intact, flash
<1>2. Detour \in {0, 12} /\ Detour' \in {0, 12}
  BY DEF Detour
<1>3. Detour = 0 => Detour' = 0
  BY <1>1 DEF Detour, Usable, WriteDone, Cfg!CompleteWrite
<1>4. CASE pc = "fallback"
  <2>1. Intact(pending.image) /\ ~armed
    BY <1>4, OtherIsIntact DEF WriteInv, TurnInv, ArmInv, Intact
  <2>2. Detour' = 0 /\ pc' = "leap" /\ armed'
    BY <1>1, <1>4, <2>1 DEF WriteDone, AfterWrite, Detour
  <2>3. QED
    BY <1>4, <2>1, <2>2 DEF BootRank
<1>5. CASE pc = "switch"
  <2>1. pc' = "run" /\ armed'
    BY <1>5 DEF WriteDone, AfterWrite
  <2>2. QED
    BY <1>2, <1>3, <1>5, <2>1 DEF BootRank
<1>6. CASE pc = "reject"
  <2>1. pc' = "rejected" /\ armed' = armed
    BY <1>6 DEF WriteDone, AfterWrite
  <2>2. QED
    BY <1>2, <1>3, <1>6, <2>1 DEF BootRank
<1>7. CASE pc \in {"accept", "acceptother"}
  <2>1. pc' = "run" /\ armed' = armed /\ (pc = "accept" \/ armed)
    BY <1>7 DEF WriteDone, AfterWrite, WriteInv, ArmInv
  <2>2. QED
    BY <1>2, <1>3, <1>7, <2>1 DEF BootRank
<1>8. QED
  BY <1>4, <1>5, <1>6, <1>7 DEF WriteDone, AfterWrite

\* ... and the watchdog, which may cut a write short.
LEMMA WatchdogNearer ==
  ASSUME BootInv, WriteInv, Watchdog PROVE BootRank' < BootRank
<1>1. pc' = "boot" /\ armed /\ ~armed' /\ UNCHANGED flash
  BY DEF Watchdog, Restart
<1>2. Detour \in {0, 12} /\ Detour' \in {0, 12}
  BY DEF Detour
<1>3. Usable => Usable'
  BY DEF Watchdog, Restart, Cfg!AbortWrite, Usable, Intact, flash
<1>4. Detour = 0 => Detour' = 0
  BY <1>3 DEF Detour
<1>5. CASE Detour = 0
  BY <1>1, <1>4, <1>5 DEF BootRank
<1>6. CASE Detour = 12
  BY <1>1, <1>2, <1>6 DEF BootRank
<1>7. QED
  BY <1>2, <1>5, <1>6

\* A device with one intact image and its configuration cannot boot for ever:
\* every step of the bootloader, of ctrl_img_init, of a configuration write and
\* of the watchdog lowers BootRank, so that a round of fallback, rejection and
\* reboot ends in an image that runs, also through the damaged image that the
\* bootloader enters meanwhile (bootloader.c:130-189, ctrl_img.c:57-92).
THEOREM BootingEnds == Spec => ComesNearer
<1>1. ASSUME BootInv, WriteInv, trusted', \E i \in Image : Intact(i),
             Boot \/ InitImg \/ WriteDone \/ Watchdog
      PROVE  BootRank' < BootRank
  BY <1>1, BootNearer, InitNearer, WriteNearer, WatchdogNearer
<1>2. BootInv /\ WriteInv =>
        [trusted' /\ (\E i \in Image : Intact(i)) /\ (Boot \/ InitImg \/ WriteDone \/ Watchdog)
           => BootRank' < BootRank]_vars
  BY <1>1
<1>3. QED
  BY <1>2, WritesSound, PTL DEF ComesNearer

\* ... and it does not stop on the way: a write in progress has its record, and
\* where the code stops for good the watchdog runs.
THEOREM BootNeverWaits == Spec => []NeverWaitsInVain
<1>1. WriteInv => NeverWaitsInVain
  BY DEF WriteInv
<1>2. QED
  BY <1>1, WritesSound, PTL
=============================================================================
