------------------------------ MODULE BootFlow ------------------------------
(***************************************************************************)
(* One device, from power-on to the jump out of the bootloader (BL), again *)
(* and again, with power losses between and inside its flash operations.   *)
(*                                                                         *)
(* Modelled code: mcuboot/Src/bootloader.c (bootloader_init, letStart,     *)
(* jumpToMF, jumpToBS and everything they call), img_manager.c,            *)
(* mcuboot_hooks.c, the flags of mail_engine.c and the shift of the        *)
(* secondary flash area (flash_map_backend.c).  MCUboot's boot_go, the     *)
(* main firmware (MF), the bootstrapper (BS) and the download service live *)
(* outside the repository and are modelled by what the code expects.       *)
(*                                                                         *)
(* Each flash write or erase is a step of its own, so that a power loss    *)
(* can fall before it, after it, or in the middle of it.  Everything       *)
(* between two flash operations is one step.                               *)
(***************************************************************************)
EXTENDS Naturals

CONSTANTS
  App,        \* main firmware images
  Wrapper,    \* images that wrap a main firmware image and carry a new public key
  Loader,     \* bootloader images
  Blank,      \* content of an erased header sector
  Noise,      \* content no parser accepts: torn writes, partial downloads
  Foreign,    \* parses as an image, with an unknown firmware descriptor
  Key,        \* public keys the secure element can hold
  Ver,        \* App -> version
  Cnt,        \* App -> security counter
  Signer,     \* App \cup Wrapper -> the key its signature verifies with, if any
  Inner,      \* Wrapper -> the wrapped main firmware image
  NewKey,     \* Wrapper -> the new public key in its TLV
  Movable,    \* the wrappers whose header is WRAPPER_HEADER_SIZE long
  MinVer,     \* Loader -> lowest MF version its dependency TLV accepts
  EagerMF,    \* the MF may consent to an update before its own first run is confirmed
  CleanSlot,  \* a download always erases the trailer of the secondary slot too
  MaxLosses   \* bound on the power losses of a behaviour

Image == App \cup Wrapper \cup Loader
Content == Image \cup {Blank, Noise, Foreign}

ASSUME ImageAssumption ==
  /\ App \cap Wrapper = {} /\ App \cap Loader = {} /\ Wrapper \cap Loader = {}
  /\ {Blank, Noise, Foreign} \cap Image = {}
  /\ Blank # Noise /\ Blank # Foreign /\ Noise # Foreign

ASSUME AttributeAssumption ==
  /\ Ver \in [App -> Nat] /\ Cnt \in [App -> Nat] /\ MinVer \in [Loader -> Nat]
  /\ Inner \in [Wrapper -> App] /\ NewKey \in [Wrapper -> Key]
  /\ Movable \subseteq Wrapper
  /\ EagerMF \in BOOLEAN /\ CleanSlot \in BOOLEAN /\ MaxLosses \in Nat

Flag == {"unset", "set", "bad"}
Trailer == [magic : Flag, copyDone : Flag, imageOk : Flag]
Erased == [magic |-> "unset", copyDone |-> "unset", imageOk |-> "unset"]

Status == {"OK", "LOW_BATTERY", "GARBAGE", "SAME_VERSION", "COUNTER_LESS",
           "BAD_SIGNATURE", "FLASH_ERROR", "FOUND_NOTHING", "READY",
           "JUMP_TO_BS", "PREVIOUS_FAILED", "DID_NOT_RESPOND", "SE_FAILED",
           "DEPENDENCY"}

\* Mailbox events to the BL, from the BS and from the MF.
FirstRunEvent == {"blFirstRun", "blFirstRunKey"}
ToBL == FirstRunEvent \cup {"blUpdated", "blFailed", "mfFirstRunOk", "allowUpdate"}
ToMF == {"mfFirstRun", "mfFailedToUpdate", "mfUpdateSuccess", "blFailedToUpdate",
         "blUpdateSuccess"}
ToBS == {"image", "firstRunOk", "keyOk"}

InitLabel == {"msgFailed", "msgDone", "msgFirst", "msgMF", "msgOk", "initDone"}
CopyLabel == {"copyErase", "copyTrailer", "copyData", "copyMagic", "copyDone",
              "dropHeader", "dropTrailer"}
StartLabel == {"start", "check", "replaceKey", "initiate", "status", "bootGo",
               "validate", "setMagic", "setCopy", "ready", "notReady",
               "failTail", "failEnd", "finish"}
EraseLabel == {"eraseHeader", "eraseTrailer"}
\* Where eraseArea returns to; "off" when it is not running.
Return == {"off", "msgDone", "msgFirst", "msgMF", "msgOk", "check", "status", "bootGo",
           "notReady", "failTail", "failEnd"}
Label == InitLabel \cup CopyLabel \cup StartLabel \cup EraseLabel
           \cup {"off", "idle", "mf", "bs"}

VARIABLES
  \* flash memory and secure element: survive everything
  primary,      \* content of the primary slot's header sector and body
  trailer,      \* boot status of the primary slot
  secondary,    \* content of the secondary slot, seen from its base
  whole,        \* nothing behind the secondary slot's first header is erased
  secMagic,     \* magic of the secondary slot, per position of the flash area
  seKey,        \* public key of the MF in the secure element
  self,         \* the running bootloader
  \* RAM mailbox: survives resets and jumps, not a power loss
  toBL, toMF, toBS,
  \* RAM of the bootloader
  pc, ret, area,     \* program counter; return label and slot of eraseArea
  phase,             \* which call of checkDownloadedUpdate / isMFReadyToStart
  parsed,            \* descriptor incomingMessageHandler read at its start
  mail,              \* events mailEngine_readMsgToBL found (its flags)
  shift,             \* 1 after flash_area_move_start
  initiated,         \* update_via_mcuboot_was_initiated
  mfBootFailed,      \* MF_boot_failed
  inited,            \* boot_target_instanse.inited
  passed,            \* update_MF_passed
  blStatus,          \* BL_status
  dlStatus,          \* BL_downloadStatus
  \* history
  installing,        \* image whose installation has begun and is not complete
  trial,             \* what the image in the primary slot has done so far
  refused,           \* this start's event that announces a first run found the mailbox full
  losses             \* power losses so far

slotVars == <<primary, trailer, secondary, whole, secMagic>>
idVars == <<seKey, self>>
mboxVars == <<toBL, toMF, toBS>>
frame == <<ret, area>>
callVars == <<frame, phase, parsed>>
ramVars == <<mail, shift, initiated, mfBootFailed, inited, passed, blStatus, dlStatus>>
histVars == <<installing, trial, refused, losses>>
vars == <<slotVars, idVars, mboxVars, pc, callVars, ramVars, histVars>>

TypeOK ==
  /\ primary \in Content /\ trailer \in Trailer
  /\ secondary \in Content /\ whole \in BOOLEAN
  /\ secMagic \in [0..1 -> Flag] /\ seKey \in Key /\ self \in Loader
  /\ toBL \subseteq ToBL /\ toMF \subseteq ToMF /\ toBS \subseteq ToBS
  /\ pc \in Label /\ ret \in Return /\ area \in {"primary", "secondary"}
  /\ phase \in {"first", "afterOK", "classic", "restore"}
  /\ parsed \in {"none", "app", "bl", "other"}
  /\ mail \subseteq ToBL /\ shift \in 0..1
  /\ initiated \in BOOLEAN /\ mfBootFailed \in BOOLEAN /\ inited \in BOOLEAN
  /\ passed \in BOOLEAN /\ blStatus \in Status /\ dlStatus \in Status
  /\ installing \in App \cup Wrapper \cup {Blank}
  /\ trial \in {"fresh", "started", "reported"} /\ refused \in BOOLEAN
  /\ losses \in 0..MaxLosses

-----------------------------------------------------------------------------
(* What the code reads. *)

\* The main firmware image a wrapped or a plain update installs.
Target(i) == IF i \in Wrapper THEN Inner[i] ELSE i

\* Mutant: the reader of the header forgets that the area was moved.
SeenUnmoved == secondary

\* Content at the start of the secondary flash area, wherever it has been moved.
Seen ==
  IF shift = 0 THEN secondary
  ELSE IF secondary \in Movable /\ whole THEN Inner[secondary]
  ELSE IF secondary \in Movable \cup {Blank} THEN Blank ELSE Noise

\* parser_initBootData returns 0 for the secondary area, resp. the primary slot.
SecondaryParses == Seen \in Image \cup {Foreign}
PrimaryParses == primary \in App

\* bootutil_img_validate accepts the secondary area.
SecVerifies == Seen \in App \cup Wrapper /\ whole /\ Signer[Seen] = seKey

Compatible(x) == MinVer[self] <= Ver[x]
Bootable == primary \in App /\ Signer[primary] = seKey /\ Compatible(primary)

\* Mutant: a MF that did not answer after its first run may try again.
StatusMFPatient ==
  IF "bad" \in {trailer.magic, trailer.copyDone, trailer.imageOk} THEN "READ_FAILED"
  ELSE IF trailer.magic = "unset" THEN "MAGIC_UNSET"
  ELSE IF trailer.copyDone = "unset" THEN "COPY_DONE_UNSET" ELSE "OK"

StatusMF ==
  IF "bad" \in {trailer.magic, trailer.copyDone, trailer.imageOk} THEN "READ_FAILED"
  ELSE IF trailer.magic = "unset" THEN "MAGIC_UNSET"
  ELSE IF trailer.copyDone = "unset" THEN "COPY_DONE_UNSET"
  ELSE IF trailer.imageOk = "unset" THEN "TEST_IN_PROGRESS" ELSE "OK"

\* BL_status = BL_status == BOOTLOADER_OK ? s : BL_status
IfOK(s) == IF blStatus = "OK" THEN s ELSE blStatus

Allowed == "allowUpdate" \in mail
Permitted == mfBootFailed \/ Allowed

\* Mutant: no check of the dependency of the update.
RefusalNoDependency ==
  IF ~PrimaryParses THEN "OK"
  ELSE IF Ver[primary] = Ver[Target(Seen)] THEN "SAME_VERSION"
  ELSE IF Cnt[primary] > Cnt[Target(Seen)] THEN "COUNTER_LESS" ELSE "OK"

\* Why newMainFirmwareHandler refuses the update it found; "OK" if it does not.
Refusal ==
  IF ~PrimaryParses THEN "OK"
  ELSE IF Ver[primary] = Ver[Target(Seen)] THEN "SAME_VERSION"
  ELSE IF Cnt[primary] > Cnt[Target(Seen)] THEN "COUNTER_LESS"
  ELSE IF ~Compatible(Target(Seen)) THEN "DEPENDENCY" ELSE "OK"

\* The mailbox after an attempt to put each of the events: it may be full, and nobody looks at
\* what ramMbox_put returns (mailEngine_sendEventToMF, mailEngine_sendEventToBS).
Sent(box, events) == {box \cup s : s \in SUBSET events}

\* The event that announces a first run, and whether it is still missing.
SendFirstRun ==
  /\ toMF' \in Sent(toMF, {"mfFirstRun"})
  /\ refused' = ("mfFirstRun" \notin toMF')

\* Control: go on at a label; run eraseArea on a slot and come back at a label.
Goto(l) == pc' = l /\ UNCHANGED frame
Erase(a, back) == pc' = "eraseHeader" /\ area' = a /\ ret' = back
EraseIf(c, a, l) == IF c THEN Erase(a, l) ELSE Goto(l)

\* RAM after a reset: the C startup code initialises every static variable.
RamReset ==
  /\ pc' = "off" /\ ret' = "off" /\ area' = "primary" /\ phase' = "first" /\ parsed' = "none"
  /\ mail' = {} /\ shift' = 0 /\ initiated' = FALSE /\ mfBootFailed' = FALSE
  /\ inited' = FALSE /\ passed' = FALSE /\ blStatus' = "OK" /\ dlStatus' = "OK"

-----------------------------------------------------------------------------
(* bootloader_init and incomingMessageHandler.  dlStatus stands for the      *)
(* handler's initial_bl_status, which bootloader_init stores there.          *)

PowerOn ==
  /\ pc = "off" /\ pc' = "msgFailed"
  /\ mail' = toBL /\ toBL' = {}
  /\ parsed' = IF secondary \in App \cup Wrapper THEN "app"
               ELSE IF secondary \in Loader THEN "bl"
               ELSE IF secondary = Foreign THEN "other" ELSE "none"
  /\ UNCHANGED <<slotVars, idVars, toMF, toBS, frame, phase, shift, initiated, mfBootFailed,
                 inited, passed, blStatus, dlStatus, histVars>>

MsgFailed ==
  /\ pc = "msgFailed"
  /\ dlStatus' = IF "blFailed" \in mail THEN "PREVIOUS_FAILED" ELSE dlStatus
  /\ EraseIf("blFailed" \in mail /\ parsed # "none", "secondary", "msgDone")
  /\ UNCHANGED <<slotVars, idVars, mboxVars, phase, parsed, mail, shift, initiated,
                 mfBootFailed, inited, passed, blStatus, histVars>>

MsgDone ==
  /\ pc = "msgDone"
  /\ EraseIf("blUpdated" \in mail /\ parsed # "none", "secondary", "msgFirst")
  /\ UNCHANGED <<slotVars, idVars, mboxVars, phase, parsed, ramVars, histVars>>

\* mailEngine_shareNewBL fails: the image is larger than a sector, the flash read
\* fails, or there is no room and every message of the BL is removed.
ShareFails ==
  \/ UNCHANGED <<toBS, toMF>>
  \/ toBS' = {} /\ toMF' = {}

MsgFirst ==
  /\ pc = "msgFirst"
  /\ \/ /\ mail \cap FirstRunEvent = {}
        /\ Goto("msgMF")
        /\ UNCHANGED <<toBS, toMF, dlStatus>>
     \/ /\ mail \cap FirstRunEvent # {}
        /\ \/ /\ "blFirstRunKey" \notin mail
              /\ toBS' \in Sent(toBS, {"firstRunOk"}) /\ UNCHANGED toMF
           \/ /\ "blFirstRunKey" \in mail /\ parsed = "bl"
              /\ toBS' \in Sent(toBS \cup {"image"}, {"keyOk"}) /\ UNCHANGED toMF
           \/ "blFirstRunKey" \in mail /\ parsed = "bl" /\ ShareFails
           \/ "blFirstRunKey" \in mail /\ parsed # "bl" /\ UNCHANGED <<toBS, toMF>>
        /\ dlStatus' = "JUMP_TO_BS"
        /\ EraseIf(parsed = "bl", "secondary", "msgMF")
  /\ UNCHANGED <<slotVars, idVars, toBL, phase, parsed, mail, shift, initiated, mfBootFailed,
                 inited, passed, blStatus, histVars>>

MsgMF ==
  /\ pc = "msgMF"
  /\ IF "mfFirstRunOk" \in mail THEN EraseIf(parsed = "app", "secondary", "msgOk")
                                ELSE Goto("initDone")
  /\ UNCHANGED <<slotVars, idVars, mboxVars, phase, parsed, ramVars, histVars>>

\* Tell the MF, then imgManager_setOkMF.
MsgOk ==
  /\ pc = "msgOk" /\ Goto("initDone")
  /\ toMF' \in Sent(toMF, {"mfUpdateSuccess"})
  /\ trailer' = IF trailer.magic = "set" /\ trailer.imageOk = "unset"
                THEN [trailer EXCEPT !.imageOk = "set"] ELSE trailer
  /\ UNCHANGED <<primary, secondary, whole, secMagic, idVars, toBL, toBS, phase, parsed,
                 ramVars, histVars>>

\* bootTask: show an error and wait, jump to the BS, or start.
InitDone ==
  /\ pc = "initDone"
  /\ Goto(CASE dlStatus = "PREVIOUS_FAILED" -> "idle"
            [] dlStatus = "JUMP_TO_BS" -> "bs"
            [] OTHER -> "start")
  /\ toBL' = IF dlStatus = "JUMP_TO_BS" THEN {} ELSE toBL
  /\ parsed' = "none"
  /\ UNCHANGED <<slotVars, idVars, toMF, toBS, phase, ramVars, histVars>>

-----------------------------------------------------------------------------
(* imgManager_eraseArea: the header sector, then the sector of the trailer.  *)

HeaderErased ==
  /\ primary' = IF area = "primary" THEN Blank ELSE primary
  /\ secondary' = IF area = "secondary" /\ shift = 0 THEN Blank ELSE secondary
  /\ whole' = (whole /\ area = "primary")

EraseHeader ==
  /\ pc = "eraseHeader" /\ Goto("eraseTrailer")
  /\ HeaderErased
  /\ UNCHANGED <<trailer, secMagic, idVars, mboxVars, phase, parsed, ramVars, histVars>>

\* The last sector of the moved area also holds the trailer of the unmoved one.
SecTrailerErased == [p \in 0..1 |-> IF p <= shift THEN "unset" ELSE secMagic[p]]

EraseTrailer ==
  /\ pc = "eraseTrailer" /\ pc' = ret /\ ret' = "off" /\ area' = "primary"
  /\ trailer' = IF area = "primary" /\ trailer.magic # "unset" THEN Erased ELSE trailer
  /\ secMagic' = IF area = "secondary" /\ secMagic[shift] # "unset" THEN SecTrailerErased
                 ELSE secMagic
  /\ UNCHANGED <<primary, secondary, whole, idVars, mboxVars, phase, parsed, ramVars, histVars>>

-----------------------------------------------------------------------------
(* bootloader_letStart and checkDownloadedUpdate.                            *)

\* Mutant: boot_target_instanse.inited is not cleared.
StartKeepsInited ==
  /\ pc = "start" /\ Goto("check")
  /\ phase' = "first"
  /\ blStatus' = "OK" /\ dlStatus' = "OK"
  /\ initiated' = FALSE /\ mfBootFailed' = FALSE /\ refused' = FALSE
  /\ UNCHANGED <<slotVars, idVars, mboxVars, parsed, mail, shift, inited, passed, installing,
                 trial, losses>>

Start ==
  /\ pc = "start" /\ Goto("check")
  /\ phase' = "first"
  /\ blStatus' = "OK" /\ dlStatus' = "OK"
  /\ inited' = FALSE /\ initiated' = FALSE /\ mfBootFailed' = FALSE /\ refused' = FALSE
  /\ UNCHANGED <<slotVars, idVars, mboxVars, parsed, mail, shift, passed, installing, trial,
                 losses>>

AfterCheck == IF phase = "first" THEN "status" ELSE "bootGo"

\* A check that leaves the update alone, or erases it, with the status it reports.
Checked(erase, status) ==
  /\ EraseIf(erase, "secondary", AfterCheck)
  /\ blStatus' = IfOK(status)
  /\ UNCHANGED <<slotVars, idVars, mboxVars, phase, parsed, mail, shift, initiated,
                 mfBootFailed, inited, passed, dlStatus, histVars>>

CheckGarbage ==
  /\ pc = "check" /\ ~SecondaryParses
  /\ IF Allowed THEN Checked(TRUE, "GARBAGE") ELSE Checked(FALSE, "OK")

CheckForeign ==
  /\ pc = "check" /\ Seen = Foreign
  /\ IF Permitted THEN Checked(TRUE, "GARBAGE") ELSE Checked(FALSE, "OK")

CheckForbidden ==
  /\ pc = "check" /\ Seen \in Image /\ ~Permitted
  /\ Checked(FALSE, "OK")

CheckLowBattery ==
  /\ pc = "check" /\ Seen \in Image /\ Permitted
  /\ Checked(FALSE, "LOW_BATTERY")

\* isUpdateAllowed returned true: consent, or nothing else to boot, and the battery is good.
UpdateFound == pc = "check" /\ Seen \in Image /\ Permitted

\* newBootloaderHandler
CheckLoader ==
  /\ UpdateFound /\ Seen \in Loader
  /\ Goto(AfterCheck)
  /\ \/ blStatus' = "JUMP_TO_BS" /\ toBS' = toBS \cup {"image"} /\ UNCHANGED toMF
     \/ blStatus' = IfOK("FLASH_ERROR") /\ ShareFails
  /\ UNCHANGED <<slotVars, idVars, toBL, phase, parsed, mail, shift, initiated, mfBootFailed,
                 inited, passed, dlStatus, histVars>>

\* newMainFirmwareHandler
CheckRefused ==
  /\ UpdateFound /\ Seen \notin Loader /\ Refusal # "OK"
  /\ Checked(TRUE, Refusal)

CheckApp ==
  /\ UpdateFound /\ Seen \in App /\ Refusal = "OK"
  /\ Goto("initiate")
  /\ UNCHANGED <<slotVars, idVars, mboxVars, phase, parsed, ramVars, histVars>>

\* Mutant: no last chance for a wrapper whose key was already replaced.
MayUnwrapVerified == SecVerifies

\* A wrapper is moved past its header when it verifies, or as the last chance to recover.
MayUnwrap == SecVerifies \/ mfBootFailed

\* flash_area_move_start refuses the wrapper, or it does not verify.
CheckWrapperBad ==
  /\ UpdateFound /\ Seen \in Wrapper /\ Refusal = "OK"
  /\ ~(MayUnwrap /\ Seen \in Movable)
  /\ Checked(TRUE, IF MayUnwrap THEN "FLASH_ERROR" ELSE "BAD_SIGNATURE")

CheckWrapper ==
  /\ UpdateFound /\ Seen \in Wrapper /\ Refusal = "OK"
  /\ MayUnwrap /\ Seen \in Movable
  /\ shift' = shift + 1
  /\ Goto(IF SecVerifies THEN "replaceKey" ELSE "initiate")
  /\ UNCHANGED <<slotVars, idVars, mboxVars, phase, parsed, mail, initiated, mfBootFailed,
                 inited, passed, blStatus, dlStatus, histVars>>

\* libse_secureReplacePublicKeyMF; after a failure the area stays moved.
ReplaceKey ==
  /\ pc = "replaceKey"
  /\ seKey' = NewKey[secondary] /\ installing' = secondary
  /\ Goto("initiate")
  /\ UNCHANGED <<slotVars, self, mboxVars, phase, parsed, ramVars, trial, refused, losses>>

ReplaceKeyFails ==
  /\ pc = "replaceKey"
  /\ Checked(TRUE, "SE_FAILED")

\* initiateUpdateViaMcuboot: a bad magic is erased before the magic is written.
Initiate ==
  /\ pc = "initiate"
  /\ IF secMagic[shift] = "bad"
     THEN secMagic' = [secMagic EXCEPT ![shift] = "unset"] /\ Goto("initiate")
                      /\ UNCHANGED initiated
     ELSE secMagic' = [secMagic EXCEPT ![shift] = "set"] /\ Goto(AfterCheck)
                      /\ initiated' = TRUE
  /\ UNCHANGED <<primary, trailer, secondary, whole, idVars, mboxVars, phase, parsed, mail,
                 shift, mfBootFailed, inited, passed, blStatus, dlStatus, histVars>>

-----------------------------------------------------------------------------
(* The switch of letStart over the status of the primary slot, and           *)
(* BootFailedHandler.                                                        *)

\* Mutant: MF_boot_failed is not set.
BootFailedUnmarked(p) ==
  /\ phase' = p
  /\ UNCHANGED mfBootFailed
  /\ IF initiated THEN Erase("primary", "failTail")
     ELSE EraseIf(p # "restore", "primary", "check")

BootFailed(p) ==
  /\ phase' = p
  /\ IF initiated THEN Erase("primary", "failTail") /\ UNCHANGED mfBootFailed
     ELSE EraseIf(p # "restore", "primary", "check") /\ mfBootFailed' = TRUE

StatusJump ==
  /\ pc = "status" /\ blStatus = "JUMP_TO_BS"
  /\ Goto("finish")
  /\ UNCHANGED <<slotVars, idVars, mboxVars, phase, parsed, ramVars, histVars>>

StatusOK ==
  /\ pc = "status" /\ blStatus # "JUMP_TO_BS" /\ StatusMF = "OK"
  /\ Goto(IF blStatus = "LOW_BATTERY" THEN "finish" ELSE "bootGo")
  /\ UNCHANGED <<slotVars, idVars, mboxVars, phase, parsed, ramVars, histVars>>

StatusFailed ==
  /\ pc = "status" /\ blStatus # "JUMP_TO_BS" /\ StatusMF # "OK"
  /\ blStatus' = IF StatusMF = "TEST_IN_PROGRESS" THEN "DID_NOT_RESPOND" ELSE blStatus
  /\ BootFailed(IF StatusMF \in {"MAGIC_UNSET", "COPY_DONE_UNSET"} THEN "restore"
                ELSE "classic")
  /\ UNCHANGED <<slotVars, idVars, mboxVars, parsed, mail, shift, initiated, inited, passed,
                 dlStatus, histVars>>

NotReady ==
  /\ pc = "notReady"
  /\ IF phase = "first" THEN BootFailed("afterOK")
     ELSE EraseIf(phase = "restore", "primary", "failTail") /\ UNCHANGED <<phase, mfBootFailed>>
  /\ UNCHANGED <<slotVars, idVars, mboxVars, parsed, mail, shift, initiated, inited, passed,
                 blStatus, dlStatus, histVars>>

\* imgManager_eraseUpdateMF moves the area back first.
FailTail ==
  /\ pc = "failTail"
  /\ EraseIf(initiated, "secondary", "failEnd")
  /\ shift' = IF initiated THEN 0 ELSE shift
  /\ blStatus' = IF initiated THEN IfOK("BAD_SIGNATURE") ELSE blStatus
  /\ UNCHANGED <<slotVars, idVars, mboxVars, phase, parsed, mail, initiated, mfBootFailed,
                 inited, passed, dlStatus, histVars>>

FailEnd ==
  /\ pc = "failEnd" /\ Goto("finish")
  /\ toMF' = {}
  /\ blStatus' = IF phase = "afterOK" THEN blStatus ELSE IfOK("FOUND_NOTHING")
  /\ UNCHANGED <<slotVars, idVars, toBL, toBS, phase, parsed, mail, shift, initiated,
                 mfBootFailed, inited, passed, dlStatus, histVars>>

-----------------------------------------------------------------------------
(* isMFReadyToStart: boot_go (external), the hooks it calls, and what        *)
(* follows a verified image.                                                 *)

UpdatePending == secMagic[shift] = "set"
UpdateUsable == SecVerifies /\ ~(PrimaryParses /\ Cnt[Target(Seen)] < Cnt[primary])

\* MCUboot erases the whole area of an update that it does not accept.
BootGoErase ==
  /\ pc = "bootGo" /\ UpdatePending /\ ~UpdateUsable
  /\ Goto("validate")
  /\ secondary' = IF shift = 0 THEN Blank ELSE secondary
  /\ whole' = FALSE /\ secMagic' = SecTrailerErased
  /\ UNCHANGED <<primary, trailer, idVars, mboxVars, phase, parsed, ramVars, histVars>>

\* Mutant: the hook lets MCUboot install every update that verifies.
BootGoUnhooked ==
  /\ pc = "bootGo" /\ (UpdatePending => UpdateUsable)
  /\ Goto(IF UpdatePending THEN "copyErase" ELSE "validate")
  /\ UNCHANGED <<slotVars, idVars, mboxVars, phase, parsed, ramVars, histVars>>

\* boot_perform_update_hook lets it install only an update the BL initiated.
BootGo ==
  /\ pc = "bootGo" /\ (UpdatePending => UpdateUsable)
  /\ Goto(IF UpdatePending /\ initiated THEN "copyErase" ELSE "validate")
  /\ UNCHANGED <<slotVars, idVars, mboxVars, phase, parsed, ramVars, histVars>>

CopyErase ==
  /\ pc = "copyErase" /\ Goto("copyTrailer")
  /\ primary' = Blank /\ installing' = secondary
  /\ UNCHANGED <<trailer, secondary, whole, secMagic, idVars, mboxVars, phase, parsed, ramVars,
                 trial, refused, losses>>

CopyTrailer ==
  /\ pc = "copyTrailer" /\ Goto("copyData")
  /\ trailer' = Erased
  /\ UNCHANGED <<primary, secondary, whole, secMagic, idVars, mboxVars, phase, parsed, ramVars,
                 histVars>>

CopyData ==
  /\ pc = "copyData" /\ Goto("copyMagic")
  /\ primary' = Seen /\ trial' = "fresh"
  /\ UNCHANGED <<trailer, secondary, whole, secMagic, idVars, mboxVars, phase, parsed, ramVars,
                 installing, refused, losses>>

CopyMagic ==
  /\ pc = "copyMagic" /\ Goto("copyDone")
  /\ trailer' = [trailer EXCEPT !.magic = "set"]
  /\ UNCHANGED <<primary, secondary, whole, secMagic, idVars, mboxVars, phase, parsed, ramVars,
                 histVars>>

\* boot_copy_region_post_hook and imgManager_setCopyDone
CopyDone ==
  /\ pc = "copyDone" /\ Goto("dropHeader")
  /\ trailer' = IF trailer.magic = "set" /\ trailer.copyDone = "unset"
                THEN [trailer EXCEPT !.copyDone = "set"] ELSE trailer
  /\ passed' = TRUE /\ installing' = Blank
  /\ UNCHANGED <<primary, secondary, whole, secMagic, idVars, mboxVars, phase, parsed, mail,
                 shift, initiated, mfBootFailed, inited, blStatus, dlStatus, trial, refused,
                 losses>>

DropHeader ==
  /\ pc = "dropHeader" /\ Goto("dropTrailer")
  /\ secondary' = IF shift = 0 THEN Blank ELSE secondary
  /\ whole' = FALSE
  /\ UNCHANGED <<primary, trailer, secMagic, idVars, mboxVars, phase, parsed, ramVars, histVars>>

DropTrailer ==
  /\ pc = "dropTrailer" /\ Goto("validate")
  /\ secMagic' = SecTrailerErased
  /\ UNCHANGED <<primary, trailer, secondary, whole, idVars, mboxVars, phase, parsed, ramVars,
                 histVars>>

\* boot_go finds no image that verifies, or verifyDepencency refuses the one it finds.
ValidateFails ==
  /\ pc = "validate" /\ ~Bootable
  /\ Goto("notReady")
  /\ UNCHANGED <<slotVars, idVars, mboxVars, phase, parsed, ramVars, histVars>>

\* Events forwarded to a MF that was good before this start.
Forwarded ==
  IF initiated THEN {"mfFailedToUpdate"}
  ELSE (IF "blFailed" \in mail THEN {"blFailedToUpdate"} ELSE {}) \cup
       (IF "blUpdated" \in mail THEN {"blUpdateSuccess"} ELSE {})

\* Mutant: an update that was copied is announced as one that failed.
ValidateMisreports ==
  /\ pc = "validate" /\ Bootable
  /\ inited' = TRUE
  /\ CASE StatusMF \in {"MAGIC_UNSET", "COPY_DONE_UNSET"} ->
            Goto("setMagic") /\ UNCHANGED <<toMF, refused>>
       [] StatusMF \in {"TEST_IN_PROGRESS", "OK"} ->
            Goto("ready") /\ toMF' \in Sent(toMF, Forwarded) /\ UNCHANGED refused
       [] OTHER ->
            Erase("primary", "notReady") /\ UNCHANGED <<toMF, refused>>
  /\ UNCHANGED <<slotVars, idVars, toBL, toBS, phase, parsed, mail, shift, initiated,
                 mfBootFailed, passed, blStatus, dlStatus, installing, trial, losses>>

Validate ==
  /\ pc = "validate" /\ Bootable
  /\ inited' = TRUE
  /\ CASE StatusMF \in {"MAGIC_UNSET", "COPY_DONE_UNSET"} ->
            Goto("setMagic") /\ UNCHANGED <<toMF, refused>>
       [] StatusMF = "TEST_IN_PROGRESS" /\ initiated ->
            Goto("ready") /\ SendFirstRun
       [] StatusMF = "OK" ->
            Goto("ready") /\ toMF' \in Sent(toMF, Forwarded) /\ UNCHANGED refused
       [] OTHER ->
            Erase("primary", "notReady") /\ UNCHANGED <<toMF, refused>>
  /\ UNCHANGED <<slotVars, idVars, toBL, toBS, phase, parsed, mail, shift, initiated,
                 mfBootFailed, passed, blStatus, dlStatus, installing, trial, losses>>

\* imgManager_setMagicMF: two writes, then the event that announces a first run.
SetMagic ==
  /\ pc = "setMagic" /\ Goto("setCopy")
  /\ trailer' = IF trailer.magic = "unset" THEN [trailer EXCEPT !.magic = "set"] ELSE trailer
  /\ UNCHANGED <<primary, secondary, whole, secMagic, idVars, mboxVars, phase, parsed, ramVars,
                 histVars>>

\* Mutant: a MF that is restored is confirmed at once.
SetCopyConfirmed ==
  /\ pc = "setCopy" /\ Goto("ready")
  /\ trailer' = [trailer EXCEPT !.copyDone = "set", !.imageOk = "set"]
  /\ passed' = TRUE /\ SendFirstRun
  /\ installing' = IF installing # Blank /\ Target(installing) = primary THEN Blank
                   ELSE installing
  /\ UNCHANGED <<primary, secondary, whole, secMagic, idVars, toBL, toBS, phase, parsed, mail,
                 shift, initiated, mfBootFailed, inited, blStatus, dlStatus, trial, losses>>

SetCopy ==
  /\ pc = "setCopy" /\ Goto("ready")
  /\ trailer' = IF trailer.copyDone = "unset" THEN [trailer EXCEPT !.copyDone = "set"]
                ELSE trailer
  /\ passed' = TRUE /\ SendFirstRun
  /\ installing' = IF installing # Blank /\ Target(installing) = primary THEN Blank
                   ELSE installing
  /\ UNCHANGED <<primary, secondary, whole, secMagic, idVars, toBL, toBS, phase, parsed, mail,
                 shift, initiated, mfBootFailed, inited, blStatus, dlStatus, trial, losses>>

Ready ==
  /\ pc = "ready" /\ Goto("finish")
  /\ blStatus' = "READY"
  /\ dlStatus' = IF phase = "first" THEN blStatus ELSE dlStatus
  /\ UNCHANGED <<slotVars, idVars, mboxVars, phase, parsed, mail, shift, initiated,
                 mfBootFailed, inited, passed, histVars>>

-----------------------------------------------------------------------------
(* The return of letStart, and what bootTask and the user do with it.        *)

\* endOfWork_jumpTo: prepareToShutdown removes the messages to the BL.
EnterMF == toBL' = {} /\ trial' = IF trial = "fresh" THEN "started" ELSE trial

Finish ==
  /\ pc = "finish"
  /\ dlStatus' = IF dlStatus = "OK" THEN blStatus ELSE dlStatus
  /\ phase' = "first"
  /\ \/ /\ blStatus = "JUMP_TO_BS" /\ Goto("bs") /\ toBL' = {} /\ UNCHANGED trial
     \/ /\ blStatus = "READY" /\ passed /\ Goto("mf") /\ EnterMF
     \/ /\ blStatus # "JUMP_TO_BS" /\ ~(blStatus = "READY" /\ passed) /\ Goto("idle")
        /\ UNCHANGED <<toBL, trial>>
  /\ UNCHANGED <<slotVars, idVars, toMF, toBS, parsed, mail, shift, initiated, mfBootFailed,
                 inited, passed, blStatus, installing, refused, losses>>

\* bootloader_jumpToMF, for any event of the GUI that asks for it.
JumpToMF ==
  /\ pc = "idle" /\ inited
  /\ Goto("mf") /\ EnterMF
  /\ UNCHANGED <<slotVars, idVars, toMF, toBS, phase, parsed, ramVars, installing, refused,
                 losses>>

JumpToMFRefused ==
  /\ pc = "idle" /\ ~inited
  /\ blStatus' = "FOUND_NOTHING"
  /\ UNCHANGED <<slotVars, idVars, mboxVars, pc, callVars, mail, shift, initiated, mfBootFailed,
                 inited, passed, dlStatus, histVars>>

StartAgain ==
  /\ pc = "idle" /\ Goto("start")
  /\ UNCHANGED <<slotVars, idVars, mboxVars, phase, parsed, ramVars, histVars>>

\* An update arrives over NFC: any image, or a part of one.
Downloaded ==
  /\ \/ secondary' \in Image /\ whole' = TRUE
     \/ secondary' \in {Noise, Foreign} /\ whole' = FALSE
  /\ secMagic' \in {[p \in 0..1 |-> "unset"]} \cup (IF CleanSlot THEN {} ELSE {secMagic})
  /\ installing' = Blank

Download ==
  /\ pc = "idle" /\ Goto("start")
  /\ Downloaded
  /\ UNCHANGED <<primary, trailer, idVars, mboxVars, phase, parsed, ramVars, trial, refused, losses>>

\* The user pressed the button of the force-download screen.
ForceDownload ==
  /\ pc = "idle" /\ blStatus = "READY"
  /\ mail' = mail \cup {"allowUpdate"}
  /\ UNCHANGED <<slotVars, idVars, mboxVars, pc, callVars, shift, initiated, mfBootFailed,
                 inited, passed, blStatus, dlStatus, histVars>>

\* Standby: the RAM mailbox does not survive it.
Sleep ==
  /\ pc = "idle" /\ RamReset /\ refused' = FALSE
  /\ toBL' = {} /\ toMF' = {} /\ toBS' = {}
  /\ UNCHANGED <<slotVars, idVars, installing, trial, losses>>

\* The BS may install the loader it was given, and reports at most one event.
BSReturn ==
  /\ pc = "bs" /\ RamReset
  /\ self' \in {self} \cup (IF "image" \in toBS THEN {secondary} \cap Loader ELSE {})
  /\ \E e \in SUBSET (FirstRunEvent \cup {"blUpdated", "blFailed"}) :
       toBL' = e /\ \A x, y \in e : x = y
  /\ toBS' = {}
  /\ UNCHANGED <<slotVars, seKey, toMF, histVars>>

\* A MF that was told of its first run reports it and resets.
MFReport ==
  /\ pc = "mf" /\ "mfFirstRun" \in toMF /\ RamReset
  /\ toBL' = {"mfFirstRunOk"} /\ toMF' = {} /\ trial' = "reported" /\ refused' = FALSE
  /\ UNCHANGED <<slotVars, idVars, toBS, installing, losses>>

\* The MF stores an update, with or without the consent of the user, and resets.
MFDownload ==
  /\ pc = "mf" /\ RamReset
  /\ Downloaded
  /\ toBL' \in {{}} \cup (IF EagerMF \/ trailer.imageOk = "set" THEN {{"allowUpdate"}} ELSE {})
  /\ toMF' = {} /\ refused' = FALSE
  /\ UNCHANGED <<primary, trailer, idVars, toBS, trial, losses>>

MFReset ==
  /\ pc = "mf" /\ RamReset
  /\ toMF' = {} /\ refused' = FALSE
  /\ UNCHANGED <<slotVars, idVars, toBL, toBS, installing, trial, losses>>

-----------------------------------------------------------------------------
(* Power loss: before the operation the program is at, or in the middle.     *)

TornPrimary ==
  /\ pc \in {"copyErase", "copyData"} \/ (pc = "eraseHeader" /\ area = "primary")
  /\ primary' = Noise
  /\ installing' = IF pc = "copyErase" THEN secondary ELSE installing
  /\ UNCHANGED <<trailer, secondary, whole, secMagic>>

TornSecondary ==
  /\ \/ pc \in {"dropHeader", "idle", "mf"} \/ (pc = "eraseHeader" /\ area = "secondary")
     \/ pc = "bootGo" /\ UpdatePending /\ ~UpdateUsable
  /\ secondary' = IF shift = 0 \/ pc \in {"idle", "mf"} THEN Noise ELSE secondary
  /\ whole' = FALSE
  /\ installing' = IF pc \in {"idle", "mf"} THEN Blank ELSE installing
  /\ UNCHANGED <<primary, trailer, secMagic>>

MagicInFlight ==
  \/ pc \in {"copyTrailer", "copyMagic"}
  \/ pc = "setMagic" /\ trailer.magic = "unset"
  \/ pc = "eraseTrailer" /\ area = "primary" /\ trailer.magic # "unset"

TornTrailer ==
  /\ \/ MagicInFlight /\ trailer' = [trailer EXCEPT !.magic = "bad"]
     \/ /\ pc \in {"copyDone", "setCopy"} /\ trailer.copyDone = "unset"
        /\ trailer' = [trailer EXCEPT !.copyDone = "bad"]
     \/ /\ pc = "msgOk" /\ trailer.magic = "set" /\ trailer.imageOk = "unset"
        /\ trailer' = [trailer EXCEPT !.imageOk = "bad"]
  /\ UNCHANGED <<primary, secondary, whole, secMagic, installing>>

TornMagic ==
  /\ \/ pc = "dropTrailer" \/ (pc = "initiate" /\ secMagic[shift] # "set")
     \/ pc = "eraseTrailer" /\ area = "secondary" /\ secMagic[shift] # "unset"
  /\ secMagic' = [secMagic EXCEPT ![shift] = "bad"]
  /\ UNCHANGED <<primary, trailer, secondary, whole, installing>>

PowerLoss ==
  /\ pc # "off" /\ losses < MaxLosses
  /\ losses' = losses + 1 /\ refused' = FALSE
  /\ RamReset
  /\ toBL' = {} /\ toMF' = {} /\ toBS' = {}
  /\ \/ UNCHANGED <<slotVars, installing>>
     \/ TornPrimary \/ TornSecondary \/ TornTrailer \/ TornMagic
  /\ UNCHANGED <<idVars, trial>>

-----------------------------------------------------------------------------
\* A device leaves the factory with a MF or without one; or it has run for a while.
Init ==
  /\ primary \in App \cup {Blank}
  /\ trailer \in {Erased, [magic |-> "set", copyDone |-> "set", imageOk |-> "set"]}
  /\ trailer # Erased => primary # Blank
  /\ secondary = Blank /\ whole = FALSE /\ secMagic = [p \in 0..1 |-> "unset"]
  /\ seKey \in Key /\ self \in Loader
  /\ primary # Blank => Bootable
  /\ toBL = {} /\ toMF = {} /\ toBS = {}
  /\ pc = "off" /\ ret = "off" /\ area = "primary" /\ phase = "first" /\ parsed = "none"
  /\ mail = {} /\ shift = 0 /\ initiated = FALSE /\ mfBootFailed = FALSE
  /\ inited = FALSE /\ passed = FALSE /\ blStatus = "OK" /\ dlStatus = "OK"
  /\ installing = Blank /\ refused = FALSE /\ losses = 0
  /\ trial = IF trailer = Erased THEN "fresh" ELSE "reported"

MsgStep == MsgFailed \/ MsgDone \/ MsgFirst \/ MsgMF \/ MsgOk \/ InitDone
EraseStep == EraseHeader \/ EraseTrailer
CheckStep == CheckGarbage \/ CheckForeign \/ CheckForbidden \/ CheckLowBattery \/ CheckLoader
               \/ CheckRefused \/ CheckApp \/ CheckWrapperBad \/ CheckWrapper
UpdateStep == ReplaceKey \/ ReplaceKeyFails \/ Initiate
StatusStep == StatusJump \/ StatusOK \/ StatusFailed \/ NotReady \/ FailTail \/ FailEnd
CopyStep == CopyErase \/ CopyTrailer \/ CopyData \/ CopyMagic \/ CopyDone \/ DropHeader
              \/ DropTrailer
BootStep == BootGoErase \/ BootGo \/ CopyStep \/ ValidateFails \/ Validate \/ SetMagic
              \/ SetCopy \/ Ready
IdleStep == JumpToMF \/ JumpToMFRefused \/ StartAgain \/ Download \/ ForceDownload \/ Sleep
OutsideStep == BSReturn \/ MFReport \/ MFDownload \/ MFReset

\* Steps the BL takes on its own once it has power.
BLStep == PowerOn \/ MsgStep \/ EraseStep \/ Start \/ CheckStep \/ UpdateStep \/ StatusStep
            \/ BootStep \/ Finish

Next == BLStep \/ IdleStep \/ OutsideStep \/ PowerLoss

Spec == Init /\ [][Next]_vars

\* The battery of isUpdateAllowed is good, again and again: the low-battery screen makes the
\* user charge the device, and every other screen ends by a timeout in a new start or in
\* standby, from which the user wakes the device.
ChargedCheck == CheckLoader \/ CheckRefused \/ CheckApp \/ CheckWrapperBad \/ CheckWrapper

Fairness ==
  /\ WF_vars(BLStep)
  /\ SF_vars(ChargedCheck)
  /\ WF_vars(StartAgain \/ Sleep)

FairSpec == Spec /\ Fairness

-----------------------------------------------------------------------------
(* Properties. *)

\* The code jumps to a MF only if the image in the primary slot verifies under the key in the
\* secure element at that moment, is compatible with the running bootloader and is marked as
\* completely copied: whatever was replaced, erased or interrupted since it was last checked
\* (bootloader_jumpToMF trusts a flag that an earlier boot_go set).
RunsOnlyVerified ==
  pc = "mf" => /\ primary \in App /\ Signer[primary] = seKey /\ MinVer[self] <= Ver[primary]
               /\ trailer.magic = "set" /\ trailer.copyDone = "set"

\* MCUboot overwrites the primary slot only with the consent of the user or when there is
\* nothing else to boot, although the magic that triggers it stays in external flash over
\* resets (boot_perform_update_hook, initiateUpdateViaMcuboot).
NoUnrequestedInstall == pc \in CopyLabel => mfBootFailed \/ "allowUpdate" \in mail

\* The primary slot is confirmed only after the very image in it has run and reported
\* (imgManager_setOkMF acts on a message that may be about an earlier image).
ConfirmedOnlyAfterReport == trailer.imageOk = "set" => trial = "reported"

\* A MF that has not been confirmed is told that it is its first run, unless the mailbox was full
\* when this very start put the event: otherwise it does not report, and the next start erases
\* it (isMFReadyToStart, mailEngine_sendEventToMF, mailEngine_removeMsgToMF).
TrialIsAnnounced ==
  pc = "mf" /\ trailer.imageOk # "set" => "mfFirstRun" \in toMF \/ refused

\* The update i can run on this device once it is in the primary slot.
Installable(i) ==
  /\ i \in App \cup Wrapper /\ MinVer[self] <= Ver[Target(i)]
  /\ Signer[Target(i)] = (IF i \in Wrapper THEN NewKey[i] ELSE seKey)

\* From the moment an installation destroys the old MF, or the key it verifies with, until
\* the new MF is complete, one intact copy of the new MF exists, over an interruption in any
\* flash operation (the erasures of checkDownloadedUpdate and BootFailedHandler).
NeverLosesBothCopies ==
  Installable(installing) => (secondary = installing /\ whole) \/ primary = Target(installing)

\* A confirmed MF that this bootloader can run is erased only to be overwritten, by an image
\* that verifies, is compatible, is another version and has no lower security counter
\* (every call of imgManager_eraseBadMF, newMainFirmwareHandler).
ConfirmedMFOnlyReplaced ==
  [][ /\ primary \in App /\ Signer[primary] = seKey /\ MinVer[self] <= Ver[primary]
      /\ trailer = [magic |-> "set", copyDone |-> "set", imageOk |-> "set"]
      /\ primary' # primary
      => /\ pc = "copyErase" /\ Seen \in App /\ whole /\ Signer[Seen] = seKey
         /\ MinVer[self] <= Ver[Seen] /\ Ver[Seen] # Ver[primary] /\ Cnt[Seen] >= Cnt[primary]
    ]_vars

\* "Also continue updates if it was interrupted in previous start" (bootloader.h:52): an
\* installation that a power loss interrupts completes, or is replaced by another download.
InterruptedInstallCompletes ==
  \A i \in App \cup Wrapper : (installing = i /\ Installable(i)) ~> installing # i

\* "Nothing to do. Should never be here." (bootloader.c:609): an update that was initiated
\* is not met by a primary slot that needs BootFailedHandler before boot_go has run.
NeverHere ==
  ~(pc = "status" /\ blStatus # "JUMP_TO_BS" /\ StatusMF # "OK" /\ initiated)

\* "First start was unsuccessful, the application did not respond" (bootloader.h:25): this
\* status is only given to a MF that was started.
NotRespondingWasStarted == pc = "idle" /\ dlStatus = "DID_NOT_RESPOND" => trial # "fresh"

-----------------------------------------------------------------------------
(* Why the code only runs what it has verified, and only overwrites with     *)
(* permission: what holds at each label.                                     *)

Erasing(l) == pc \in EraseLabel /\ ret = l
Marked == trailer.magic = "set" /\ trailer.copyDone = "set"
Settled == StatusMF \in {"OK", "MAGIC_UNSET", "COPY_DONE_UNSET"}

\* Where eraseArea returns to, and when an update has been initiated.
ControlInv ==
  /\ pc \in EraseLabel => ret # "off"
  /\ Erasing("check") => area = "primary" /\ phase # "first"
  /\ Erasing("bootGo") => area = "secondary" /\ phase # "first"
  /\ Erasing("status") => area = "secondary" /\ phase = "first"
  /\ pc \in {"check", "replaceKey", "initiate"} => ~initiated
  /\ Erasing("check") \/ Erasing("bootGo") \/ Erasing("status") => ~initiated
  /\ pc \in CopyLabel => initiated

\* An update is only initiated with permission.
PermissionInv ==
  /\ pc \in {"replaceKey", "initiate"} \cup CopyLabel => Permitted
  /\ initiated /\ pc \in {"status", "bootGo"} => Permitted

\* The boot status of the primary slot on the way to boot_go and out of it: a test run in
\* progress or a corrupt status has been erased, and only a copy starts a test run.
TrailerInv ==
  /\ trailer.magic = "unset" => trailer = Erased
  /\ pc \in {"copyData", "copyMagic"} => trailer = Erased
  /\ pc = "copyDone" => trailer = [Erased EXCEPT !.magic = "set"]
  /\ pc \in {"dropHeader", "dropTrailer"} =>
       trailer = [magic |-> "set", copyDone |-> "set", imageOk |-> "unset"]
  /\ pc = "bootGo" \/ Erasing("bootGo") => Settled
  /\ pc \in {"check", "replaceKey", "initiate"} /\ phase # "first" => Settled
  /\ pc = "validate" => Settled \/ (StatusMF = "TEST_IN_PROGRESS" /\ initiated)

\* boot_target_instanse.inited stands for a verified and marked image.
ReadyInv ==
  /\ pc \notin {"setMagic", "setCopy", "ready", "finish", "idle", "start", "mf", "bs"} => ~inited
  /\ pc \notin {"start", "idle", "finish", "mf", "bs"} => blStatus # "READY"
  /\ pc \in {"setMagic", "setCopy", "ready"} => inited /\ Bootable
  /\ pc = "setMagic" => StatusMF \in {"MAGIC_UNSET", "COPY_DONE_UNSET"}
  /\ pc = "setCopy" => trailer.magic = "set" /\ trailer.copyDone = "unset"
  /\ pc = "ready" => Marked
  /\ pc = "finish" /\ blStatus = "READY" => inited
  /\ pc \in {"finish", "idle"} /\ inited => Bootable /\ Marked
  /\ pc = "mf" => Bootable /\ Marked

FlowInv == ControlInv /\ PermissionInv /\ TrailerInv /\ ReadyInv

\* Why only the image that reported is confirmed: its report is read at the next reset, and
\* acted on before anything can change the primary slot.
ReadingMail == pc \in InitLabel \/ (pc \in EraseLabel /\ ret \in InitLabel)

ReportInv ==
  /\ ConfirmedOnlyAfterReport
  /\ "mfFirstRunOk" \in toBL => pc = "off" /\ trial = "reported"
  /\ ReadingMail /\ "mfFirstRunOk" \in mail => trial = "reported"
  /\ pc = "msgOk" \/ Erasing("msgOk") => "mfFirstRunOk" \in mail

\* Why a trial is announced: once the MF can be started, its first-run event is in the mailbox,
\* or did not fit, and no step on the way to the jump removes it.
Startable == pc \in {"ready", "mf"} \/ (pc \in {"finish", "idle"} /\ inited)
AnnounceInv == Startable => trailer.imageOk = "set" \/ "mfFirstRun" \in toMF \/ refused

\* Why a good confirmed MF is only replaced, and never just erased: where the code gives a MF up,
\* and what the image it puts in its place has passed.
Confirmed == primary \in App /\ trailer.imageOk = "set"
Erases(slot, label) == pc = label /\ area = slot
UpdateApproved ==
  /\ Seen \notin Wrapper
  /\ PrimaryParses /\ Seen \in App =>
       Ver[Seen] # Ver[primary] /\ Cnt[Seen] >= Cnt[primary] /\ Compatible(Seen)

\* A MF is given up where it cannot be started, or has not been confirmed.
GiveUpInv ==
  /\ primary \in App /\ trial # "fresh" => Marked
  /\ Erases("primary", "eraseHeader") => ~(Bootable /\ Confirmed)
  /\ Erases("primary", "eraseTrailer") => primary = Blank
  /\ pc = "notReady" => ~Bootable
  /\ pc \in EraseLabel => ret # "notReady"
  /\ pc = "off" \/ ReadingMail => ~mfBootFailed
  /\ mfBootFailed => ~Confirmed \/ Erases("primary", "eraseHeader")

\* An update that has been initiated stays what newMainFirmwareHandler approved until it is
\* copied, over the move of the area and the replacement of the key.
ReplaceInv ==
  /\ pc \in {"replaceKey", "initiate"} => UpdateApproved
  /\ initiated /\ pc \in {"status", "bootGo"} => UpdateApproved
  /\ pc = "copyErase" => SecVerifies /\ UpdateApproved
  /\ pc \in {"copyTrailer", "copyData"} => SecVerifies /\ Seen \in App /\ primary = Blank

\* Why an unconfirmed MF is started once: a copy starts a trial anew, and a MF whose trial has
\* begun is either confirmed or erased before the next jump.
TrialInv ==
  /\ pc \in {"copyMagic", "copyDone", "dropHeader", "dropTrailer"} => trial = "fresh"
  /\ pc = "validate" /\ StatusMF = "TEST_IN_PROGRESS" => trial = "fresh"
  /\ pc \in {"setMagic", "setCopy"} => trial = "fresh"
  /\ Startable /\ pc # "mf" => trailer.imageOk = "set" \/ trial = "fresh"
  /\ pc = "mf" => trial # "fresh"

KeepInv == GiveUpInv /\ ReplaceInv /\ TrialInv
-----------------------------------------------------------------------------
(* Why one power loss never costs both copies of a MF (NeverLosesBothCopies). *)

\* The key of the MF is replaced once: a wrapper that verifies carries a key no other wrapper is
\* signed with.  letStart needs that, see the README.
KeyReplacedOnce == \A v, w \in Wrapper : Signer[v] # NewKey[w]
KeyReplaced == \E w \in Wrapper : seKey = NewKey[w]

Unset == StatusMF \in {"MAGIC_UNSET", "COPY_DONE_UNSET"}
Good == Bootable /\ StatusMF = "OK"

\* A MF that allowed an update is being replaced by it.
Renewing ==
  \/ pc \in {"copyTrailer", "copyData"} /\ Compatible(Seen)
  \/ pc \in {"copyMagic", "copyDone"} /\ Bootable
  \/ pc \in {"dropHeader", "dropTrailer"} /\ Bootable
  \/ pc = "validate" /\ Bootable /\ StatusMF = "TEST_IN_PROGRESS"
  \/ pc = "ready" /\ passed
  \/ pc = "finish" /\ passed /\ blStatus = "READY"
  \/ pc = "mf"

\* An update is allowed by a MF that is good, and that stays good until the update replaces it
\* or its key.
ConsentInv ==
  /\ "allowUpdate" \in toBL => pc = "off" /\ (KeyReplaced \/ Good)
  /\ Allowed => KeyReplaced \/ Good \/ Renewing
  /\ pc \in {"dropHeader", "dropTrailer"} => passed
  /\ pc = "validate" /\ StatusMF = "TEST_IN_PROGRESS" => passed
  /\ pc = "ready" \/ (pc = "finish" /\ blStatus = "READY") => passed \/ StatusMF = "OK"
  /\ pc = "idle" /\ blStatus = "READY" => Good
  /\ primary \in App => Signer[primary] = seKey \/ KeyReplaced

\* Where checkDownloadedUpdate runs, and what it leaves for the rest of letStart.
CheckInv ==
  /\ pc \in {"check", "replaceKey", "initiate"} /\ phase = "first" => blStatus = "OK" /\ ~mfBootFailed
  /\ pc = "check" /\ phase \in {"classic", "afterOK"} => primary = Blank
  /\ pc = "check" /\ phase = "restore" => Unset
  /\ pc = "replaceKey" =>
       shift = 1 /\ whole /\ secondary \in Movable /\ Signer[secondary] = seKey
  /\ initiated /\ pc \in {"status", "bootGo"} => secMagic[shift] = "set"
  /\ initiated /\ pc = "status" => blStatus = "OK"

\* When the bootloader has a message for the BS or from it, no installation is at stake.
JumpInv ==
  /\ pc = "off" => dlStatus = "OK"
  /\ ReadingMail /\ dlStatus = "JUMP_TO_BS" => mail \cap FirstRunEvent # {}
  /\ blStatus = "JUMP_TO_BS" =>
       /\ ~initiated
       /\ \/ pc \in {"finish", "bs", "status"}
          \/ /\ phase # "first"
             /\ \/ pc \in {"bootGo", "validate", "setMagic", "setCopy", "ready", "notReady",
                           "failTail", "failEnd"}
                \/ Erasing("failTail")

\* Until the power is lost, only an update that is being installed has the magic.
MagicInv ==
  losses = 0 /\ secMagic[0] = "set" =>
    /\ initiated /\ shift = 0
    /\ \/ pc \in {"status", "bootGo", "failTail"} \cup CopyLabel
       \/ Erasing("failTail") \/ (Erasing("failEnd") /\ area = "secondary")

AtRisk == Installable(installing)
Intact == secondary = installing /\ whole
Restored == primary = Target(installing) /\ Unset
Running ==
  \/ pc = "initiate"
  \/ initiated /\ pc \in {"status", "bootGo"}
  \/ pc \in {"copyErase", "copyTrailer", "copyData", "copyMagic", "copyDone"}

\* The slot holds what is being installed until it is erased, or another download replaces it.
SourceInv == installing # Blank => secondary \in {installing, Blank, Noise}

\* The copy in the secondary slot is given up only for a primary slot that is complete and about
\* to be marked.
CopyInv ==
  /\ AtRisk /\ ~Intact =>
       /\ ~initiated /\ Restored
       /\ \/ pc \in {"bootGo", "validate", "setMagic", "setCopy"}
          \/ Erases("secondary", "eraseTrailer") /\ ret = "bootGo"
  /\ AtRisk /\ Erases("secondary", "eraseHeader") => Restored /\ ret = "bootGo"

\* An installation that runs goes on to its end; one that was interrupted is met by a bootloader
\* that nobody told anything, and by a MF it cannot start.
RunInv ==
  /\ AtRisk /\ Running =>
       /\ shift = IF installing \in Wrapper THEN 1 ELSE 0
       /\ pc = "status" \/ (pc = "initiate" /\ phase = "first") => StatusMF = "OK"
  /\ AtRisk /\ ~Running =>
       /\ losses # 0 /\ ~initiated /\ shift = 0 /\ toBL = {} /\ mail = {}
       /\ installing \in Wrapper => secMagic[0] # "set"
       /\ pc # "bs" /\ blStatus # "JUMP_TO_BS"
  /\ AtRisk /\ installing \in Wrapper => installing \in Movable /\ seKey = NewKey[installing]
  /\ AtRisk /\ primary \in App /\ primary # Target(installing) =>
       /\ Ver[primary] # Ver[Target(installing)] /\ Cnt[Target(installing)] >= Cnt[primary]
       /\ Signer[primary] # seKey
  /\ AtRisk /\ primary = Target(installing) => trailer.copyDone # "set"

RiskInv == ConsentInv /\ CheckInv /\ JumpInv /\ MagicInv /\ SourceInv /\ CopyInv /\ RunInv
=============================================================================
