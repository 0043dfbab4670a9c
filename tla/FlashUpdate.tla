---------------------------- MODULE FlashUpdate ----------------------------
(***************************************************************************)
(* The flash calls of an update, and the progress counters of bootloader.c *)
(* that each of them moves in the boot task while the GUI task adds them   *)
(* up for the bar of the updating screen.  Nothing locks the counters: the *)
(* two tasks have the same priority and interleave at every access, and    *)
(* the boot task may begin the next update under any screen.               *)
(*                                                                         *)
(* Composes FlashArea with bootloader_letStart as far as it touches flash  *)
(* or counters (the decisions are BootFlow's), img_manager.c,              *)
(* bootloader_getUpdateProgress and screen_updating.c.  In MCUboot         *)
(* (external) an update erases the sectors the image needs and the one of  *)
(* the trailer, then reads and writes each piece of them, as in            *)
(* MCUBOOT_OVERWRITE_ONLY_FAST.                                            *)
(***************************************************************************)
EXTENDS Integers, FlashArea

CONSTANTS
  ImageSizes,   \* sizes of the updates
  PrimarySizes, \* sizes of the firmware they replace
  CopyChunk,    \* bytes MCUboot copies at a time
  GuiLen,       \* TASK_GUI_MAX_EVENT_LEN
  MaxStarts     \* bound on the calls of bootloader_letStart in a power cycle

ASSUME UpdateAssumption ==
  \* MCUboot takes no image that does not fit; one is longer than the two flags behind it
  /\ ImageSizes \subseteq (2 * Page + 1)..PrimarySize /\ PrimarySizes \subseteq Nat \ {0}
  /\ CopyChunk \in Nat \ {0} /\ IntSector % CopyChunk = 0
  /\ GuiLen \in Nat \ {0} /\ MaxStarts \in Nat
  /\ 2 * Page <= IntSector    \* the trailer of a slot lies in its last internal sector

\* BOOTLOADER_UPDATE_OPERATION_*, in the order of the enumeration.
Part == <<"verify", "erasePrimary", "copy", "eraseSecondary">>
Percent == [verify |-> 10, erasePrimary |-> 20, copy |-> 50, eraseSecondary |-> 20]
Parts == DOMAIN Percent

VARIABLES
  \* boot task
  flow,        \* where letStart and boot_go are
  again,       \* MF_boot_failed
  image,       \* bytes of the image MCUboot copies
  copied,      \* bytes of it that have been written
  clamp,       \* the counter a call of tryUpdateProgress is still busy with
  starts,      \* history: calls of letStart so far
  dropped,     \* history: sectors of the secondary slot MCUboot erased after the copy
  wiped,       \* history: bytes of the primary slot MCUboot erased before it
  \* shared
  initiated, size, done,
  \* GUI task
  guiQ, screen,
  at, sum,     \* getUpdateProgress: which counter is next, and the sum so far
  fresh        \* history: the poll met the counters of one update only, none above its size

progressVars == <<initiated, size, done, clamp>>
bootVars == <<flow, again, image, copied, starts, dropped, wiped>>
guiVars == <<screen, at, sum, fresh>>
vars == <<flashVars, progressVars, bootVars, guiQ, guiVars>>

\* What a step of the boot task that only moves on leaves alone.
workVars == <<again, image, copied, starts, dropped, wiped>>

\* The counters are being set up for an update.
Resetting == {"flag", "sizeCopy", "sizeErase", "reset1", "reset2", "reset3"}
Flow ==
  {"idle", "start", "sized", "moved", "status", "marked"} \cup Resetting
    \cup {"reset4", "bootGo", "go", "rejecting", "keepMagic", "keepDone", "verified", "erasing",
           "wiping", "copying", "fetched", "writing", "magic", "marking", "hook",
           "dropHeader", "dropTrailer", "complete",
           "bad", "badHeader", "badTrailer", "area", "areaHeader", "areaTrailer"}

TypeOK ==
  /\ FlashTypeOK
  /\ flow \in Flow /\ again \in BOOLEAN /\ image \in ImageSizes \cup {0}
  /\ copied \in 0..Size["primary"] /\ clamp \in Parts \cup {"none"}
  /\ starts \in 0..MaxStarts /\ dropped \in 0..2 /\ wiped \in 0..(PrimarySize + IntSector)
  /\ initiated \in BOOLEAN /\ size \in [Parts -> Nat] /\ done \in [Parts -> Nat]
  /\ guiQ \in Seq({"started", "process", "failed"}) /\ Len(guiQ) <= GuiLen
  /\ screen \in {"other", "updating"} /\ sum \in Nat \cup {-1}
  /\ at \in {"receive", "flag", "decide"} \cup Parts /\ fresh \in BOOLEAN

\* Mutant: the event is put although the queue is full.
ToGuiUnbounded(e) == guiQ' = Append(guiQ, e)

\* taskGui_sendEvent: dropped when the queue stays full.
ToGui(e) == guiQ' = IF Len(guiQ) < GuiLen THEN Append(guiQ, e) ELSE guiQ

-----------------------------------------------------------------------------
(* bootloader_tryUpdateProgress, in two steps: the counter is stored, and     *)
(* cut back to the size afterwards.                                          *)

Counted(part, chunk) ==
  IF done[part] >= size[part]
  THEN UNCHANGED <<done, clamp>>
  ELSE /\ done' = [done EXCEPT ![part] = IF chunk < size[part] THEN @ + chunk ELSE size[part]]
       /\ clamp' = part

Clamp ==
  /\ clamp # "none" /\ clamp' = "none"
  /\ done' = [done EXCEPT ![clamp] = IF @ > size[clamp] THEN size[clamp] ELSE @]
  /\ ToGui("process")
  /\ UNCHANGED <<flashVars, bootVars, initiated, size, guiVars>>

\* The flash operations of the current call, each with the counter it moves.
FlashWork ==
  /\ clamp = "none"
  /\ \/ /\ Transfer
        /\ IF call.op = "write" /\ Device[call.area] = "internal"
           THEN Counted("copy", Chunk) ELSE UNCHANGED <<done, clamp>>
        /\ UNCHANGED <<dropped, wiped>>
     \/ /\ EraseSector
        /\ Counted(IF Device[call.area] = "internal" THEN "erasePrimary" ELSE "eraseSecondary",
                   SectorSize(call.area))
        /\ dropped' = IF flow \in {"dropHeader", "dropTrailer"} THEN dropped + 1 ELSE dropped
        /\ wiped' = IF flow \in {"erasing", "wiping"} THEN wiped + IntSector ELSE wiped
     \/ (DriverFails \/ Return) /\ UNCHANGED <<done, clamp, dropped, wiped>>
  /\ UNCHANGED <<flow, again, image, copied, starts, initiated, size, guiQ, guiVars>>

-----------------------------------------------------------------------------
(* bootloader_letStart: is there an update, and does it begin?               *)

BootMay == clamp = "none" /\ ~Running
Step(from, to) == flow = from /\ flow' = to /\ BootMay

\* The last call is over and its result has been looked at.
Forget == call' = NoCall /\ pieces' = <<>> /\ UNCHANGED <<secOff, chip>>

\* A step that touches neither flash nor counters.
Moves(from, to) ==
  Step(from, to) /\ Forget /\ UNCHANGED <<progressVars, workVars, guiQ, guiVars>>

\* A part of the flow that is one call of flash_area_*.
CallFor(from, to, op, a, off, len) ==
  /\ Step(from, to) /\ Begin(op, a, off, len)
  /\ UNCHANGED <<progressVars, workVars, guiQ, guiVars>>

\* letStart ends: another screen is asked for (boot_app.c).
Answers(from) ==
  /\ Step(from, "idle") /\ Forget /\ ToGui("failed")
  /\ UNCHANGED <<progressVars, workVars, guiVars>>

\* The flags are cleared, the sizes, the counters and the start of the secondary area are not;
\* the secondary area is opened.  Any event of the boot queue may lead here, the timeout of the
\* updating screen included.
LetStart ==
  /\ Step("idle", "start")
  /\ starts < MaxStarts /\ starts' = starts + 1
  /\ initiated' = FALSE /\ again' = FALSE /\ fresh' = FALSE
  /\ image' = 0 /\ copied' = 0 /\ dropped' = 0 /\ wiped' = 0
  /\ Open("secondary")
  /\ UNCHANGED <<size, done, clamp, guiQ, screen, at, sum>>

\* newMainFirmwareHandler: the size of the firmware in the primary slot, 0 if there is none.
EraseSize ==
  /\ Step("start", "sized") /\ call.res = "ok"
  /\ \E s \in PrimarySizes \cup {0} : size' = [size EXCEPT !.erasePrimary = s]
  /\ UNCHANGED <<flashVars, initiated, done, clamp, workVars, guiQ, guiVars>>

\* The update is inside a wrapper.
Wrapper ==
  /\ Step("sized", "moved") /\ MoveStart
  /\ UNCHANGED <<progressVars, workVars, guiQ, guiVars>>

\* imgManager_initiateUpdate: the boot status is erased, and the magic written, if need be.
EraseStatus ==
  \E from \in {"sized", "moved"} :
    \/ CallFor(from, "status", "erase", "secondary", Size["secondary"] - 2 * Page, 2 * Page)
    \/ Moves(from, "status")
WriteMagic ==
  \/ CallFor("status", "marked", "write", "secondary", Size["secondary"] - Page, Page)
  \/ Moves("status", "marked")

\* initiateUpdateViaMcuboot
Flag ==
  /\ Step("marked", "flag")
  /\ initiated' = TRUE
  /\ UNCHANGED <<flashVars, size, done, clamp, workVars, guiQ, guiVars>>

\* Mutant: the sectors of the secondary slot counted as internal ones.
SetSizesInternal ==
  /\ \/ /\ Step("flag", "sizeCopy")
        /\ \E s \in ImageSizes : image' = s /\ size' = [size EXCEPT !.copy = s]
     \/ /\ Step("sizeCopy", "sizeErase") /\ UNCHANGED image
        /\ size' = [size EXCEPT !.eraseSecondary = 2 * IntSector]
  /\ UNCHANGED <<flashVars, initiated, done, clamp, again, copied, starts, dropped, wiped,
                 guiQ, guiVars>>

\* The size of a wrapper is that of the image and its own header, which is not copied.
SetSizes ==
  /\ \/ /\ Step("flag", "sizeCopy")
        /\ \E s \in ImageSizes, wrapper \in (IF secOff = ExtFirst THEN {0} ELSE {0, ExtSector}) :
             image' = s /\ size' = [size EXCEPT !.copy = s + wrapper]
     \/ /\ Step("sizeCopy", "sizeErase") /\ UNCHANGED image
        /\ size' = [size EXCEPT !.eraseSecondary = 2 * ExtSector]
  /\ UNCHANGED <<flashVars, initiated, done, clamp, again, copied, starts, dropped, wiped,
                 guiQ, guiVars>>

\* Mutant: the counters keep what the last update left.
ResetProgressForgotten ==
  \E i \in 1..4 :
    Moves(CASE i = 1 -> "sizeErase" [] i = 2 -> "reset1" [] i = 3 -> "reset2" [] OTHER -> "reset3",
          CASE i = 1 -> "reset1" [] i = 2 -> "reset2" [] i = 3 -> "reset3" [] OTHER -> "reset4")

ResetProgress ==
  \E i \in 1..4 :
    /\ Step(CASE i = 1 -> "sizeErase" [] i = 2 -> "reset1" [] i = 3 -> "reset2"
              [] OTHER -> "reset3",
            CASE i = 1 -> "reset1" [] i = 2 -> "reset2" [] i = 3 -> "reset3"
              [] OTHER -> "reset4")
    /\ done' = [done EXCEPT ![Part[i]] = 0]
    /\ UNCHANGED <<flashVars, initiated, size, clamp, workVars, guiQ, guiVars>>

Announce ==
  /\ Step("reset4", "bootGo")
  /\ ToGui("started")
  /\ UNCHANGED <<flashVars, progressVars, workVars, guiVars>>

\* boot_go without an update, or none at all (an image for the bootloader, a low battery).
JustBoot == Moves("start", "go")
NoUpdate == Answers("start")

-----------------------------------------------------------------------------
(* What does not work is erased (imgManager_eraseArea: the first and the last *)
(* internal sector's worth of a slot, each only if it is not empty).         *)

\* An update of the wrong version, or one that is no update.
RefuseUpdate == \E from \in {"start", "sized", "moved"} : call.res = "ok" /\ Moves(from, "area")

EraseHeader ==
  \/ CallFor("bad", "badHeader", "erase", "primary", 0, IntSector) \/ Moves("bad", "badHeader")
  \/ CallFor("area", "areaHeader", "erase", "secondary", 0, IntSector)
  \/ Moves("area", "areaHeader")
EraseTrailer ==
  \/ CallFor("badHeader", "badTrailer", "erase", "primary", PrimarySize - IntSector, IntSector)
  \/ Moves("badHeader", "badTrailer")
  \/ CallFor("areaHeader", "areaTrailer", "erase", "secondary", SecondarySize - IntSector,
             IntSector)
  \/ Moves("areaHeader", "areaTrailer")

\* The secondary slot has been erased: the update has failed, or there is none to try.
AreaErased ==
  \/ Answers("areaTrailer")
  \/ ~initiated /\ Moves("areaTrailer", "go")

\* BootFailedHandler, once the primary slot has been erased or kept: the update is erased, or
\* searched for, once.
EraseUpdate ==
  /\ Step("badTrailer", "area") /\ initiated /\ ResetStart
  /\ UNCHANGED <<progressVars, workVars, guiQ, guiVars>>
Search ==
  /\ Step("badTrailer", "start") /\ ~initiated /\ ~again /\ again' = TRUE
  /\ Open("secondary")
  /\ UNCHANGED <<progressVars, image, copied, starts, dropped, wiped, guiQ, guiVars>>
NothingFound == ~initiated /\ again /\ Answers("badTrailer")

\* The firmware is not started: none to begin with, not accepted, its dependencies not met.
BootFails == \E from \in {"start", "bootGo", "go", "rejecting", "areaTrailer"} :
               /\ from \in {"start", "areaTrailer"} => ~initiated /\ ~again
               /\ Moves(from, "bad")

\* The firmware in the primary slot starts as it is (imgManager_setMagicMF marks it first).
Adopt ==
  \/ \E from \in {"bootGo", "go", "rejecting"} :
       CallFor(from, "keepMagic", "write", "primary", Size["primary"] - Page, Page)
  \/ CallFor("keepMagic", "keepDone", "write", "primary", Size["primary"] - 2 * Page, Page)
Canceled == \E from \in {"bootGo", "go", "rejecting", "keepMagic", "keepDone"} : Answers(from)

-----------------------------------------------------------------------------
(* boot_go                                                                   *)

\* boot_perform_update_hook, once MCUboot has verified the update.
Verified ==
  /\ Step("bootGo", "verified")
  /\ Counted("verify", 1)
  /\ UNCHANGED <<flashVars, initiated, size, workVars, guiQ, guiVars>>

\* MCUboot erases an update it does not accept, tried or not.
Reject == \E from \in {"bootGo", "go"} :
            CallFor(from, "rejecting", "erase", "secondary", 0, Size["secondary"])

\* Whole internal sectors are erased and copied; the one of the trailer is erased besides.
CopySize == ((image + IntSector - 1) \div IntSector) * IntSector
ErasePrimary ==
  \/ CallFor("verified", "erasing", "erase", "primary", 0, CopySize)
  \/ CallFor("erasing", "wiping", "erase", "primary", Size["primary"] - IntSector, IntSector)
Erased == Moves("wiping", "copying")

Fetch == copied < CopySize /\ CallFor("copying", "fetched", "read", "secondary", copied, CopyChunk)
Store == call.res = "ok" /\ CallFor("fetched", "writing", "write", "primary", copied, CopyChunk)
FetchFails == call.res = "error" /\ Moves("fetched", "bad")
Stored ==
  /\ Step("writing", "copying") /\ copied' = copied + CopyChunk
  /\ UNCHANGED <<flashVars, progressVars, again, image, starts, dropped, wiped, guiQ, guiVars>>

\* MCUboot writes the magic; boot_copy_region_post_hook writes copy_done and fills the counter.
Magic == copied = CopySize
         /\ CallFor("copying", "magic", "write", "primary", Size["primary"] - Page, Page)
CopyDone == CallFor("magic", "marking", "write", "primary", Size["primary"] - 2 * Page, Page)
CopyHook ==
  /\ Step("marking", "hook")
  /\ Counted("copy", Word - 1)
  /\ UNCHANGED <<flashVars, initiated, size, workVars, guiQ, guiVars>>

DropHeader == CallFor("hook", "dropHeader", "erase", "secondary", 0, ExtSector)
DropTrailer == CallFor("dropHeader", "dropTrailer", "erase", "secondary",
                       Size["secondary"] - ExtSector, ExtSector)

\* The copy validates, or it does not.
Complete == Moves("dropTrailer", "complete") \/ Moves("dropTrailer", "bad")

-----------------------------------------------------------------------------
(* The GUI task: bootloader_getUpdateProgress and screenUpdating_poll.       *)

\* An event switches the screen; a poll follows either way.
Receive ==
  /\ at = "receive"
  /\ \/ guiQ = <<>> /\ UNCHANGED <<guiQ, screen>>
     \/ /\ guiQ # <<>> /\ guiQ' = Tail(guiQ)
        /\ screen' = CASE Head(guiQ) = "started" -> "updating" [] Head(guiQ) = "failed" -> "other"
                       [] OTHER -> screen
  /\ at' = IF screen' = "updating" THEN "flag" ELSE "receive"
  /\ UNCHANGED <<flashVars, progressVars, bootVars, sum, fresh>>

ReadFlag ==
  /\ at = "flag"
  /\ at' = IF initiated THEN Part[1] ELSE "decide"
  /\ sum' = IF initiated THEN 0 ELSE -1
  /\ fresh' = (flow \notin Resetting)
  /\ UNCHANGED <<flashVars, progressVars, bootVars, guiQ, screen>>

NextPart(p) == IF p = Part[4] THEN "decide"
               ELSE Part[1 + CHOOSE i \in 1..3 : Part[i] = p]

\* An operation whose size was not set counts as done.
ReadCounter ==
  /\ at \in Parts
  /\ sum' = sum + IF size[at] # 0 THEN (done[at] * Percent[at]) \div size[at] ELSE Percent[at]
  /\ fresh' = (fresh /\ done[at] <= size[at])
  /\ at' = NextPart(at)
  /\ UNCHANGED <<flashVars, progressVars, bootVars, guiQ, screen>>

\* The bar is drawn again, or the same sum reported a second time.
Redraw ==
  /\ at = "decide" /\ at' = "receive"
  /\ sum' = 0
  /\ UNCHANGED <<flashVars, progressVars, bootVars, guiQ, screen, fresh>>

-----------------------------------------------------------------------------
Init ==
  /\ FlashInit
  /\ flow = "idle" /\ again = FALSE /\ image = 0 /\ copied = 0 /\ clamp = "none" /\ starts = 0
  /\ dropped = 0 /\ wiped = 0 /\ initiated = FALSE
  /\ size = [p \in Parts |-> IF p = "verify" THEN 1 ELSE 0] /\ done = [p \in Parts |-> 0]
  /\ guiQ = <<>> /\ screen = "other" /\ at = "receive" /\ sum = 0 /\ fresh = FALSE

BootStep ==
  \/ LetStart \/ EraseSize \/ Wrapper \/ EraseStatus \/ WriteMagic \/ Flag \/ SetSizes
  \/ ResetProgress \/ Announce \/ JustBoot \/ NoUpdate
  \/ RefuseUpdate \/ EraseHeader \/ EraseTrailer \/ AreaErased \/ EraseUpdate \/ Search
  \/ NothingFound \/ BootFails \/ Adopt \/ Canceled
  \/ Verified \/ Reject \/ ErasePrimary \/ Erased \/ Fetch \/ FetchFails \/ Store \/ Stored
  \/ Magic \/ CopyDone \/ CopyHook \/ DropHeader \/ DropTrailer \/ Complete
GuiStep == Receive \/ ReadFlag \/ ReadCounter \/ Redraw

Next == FlashWork \/ Clamp \/ BootStep \/ GuiStep

Spec == Init /\ [][Next]_vars

-----------------------------------------------------------------------------
(* Properties. *)

\* The bar is full, and the GUI task reports SCREEN_DRAWN for it, only when the whole image
\* is in the primary slot and both sectors of its copy in the secondary slot have been counted,
\* wherever the boot task was at each read, unless the poll began while the counters were being
\* set up, ran into a new letStart, or caught a counter between an addition and its limit
\* (screenUpdating_poll, bootloader_tryUpdateProgress, initiateUpdateViaMcuboot).
FullMeansStored ==
  at = "decide" /\ fresh =>
    /\ sum <= 100
    /\ sum = 100 => copied >= image /\ done.eraseSecondary >= size.eraseSecondary

\* What the bar shows when an update is complete and both sectors of the secondary slot were
\* erased: 100 exactly if the firmware before it was no longer than what MCUboot erased for the
\* new one, 80 at least if it was longer, although the writes of the trailer count as copying,
\* the header of a wrapper is never copied and the sum is one of rounded quotients.  Below 100
\* screenUpdating_poll reports nothing, and the boot task waits out its limit for it.
Total ==
  (done.verify * 10) \div size.verify
    + (IF size.erasePrimary = 0 THEN 20 ELSE (done.erasePrimary * 20) \div size.erasePrimary)
    + (done.copy * 50) \div size.copy + (done.eraseSecondary * 20) \div size.eraseSecondary
CompleteMeansFull ==
  flow = "complete" /\ clamp = "none" /\ dropped = 2 =>
    Total \in 80..100 /\ (Total = 100 <=> size.erasePrimary <= wiped)

-----------------------------------------------------------------------------
(* Why the bar tells the truth: what each counter may be while the boot task  *)
(* is at a point of the flow, and what the GUI task has read of them.         *)

Least(x, y) == IF x <= y THEN x ELSE y

\* Before an update is flagged, and once its counters are set up.
Deciding == {"start", "sized", "moved", "status", "marked", "go"}
Counting == initiated /\ flow \notin Resetting
Installing == {"bootGo", "verified", "erasing", "wiping", "copying", "fetched", "writing",
               "magic", "marking", "hook", "dropHeader", "dropTrailer", "complete"}
\* The image has been copied, and the counter of it filled.
Filled == {"hook", "dropHeader", "dropTrailer", "complete"}
Trailing == {"magic", "marking"} \cup Filled

\* Bytes of the image in the primary slot, the piece that MCUboot has not counted yet included.
Arrived == copied + IF flow = "writing" /\ call.left = 0 THEN CopyChunk ELSE 0

CallOfFlow ==
  \/ call.op = "read" /\ flow = "fetched"
  \/ /\ call.op = "write"
     /\ \/ call.area = "secondary" /\ flow = "marked"
        \/ call.area = "primary" /\ flow \in {"writing", "magic", "marking", "keepMagic", "keepDone"}
  \/ /\ call.op = "erase"
     /\ \/ /\ call.area = "primary"
           /\ flow \in {"erasing", "wiping", "badHeader", "badTrailer"}
        \/ /\ call.area = "secondary"
           /\ flow \in {"status", "rejecting", "dropHeader", "dropTrailer", "areaHeader",
                        "areaTrailer"}

PhaseInv ==
  /\ flow \in Flow /\ again \in BOOLEAN /\ initiated \in BOOLEAN
  /\ image \in ImageSizes \cup {0} /\ copied \in 0..PrimarySize /\ starts \in 0..MaxStarts
  /\ Running => CallOfFlow
  /\ initiated => flow \notin Deciding
  /\ flow \in Resetting \cup {"reset4"} \cup Installing => initiated
  /\ ~initiated => image = 0
  /\ initiated /\ flow # "flag" => image \in ImageSizes
  /\ ~initiated \/ flow \in Resetting \cup {"reset4"} => copied = 0 /\ wiped = 0 /\ dropped = 0
  /\ flow = "writing" =>
       /\ call.op = "write" /\ call.area = "primary" /\ call.res # "error"
       /\ call.left \in {0, CopyChunk} /\ copied + CopyChunk <= PrimarySize
  /\ flow \in Trailing => copied >= image

\* Sectors of the primary and of the secondary slot that MCUboot has erased for the update.
ErasedInv ==
  /\ wiped \in 0..(PrimarySize + IntSector) /\ dropped \in 0..2
  /\ flow \in {"bootGo", "verified"} => wiped = 0
  /\ flow = "erasing" => wiped + IntSector * call.left <= PrimarySize
  /\ flow = "wiping" => wiped + IntSector * call.left <= PrimarySize + IntSector
  /\ flow \in Installing \ {"dropHeader", "dropTrailer", "complete"} => dropped = 0
  /\ flow = "dropHeader" => dropped + call.left <= 1
  /\ flow = "dropTrailer" => dropped + call.left <= 2

SizeInv ==
  /\ size \in [Parts -> Nat] /\ size.verify = 1
  /\ initiated /\ flow # "flag" => size.copy \in image..(SecondarySize + ExtSector)
  /\ initiated /\ flow \notin {"flag", "sizeCopy"} => size.eraseSecondary = 2 * ExtSector

\* The counters are reset one after the other, and nothing is counted meanwhile.
Resets ==
  /\ flow \in {"idle", "reset4"} \cup Resetting => clamp = "none"
  /\ flow \in {"reset1", "reset2", "reset3", "reset4"} => done.verify = 0
  /\ flow \in {"reset2", "reset3", "reset4"} => done.erasePrimary = 0
  /\ flow \in {"reset3", "reset4"} => done.copy = 0
  /\ flow = "reset4" => done.eraseSecondary = 0

\* Only the counter that is being moved may be above its size.
Limits ==
  /\ Counting => \A p \in Parts : clamp # p => done[p] <= size[p]
  /\ flow \in Installing \ {"bootGo"} => done.verify = 1

\* What MCUboot has erased is what has been counted, up to the size.
EraseCounts ==
  flow \in Installing =>
    /\ Least(done.erasePrimary, size.erasePrimary) = Least(wiped, size.erasePrimary)
    /\ Least(done.eraseSecondary, 2 * ExtSector) = dropped * ExtSector

\* What has been copied is counted at most once; so are the two flags of the old firmware.
CopyCounts ==
  /\ initiated /\ flow \in {"bootGo", "rejecting"} => done.copy = 0
  /\ initiated /\ flow = "keepMagic" => done.copy + (IF Running THEN call.left ELSE 0) <= Page
  /\ initiated /\ flow = "keepDone" => done.copy + (IF Running THEN call.left ELSE 0) <= 2 * Page
  /\ Counting => \/ copied >= image \/ done.copy <= Arrived
                 \/ flow \notin Installing /\ done.copy <= 2 * Page
  /\ flow \in Filled => done.copy >= size.copy

CounterInv ==
  /\ done \in [Parts -> Nat] /\ clamp \in Parts \cup {"none"}
  /\ Resets /\ Limits /\ EraseCounts /\ CopyCounts

GuiInv ==
  /\ guiQ \in Seq({"started", "process", "failed"}) /\ Len(guiQ) <= GuiLen
  /\ screen \in {"other", "updating"} /\ fresh \in BOOLEAN
  /\ at \in {"receive", "flag", "decide"} \cup Parts /\ sum \in Nat \cup {-1}
  /\ at \in Parts => sum # -1
  /\ fresh /\ at \in Parts \cup {"decide"} /\ sum # -1 => Counting
  /\ fresh /\ at = "verify" => sum = 0
  /\ fresh /\ at = "erasePrimary" => sum <= 10
  /\ fresh /\ at = "copy" => sum <= 30
  /\ fresh /\ at = "eraseSecondary" => sum <= 80 /\ (sum = 80 => done.copy >= size.copy)
  /\ FullMeansStored

BarInv == PhaseInv /\ ErasedInv /\ SizeInv /\ CounterInv /\ GuiInv
=============================================================================
