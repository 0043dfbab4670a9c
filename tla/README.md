# ERA bootloader: TLA+ models, checks and proofs

This directory is a verification project for the ERA bootloader (BL), the second-stage boot
program of an e-paper hardware wallet on an STM32H7. The BL sits between the bootstrapper (BS,
first stage), which installs new bootloaders, and the main firmware (MF). It installs MF updates
that arrived over NFC, rolls back nothing (MCUboot runs in overwrite-only mode), and shows its
results on a touch screen. All paths below are relative to the repository root; the program's
code is in `src/`.

Status: every part of the device's own logic is modelled and checked, except for the parser's comparison of
versions and the software slots of the secure element (section 11). Every safety and action property that the passing runs
check is proved for all values of the constants that meet the named assumptions, and so is that
the boot flow implements `SafeBoot`. One of them, `NeverLosesBothCopies`, is proved under further hypotheses on the
constants, at most one power loss among them (section 9).

| module | what it is | lines |
|---|---|---|
| `BootFlow.tla` | everything between power-on and the jump out of the BL, flash operation by flash operation, with power losses | 1060 |
| `MCBootFlow.tla` | images, keys, versions and counters for TLC | 16 |
| `BootFlowProofs.tla` | proofs: types, what is started, installed, confirmed, announced and replaced, and that it implements `SafeBoot` | 1550 |
| `BootFlowRiskProofs.tla` | proof that one power loss leaves a copy | 1512 |
| `SafeBoot.tla` | abstract specification: what a device promises about its firmware | 82 |
| `BootFlowRefinement.tla` | the mapping by which `BootFlow` implements `SafeBoot` | 30 |
| `BootEvents.tla` | the boot task and the GUI task, their two bounded queues, screens, timeouts, buttons | 464 |
| `BootEventsProofs.tla` | proofs about `BootEvents` | 384 |
| `FlashArea.tla` | the flash areas: bounds, pages, sectors, the moved area | 317 |
| `FlashAreaProofs.tla` | proofs about one call of a flash area, for every geometry | 1461 |
| `FlashUpdate.tla` | an update through `FlashArea`, and the progress counters two tasks share | 498 |
| `FlashUpdateProofs.tla` | proofs about the calls of an update and its bar | 2143 |
| `MCFlash.tla` | an update, or any call of a flash area, on one small flash for TLC | 15 |
| `Widgets.tla` | the tables of buttons, and one button under a touch | 60 |
| `Screens.tla` | the screens in time: what is drawn, what reacts, when they time out | 675 |
| `ScreensProofs.tla` | proofs about `Screens` | 2135 |
| `MCScreens.tla` | time limits and touched points for TLC | 11 |
| `Paint.tla` | framebuffer, shapes, bars, bitmaps, symbols, texts and buttons | 514 |
| `PaintProofs.tla` | proofs about `Paint`, for every display, font, text and bitmap | 3832 |
| `MCPaint.tla` | a small display, its font, texts and bitmaps for TLC | 31 |
| `Mailbox.tla` | the mail of BS, BL and MF through one power cycle | 402 |
| `MailboxProofs.tla` | proofs about `Mailbox` | 910 |

## 1. Inventory

### 1.1 Components

**Boot flow** (`src/mcuboot/Src/bootloader.c`, `img_manager.c`).
- State: `BL_status`, `BL_downloadStatus`, `MF_boot_failed`, `update_via_mcuboot_was_initiated`,
  `boot_target_instanse` (its `inited` flag is what `bootloader_jumpToMF` trusts),
  `update_MF_passed`; in flash, the header sector and the trailer (magic, copy_done, image_ok) of
  the primary slot and the magic of the secondary slot.
- Operations: `bootloader_init` (incoming messages), `bootloader_letStart`
  (`checkDownloadedUpdate`, the switch over `imgManager_getStatusMF`, `isMFReadyToStart`,
  `BootFailedHandler`), `bootloader_jumpToMF`, `bootloader_jumpToBS`.
- Hard: a power loss anywhere, inside a flash write included; flags that outlive what they were
  computed from; `checkDownloadedUpdate` and `isMFReadyToStart` each running twice in one start.
- Correct when: only a verified, compatible, completely copied MF is started; the MF is only
  overwritten with consent or when nothing boots; a MF is confirmed only by its own report; a good
  confirmed MF is never given up except for a better one; no power loss destroys the last copy.

**MCUboot and its hooks** (`mcuboot_hooks.c`, `mcuboot_config.h`, `sysflash.h`; `boot_go` itself is
a git submodule that is not in the repository). State: the two slots. Operations: validate, erase a
bad update, copy, mark. Interaction: `boot_perform_update_hook` is asked before an installation,
`boot_copy_region_post_hook` is called after the copy. Hard: it finds a pending magic at every
start, whoever wrote it.

**Mailbox engine** (`mail_engine.c`). State: a RAM mailbox shared with BS and MF that survives
resets but not a power loss, and the flags of the events read. Operations: read the messages to
the BL, send to MF and BS, share the image of a new bootloader, remove messages. Hard: an event
lost or removed at the wrong moment makes a good MF look as if it did not answer; consent
(`mailEngine_allowUpdate`) is never cleared. Correct when an unconfirmed MF is always told that
this is its first run.

**Flash areas** (`flash_map_backend.c`). State: `fa_off` of the secondary area, which is
moved past the header of a wrapper. Operations: read, write, erase, open, `flash_area_move_start`
/ `flash_area_reset_start`, sector tables. Hard: 32-bit bounds (`off + len`), page splitting, the erase-size of two
kinds of flash, an area that stays moved after an error.

**Image parser** (`parser.c`). Pure: descriptor, version, security counter and dependency of a
header and its TLVs. Correct when its version order is an order and its bounds hold.

**Secure element glue and IOP** (`secure.c`). State: the MF's public key, the IOP secret. Operations:
replace the key, verify, hand over the IOP.

**End of work** (`endOfWork_manager.c`). Operations: jump, reboot, standby, shipping mode, power off;
each runs `prepareToShutdown`, once per power cycle, which removes messages.

**Boot task** (`boot_app.c`). State: `boot_queue` of length one, `boot_num`,
`force_download_clicked`. Operations: one case per event. Interaction: calls the boot flow, sends
events to the GUI, waits for SCREEN_DRAWN before a jump. Hard: it sends to its own queue of length
one; it peeks and does not receive; a timeout and a button may both ask for a jump.

**GUI task and screens** (`gui/task_gui.c`, `gui/gui_core.c`, `gui/screens/*.c`). State: the GUI queue,
`current_screen_id`, `full_update_required`, what each screen watches. Operations: receive an
event and switch, check the timeout, poll the screen, its buttons, the display. Hard: it shares
`BL_status`, the initiated flag and the progress counters with the boot task without a lock; its
events are dropped when the queue is full for one tick; it blocks up to a second on the boot queue.
Correct when neither task waits for the other for ever, no screen sticks, SCREEN_DRAWN is true,
and a user who asked to stay is not jumped away.

**Screen timers** (`gui/screens/user_logic.c`). 32-bit tick arithmetic; one event per expired timeout.

**Update progress** (`bootloader_tryUpdateProgress`, `bootloader_getUpdateProgress`). Counters
written by flash operations in the boot task and read by the GUI task.

**Painting and fonts** (`gui_paint.c`, `gui/fonts/fonts.c`). State: the framebuffer and the drawing colour.
Operations: pixels, shapes, bars, bitmaps, texts broken into lines, buttons. Hard: borders, bytes that
two pixels share, line breaks. Correct when nothing outside of the requested place changes and texts
are complete and on the display.

**Not part of the device's logic**: the debug shell (`src/shell`), image data (`gui/img`), build, flashing
and test scripts (`scripts`, `.github/workflows`). HAL, FreeRTOS, libse, the NFC download service and the framework are git
submodules whose sources are not in the repository.

### 1.2 How they interact

```
  BS --events--> RAM mailbox <--events-- MF          (resets keep it, power losses do not)
                     |
                 mail_engine
                     |                    boot_queue (1)
  img_manager -- bootloader.c <-- boot task <------------- GUI task -- screens, timers, touch
       |             |                      ------------->
   flash areas    boot_go + hooks            GUI queue (10)
       |             |
   primary slot, secondary slot, trailers, secure element
```

The hazards this code is exposed to are in `PROJECT.json` ("hazards"), each at its line with the
properties that cover it; those without a property say why.

## 2. Plan

The order of work was: the boot flow under power losses; the two tasks and their queues; what the boot flow
promises, as an abstract specification; the flash areas with the progress of an update; the
screens in time; painting; the mail. All of these exist. What composes what:

```
  SafeBoot <--implements-- BootFlowRefinement --extends--> BootFlow
                                   ^
                                   +--extends-- BootFlowProofs <--extends-- BootFlowRiskProofs
  FlashArea <--extends-- FlashUpdate <--extends-- FlashUpdateProofs --extends--> FlashAreaProofs --extends--> FlashArea
  Widgets <--extends-- Screens <--extends-- ScreensProofs
  BootEvents <--extends-- BootEventsProofs       Mailbox <--extends-- MailboxProofs
  Paint <--extends-- PaintProofs
```

The modules look at the same code from different sides and hide what the others show: letStart is a
sequence of flash operations in `BootFlow`, one result in `BootEvents`, `Screens` and `Mailbox`, and its
flash calls in `FlashUpdate`. Each names the abstraction in its header.

The theorems came in the order of what says most about the device: the boot flow; that it implements `SafeBoot`;
the two tasks; the flash areas and the bar of an update; the screens; the mail; painting.

What is left to prove is `NeverLosesBothCopies` without the hypothesis on keys, for a weaker statement (section 10, the last note).

Liveness, `WF`/`SF` and ENABLED stay with TLC.

## 3. BootFlow

### 3.1 State and actions

Flash, secure element and mailbox are one variable per thing the code distinguishes: `primary` and
`secondary` hold the image (a model value with a version, a security counter and a signing key) or
`Blank`, `Noise` (a torn write or a partial download) or `Foreign` (parses, unknown descriptor);
`trailer` is the boot status of the primary slot; `secMagic` has the magic at both positions the
secondary area can have; `whole` says that the body behind the secondary header is intact.
`shift` is how far `fa_off` of the secondary area has been moved, in wrapper headers; `Seen` is what the parser then reads.

`pc` names the next flash operation. `ret` and `area` are the frame of `imgManager_eraseArea`,
`phase` tells which call of `checkDownloadedUpdate` / `isMFReadyToStart` runs. Everything between
two flash operations is one step, since only one task touches this state and a power loss between
two of its RAM assignments cannot be told from one before them.

| actions | code |
|---|---|
| `PowerOn` ... `InitDone` | `bootloader_init`, `incomingMessageHandler` |
| `EraseHeader`, `EraseTrailer` | `imgManager_eraseArea` |
| `Start`, `Check...`, `ReplaceKey`, `Initiate` | `bootloader_letStart`, `checkDownloadedUpdate`, the handlers of a new bootloader and a new MF, `initiateUpdateViaMcuboot` |
| `Status...`, `NotReady`, `FailTail`, `FailEnd` | the switch of `letStart`, `BootFailedHandler` |
| `BootGo...`, `Copy...`, `Drop...` | `boot_go` (external) and the hooks |
| `Validate...`, `SetMagic`, `SetCopy`, `Ready` | `isMFReadyToStart` after `boot_go` |
| `Finish`, `JumpToMF...`, `StartAgain`, `Sleep` | results as `bootTask` handles them, jumps, standby |
| `Download`, `ForceDownload`, `BSReturn`, `MF...` | the user, the BS, the MF |
| `PowerLoss` | power loss before the operation at `pc`, or inside it (`Torn...`) |

`installing`, `trial`, `refused` and `losses` are history: what is being installed, what the image in the
primary slot has done, whether this start's first-run event found the mailbox full, how often power was lost.

### 3.2 Assumptions

- A torn trailer write leaves a value that is neither set nor unset ("bad"): one flag is one
  32-byte flash word. A torn erasure or copy of a header sector leaves `Noise`.
- A power loss inside a download leaves `Noise` in the secondary slot.
- Loader images never verify under the MF key; the version in a wrapper's header is the one of the
  wrapped image (the signing scripts give both from the same argument).
- `EagerMF = FALSE`: the MF asks for an update only after its own first run was confirmed.
- `CleanSlot`: a download erases the trailer of the secondary slot too. The safety run sets it
  FALSE (an old magic may survive); the liveness run needs it.
- Every event to the MF and the BS may find the mailbox full and is lost then (`Sent`), since
  `mailEngine_sendEventToMF` and `mailEngine_sendEventToBS` ignore what `ramMbox_put` returns. How full the
  mailbox is, is not modelled here: a put may fail at any time (`Mailbox`, section 8, has the messages).
- At `idle` any decision of the boot task is possible at any time: more than the screens allow,
  never less. `BootEvents` is the detailed view of that part.
- `EraseTrailer` sets `ret` and `area` back to fixed values when it returns, so that dead values do
  not multiply states.
- `MaxLosses` bounds the power losses of a behaviour; of the theorems only `KeepsOneCopy` depends on it.

### 3.3 Runs

| run | shows | size |
|---|---|---|
| `boot_safety` | `TypeOK`, five invariants, one action property and the refinement of 3.5 with four MF images, two wrappers, two loaders, one power loss | 593 000 states |
| `boot_liveness` | an interrupted installation completes | 116 000 states |
| `never_here`, `not_started`, `two_losses` | three statements of comments that the code does not keep (section 10) | |

- `RunsOnlyVerified`: at a jump the primary slot verifies *now*, is compatible *now*, and is marked;
  `bootloader_jumpToMF` itself only looks at `inited`.
- `NoUnrequestedInstall`: no copy without consent, unless nothing else boots.
- `ConfirmedOnlyAfterReport`: image_ok belongs to the image that reported.
- `TrialIsAnnounced`: an unconfirmed MF never starts without its first-run event, unless the mailbox was
  full when this start put it. That one case is real: the put is not checked and never repeated, the MF
  does not report, and the next start erases it as one that did not respond. No other step on the way to the
  jump removes the event.
- `NeverLosesBothCopies`: with one power loss, one copy of what is installed always exists. It needs two hypotheses that the
  constants of the run satisfy (section 9): `~EagerMF`, and `KeyReplacedOnce`, that no wrapper is signed with the key another one brings.
- `ConfirmedMFOnlyReplaced`: a good confirmed MF is only erased to be overwritten by an acceptable image.
- `InterruptedInstallCompletes`: a started installation completes or is replaced.

Why the bounds are enough: the four MF images are a running one, a newer one, one signed with a key
only a wrapper brings, and one that never verifies; counters are equal for two of them although
their versions differ; one loader refuses the oldest image. With them every status `letStart` can
return occurs, both wrapper outcomes occur, and every guard has images on both sides of it. One loss
is enough to interrupt every operation in every state; with two losses `NeverLosesBothCopies` fails
(run `two_losses`), and the inductive invariants of section 9 that hold for any number of losses were also checked with two (850 000
states). The liveness run drops the unsigned image, its wrapper and the second loader, none of which can be
an installation in progress.

### 3.4 Fairness

`WF(BLStep)`: the BL does its next operation while it has power. `SF(ChargedCheck)`: the check of an
update meets a good battery again and again, because the low-battery screen makes the user charge
and every other screen ends in a new start or standby. `WF(StartAgain \/ Sleep)`: the screens time
out (`ScreensTimeOut` of `BootEvents` is what justifies that). It follows that a user does not keep touching the
force-download screen and a download does not go on for ever, and that the charger is not left connected for ever in
the one case of section 4.4 where that keeps the low-battery screen. Nothing else is assumed about the user, and nothing
about the MF or the BS.

### 3.5 What it implements

`SafeBoot` says what a user may rely on, without slots, trailers, mail or power losses: a device has a firmware
that is fresh, started, reported or confirmed, a key, a loader and the consent of its user. A firmware is installed only
into an empty device and only if it verifies; one that is not confirmed is started once; only its report
confirms it; a confirmed one that works is given up, or loses its key, only with consent.
`BootFlowRefinement` computes this state from the primary slot, its boot status, the secure element, the
mail and `pc`, and `boot_safety` checks `ImplementsSafeBoot`: each action, and a power loss inside any
of them, is a step of `SafeBoot` or changes nothing. That is where the properties of 3.3 come together: each of
them looks at one promise, the refinement at all moves there are. `BootFlowProofs` proves it for all images and
any number of losses.

The initial states of `BootFlow` have no firmware or one that verifies and is compatible, fresh or confirmed.

## 4. BootEvents

### 4.1 State and actions

`bootQ` and `guiQ` are the two FreeRTOS queues. `bpc` is where the boot task blocks: on its queue,
inside letStart, in the wait for SCREEN_DRAWN (`peekMF`, `peekBS`), or on the send to its own queue.
`gpc` is the part of the GUI cycle: receive, timeout, poll, buttons, or blocked in
`bootApp_sendEvent`. `valid`, `initiated` and `progress` are what both tasks read without a lock. A
task runs from one blocking call, or one use of a shared variable, to the next in one step.

| actions | code |
|---|---|
| `BootInit`, `Receive...`, `SelfSend...` | one per case of `bootTask` |
| `Start`, `Initiate`, `Process`, `LetStartEnds` | what letStart does that the GUI can see; its result is any of those the code has |
| `Peek` | `bootApp_peekForEvent` and the jump behind it |
| `GuiReceive`, `GuiCycle`, `Expired...` | `gui_task`, `guiCore_switchScreen`, `checkScreenTimeout` |
| `Poll...`, `Tap...` | the poll function of a screen, its buttons |
| `GuiSend`, `GuiSendGivesUp` | `bootApp_sendEvent` gets room or waits a second in vain |

Sending to the GUI waits one tick and drops the event (`ToGui`). Leaving for MF, BS or standby loses
RAM; `Restart` is the way back.

### 4.2 Abstractions

- Time: a timeout may expire whenever the code looks at it, except right after a switch (the timer
  has just been set) and except for the five minutes of the updating screen, which start again with
  every change of progress and so expire only after letStart has ended and its events are received
  (`Stuck`).
- A touch may hit any button of the current screen in any cycle but the first. Coordinates and press
  durations are the subject of `Screens`.
- `GuiSendGivesUp` needs a boot task that is not waiting on its queue: FreeRTOS would have handed the
  event over within the second (both tasks have the same priority).
- `first_switch_completed` is left out: the first event always switches, so it can only be unset on
  the force-download screen, which is not drawn.
- The result of letStart is a free choice among those that make a difference here; a new
  bootloader is never found after an update was initiated in the same start.

### 4.3 Runs

| run | shows | size |
|---|---|---|
| `events` | `TypeOK`, `DrawnMeansShown`, `StayIfAsked`, `BootTaskReturns`, `ScreensTimeOut`; both queues 1 | 364 000 states, 72 s |
| `events_peek` | `PeekWaits` is violated (section 10) | |

- `DrawnMeansShown`: SCREEN_DRAWN is sent only when the end of the progress is on the display.
- `StayIfAsked`: after the hidden button was pressed, only EXIT or an installed update leads to the MF,
  although a BOOT_TO_MF of the same screen's timeout may still be queued or blocked.
- `BootTaskReturns`: no deadlock between the tasks and none on the queue the boot task sends to itself.
- `ScreensTimeOut`: no screen with a timeout stays, even if the event that should replace it was lost, unless its own polls start
  its time again and again.

Why the bounds are enough: the boot queue has its real length. The real GUI queue has ten places;
with one, events are dropped far more often than on the device, and every property allows any event to
be dropped. `TypeOK`, `DrawnMeansShown` and `StayIfAsked` are proved for queues of any length (section 9) and were also checked with a GUI queue of two
(1 822 000 states). More places only add delays between sending and receiving, which the interleaving of
the two tasks already gives.

### 4.4 Fairness

Both tasks are scheduled (`osPriorityNormal` each), letStart ends, and a screen that is shown long
enough times out (`SF`, since polls lie between two checks), unless its polls start its time again and again (`kept`, the
alternative `[]<>kept`). Three polls do that: the low-battery screen while a charger is connected
(`screen_lowBattery.c:200`), the download screen when the progress has changed, the force-download screen when the hidden
area is touched. So nothing makes the low-battery screen of a charging device time out. It is left because its START_AGAIN is
sent when the battery is charged; if that is lost to a full boot queue, `boot_event` stays set, the event is not sent again,
and the screen stays until the charger is unplugged or a button is touched. `ScreensTimeOut` allows this. Fairness of the GUI task does not make the user tap:
`TapNothing` is always an alternative.

## 5. FlashArea and FlashUpdate

### 5.1 State and actions

`secOff` is `fa_off` of the secondary area, the only one that moves. `call` is the call of `flash_area_read`, `_write` or
`_erase` in progress: its arguments, what is left, and its result; `pieces` lists the address ranges
the drivers have been asked for. `Begin` or `Refuse` makes the checks, `Transfer` and `EraseSector` are one call of
a driver each, `DriverFails` and `Return` end the call. Sizes and sector tables are operators over the
geometry, as the macros compute them. Offsets and sums are unsigned words of `Word` values.

In `FlashUpdate` the boot task runs `bootloader_letStart` as far as it touches flash or counters: the size of the firmware in the
primary slot (`EraseSize`, `bootloader.c:434`), the move into a wrapper, the boot status and magic of the secondary slot,
`initiateUpdateViaMcuboot` store by store (`Flag`, `SetSizes`, `ResetProgress`, `Announce`), and `boot_go`: verification, erasure,
copy, the marks, the erasure of the update. Every error path is there, too: what `imgManager_eraseBadMF` and
`imgManager_eraseUpdate` erase (`EraseHeader`, `EraseTrailer`; the first and the last internal sector's worth, each only if it is not
empty), the second search after a firmware that does not boot (`Search`), the marks of one that is kept (`Adopt`). After each
driver call `bootloader_tryUpdateProgress` adds (`FlashWork`) and limits (`Clamp`) a counter. The GUI task reads them one at a time
(`ReadFlag`, `ReadCounter`), so that its sum is of values from different moments. Nothing orders the two tasks, so a poll may
begin between the initiated flag and the resets behind it.

`secOff` outlives a call of letStart: `bootloader_letStart` does not reset the area, only the end of `imgManager_eraseArea` for an update
(`img_manager.c:151`) and a new move do. So an update that came in a wrapper leaves the area moved, and the next start parses behind it.

Abstractions: decisions are free where `BootFlow` has the reason for them; contents of the flash are `copied`, `wiped` and `dropped`, how
much of it has been written and erased; MCUboot is external and known by its calls. With
`MCUBOOT_OVERWRITE_ONLY_FAST` (`mcuboot_config.h`) it erases the sectors that the new image needs and the one of the trailer, not the whole
slot. `flash_area_open` fails when it had to initialise the chip, and the next call finds it initialised; that is modelled as it is.

### 5.2 Runs

| run | shows | size |
|---|---|---|
| `flash_calls` | any call of any area at every offset and length, or one call of letStart, on the same flash (`MCFlash`): `StaysInArea`, `DoesWhatItSays`, `SectorsTile`, `CompleteMeansFull` | 961 000 states, 60 s |
| `flash_update` | `TypeOK`, `FullMeansStored`, with up to two calls of letStart | 2 843 000 states, 90 s |

- `StaysInArea`: no driver is asked for an address outside of the area, moved or not, unless `off + len` wraps around.
  The exception is in the property (`Unwrapped`) because the checks do wrap: with `len` near 2^32 they
  pass. No caller in `src/` can pass such a length, so it is no hazard of this code.
- `DoesWhatItSays`: no transfer crosses a page, and the pieces of a successful call are the range that was asked for.
- `SectorsTile`: areas stay in their memory and tables, lookups and sizes agree.
- `FullMeansStored`: a bar that is full, and reported by SCREEN_DRAWN, means that the image is stored, whatever
  the GUI task reads between the stores of the other task. Three kinds of poll are excepted, since the code gives no such promise for them, and `fresh`
  tells them apart: one that began while the counters are set up (it may show the last update's), one that a new letStart ran into, and one that
  caught a counter above its size.
- `CompleteMeansFull`: after a complete update the sum is 100 exactly if the replaced firmware was no longer than what MCUboot
  erased for the new one, and 80 at least otherwise. `erasePrimary` is given the size of the *old* image, and what is counted against
  it is the erasure of the sectors of the *new* one and of the trailer. `screenUpdating_poll` waits for 100 before it reports. So
  for an update that is shorter by more than a sector the bar stops below 100, SCREEN_DRAWN is never sent, and the boot task
  waits out `TASK_GUI_MAX_SCREEN_DRAWING_TIME_MS` before it jumps. No text promises a full bar; the property says when there is one. Roundings, an
  operation that is never counted and the trailer's writes might miss it too.

`TypeOK` includes `FlashTypeOK`, the types of a call; that any call keeps them is part of `FlashInv`, which is proved.

Bounds: internal sectors of two external ones, each of two pages: every
alignment of offset and length to page and sector occurs, the primary slot is cut to the size of the
secondary one, the area moves by one sector, and `Word` = 64 lets `off + len` wrap. The primary slot has
three internal sectors, so that an image of 5 bytes and the trailer leave one between them; it ends inside a page and is copied in two chunks of 4,
the second of which passes its end. The one of 9 takes two sectors. In `flash_calls` the firmware they replace is absent, shorter, or, with 20 bytes,
longer than the 16 that are erased for the image of 5 but not than the 24 for the one of 9, so that `CompleteMeansFull` has both outcomes; every path of one letStart is taken. In
`flash_update`, with the image of 5 and a firmware of 8, a second call in the same power cycle lets counters and the moved area of the first be read in it; `MaxStarts` bounds the
calls. It was also checked with a firmware of 20 (6 110 000 states), and `CompleteMeansFull` with images of 5, 9 and 16 that replace 0, 8, 20 and 24.

The constants are assumed to be like the layout of the device (`FlashAssumption`, `UpdateAssumption`): sectors of whole pages and of
whole chunks, areas that start at a sector, addresses below `Word`, an internal sector of two pages at least (the trailer of the
primary slot lies in the last one). And an image is longer than two pages: the two flags of a firmware that is kept (`Adopt`) are written to the primary slot and so counted
as copying, which would fill the counter of a shorter one.

Facts the model shows that no property is about: a failed erasure of the
update leaves the bar below 100; a read error behind the end of the image fails the update with a full bar.

## 6. Screens and Widgets

### 6.1 State and actions

`Widgets` has the rectangles of all buttons by screen, and `guiCore_processButton`: which buttons a touch hits, which flags it
sets, whose callback runs. Tables of the same screen are in the order of their poll function, which matters
where two overlap.

`Screens` runs the GUI task cycle by cycle, 100 ms each. `age` is the time since `screen_time_ms`, `wrapped` says that the tick
counter has passed 2^32 in between. `frame` is the framebuffer as a record (which screen, which
boxes, which of them pressed, what battery) and `panel` what the display was last sent. `finger` is where the user touches; `touch` and
`lastTouch` are what the code made of it. `Cycle` is the end of `gui_task`'s loop with the read of
the touch panel; `ReceiveSwitch`, `InTime`, `Expire`, `GoSleep` and the `Poll...` actions are the parts of a cycle in order; the boot
task answers its events with any result the code has. `World` is the battery, the charger, the
download and the wrap of the counter. `ClearDownload` is the boot task that clears the download (`bootloader.c:641`) while the GUI task may
show it: `fw` and `assets` are how much has arrived, -1 without a download. `StartReady` has `SHOW_ERROR_ALWAYS` (`boot_app.c:26`) set, as the code
has: the jump at `boot_app.c:208` is compiled out, and a start that is ready shows ERROR where the MF allowed an update, WAIT in the first start of a user who
came by the hidden button, and the force-download screen otherwise.

Abstractions: a lost GUI event ends a behaviour here (`lost`), since lost events are the subject of `BootEvents`. The
updating screen is left out, since `FlashUpdate` and `BootEvents` have it. What a page shows besides its buttons and
the battery does not change while it is on the panel.

### 6.2 Run `screens` (3 199 000 states, 80 s)

- `PanelUpToDate`: whenever the GUI task waits, the panel shows the framebuffer.
- `ReactsAsDrawn`: when nothing moves, the user sees the buttons that react, as they are. Which ones react on
  the screen that waits depends on flags the boot task changes while the page is displayed.
- `TapActsOnce`: one touch runs at most one handler, although screens are switched by it and the new screen has a button at
  the same place. The exception is `TASK_GUI_UPDATE_PROCESS_EVENT`, which switches nothing and has
  the released touch polled again (`nudged`).
- `TimeoutOnTime`: never early, at most a cycle late, also when the counter wraps.
- `TurnsOff`: a device left alone ends, or turns to the boot task for the MF or for a new start, within two screens' time. This is a bounded-time property and needs no fairness.

Bounds: each limit is one or two cycles; the levels of the battery lie on both
sides of 40; a download has two steps, so that it may be incomplete, complete, and complete in a
single poll; one change of the world and two touches at six points: on the rows where buttons of
successive screens lie at the same place, on the signs "<" and "i", and on the secret area. CHECK_DEADLOCK is off: the device really stops.

`TimeAssumption` and `BoundAssumption` say what the proofs need of the constants: the wait screen has the longest limit, every limit is a cycle at
least, the error screen's switch-off is shorter than its limit, and the counts are natural numbers. The limits of `user_logic.c` satisfy it.
A download that is cleared while it is shown is the current one of `screen_download.c`, whose percentage is then divided by a total of 0 (line 263). `ByZero` is
what the division has as its result: 0 in the run, which is what the UDIV of this processor gives when it is not told to trap; the proofs hold for
every result in `0..Percent`. A trap is not modelled.

### 6.3 What the model does not fault

These are behaviours of the code that no text in the repository speaks against, or only a hint; they are modelled as they are. A finger that stays down on "<"
passes through more than one screen, since `last_touch` survives a switch; buttons that act on a press miss a tap whose two events are read
together; on the force-download screen such a tap counts as held, because a release sets the flag without the callback that
stamps its time ("Press the secret area for at least 500ms", `screen_forceDownload.c:24`). A touch made while the panel is drawn acts on the
new screen. A download that was complete before its screen was first opened, or that moved firmware and assets in
one poll, is noticed by the timeout only. The text says "at least 40%", the restart needs more than 40. After
30 seconds the error screen removes its button, and the next check switches the device off.

## 7. Paint

### 7.1 State and actions

`image` is the framebuffer, the set of its bits that are 1; `color` the colour of the next shape; `drawn` the last request and
`before` the framebuffer before it. One action per painting function the screens call. `Font` gives every symbol a glyph (width, height,
offsets, bits); the space is one of them, the newline and the end of a text have none. A bitmap is any set of bits of an image.

A loop of the code is a recursive function of the number of its rounds (`Rounds`): `MovePen` is one round of
`paint_drawLine` with its cumulative error, `NextLine` one line of `paint_drawStringEn`, `DrawSymbol` one
`paint_drawChar` of a text, `Reach` the sum `line_width` symbol by symbol. `LineStop` is the symbol at which a line is full or ends,
`LastSpace` the walk back from it.

### 7.2 Assumptions

- `DisplayAssumption`: a row is whole bytes (176 is 22 bytes); shapes have their corners from column 0 to the one behind the display.
- `FontAssumption`: a glyph is narrower than the display, has a place between it and the next symbol, begins within that place, and lies
  between the top and the bottom of a line. All glyphs of the three fonts do, with the offsets `fonts.c` computes for them. Texts have
  symbols of the font and newlines only.
- `CounterAssumption`: what the code counts in `uint8_t` and `uint16_t` does not wrap around: texts have fewer than 256 symbols (the
  longest of a screen has about a hundred). No proof uses it; it says for which constants the integers of the model are those of the code.

The guards of the actions are what the screens keep: windows that reach the column behind the display end above its last row; a text is of words
that fit and begins at column 8 or later, or it ends above the bottom (the label of the shipping screen at column 0); buttons are in the middle, 8 columns
off both sides, and high enough for their text. They matter, since the bounds checks of `gui_paint.c` compare with `>`: column `width`,
row `height` and the byte behind the framebuffer pass them. A text at columns 0 to 7 that runs off the bottom of the display is written there.

### 7.3 Run `paint` (34 884 states, 61 s), on 24 by 10 pixels

- `OnlyTheShape`: a request changes its box and nothing else of the framebuffer. Columns behind the
  right border are the exception stated in the property: the checks let x = width pass and the pixel is
  the first one of the next row. `paint_clearWindow(126, 4, 55, 12)` of the battery does that on a display of 176.
- `OutlineIsClosed`, `RedrawsClean`, `ReadsTheBitmap`: rectangles by four lines, bars without remains of higher values, and bitmaps of any
  width, byte-aligned rows (images) or not (symbols).
- `TextComplete`, `LinesFit`: a text of words that fit loses only spaces and newlines at line ends, and stays within its margins. `Ordinary` names the
  precondition: with a word wider than a line the code loses the symbol at each break, and a leading
  space is no place to break. The labels of the screens satisfy it with the widths of the real glyph tables.
- `ButtonReadable`: the text of a button is inside of it, in the other colour.

Bounds: three bytes a row; shapes with corners at columns 0, 1, 5, 8, 23 and 24 and rows 0, 1, 5 and 9, that is on and beside the borders of the
display and of bytes, and behind the right border; all texts of up to four symbols and those of five wide symbols and spaces, from columns 0, 8 and 9 and
rows 0 and 6, over lines of 24, 16, 15, 8 and 6 pixels: breaks at every place, twice in a row, at the end, and below the bottom. The narrow glyph reaches below the base line, the wide one is off the
corner of its place.

## 8. Mailbox

`box` is the mailbox, in order. `bpc` is what the boot task does with the mail: `SecureInit` (the IOP), `ReadMsgToBL`, `HandleMessages`, `LetStart`
with the events of a start or of its failure, the jumps. The GUI task's `FirstSwitch` reads and deletes the
manufacturing strings at any time between; `RefusedRequest` and `PowerOff` are its ways to end the work. A put into a full mailbox is
ignored, as the code ignores it. The IOP is a set of terms under exclusive or. A message that is deleted leaves its place
empty (`Gone`), so that places stand for the order of the messages and cost no room; `Used` counts the cells of the messages that are there.

Run `mailbox` (1 297 580 states, 58 s): every mail that BS and MF may leave, with damaged and short messages.

- `MFDecodesIOP`: however often a start was tried, the MF can compute the IOP if there was room for it.
- `VersionsShown`: the strings of the BS are on the first screen, though mail is read, deleted and cleaned up beside.
- `KeyReplyMeansImage`: the BS is told of a new key only together with a whole image.
- `NothingIsReadTwice`: no mail to the BL is left on any way out; `prepareToShutdown` works only once per power cycle, a refused
  shipping request uses it up.
- `OthersKept`: mail between the others survives.

All six are proved for a mailbox, an image and a number of starts of any size (section 9).

Bounds: `Room` 8 with a firmware of 3 is full in some behaviours and has room in others, with every first mail; a second start is enough to repeat
everything a start puts. CHECK_DEADLOCK is off: the bootloader ends.

Facts: after repeated starts the MF finds the same events more than once; a full mailbox loses the IOP or an event
without notice; `mailEngine_removeMsgFromBL` on that path drops events to the MF that were put before; a flash
error in `mailEngine_shareNewBL` leaves an incomplete image message; `mailEngine_removeMsgToMF` deletes mail of
the BS to the MF, too; the library is called by two tasks and `src/` has no lock around it, so each call is assumed to be atomic.

## 9. What is proved

The theorems hold for all values of the constants that satisfy the named assumptions of the modules; these say that kinds of images are disjoint,
that attributes and limits are functions of the right type, and what sections 5.2, 6.2 and 7.2 say of geometry, time and fonts. TLC evaluates them on every run.
Each inductive invariant was checked by TLC on the constants of the run before it was proved.

| module | theorem | statement |
|---|---|---|
| `BootFlowProofs` | `TypeCorrect` | `Spec => []TypeOK` |
| | `RunsVerified` | `Spec => []RunsOnlyVerified` |
| | `InstallsRequested` | `Spec => []NoUnrequestedInstall` |
| | `ConfirmsReported` | `Spec => []ConfirmedOnlyAfterReport` |
| | `AnnouncesTrials` | `Spec => []TrialIsAnnounced` |
| | `ReplacesOnlyByBetter` | `Spec => ConfirmedMFOnlyReplaced` |
| | `BootFlowImplementsSafeBoot` | `Spec => ImplementsSafeBoot` |
| `BootFlowRiskProofs` | `KeepsOneCopy` | `Spec => []NeverLosesBothCopies`, if `KeyReplacedOnce`, `~EagerMF` and `MaxLosses <= 1` |
| `BootEventsProofs` | `EventsTypeCorrect`, `DrawnIsShown`, `StaysIfAsked` | `TypeOK`, `DrawnMeansShown`, `StayIfAsked`, for queues of any length |
| `FlashAreaProofs` | `FlashStaysInArea`, `FlashDoesWhatItSays`, `FlashSectorsTile` | `StaysInArea`, `DoesWhatItSays`, `SectorsTile`, for every geometry |
| `FlashUpdateProofs` | `UpdateTypeCorrect`, `FullBarMeansStored`, `CompleteBarIsFull` | `TypeOK`, `FullMeansStored`, `CompleteMeansFull`, for every geometry, image, replaced firmware and number of starts |
| `ScreensProofs` | `ScreensTypeCorrect`, `PanelShowsFrame`, `ReactsAsItIsDrawn`, `ReleaseActsOnce` | `TypeOK`, `PanelUpToDate`, `ReactsAsDrawn`, `TapActsOnce` |
| | `TimeoutsOnTime`, `DeviceTurnsOff` | `TimeoutOnTime`, `TurnsOff`, for all limits |
| `MailboxProofs` | `MailTypeCorrect`, `MFCanDecodeIOP`, `ShowsVersions`, `KeyReplyHasImage`, `ReadsNothingTwice`, `KeepsMailOfOthers` | the six properties of the run, for a mailbox of any size |
| `PaintProofs` | `PaintTypeCorrect`, `PaintsOnlyTheShape`, `PaintRedrawsClean`, `PaintClosesOutlines` | `TypeOK`, `OnlyTheShape`, `RedrawsClean`, `OutlineIsClosed`, for every display |
| | `PaintReadsTheBitmap`, `PaintTextComplete`, `PaintLinesFit`, `PaintButtonReadable` | `ReadsTheBitmap`, `TextComplete`, `LinesFit`, `ButtonReadable`, for every bitmap, font and text |

### 9.1 The boot flow

`TypeOK` is not inductive: `ReplaceKey` looks up `NewKey[secondary]` and `CopyErase` stores
`secondary` as the image being installed, so `UpdateShape` says what the slot holds at those labels.
The `Seen...` lemma relates the content of a moved area to the slot.

`RunsOnlyVerified` is about one state, but is true because of what happened at every label before
it. `FlowInv` is the strengthening, in four parts:

- `ControlInv`: where `eraseArea` may return to, and at which labels no update has been initiated;
- `PermissionInv`: an initiated update had consent, or nothing else boots; needed because boot_go's
  hook looks at the flag alone;
- `TrailerInv`: the status of the primary slot on the way into `boot_go` is settled (a failed trial or
  a corrupt status was erased), and only a copy makes a trial;
- `ReadyInv`: `inited` stands for an image that verifies now and is marked now, at every label where a
  jump can still follow. This is where a stale flag would show.

Each part is preserved by one lemma per group of actions (`MsgFlow`, `EraseStartFlow`, `CheckFlow`,
`StatusFlow`, `CopyFlow`, `BootStepFlow`, `OutsideFlow`, `PowerLossFlow`), with one step per action; a
power loss and a reset need only what `RamReset` sets. Three small lemmas state what the operators
give: what `Bootable` depends on, and how flags and status of a trailer determine each other.

The other invariants rest on `FlowInv` and a strengthening of their own:

- `ReportInv`: a report of the MF is in the mailbox only while the device is off, is in the BL's mail
  only until the mail is worked off, and in both cases the image in the primary slot is still the one
  that sent it. `TrailerInv` gives the rest: the copy of a new image finds an erased boot status.
- `AnnounceInv`: at every label from which a MF can be started (`Startable`, which `ReadyInv` makes
  precise through `inited`), image_ok is set, or the first-run event is in the mailbox, or it was refused because the mailbox was full.
- `KeepInv`, for `ConfirmedMFOnlyReplaced`: where the primary slot is erased the MF is not confirmed, does not boot, or is about to be overwritten
  (`GiveUpInv`); an initiated update stays what `newMainFirmwareHandler` approved until the copy, over the move of the area and the new key
  (`ReplaceInv`); a MF whose trial has begun is confirmed or erased before the next jump (`TrialInv`, which the refinement needs).

The refinement then has one lemma per step of `SafeBoot` and one for those that `SafeBoot` does not see. What makes it work is that the state of
`SafeBoot` depends on few things (`SameStanding`, `Waits`), and that `KeepInv` says what the erasures and copies do to them.

`KeepsOneCopy` is the hardest, since no one place in the code keeps it. `RiskInv` says what an update is for (`ConsentInv`: a MF that is good allowed it and
stays good until it is replaced), where the magic of the secondary slot may be set (`MagicInv`), that the slot keeps the image (`SourceInv`), that the copy there is only given
up for a primary slot that is complete (`CopyInv`), and what a bootloader finds that starts after the loss (`RunInv`): it was told nothing, the MF does
not boot, so it initiates what it finds. Its hypotheses are not conveniences; without any of them TLC finds a counterexample:

- `MaxLosses <= 1`: run `two_losses`;
- `~EagerMF`: a MF that allows an update before its own first run was confirmed is erased by the failed trial, and the loss hits what it allowed;
- `KeyReplacedOnce`: no wrapper is signed with the key that another one brings. The last note of section 10 has what happens otherwise; the
  counterexample needs no power loss at all.

### 9.2 The two tasks and the screens

`EventInv` says that the updating screen has a last progress only once it has drawn it, and that the GUI task has an event in hand only while it waits in
`bootApp_sendEvent`. `StayIfAsked` needs no invariant: it follows from the guards of the two actions that jump, which is why their order in `bootTask` matters.

In `Screens` each property has a strengthening of its own. `PanelInv`: a page that is drawn anew is shown by its first poll. `DrawnInv`: what a flag and a
place in the queue say about the page, in the moments when letStart does not run and no other page is due. `TapInv`: a released touch is forgotten when a page is drawn.
`AgeInv`, `AloneInv` and `IdleInv` bound how old a screen gets, what a device without a user does not get, and from
which of its screens it goes on to which.

### 9.3 The flash areas and the bar

`FlashInv` has the bounds that the checks leave (`CallInv`), and that the pieces so far are the range from `off` to what is left (`TransferInv`) or the sectors before the
current one (`EraseInv`). It rests on lemmas about quotients, since sectors and pages are `div` and `%`: a product grows by its factor, what lies
between two multiples, what `%` leaves. The prover does not find those under a product of variables by itself.

`BarInv` relates the counters to what has been written and erased, at every point of the flow: `PhaseInv` (what a flow, its call and the bytes copied
have to do with each other), `ErasedInv` (what MCUboot has erased so far), `SizeInv`, and for the counters `Resets` (they are cleared one after the other and nothing
counts meanwhile), `Limits` (only the one being moved is above its size), `EraseCounts` and `CopyCounts` (each is what has been erased or copied, up to its size).
`GuiInv` relates the part of the sum that the GUI task has read so far to the counters now: in a poll that is `fresh` each part is read once and only grows, so a
sum of values from different moments is not larger than the sum now. Most steps of the flow move no counter; `Quiet` collects what they
leave alone, so that one lemma (`QuietSteps`) stands for them and each part of `BarInv` is looked at for the few others. `CompleteBarIsFull` follows from
`EraseCounts` and `CopyCounts` by the arithmetic of the four shares (`Share`, `Monotone`).

### 9.4 The mailbox

`MailInv`: the mail at the start is not from the bootloader and has only the bytes that are for it (`GivenInv`); `IOPVX` has them from `secure_init` on
(`FirstInv`); once the mail to the bootloader is removed nothing adds any (`ClosedInv`); the strings wait for the first screen (`StringInv`); the answer to a new key
comes after the image and is followed by the jump (`KeyInv`). The lemmas `Appended`, `Deleted` and `Prepared` say what the library does to the set of messages and
to the room they take; the steps use nothing else of it.

### 9.5 Painting

The properties look at one request, but what a request paints is the work of loops; most of the proof is about these.

Induction. The provers cannot instantiate an induction theorem with a predicate, but they can with a set: `NatSets` says that a set of natural
numbers that has 0 and with every number the next one is all of them, from the well-foundedness of `<` and the theorem `WFMin`, which takes sets only. From it follow
`RoundsAre` (the rounds of a loop are what its body says, one after the other, which has to be proved of a recursive function) and `RoundsKeep` (what every round keeps holds
after all of them), and the same for the least and the greatest element of a set (`MinIs`, `MaxIs`).

Pixels. `BitsDiffer`: two points inside of the display never share a bit; `PaintedIs` and `BitInside`: which points the bounds
checks let pass, and which of them stay in the framebuffer. Each is a statement about `div` and `%`.

Shapes. `PensAre` gives the pen of `paint_drawLine` after n rounds of a horizontal or vertical line, so that `RectangleIs` and `BarIs` can say what
an outline and a bar come to as sets of points. `BarTwice` and `BatteryTwice` are `RedrawsClean`; `BatteryFull` is the reason why 99 percent do not look full: the last column of
the inside is reached by 100 alone.

Bitmaps. `SourceBitsDiffer` and `BitmapIsRead`: no two pixels share a bit, and the bytes are those from the first one to the last.

Texts. `ReachIs`, `ReachGrows` and `ExtentIs` are the sums of the advances. `LineIs` says where a line ends and why: everything before the symbol it stops at
fits, and if that symbol is inside of a word the walk back finds a space, because the word alone would have fitted. `LayoutGood`, kept by `NextLine`, says that
the lines so far are good (`LineGood`) and follow each other without a gap in the symbols and without an overlap in the rows; every round goes on by a symbol, so that
`Len(text) + 1` rounds are enough for the loop to end (`LayoutsAre`). `RowsGood` counts the lines by the newlines, for the buttons. `TextIsComplete` and `LinesAreFit` are conclusions from it.

Buttons. `CellsApart`: the places of two symbols of a text have no point in common, since extents grow along a line and rows from line to line; `InkInCell`: a glyph stays in its place. So
what a symbol inverts no other one inverts back, and a visible symbol leaves a bit that differs from the background. `ButtonTop`: the lines of the text, counted by its newlines,
end above the lower side.

`PaintInv` puts the properties together and adds what a bar or a battery that is painted again has to know of the one before it (`BarDrawn`, `BatteryDrawn`): its place is one
that a first request may have had, and nothing is on a display that has just been cleared.

### 9.6 What is only model-checked

- Liveness (`InterruptedInstallCompletes`, `BootTaskReturns`, `ScreensTimeOut`): fairness and ENABLED are out of the prover's reach.
- The runs that expect a violation.

## 10. Where the code differs from what it says

1. `never_here`: the branch marked "Should never be here" (`bootloader.c:609`) is reached without any
   fault, because consent stays set in RAM: the second download of a power cycle, after the first has
   left the primary slot erased, is initiated at once, then refused and erased unread.
2. `not_started`: "First start was unsuccessful, the application did not respond" (`bootloader.h:25`) is
   reported for a firmware that was never started, after a power loss between copy_done and the jump.
3. `two_losses`: "Also continue updates if it was interrupted" (`bootloader.h:52`) fails for two losses,
   the second inside the write of the magic: no copy of the update is left.
4. `events_peek`: `bootApp_peekForEvent` promises to wait for the event until the timeout
   (`boot_app.h:36`); any other event in the queue ends the wait at once.

Noted, without a run: "The timeout of the previous screen is used" says `screen_info2.c:89` of the
additional-info screen. The time-out value is, but `checkScreenTimeout` has no case for that screen
(`user_logic.c:29-64`), so nothing happens when it expires: apart from shipping it is the one screen
that stays until it is touched, and `ScreensTimeOut` does not claim otherwise.

Also without a run: `bootloader_getUpdateProgress` promises a "positive percentage value from 0 to 100" (`bootloader.h:76`), and can give more, for two
reasons. Each counter is stored first (`bootloader.c:184`) and cut back to its size afterwards, and the GUI task may read between the two; that takes, for
example, an update that is copied but does not validate, where the sector that `imgManager_eraseBadMF` erases passes the size of the firmware before it. And
a poll that begins between the initiated flag (`bootloader.c:695`) and the resets behind it adds up the counters of the last update with sizes of both.
The screen draws such a sum as an empty bar (`screen_updating.c:205`), but two equal ones in a row count as drawn (`screen_updating.c:141`).

Also without a run: `NeverLosesBothCopies` needs that a wrapper is not signed with the key another one brings. Otherwise, in a single
power cycle and without any fault: the user allows the update, downloads a wrapper whose image does not verify (the key is replaced, the MF erased), then
one that is signed with the new key and brings a third. The first pass of `checkDownloadedUpdate` replaces the key and initiates the update, its status
lets `letStart` go to `BootFailedHandler` with the update initiated, and the branch of `bootloader.c:609` (item 1) erases the update that is the only
firmware left. Nothing in the repository says whether keys may be chained like that, so it is a hypothesis of the theorem and not a finding.

## 11. Not modelled, and why

- Image data, the display driver, `paint_drawChip`, `paint_drawNum` and rotation: constants, an external driver, and
  code no build uses.
- The parser's field-by-field comparison of versions and its walk over TLVs: `BootFlow` uses what its predicates
  answer. `secure_readSlot`, `secure_writeSlot`: callbacks of libse. (Their second condition compares two
  constants, `secure.c:267` and `:282`, where the slot is meant.)
- `turnOffNfc` and the NFC download service: it is outside the repository, and so is what it does with the slot
  after the five seconds; `BootFlow` allows a download at any idle moment.
- What EXIT should do for a user who came by DOWNLOAD: no text says it.
- The debug shell and the test hooks: not in a release build.
- Scripts and workflows: do not run on the device.
- Cryptography: a signature is the key it verifies with.
- The inside of MCUboot, FreeRTOS, libramMbox, the BS and the MF: outside the repository, modelled
  by what the code expects of them.

## 12. Running

```
tlc -workers 2 -config BootFlowSafety.cfg MCBootFlow
tlc -workers 2 -config BootFlowLiveness.cfg MCBootFlow
tlc -workers 2 -config BootFlowNeverHere.cfg MCBootFlow
tlc -workers 2 -config BootFlowNotStarted.cfg MCBootFlow
tlc -workers 2 -config BootFlowTwoLosses.cfg MCBootFlow
tlc -workers 2 -config BootEvents.cfg BootEvents
tlc -workers 2 -config BootEventsPeek.cfg BootEvents
tlc -workers 2 -config MCFlash.cfg MCFlash
tlc -workers 2 -config FlashUpdate.cfg FlashUpdate
tlc -workers 2 -config Screens.cfg MCScreens
tlc -workers 2 -config Paint.cfg MCPaint
tlc -workers 2 -config Mailbox.cfg Mailbox
for m in BootFlow BootFlowRisk BootEvents FlashArea FlashUpdate Screens Mailbox Paint
do tlapm ${m}Proofs.tla; done
```

A definition with "Mutant:" in its comment is a plausible bug in the definition that follows it; each
property of a passing run is violated when the mutant listed for it in `PROJECT.json` takes its place.
