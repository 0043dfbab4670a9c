----------------------------- MODULE BootEvents -----------------------------
(***************************************************************************)
(* The boot task and the GUI task of the bootloader, and the two bounded   *)
(* event queues between them.                                              *)
(*                                                                         *)
(* Modelled code: boot_app.c, gui/task_gui.c, gui/gui_core.c and the       *)
(* transitions of gui/screens/*.c, for the configuration the sources       *)
(* select (force download and error screen on, erase button and automatic  *)
(* exits off).  Time is not modelled: a timeout may expire at any moment   *)
(* the code looks at it, except where a comment says that it is too early. *)
(* What bootloader_letStart decides is the subject of module BootFlow;     *)
(* here it may end with any of its results.  The download service is a     *)
(* source of events only.                                                  *)
(*                                                                         *)
(* A task runs from one blocking call to the next, or to the next use of   *)
(* a variable of the other task, in one step.                              *)
(***************************************************************************)
EXTENDS Naturals, Sequences

CONSTANTS
  BootLen,   \* MAIN_TASK_MAX_EVENT_LEN
  GuiLen     \* TASK_GUI_MAX_EVENT_LEN

ASSUME LengthAssumption == BootLen \in Nat \ {0} /\ GuiLen \in Nat \ {0}

\* SCREEN_ID_*; the event that switches to a screen has the name of the screen.
Screen == {"WAIT", "LOW_BATTERY", "INFO", "MORE_INFO", "SHIPPING", "DOWNLOAD",
           "UPDATING", "ERROR", "FORCE"}
GuiEvent == Screen \cup {"process"}
BootEvent == {"showError", "bootToMF", "startAgain", "downloaded", "drawn", "goBL", "later"}

\* Outside the bootloader: in the MF, in the BS, switched off.
Gone == {"mf", "bs", "off"}

VARIABLES
  bootQ, guiQ,  \* boot_queue, gui_task_queue
  \* boot task
  bpc,
  fresh,        \* boot_num = 0
  force,        \* force_download_clicked
  allowed,      \* mailEngine_updateAllowed()
  passed,       \* imgManager_isUpdateMFpassed()
  \* read by both tasks
  valid,        \* BL_status = READY_TO_JUMP_TO_MF, and boot_target_instanse.inited
  initiated,    \* update_via_mcuboot_was_initiated
  progress,     \* counters of the update: never set, on their way, at 100 percent
  \* GUI task
  gpc,
  out, back,    \* event bootApp_sendEvent is blocked with, and where it returns to
  screen,       \* current_screen_id
  cycling,      \* the first event was received: the receive call has a timeout now
  full,         \* full_update_required
  last,         \* last_progress of the updating screen
  startSent,    \* boot_event of the low-battery screen
  kept          \* the last poll of the screen started its time again

queues == <<bootQ, guiQ>>
bootVars == <<bpc, fresh, force, allowed, passed>>
sharedVars == <<valid, initiated, progress>>
pageVars == <<screen, cycling, full>>
watchVars == <<last, startSent, kept>>
guiVars == <<gpc, out, back, pageVars, watchVars>>
vars == <<queues, bootVars, sharedVars, guiVars>>

TypeOK ==
  /\ bootQ \in Seq(BootEvent) /\ Len(bootQ) <= BootLen
  /\ guiQ \in Seq(GuiEvent) /\ Len(guiQ) <= GuiLen
  /\ bpc \in {"init", "wait", "start", "run", "peekMF", "peekBS", "selfSend"} \cup Gone
  /\ fresh \in BOOLEAN /\ force \in BOOLEAN /\ allowed \in BOOLEAN /\ passed \in BOOLEAN
  /\ valid \in BOOLEAN /\ initiated \in BOOLEAN
  /\ progress \in {"unset", "part", "full"}
  /\ gpc \in {"recv", "timeout", "poll", "buttons", "send"}
  /\ out \in BootEvent \cup {"none"} /\ back \in {"none", "poll", "buttons", "recv"}
  /\ screen \in Screen
  /\ cycling \in BOOLEAN /\ full \in BOOLEAN /\ startSent \in BOOLEAN /\ kept \in BOOLEAN
  /\ last \in {"reset", "none", "part", "full"}

Init ==
  /\ bootQ = <<>> /\ guiQ = <<>>
  /\ bpc = "init" /\ fresh = TRUE /\ force = FALSE /\ allowed \in BOOLEAN /\ passed = FALSE
  /\ valid = FALSE /\ initiated = FALSE /\ progress = "unset"
  /\ gpc = "recv" /\ out = "none" /\ back = "none"
  /\ screen = "WAIT" /\ cycling = FALSE /\ full = TRUE
  /\ last = "reset" /\ startSent = FALSE /\ kept = FALSE

-----------------------------------------------------------------------------
(* The two ways to send. *)

\* Mutant: an event for the GUI is queued without a look at the length of the queue.
ToGuiUnbounded(e) == guiQ' = Append(guiQ, e)

\* taskGui_sendEvent waits one tick and drops the event.
ToGui(e) == guiQ' = IF Len(guiQ) < GuiLen THEN Append(guiQ, e) ELSE guiQ

\* bootApp_sendEvent waits a second.
ToBoot(e, label) == gpc' = "send" /\ out' = e /\ back' = label

Goto(label) == gpc' = label /\ UNCHANGED <<out, back>>

\* A jump or a reset, or the power is switched off: what is in RAM is lost.
Leave(where) ==
  /\ bpc' = where
  /\ bootQ' = <<>> /\ guiQ' = <<>>
  /\ fresh' = TRUE /\ force' = FALSE /\ allowed' = FALSE /\ passed' = FALSE
  /\ valid' = FALSE /\ initiated' = FALSE /\ progress' = "unset"
  /\ gpc' = "recv" /\ out' = "none" /\ back' = "none"
  /\ screen' = "WAIT" /\ cycling' = FALSE /\ full' = TRUE
  /\ last' = "reset" /\ startSent' = FALSE /\ kept' = FALSE

-----------------------------------------------------------------------------
(* The boot task. *)

\* bootloader_init, and the first event; the GUI task sends none before it receives one.
BootInit ==
  /\ bpc = "init" /\ bpc' = "wait"
  /\ bootQ' \in {<<"startAgain">>, <<"showError">>}
  /\ UNCHANGED <<guiQ, fresh, force, allowed, passed, sharedVars, guiVars>>

InitNeedsBS == bpc = "init" /\ Leave("bs")

NextIs(e) == bpc = "wait" /\ bootQ # <<>> /\ Head(bootQ) = e
Receive(e) == NextIs(e) /\ bootQ' = Tail(bootQ)

ReceiveStart ==
  /\ \E e \in {"startAgain", "downloaded"} : Receive(e) /\ fresh' = (fresh \/ e = "startAgain")
  /\ bpc' = "start"
  /\ UNCHANGED <<guiQ, force, allowed, passed, sharedVars, guiVars>>

\* The flags that letStart clears.
Start ==
  /\ bpc = "start" /\ bpc' = "run"
  /\ valid' = FALSE /\ initiated' = FALSE
  /\ UNCHANGED <<queues, fresh, force, allowed, passed, progress, guiVars>>

\* initiateUpdateViaMcuboot
Initiate ==
  /\ bpc = "run" /\ ~initiated
  /\ initiated' = TRUE /\ progress' = "part" /\ ToGui("UPDATING")
  /\ UNCHANGED <<bootQ, bootVars, valid, guiVars>>

\* bootloader_tryUpdateProgress, for every chunk that is erased or written.
Process ==
  /\ bpc = "run" /\ progress = "part"
  /\ progress' \in {"part", "full"} /\ ToGui("process")
  /\ UNCHANGED <<bootQ, bootVars, valid, initiated, guiVars>>

\* Results of letStart that the task passes on to the GUI.
Report(e) ==
  /\ ToGui(e)
  /\ bpc' = "wait" /\ fresh' = FALSE

StartFails ==
  /\ bpc = "run"
  /\ \E e \in {"LOW_BATTERY", "ERROR", "WAIT"} : Report(e)
  /\ UNCHANGED <<bootQ, force, allowed, passed, sharedVars, guiVars>>

\* A new bootloader for the BS: never found after an update was initiated.
StartNeedsBS ==
  /\ bpc = "run" /\ ~initiated
  /\ ToGui("UPDATING") /\ bpc' = "peekBS"
  /\ UNCHANGED <<bootQ, fresh, force, allowed, passed, sharedVars, guiVars>>

\* readyToJumpToMFhandler; an update that passed is remembered until the power is off.  The
\* jump cannot fail here, and the download status is never TOO_LOW_BATTERY_LEVEL.
StartReady ==
  /\ bpc = "run"
  /\ valid' = TRUE /\ passed' \in {passed, TRUE}
  /\ IF passed' THEN bpc' = "peekMF" /\ UNCHANGED <<guiQ, fresh>>
     ELSE Report(IF ~allowed THEN "FORCE" ELSE IF fresh /\ force THEN "WAIT" ELSE "ERROR")
  /\ UNCHANGED <<bootQ, force, allowed, initiated, progress, guiVars>>

LetStartEnds == StartFails \/ StartNeedsBS \/ StartReady

\* bootApp_peekForEvent: any event ends the wait, and so does a timeout.
Jump == (bpc = "peekMF" /\ Leave("mf")) \/ (bpc = "peekBS" /\ Leave("bs"))

\* Mutant: the wait for SCREEN_DRAWN is repeated until it comes.
PeekForever ==
  IF bootQ # <<>> /\ Head(bootQ) = "drawn" THEN Jump
  ELSE bpc \in {"peekMF", "peekBS"} /\ UNCHANGED vars

Peek == Jump

ReceiveError ==
  /\ Receive("showError") /\ ToGui("ERROR")
  /\ UNCHANGED <<bootVars, sharedVars, guiVars>>

ReceiveGoBL ==
  /\ Receive("goBL")
  /\ force' = TRUE /\ allowed' = TRUE /\ ToGui("WAIT")
  /\ UNCHANGED <<bpc, fresh, passed, sharedVars, guiVars>>

\* bootloader_jumpToMF fails if there is no valid MF: the screen that waits for the user.
StayAndWait(e) ==
  /\ Receive(e) /\ ToGui("WAIT")
  /\ UNCHANGED <<bootVars, sharedVars, guiVars>>

ReceiveLater ==
  IF force /\ valid THEN NextIs("later") /\ Leave("mf") ELSE StayAndWait("later")

ReceiveBootToMFFirst ==
  /\ fresh /\ Receive("bootToMF") /\ bpc' = "selfSend"
  /\ UNCHANGED <<guiQ, fresh, force, allowed, passed, sharedVars, guiVars>>

\* Mutant: the wish of the user to stay is forgotten.
ReceiveBootToMFForced ==
  /\ ~fresh
  /\ IF valid THEN NextIs("bootToMF") /\ Leave("mf") ELSE StayAndWait("bootToMF")

ReceiveBootToMF ==
  /\ ~fresh
  /\ IF ~force /\ valid THEN NextIs("bootToMF") /\ Leave("mf") ELSE StayAndWait("bootToMF")

\* The boot task sends START_AGAIN to its own queue, which nobody else empties.
SelfSend ==
  /\ bpc = "selfSend" /\ bpc' = "wait"
  /\ Len(bootQ) < BootLen /\ bootQ' = Append(bootQ, "startAgain")
  /\ UNCHANGED <<guiQ, fresh, force, allowed, passed, sharedVars, guiVars>>

SelfSendGivesUp ==
  /\ bpc = "selfSend" /\ bpc' = "wait"
  /\ Len(bootQ) = BootLen
  /\ UNCHANGED <<queues, fresh, force, allowed, passed, sharedVars, guiVars>>

ReceiveDrawn ==
  /\ Receive("drawn")
  /\ UNCHANGED <<guiQ, bootVars, sharedVars, guiVars>>

-----------------------------------------------------------------------------
(* The GUI task: receive, switch. *)

\* guiCore_switchScreen and the switch function of the screen.  The force-download screen is
\* not drawn.  (first_switch_completed is left out: the first event switches to a screen, so
\* that it is unset on the force-download screen only.)  The timer of the screen starts here:
\* the check of the timeout that follows finds nothing.
Switch(s) ==
  /\ screen' = s
  /\ full' = (full \/ s # "FORCE")
  /\ last' = "reset" /\ kept' = FALSE

GuiReceive ==
  /\ gpc = "recv" /\ guiQ # <<>> /\ guiQ' = Tail(guiQ)
  /\ cycling' = TRUE
  /\ IF Head(guiQ) = "process"
     THEN Goto("timeout") /\ UNCHANGED <<screen, full, last, kept>>
     ELSE Goto("poll") /\ Switch(Head(guiQ))
  /\ UNCHANGED <<bootQ, bootVars, sharedVars, startSent>>

\* No event for a while.
GuiCycle ==
  /\ gpc = "recv" /\ guiQ = <<>> /\ cycling /\ Goto("timeout")
  /\ UNCHANGED <<queues, bootVars, sharedVars, pageVars, watchVars>>

-----------------------------------------------------------------------------
(* guiCore_checkTimeout and checkScreenTimeout. *)

TimeoutChecked == gpc = "timeout" /\ (~full \/ screen = "FORCE")

ExpiredToShipping ==
  /\ TimeoutChecked /\ screen \in {"WAIT", "LOW_BATTERY", "INFO"}
  /\ ToGui("SHIPPING") /\ Goto("poll")
  /\ UNCHANGED <<bootQ, bootVars, sharedVars, pageVars, watchVars>>

\* The five minutes of the updating screen start again with every change of the progress:
\* when they are over, letStart has ended and its events and the last timeout are received.
Stuck ==
  /\ screen = "UPDATING" /\ bpc = "wait"
  /\ guiQ = <<>> /\ \A i \in 1..Len(bootQ) : bootQ[i] = "drawn"

\* Mutant: an update that takes too long is left alone.
ExpiredToBootUpdating ==
  /\ TimeoutChecked
  /\ \/ screen = "DOWNLOAD" /\ ToBoot("downloaded", "poll")
     \/ screen = "FORCE" /\ ToBoot("bootToMF", "poll")
  /\ UNCHANGED <<queues, bootVars, sharedVars, pageVars, watchVars>>

ExpiredToBoot ==
  /\ TimeoutChecked
  /\ \/ (screen = "DOWNLOAD" \/ Stuck) /\ ToBoot("downloaded", "poll")
     \/ screen = "FORCE" /\ ToBoot("bootToMF", "poll")
  /\ UNCHANGED <<queues, bootVars, sharedVars, pageVars, watchVars>>

\* endOfWork_goSleep
ExpiredToSleep == TimeoutChecked /\ screen = "ERROR" /\ Leave("off")

Expired == ExpiredToShipping \/ ExpiredToBoot \/ ExpiredToSleep

-----------------------------------------------------------------------------
(* guiCore_poll: what a screen watches, then its buttons, then the display.  *)

\* The display is drawn at the end of a cycle.
EndOfCycle == gpc' = "recv" /\ full' = FALSE /\ UNCHANGED <<screen, cycling, out, back>>

\* The timeout has not expired, or this check is over.
Polled(s) == gpc \in {"timeout", "poll"} /\ screen = s

\* The battery level has changed, to above or below BATTERY_LEVEL_TO_DOWNLOAD.
PollLowBattery ==
  /\ Polled("LOW_BATTERY")
  /\ \/ ~startSent /\ startSent' = TRUE /\ ToBoot("startAgain", "buttons")
     \/ startSent' = FALSE /\ Goto("buttons")
  /\ UNCHANGED <<queues, bootVars, sharedVars, pageVars, last, kept>>

\* The download of a firmware is complete.
PollDownload ==
  /\ Polled("DOWNLOAD") /\ ToBoot("downloaded", "buttons")
  /\ UNCHANGED <<queues, bootVars, sharedVars, pageVars, watchVars>>

\* bootloader_getUpdateProgress; "none" is its -1.
Progress == IF initiated THEN progress ELSE "none"

\* Mutant: the end of the update is reported before it is drawn.
PollUpdatingEager ==
  /\ Polled("UPDATING") /\ last' = Progress
  /\ IF Progress \in {"full", "none"} THEN ToBoot("drawn", "recv") /\ UNCHANGED pageVars
     ELSE EndOfCycle
  /\ UNCHANGED <<queues, bootVars, sharedVars, startSent, kept>>

PollUpdating ==
  /\ Polled("UPDATING") /\ last' = Progress
  /\ IF Progress = last /\ Progress \in {"full", "none"}
     THEN ToBoot("drawn", "recv") /\ UNCHANGED pageVars
     ELSE EndOfCycle
  /\ UNCHANGED <<queues, bootVars, sharedVars, startSent, kept>>

\* endOfWork_shippingMode is granted, or endOfWork_powerOff after some attempts.
PollShipping == Polled("SHIPPING") /\ Leave("off")

\* Most screens watch nothing, or nothing has changed.
AtButtons == gpc = "buttons" \/ \E s \in Screen \ {"UPDATING"} : Polled(s)

\* refreshScreenTime: a connected charger on LOW_BATTERY, a download that goes on, a touch of
\* the hidden button.  (UPDATING is the subject of Stuck.)
MayKeepTime ==
  /\ kept' \in BOOLEAN
  /\ kept' => screen \in {"LOW_BATTERY", "DOWNLOAD", "FORCE"}

\* The user may touch any button of the screen, at any cycle but the first: the switch clears
\* the touch, except for the hidden button of the force-download screen.
Tapped(s) == AtButtons /\ screen = s /\ (~full \/ s = "FORCE")

\* Buttons that ask for another screen.
Links == {<<"WAIT", "SHIPPING">>, <<"LOW_BATTERY", "WAIT">>, <<"LOW_BATTERY", "SHIPPING">>,
          <<"INFO", "WAIT">>, <<"INFO", "MORE_INFO">>, <<"INFO", "DOWNLOAD">>,
          <<"MORE_INFO", "INFO">>, <<"DOWNLOAD", "INFO">>}

TapLink ==
  /\ \E k \in Links : Tapped(k[1]) /\ ToGui(k[2])
  /\ EndOfCycle
  /\ MayKeepTime
  /\ UNCHANGED <<bootQ, bootVars, sharedVars, last, startSent>>

\* DOWNLOAD: the battery decides.
TapDownload ==
  /\ Tapped("WAIT")
  /\ ToGui("INFO") \/ ToGui("LOW_BATTERY")
  /\ EndOfCycle
  /\ MayKeepTime
  /\ UNCHANGED <<bootQ, bootVars, sharedVars, last, startSent>>

\* EXIT, which is there with a valid MF only, CONTINUE, and the hidden button once it was
\* held long enough.
TapToBoot ==
  /\ \/ Tapped("WAIT") /\ valid /\ ToBoot("later", "recv")
     \/ Tapped("ERROR") /\ ToBoot("bootToMF", "recv")
     \/ Tapped("FORCE") /\ ToBoot("goBL", "recv")
  /\ MayKeepTime
  /\ UNCHANGED <<queues, bootVars, sharedVars, pageVars, last, startSent>>

TapNothing ==
  /\ AtButtons /\ EndOfCycle
  /\ MayKeepTime
  /\ UNCHANGED <<queues, bootVars, sharedVars, last, startSent>>

GuiSent ==
  /\ gpc' = back /\ out' = "none" /\ back' = "none"
  /\ full' = (full /\ back # "recv") /\ UNCHANGED <<screen, cycling>>

GuiSend ==
  /\ gpc = "send" /\ GuiSent
  /\ Len(bootQ) < BootLen /\ bootQ' = Append(bootQ, out)
  /\ UNCHANGED <<guiQ, bootVars, sharedVars, watchVars>>

\* After a second: a boot task that is waiting would have emptied its queue by then.
GuiSendGivesUp ==
  /\ gpc = "send" /\ GuiSent
  /\ Len(bootQ) = BootLen /\ bpc # "wait"
  /\ UNCHANGED <<queues, bootVars, sharedVars, watchVars>>

-----------------------------------------------------------------------------
\* The MF or the BS resets the device, or the user switches it on.
Restart ==
  /\ bpc \in Gone /\ bpc' = "init" /\ allowed' \in BOOLEAN
  /\ UNCHANGED <<queues, fresh, force, passed, sharedVars, guiVars>>

BootStep == BootInit \/ InitNeedsBS \/ ReceiveStart \/ Start \/ Initiate \/ Process \/ LetStartEnds
              \/ Peek \/ ReceiveError \/ ReceiveGoBL \/ ReceiveLater \/ ReceiveBootToMFFirst
              \/ ReceiveBootToMF \/ SelfSend \/ SelfSendGivesUp \/ ReceiveDrawn
GuiStep == GuiReceive \/ GuiCycle \/ Expired \/ PollLowBattery \/ PollDownload \/ PollUpdating
             \/ PollShipping \/ TapLink \/ TapDownload \/ TapToBoot \/ TapNothing \/ GuiSend \/ GuiSendGivesUp

\* Nothing but Restart is enabled outside the bootloader: Leave sets gpc to the receive call
\* that waits for the first event.
Next == BootStep \/ GuiStep \/ Restart

Spec == Init /\ [][Next]_vars

\* Both tasks are scheduled; letStart ends; a screen that stays long enough times out, unless
\* its polls start its time again and again.
Fairness ==
  /\ WF_vars(BootStep) /\ WF_vars(GuiStep)
  /\ WF_vars(LetStartEnds)
  /\ \/ []<>kept
     \/ SF_vars(Expired)

FairSpec == Spec /\ Fairness

-----------------------------------------------------------------------------
(* Properties. *)

\* Once the user has asked to stay in the bootloader, the device goes on to the MF only
\* through EXIT or after an update was installed, whatever timeouts and buttons still have
\* events in the queue (bootTask, cases BOOT_TO_MF and LATER_CLICKED).
StayIfAsked ==
  [][bpc' = "mf" /\ bpc # "mf" /\ force =>
       bpc = "peekMF" \/ (bootQ # <<>> /\ Head(bootQ) = "later")]_vars

\* SCREEN_DRAWN is never early: when the GUI task sends it, the last progress there will be
\* is on the display, drawn after the switch to the updating screen (screenUpdating_poll sends
\* it one poll after the one that asked for the drawing).
DrawnMeansShown ==
  out = "drawn" => screen = "UPDATING" /\ ~full /\ last \in {"full", "none"}

\* The boot task always comes back to its queue or leaves: not waiting for a GUI that waits
\* for it, and not for room in the queue that it alone empties.
BootTaskReturns == []<>(bpc \in Gone \cup {"wait"})

\* No screen that has a timeout stays for ever unless its own polls start its time again and
\* again: otherwise there is a switch, if only to the same screen, or a new start, or the
\* device leaves, even if an event that should have replaced the screen was dropped
\* (checkScreenTimeout has a case for each of these screens).
Timed == {"WAIT", "LOW_BATTERY", "INFO", "DOWNLOAD", "UPDATING", "ERROR", "FORCE"}
ScreensTimeOut ==
  []<>(~cycling \/ full \/ kept \/ screen \notin Timed \/ bpc \in Gone \cup {"start", "run"})

\* bootApp_peekForEvent returns "false If timeout has expired and event still doesn't exist in
\* bootloader queue" (boot_app.h:36): before a jump the boot task waits for SCREEN_DRAWN as
\* long as it may take, whatever else is in the queue.
PeekWaits ==
  [][Peek => bootQ = <<>> \/ Head(bootQ) = "drawn"]_vars

-----------------------------------------------------------------------------
(* Why SCREEN_DRAWN is never early: the updating screen has a last progress  *)
(* only once it was drawn, and the GUI task waits in bootApp_sendEvent while *)
(* it has an event.                                                          *)

EventInv ==
  /\ TypeOK
  /\ gpc = "send" => out # "none" /\ back # "none"
  /\ gpc # "send" => out = "none"
  /\ initiated => progress # "unset"
  /\ last # "reset" => screen = "UPDATING" /\ ~full
  /\ out = "drawn" => last \in {"full", "none"}
=============================================================================
