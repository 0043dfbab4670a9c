------------------------------- MODULE Screens -------------------------------
(***************************************************************************)
(* The screens of the GUI task in time: what is on the panel, which        *)
(* buttons react to a finger, when a screen times out, and how the battery *)
(* screen, the download screen and the screen that switches off go on by   *)
(* themselves.                                                             *)
(*                                                                         *)
(* Modelled code: gui/task_gui.c, gui/gui_core.c, gui/screens/*.c, and the *)
(* event loop of boot_app.c as their partner.  BootFlow looks at letStart, *)
(* BootEvents at the two queues and the screen of an update, FlashUpdate   *)
(* at its progress.  The unit of time is a cycle of the GUI task, 100 ms;  *)
(* a time stamp is kept as its age.  A step of the GUI task ends where it  *)
(* uses a variable of the boot task.                                       *)
(***************************************************************************)
EXTENDS Integers, Sequences, Widgets

CONSTANTS
  Limit,      \* setScreenTimeoutMs of the screens that call it
  Standby,    \* SCREEN_ERROR_TIMEOUT_SEC
  Hold,       \* CATCH_GO_BL_TIME_MS
  Attempt,    \* ATTEMPT_TIMEOUT_MS
  Levels,     \* levels of the battery
  Enough,     \* BATTERY_LEVEL_TO_DOWNLOAD
  Percent,    \* 100, and all of a download
  Step,       \* PERCENT_STEP_TO_UPDATE_PAGE
  ByZero,     \* what the processor has for a division by zero
  Points,     \* where the user touches the panel
  AttemptsBeforeTurnOff,        \* ATTEMPTS_BEFORE_TURN_OFF
  BootLen, GuiLen,          \* lengths of the queues
  MaxPresses, MaxChanges    \* bounds on what the user and the world do

\* No screen has a longer limit than the one that waits: five minutes, like the download; the
\* others have a minute at most.
ASSUME TimeAssumption ==
  /\ DOMAIN Limit = {"WAIT", "LOW_BATTERY", "SHIPPING", "DOWNLOAD", "ERROR", "FORCE"}
  /\ Limit["WAIT"] \in Nat /\ \A s \in DOMAIN Limit : Limit[s] \in 1..Limit["WAIT"]
  /\ Standby \in 1..(Limit["ERROR"] - 1) /\ Hold \in Nat \ {0} /\ Attempt \in Nat \ {0}

ASSUME BoundAssumption ==
  /\ Levels \subseteq Nat /\ Enough \in Nat
  /\ Percent \in Nat \ {0} /\ Step \in Nat /\ ByZero \in 0..Percent /\ AttemptsBeforeTurnOff \in Nat
  /\ BootLen \in Nat \ {0} /\ GuiLen \in Nat \ {0} /\ MaxPresses \in Nat /\ MaxChanges \in Nat

Screen == {"WAIT", "LOW_BATTERY", "INFO", "MORE_INFO", "SHIPPING", "DOWNLOAD",
           "ERROR", "FORCE"}
BootEvent == {"showError", "bootToMF", "startAgain", "downloaded", "goBL", "later"}
Nowhere == [x |-> 0, y |-> 0]
NoTouch == [state |-> "none", at |-> Nowhere]   \* a touch that is over has no place

\* As long as the screen that waits and the one that switches off may take.
Patience == Limit["WAIT"] + 1 + (AttemptsBeforeTurnOff + 1) * Attempt

VARIABLES
  age,                 \* cycles since the time in screen_time_ms
  wrapped,             \* the tick counter has wrapped since then
  limit,               \* time_before_standby_ms
  bootQ, guiQ,
  \* boot task
  bpc, fresh, force, allowed, valid, nfc,
  \* GUI task
  gpc, cycling, screen,
  first, full,         \* first_switch_completed, full_update_required
  frame, panel,        \* the framebuffer, and the e-paper panel
  pressed,             \* buttons whose flag is set
  lastTouch, touch,    \* last_touch of task_gui.c, current_touch of gui_core.c
  low, ship, error, download, caught,   \* static variables of the screens
  \* the user and the world
  finger, level, charger, fw, assets, presses, changes,
  \* history
  lost,                \* an event for the GUI task was dropped
  taps, nudged,        \* handlers of released buttons since the last look at the touch panel;
                       \* the screen was polled again with a release of that look
  idle                 \* cycles that nobody has done anything for

timeVars == <<age, wrapped, limit>>
bootVars == <<bpc, fresh, force, allowed, valid>>
pageVars == <<first, full, frame, panel, pressed>>
touchVars == <<lastTouch, touch, taps, nudged>>
staticVars == <<low, ship, error, download, caught>>
fingerVars == <<finger, presses>>
worldVars == <<level, charger, fw, assets, changes>>
queues == <<bootQ, guiQ, lost>>
guiVars == <<gpc, cycling, screen, pageVars, touchVars, staticVars>>
vars == <<timeVars, queues, bootVars, nfc, guiVars, fingerVars, worldVars, idle>>

Touch == [state : {"none", "pressed", "released"}, at : Points \cup {Nowhere}]
Page == [of : Screen \cup {"blank"}, boxes : SUBSET DOMAIN Button, down : SUBSET DOMAIN Button,
         batt : [level : Levels \cup {100}, charging : BOOLEAN]]
Loaded == -1..Percent   \* -1: no download, and a total of zero

FlagType ==
  /\ wrapped \in BOOLEAN /\ lost \in BOOLEAN /\ fresh \in BOOLEAN /\ force \in BOOLEAN
  /\ allowed \in BOOLEAN /\ valid \in BOOLEAN /\ nfc \in BOOLEAN /\ cycling \in BOOLEAN
  /\ first \in BOOLEAN /\ full \in BOOLEAN /\ nudged \in BOOLEAN /\ charger \in BOOLEAN

QueueType ==
  /\ bootQ \in Seq(BootEvent) /\ Len(bootQ) <= BootLen
  /\ guiQ \in Seq(Screen \cup {"process"}) /\ Len(guiQ) <= GuiLen

PlaceType ==
  /\ bpc \in {"wait", "run", "gone"} /\ gpc \in {"receive", "check", "poll", "off"}
  /\ screen \in Screen

PageType == frame \in Page /\ panel \in Page /\ pressed \subseteq DOMAIN Button

TouchType ==
  /\ lastTouch \in Touch /\ touch \in Touch /\ taps \in 0..2
  /\ finger \in Points \cup {Nowhere} /\ presses \in 0..MaxPresses

StaticType ==
  /\ low \in [level : Levels \cup {100}, started : BOOLEAN]
  /\ ship \in [attempts : 0..AttemptsBeforeTurnOff, age : 0..Attempt]
  /\ error \in {"counting", "standby"} /\ caught \in 0..Hold
  /\ download \in [mode : {"init", "none", "fw", "assets"}, fw : Loaded, assets : Loaded,
                   percent : 0..Percent]

WorldType ==
  /\ level \in Levels /\ fw \in Loaded /\ assets \in Loaded /\ changes \in 0..MaxChanges

TimeType == age \in Nat /\ limit \in Nat /\ idle \in 0..(Patience + 1)

TypeOK ==
  /\ FlagType /\ QueueType /\ PlaceType /\ PageType /\ TouchType /\ StaticType /\ WorldType
  /\ TimeType

Init ==
  /\ age = 0 /\ wrapped = FALSE /\ limit = Limit["WAIT"]
  /\ bootQ \in {<<"startAgain">>, <<"showError">>} /\ guiQ = <<>>
  /\ bpc = "wait" /\ fresh = TRUE /\ force = FALSE /\ allowed \in BOOLEAN
  /\ valid = FALSE /\ nfc = FALSE
  /\ gpc = "receive" /\ cycling = FALSE /\ screen = "WAIT" /\ first = FALSE /\ full = TRUE
  /\ frame = [of |-> "blank", boxes |-> {}, down |-> {}, batt |-> [level |-> 100, charging |-> FALSE]]
  /\ panel = frame /\ pressed = {}
  /\ lastTouch = NoTouch /\ touch = NoTouch
  /\ low = [level |-> 100, started |-> FALSE] /\ ship = [attempts |-> 0, age |-> 0]
  /\ error = "counting" /\ caught = Hold
  /\ download = [mode |-> "init", fw |-> 0, assets |-> 0, percent |-> 0]
  /\ finger = Nowhere /\ level \in Levels /\ charger = FALSE
  /\ fw = -1 /\ assets = -1 /\ presses = 0 /\ changes = 0
  /\ lost = FALSE /\ taps = 0 /\ nudged = FALSE /\ idle = 0

-----------------------------------------------------------------------------
(* Time and queues. *)

Older(a, most) == IF a < most THEN a + 1 ELSE most

Refresh == age' = 0 /\ wrapped' = FALSE
KeepTime == UNCHANGED <<age, wrapped>>

\* Mutant: the wrap of the tick counter is forgotten, and the difference taken for nothing.
PassedNoWrap == IF wrapped THEN 0 ELSE age

\* getPassedTimeMs: 0xFFFFFFFF - start + now is one tick short when the counter has wrapped.
Passed == IF wrapped THEN age - 1 ELSE age

\* taskGui_sendEvent drops the event when the queue stays full; "none" is no event.
ToGui(e) ==
  /\ guiQ' = IF e = "none" \/ Len(guiQ) = GuiLen THEN guiQ ELSE Append(guiQ, e)
  /\ lost' = (lost \/ (e # "none" /\ Len(guiQ) = GuiLen))

\* Mutant: the queue is taken for one without an end.
WithEventUnbounded(q, e) == IF e = "none" THEN q ELSE Append(q, e)

\* bootApp_sendEvent waits for a second: as if the boot task had been faster, or the event is
\* dropped.
WithEvent(q, e) == IF e = "none" \/ Len(q) = BootLen THEN q ELSE Append(q, e)

-----------------------------------------------------------------------------
(* The boot task: bootTask of boot_app.c. *)

Receive(e) == bpc = "wait" /\ bootQ # <<>> /\ Head(bootQ) = e /\ bootQ' = Tail(bootQ)

\* turnOffNfc, and the flags that letStart clears.
Start ==
  /\ \E e \in {"startAgain", "downloaded"} : Receive(e) /\ fresh' = (fresh \/ e = "startAgain")
  /\ bpc' = "run" /\ nfc' = FALSE /\ valid' = FALSE
  /\ UNCHANGED <<guiQ, lost, force, allowed, timeVars, guiVars, fingerVars, worldVars>>

\* The chunks that bootloader_tryUpdateProgress reports, in an update or when an image is
\* erased later (bound: one, while a release waits in current_touch; BootEvents has them flood
\* the queue).
Process ==
  /\ bpc = "run" /\ guiQ = <<>> /\ touch.state = "released" /\ ToGui("process")
  /\ UNCHANGED <<bootQ, bootVars, nfc, timeVars, guiVars, fingerVars, worldVars>>

Report(e) == ToGui(e) /\ bpc' = "wait" /\ fresh' = FALSE

\* Mutant: letStart ends without a word when there was nothing to do.
StartFailsSilently ==
  /\ bpc = "run" /\ \E e \in {"LOW_BATTERY", "ERROR", "none"} : Report(e)
  /\ UNCHANGED <<bootQ, force, allowed, valid, nfc, timeVars, guiVars, fingerVars, worldVars>>

StartFails ==
  /\ bpc = "run"
  /\ \E e \in {"LOW_BATTERY", "ERROR", "WAIT"} : Report(e)
  /\ UNCHANGED <<bootQ, force, allowed, valid, nfc, timeVars, guiVars, fingerVars, worldVars>>

\* readyToJumpToMFhandler, unless an update passed: whoever allowed one sees that there is none
\* (SHOW_ERROR_ALWAYS).  The download status is never TOO_LOW_BATTERY_LEVEL here.
StartReady ==
  /\ bpc = "run" /\ valid' = TRUE
  /\ Report(IF ~allowed THEN "FORCE" ELSE IF fresh /\ force THEN "WAIT" ELSE "ERROR")
  /\ UNCHANGED <<bootQ, force, allowed, nfc, timeVars, guiVars, fingerVars, worldVars>>

\* An update that passed, or one for the BS: BootEvents shows the last screen before the jump.
StartLeaves ==
  /\ bpc = "run" /\ bpc' = "gone"
  /\ UNCHANGED <<queues, fresh, force, allowed, valid, nfc, timeVars, guiVars, fingerVars, worldVars>>

ShowError ==
  /\ Receive("showError") /\ ToGui("ERROR")
  /\ UNCHANGED <<bootVars, nfc, timeVars, guiVars, fingerVars, worldVars>>

GoBL ==
  /\ Receive("goBL") /\ ToGui("WAIT") /\ force' = TRUE /\ allowed' = TRUE
  /\ UNCHANGED <<bpc, fresh, valid, nfc, timeVars, guiVars, fingerVars, worldVars>>

\* LATER_CLICKED after a forced download, BOOT_TO_MF without one: to the MF if it is valid.
ToMF ==
  /\ \/ Receive("later") /\ force
     \/ Receive("bootToMF") /\ ~fresh /\ ~force
  /\ IF valid THEN bpc' = "gone" /\ UNCHANGED <<guiQ, lost>> ELSE ToGui("WAIT") /\ UNCHANGED bpc
  /\ UNCHANGED <<fresh, force, allowed, valid, nfc, timeVars, guiVars, fingerVars, worldVars>>

Stay ==
  /\ \/ Receive("later") /\ ~force
     \/ Receive("bootToMF") /\ ~fresh /\ force
  /\ ToGui("WAIT")
  /\ UNCHANGED <<bootVars, nfc, timeVars, guiVars, fingerVars, worldVars>>

BootToMFFirst ==
  /\ bpc = "wait" /\ bootQ # <<>> /\ Head(bootQ) = "bootToMF" /\ fresh
  /\ bootQ' = Append(Tail(bootQ), "startAgain")
  /\ UNCHANGED <<guiQ, lost, bootVars, nfc, timeVars, guiVars, fingerVars, worldVars>>

\* What letStart does to the download of a firmware it has read or erased: it is cleared, or
\* (partialDownload_resetProgress, external) begins again.
ClearDownload ==
  /\ bpc = "run" /\ fw' \in {-1, 0} /\ fw' < fw
  /\ UNCHANGED <<queues, bootVars, nfc, timeVars, guiVars, fingerVars, level, charger, assets, changes>>

StepOfBootTask ==
  \/ Start \/ Process \/ StartFails \/ StartReady \/ StartLeaves \/ ShowError \/ GoBL \/ ToMF
  \/ Stay \/ BootToMFFirst \/ ClearDownload

BootTask == StepOfBootTask /\ idle' = 0

-----------------------------------------------------------------------------
(* The GUI task: an event, or a look at the touch panel after a cycle without one. *)

\* The table of the screen that waits depends on what the boot task found, at each use.
TableOf(s) == IF s = "WAIT" THEN (IF valid THEN "started" ELSE "noMF") ELSE s

Battery == [level |-> level, charging |-> charger]

\* paint_clear and the switch function of the screen.  SHIPPING shows no battery: its static
\* variables keep what they had.
DrawPage(s) ==
  LET bs == Boxes(ButtonsOf(TableOf(s)))
  IN frame' = [of |-> s, boxes |-> bs, down |-> {},
               batt |-> IF s = "SHIPPING" THEN frame.batt ELSE Battery]

\* The static variables that the switch functions reset, each its own; those of the other
\* screens are not read before their turn comes.
ResetStatics ==
  /\ low' = [low EXCEPT !.level = 100]
  /\ ship' = [ship EXCEPT !.age = 0]
  /\ error' = "counting"
  /\ download' = [download EXCEPT !.percent = 0]

\* The screens of the information keep the timeout of the screen before.
NewLimit(s) == IF s \in DOMAIN Limit THEN Limit[s] ELSE limit

\* guiCore_switchScreen for a screen that is drawn: the touch is forgotten.  The flags that its
\* buttons have from the last time are dropped by the first poll, before the panel shows them:
\* they are dropped here at once.
SwitchDrawn(s) ==
  /\ first' = TRUE /\ full' = TRUE /\ DrawPage(s) /\ ResetStatics
  /\ touch' = NoTouch /\ pressed' = {}
  /\ UNCHANGED caught

\* Mutant: the touch is kept.
SwitchKeepsTouch(s) ==
  /\ first' = TRUE /\ full' = TRUE /\ DrawPage(s) /\ ResetStatics
  /\ pressed' = {} /\ UNCHANGED <<caught, touch>>

SwitchPage(s) == SwitchDrawn(s)

\* The screen that waits for a forced download is not drawn: it looks at its secret area.
SwitchForce ==
  LET bs == ButtonsOf("FORCE")
  IN /\ pressed' = PressedAfter(bs, touch, pressed)
     /\ caught' = IF Called(bs, touch, pressed) # {} THEN 0 ELSE caught
     /\ ResetStatics
     /\ UNCHANGED <<first, full, frame, touch>>

ReceiveSwitch ==
  /\ gpc = "receive" /\ guiQ # <<>> /\ Head(guiQ) # "process"
  /\ LET s == Head(guiQ)
     IN /\ screen' = s /\ Refresh /\ limit' = NewLimit(s)
        /\ IF s = "FORCE" THEN SwitchForce ELSE SwitchPage(s)
  /\ guiQ' = Tail(guiQ) /\ gpc' = "check" /\ cycling' = TRUE
  /\ UNCHANGED <<bootQ, lost, bootVars, nfc, panel, lastTouch, taps, nudged, fingerVars,
                 worldVars>>

ReceiveProcess ==
  /\ gpc = "receive" /\ guiQ # <<>> /\ Head(guiQ) = "process"
  /\ guiQ' = Tail(guiQ) /\ gpc' = "check" /\ nudged' = TRUE
  /\ UNCHANGED <<timeVars, bootQ, lost, bootVars, nfc, cycling, screen, pageVars, lastTouch, touch,
                 taps, staticVars, fingerVars, worldVars>>

(* The user (external) touches the panel at any time.  The events of the touch controller wait *)
(* in its queue until checkTouchs reads them: what has happened since then is chosen here.      *)

Down(p) == [up |-> FALSE, at |-> p]
Up(p) == [up |-> TRUE, at |-> p]

\* checkTouchs: a release is kept for this look only, and hides what follows it.
AddTouch(t, event) ==
  IF event.up THEN [state |-> "released", at |-> event.at]
  ELSE IF t.state # "released" THEN [state |-> "pressed", at |-> event.at] ELSE t

Kept == IF lastTouch.state = "released" THEN NoTouch ELSE lastTouch

CheckTouchs(read) ==
  /\ lastTouch' = read /\ touch' = read
  /\ taps' = 0 /\ nudged' = FALSE

LeftAlone ==
  /\ finger = Nowhere /\ ~charger /\ screen # "MORE_INFO" /\ bpc = "wait" /\ bootQ = <<>>

Untouched ==
  /\ CheckTouchs(Kept) /\ UNCHANGED fingerVars
  /\ idle' = IF LeftAlone THEN Older(idle, Patience + 1) ELSE 0

Lift ==
  /\ finger # Nowhere /\ CheckTouchs(AddTouch(Kept, Up(finger))) /\ finger' = Nowhere /\ idle' = 0
  /\ UNCHANGED presses

\* The finger comes down, or moves, or comes down somewhere else; or it is gone again
\* (bound: it comes down where a button is; where it leaves, or stays too long, none may be).
Press(p) ==
  /\ idle' = 0 /\ (presses < MaxPresses \/ screen = "FORCE")
  /\ presses' = IF screen = "FORCE" THEN presses ELSE presses + 1
  /\ \E b \in ButtonsOf(TableOf(screen)) : Hits(b, p)
  /\ \/ CheckTouchs(AddTouch(Kept, Down(p))) /\ finger' = p
     \/ CheckTouchs(AddTouch(AddTouch(Kept, Down(p)), Up(p))) /\ finger' = Nowhere
     \/ /\ finger # Nowhere /\ finger' = p
        /\ CheckTouchs(AddTouch(AddTouch(Kept, Up(finger)), Down(p)))

Cycle ==
  /\ gpc = "receive" /\ guiQ = <<>> /\ cycling
  /\ age' = age + 1 /\ caught' = Older(caught, Hold)
  /\ ship' = [ship EXCEPT !.age = IF screen = "SHIPPING" THEN Older(@, Attempt) ELSE @]
  /\ Untouched \/ Lift \/ \E p \in Points : Press(p)
  /\ gpc' = "check"
  /\ UNCHANGED <<wrapped, limit, queues, bootVars, nfc, cycling, screen, pageVars, low, error,
                 download, worldVars>>

(* guiCore_checkTimeout and checkScreenTimeout. *)

Checked == (first /\ ~full) \/ screen = "FORCE"
Expires == Checked /\ Passed >= limit

InTime ==
  /\ gpc = "check" /\ ~Expires /\ gpc' = "poll"
  /\ UNCHANGED <<timeVars, queues, bootVars, nfc, cycling, screen, pageVars, touchVars, staticVars,
                 fingerVars, worldVars>>

\* Mutant: the timeout of the screen that shows the download leads nowhere.
TimeoutToBootForgets ==
  /\ bootQ' = WithEvent(bootQ, CASE screen = "FORCE" -> "bootToMF"
                                 [] OTHER -> "none")
  /\ UNCHANGED <<guiQ, lost>>

TimeoutToBoot ==
  /\ bootQ' = WithEvent(bootQ, CASE screen = "FORCE" -> "bootToMF"
                                 [] screen = "DOWNLOAD" -> "downloaded"
                                 [] OTHER -> "none")
  /\ UNCHANGED <<guiQ, lost>>

Expire ==
  /\ gpc = "check" /\ Expires /\ screen # "ERROR"
  /\ IF screen \in {"WAIT", "LOW_BATTERY", "INFO"}
     THEN ToGui("SHIPPING") /\ UNCHANGED bootQ
     ELSE TimeoutToBoot
  /\ Refresh /\ gpc' = "poll"
  /\ UNCHANGED <<limit, bootVars, nfc, cycling, screen, pageVars, touchVars, staticVars,
                 fingerVars, worldVars>>

\* endOfWork_goSleep: the device is off until the button, NFC or the charger wakes it.
GoSleep ==
  /\ gpc = "check" /\ Expires /\ screen = "ERROR" /\ gpc' = "off"
  /\ UNCHANGED <<timeVars, queues, bootVars, nfc, cycling, screen, pageVars, touchVars, staticVars,
                 fingerVars, worldVars>>

-----------------------------------------------------------------------------
(* guiCore_poll: the buttons of the screen, and what is drawn. *)

Buttons == ButtonsOf(TableOf(screen))
After == PressedAfter(Buttons, touch, pressed)
Changed == {b \in Buttons : (b \in pressed) # (b \in After)}

\* The handler that runs, named by what it does.
Act == LET bs == Called(Buttons, touch, pressed)
       IN IF bs = {} THEN "none" ELSE Button[CHOOSE b \in bs : TRUE].act

GuiEventOf(act) ==
  CASE act = "download" -> IF level >= Enough THEN "INFO" ELSE "LOW_BATTERY"
    [] act \in Screen -> act
    [] OTHER -> "none"

BootEventOf(act) ==
  CASE act = "later" -> "later" [] act = "continue" -> "bootToMF" [] OTHER -> "none"

\* What the screen itself tells the boot task comes before what its button does.
Handle(event) ==
  /\ ToGui(GuiEventOf(Act))
  /\ bootQ' = WithEvent(WithEvent(bootQ, event), BootEventOf(Act))
  /\ nfc' = (nfc \/ (Act = "download" /\ level >= Enough))
  /\ taps' = IF Act # "none" /\ touch.state = "released" THEN (IF taps < 2 THEN taps + 1 ELSE 2)
             ELSE taps

\* paint_drawButton covers the button that was in its place.
Redrawn(page, bs) ==
  LET covered == {a \in page.boxes : \E b \in bs : SamePlace(a, b)}
  IN [page EXCEPT !.boxes = (@ \ covered) \cup bs, !.down = (@ \ covered) \cup (bs \cap After)]

\* Mutant: the panel is drawn when the screen is new only.
ShowNewOnly(page, isNew) ==
  /\ frame' = page /\ full' = FALSE
  /\ IF full THEN panel' = page ELSE UNCHANGED panel

\* The framebuffer goes to the panel when something said that it changed.
Show(page, isNew) ==
  /\ frame' = page /\ full' = FALSE
  /\ IF isNew \/ full THEN panel' = page ELSE UNCHANGED panel

\* drawBatteryLevel, which every page but one ends with.
WithBattery(page) == [page EXCEPT !.batt = Battery]
BatteryChanged == frame.batt # Battery

Polls(s) == gpc = "poll" /\ screen = s /\ gpc' = "receive" /\ pressed' = After
UnchangedByPoll == UNCHANGED <<bootVars, cycling, screen, first, lastTouch, touch, nudged, fingerVars,
                               worldVars>>

\* The first button that changed and those after it are drawn.
DrawnByWait ==
  LET t == Table[TableOf("WAIT")]
  IN {t[i] : i \in {j \in DOMAIN t : \E k \in 1..j : t[k] \in Changed}}

PollWait ==
  /\ Polls("WAIT") /\ Handle("none")
  /\ Show(WithBattery(Redrawn(frame, DrawnByWait)), Changed # {} \/ BatteryChanged)
  /\ UNCHANGED <<timeVars, staticVars>> /\ UnchangedByPoll

PollInfo ==
  /\ (Polls("INFO") \/ Polls("MORE_INFO")) /\ Handle("none")
  /\ Show(WithBattery(Redrawn(frame, Boxes(Changed))), Changed # {} \/ BatteryChanged)
  /\ UNCHANGED <<timeVars, staticVars>> /\ UnchangedByPoll

\* The boot task starts again once when the battery has more than is needed; a charger keeps
\* the screen on.
PollLowBattery ==
  LET moved == low.level # level
  IN /\ Polls("LOW_BATTERY")
     /\ Handle(IF moved /\ level > Enough /\ ~low.started THEN "startAgain" ELSE "none")
     /\ low' = [level |-> level, started |-> IF moved THEN level > Enough ELSE low.started]
     /\ Show(WithBattery(Redrawn(frame, Boxes(Changed))), Changed # {} \/ BatteryChanged \/ moved)
     /\ IF charger THEN Refresh ELSE KeepTime
     /\ UNCHANGED <<limit, ship, error, download, caught>> /\ UnchangedByPoll

\* Half a minute after the error the button is gone, and the next look at the timeout sends
\* the device to sleep.
PollError ==
  LET sleepy == error = "counting" /\ Passed >= Standby
      moved == Changed # {} \/ BatteryChanged
      page == WithBattery(frame)
  IN /\ Polls("ERROR") /\ Handle("none")
     /\ Show(IF sleepy THEN [page EXCEPT !.boxes = {}, !.down = {}]
             ELSE IF moved THEN Redrawn(page, {"continue"}) ELSE page, sleepy \/ moved)
     /\ IF sleepy THEN limit' = 0 /\ error' = "standby" ELSE UNCHANGED <<limit, error>>
     /\ KeepTime /\ UNCHANGED <<low, ship, download, caught>> /\ UnchangedByPoll

(* screen_download.c *)

\* progressToPercent: small steps are not shown.  The total is not looked at: it is zero when
\* a download was cleared since it was last looked at.
ToPercent(loaded, last) ==
  LET new == IF loaded = -1 THEN ByZero ELSE loaded
  IN IF new < last \/ new >= Percent \/ new >= last + Step THEN new ELSE last

\* updateCurrentDownload: what moved since the last look is what is being downloaded.
CurrentDownload ==
  LET begin == IF download.mode = "init"
               THEN [download EXCEPT !.mode = "none", !.fw = fw, !.assets = assets] ELSE download
      mode == IF begin.assets # assets THEN "assets" ELSE IF begin.fw # fw THEN "fw" ELSE begin.mode
      percent == CASE mode = "fw" -> ToPercent(fw, begin.percent)
                   [] mode = "assets" -> ToPercent(assets, begin.percent)
                   [] OTHER -> begin.percent
  IN [mode |-> mode, fw |-> fw, assets |-> assets, percent |-> percent]

\* The kind of the download changed, in between at least.
ModeSwitched ==
  /\ download.mode # "init"
  /\ \/ download.fw # fw /\ download.mode # "fw"
     \/ download.assets # assets /\ (download.mode # "assets" \/ download.fw # fw)

PollDownload ==
  LET moved == CurrentDownload.percent # download.percent \/ ModeSwitched
  IN /\ Polls("DOWNLOAD")
     /\ download' = CurrentDownload
     /\ Handle(IF moved /\ download'.percent >= Percent /\ download'.mode = "fw"
               THEN "downloaded" ELSE "none")
     /\ Show(WithBattery(frame), moved \/ Changed # {} \/ BatteryChanged)
     /\ IF moved THEN Refresh ELSE KeepTime
     /\ UNCHANGED <<limit, low, ship, error, caught>> /\ UnchangedByPoll

\* screenShipping_poll: while the charger is off, the device asks to be switched off every
\* second.  It is off when the request is accepted, or after the last refusal by the button
\* controller.
PollShipping ==
  LET refused == ship.attempts + 1
      asks == ship.age = Attempt /\ ~charger
  IN /\ gpc = "poll" /\ screen = "SHIPPING"
     /\ \E accepted \in BOOLEAN :
          /\ gpc' = IF asks /\ (accepted \/ refused > AttemptsBeforeTurnOff) THEN "off" ELSE "receive"
          /\ ship' = [attempts |-> IF gpc' = "receive" /\ asks THEN refused ELSE ship.attempts,
                      age |-> IF ship.age = Attempt THEN 0 ELSE ship.age]
     /\ Show(frame, FALSE)
     /\ UNCHANGED <<timeVars, queues, nfc, pressed, taps, low, error, download, caught>>
     /\ UnchangedByPoll

\* screenForceDownload_poll: nothing is drawn.  A release sets the flag of the area, too.
Grabs == Called(Buttons, touch, pressed) # {}
Held == "secret" \in After /\ (IF Grabs THEN 0 ELSE caught) >= Hold

PollForce ==
  /\ gpc = "poll" /\ screen = "FORCE" /\ gpc' = "receive"
  /\ caught' = IF Grabs THEN 0 ELSE caught
  /\ IF Held \/ Grabs THEN Refresh ELSE KeepTime
  /\ pressed' = IF Held THEN After \ {"secret"} ELSE After
  /\ bootQ' = WithEvent(bootQ, IF Held THEN "goBL" ELSE "none")
  /\ UNCHANGED <<limit, guiQ, lost, nfc, full, frame, panel, taps, low, ship, error, download>> /\ UnchangedByPoll

TurnOfGuiTask ==
  \/ ReceiveSwitch \/ ReceiveProcess \/ InTime \/ Expire \/ GoSleep \/ PollWait \/ PollInfo
  \/ PollLowBattery \/ PollError \/ PollDownload \/ PollShipping \/ PollForce

GuiTask == Cycle \/ (TurnOfGuiTask /\ UNCHANGED idle)

-----------------------------------------------------------------------------
(* The battery and the phone (external).  What they do counts when a poll function looks at     *)
(* it next, and is chosen then.                                                                *)

Change ==
  /\ changes < MaxChanges /\ changes' = changes + 1
  /\ UNCHANGED <<timeVars, queues, bootVars, nfc, guiVars, fingerVars>>

Charge == gpc = "poll" /\ (\E l \in Levels \ {level} : level' = l) /\ Change /\ UNCHANGED <<charger, fw, assets>>
Plug == gpc = "poll" /\ charger' = ~charger /\ Change /\ UNCHANGED <<level, fw, assets>>

\* A chunk adds to a download; a complete one may start again.
Loads(old, new) == new # old /\ (new > old \/ (old = Percent /\ new = 0))

Fetch ==
  /\ nfc /\ gpc = "poll" /\ Change
  /\ \/ \E n \in 0..Percent : Loads(fw, n) /\ fw' = n /\ UNCHANGED assets
     \/ \E n \in 0..Percent : Loads(assets, n) /\ assets' = n /\ UNCHANGED fw
  /\ UNCHANGED <<level, charger>>

\* The tick counter wraps, once in 49 days: it did in the last cycle.
Wrap ==
  /\ gpc = "check" /\ age > 0 /\ ~wrapped /\ wrapped' = TRUE /\ changes < MaxChanges
  /\ changes' = changes + 1
  /\ UNCHANGED <<age, limit, queues, bootVars, nfc, guiVars, fingerVars, level, charger, fw, assets>>

World == (Charge \/ Plug \/ Fetch \/ Wrap) /\ idle' = 0

On == bpc # "gone" /\ gpc # "off"

Next == On /\ ~lost /\ (BootTask \/ GuiTask \/ World)

Spec == Init /\ [][Next]_vars

-----------------------------------------------------------------------------
(* Properties. *)

Quiet == gpc = "receive" /\ guiQ = <<>> /\ bpc = "wait" /\ screen # "FORCE"

\* What the poll functions say about the need to draw is enough: whenever the GUI task waits
\* for an event, the panel shows the framebuffer, though three flags, the switch functions and
\* the results of the poll functions decide together whether it is sent (guiCore_poll).
PanelUpToDate == gpc = "receive" /\ first => panel = frame

\* When all is quiet the user sees the buttons that react and no other, each drawn as pressed
\* when its flag is set: although the buttons of the screen that waits depend on a flag of the
\* boot task, which changes it while the page is on the panel (screen_waitUpdate.c).
ReactsAsDrawn ==
  Quiet /\ first /\ limit # 0 =>
    /\ panel.boxes = Boxes(Buttons)
    /\ panel.down = pressed \cap panel.boxes

\* One look at the touch panel runs one handler of a released button at most, on whatever
\* screen it leads to, unless an event that switches no screen has the touch polled again.
TapActsOnce == taps <= 1 \/ nudged

\* A timeout fires at its time: never early, and at most a cycle late, also when the tick
\* counter wraps (getPassedTimeMs, checkScreenTimeout).
TimeoutOnTime ==
  [][gpc = "check" /\ Checked /\ gpc' # "check" =>
       LET fired == age' < age \/ gpc' = "off"
       IN (fired => age >= limit) /\ (age > limit => fired)]_vars

\* A device that is left alone switches itself off or turns to the boot task, for the MF or for
\* a new start, by whatever screens it gets there and within the time of two of them (a complete
\* download whose last step was missed, or one that was cleared, counts on a timeout), unless it
\* is charged, or shows the QR code, whose timeout leads nowhere (checkScreenTimeout).
TurnsOff == idle <= Patience

-----------------------------------------------------------------------------
(* What the proofs of these properties (ScreensProofs) rest on. *)

\* A page that is drawn anew is shown by its first poll.
PanelInv ==
  /\ first /\ (gpc = "receive" \/ screen = "FORCE") => ~full
  /\ first /\ ~full => panel = frame

\* What a flag and a place in the queue say about the page that is drawn: it has the buttons of
\* its table, unless letStart runs or another page is about to be drawn.
Switches(q) == \E i \in DOMAIN q : q[i] # "process"
Settled == bpc = "wait" /\ ~Switches(guiQ) /\ ~lost /\ first /\ screen # "FORCE" /\ limit # 0

DrawnInv ==
  /\ lost => guiQ # <<>>
  /\ Settled =>
       /\ frame.of = screen /\ frame.boxes = Boxes(Buttons)
       /\ frame.down = pressed \cap frame.boxes

\* A release acts once, and is forgotten when a page is drawn.
TapInv ==
  ~nudged =>
    /\ taps <= 1
    /\ gpc \in {"check", "poll"} /\ touch.state = "released" /\ screen # "FORCE" => taps = 0

\* How old a screen gets.
AgeInv ==
  /\ limit <= Limit["WAIT"]
  /\ cycling /\ screen # "FORCE" => first
  /\ ~cycling \/ (screen # "FORCE" /\ full) => age = 0
  /\ age <= Limit["WAIT"] + (IF gpc \in {"check", "off"} THEN 1 ELSE 0)

\* What a device that is left alone shows and does not get: it waits for its first screen, then
\* for the screen that switches off, and that one counts its attempts.
Stopped ==
  /\ download.mode # "init" /\ download.fw = fw /\ download.assets = assets
  /\ CurrentDownload.percent = download.percent

AloneInv ==
  /\ finger = Nowhere => lastTouch.state # "pressed"
  /\ idle # 0 => bpc = "wait" /\ finger = Nowhere /\ ~charger /\ touch.state = "none" /\ screen # "MORE_INFO"
  /\ idle # 0 => \/ guiQ = <<>>
                 \/ guiQ = <<"SHIPPING">> /\ screen # "SHIPPING" /\ gpc # "check"
  /\ screen = "DOWNLOAD" /\ idle # 0 => Stopped
  /\ screen = "DOWNLOAD" /\ gpc = "receive" /\ bpc = "wait" /\ ~Switches(guiQ) /\ ~lost => Stopped
  /\ screen = "SHIPPING" /\ gpc = "receive" => ship.age < Attempt

IdleInv ==
  /\ screen # "SHIPPING" =>
       \/ idle <= age
       \/ idle <= Limit["WAIT"] + 1 /\ (guiQ # <<>> \/ bootQ # <<>>)
  /\ screen = "SHIPPING" /\ gpc # "off" =>
       idle <= Limit["WAIT"] + 1 + ship.attempts * Attempt + ship.age
  /\ TurnsOff
==============================================================================
