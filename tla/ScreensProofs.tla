---------------------------- MODULE ScreensProofs ----------------------------
(***************************************************************************)
(* Proofs about Screens: what is drawn is what reacts and what is shown, a *)
(* touch acts once, a timeout fires on time, and a device that is left     *)
(* alone turns off; for every list of time limits, levels and points.      *)
(***************************************************************************)
EXTENDS Screens, TLAPS

-----------------------------------------------------------------------------
(* The tables of buttons.                                                    *)

LEMMA TableType ==
  ASSUME NEW t \in DOMAIN Table
  PROVE  ButtonsOf(t) \subseteq DOMAIN Button
  BY DEF ButtonsOf, Table, Button

LEMMA Tables ==
  ButtonsOf("SHIPPING") = {} /\ ButtonsOf("ERROR") = {"continue"} /\ ButtonsOf("FORCE") = {"secret"}
  BY DEF ButtonsOf, Table

LEMMA BoxTables ==
  /\ Boxes(ButtonsOf("noMF")) = {"noMFDownload", "noMFOff"}
  /\ Boxes(ButtonsOf("started")) = {"exit", "download", "off"}
  /\ Boxes(ButtonsOf("LOW_BATTERY")) = {"lowOff"}
  /\ Boxes(ButtonsOf("INFO")) = {"next"}
  /\ Boxes(ButtonsOf("MORE_INFO")) = {"close"}
  /\ Boxes(ButtonsOf("DOWNLOAD")) = {}
  /\ Boxes(ButtonsOf("ERROR")) = {"continue"}
  /\ Boxes(ButtonsOf("FORCE")) = {}
  /\ Boxes(ButtonsOf("SHIPPING")) = {}
  /\ Boxes(ButtonsOf("UPDATING")) = {}
  <1>1. Boxes(ButtonsOf("noMF")) = {"noMFDownload", "noMFOff"}
        BY DEF Boxes, ButtonsOf, Table, Button, Box, Area
  <1>2. Boxes(ButtonsOf("started")) = {"exit", "download", "off"}
        BY DEF Boxes, ButtonsOf, Table, Button, Box, Area
  <1>3. Boxes(ButtonsOf("LOW_BATTERY")) = {"lowOff"} /\ Boxes(ButtonsOf("INFO")) = {"next"}
        BY DEF Boxes, ButtonsOf, Table, Button, Box, Area
  <1>4. Boxes(ButtonsOf("MORE_INFO")) = {"close"} /\ Boxes(ButtonsOf("DOWNLOAD")) = {}
        BY DEF Boxes, ButtonsOf, Table, Button, Box, Area
  <1>5. Boxes(ButtonsOf("ERROR")) = {"continue"} /\ Boxes(ButtonsOf("FORCE")) = {}
        BY DEF Boxes, ButtonsOf, Table, Button, Box, Area
  <1>6. Boxes(ButtonsOf("SHIPPING")) = {} /\ Boxes(ButtonsOf("UPDATING")) = {}
        BY DEF Boxes, ButtonsOf, Table, Button, Box, Area
  <1> QED BY <1>1, <1>2, <1>3, <1>4, <1>5, <1>6

\* No two boxes of a page lie at the same place.
LEMMA PlacesApart ==
  ASSUME NEW t \in DOMAIN Table, NEW a \in Boxes(ButtonsOf(t)), NEW b \in Boxes(ButtonsOf(t)),
         SamePlace(a, b)
  PROVE  a = b
  <1>1. /\ Button["noMFDownload"].y = 188 /\ Button["noMFOff"].y = 224
        /\ Button["exit"].y = 188 /\ Button["download"].y = 152 /\ Button["off"].y = 224
        BY DEF Button, Box, Upper, Middle, Lower
  <1>2. Button[a].y = Button[b].y
        BY DEF SamePlace
  <1>3. CASE t = "noMF"
        BY <1>1, <1>2, <1>3, BoxTables
  <1>4. CASE t = "started"
        BY <1>1, <1>2, <1>4, BoxTables
  <1>5. CASE t \notin {"noMF", "started"}
        <2>1. t \in {"LOW_BATTERY", "INFO", "MORE_INFO", "DOWNLOAD", "ERROR", "FORCE", "SHIPPING", "UPDATING"}
              BY <1>5 DEF Table
        <2> QED BY <2>1, BoxTables
  <1> QED BY <1>3, <1>4, <1>5

LEMMA TableOfType == ASSUME NEW s \in Screen PROVE TableOf(s) \in DOMAIN Table
  BY DEF TableOf, Screen, Table

-----------------------------------------------------------------------------
(* How long it may take.                                                     *)

LEMMA Product ==
  ASSUME NEW a \in Nat, NEW b \in Nat
  PROVE  a * b \in Nat /\ (a + 1) * b = a * b + b
  OBVIOUS

LEMMA ProductGrows ==
  ASSUME NEW a \in Nat, NEW b \in Nat, NEW c \in Nat, a <= c
  PROVE  a * b <= c * b
  OBVIOUS

LEMMA PatienceType ==
  /\ Patience \in Nat
  /\ Limit["WAIT"] + 1 <= Patience
  <1>1. AttemptsBeforeTurnOff + 1 \in Nat /\ Attempt \in Nat /\ Limit["WAIT"] \in Nat
        BY TimeAssumption, BoundAssumption
  <1>2. (AttemptsBeforeTurnOff + 1) * Attempt \in Nat
        BY <1>1, Product
  <1> QED BY <1>1, <1>2 DEF Patience

-----------------------------------------------------------------------------
(* Types.                                                                    *)

LEMMA NoTouchType == NoTouch \in Touch
  BY DEF NoTouch, Touch

LEMMA LoadedType == -1 \in Loaded /\ 0 \in Loaded /\ Loaded \subseteq Int
  BY BoundAssumption DEF Loaded

LEMMA Single == ASSUME NEW S, NEW e \in S PROVE <<e>> \in Seq(S) /\ Len(<<e>>) = 1
  OBVIOUS

LEMMA InitType == Init => TypeOK
  <1> SUFFICES ASSUME Init PROVE TypeOK
      OBVIOUS
  <1>1. FlagType
        BY DEF Init, FlagType
  <1>2. QueueType
        <2>1. "startAgain" \in BootEvent /\ "showError" \in BootEvent
              BY DEF BootEvent
        <2>2. bootQ \in {<<"startAgain">>, <<"showError">>}
              BY DEF Init
        <2>3. bootQ \in Seq(BootEvent) /\ Len(bootQ) = 1
              BY <2>1, <2>2, Single
        <2>4. guiQ \in Seq(Screen \cup {"process"}) /\ Len(guiQ) = 0
              BY DEF Init
        <2> QED BY <2>3, <2>4, BoundAssumption DEF QueueType
  <1>3. PlaceType
        BY DEF Init, PlaceType, Screen
  <1>4. PageType
        <2>1. frame \in Page /\ panel \in Page
              BY DEF Init, Page
        <2> QED BY <2>1 DEF Init, PageType
  <1>5. TouchType
        BY BoundAssumption, NoTouchType DEF Init, TouchType
  <1>6. StaticType
        <2>1. low \in [level : Levels \cup {100}, started : BOOLEAN]
              BY DEF Init
        <2>2. ship \in [attempts : 0..AttemptsBeforeTurnOff, age : 0..Attempt]
              BY TimeAssumption, BoundAssumption DEF Init
        <2>3. download \in [mode : {"init", "none", "fw", "assets"}, fw : Loaded, assets : Loaded,
                            percent : 0..Percent]
              BY BoundAssumption, LoadedType DEF Init
        <2> QED BY <2>1, <2>2, <2>3, TimeAssumption DEF Init, StaticType
  <1>7. WorldType
        BY BoundAssumption, LoadedType DEF Init, WorldType
  <1>8. TimeType
        BY TimeAssumption, PatienceType DEF Init, TimeType
  <1> QED BY <1>1, <1>2, <1>3, <1>4, <1>5, <1>6, <1>7, <1>8 DEF TypeOK

(* Queues. *)

LEMMA AppendType ==
  ASSUME NEW S, NEW q \in Seq(S), NEW e \in S
  PROVE  Append(q, e) \in Seq(S) /\ Len(Append(q, e)) = Len(q) + 1
  OBVIOUS

LEMMA TailType ==
  ASSUME NEW S, NEW q \in Seq(S), q # <<>>
  PROVE  Head(q) \in S /\ Tail(q) \in Seq(S) /\ Len(Tail(q)) = Len(q) - 1
  OBVIOUS

LEMMA WithEventType ==
  ASSUME NEW q \in Seq(BootEvent), Len(q) <= BootLen, NEW e \in BootEvent \cup {"none"}
  PROVE  WithEvent(q, e) \in Seq(BootEvent) /\ Len(WithEvent(q, e)) <= BootLen
  <1>1. CASE e = "none" \/ Len(q) = BootLen
        BY <1>1 DEF WithEvent
  <1>2. CASE ~(e = "none" \/ Len(q) = BootLen)
        <2>1. e \in BootEvent /\ WithEvent(q, e) = Append(q, e)
              BY <1>2 DEF WithEvent
        <2> QED BY <2>1, <1>2, AppendType, BoundAssumption
  <1> QED BY <1>1, <1>2

LEMMA ToGuiType ==
  ASSUME guiQ \in Seq(Screen \cup {"process"}), Len(guiQ) <= GuiLen, lost \in BOOLEAN,
         NEW e \in Screen \cup {"process", "none"}, ToGui(e)
  PROVE  /\ guiQ' \in Seq(Screen \cup {"process"}) /\ Len(guiQ') <= GuiLen
         /\ lost' \in BOOLEAN
  <1>1. guiQ' \in Seq(Screen \cup {"process"}) /\ Len(guiQ') <= GuiLen
    <2>1. CASE e = "none" \/ Len(guiQ) = GuiLen
          BY <2>1 DEF ToGui
    <2>2. CASE ~(e = "none" \/ Len(guiQ) = GuiLen)
          <3>1. e \in Screen \cup {"process"} /\ guiQ' = Append(guiQ, e)
                BY <2>2 DEF ToGui
          <3> QED BY <3>1, <2>2, AppendType, BoundAssumption
    <2> QED BY <2>1, <2>2
  <1>2. lost' \in BOOLEAN
        BY DEF ToGui
  <1> QED BY <1>1, <1>2

LEMMA HeadTaken ==
  ASSUME QueueType, NEW e, Receive(e)
  PROVE  /\ bootQ' \in Seq(BootEvent) /\ Len(bootQ') <= BootLen
         /\ bpc = "wait" /\ bootQ # <<>> /\ Len(bootQ') = Len(bootQ) - 1
  BY TailType, BoundAssumption DEF Receive, QueueType

(* The boot task changes its own variables and the queues. *)

LEMMA BootTaskKeeps ==
  ASSUME StepOfBootTask
  PROVE  UNCHANGED <<timeVars, guiVars, fingerVars, level, charger, assets, changes>> /\ fw' \in {fw, -1, 0}
  BY DEF StepOfBootTask, Start, Process, StartFails, StartReady, StartLeaves, ShowError, GoBL, ToMF,
         Stay, BootToMFFirst, ClearDownload, worldVars

LEMMA BootTaskQueues ==
  ASSUME TypeOK, StepOfBootTask
  PROVE  QueueType' /\ lost' \in BOOLEAN
  <1> USE DEF TypeOK, FlagType
  <1>0. QueueType /\ lost \in BOOLEAN
        OBVIOUS
  <1>1. {"process", "LOW_BATTERY", "ERROR", "WAIT", "FORCE"} \subseteq Screen \cup {"process", "none"}
        BY DEF Screen
  <1>2. CASE Start
        <2>1. PICK e \in {"startAgain", "downloaded"} : Receive(e)
              BY <1>2 DEF Start
        <2> QED BY <1>0, <1>2, <2>1, HeadTaken DEF Start, QueueType
  <1>3. CASE Process
        BY <1>0, <1>1, <1>3, ToGuiType DEF Process, QueueType
  <1>4. CASE StartFails
        <2>1. PICK e \in {"LOW_BATTERY", "ERROR", "WAIT"} : ToGui(e)
              BY <1>4 DEF StartFails, Report
        <2> QED BY <1>0, <1>1, <1>4, <2>1, ToGuiType DEF StartFails, QueueType
  <1>5. CASE StartReady
        <2>1. PICK e \in {"FORCE", "WAIT", "ERROR"} : ToGui(e)
              BY <1>5 DEF StartReady, Report
        <2> QED BY <1>0, <1>1, <1>5, <2>1, ToGuiType DEF StartReady, QueueType
  <1>6. CASE StartLeaves \/ ClearDownload
        BY <1>0, <1>6 DEF StartLeaves, ClearDownload, queues, QueueType
  <1>7. CASE ShowError
        BY <1>0, <1>1, <1>7, HeadTaken, ToGuiType DEF ShowError, QueueType
  <1>8. CASE GoBL
        BY <1>0, <1>1, <1>8, HeadTaken, ToGuiType DEF GoBL, QueueType
  <1>9. CASE ToMF
        <2>1. PICK e \in {"later", "bootToMF"} : Receive(e)
              BY <1>9 DEF ToMF
        <2>2. (UNCHANGED <<guiQ, lost>>) \/ ToGui("WAIT")
              BY <1>9 DEF ToMF
        <2> QED BY <1>0, <1>1, <2>1, <2>2, HeadTaken, ToGuiType DEF QueueType
  <1>10. CASE Stay
        <2>1. PICK e \in {"later", "bootToMF"} : Receive(e)
              BY <1>10 DEF Stay
        <2>2. ToGui("WAIT")
              BY <1>10 DEF Stay
        <2> QED BY <1>0, <1>1, <2>1, <2>2, HeadTaken, ToGuiType DEF QueueType
  <1>11. CASE BootToMFFirst
        <2>1. bootQ \in Seq(BootEvent) /\ bootQ # <<>> /\ "startAgain" \in BootEvent
              BY <1>0, <1>11 DEF BootToMFFirst, QueueType, BootEvent
        <2>2. Tail(bootQ) \in Seq(BootEvent) /\ Len(Tail(bootQ)) = Len(bootQ) - 1
              BY <2>1, TailType
        <2>3. bootQ' \in Seq(BootEvent) /\ Len(bootQ') = Len(Tail(bootQ)) + 1
              BY <1>11, <2>1, <2>2, AppendType DEF BootToMFFirst
        <2>4. Len(bootQ) \in Nat
              BY <2>1
        <2> QED BY <1>0, <1>11, <2>2, <2>3, <2>4, BoundAssumption DEF BootToMFFirst, QueueType
  <1> QED BY <1>2, <1>3, <1>4, <1>5, <1>6, <1>7, <1>8, <1>9, <1>10, <1>11 DEF StepOfBootTask

LEMMA BootTaskPlace ==
  ASSUME TypeOK, StepOfBootTask
  PROVE  bpc' \in {"wait", "run", "gone"}
  BY DEF TypeOK, PlaceType, StepOfBootTask, Start, Process, StartFails, StartReady, StartLeaves, ShowError,
         GoBL, ToMF, Stay, BootToMFFirst, ClearDownload, Report, bootVars

LEMMA BootTaskFlags ==
  ASSUME TypeOK, StepOfBootTask
  PROVE  /\ fresh' \in BOOLEAN /\ force' \in BOOLEAN /\ allowed' \in BOOLEAN /\ valid' \in BOOLEAN
         /\ nfc' \in BOOLEAN
  <1> USE DEF TypeOK, FlagType, bootVars
  <1>1. CASE Start
        BY <1>1 DEF Start
  <1>2. CASE Process \/ StartLeaves \/ ShowError \/ GoBL
        BY <1>2 DEF Process, StartLeaves, ShowError, GoBL
  <1>3. CASE ToMF \/ Stay \/ BootToMFFirst \/ ClearDownload
        BY <1>3 DEF ToMF, Stay, BootToMFFirst, ClearDownload
  <1>4. CASE StartFails
        BY <1>4 DEF StartFails, Report
  <1>5. CASE StartReady
        BY <1>5 DEF StartReady, Report
  <1> QED BY <1>1, <1>2, <1>3, <1>4, <1>5 DEF StepOfBootTask

LEMMA BootTaskType ==
  ASSUME TypeOK, BootTask
  PROVE  TypeOK'
  <1>1. StepOfBootTask /\ idle' = 0
        BY DEF BootTask
  <1>2. UNCHANGED <<timeVars, guiVars, fingerVars, level, charger, assets, changes>> /\ fw' \in {fw, -1, 0}
        BY <1>1, BootTaskKeeps
  <1>3. FlagType'
        BY <1>1, <1>2, BootTaskFlags, BootTaskQueues
        DEF TypeOK, FlagType, timeVars, guiVars, pageVars, touchVars
  <1>4. PlaceType' /\ PageType' /\ TouchType'
        BY <1>1, <1>2, BootTaskPlace
        DEF TypeOK, PlaceType, PageType, TouchType, guiVars, pageVars, touchVars, fingerVars
  <1>5. StaticType' /\ WorldType'
        BY <1>1, <1>2, LoadedType DEF TypeOK, StaticType, WorldType, guiVars, staticVars
  <1>6. TimeType'
        BY <1>1, <1>2, PatienceType DEF TypeOK, TimeType, timeVars
  <1> QED BY <1>1, <1>3, <1>4, <1>5, <1>6, BootTaskQueues DEF TypeOK

(* A look at the touch panel. *)

LEMMA AddTouchType ==
  ASSUME NEW t \in Touch, NEW p \in Points \cup {Nowhere}
  PROVE  AddTouch(t, Up(p)) \in Touch /\ AddTouch(t, Down(p)) \in Touch
  <1>1. AddTouch(t, Up(p)) = [state |-> "released", at |-> p]
        BY DEF AddTouch, Up
  <1>2. AddTouch(t, Down(p)) \in {[state |-> "pressed", at |-> p], t}
        BY DEF AddTouch, Down
  <1> QED BY <1>1, <1>2 DEF Touch

LEMMA KeptType == ASSUME lastTouch \in Touch PROVE Kept \in Touch
  BY NoTouchType DEF Kept

LEMMA OlderType ==
  ASSUME NEW most \in Nat, NEW a \in 0..most
  PROVE  Older(a, most) \in 0..most
  BY DEF Older

LEMMA LookType ==
  ASSUME TypeOK, Untouched \/ Lift \/ \E p \in Points : Press(p)
  PROVE  TouchType' /\ nudged' \in BOOLEAN /\ idle' \in 0..(Patience + 1)
  <1> USE DEF TypeOK, TouchType, FlagType
  <1>1. Kept \in Touch /\ finger \in Points \cup {Nowhere} /\ presses \in 0..MaxPresses
        BY KeptType
  <1>2. ASSUME NEW t \in Touch, CheckTouchs(t)
        PROVE  lastTouch' \in Touch /\ touch' \in Touch /\ taps' \in 0..2 /\ nudged' = FALSE
        BY <1>2 DEF CheckTouchs
  <1>3. 0 \in 0..(Patience + 1) /\ Older(idle, Patience + 1) \in 0..(Patience + 1)
        BY PatienceType, OlderType DEF TimeType
  <1>4. CASE Untouched
        BY <1>1, <1>2, <1>3, <1>4 DEF Untouched, fingerVars
  <1>5. CASE Lift
        BY <1>1, <1>2, <1>3, <1>5, AddTouchType DEF Lift
  <1>6. CASE \E p \in Points : Press(p)
    <2>1. PICK p \in Points : Press(p)
          BY <1>6
    <2>2. presses' \in 0..MaxPresses
          BY <1>1, <2>1, BoundAssumption DEF Press
    <2>3. /\ AddTouch(Kept, Down(p)) \in Touch /\ AddTouch(Kept, Up(finger)) \in Touch
          /\ p \in Points \cup {Nowhere}
          BY <1>1, AddTouchType
    <2>4. /\ AddTouch(AddTouch(Kept, Down(p)), Up(p)) \in Touch
          /\ AddTouch(AddTouch(Kept, Up(finger)), Down(p)) \in Touch
          BY <2>3, AddTouchType
    <2>5. finger' \in Points \cup {Nowhere} /\ (\E t \in Touch : CheckTouchs(t))
          BY <2>1, <2>3, <2>4 DEF Press
    <2> QED BY <1>2, <1>3, <2>1, <2>2, <2>5 DEF Press
  <1> QED BY <1>4, <1>5, <1>6

LEMMA CycleType ==
  ASSUME TypeOK, Cycle
  PROVE  TypeOK'
  <1>1. TouchType' /\ nudged' \in BOOLEAN /\ idle' \in 0..(Patience + 1)
        BY LookType DEF Cycle
  <1>2. FlagType' /\ QueueType'
        BY <1>1 DEF Cycle, TypeOK, FlagType, QueueType, queues, bootVars, pageVars, worldVars
  <1>3. PlaceType' /\ PageType' /\ WorldType'
        BY DEF Cycle, TypeOK, PlaceType, PageType, WorldType, bootVars, pageVars, worldVars
  <1>4. age' \in Nat /\ limit' \in Nat
        BY DEF Cycle, TypeOK, TimeType
  <1>5. caught' \in 0..Hold
        BY TimeAssumption, OlderType DEF Cycle, TypeOK, StaticType
  <1>6. ship' \in [attempts : 0..AttemptsBeforeTurnOff, age : 0..Attempt]
        <2>1. ship \in [attempts : 0..AttemptsBeforeTurnOff, age : 0..Attempt]
              BY DEF TypeOK, StaticType
        <2>2. Older(ship.age, Attempt) \in 0..Attempt
              BY <2>1, TimeAssumption, OlderType
        <2> QED BY <2>1, <2>2 DEF Cycle
  <1>7. StaticType'
        BY <1>5, <1>6 DEF Cycle, TypeOK, StaticType
  <1> QED BY <1>1, <1>2, <1>3, <1>4, <1>7 DEF TypeOK, TimeType

(* A screen is switched. *)

LEMMA LimitType ==
  ASSUME NEW s \in DOMAIN Limit
  PROVE  Limit[s] \in Nat /\ Limit[s] >= 1 /\ Limit[s] <= Limit["WAIT"]
  BY TimeAssumption

LEMMA NewLimitType ==
  ASSUME TypeOK, NEW s PROVE NewLimit(s) \in Nat
  BY LimitType DEF NewLimit, TypeOK, TimeType

LEMMA PressedType ==
  ASSUME NEW bs \in SUBSET DOMAIN Button, NEW t \in Touch, NEW was \in SUBSET DOMAIN Button
  PROVE  PressedAfter(bs, t, was) \subseteq DOMAIN Button
  <1>1. t.state \in {"none", "pressed", "released"}
        BY DEF Touch
  <1> QED BY <1>1 DEF PressedAfter

LEMMA BatteryType ==
  ASSUME TypeOK PROVE Battery \in [level : Levels \cup {100}, charging : BOOLEAN]
  BY DEF TypeOK, FlagType, WorldType, Battery

LEMMA PageFields ==
  ASSUME NEW p \in Page
  PROVE  /\ p.of \in Screen \cup {"blank"} /\ p.boxes \subseteq DOMAIN Button /\ p.down \subseteq DOMAIN Button
         /\ p.batt \in [level : Levels \cup {100}, charging : BOOLEAN]
         /\ p = [of |-> p.of, boxes |-> p.boxes, down |-> p.down, batt |-> p.batt]
  BY DEF Page

LEMMA PageOf ==
  ASSUME NEW o \in Screen \cup {"blank"}, NEW bs \in SUBSET DOMAIN Button, NEW ds \in SUBSET DOMAIN Button,
         NEW b \in [level : Levels \cup {100}, charging : BOOLEAN]
  PROVE  [of |-> o, boxes |-> bs, down |-> ds, batt |-> b] \in Page
  BY DEF Page

LEMMA DrawPageType ==
  ASSUME TypeOK, NEW s \in Screen, DrawPage(s)
  PROVE  frame' \in Page
  <1>1. Boxes(ButtonsOf(TableOf(s))) \subseteq DOMAIN Button
        BY TableOfType, TableType DEF Boxes
  <1>2. frame \in Page
        BY DEF TypeOK, PageType
  <1>3. frame.batt \in [level : Levels \cup {100}, charging : BOOLEAN]
        BY <1>2, PageFields
  <1> QED BY <1>1, <1>3, BatteryType, PageOf DEF DrawPage

LEMMA ResetType ==
  ASSUME TypeOK, ResetStatics, caught' \in 0..Hold
  PROVE  StaticType'
  <1>1. low' \in [level : Levels \cup {100}, started : BOOLEAN]
        BY DEF ResetStatics, TypeOK, StaticType
  <1>2. ship' \in [attempts : 0..AttemptsBeforeTurnOff, age : 0..Attempt]
        BY TimeAssumption DEF ResetStatics, TypeOK, StaticType
  <1>3. download' \in [mode : {"init", "none", "fw", "assets"}, fw : Loaded, assets : Loaded,
                       percent : 0..Percent]
        BY BoundAssumption DEF ResetStatics, TypeOK, StaticType
  <1> QED BY <1>1, <1>2, <1>3 DEF ResetStatics, StaticType

LEMMA SwitchedTo ==
  ASSUME TypeOK, ReceiveSwitch
  PROVE  /\ Head(guiQ) \in Screen /\ screen' = Head(guiQ)
         /\ guiQ' \in Seq(Screen \cup {"process"}) /\ Len(guiQ') = Len(guiQ) - 1
         /\ Len(guiQ) \in Nat
         /\ Head(guiQ) = "FORCE" => SwitchForce
         /\ Head(guiQ) # "FORCE" => SwitchDrawn(Head(guiQ))
  <1>1. guiQ \in Seq(Screen \cup {"process"}) /\ guiQ # <<>> /\ Head(guiQ) # "process"
        BY DEF TypeOK, QueueType, ReceiveSwitch
  <1>2. Head(guiQ) \in Screen /\ Tail(guiQ) \in Seq(Screen \cup {"process"})
        BY <1>1, TailType
  <1> QED BY <1>1, <1>2, TailType DEF ReceiveSwitch, SwitchPage

LEMMA ReceiveSwitchType ==
  ASSUME TypeOK, ReceiveSwitch
  PROVE  FlagType' /\ QueueType' /\ PlaceType' /\ PageType' /\ TouchType' /\ StaticType' /\ WorldType'
         /\ age' \in Nat /\ limit' \in Nat
  <1> DEFINE s == Head(guiQ)
  <1>1. s \in Screen /\ screen' = s
        BY SwitchedTo
  <1>2. QueueType'
        BY SwitchedTo, BoundAssumption DEF ReceiveSwitch, TypeOK, QueueType
  <1>3. wrapped' = FALSE /\ age' = 0 /\ limit' \in Nat
        BY NewLimitType DEF ReceiveSwitch, Refresh
  <1>4. first' \in BOOLEAN /\ full' \in BOOLEAN
        BY SwitchedTo DEF SwitchForce, SwitchDrawn, TypeOK, FlagType
  <1>5. FlagType'
        BY <1>3, <1>4 DEF ReceiveSwitch, TypeOK, FlagType, bootVars, worldVars
  <1>6. PlaceType'
        BY <1>1 DEF ReceiveSwitch, TypeOK, PlaceType, bootVars
  <1>7. PageType' /\ TouchType' /\ StaticType'
    <2>1. panel' \in Page /\ lastTouch' \in Touch /\ taps' \in 0..2 /\ finger' \in Points \cup {Nowhere}
          /\ presses' \in 0..MaxPresses
          BY DEF ReceiveSwitch, TypeOK, PageType, TouchType, fingerVars
    <2>2. CASE s = "FORCE"
          <3>1. SwitchForce
                BY <2>2, SwitchedTo
          <3>2. pressed' \subseteq DOMAIN Button
                BY <3>1, Tables, PressedType DEF SwitchForce, TypeOK, PageType, TouchType, Button
          <3>3. caught' \in 0..Hold /\ ResetStatics
                BY <3>1, TimeAssumption DEF SwitchForce, TypeOK, StaticType
          <3>4. frame' \in Page /\ touch' \in Touch
                BY <3>1 DEF SwitchForce, TypeOK, PageType, TouchType
          <3> QED BY <2>1, <3>2, <3>3, <3>4, ResetType DEF PageType, TouchType
    <2>3. CASE s # "FORCE"
          <3>1. SwitchDrawn(s)
                BY <2>3, SwitchedTo
          <3>2. frame' \in Page
                BY <1>1, <3>1, DrawPageType DEF SwitchDrawn
          <3>3. caught' \in 0..Hold /\ ResetStatics
                BY <3>1 DEF SwitchDrawn, TypeOK, StaticType
          <3>4. pressed' = {} /\ touch' \in Touch
                BY <3>1, NoTouchType DEF SwitchDrawn
          <3> QED BY <2>1, <3>2, <3>3, <3>4, ResetType DEF PageType, TouchType
    <2> QED BY <2>2, <2>3
  <1>8. WorldType'
        BY DEF ReceiveSwitch, TypeOK, WorldType, worldVars
  <1> QED BY <1>2, <1>3, <1>5, <1>6, <1>7, <1>8

(* A poll. *)

LEMMA ButtonsType ==
  ASSUME TypeOK
  PROVE  Buttons \subseteq DOMAIN Button /\ After \subseteq DOMAIN Button /\ Changed \subseteq Buttons
  <1>1. Buttons \subseteq DOMAIN Button
        BY TableOfType, TableType DEF TypeOK, PlaceType, Buttons
  <1>2. touch \in Touch /\ pressed \subseteq DOMAIN Button
        BY DEF TypeOK, TouchType, PageType
  <1> QED BY <1>1, <1>2, PressedType DEF After, Changed

LEMMA RedrawnType ==
  ASSUME TypeOK, NEW page \in Page, NEW bs \in SUBSET DOMAIN Button
  PROVE  Redrawn(page, bs) \in Page
  <1>1. page.boxes \subseteq DOMAIN Button /\ page.down \subseteq DOMAIN Button
        BY PageFields
  <1> DEFINE covered == {a \in page.boxes : \E b \in bs : SamePlace(a, b)}
             boxes == (page.boxes \ covered) \cup bs
             down == (page.down \ covered) \cup (bs \cap After)
  <1>2. boxes \subseteq DOMAIN Button /\ down \subseteq DOMAIN Button
        BY <1>1
  <1>3. Redrawn(page, bs) = [page EXCEPT !.boxes = boxes, !.down = down]
        BY Zenon DEF Redrawn
  <1> HIDE DEF boxes, down
  <1>4. Redrawn(page, bs) = [of |-> page.of, boxes |-> boxes, down |-> down, batt |-> page.batt]
        BY <1>3 DEF Page
  <1> QED BY <1>2, <1>4, PageFields, PageOf

LEMMA WithBatteryType ==
  ASSUME TypeOK, NEW page \in Page
  PROVE  WithBattery(page) \in Page
  <1>1. WithBattery(page) = [of |-> page.of, boxes |-> page.boxes, down |-> page.down, batt |-> Battery]
        BY DEF WithBattery, Page
  <1> QED BY <1>1, PageFields, PageOf, BatteryType

LEMMA ShowType ==
  ASSUME TypeOK, NEW page \in Page, NEW isNew, Show(page, isNew)
  PROVE  frame' \in Page /\ panel' \in Page /\ full' = FALSE
  BY DEF Show, TypeOK, PageType

LEMMA ActType ==
  GuiEventOf(Act) \in Screen \cup {"none"} /\ BootEventOf(Act) \in BootEvent \cup {"none"}
  BY DEF GuiEventOf, BootEventOf, Screen, BootEvent

LEMMA HandleType ==
  ASSUME TypeOK, NEW e \in BootEvent \cup {"none"}, Handle(e)
  PROVE  QueueType' /\ lost' \in BOOLEAN /\ nfc' \in BOOLEAN /\ taps' \in 0..2
  <1>1. QueueType /\ lost \in BOOLEAN /\ nfc \in BOOLEAN /\ taps \in 0..2
        BY DEF TypeOK, FlagType, TouchType
  <1>2. guiQ' \in Seq(Screen \cup {"process"}) /\ Len(guiQ') <= GuiLen /\ lost' \in BOOLEAN
        BY <1>1, ActType, ToGuiType DEF Handle, QueueType
  <1>3. WithEvent(bootQ, e) \in Seq(BootEvent) /\ Len(WithEvent(bootQ, e)) <= BootLen
        BY <1>1, WithEventType DEF QueueType
  <1>4. bootQ' \in Seq(BootEvent) /\ Len(bootQ') <= BootLen
        BY <1>3, ActType, WithEventType DEF Handle
  <1>5. taps' \in 0..2
        BY <1>1 DEF Handle
  <1>6. nfc' \in BOOLEAN
        BY <1>1 DEF Handle
  <1> QED BY <1>2, <1>4, <1>5, <1>6 DEF QueueType

\* What every poll of a screen that is drawn leaves as it should be, but for the time, what the
\* screen itself remembers, and the event it adds.
LEMMA PollType ==
  ASSUME TypeOK, NEW e \in BootEvent \cup {"none"}, Handle(e),
         NEW page \in Page, NEW isNew, Show(page, isNew),
         pressed' = After, gpc' = "receive", UnchangedByPoll, wrapped' \in {wrapped, FALSE}
  PROVE  FlagType' /\ QueueType' /\ PlaceType' /\ PageType' /\ TouchType' /\ WorldType'
  <1>1. QueueType' /\ lost' \in BOOLEAN /\ nfc' \in BOOLEAN /\ taps' \in 0..2
        BY HandleType
  <1>2. frame' \in Page /\ panel' \in Page /\ full' = FALSE
        BY ShowType
  <1>3. wrapped' \in BOOLEAN
        BY DEF TypeOK, FlagType
  <1>4. FlagType'
        BY <1>1, <1>2, <1>3 DEF TypeOK, FlagType, UnchangedByPoll, bootVars, worldVars
  <1>5. PlaceType' /\ WorldType'
        BY DEF TypeOK, PlaceType, WorldType, UnchangedByPoll, bootVars, worldVars
  <1>6. TouchType'
        BY <1>1 DEF TypeOK, TouchType, UnchangedByPoll, fingerVars
  <1>7. PageType'
        BY <1>2, ButtonsType DEF PageType
  <1> QED BY <1>1, <1>4, <1>5, <1>6, <1>7

LEMMA TimeKeptType ==
  ASSUME TypeOK, KeepTime \/ Refresh
  PROVE  age' \in Nat /\ wrapped' \in {wrapped, FALSE}
  <1>1. age' \in Nat
        BY DEF TypeOK, TimeType, KeepTime, Refresh
  <1>2. wrapped' \in {wrapped, FALSE}
        BY DEF KeepTime, Refresh
  <1> QED BY <1>1, <1>2

LEMMA WorldKept ==
  ASSUME UnchangedByPoll PROVE UNCHANGED <<level, charger, fw, assets, changes>>
  BY DEF UnchangedByPoll, worldVars

LEMMA NoneType == "none" \in BootEvent \cup {"none"} /\ "startAgain" \in BootEvent /\ "downloaded" \in BootEvent
  BY DEF BootEvent

LEMMA DrawnByWaitType == DrawnByWait \subseteq DOMAIN Button
  <1>1. TableOf("WAIT") \in DOMAIN Table
        BY DEF TableOf, Table
  <1>2. DrawnByWait \subseteq ButtonsOf(TableOf("WAIT"))
        BY DEF DrawnByWait, ButtonsOf
  <1> QED BY <1>1, <1>2, TableType

LEMMA PollWaitType ==
  ASSUME TypeOK, PollWait
  PROVE  /\ FlagType' /\ QueueType' /\ PlaceType' /\ PageType' /\ TouchType' /\ StaticType' /\ WorldType'
         /\ age' \in Nat /\ limit' \in Nat
  <1>1. WithBattery(Redrawn(frame, DrawnByWait)) \in Page
        BY DrawnByWaitType, RedrawnType, WithBatteryType DEF TypeOK, PageType
  <1>2. FlagType' /\ QueueType' /\ PlaceType' /\ PageType' /\ TouchType' /\ WorldType'
        BY <1>1, NoneType, PollType DEF PollWait, Polls, timeVars
  <1> QED BY <1>2, WorldKept DEF PollWait, TypeOK, TimeType, StaticType, timeVars, staticVars

LEMMA BoxesChangedType == ASSUME TypeOK PROVE Boxes(Changed) \subseteq DOMAIN Button
  BY ButtonsType DEF Boxes

LEMMA PollInfoType ==
  ASSUME TypeOK, PollInfo
  PROVE  /\ FlagType' /\ QueueType' /\ PlaceType' /\ PageType' /\ TouchType' /\ StaticType' /\ WorldType'
         /\ age' \in Nat /\ limit' \in Nat
  <1>1. WithBattery(Redrawn(frame, Boxes(Changed))) \in Page
        BY BoxesChangedType, RedrawnType, WithBatteryType DEF TypeOK, PageType
  <1>2. FlagType' /\ QueueType' /\ PlaceType' /\ PageType' /\ TouchType' /\ WorldType'
        BY <1>1, NoneType, PollType DEF PollInfo, Polls, timeVars
  <1> QED BY <1>2, WorldKept DEF PollInfo, TypeOK, TimeType, StaticType, timeVars, staticVars

LEMMA PollLowBatteryType ==
  ASSUME TypeOK, PollLowBattery
  PROVE  /\ FlagType' /\ QueueType' /\ PlaceType' /\ PageType' /\ TouchType' /\ StaticType' /\ WorldType'
         /\ age' \in Nat /\ limit' \in Nat
  <1>1. WithBattery(Redrawn(frame, Boxes(Changed))) \in Page
        BY BoxesChangedType, RedrawnType, WithBatteryType DEF TypeOK, PageType
  <1>2. PICK e \in BootEvent \cup {"none"} : Handle(e)
        BY NoneType DEF PollLowBattery
  <1>3. age' \in Nat /\ wrapped' \in {wrapped, FALSE} /\ limit' \in Nat
        BY TimeKeptType DEF PollLowBattery, TypeOK, TimeType
  <1>4. FlagType' /\ QueueType' /\ PlaceType' /\ PageType' /\ TouchType' /\ WorldType'
        BY <1>1, <1>2, <1>3, PollType DEF PollLowBattery, Polls
  <1>5. low' \in [level : Levels \cup {100}, started : BOOLEAN]
    <2>1. level \in Levels /\ low.started \in BOOLEAN /\ (level > Enough) \in BOOLEAN
          BY BoundAssumption DEF TypeOK, WorldType, StaticType
    <2>2. PICK b \in BOOLEAN : low' = [level |-> level, started |-> b]
          BY <2>1 DEF PollLowBattery
    <2> QED BY <2>1, <2>2
  <1>6. StaticType'
        BY <1>5 DEF PollLowBattery, TypeOK, StaticType
  <1> QED BY <1>3, <1>4, <1>6

LEMMA PollErrorType ==
  ASSUME TypeOK, PollError
  PROVE  /\ FlagType' /\ QueueType' /\ PlaceType' /\ PageType' /\ TouchType' /\ StaticType' /\ WorldType'
         /\ age' \in Nat /\ limit' \in Nat
  <1>1. WithBattery(frame) \in Page
        BY WithBatteryType DEF TypeOK, PageType
  <1>2. {"continue"} \subseteq DOMAIN Button
        BY DEF Button
  <1>3. Redrawn(WithBattery(frame), {"continue"}) \in Page
        BY <1>1, <1>2, RedrawnType
  <1>4. [WithBattery(frame) EXCEPT !.boxes = {}, !.down = {}] \in Page
        <2> DEFINE p == WithBattery(frame)
        <2> HIDE DEF p
        <2>1. ASSUME p \in Page PROVE [p EXCEPT !.boxes = {}, !.down = {}] \in Page
              BY <2>1 DEF Page
        <2> QED BY <1>1, <2>1 DEF p
  <1> DEFINE sleepy == error = "counting" /\ Passed >= Standby
             moved == Changed # {} \/ BatteryChanged
             page == WithBattery(frame)
             shown == IF sleepy THEN [page EXCEPT !.boxes = {}, !.down = {}]
                      ELSE IF moved THEN Redrawn(page, {"continue"}) ELSE page
  <1>5. shown \in Page /\ Show(shown, sleepy \/ moved)
        BY <1>1, <1>3, <1>4 DEF PollError
  <1>6. age' \in Nat /\ wrapped' \in {wrapped, FALSE} /\ limit' \in Nat
    <2>1. KeepTime /\ limit' \in {0, limit}
          BY DEF PollError
    <2>2. limit' \in Nat
          BY <2>1 DEF TypeOK, TimeType
    <2>3. age' \in Nat /\ wrapped' \in {wrapped, FALSE}
          BY <2>1, TimeKeptType
    <2> QED BY <2>2, <2>3
  <1> HIDE DEF shown, sleepy, moved, page
  <1>7. FlagType' /\ QueueType' /\ PlaceType' /\ PageType' /\ TouchType' /\ WorldType'
        BY <1>5, <1>6, NoneType, PollType DEF PollError, Polls
  <1>8. error' \in {"counting", "standby"}
        BY DEF PollError, TypeOK, StaticType
  <1>9. StaticType'
        BY <1>8, WorldKept DEF PollError, TypeOK, StaticType
  <1> QED BY <1>6, <1>7, <1>9

LEMMA CurrentDownloadType ==
  ASSUME TypeOK
  PROVE  /\ CurrentDownload \in [mode : {"init", "none", "fw", "assets"}, fw : Loaded, assets : Loaded,
                                 percent : 0..Percent]
         /\ CurrentDownload.fw = fw /\ CurrentDownload.assets = assets /\ CurrentDownload.mode # "init"
  <1> DEFINE begin == IF download.mode = "init"
                      THEN [download EXCEPT !.mode = "none", !.fw = fw, !.assets = assets] ELSE download
             mode == IF begin.assets # assets THEN "assets" ELSE IF begin.fw # fw THEN "fw" ELSE begin.mode
             percent == CASE mode = "fw" -> ToPercent(fw, begin.percent)
                          [] mode = "assets" -> ToPercent(assets, begin.percent)
                          [] OTHER -> begin.percent
  <1>1. fw \in Loaded /\ assets \in Loaded
        BY DEF TypeOK, WorldType
  <1>2. download \in [mode : {"init", "none", "fw", "assets"}, fw : Loaded, assets : Loaded,
                      percent : 0..Percent]
        BY DEF TypeOK, StaticType
  <1>3. begin \in [mode : {"none", "fw", "assets"}, fw : Loaded, assets : Loaded, percent : 0..Percent]
        BY <1>1, <1>2
  <1> HIDE DEF begin
  <1>6. mode \in {"none", "fw", "assets"}
        BY <1>3
  <1> HIDE DEF mode
  <1>7. percent \in 0..Percent
    <2>1. ASSUME NEW l \in Loaded PROVE ToPercent(l, begin.percent) \in 0..Percent
          BY <1>3, <2>1, BoundAssumption DEF ToPercent, Loaded
    <2> QED BY <1>1, <1>3, <1>6, <2>1
  <1> HIDE DEF percent
  <1>8. CurrentDownload = [mode |-> mode, fw |-> fw, assets |-> assets, percent |-> percent]
        BY DEF CurrentDownload, mode, begin, percent
  <1> QED BY <1>1, <1>6, <1>7, <1>8

LEMMA PollDownloadType ==
  ASSUME TypeOK, PollDownload
  PROVE  /\ FlagType' /\ QueueType' /\ PlaceType' /\ PageType' /\ TouchType' /\ StaticType' /\ WorldType'
         /\ age' \in Nat /\ limit' \in Nat
  <1>1. WithBattery(frame) \in Page
        BY WithBatteryType DEF TypeOK, PageType
  <1>2. PICK e \in BootEvent \cup {"none"} : Handle(e)
        BY NoneType DEF PollDownload
  <1>3. limit' = limit /\ limit \in Nat /\ (KeepTime \/ Refresh)
        BY DEF PollDownload, TypeOK, TimeType
  <1>4. age' \in Nat /\ wrapped' \in {wrapped, FALSE} /\ limit' \in Nat
        BY <1>3, TimeKeptType
  <1>5. FlagType' /\ QueueType' /\ PlaceType' /\ PageType' /\ TouchType' /\ WorldType'
        BY <1>1, <1>2, <1>4, PollType DEF PollDownload, Polls
  <1>6. download' = CurrentDownload
        BY DEF PollDownload
  <1>7. StaticType'
        BY <1>6, CurrentDownloadType DEF PollDownload, TypeOK, StaticType
  <1> QED BY <1>4, <1>5, <1>7

LEMMA PollShippingType ==
  ASSUME TypeOK, PollShipping
  PROVE  /\ FlagType' /\ QueueType' /\ PlaceType' /\ PageType' /\ TouchType' /\ StaticType' /\ WorldType'
         /\ age' \in Nat /\ limit' \in Nat
  <1>1. frame' \in Page /\ panel' \in Page /\ full' = FALSE
        BY ShowType DEF PollShipping, TypeOK, PageType
  <1>2. FlagType'
        BY <1>1 DEF PollShipping, TypeOK, FlagType, UnchangedByPoll, timeVars, queues, bootVars, worldVars
  <1>3. QueueType' /\ WorldType' /\ TouchType'
        BY DEF PollShipping, TypeOK, QueueType, WorldType, TouchType, UnchangedByPoll, queues, worldVars,
               fingerVars
  <1>4. PlaceType' /\ PageType'
        BY <1>1 DEF PollShipping, TypeOK, PlaceType, PageType, UnchangedByPoll, bootVars
  <1>5. ship' \in [attempts : 0..AttemptsBeforeTurnOff, age : 0..Attempt]
    <2>1. ship \in [attempts : 0..AttemptsBeforeTurnOff, age : 0..Attempt]
          BY DEF TypeOK, StaticType
    <2>2. PICK accepted \in BOOLEAN :
            /\ gpc' = IF (ship.age = Attempt /\ ~charger)
                          /\ (accepted \/ ship.attempts + 1 > AttemptsBeforeTurnOff) THEN "off" ELSE "receive"
            /\ ship' = [attempts |-> IF gpc' = "receive" /\ ship.age = Attempt /\ ~charger
                                     THEN ship.attempts + 1 ELSE ship.attempts,
                        age |-> IF ship.age = Attempt THEN 0 ELSE ship.age]
          BY DEF PollShipping
    <2>3. CASE gpc' = "receive" /\ ship.age = Attempt /\ ~charger
          <3>1. ship.attempts + 1 \in 0..AttemptsBeforeTurnOff
                BY <2>1, <2>2, <2>3, BoundAssumption
          <3> QED BY <2>1, <2>2, <2>3, <3>1, TimeAssumption
    <2>4. CASE ~(gpc' = "receive" /\ ship.age = Attempt /\ ~charger)
          BY <2>1, <2>2, <2>4, TimeAssumption
    <2> QED BY <2>3, <2>4
  <1>6. StaticType'
        BY <1>5, WorldKept DEF PollShipping, TypeOK, StaticType
  <1> QED BY <1>1, <1>2, <1>3, <1>4, <1>6 DEF PollShipping, TypeOK, TimeType, timeVars

LEMMA PollForceType ==
  ASSUME TypeOK, PollForce
  PROVE  /\ FlagType' /\ QueueType' /\ PlaceType' /\ PageType' /\ TouchType' /\ StaticType' /\ WorldType'
         /\ age' \in Nat /\ limit' \in Nat
  <1>1. limit' = limit /\ limit \in Nat /\ (KeepTime \/ Refresh)
        BY DEF PollForce, TypeOK, TimeType
  <1>2. age' \in Nat /\ wrapped' \in {wrapped, FALSE} /\ limit' \in Nat
        BY <1>1, TimeKeptType
  <1>3. wrapped' \in BOOLEAN
        BY <1>2 DEF TypeOK, FlagType
  <1>4. FlagType'
        BY <1>3 DEF PollForce, TypeOK, FlagType, UnchangedByPoll, bootVars, worldVars
  <1>5. QueueType'
    <2>1. (IF Held THEN "goBL" ELSE "none") \in BootEvent \cup {"none"}
          BY DEF BootEvent
    <2>2. bootQ \in Seq(BootEvent) /\ Len(bootQ) <= BootLen
          BY DEF TypeOK, QueueType
    <2>3. bootQ' \in Seq(BootEvent) /\ Len(bootQ') <= BootLen
          BY <2>1, <2>2, WithEventType DEF PollForce
    <2> QED BY <2>3 DEF PollForce, TypeOK, QueueType
  <1>6. PlaceType' /\ WorldType' /\ TouchType'
        BY DEF PollForce, TypeOK, PlaceType, WorldType, TouchType, UnchangedByPoll, bootVars, worldVars,
               fingerVars
  <1>7. PageType'
    <2>1. pressed' \subseteq After
          BY DEF PollForce
    <2> QED BY <2>1, ButtonsType DEF PollForce, TypeOK, PageType
  <1>8. caught' \in 0..Hold
        BY TimeAssumption DEF PollForce, TypeOK, StaticType
  <1>9. StaticType'
        BY <1>8, WorldKept DEF PollForce, TypeOK, StaticType
  <1> QED BY <1>2, <1>4, <1>5, <1>6, <1>7, <1>9

LEMMA LookAtTimeType ==
  ASSUME TypeOK, ReceiveProcess \/ InTime \/ Expire \/ GoSleep
  PROVE  /\ FlagType' /\ QueueType' /\ PlaceType' /\ PageType' /\ TouchType' /\ StaticType' /\ WorldType'
         /\ age' \in Nat /\ limit' \in Nat
  <1>1. UNCHANGED <<bootVars, nfc, cycling, screen, pageVars, lastTouch, touch, taps, staticVars,
                    fingerVars, worldVars, limit>>
        BY DEF ReceiveProcess, InTime, Expire, GoSleep, timeVars, touchVars
  <1>2. age' \in Nat
        BY DEF ReceiveProcess, InTime, Expire, GoSleep, timeVars, Refresh, TypeOK, TimeType
  <1>3. QueueType' /\ lost' \in BOOLEAN
    <2> USE DEF TypeOK, FlagType
    <2>1. QueueType /\ lost \in BOOLEAN
          OBVIOUS
    <2>2. CASE ReceiveProcess
          <3>1. guiQ' \in Seq(Screen \cup {"process"}) /\ Len(guiQ') <= GuiLen
                BY <2>1, <2>2, TailType, BoundAssumption DEF ReceiveProcess, QueueType
          <3> QED BY <2>1, <2>2, <3>1 DEF ReceiveProcess, QueueType
    <2>3. CASE InTime \/ GoSleep
          BY <2>1, <2>3 DEF InTime, GoSleep, queues, QueueType
    <2>4. CASE Expire
      <3>1. "SHIPPING" \in Screen \cup {"process", "none"}
            BY DEF Screen
      <3>2. CASE ToGui("SHIPPING") /\ UNCHANGED bootQ
            BY <2>1, <3>1, <3>2, ToGuiType DEF QueueType
      <3>3. CASE TimeoutToBoot
            <4>1. PICK e \in BootEvent \cup {"none"} : bootQ' = WithEvent(bootQ, e)
                  BY <3>3 DEF TimeoutToBoot, BootEvent
            <4>2. bootQ' \in Seq(BootEvent) /\ Len(bootQ') <= BootLen
                  BY <2>1, <4>1, WithEventType DEF QueueType
            <4> QED BY <2>1, <3>3, <4>2 DEF TimeoutToBoot, QueueType
      <3> QED BY <2>4, <3>2, <3>3 DEF Expire
    <2> QED BY <2>2, <2>3, <2>4
  <1>4. wrapped' \in BOOLEAN /\ nudged' \in BOOLEAN
    <2>1. wrapped' \in BOOLEAN
          BY DEF ReceiveProcess, InTime, Expire, GoSleep, timeVars, Refresh, TypeOK, FlagType
    <2>2. nudged' \in BOOLEAN
          BY DEF ReceiveProcess, InTime, Expire, GoSleep, touchVars, TypeOK, FlagType
    <2> QED BY <2>1, <2>2
  <1>5. gpc' \in {"receive", "check", "poll", "off"}
        BY DEF ReceiveProcess, InTime, Expire, GoSleep
  <1>6. FlagType'
        BY <1>1, <1>3, <1>4 DEF TypeOK, FlagType, bootVars, pageVars, worldVars
  <1>7. PlaceType' /\ PageType' /\ TouchType'
        BY <1>1, <1>5 DEF TypeOK, PlaceType, PageType, TouchType, bootVars, pageVars, fingerVars
  <1>8. StaticType' /\ WorldType'
        BY <1>1 DEF TypeOK, StaticType, WorldType, staticVars, worldVars
  <1> QED BY <1>1, <1>2, <1>3, <1>6, <1>7, <1>8 DEF TypeOK, TimeType

LEMMA GuiTaskType ==
  ASSUME TypeOK, GuiTask
  PROVE  TypeOK'
  <1>1. CASE Cycle
        BY <1>1, CycleType
  <1>2. CASE TurnOfGuiTask /\ UNCHANGED idle
    <2>1. /\ FlagType' /\ QueueType' /\ PlaceType' /\ PageType' /\ TouchType' /\ StaticType' /\ WorldType'
          /\ age' \in Nat /\ limit' \in Nat
          BY <1>2, ReceiveSwitchType, LookAtTimeType, PollWaitType, PollInfoType, PollLowBatteryType,
             PollErrorType, PollDownloadType, PollShippingType, PollForceType DEF TurnOfGuiTask
    <2> QED BY <1>2, <2>1 DEF TypeOK, TimeType
  <1> QED BY <1>1, <1>2 DEF GuiTask

LEMMA WorldTypeKept ==
  ASSUME TypeOK, World
  PROVE  TypeOK'
  <1> DEFINE Same == UNCHANGED <<age, limit, queues, bootVars, nfc, guiVars, fingerVars>>
  <1>1. Same /\ changes' \in 0..MaxChanges
        BY BoundAssumption
        DEF World, Charge, Plug, Fetch, Wrap, Change, timeVars, TypeOK, WorldType
  <1>2. level' \in Levels /\ fw' \in Loaded /\ assets' \in Loaded
        BY DEF World, Charge, Plug, Fetch, Wrap, TypeOK, WorldType, Loaded
  <1>4. wrapped' \in BOOLEAN
        BY DEF World, Charge, Plug, Fetch, Wrap, Change, timeVars, TypeOK, FlagType
  <1>5. charger' \in BOOLEAN
        BY DEF World, Charge, Plug, Fetch, Wrap, TypeOK, FlagType
  <1>6. FlagType'
        BY <1>1, <1>4, <1>5 DEF TypeOK, FlagType, queues, bootVars, guiVars, pageVars, touchVars
  <1>7. QueueType' /\ PlaceType' /\ PageType'
        BY <1>1 DEF TypeOK, QueueType, PlaceType, PageType, queues, bootVars, guiVars, pageVars
  <1>8. TouchType' /\ StaticType' /\ WorldType'
        BY <1>1, <1>2 DEF TypeOK, TouchType, StaticType, WorldType, guiVars, touchVars, staticVars, fingerVars
  <1>10. TimeType'
        BY <1>1, PatienceType DEF World, TypeOK, TimeType
  <1> QED BY <1>6, <1>7, <1>8, <1>10 DEF TypeOK

LEMMA StutterType ==
  ASSUME TypeOK, UNCHANGED vars
  PROVE  TypeOK'
  <1>1. FlagType' /\ QueueType' /\ PlaceType' /\ PageType'
        BY DEF vars, TypeOK, FlagType, QueueType, PlaceType, PageType, timeVars, queues, bootVars, guiVars,
               pageVars, touchVars, worldVars
  <1>2. TouchType' /\ StaticType' /\ WorldType' /\ TimeType'
        BY DEF vars, TypeOK, TouchType, StaticType, WorldType, TimeType, timeVars, guiVars,
               touchVars, staticVars, fingerVars, worldVars
  <1> QED BY <1>1, <1>2 DEF TypeOK

LEMMA TypeStep ==
  ASSUME TypeOK, [Next]_vars
  PROVE  TypeOK'
  BY BootTaskType, GuiTaskType, WorldTypeKept, StutterType DEF Next

\* Every variable keeps its type: no timeout, attempt, percentage or queue runs out of its bounds.
THEOREM ScreensTypeCorrect == Spec => []TypeOK
  <1>1. Init => TypeOK
        BY InitType
  <1>2. TypeOK /\ [Next]_vars => TypeOK'
        BY TypeStep
  <1> QED BY <1>1, <1>2, PTL DEF Spec

-----------------------------------------------------------------------------
(* A timeout fires on time.                                                  *)

LEMMA PassedBounds ==
  ASSUME TypeOK
  PROVE  age \in Nat /\ limit \in Nat /\ Passed \in Int /\ age - 1 <= Passed /\ Passed <= age
  BY DEF TypeOK, TimeType, Passed

\* The boot task, the user, the battery and the phone do not touch what the GUI task is at.
LEMMA OthersKeepTheScreen ==
  ASSUME BootTask \/ World
  PROVE  UNCHANGED <<gpc, cycling, screen, pageVars, touchVars, staticVars, fingerVars, age, limit>>
  <1>1. CASE BootTask
        BY <1>1, BootTaskKeeps DEF BootTask, guiVars, timeVars
  <1>2. CASE World
        BY <1>2 DEF World, Charge, Plug, Fetch, Wrap, Change, guiVars, timeVars
  <1> QED BY <1>1, <1>2

\* The steps of the GUI task, by what it was about to do.
LEMMA GuiStepsByPlace ==
  ASSUME GuiTask
  PROVE  /\ gpc = "receive" => Cycle \/ ReceiveSwitch \/ ReceiveProcess
         /\ gpc = "check" => InTime \/ Expire \/ GoSleep
         /\ gpc = "poll" => PollWait \/ PollInfo \/ PollLowBattery \/ PollError \/ PollDownload \/ PollShipping
                            \/ PollForce
         /\ gpc \in {"receive", "check", "poll"}
  BY DEF GuiTask, TurnOfGuiTask, Cycle, ReceiveSwitch, ReceiveProcess, InTime, Expire, GoSleep, PollWait,
         PollInfo, PollLowBattery, PollError, PollDownload, PollShipping, PollForce, Polls

\* No timeout fires early, and none later than a cycle after its limit, also when the tick counter
\* has wrapped since the screen was touched.
THEOREM TimeoutsOnTime == Spec => TimeoutOnTime
  <1> DEFINE Fired == age' < age \/ gpc' = "off"
             OnTime == gpc = "check" /\ Checked /\ gpc' # "check" =>
                         (Fired => age >= limit) /\ (age > limit => Fired)
  <1>1. TypeOK /\ [Next]_vars => [OnTime]_vars
    <2> SUFFICES ASSUME TypeOK, Next, gpc = "check", Checked, gpc' # "check"
                 PROVE  (Fired => age >= limit) /\ (age > limit => Fired)
        OBVIOUS
    <2>1. InTime \/ Expire \/ GoSleep
          BY OthersKeepTheScreen, GuiStepsByPlace DEF Next
    <2>2. CASE InTime
          <3>1. Passed < limit /\ age' = age /\ gpc' = "poll"
                BY <2>2, PassedBounds DEF InTime, Expires, timeVars
          <3> QED BY <3>1, PassedBounds
    <2>3. CASE Expire
          <3>1. Passed >= limit /\ age' = 0
                BY <2>3 DEF Expire, Expires, Refresh
          <3> QED BY <3>1, PassedBounds
    <2>4. CASE GoSleep
          <3>1. Passed >= limit /\ gpc' = "off"
                BY <2>4 DEF GoSleep, Expires
          <3> QED BY <3>1, PassedBounds
    <2> QED BY <2>1, <2>2, <2>3, <2>4
  <1>2. Spec => []TypeOK
        BY ScreensTypeCorrect
  <1> QED BY <1>1, <1>2, PTL DEF Spec, TimeoutOnTime

-----------------------------------------------------------------------------
(* The panel shows the framebuffer.                                          *)

LEMMA DrawNothing ==
  ASSUME NEW page \in Page
  PROVE  /\ Redrawn(page, {}) = page
         /\ page.batt = Battery => WithBattery(page) = page
  <1>1. page = [of |-> page.of, boxes |-> page.boxes, down |-> page.down, batt |-> page.batt]
        BY PageFields
  <1> DEFINE covered == {a \in page.boxes : \E b \in {} : SamePlace(a, b)}
             boxes == (page.boxes \ covered) \cup {}
             down == (page.down \ covered) \cup ({} \cap After)
  <1>2. boxes = page.boxes /\ down = page.down
        OBVIOUS
  <1>3. Redrawn(page, {}) = [page EXCEPT !.boxes = boxes, !.down = down]
        BY Zenon DEF Redrawn
  <1> HIDE DEF boxes, down
  <1>4. Redrawn(page, {}) = page
        BY <1>2, <1>3 DEF Page
  <1>5. page.batt = Battery => WithBattery(page) = page
        BY <1>1 DEF WithBattery, Page
  <1> QED BY <1>4, <1>5

LEMMA ShownKeepsPanel ==
  ASSUME PanelInv, NEW page, NEW isNew \in BOOLEAN, Show(page, isNew), ~isNew => page = frame, first' = first
  PROVE  PanelInv'
  <1>1. full' = FALSE
        BY DEF Show
  <1>2. first => panel' = frame'
        BY DEF PanelInv, Show
  <1> QED BY <1>1, <1>2 DEF PanelInv

\* A poll that reports no change has drawn what was there.
LEMMA NothingNew ==
  ASSUME TypeOK, Changed = {}, ~BatteryChanged
  PROVE  /\ WithBattery(frame) = frame
         /\ WithBattery(Redrawn(frame, DrawnByWait)) = frame
         /\ WithBattery(Redrawn(frame, Boxes(Changed))) = frame
  <1>1. frame \in Page /\ frame.batt = Battery
        BY DEF TypeOK, PageType, BatteryChanged
  <1>2. DrawnByWait = {} /\ Boxes(Changed) = {}
        BY DEF DrawnByWait, Boxes
  <1> QED BY <1>1, <1>2, DrawNothing

LEMMA PollKeepsPanel ==
  ASSUME TypeOK, PanelInv,
         PollWait \/ PollInfo \/ PollLowBattery \/ PollError \/ PollDownload \/ PollShipping
  PROVE  PanelInv'
  <1>1. first' = first
        BY DEF PollWait, PollInfo, PollLowBattery, PollError, PollDownload, PollShipping, UnchangedByPoll
  <1>2. CASE PollWait
        <2>1. Show(WithBattery(Redrawn(frame, DrawnByWait)), Changed # {} \/ BatteryChanged)
              BY <1>2 DEF PollWait
        <2> QED BY <1>1, <2>1, NothingNew, ShownKeepsPanel
  <1>3. CASE PollInfo
        <2>1. Show(WithBattery(Redrawn(frame, Boxes(Changed))), Changed # {} \/ BatteryChanged)
              BY <1>3 DEF PollInfo
        <2> QED BY <1>1, <2>1, NothingNew, ShownKeepsPanel
  <1>4. CASE PollLowBattery
        <2>1. Show(WithBattery(Redrawn(frame, Boxes(Changed))),
                   Changed # {} \/ BatteryChanged \/ low.level # level)
              BY <1>4 DEF PollLowBattery
        <2> QED BY <1>1, <2>1, NothingNew, ShownKeepsPanel
  <1>5. CASE PollError
        <2> DEFINE sleepy == error = "counting" /\ Passed >= Standby
                   moved == Changed # {} \/ BatteryChanged
                   page == WithBattery(frame)
                   shown == IF sleepy THEN [page EXCEPT !.boxes = {}, !.down = {}]
                            ELSE IF moved THEN Redrawn(page, {"continue"}) ELSE page
        <2>1. Show(shown, sleepy \/ moved)
              BY <1>5 DEF PollError
        <2>2. ~(sleepy \/ moved) => shown = frame
              BY NothingNew
        <2>3. (sleepy \/ moved) \in BOOLEAN
              OBVIOUS
        <2> HIDE DEF shown, sleepy, moved
        <2> QED BY <1>1, <2>1, <2>2, <2>3, ShownKeepsPanel
  <1>6. CASE PollDownload
        <2>1. Show(WithBattery(frame), (CurrentDownload.percent # download.percent \/ ModeSwitched)
                                       \/ Changed # {} \/ BatteryChanged)
              BY <1>6 DEF PollDownload
        <2> QED BY <1>1, <2>1, NothingNew, ShownKeepsPanel
  <1>7. CASE PollShipping
        <2>1. Show(frame, FALSE)
              BY <1>7 DEF PollShipping
        <2> QED BY <1>1, <2>1, ShownKeepsPanel
  <1> QED BY <1>2, <1>3, <1>4, <1>5, <1>6, <1>7

LEMMA SwitchKeepsPanel ==
  ASSUME TypeOK, PanelInv, ReceiveSwitch
  PROVE  PanelInv'
  <1>1. CASE Head(guiQ) = "FORCE"
        BY <1>1, SwitchedTo DEF ReceiveSwitch, SwitchForce, PanelInv
  <1>2. CASE Head(guiQ) # "FORCE"
        BY <1>2, SwitchedTo DEF ReceiveSwitch, SwitchDrawn, PanelInv
  <1> QED BY <1>1, <1>2

LEMMA PanelStep ==
  ASSUME TypeOK, PanelInv, [Next]_vars
  PROVE  PanelInv'
  <1>1. CASE UNCHANGED vars \/ BootTask \/ World
        <2>1. UNCHANGED <<gpc, screen, first, full, frame, panel>>
              BY <1>1, OthersKeepTheScreen DEF vars, guiVars, pageVars
        <2> QED BY <2>1 DEF PanelInv
  <1>2. CASE Cycle \/ ReceiveProcess \/ InTime \/ Expire \/ GoSleep
        BY <1>2 DEF Cycle, ReceiveProcess, InTime, Expire, GoSleep, pageVars, PanelInv
  <1>3. CASE PollForce
        BY <1>3 DEF PollForce, UnchangedByPoll, PanelInv
  <1> QED BY <1>1, <1>2, <1>3, PollKeepsPanel, SwitchKeepsPanel DEF Next, GuiTask, TurnOfGuiTask

\* Whenever the GUI task waits for an event, the e-paper panel shows the framebuffer: the results of
\* the poll functions and the two flags of guiCore_poll are enough to know when it must be sent.
THEOREM PanelShowsFrame == Spec => []PanelUpToDate
  <1>1. Init => PanelInv
        BY DEF Init, PanelInv
  <1>2. TypeOK /\ PanelInv /\ [Next]_vars => PanelInv'
        BY PanelStep
  <1>3. PanelInv => PanelUpToDate
        BY DEF PanelInv, PanelUpToDate
  <1> QED BY <1>1, <1>2, <1>3, ScreensTypeCorrect, PTL DEF Spec

-----------------------------------------------------------------------------
(* A touch acts once.                                                        *)

LEMMA TapStep ==
  ASSUME TypeOK, TapInv, [Next]_vars
  PROVE  TapInv'
  <1>0. taps \in 0..2
        BY DEF TypeOK, TouchType
  <1>1. CASE UNCHANGED vars \/ BootTask \/ World
        <2>1. UNCHANGED <<gpc, screen, touch, taps, nudged>>
              BY <1>1, OthersKeepTheScreen DEF vars, guiVars, touchVars
        <2> QED BY <2>1 DEF TapInv
  <1>2. CASE Cycle
        <2>1. taps' = 0
              BY <1>2 DEF Cycle, Untouched, Lift, Press, CheckTouchs
        <2> QED BY <2>1 DEF TapInv
  <1>3. CASE ReceiveSwitch
        <2>1. touch' = NoTouch \/ screen' = "FORCE"
              BY <1>3, SwitchedTo DEF SwitchDrawn
        <2>2. NoTouch.state = "none"
              BY DEF NoTouch
        <2>3. UNCHANGED <<taps, nudged>>
              BY <1>3 DEF ReceiveSwitch
        <2> QED BY <2>1, <2>2, <2>3 DEF TapInv
  <1>4. CASE ReceiveProcess
        BY <1>4 DEF ReceiveProcess, TapInv
  <1>5. CASE InTime \/ Expire \/ GoSleep
        BY <1>5 DEF InTime, Expire, GoSleep, touchVars, TapInv
  <1>6. CASE PollShipping \/ PollForce
        BY <1>6 DEF PollShipping, PollForce, UnchangedByPoll, TapInv
  <1>7. CASE PollWait \/ PollInfo \/ PollLowBattery \/ PollError \/ PollDownload
        <2>1. /\ gpc = "poll" /\ gpc' = "receive" /\ nudged' = nudged /\ screen # "FORCE"
              /\ taps' = taps \/ (touch.state = "released" /\ taps' = IF taps < 2 THEN taps + 1 ELSE 2)
              BY <1>7 DEF PollWait, PollInfo, PollLowBattery, PollError, PollDownload, Polls, Handle,
                          UnchangedByPoll
        <2> QED BY <1>0, <2>1 DEF TapInv
  <1> QED BY <1>1, <1>2, <1>3, <1>4, <1>5, <1>6, <1>7 DEF Next, GuiTask, TurnOfGuiTask

\* One look at the touch panel runs one handler of a released button at most, on whatever screen it
\* leads to, unless an event that switches no screen has the touch polled again.
THEOREM ReleaseActsOnce == Spec => []TapActsOnce
  <1>1. Init => TapInv
        BY DEF Init, TapInv
  <1>2. TypeOK /\ TapInv /\ [Next]_vars => TapInv'
        BY TapStep
  <1>3. TapInv => TapActsOnce
        BY DEF TapInv, TapActsOnce
  <1> QED BY <1>1, <1>2, <1>3, ScreensTypeCorrect, PTL DEF Spec

-----------------------------------------------------------------------------
(* What is drawn is what reacts.                                             *)

\* A screen that the boot task or a button asks for is in the queue, or the queue was full.
LEMMA AsksForScreen ==
  ASSUME TypeOK, NEW e \in Screen, ToGui(e)
  PROVE  Switches(guiQ') \/ lost'
  <1>1. guiQ \in Seq(Screen \cup {"process"}) /\ e # "none" /\ e # "process" /\ Len(guiQ) \in Nat
        BY DEF TypeOK, QueueType, Screen
  <1>2. CASE Len(guiQ) = GuiLen
        BY <1>1, <1>2 DEF ToGui
  <1>3. CASE Len(guiQ) # GuiLen
        <2>1. guiQ' = Append(guiQ, e)
              BY <1>1, <1>3 DEF ToGui
        <2>2. e \in Screen \cup {"process"}
              OBVIOUS
        <2>3. Len(guiQ') = Len(guiQ) + 1 /\ guiQ'[Len(guiQ) + 1] = e /\ DOMAIN guiQ' = 1..(Len(guiQ) + 1)
              BY <1>1, <2>1, <2>2
        <2> QED BY <1>1, <2>3 DEF Switches
  <1> QED BY <1>2, <1>3

LEMMA ProcessAsksNothing ==
  ASSUME NEW q \in Seq(Screen \cup {"process"}), q # <<>>, Head(q) = "process", Switches(q)
  PROVE  Switches(Tail(q))
  <1>1. PICK i \in DOMAIN q : q[i] # "process"
        BY DEF Switches
  <1>2. i \in 1..Len(q) /\ Len(q) \in Nat /\ q[1] = "process" /\ i # 1
        BY <1>1
  <1>3. i - 1 \in DOMAIN Tail(q) /\ Tail(q)[i - 1] = q[i]
        BY <1>2
  <1> QED BY <1>1, <1>3 DEF Switches

\* Whoever waits for a page, the drop of its event is only felt with a queue that holds others.
LEMMA LostBehindOthers ==
  ASSUME TypeOK, ~lost, NEW e, ToGui(e), lost'
  PROVE  guiQ' # <<>>
  <1>1. Len(guiQ) = GuiLen /\ guiQ' = guiQ
        BY DEF ToGui
  <1>2. Len(guiQ) # 0
        BY <1>1, BoundAssumption
  <1> QED BY <1>1, <1>2

LEMMA LostStep ==
  ASSUME TypeOK, ~lost, Next
  PROVE  lost' => guiQ' # <<>>
  <1>1. CASE BootTask
        <2>1. (\E e \in Screen \cup {"process", "none"} : ToGui(e)) \/ lost' = lost
              BY <1>1 DEF BootTask, StepOfBootTask, Start, Process, StartFails, StartReady, StartLeaves, ShowError,
                          GoBL, ToMF, Stay, BootToMFFirst, ClearDownload, Report, queues, Screen
        <2> QED BY <2>1, LostBehindOthers
  <1>2. CASE World
        BY <1>2 DEF World, Charge, Plug, Fetch, Wrap, Change, queues
  <1>3. CASE Cycle \/ ReceiveSwitch \/ ReceiveProcess \/ InTime \/ GoSleep \/ PollShipping \/ PollForce
        BY <1>3 DEF Cycle, ReceiveSwitch, ReceiveProcess, InTime, GoSleep, PollShipping, PollForce, queues
  <1>4. CASE Expire
        <2>1. ToGui("SHIPPING") \/ lost' = lost
              BY <1>4 DEF Expire, TimeoutToBoot
        <2> QED BY <2>1, LostBehindOthers
  <1>5. CASE PollWait \/ PollInfo \/ PollLowBattery \/ PollError \/ PollDownload
        <2>1. ToGui(GuiEventOf(Act))
              BY <1>5 DEF PollWait, PollInfo, PollLowBattery, PollError, PollDownload, Handle
        <2> QED BY <2>1, LostBehindOthers
  <1> QED BY <1>1, <1>2, <1>3, <1>4, <1>5 DEF Next, GuiTask, TurnOfGuiTask

\* Drawing the boxes that changed leaves all boxes of the page, each as its flag says.
LEMMA RedrawnAgrees ==
  ASSUME TypeOK, NEW page \in Page, NEW bs, Boxes(Changed) \subseteq bs, bs \subseteq Boxes(Buttons),
         page.boxes = Boxes(Buttons), page.down = pressed \cap page.boxes
  PROVE  /\ Redrawn(page, bs).of = page.of
         /\ Redrawn(page, bs).boxes = Boxes(Buttons)
         /\ Redrawn(page, bs).down = After \cap Boxes(Buttons)
  <1> DEFINE covered == {a \in page.boxes : \E b \in bs : SamePlace(a, b)}
             boxes == (page.boxes \ covered) \cup bs
             down == (page.down \ covered) \cup (bs \cap After)
  <1>1. Redrawn(page, bs) = [page EXCEPT !.boxes = boxes, !.down = down]
        BY Zenon DEF Redrawn
  <1>2. covered = bs
    <2>1. TableOf(screen) \in DOMAIN Table
          BY TableOfType DEF TypeOK, PlaceType
    <2>2. ASSUME NEW a \in page.boxes, NEW b \in bs, SamePlace(a, b) PROVE a = b
          BY <2>1, <2>2, PlacesApart DEF Buttons
    <2>3. ASSUME NEW b \in bs PROVE SamePlace(b, b)
          BY DEF SamePlace
    <2> QED BY <2>2, <2>3
  <1>3. boxes = Boxes(Buttons)
        BY <1>2
  <1>4. down = After \cap Boxes(Buttons)
    <2>1. ASSUME NEW b \in Boxes(Buttons), b \notin bs PROVE b \in pressed <=> b \in After
          BY <2>1 DEF Boxes, Changed
    <2> QED BY <1>2, <2>1
  <1> HIDE DEF boxes, down
  <1> QED BY <1>1, <1>3, <1>4 DEF Page

LEMMA WithBatteryAgrees ==
  ASSUME NEW page \in Page
  PROVE  /\ WithBattery(page).of = page.of /\ WithBattery(page).boxes = page.boxes
         /\ WithBattery(page).down = page.down
  BY DEF WithBattery, Page

\* The screen that waits draws from the first button that changed; all of its buttons are boxes.
LEMMA DrawnByWaitAgrees ==
  ASSUME TypeOK, screen = "WAIT"
  PROVE  Boxes(Changed) \subseteq DrawnByWait /\ DrawnByWait \subseteq Boxes(Buttons)
  <1> DEFINE t == Table[TableOf("WAIT")]
  <1>1. TableOf("WAIT") \in {"noMF", "started"}
        BY DEF TableOf
  <1>2. Boxes(Buttons) = Buttons
        <2>1. ButtonsOf("noMF") = {"noMFDownload", "noMFOff"} /\ ButtonsOf("started") = {"exit", "download", "off"}
              BY DEF ButtonsOf, Table
        <2> QED BY <1>1, <2>1, BoxTables DEF Buttons
  <1>3. DrawnByWait \subseteq Buttons
        BY DEF DrawnByWait, Buttons, ButtonsOf
  <1>4. DOMAIN t = 1..Len(t) /\ Len(t) \in Nat
        BY <1>1 DEF Table
  <1>5. Changed \subseteq DrawnByWait
    <2> SUFFICES ASSUME NEW b \in Changed PROVE b \in DrawnByWait
        OBVIOUS
    <2>1. b \in Buttons
          BY DEF Changed
    <2>2. PICK i \in DOMAIN t : t[i] = b
          BY <2>1 DEF Buttons, ButtonsOf
    <2>3. i \in 1..i
          BY <1>4
    <2> HIDE DEF t
    <2>4. \E k \in 1..i : t[k] \in Changed
          BY <2>2, <2>3
    <2> QED BY <2>2, <2>4 DEF DrawnByWait, t
  <1> QED BY <1>2, <1>3, <1>5 DEF Boxes

\* A step that asks for a screen leaves nothing settled.
LEMMA AskingUnsettles ==
  ASSUME TypeOK, NEW e \in Screen, ToGui(e)
  PROVE  ~Settled'
  BY AsksForScreen DEF Settled, Switches

LEMMA BootTaskAgrees ==
  ASSUME TypeOK, ~lost, DrawnInv, BootTask, Settled'
  PROVE  /\ frame'.of = screen' /\ frame'.boxes = Boxes(Buttons)'
         /\ frame'.down = pressed' \cap frame'.boxes
  <1>1. UNCHANGED <<screen, first, frame, pressed, limit>>
        BY OthersKeepTheScreen DEF pageVars
  <1>2. bpc' = "wait"
        BY DEF Settled
  <1>3. {"LOW_BATTERY", "ERROR", "WAIT", "FORCE"} \subseteq Screen
        BY DEF Screen
  <1>4. CASE Start \/ Process \/ StartLeaves \/ ClearDownload
        BY <1>2, <1>4 DEF Start, Process, StartLeaves, ClearDownload, bootVars
  <1>5. CASE StartFails
        <2>1. PICK e \in {"LOW_BATTERY", "ERROR", "WAIT"} : ToGui(e)
              BY <1>5 DEF StartFails, Report
        <2> QED BY <1>3, <2>1, AskingUnsettles
  <1>6. CASE StartReady
        <2>1. PICK e \in {"FORCE", "WAIT", "ERROR"} : ToGui(e)
              BY <1>2, <1>6 DEF StartReady, Report
        <2> QED BY <1>3, <2>1, AskingUnsettles
  <1>7. CASE ShowError \/ GoBL \/ Stay
        <2>1. PICK e \in {"ERROR", "WAIT"} : ToGui(e)
              BY <1>7 DEF ShowError, GoBL, Stay
        <2> QED BY <1>3, <2>1, AskingUnsettles
  <1>8. CASE ToMF
        <2>1. ToGui("WAIT")
              BY <1>2, <1>8 DEF ToMF
        <2> QED BY <1>3, <2>1, AskingUnsettles
  <1>9. CASE BootToMFFirst
        <2>1. UNCHANGED <<guiQ, lost, bpc, valid>>
              BY <1>9 DEF BootToMFFirst, bootVars
        <2>2. Settled
              BY <1>1, <2>1 DEF Settled, Switches
        <2> QED BY <1>1, <2>1, <2>2 DEF DrawnInv, Buttons, TableOf
  <1> QED BY <1>4, <1>5, <1>6, <1>7, <1>8, <1>9 DEF BootTask, StepOfBootTask

LEMMA SwitchAgrees ==
  ASSUME TypeOK, ReceiveSwitch, Settled'
  PROVE  /\ frame'.of = screen' /\ frame'.boxes = Boxes(Buttons)'
         /\ frame'.down = pressed' \cap frame'.boxes
  <1>1. Head(guiQ) # "FORCE"
        BY SwitchedTo DEF Settled
  <1>2. SwitchDrawn(Head(guiQ)) /\ screen' = Head(guiQ)
        BY <1>1, SwitchedTo
  <1>3. valid' = valid
        BY DEF ReceiveSwitch, bootVars
  <1>4. Buttons' = ButtonsOf(TableOf(Head(guiQ)))
        BY <1>2, <1>3 DEF Buttons, TableOf
  <1>5. /\ frame'.of = Head(guiQ) /\ frame'.boxes = Boxes(ButtonsOf(TableOf(Head(guiQ))))
        /\ frame'.down = {} /\ pressed' = {}
        BY <1>2 DEF SwitchDrawn, DrawPage
  <1> QED BY <1>2, <1>4, <1>5

\* The steps that change nothing of the page.
LEMMA SameAgrees ==
  ASSUME TypeOK, DrawnInv, Settled', UNCHANGED <<screen, first, frame, pressed, limit, bpc, valid, lost>>,
         Switches(guiQ) => Switches(guiQ')
  PROVE  /\ frame'.of = screen' /\ frame'.boxes = Boxes(Buttons)'
         /\ frame'.down = pressed' \cap frame'.boxes
  <1>1. Settled
        BY DEF Settled, Switches
  <1> QED BY <1>1 DEF DrawnInv, Buttons, TableOf

\* A poll whose handler asks for no screen was settled before it.
LEMMA PollSettled ==
  ASSUME TypeOK, ~lost, Settled', ToGui(GuiEventOf(Act)), UNCHANGED <<bpc, valid, screen, first>>, limit # 0
  PROVE  Settled /\ Buttons' = Buttons /\ screen' = screen
  <1>1. GuiEventOf(Act) = "none"
        BY ActType, AskingUnsettles
  <1>2. guiQ' = guiQ
        BY <1>1 DEF ToGui
  <1>3. Settled
        BY <1>2 DEF Settled, Switches
  <1> QED BY <1>3 DEF Buttons, TableOf

LEMMA PollAgrees ==
  ASSUME TypeOK, ~lost, DrawnInv, Settled',
         PollWait \/ PollInfo \/ PollLowBattery \/ PollError \/ PollDownload
  PROVE  /\ frame'.of = screen' /\ frame'.boxes = Boxes(Buttons)'
         /\ frame'.down = pressed' \cap frame'.boxes
  <1>1. /\ UNCHANGED <<bpc, valid, screen, first>> /\ ToGui(GuiEventOf(Act)) /\ pressed' = After
        /\ limit' = limit \/ limit' = 0
        BY DEF PollWait, PollInfo, PollLowBattery, PollError, PollDownload, Polls, Handle, UnchangedByPoll,
               bootVars, timeVars
  <1>2. limit' # 0
        BY DEF Settled
  <1>3. Settled /\ Buttons' = Buttons /\ screen' = screen
        BY <1>1, <1>2, PollSettled
  <1>4. /\ frame \in Page /\ frame.of = screen /\ frame.boxes = Boxes(Buttons)
        /\ frame.down = pressed \cap frame.boxes
        BY <1>3 DEF DrawnInv, TypeOK, PageType
  <1>5. Boxes(Buttons)' = Boxes(Buttons)
        BY <1>3 DEF Boxes
  <1>6. Boxes(Changed) \subseteq Boxes(Buttons) /\ Boxes(Buttons) \subseteq DOMAIN Button
        BY ButtonsType DEF Boxes
  <1>7. ASSUME NEW page \in Page, page.of = screen, page.boxes = Boxes(Buttons),
               page.down = After \cap Boxes(Buttons), frame' = page
        PROVE  /\ frame'.of = screen' /\ frame'.boxes = Boxes(Buttons)'
               /\ frame'.down = pressed' \cap frame'.boxes
        BY <1>1, <1>3, <1>5, <1>7
  <1>8. ASSUME NEW bs, Boxes(Changed) \subseteq bs, bs \subseteq Boxes(Buttons),
               frame' = WithBattery(Redrawn(frame, bs))
        PROVE  /\ frame'.of = screen' /\ frame'.boxes = Boxes(Buttons)'
               /\ frame'.down = pressed' \cap frame'.boxes
        <2>1. Redrawn(frame, bs) \in Page
              BY <1>4, <1>6, <1>8, RedrawnType
        <2>2. WithBattery(Redrawn(frame, bs)) \in Page
              BY <2>1, WithBatteryType
        <2> QED BY <1>4, <1>7, <1>8, <2>1, <2>2, RedrawnAgrees, WithBatteryAgrees
  <1>9. ASSUME Boxes(Changed) = {}, frame' = WithBattery(frame)
        PROVE  /\ frame'.of = screen' /\ frame'.boxes = Boxes(Buttons)'
               /\ frame'.down = pressed' \cap frame'.boxes
        <2>1. pressed \cap Boxes(Buttons) = After \cap Boxes(Buttons)
              BY <1>9 DEF Boxes, Changed
        <2> QED BY <1>4, <1>7, <1>9, <2>1, WithBatteryType, WithBatteryAgrees
  <1>10. CASE PollWait
         BY <1>8, <1>10, DrawnByWaitAgrees DEF PollWait, Polls, Show
  <1>11. CASE PollInfo
         BY <1>6, <1>8, <1>11 DEF PollInfo, Show
  <1>12. CASE PollLowBattery
         BY <1>6, <1>8, <1>12 DEF PollLowBattery, Show
  <1>13. CASE PollDownload
         <2>1. screen = "DOWNLOAD" /\ frame' = WithBattery(frame)
               BY <1>13 DEF PollDownload, Polls, Show
         <2>2. Boxes(Buttons) = {}
               BY <2>1, BoxTables DEF Buttons, TableOf
         <2> QED BY <1>6, <1>9, <2>1, <2>2
  <1>14. CASE PollError
         <2> DEFINE moved == Changed # {} \/ BatteryChanged
         <2>1. screen = "ERROR" /\ limit' # 0
               BY <1>2, <1>14 DEF PollError, Polls
         <2>2. frame' = IF moved THEN Redrawn(WithBattery(frame), {"continue"}) ELSE WithBattery(frame)
               BY <2>1, <1>14 DEF PollError, Show
         <2>3. Boxes(Buttons) = {"continue"}
               BY <2>1, BoxTables DEF Buttons, TableOf
         <2>4. CASE moved
               <3>1. WithBattery(frame) \in Page
                     BY <1>4, WithBatteryType
               <3>2. Redrawn(WithBattery(frame), {"continue"}) \in Page
                     BY <1>6, <2>3, <3>1, RedrawnType
               <3> QED BY <1>4, <1>6, <1>7, <2>2, <2>3, <2>4, <3>1, <3>2, RedrawnAgrees, WithBatteryAgrees
         <2>5. CASE ~moved
               <3>1. Boxes(Changed) = {}
                     BY <2>5 DEF Boxes
               <3> QED BY <1>9, <2>2, <2>5, <3>1
         <2> QED BY <2>4, <2>5
  <1> QED BY <1>10, <1>11, <1>12, <1>13, <1>14

LEMMA DrawnStep ==
  ASSUME TypeOK, DrawnInv, [Next]_vars
  PROVE  DrawnInv'
  <1> DEFINE Agrees == /\ frame.of = screen /\ frame.boxes = Boxes(Buttons)
                       /\ frame.down = pressed \cap frame.boxes
  <1>1. CASE UNCHANGED vars
        <2>1. UNCHANGED <<guiQ, lost, screen, first, frame, pressed, limit, bpc, valid>>
              BY <1>1 DEF vars, queues, guiVars, pageVars, timeVars, bootVars
        <2> QED BY <2>1 DEF DrawnInv, Settled, Switches, Buttons, TableOf
  <1>2. CASE Next
    <2>1. ~lost /\ (lost' => guiQ' # <<>>)
          BY <1>2, LostStep DEF Next
    <2> SUFFICES ASSUME Settled' PROVE Agrees'
        BY <2>1 DEF DrawnInv
    <2>2. CASE BootTask
          BY <2>1, <2>2, BootTaskAgrees
    <2>3. CASE World
          <3>1. UNCHANGED <<screen, first, frame, pressed, limit, bpc, valid, lost, guiQ>>
                BY <2>3 DEF World, Charge, Plug, Fetch, Wrap, Change, guiVars, pageVars, timeVars, bootVars, queues
          <3> QED BY <3>1, SameAgrees
    <2>4. CASE ReceiveSwitch
          BY <2>4, SwitchAgrees
    <2>5. CASE ReceiveProcess
          <3>1. UNCHANGED <<screen, first, frame, pressed, limit, bpc, valid, lost>>
                BY <2>5 DEF ReceiveProcess, pageVars, timeVars, bootVars
          <3>2. Switches(guiQ) => Switches(guiQ')
                BY <2>5, ProcessAsksNothing DEF ReceiveProcess, TypeOK, QueueType
          <3> QED BY <3>1, <3>2, SameAgrees
    <2>6. CASE Cycle \/ InTime \/ GoSleep
          <3>1. UNCHANGED <<screen, first, frame, pressed, limit, bpc, valid, lost, guiQ>>
                BY <2>6 DEF Cycle, InTime, GoSleep, pageVars, timeVars, bootVars, queues
          <3> QED BY <3>1, SameAgrees
    <2>7. CASE Expire
          <3>1. ~ToGui("SHIPPING")
                BY AskingUnsettles DEF Screen
          <3>2. UNCHANGED <<screen, first, frame, pressed, limit, bpc, valid, lost, guiQ>>
                BY <2>7, <3>1 DEF Expire, TimeoutToBoot, pageVars, bootVars
          <3> QED BY <3>2, SameAgrees
    <2>8. CASE PollWait \/ PollInfo \/ PollLowBattery \/ PollError \/ PollDownload
          BY <2>1, <2>8, PollAgrees
    <2>9. CASE PollShipping
          <3>1. UNCHANGED <<screen, first, frame, pressed, limit, bpc, valid, lost, guiQ>>
                BY <2>9 DEF PollShipping, Show, UnchangedByPoll, timeVars, bootVars, queues
          <3> QED BY <3>1, SameAgrees
    <2>10. CASE PollForce
           BY <2>10 DEF PollForce, UnchangedByPoll, Settled
    <2> QED BY <1>2, <2>2, <2>3, <2>4, <2>5, <2>6, <2>7, <2>8, <2>9, <2>10 DEF Next, GuiTask, TurnOfGuiTask
  <1> QED BY <1>1, <1>2

\* When all is quiet the user sees the buttons that react and no other, each drawn as its flag says,
\* on every screen, also on the one whose buttons depend on what the boot task found.
THEOREM ReactsAsItIsDrawn == Spec => []ReactsAsDrawn
  <1>1. Init => DrawnInv
        BY DEF Init, DrawnInv, Settled
  <1>2. TypeOK /\ DrawnInv /\ [Next]_vars => DrawnInv'
        BY DrawnStep
  <1>3. TypeOK /\ DrawnInv /\ PanelUpToDate => ReactsAsDrawn
    <2> SUFFICES ASSUME DrawnInv, PanelUpToDate, Quiet, first, limit # 0
                 PROVE  panel.boxes = Boxes(Buttons) /\ panel.down = pressed \cap panel.boxes
        BY DEF ReactsAsDrawn
    <2>1. panel = frame /\ guiQ = <<>> /\ bpc = "wait" /\ screen # "FORCE"
          BY DEF PanelUpToDate, Quiet
    <2>2. ~Switches(guiQ) /\ ~lost
          BY <2>1 DEF Switches, DrawnInv
    <2>3. Settled
          BY <2>1, <2>2 DEF Settled
    <2> QED BY <2>1, <2>3 DEF DrawnInv
  <1> QED BY <1>1, <1>2, <1>3, ScreensTypeCorrect, PanelShowsFrame, PTL DEF Spec

-----------------------------------------------------------------------------
(* A device that is left alone turns off.                                    *)

\* What the polls do to the time and to the limit.
LEMMA PollTime ==
  ASSUME PollWait \/ PollInfo \/ PollLowBattery \/ PollError \/ PollDownload \/ PollShipping \/ PollForce
  PROVE  /\ gpc = "poll" /\ gpc' \in {"receive", "off"} /\ UNCHANGED <<cycling, screen, first, lastTouch, touch,
                                                                       finger, level, charger, fw, assets>>
         /\ age' = age \/ age' = 0
         /\ limit' = limit \/ limit' = 0
         /\ screen # "FORCE" => full' = FALSE
  <1>1. CASE PollWait
        BY <1>1 DEF PollWait, Polls, Show, UnchangedByPoll, fingerVars, worldVars, timeVars
  <1>2. CASE PollInfo
        BY <1>2 DEF PollInfo, Polls, Show, UnchangedByPoll, fingerVars, worldVars, timeVars
  <1>3. CASE PollLowBattery
        BY <1>3 DEF PollLowBattery, Polls, Show, UnchangedByPoll, fingerVars, worldVars, Refresh, KeepTime
  <1>4. CASE PollError
        BY <1>4 DEF PollError, Polls, Show, UnchangedByPoll, fingerVars, worldVars, KeepTime
  <1>5. CASE PollDownload
        BY <1>5 DEF PollDownload, Polls, Show, UnchangedByPoll, fingerVars, worldVars, Refresh, KeepTime
  <1>6. CASE PollShipping
        BY <1>6 DEF PollShipping, Show, UnchangedByPoll, fingerVars, worldVars, timeVars
  <1>7. CASE PollForce
        BY <1>7 DEF PollForce, UnchangedByPoll, fingerVars, worldVars, Refresh, KeepTime
  <1> QED BY <1>1, <1>2, <1>3, <1>4, <1>5, <1>6, <1>7

LEMMA AgeStep ==
  ASSUME TypeOK, PanelInv, AgeInv, [Next]_vars
  PROVE  AgeInv'
  <1> DEFINE W == Limit["WAIT"]
  <1>0. W \in Nat /\ age \in Nat /\ limit \in Nat /\ limit <= W
        BY TimeAssumption DEF TypeOK, TimeType, AgeInv
  <1>1. CASE UNCHANGED vars \/ BootTask \/ World
        <2>1. UNCHANGED <<gpc, cycling, screen, first, full, age, limit>>
              BY <1>1, OthersKeepTheScreen DEF vars, guiVars, pageVars, timeVars
        <2> QED BY <2>1 DEF AgeInv
  <1>2. CASE Cycle
        <2>1. /\ gpc = "receive" /\ cycling /\ age' = age + 1 /\ gpc' = "check"
              /\ UNCHANGED <<limit, cycling, screen, first, full>>
              BY <1>2 DEF Cycle, pageVars
        <2>2. screen # "FORCE" => ~full
              BY <2>1 DEF AgeInv, PanelInv
        <2>3. age <= W
              BY <2>1, <1>0 DEF AgeInv
        <2> QED BY <1>0, <2>1, <2>2, <2>3 DEF AgeInv
  <1>3. CASE ReceiveSwitch
        <2>1. limit' <= W
              BY <1>0, <1>3, LimitType DEF ReceiveSwitch, NewLimit
        <2>2. age' = 0 /\ cycling' = TRUE
              BY <1>3 DEF ReceiveSwitch, Refresh
        <2>3. screen' # "FORCE" => first' = TRUE
              BY <1>3, SwitchedTo DEF SwitchDrawn
        <2> QED BY <1>0, <2>1, <2>2, <2>3 DEF AgeInv
  <1>4. CASE ReceiveProcess
        BY <1>0, <1>4 DEF ReceiveProcess, timeVars, pageVars, AgeInv
  <1>5. CASE InTime
        <2>1. /\ gpc = "check" /\ gpc' = "poll" /\ ~(Checked /\ Passed >= limit)
              /\ UNCHANGED <<age, limit, cycling, screen, first, full>>
              BY <1>5 DEF InTime, Expires, timeVars, pageVars
        <2>2. Checked => age <= W
              BY <1>0, <2>1, PassedBounds
        <2>3. ~Checked => age = 0
              BY DEF Checked, AgeInv
        <2> QED BY <1>0, <2>1, <2>2, <2>3 DEF AgeInv
  <1>6. CASE Expire
        <2>1. age' = 0 /\ UNCHANGED <<limit, cycling, screen, first, full>>
              BY <1>6 DEF Expire, Refresh, pageVars
        <2> QED BY <1>0, <2>1 DEF AgeInv
  <1>7. CASE GoSleep
        BY <1>0, <1>7 DEF GoSleep, timeVars, pageVars, AgeInv
  <1>8. CASE PollWait \/ PollInfo \/ PollLowBattery \/ PollError \/ PollDownload \/ PollShipping \/ PollForce
        <2>1. gpc = "poll" /\ gpc' \in {"receive", "off"} /\ UNCHANGED <<cycling, screen, first>>
              BY <1>8, PollTime
        <2>2. (age' = age \/ age' = 0) /\ (limit' = limit \/ limit' = 0) /\ (screen # "FORCE" => full' = FALSE)
              BY <1>8, PollTime
        <2>3. age <= W
              BY <1>0, <2>1 DEF AgeInv
        <2>4. limit' <= W /\ age' <= W
              BY <1>0, <2>2, <2>3
        <2>5. cycling' /\ screen' # "FORCE" => first'
              BY <2>1 DEF AgeInv
        <2>6. ~cycling' \/ (screen' # "FORCE" /\ full') => age' = 0
              BY <2>1, <2>2 DEF AgeInv
        <2>7. age' \in Nat
              BY <1>0, <2>2
        <2>8. age' <= W + (IF gpc' \in {"check", "off"} THEN 1 ELSE 0)
              BY <1>0, <2>4, <2>7
        <2> QED BY <2>4, <2>5, <2>6, <2>8 DEF AgeInv
  <1> QED BY <1>1, <1>2, <1>3, <1>4, <1>5, <1>6, <1>7, <1>8 DEF Next, GuiTask, TurnOfGuiTask

(* Nobody touches the panel. *)

LEMMA NoButtonAtNowhere ==
  ASSUME NEW b \in DOMAIN Button, NEW p, Hits(b, p)
  PROVE  p # Nowhere
  <1>1. Button[b].x \in Nat /\ Button[b].x >= 8 /\ Button[b].w \in Nat
        BY DEF Button, Box, Area
  <1>2. p.x >= 8
        BY <1>1 DEF Hits
  <1> QED BY <1>2 DEF Nowhere

LEMMA NoTouchNoButton ==
  ASSUME touch.state = "none"
  PROVE  /\ Act = "none" /\ GuiEventOf(Act) = "none" /\ BootEventOf(Act) = "none"
         /\ Called(Buttons, touch, pressed) = {} /\ After = pressed \ Buttons
  <1>1. Called(Buttons, touch, pressed) = {} /\ After = pressed \ Buttons
        BY DEF Called, After, PressedAfter
  <1>2. Act = "none"
        BY <1>1 DEF Act
  <1> QED BY <1>1, <1>2 DEF GuiEventOf, BootEventOf, Screen

LEMMA WithEventKeeps ==
  ASSUME NEW q \in Seq(BootEvent), NEW e \in BootEvent \cup {"none"}
  PROVE  /\ q # <<>> => WithEvent(q, e) # <<>>
         /\ e # "none" => WithEvent(q, e) # <<>>
  <1>1. CASE e = "none" \/ Len(q) = BootLen
        BY <1>1, BoundAssumption DEF WithEvent
  <1>2. CASE ~(e = "none" \/ Len(q) = BootLen)
        <2>1. e \in BootEvent /\ WithEvent(q, e) = Append(q, e)
              BY <1>2 DEF WithEvent
        <2> QED BY <2>1, AppendType
  <1> QED BY <1>1, <1>2

\* What a step of a poll does for a device that is left alone.
LEMMA PollAlone ==
  ASSUME TypeOK, touch.state = "none",
         PollWait \/ PollInfo \/ PollLowBattery \/ PollError \/ PollDownload \/ PollShipping \/ PollForce
  PROVE  /\ guiQ' = guiQ
         /\ bootQ # <<>> => bootQ' # <<>>
  <1>0. bootQ \in Seq(BootEvent) /\ Len(bootQ) <= BootLen
        BY DEF TypeOK, QueueType
  <1>1. CASE PollWait \/ PollInfo \/ PollLowBattery \/ PollError \/ PollDownload
        <2>1. PICK e \in BootEvent \cup {"none"} : Handle(e)
              BY <1>1, NoneType DEF PollWait, PollInfo, PollLowBattery, PollError, PollDownload
        <2>2. guiQ' = guiQ
              BY <2>1, NoTouchNoButton DEF Handle, ToGui
        <2>3. bootQ' = WithEvent(WithEvent(bootQ, e), "none")
              BY <2>1, NoTouchNoButton DEF Handle
        <2>4. WithEvent(bootQ, e) \in Seq(BootEvent)
              BY <1>0, WithEventType
        <2> QED BY <1>0, <2>2, <2>3, <2>4, WithEventKeeps
  <1>2. CASE PollShipping
        BY <1>2 DEF PollShipping, queues
  <1>3. CASE PollForce
        <2>1. (IF Held THEN "goBL" ELSE "none") \in BootEvent \cup {"none"}
              BY DEF BootEvent
        <2> QED BY <1>0, <1>3, <2>1, WithEventKeeps DEF PollForce
  <1> QED BY <1>1, <1>2, <1>3

\* Looking twice at a download that stands still shows what was shown.
LEMMA StoppedAfterLook ==
  ASSUME TypeOK, PollDownload
  PROVE  Stopped'
  <1> DEFINE d == CurrentDownload
  <1>1. download' = d /\ UNCHANGED <<fw, assets>>
        BY WorldKept DEF PollDownload
  <1>2. d.fw = fw /\ d.assets = assets /\ d.mode # "init"
        BY CurrentDownloadType
  <1>3. ASSUME NEW l \in Int, NEW last \in Int
        PROVE  ToPercent(l, ToPercent(l, last)) = ToPercent(l, last)
        BY <1>3, BoundAssumption DEF ToPercent
  <1>4. fw \in Int /\ assets \in Int
        BY LoadedType DEF TypeOK, WorldType
  <1>5. PICK last \in Int : d.percent = CASE d.mode = "fw" -> ToPercent(fw, last)
                                          [] d.mode = "assets" -> ToPercent(assets, last)
                                          [] OTHER -> last
    <2> DEFINE begin == IF download.mode = "init"
                        THEN [download EXCEPT !.mode = "none", !.fw = fw, !.assets = assets] ELSE download
               mode == IF begin.assets # assets THEN "assets" ELSE IF begin.fw # fw THEN "fw" ELSE begin.mode
               percent == CASE mode = "fw" -> ToPercent(fw, begin.percent)
                            [] mode = "assets" -> ToPercent(assets, begin.percent)
                            [] OTHER -> begin.percent
    <2>1. begin.percent \in Int
          BY BoundAssumption DEF TypeOK, StaticType
    <2>2. CurrentDownload = [mode |-> mode, fw |-> fw, assets |-> assets, percent |-> percent]
          BY DEF CurrentDownload
    <2> HIDE DEF begin, mode
    <2> QED BY <2>1, <2>2
  <1> HIDE DEF d
  <1>6. CurrentDownload' = [mode |-> d.mode, fw |-> fw, assets |-> assets,
                            percent |-> CASE d.mode = "fw" -> ToPercent(fw, d.percent)
                                          [] d.mode = "assets" -> ToPercent(assets, d.percent)
                                          [] OTHER -> d.percent]
        BY <1>1, <1>2 DEF CurrentDownload
  <1>7. CurrentDownload'.percent = d.percent
    <2>1. CASE d.mode = "fw"
          BY <1>3, <1>4, <1>5, <1>6, <2>1
    <2>2. CASE d.mode = "assets"
          BY <1>3, <1>4, <1>5, <1>6, <2>2
    <2>3. CASE d.mode \notin {"fw", "assets"}
          BY <1>6, <2>3
    <2> QED BY <2>1, <2>2, <2>3
  <1> QED BY <1>1, <1>2, <1>7 DEF Stopped

LEMMA AloneCycle ==
  ASSUME TypeOK, AloneInv, ~lost, Cycle
  PROVE  AloneInv'
  <1>1. /\ gpc = "receive" /\ guiQ = <<>> /\ gpc' = "check"
        /\ UNCHANGED <<guiQ, screen, charger, download, fw, assets>>
        BY DEF Cycle, queues, worldVars
  <1>2. Kept \in Touch /\ (finger = Nowhere => Kept.state = "none")
    <2>1. lastTouch \in Touch /\ lastTouch.state \in {"none", "pressed", "released"}
          BY DEF TypeOK, TouchType, Touch
    <2>2. finger = Nowhere => lastTouch.state # "pressed"
          BY DEF AloneInv
    <2> QED BY <2>1, <2>2, KeptType DEF Kept, NoTouch
  <1>3. ASSUME NEW t, NEW p PROVE AddTouch(t, Up(p)).state = "released"
        BY DEF AddTouch, Up
  <1>4. finger' = Nowhere => lastTouch'.state # "pressed"
    <2>1. CASE Untouched
          BY <1>2, <2>1 DEF Untouched, CheckTouchs, fingerVars
    <2>2. CASE Lift
          BY <1>3, <2>2 DEF Lift, CheckTouchs
    <2>3. CASE \E p \in Points : Press(p)
      <3>1. PICK p \in Points : Press(p)
            BY <2>3
      <3>2. PICK b \in ButtonsOf(TableOf(screen)) : Hits(b, p)
            BY <3>1 DEF Press
      <3>3. b \in DOMAIN Button
            BY TableOfType, TableType DEF TypeOK, PlaceType
      <3>4. p # Nowhere
            BY <3>2, <3>3, NoButtonAtNowhere
      <3> QED BY <1>3, <3>1, <3>4 DEF Press, CheckTouchs
    <2> QED BY <2>1, <2>2, <2>3 DEF Cycle
  <1>5. idle' # 0 => Untouched /\ LeftAlone
        BY DEF Cycle, Untouched, Lift, Press
  <1>6. idle' # 0 => /\ bpc' = "wait" /\ finger' = Nowhere /\ ~charger' /\ touch'.state = "none"
                     /\ screen' # "MORE_INFO"
        BY <1>1, <1>2, <1>5 DEF Untouched, CheckTouchs, LeftAlone, fingerVars, Cycle, bootVars
  <1>7. screen' = "DOWNLOAD" /\ idle' # 0 => Stopped'
    <2>1. screen = "DOWNLOAD" /\ idle' # 0 => Stopped
          BY <1>1, <1>5 DEF AloneInv, LeftAlone, Switches
    <2> QED BY <1>1, <2>1 DEF Stopped, CurrentDownload
  <1> QED BY <1>1, <1>4, <1>6, <1>7 DEF AloneInv

LEMMA AloneSwitch ==
  ASSUME TypeOK, AloneInv, ReceiveSwitch, idle' = idle
  PROVE  AloneInv'
  <1>1. /\ guiQ # <<>> /\ guiQ' = Tail(guiQ) /\ screen' = Head(guiQ) /\ gpc' = "check"
        /\ UNCHANGED <<lastTouch, finger, charger, bpc>>
        BY DEF ReceiveSwitch, fingerVars, worldVars, bootVars
  <1>2. touch' = NoTouch \/ touch' = touch
        BY SwitchedTo DEF SwitchDrawn, SwitchForce
  <1>3. NoTouch.state = "none"
        BY DEF NoTouch
  <1>4. idle # 0 => screen' = "SHIPPING" /\ guiQ' = <<>>
        BY <1>1 DEF AloneInv
  <1>5. finger' = Nowhere => lastTouch'.state # "pressed"
        BY <1>1 DEF AloneInv
  <1>6. idle # 0 => bpc' = "wait" /\ finger' = Nowhere /\ ~charger' /\ touch'.state = "none"
        BY <1>1, <1>2, <1>3 DEF AloneInv
  <1> QED BY <1>1, <1>4, <1>5, <1>6 DEF AloneInv

LEMMA AloneLook ==
  ASSUME TypeOK, AloneInv, ReceiveProcess \/ InTime \/ Expire \/ GoSleep, idle' = idle
  PROVE  AloneInv'
  <1>1. UNCHANGED <<bpc, screen, lastTouch, touch, finger, charger, download, fw, assets, ship>>
        BY DEF ReceiveProcess, InTime, Expire, GoSleep, bootVars, touchVars, staticVars, fingerVars, worldVars
  <1>2. gpc' # "receive"
        BY DEF ReceiveProcess, InTime, Expire, GoSleep
  <1>3. Stopped' <=> Stopped
        BY <1>1 DEF Stopped, CurrentDownload
  <1>4. idle # 0 => \/ guiQ' = <<>>
                    \/ guiQ' = <<"SHIPPING">> /\ screen' # "SHIPPING" /\ gpc' # "check"
    <2> SUFFICES ASSUME idle # 0
                 PROVE  guiQ' = <<>> \/ (guiQ' = <<"SHIPPING">> /\ screen' # "SHIPPING" /\ gpc' # "check")
        OBVIOUS
    <2>1. CASE ReceiveProcess
          BY <2>1 DEF ReceiveProcess, AloneInv
    <2>2. CASE InTime \/ GoSleep
          BY <2>2 DEF InTime, GoSleep, queues, AloneInv
    <2>3. CASE Expire
      <3>1. guiQ = <<>> /\ gpc' = "poll" /\ screen' = screen
            BY <1>1, <2>3 DEF Expire, AloneInv
      <3>2. CASE ToGui("SHIPPING") /\ screen \in {"WAIT", "LOW_BATTERY", "INFO"}
            <4>1. Len(guiQ) # GuiLen
                  BY <3>1, BoundAssumption
            <4>2. guiQ' = <<"SHIPPING">>
                  BY <3>1, <3>2, <4>1 DEF ToGui
            <4> QED BY <3>1, <3>2, <4>2
      <3>3. CASE TimeoutToBoot
            BY <3>1, <3>3 DEF TimeoutToBoot
      <3> QED BY <2>3, <3>2, <3>3 DEF Expire
    <2> QED BY <2>1, <2>2, <2>3
  <1> QED BY <1>1, <1>2, <1>3, <1>4 DEF AloneInv

LEMMA AlonePoll ==
  ASSUME TypeOK, AloneInv, idle' = idle,
         PollWait \/ PollInfo \/ PollLowBattery \/ PollError \/ PollDownload \/ PollShipping \/ PollForce
  PROVE  AloneInv'
  <1>1. /\ gpc = "poll" /\ gpc' \in {"receive", "off"}
        /\ UNCHANGED <<bpc, screen, lastTouch, touch, finger, charger>>
        BY PollTime DEF PollWait, PollInfo, PollLowBattery, PollError, PollDownload, PollShipping, PollForce,
                        UnchangedByPoll, bootVars
  <1>2. idle # 0 => guiQ' = guiQ
        BY PollAlone DEF AloneInv
  <1>3. screen' = "DOWNLOAD" => Stopped'
    <2>1. screen = "DOWNLOAD" => PollDownload
          BY DEF PollWait, PollInfo, PollLowBattery, PollError, PollShipping, PollForce, Polls
    <2> QED BY <1>1, <2>1, StoppedAfterLook
  <1>4. screen' = "SHIPPING" => ship'.age < Attempt
    <2>1. screen = "SHIPPING" => PollShipping
          BY DEF PollWait, PollInfo, PollLowBattery, PollError, PollDownload, PollForce, Polls
    <2>2. PollShipping => ship'.age = IF ship.age = Attempt THEN 0 ELSE ship.age
          BY DEF PollShipping
    <2>3. ship.age \in 0..Attempt
          BY DEF TypeOK, StaticType
    <2> QED BY <1>1, <2>1, <2>2, <2>3, TimeAssumption
  <1>5. finger' = Nowhere => lastTouch'.state # "pressed"
        BY <1>1 DEF AloneInv
  <1>6. idle' # 0 => /\ bpc' = "wait" /\ finger' = Nowhere /\ ~charger' /\ touch'.state = "none"
                     /\ screen' # "MORE_INFO"
        BY <1>1 DEF AloneInv
  <1>7. idle' # 0 => \/ guiQ' = <<>>
                     \/ guiQ' = <<"SHIPPING">> /\ screen' # "SHIPPING" /\ gpc' # "check"
        BY <1>1, <1>2 DEF AloneInv
  <1> QED BY <1>3, <1>4, <1>5, <1>6, <1>7 DEF AloneInv

\* What the boot task reports after a start leads away from a download that it has cleared.
LEMMA AloneBoot ==
  ASSUME TypeOK, AloneInv, ~lost, BootTask
  PROVE  AloneInv'
  <1>1. UNCHANGED <<finger, lastTouch, screen, gpc, download, ship>> /\ idle' = 0
        BY BootTaskKeeps DEF BootTask, guiVars, touchVars, staticVars, fingerVars
  <1>2. {"LOW_BATTERY", "ERROR", "WAIT", "FORCE"} \subseteq Screen
        BY DEF Screen
  <1>3. ASSUME NEW e \in Screen, ToGui(e) PROVE lost' \/ Switches(guiQ')
        BY <1>3, AsksForScreen
  <1>4. \/ bpc' # "wait" \/ lost' \/ Switches(guiQ')
        \/ UNCHANGED <<bpc, guiQ, lost, fw, assets>>
    <2>1. CASE Start \/ Process \/ StartLeaves \/ ClearDownload
          BY <2>1 DEF Start, Process, StartLeaves, ClearDownload, bootVars
    <2>2. CASE StartFails \/ StartReady
      <3>1. PICK e \in {"LOW_BATTERY", "ERROR", "WAIT", "FORCE"} : ToGui(e)
            BY <2>2 DEF StartFails, StartReady, Report
      <3> QED BY <1>2, <1>3, <3>1
    <2>3. CASE ShowError \/ GoBL \/ Stay \/ ToMF
      <3>1. bpc' = "gone" \/ \E e \in {"ERROR", "WAIT"} : ToGui(e)
            BY <2>3 DEF ShowError, GoBL, Stay, ToMF
      <3> QED BY <1>2, <1>3, <3>1
    <2>4. CASE BootToMFFirst
          BY <2>4 DEF BootToMFFirst, bootVars, worldVars
    <2> QED BY <2>1, <2>2, <2>3, <2>4 DEF BootTask, StepOfBootTask
  <1>5. UNCHANGED <<fw, assets>> => (Stopped' <=> Stopped)
        BY <1>1 DEF Stopped, CurrentDownload
  <1> QED BY <1>1, <1>4, <1>5 DEF AloneInv, Switches

LEMMA AloneStep ==
  ASSUME TypeOK, AloneInv, [Next]_vars
  PROVE  AloneInv'
  <1>1. CASE UNCHANGED vars
        <2>1. UNCHANGED <<finger, lastTouch, idle, charger, touch, screen, guiQ, lost, bpc, gpc, download, fw, assets,
                          ship>>
              BY <1>1 DEF vars, bootVars, guiVars, touchVars, staticVars, fingerVars, worldVars, queues
        <2>2. Stopped' <=> Stopped
              BY <2>1 DEF Stopped, CurrentDownload
        <2> QED BY <2>1, <2>2 DEF AloneInv, Switches
  <1>2. CASE BootTask /\ ~lost
        BY <1>2, AloneBoot
  <1>3. CASE World
        <2>1. UNCHANGED <<finger, lastTouch, gpc>> /\ gpc # "receive" /\ idle' = 0
              BY <1>3, OthersKeepTheScreen DEF World, Charge, Plug, Fetch, Wrap, touchVars, fingerVars
        <2> QED BY <2>1 DEF AloneInv
  <1>4. CASE TurnOfGuiTask /\ idle' = idle
        BY <1>4, AloneSwitch, AloneLook, AlonePoll DEF TurnOfGuiTask
  <1> QED BY <1>1, <1>2, <1>3, <1>4, AloneCycle DEF Next, GuiTask

\* The attempts of the screen that switches off fit in what a device that is left alone is given.
LEMMA AttemptsFit ==
  ASSUME NEW n \in 0..AttemptsBeforeTurnOff, NEW a \in 0..Attempt
  PROVE  Limit["WAIT"] + 1 + n * Attempt + a <= Patience
  <1>1. n \in Nat /\ AttemptsBeforeTurnOff \in Nat /\ Attempt \in Nat /\ Limit["WAIT"] \in Nat /\ n <= AttemptsBeforeTurnOff
        BY TimeAssumption, BoundAssumption
  <1> DEFINE p == n * Attempt
             q == AttemptsBeforeTurnOff * Attempt
  <1>2. p \in Nat /\ q \in Nat /\ p <= q /\ (AttemptsBeforeTurnOff + 1) * Attempt = q + Attempt
        BY <1>1, Product, ProductGrows
  <1>3. Patience = Limit["WAIT"] + 1 + (q + Attempt)
        BY <1>2 DEF Patience
  <1> HIDE DEF p, q
  <1>4. Limit["WAIT"] + 1 + p + a <= Patience
        BY <1>1, <1>2, <1>3
  <1> QED BY <1>4 DEF p

LEMMA ShipType ==
  ASSUME TypeOK
  PROVE  /\ ship.attempts \in 0..AttemptsBeforeTurnOff /\ ship.age \in 0..Attempt
         /\ ship.attempts \in Nat /\ ship.age \in Nat
         /\ ship.attempts * Attempt \in Nat
         /\ (ship.attempts + 1) * Attempt = ship.attempts * Attempt + Attempt
  <1>1. ship.attempts \in 0..AttemptsBeforeTurnOff /\ ship.age \in 0..Attempt
        BY DEF TypeOK, StaticType
  <1>2. ship.attempts \in Nat /\ ship.age \in Nat /\ Attempt \in Nat
        BY <1>1, TimeAssumption
  <1> QED BY <1>1, <1>2, Product

\* Nobody has waited at all.
LEMMA NoIdle ==
  ASSUME TypeOK, idle = 0
  PROVE  IdleInv
  <1>1. age \in Nat /\ Limit["WAIT"] \in Nat
        BY TimeAssumption DEF TypeOK, TimeType
  <1>2. ship.age \in Nat /\ ship.attempts * Attempt \in Nat
        BY ShipType
  <1>3. 0 <= Limit["WAIT"] + 1 + ship.attempts * Attempt + ship.age
        BY <1>1, <1>2
  <1> QED BY <1>1, <1>3, PatienceType DEF IdleInv, TurnsOff

LEMMA IdleCycle ==
  ASSUME TypeOK, TypeOK', AgeInv', AloneInv, IdleInv, Cycle
  PROVE  IdleInv'
  <1> DEFINE W == Limit["WAIT"]
  <1>1. /\ gpc = "receive" /\ guiQ = <<>> /\ age' = age + 1 /\ gpc' = "check"
        /\ UNCHANGED <<guiQ, bootQ, screen>>
        /\ ship' = [ship EXCEPT !.age = IF screen = "SHIPPING" THEN Older(@, Attempt) ELSE @]
        BY DEF Cycle, queues
  <1>2. /\ age \in Nat /\ idle \in Nat /\ idle' \in Nat /\ W \in Nat /\ age' <= W + 1
        /\ W + 1 <= Patience /\ Patience \in Nat
    <2>1. age \in Nat /\ idle \in Nat /\ idle' \in Nat
          BY PatienceType DEF TypeOK, TimeType
    <2>2. age' <= W + 1
          BY <1>1 DEF AgeInv
    <2> QED BY <2>1, <2>2, TimeAssumption, PatienceType
  <1>3. CASE idle' = 0
        <2>1. (TypeOK /\ idle = 0 => IdleInv)'
              BY NoIdle, PTL
        <2> QED BY <1>3, <2>1
  <1>4. CASE idle' # 0
    <2>1. idle' <= idle + 1 /\ bootQ = <<>>
          BY <1>2, <1>4 DEF Cycle, Untouched, Lift, Press, LeftAlone, Older
    <2>2. CASE screen # "SHIPPING"
          <3>1. idle <= age
                BY <1>1, <2>1, <2>2 DEF IdleInv
          <3>2. idle' <= age' /\ idle' <= Patience
                BY <1>1, <1>2, <2>1, <3>1
          <3> QED BY <1>1, <2>2, <3>2 DEF IdleInv, TurnsOff
    <2>3. CASE screen = "SHIPPING"
          <3> DEFINE p == ship.attempts * Attempt
          <3>1. ship.age \in Nat /\ ship.age < Attempt /\ p \in Nat /\ Attempt \in Nat
                BY <1>1, <2>3, ShipType, TimeAssumption DEF AloneInv
          <3>2. ship'.age = ship.age + 1 /\ ship'.attempts = ship.attempts
                BY <1>1, <2>3, <3>1 DEF Older, TypeOK, StaticType
          <3>3. idle <= W + 1 + p + ship.age
                BY <1>1, <2>3 DEF IdleInv
          <3> HIDE DEF p
          <3>4. idle' <= W + 1 + p + (ship.age + 1)
                <4>1. W \in Nat /\ idle \in Nat /\ idle' \in Nat /\ idle' <= idle + 1
                      BY <1>2, <2>1
                <4>2. idle <= W + 1 + p + ship.age
                      BY <3>3
                <4> HIDE DEF W
                <4> QED BY <3>1, <4>1, <4>2
          <3>5. idle' <= W + 1 + ship'.attempts * Attempt + ship'.age
                BY <3>2, <3>4 DEF p
          <3>6. W + 1 + ship'.attempts * Attempt + ship'.age <= Patience
                <4>1. ship'.attempts \in 0..AttemptsBeforeTurnOff /\ ship'.age \in 0..Attempt
                      BY DEF TypeOK, StaticType
                <4> QED BY <4>1, AttemptsFit
          <3>7. idle' <= Patience
                <4>1. idle' \in Nat /\ W + 1 + ship'.attempts * Attempt + ship'.age \in Int
                      <5>1. ship'.attempts \in Nat /\ ship'.age \in Nat /\ Attempt \in Nat
                            BY <3>1, <3>2, ShipType
                      <5>2. ship'.attempts * Attempt \in Nat
                            BY <5>1, Product
                      <5>3. idle' \in Nat
                            BY PatienceType DEF TypeOK, TimeType
                      <5> HIDE DEF W
                      <5>4. W \in Nat
                            BY <1>2
                      <5> QED BY <5>1, <5>2, <5>3, <5>4
                <4> HIDE DEF W
                <4> DEFINE b == W + 1 + ship'.attempts * Attempt + ship'.age
                <4>2. b \in Int /\ idle' <= b /\ b <= Patience
                      BY <3>5, <3>6, <4>1 DEF W
                <4> HIDE DEF b
                <4> QED BY <1>2, <4>1, <4>2
          <3> QED BY <1>1, <2>3, <3>5, <3>7 DEF IdleInv, TurnsOff
    <2> QED BY <2>2, <2>3
  <1> QED BY <1>3, <1>4

LEMMA IdleSwitch ==
  ASSUME TypeOK, TypeOK', AgeInv, AloneInv, IdleInv, ReceiveSwitch, idle' = idle, idle # 0
  PROVE  IdleInv'
  <1> DEFINE W == Limit["WAIT"]
  <1>1. guiQ # <<>> /\ gpc = "receive" /\ screen' = Head(guiQ)
        BY DEF ReceiveSwitch
  <1>2. screen' = "SHIPPING" /\ screen # "SHIPPING"
        BY <1>1 DEF AloneInv
  <1>3. W \in Nat /\ age \in Nat /\ idle \in Nat /\ age <= W
    <2>1. age \in Nat /\ idle \in Nat
          BY PatienceType DEF TypeOK, TimeType
    <2> QED BY <1>1, <2>1, TimeAssumption DEF AgeInv
  <1>4. idle <= W + 1
        BY <1>2, <1>3 DEF IdleInv
  <1>5. ship'.age \in Nat /\ ship'.attempts * Attempt \in Nat
    <2>1. ship'.attempts \in 0..AttemptsBeforeTurnOff /\ ship'.age \in 0..Attempt
          BY DEF TypeOK, StaticType
    <2> QED BY <2>1, TimeAssumption, BoundAssumption, Product
  <1> DEFINE p == ship'.attempts * Attempt
  <1>6. p \in Nat
        BY <1>5
  <1> HIDE DEF p, W
  <1>7. idle <= W + 1 + p + ship'.age
        BY <1>3, <1>4, <1>5, <1>6
  <1> QED BY <1>2, <1>7 DEF IdleInv, TurnsOff, p, W

LEMMA IdleLook ==
  ASSUME TypeOK, AgeInv, AloneInv, IdleInv, InTime \/ Expire \/ GoSleep, idle' = idle, idle # 0
  PROVE  IdleInv'
  <1> DEFINE W == Limit["WAIT"]
  <1>1. gpc = "check" /\ guiQ = <<>> /\ UNCHANGED <<screen, ship>>
        BY DEF InTime, Expire, GoSleep, staticVars, AloneInv
  <1>2. TurnsOff' /\ (screen' = "SHIPPING" => idle' <= W + 1 + ship'.attempts * Attempt + ship'.age)
        BY <1>1 DEF IdleInv, TurnsOff
  <1>3. CASE InTime \/ GoSleep
        BY <1>1, <1>2, <1>3 DEF InTime, GoSleep, timeVars, queues, IdleInv
  <1>4. CASE Expire /\ screen = "SHIPPING"
        BY <1>1, <1>2, <1>4 DEF IdleInv
  <1>5. CASE Expire /\ screen # "SHIPPING"
    <2>1. idle <= W + 1
      <3>1. W \in Nat /\ age \in Nat /\ idle \in Nat /\ age <= W + 1
        <4>1. age \in Nat /\ idle \in Nat
              BY PatienceType DEF TypeOK, TimeType
        <4> QED BY <1>1, <4>1, TimeAssumption DEF AgeInv
      <3> QED BY <1>5, <3>1 DEF IdleInv
    <2>2. guiQ' # <<>> \/ bootQ' # <<>>
      <3>1. CASE screen \in {"WAIT", "LOW_BATTERY", "INFO"}
            <4>1. ToGui("SHIPPING") /\ Len(guiQ) # GuiLen
                  BY <1>1, <1>5, <3>1, BoundAssumption DEF Expire
            <4>2. guiQ' = <<"SHIPPING">>
                  BY <1>1, <4>1 DEF ToGui
            <4> QED BY <4>2
      <3>2. CASE screen \in {"FORCE", "DOWNLOAD"}
            <4>1. PICK e \in {"bootToMF", "downloaded"} : bootQ' = WithEvent(bootQ, e)
                  BY <1>5, <3>2 DEF Expire, TimeoutToBoot
            <4>2. e \in BootEvent \cup {"none"} /\ e # "none" /\ bootQ \in Seq(BootEvent)
                  BY <4>1 DEF BootEvent, TypeOK, QueueType
            <4> QED BY <4>1, <4>2, WithEventKeeps
      <3> QED BY <1>5, <3>1, <3>2 DEF TypeOK, PlaceType, Screen, AloneInv, Expire
    <2> QED BY <1>1, <1>2, <1>5, <2>1, <2>2 DEF IdleInv
  <1> QED BY <1>3, <1>4, <1>5

LEMMA IdlePoll ==
  ASSUME TypeOK, AloneInv, IdleInv, idle' = idle, idle # 0,
         PollWait \/ PollInfo \/ PollLowBattery \/ PollError \/ PollDownload \/ PollForce
  PROVE  IdleInv'
  <1>1. touch.state = "none" /\ ~charger
        BY DEF AloneInv
  <1>2. guiQ' = guiQ /\ (bootQ # <<>> => bootQ' # <<>>)
        BY <1>1, PollAlone
  <1>3. screen' = screen /\ screen # "SHIPPING"
        BY DEF PollWait, PollInfo, PollLowBattery, PollError, PollDownload, PollForce, Polls, UnchangedByPoll
  <1>4. age' = age
    <2>1. CASE PollWait \/ PollInfo \/ PollError
          BY <2>1 DEF PollWait, PollInfo, PollError, KeepTime, timeVars
    <2>2. CASE PollLowBattery
          BY <1>1, <2>2 DEF PollLowBattery, KeepTime
    <2>3. CASE PollDownload
          <3>1. Stopped
                BY <2>3 DEF PollDownload, Polls, AloneInv
          <3>2. ~(CurrentDownload.percent # download.percent \/ ModeSwitched)
                BY <3>1 DEF Stopped, ModeSwitched
          <3> QED BY <2>3, <3>2 DEF PollDownload, KeepTime
    <2>4. CASE PollForce
          <3>1. screen = "FORCE"
                BY <2>4 DEF PollForce
          <3>2. Buttons = {"secret"}
                BY <3>1, Tables DEF Buttons, TableOf
          <3>3. ~Grabs /\ ~Held
                BY <1>1, <3>2, NoTouchNoButton DEF Grabs, Held
          <3> QED BY <2>4, <3>3 DEF PollForce, KeepTime
    <2> QED BY <2>1, <2>2, <2>3, <2>4
  <1> QED BY <1>2, <1>3, <1>4 DEF IdleInv, TurnsOff

LEMMA IdleShipping ==
  ASSUME TypeOK, AloneInv, IdleInv, idle' = idle, idle # 0, PollShipping
  PROVE  IdleInv'
  <1> DEFINE W == Limit["WAIT"]
             p == ship.attempts * Attempt
             asks == ship.age = Attempt /\ ~charger
  <1>1. ~charger /\ screen = "SHIPPING" /\ screen' = screen /\ gpc = "poll"
        BY DEF AloneInv, PollShipping, UnchangedByPoll
  <1>2. idle <= W + 1 + p + ship.age
        BY <1>1 DEF IdleInv
  <1>3. /\ ship.age \in Nat /\ p \in Nat /\ W \in Nat /\ idle \in Nat /\ Attempt \in Nat
        /\ (ship.attempts + 1) * Attempt = p + Attempt
    <2>1. idle \in Nat
          BY PatienceType DEF TypeOK, TimeType
    <2> QED BY <2>1, ShipType, TimeAssumption
  <1>4. gpc' # "off" => idle <= W + 1 + ship'.attempts * Attempt + ship'.age
    <2> SUFFICES ASSUME gpc' # "off" PROVE idle <= W + 1 + ship'.attempts * Attempt + ship'.age
        OBVIOUS
    <2>1. /\ gpc' = "receive"
          /\ ship' = [attempts |-> IF asks THEN ship.attempts + 1 ELSE ship.attempts,
                      age |-> IF ship.age = Attempt THEN 0 ELSE ship.age]
          BY DEF PollShipping
    <2>2. CASE asks
          <3>1. ship'.attempts = ship.attempts + 1 /\ ship'.age = 0 /\ ship.age = Attempt
                BY <2>1, <2>2
          <3>2. ship'.attempts * Attempt = p + Attempt
                BY <1>3, <3>1
          <3> DEFINE q == ship'.attempts * Attempt
          <3>3. q = p + Attempt
                BY <3>2
          <3> HIDE DEF p, W, q
          <3>4. idle <= W + 1 + q + ship'.age
                BY <1>2, <1>3, <3>1, <3>3
          <3> QED BY <3>4 DEF W, q
    <2>3. CASE ~asks
          BY <1>1, <1>2, <2>1, <2>3
    <2> QED BY <2>2, <2>3
  <1> QED BY <1>1, <1>4 DEF IdleInv, TurnsOff

LEMMA IdleStep ==
  ASSUME TypeOK, TypeOK', AgeInv, AgeInv', AloneInv, IdleInv, [Next]_vars
  PROVE  IdleInv'
  <1>1. CASE UNCHANGED vars
        <2>1. UNCHANGED <<screen, idle, age, guiQ, bootQ, gpc, ship>>
              BY <1>1 DEF vars, guiVars, staticVars, timeVars, queues
        <2> QED BY <2>1 DEF IdleInv, TurnsOff
  <1>2. CASE idle' = 0
        <2>1. (TypeOK /\ idle = 0 => IdleInv)'
              BY NoIdle, PTL
        <2> QED BY <1>2, <2>1
  <1>3. CASE idle' # 0 /\ Next
    <2>1. Cycle \/ (TurnOfGuiTask /\ idle' = idle)
          BY <1>3 DEF Next, BootTask, World, GuiTask
    <2>2. CASE TurnOfGuiTask /\ idle' = idle
      <3>1. ~ReceiveProcess
            BY <1>3, <2>2 DEF ReceiveProcess, AloneInv
      <3> QED BY <1>3, <2>2, <3>1, IdleSwitch, IdleLook, IdlePoll, IdleShipping DEF TurnOfGuiTask
    <2> QED BY <2>1, <2>2, IdleCycle
  <1> QED BY <1>1, <1>2, <1>3

\* A device that is left alone turns off or goes to the boot task within the longest time of a screen
\* and the attempts of the screen that switches off, whatever screens it gets there by.
THEOREM DeviceTurnsOff == Spec => []TurnsOff
  <1>1. Init => TypeOK /\ PanelInv /\ AgeInv /\ AloneInv /\ IdleInv
    <2> SUFFICES ASSUME Init PROVE TypeOK /\ PanelInv /\ AgeInv /\ AloneInv /\ IdleInv
        OBVIOUS
    <2>1. TypeOK
          BY InitType
    <2>2. PanelInv
          BY DEF Init, PanelInv
    <2>3. AgeInv
          BY TimeAssumption DEF Init, AgeInv
    <2>4. AloneInv
          BY DEF Init, AloneInv, NoTouch
    <2>5. IdleInv
          BY <2>1, NoIdle DEF Init
    <2> QED BY <2>1, <2>2, <2>3, <2>4, <2>5
  <1>2. TypeOK /\ PanelInv /\ AgeInv /\ AloneInv /\ IdleInv /\ [Next]_vars
          => (TypeOK /\ PanelInv /\ AgeInv /\ AloneInv /\ IdleInv)'
        BY TypeStep, PanelStep, AgeStep, AloneStep, IdleStep
  <1>3. IdleInv => TurnsOff
        BY DEF IdleInv
  <1> QED BY <1>1, <1>2, <1>3, PTL DEF Spec
=============================================================================
