-------------------------- MODULE BootEventsProofs --------------------------
(***************************************************************************)
(* Proofs about BootEvents, for queues of any length: the types, that      *)
(* SCREEN_DRAWN is never early, and that the bootloader stays if asked.    *)
(***************************************************************************)
EXTENDS BootEvents, TLAPS

-----------------------------------------------------------------------------
(* The queues.                                                               *)

LEMMA QueueTail ==
  ASSUME NEW S, NEW q \in Seq(S), NEW n \in Nat, Len(q) <= n, q # <<>>
  PROVE  Tail(q) \in Seq(S) /\ Len(Tail(q)) <= n /\ Head(q) \in S
  <1>1. Tail(q) \in Seq(S) /\ Len(Tail(q)) = Len(q) - 1 /\ Len(q) \in Nat \ {0}
        OBVIOUS
  <1>2. Head(q) \in S
        BY <1>1
  <1> QED BY <1>1, <1>2

LEMMA QueueAppend ==
  ASSUME NEW S, NEW q \in Seq(S), NEW n \in Nat, Len(q) < n, NEW e \in S
  PROVE  Append(q, e) \in Seq(S) /\ Len(Append(q, e)) <= n
  <1>1. Append(q, e) \in Seq(S) /\ Len(Append(q, e)) = Len(q) + 1 /\ Len(q) \in Nat
        OBVIOUS
  <1> QED BY <1>1

QueuesOK ==
  /\ bootQ \in Seq(BootEvent) /\ Len(bootQ) <= BootLen
  /\ guiQ \in Seq(GuiEvent) /\ Len(guiQ) <= GuiLen

\* taskGui_sendEvent never overflows the queue of the GUI task.
LEMMA Sent ==
  ASSUME QueuesOK, NEW e \in GuiEvent, ToGui(e)
  PROVE  guiQ' \in Seq(GuiEvent) /\ Len(guiQ') <= GuiLen
  <1>1. CASE Len(guiQ) < GuiLen
        BY <1>1, QueueAppend, LengthAssumption DEF ToGui, QueuesOK
  <1>2. CASE ~(Len(guiQ) < GuiLen)
        BY <1>2 DEF ToGui, QueuesOK
  <1> QED BY <1>1, <1>2

LEMMA Received ==
  ASSUME QueuesOK, NEW e, Receive(e)
  PROVE  bootQ' \in Seq(BootEvent) /\ Len(bootQ') <= BootLen
  BY QueueTail, LengthAssumption DEF Receive, NextIs, QueuesOK

LEMMA EmptyQueues ==
  /\ <<>> \in Seq(BootEvent) /\ Len(<<>>) = 0 /\ <<>> \in Seq(GuiEvent)
  /\ 0 <= BootLen /\ 0 <= GuiLen
  BY LengthAssumption

\* An action of the boot task leaves the GUI task alone, and the other way round.
GuiPart ==
  /\ gpc \in {"recv", "timeout", "poll", "buttons", "send"}
  /\ out \in BootEvent \cup {"none"} /\ back \in {"none", "poll", "buttons", "recv"}
  /\ screen \in Screen
  /\ cycling \in BOOLEAN /\ full \in BOOLEAN /\ startSent \in BOOLEAN /\ kept \in BOOLEAN
  /\ last \in {"reset", "none", "part", "full"}
  /\ gpc = "send" => out # "none" /\ back # "none"
  /\ gpc # "send" => out = "none"
  /\ last # "reset" => screen = "UPDATING" /\ ~full
  /\ out = "drawn" => last \in {"full", "none"}

BootPart ==
  /\ bpc \in {"init", "wait", "start", "run", "peekMF", "peekBS", "selfSend"} \cup Gone
  /\ fresh \in BOOLEAN /\ force \in BOOLEAN /\ allowed \in BOOLEAN /\ passed \in BOOLEAN
  /\ valid \in BOOLEAN /\ initiated \in BOOLEAN
  /\ progress \in {"unset", "part", "full"}
  /\ initiated => progress # "unset"

LEMMA Parts == EventInv <=> QueuesOK /\ BootPart /\ GuiPart
  BY DEF EventInv, TypeOK, QueuesOK, BootPart, GuiPart

\* Whoever leaves the bootloader leaves it as it starts.
LEMMA LeaveKeeps ==
  ASSUME NEW where \in Gone, Leave(where)
  PROVE  EventInv'
  <1>1. QueuesOK'
        BY EmptyQueues DEF Leave, QueuesOK
  <1>2. BootPart'
        BY DEF Leave, BootPart
  <1>3. GuiPart'
        BY DEF Leave, GuiPart, Screen
  <1> QED BY <1>1, <1>2, <1>3 DEF EventInv, TypeOK, QueuesOK, BootPart, GuiPart

-----------------------------------------------------------------------------
(* The boot task.                                                            *)

LEMMA BootStepKeeps ==
  ASSUME EventInv, BootStep
  PROVE  EventInv'
  <1>0. QueuesOK /\ BootPart /\ GuiPart
        BY Parts
  <1>1. ASSUME QueuesOK', BootPart', UNCHANGED guiVars
        PROVE  EventInv'
    <2>1. GuiPart'
          BY <1>0, <1>1 DEF GuiPart, guiVars, pageVars, watchVars
    <2> QED BY <1>1, <2>1 DEF EventInv, TypeOK, QueuesOK, BootPart, GuiPart
  <1>2. ASSUME NEW e \in {"LOW_BATTERY", "ERROR", "WAIT", "FORCE", "UPDATING", "process"}
        PROVE  e \in GuiEvent
        BY DEF GuiEvent, Screen
  <1>3. CASE BootInit
    <2>1. /\ <<"startAgain">> \in Seq(BootEvent) /\ Len(<<"startAgain">>) = 1
          /\ <<"showError">> \in Seq(BootEvent) /\ Len(<<"showError">>) = 1
          BY DEF BootEvent
    <2>2. bootQ' \in Seq(BootEvent) /\ Len(bootQ') = 1 /\ guiQ' = guiQ
          BY <1>3, <2>1 DEF BootInit
    <2>4. QueuesOK'
          BY <1>0, <2>2, LengthAssumption DEF QueuesOK
    <2>3. BootPart'
          BY <1>0, <1>3 DEF BootInit, BootPart, sharedVars
    <2> QED BY <1>1, <1>3, <2>3, <2>4 DEF BootInit
  <1>4. CASE InitNeedsBS \/ Peek
    <2>1. \E where \in Gone : Leave(where)
          BY <1>4 DEF InitNeedsBS, Peek, Jump, Gone
    <2> QED BY <2>1, LeaveKeeps
  <1>5. CASE ReceiveStart \/ ReceiveDrawn \/ ReceiveBootToMFFirst
    <2>1. /\ \E e : Receive(e)
          /\ guiQ' = guiQ
          BY <1>5 DEF ReceiveStart, ReceiveDrawn, ReceiveBootToMFFirst
    <2>2. QueuesOK'
          BY <1>0, <2>1, Received DEF QueuesOK
    <2>3. fresh' \in BOOLEAN
      <3>1. CASE ReceiveStart
            BY <1>0, <3>1 DEF ReceiveStart, BootPart
      <3>2. CASE ReceiveDrawn \/ ReceiveBootToMFFirst
            BY <1>0, <3>2 DEF ReceiveDrawn, ReceiveBootToMFFirst, BootPart, bootVars
      <3> QED BY <1>5, <3>1, <3>2
    <2>4. BootPart'
          BY <1>0, <1>5, <2>3 DEF ReceiveStart, ReceiveDrawn, ReceiveBootToMFFirst, BootPart, bootVars,
                                  sharedVars
    <2> QED BY <1>1, <1>5, <2>2, <2>4 DEF ReceiveStart, ReceiveDrawn, ReceiveBootToMFFirst
  <1>6. CASE Start
    <2>1. QueuesOK'
          BY <1>0, <1>6 DEF Start, QueuesOK, queues
    <2>2. BootPart'
          BY <1>0, <1>6 DEF Start, BootPart
    <2> QED BY <1>1, <1>6, <2>1, <2>2 DEF Start
  <1>7. CASE Initiate \/ Process
    <2>1. bootQ' = bootQ /\ \E e \in GuiEvent : ToGui(e)
          BY <1>2, <1>7 DEF Initiate, Process
    <2>2. QueuesOK'
          BY <1>0, <2>1, Sent DEF QueuesOK
    <2>3. BootPart'
          BY <1>0, <1>7 DEF Initiate, Process, BootPart, bootVars
    <2> QED BY <1>1, <1>7, <2>2, <2>3 DEF Initiate, Process
  <1>8. CASE StartFails \/ StartNeedsBS
    <2>1. bootQ' = bootQ /\ \E e \in GuiEvent : ToGui(e)
          BY <1>2, <1>8 DEF StartFails, StartNeedsBS, Report
    <2>2. QueuesOK'
          BY <1>0, <2>1, Sent DEF QueuesOK
    <2>3. /\ bpc' \in {"wait", "peekBS"} /\ fresh' \in BOOLEAN /\ force' = force
          /\ allowed' = allowed /\ passed' = passed
          /\ valid' = valid /\ initiated' = initiated /\ progress' = progress
          BY <1>0, <1>8 DEF StartFails, StartNeedsBS, Report, BootPart, sharedVars
    <2>4. BootPart'
          BY <1>0, <2>3 DEF BootPart
    <2> QED BY <1>1, <1>8, <2>2, <2>4 DEF StartFails, StartNeedsBS
  <1>9. CASE StartReady
    <2>1. /\ bootQ' = bootQ /\ fresh' \in BOOLEAN /\ bpc' \in {"peekMF", "wait"}
          /\ guiQ' = guiQ \/ \E e \in GuiEvent : ToGui(e)
      <3>1. CASE passed'
            BY <1>0, <1>9, <3>1 DEF StartReady, BootPart
      <3>2. CASE ~passed'
        <4>1. PICK e \in {"FORCE", "WAIT", "ERROR"} : Report(e)
              BY <1>9, <3>2 DEF StartReady
        <4> QED BY <1>2, <1>9, <4>1 DEF Report, StartReady
      <3> QED BY <3>1, <3>2
    <2>2. QueuesOK'
          BY <1>0, <2>1, Sent DEF QueuesOK
    <2>3. valid' \in BOOLEAN /\ passed' \in BOOLEAN
          BY <1>0, <1>9 DEF StartReady, BootPart
    <2>4. BootPart'
          BY <1>0, <1>9, <2>1, <2>3 DEF StartReady, BootPart
    <2> QED BY <1>1, <1>9, <2>2, <2>4 DEF StartReady
  <1>10. ASSUME NEW e, StayAndWait(e)
         PROVE  EventInv'
    <2>1. QueuesOK'
          BY <1>0, <1>2, <1>10, Sent, Received DEF StayAndWait, QueuesOK
    <2>2. BootPart'
          BY <1>0, <1>10 DEF StayAndWait, BootPart, bootVars, sharedVars
    <2> QED BY <1>1, <1>10, <2>1, <2>2 DEF StayAndWait
  <1>11. CASE ReceiveError \/ ReceiveGoBL
    <2>1. (\E e : Receive(e)) /\ \E e \in GuiEvent : ToGui(e)
          BY <1>2, <1>11 DEF ReceiveError, ReceiveGoBL
    <2>2. QueuesOK'
          BY <1>0, <2>1, Sent, Received DEF QueuesOK
    <2>3. /\ bpc' = bpc /\ fresh' = fresh /\ passed' = passed
          /\ force' \in BOOLEAN /\ allowed' \in BOOLEAN
          /\ valid' = valid /\ initiated' = initiated /\ progress' = progress
          BY <1>0, <1>11 DEF ReceiveError, ReceiveGoBL, BootPart, bootVars, sharedVars
    <2>4. BootPart'
          BY <1>0, <2>3 DEF BootPart
    <2> QED BY <1>1, <1>11, <2>2, <2>4 DEF ReceiveError, ReceiveGoBL
  <1>12. CASE ReceiveLater \/ ReceiveBootToMF
    <2>1. Leave("mf") \/ StayAndWait("later") \/ StayAndWait("bootToMF")
          BY <1>12 DEF ReceiveLater, ReceiveBootToMF
    <2> QED BY <1>10, <2>1, LeaveKeeps DEF Gone
  <1>13. CASE SelfSend \/ SelfSendGivesUp
    <2>1. QueuesOK'
      <3>1. "startAgain" \in BootEvent
            BY DEF BootEvent
      <3> QED BY <1>0, <1>13, <3>1, QueueAppend, LengthAssumption DEF SelfSend, SelfSendGivesUp, QueuesOK, queues
    <2>2. BootPart'
          BY <1>0, <1>13 DEF SelfSend, SelfSendGivesUp, BootPart, sharedVars
    <2> QED BY <1>1, <1>13, <2>1, <2>2 DEF SelfSend, SelfSendGivesUp
  <1> QED BY <1>3, <1>4, <1>5, <1>6, <1>7, <1>8, <1>9, <1>11, <1>12, <1>13 DEF BootStep, LetStartEnds

-----------------------------------------------------------------------------
(* The GUI task, a restart, and all of it.                                   *)

LEMMA GuiStepKeeps ==
  ASSUME EventInv, GuiStep
  PROVE  EventInv'
  <1>0. QueuesOK /\ BootPart /\ GuiPart
        BY Parts
  <1>1. ASSUME QueuesOK', UNCHANGED <<bootVars, sharedVars>>, GuiPart'
        PROVE  EventInv'
        BY <1>0, <1>1 DEF EventInv, TypeOK, QueuesOK, BootPart, GuiPart, bootVars, sharedVars
  <1>2. CASE GuiReceive
    <2>1. /\ guiQ' \in Seq(GuiEvent) /\ Len(guiQ') <= GuiLen /\ bootQ' = bootQ /\ Head(guiQ) \in GuiEvent
          BY <1>0, <1>2, QueueTail, LengthAssumption DEF GuiReceive, QueuesOK
    <2>2. QueuesOK'
          BY <1>0, <2>1 DEF QueuesOK
    <2>3. Head(guiQ) # "process" => Head(guiQ) \in Screen
          BY <2>1 DEF GuiEvent
    <2>4. GuiPart'
      <3>1. CASE Head(guiQ) = "process"
            BY <1>0, <1>2, <3>1 DEF GuiReceive, Goto, GuiPart
      <3>2. CASE Head(guiQ) # "process"
            BY <1>0, <1>2, <2>3, <3>2 DEF GuiReceive, Goto, Switch, GuiPart, Screen
      <3> QED BY <3>1, <3>2
    <2> QED BY <1>1, <1>2, <2>2, <2>4 DEF GuiReceive
  <1>3. CASE GuiCycle
    <2>1. GuiPart'
          BY <1>0, <1>3 DEF GuiCycle, Goto, GuiPart, pageVars, watchVars
    <2> QED BY <1>0, <1>1, <1>3, <2>1 DEF GuiCycle, QueuesOK, queues
  <1>4. CASE ExpiredToShipping
    <2>1. GuiPart'
          BY <1>0, <1>4 DEF ExpiredToShipping, TimeoutChecked, Goto, GuiPart, pageVars, watchVars
    <2>2. "SHIPPING" \in GuiEvent
          BY DEF GuiEvent, Screen
    <2>3. QueuesOK'
          BY <1>0, <1>4, <2>2, Sent DEF ExpiredToShipping, QueuesOK
    <2> QED BY <1>1, <1>4, <2>1, <2>3 DEF ExpiredToShipping
  <1>5. ASSUME NEW e \in BootEvent \ {"none"}, NEW label \in {"poll", "buttons", "recv"},
               ToBoot(e, label), UNCHANGED <<queues, bootVars, sharedVars, pageVars>>,
               startSent' \in BOOLEAN, kept' \in BOOLEAN, last' \in {"reset", "none", "part", "full"},
               last' # "reset" => screen = "UPDATING" /\ ~full,
               e = "drawn" => last' \in {"full", "none"}
        PROVE  EventInv'
    <2>1. GuiPart'
          BY <1>0, <1>5 DEF ToBoot, GuiPart, pageVars
    <2>2. QueuesOK'
          BY <1>0, <1>5 DEF QueuesOK, queues
    <2> QED BY <1>1, <1>5, <2>1, <2>2
  <1>6. {"downloaded", "bootToMF", "startAgain", "drawn", "later", "goBL"} \subseteq BootEvent \ {"none"}
        BY DEF BootEvent
  <1>7. CASE ExpiredToBoot
        BY <1>0, <1>5, <1>6, <1>7 DEF ExpiredToBoot, GuiPart, watchVars
  <1>8. CASE ExpiredToSleep \/ PollShipping
        BY <1>8, LeaveKeeps DEF ExpiredToSleep, PollShipping, Gone
  <1>9. CASE PollLowBattery
    <2>1. CASE ToBoot("startAgain", "buttons")
          BY <1>0, <1>5, <1>6, <1>9, <2>1 DEF PollLowBattery, GuiPart
    <2>2. CASE startSent' = FALSE /\ Goto("buttons")
      <3>1. GuiPart'
            BY <1>0, <1>9, <2>2 DEF PollLowBattery, Polled, Goto, GuiPart, pageVars
      <3> QED BY <1>0, <1>1, <1>9, <3>1 DEF PollLowBattery, QueuesOK, queues
    <2> QED BY <1>9, <2>1, <2>2 DEF PollLowBattery
  <1>10. CASE PollDownload
        BY <1>0, <1>5, <1>6, <1>10 DEF PollDownload, GuiPart, watchVars
  <1>11. CASE PollUpdating
    <2>1. /\ screen = "UPDATING" /\ gpc \in {"timeout", "poll"} /\ last' = Progress
          /\ UNCHANGED <<queues, bootVars, sharedVars, startSent, kept>>
          BY <1>11 DEF PollUpdating, Polled
    <2>2. CASE Progress = last /\ Progress \in {"full", "none"}
      <3>1. ToBoot("drawn", "recv") /\ UNCHANGED pageVars
            BY <1>11, <2>2 DEF PollUpdating
      <3>2. ~full /\ startSent' \in BOOLEAN /\ kept' \in BOOLEAN
            BY <1>0, <2>1, <2>2 DEF GuiPart
      <3> QED BY <1>5, <1>6, <2>1, <2>2, <3>1, <3>2
    <2>3. CASE ~(Progress = last /\ Progress \in {"full", "none"})
      <3>1. EndOfCycle
            BY <1>11, <2>3 DEF PollUpdating
      <3>2. last' \in {"none", "part", "full"}
        <4>1. initiated => progress # "unset"
              BY <1>0 DEF EventInv
        <4> QED BY <1>0, <2>1, <4>1 DEF Progress, BootPart
      <3>3. GuiPart'
            BY <1>0, <2>1, <3>1, <3>2 DEF EndOfCycle, GuiPart
      <3>4. QueuesOK'
            BY <1>0, <2>1 DEF QueuesOK, queues
      <3> QED BY <1>1, <2>1, <3>3, <3>4
    <2> QED BY <2>2, <2>3
  <1>12. CASE TapLink \/ TapDownload \/ TapNothing
    <2>1. gpc # "send"
          BY <1>0, <1>12 DEF TapLink, TapDownload, TapNothing, Tapped, AtButtons, Polled
    <2>2. GuiPart'
          BY <1>0, <1>12, <2>1 DEF TapLink, TapDownload, TapNothing, MayKeepTime, EndOfCycle, GuiPart
    <2>3. bootQ' = bootQ /\ (guiQ' = guiQ \/ \E e \in GuiEvent : ToGui(e))
      <3>1. \A k \in Links : k[2] \in GuiEvent
            BY DEF Links, GuiEvent, Screen
      <3>2. "INFO" \in GuiEvent /\ "LOW_BATTERY" \in GuiEvent
            BY DEF GuiEvent, Screen
      <3> QED BY <1>12, <3>1, <3>2 DEF TapLink, TapDownload, TapNothing, queues
    <2>4. QueuesOK'
          BY <1>0, <2>3, Sent DEF QueuesOK
    <2> QED BY <1>1, <1>12, <2>2, <2>4 DEF TapLink, TapDownload, TapNothing
  <1>13. CASE TapToBoot
        BY <1>0, <1>5, <1>6, <1>13 DEF TapToBoot, MayKeepTime, GuiPart
  <1>14. CASE GuiSend \/ GuiSendGivesUp
    <2>1. gpc = "send" /\ GuiSent /\ UNCHANGED <<guiQ, bootVars, sharedVars, watchVars>>
          BY <1>14 DEF GuiSend, GuiSendGivesUp, queues
    <2>2. GuiPart'
          BY <1>0, <2>1 DEF GuiSent, GuiPart, watchVars
    <2>3. QueuesOK'
      <3>1. CASE GuiSend
        <4>1. out \in BootEvent
              BY <1>0, <2>1 DEF GuiPart
        <4> QED BY <1>0, <2>1, <3>1, <4>1, QueueAppend, LengthAssumption DEF GuiSend, QueuesOK
      <3>2. CASE GuiSendGivesUp
            BY <1>0, <3>2 DEF GuiSendGivesUp, QueuesOK, queues
      <3> QED BY <1>14, <3>1, <3>2
    <2> QED BY <1>1, <2>1, <2>2, <2>3
  <1> QED BY <1>2, <1>3, <1>4, <1>7, <1>8, <1>9, <1>10, <1>11, <1>12, <1>13, <1>14 DEF GuiStep, Expired

LEMMA EventsCorrect == Spec => []EventInv
  <1>1. Init => EventInv
        BY EmptyQueues DEF Init, EventInv, TypeOK, Screen
  <1>2. EventInv /\ [Next]_vars => EventInv'
    <2>1. CASE EventInv /\ (Restart \/ UNCHANGED vars)
          BY <2>1 DEF EventInv, TypeOK, Restart, vars, queues, bootVars, sharedVars, guiVars, pageVars,
                      watchVars
    <2> QED BY <2>1, BootStepKeeps, GuiStepKeeps DEF Next
  <1> QED BY <1>1, <1>2, PTL DEF Spec

\* No queue overflows, whatever its length, and every other variable keeps its type
\* (taskGui_sendEvent, bootApp_sendEvent).
THEOREM EventsTypeCorrect == Spec => []TypeOK
  <1>1. EventInv => TypeOK
        BY DEF EventInv
  <1> QED BY <1>1, EventsCorrect, PTL

\* For queues of any length: when the GUI task sends SCREEN_DRAWN, the last progress there will be
\* is on the display (screenUpdating_poll, guiCore_switchScreen).
THEOREM DrawnIsShown == Spec => []DrawnMeansShown
  <1>1. EventInv => DrawnMeansShown
        BY DEF EventInv, DrawnMeansShown
  <1> QED BY <1>1, EventsCorrect, PTL

\* For queues of any length, whatever events they hold: a user who asked to stay leaves for the MF
\* only by EXIT or after an update (bootTask, cases BOOT_TO_MF and LATER_CLICKED).
THEOREM StaysIfAsked == Spec => StayIfAsked
  <1>1. [Next]_vars => [bpc' = "mf" /\ bpc # "mf" /\ force =>
                          bpc = "peekMF" \/ (bootQ # <<>> /\ Head(bootQ) = "later")]_vars
    <2>1. SUFFICES ASSUME Next, bpc' = "mf", bpc # "mf", force
                   PROVE  bpc = "peekMF" \/ (bootQ # <<>> /\ Head(bootQ) = "later")
          OBVIOUS
    <2>2. CASE BootInit \/ ReceiveStart \/ Start \/ Initiate \/ Process \/ LetStartEnds \/ ReceiveError
                 \/ ReceiveGoBL \/ SelfSend \/ SelfSendGivesUp \/ ReceiveDrawn \/ ReceiveBootToMFFirst
          BY <2>1, <2>2 DEF BootInit, ReceiveStart, Start, Initiate, Process, LetStartEnds, StartFails,
               StartNeedsBS, StartReady, Report, ReceiveError, ReceiveGoBL, SelfSend, SelfSendGivesUp,
               ReceiveDrawn, ReceiveBootToMFFirst, bootVars
    <2>3. CASE InitNeedsBS \/ Peek
          BY <2>1, <2>3 DEF InitNeedsBS, Peek, Jump, Leave
    <2>4. CASE ReceiveLater
          BY <2>1, <2>4 DEF ReceiveLater, NextIs, StayAndWait, bootVars
    <2>5. CASE ReceiveBootToMF
          BY <2>1, <2>5 DEF ReceiveBootToMF, StayAndWait, bootVars
    <2>6. CASE GuiStep
      <3>1. CASE ExpiredToSleep \/ PollShipping
            BY <2>1, <3>1 DEF ExpiredToSleep, PollShipping, Leave
      <3>2. CASE \/ GuiReceive \/ GuiCycle \/ ExpiredToShipping \/ ExpiredToBoot \/ PollLowBattery
                 \/ PollDownload \/ PollUpdating \/ TapLink \/ TapDownload \/ TapToBoot \/ TapNothing
                 \/ GuiSend \/ GuiSendGivesUp
            BY <2>1, <3>2 DEF GuiReceive, GuiCycle, ExpiredToShipping, ExpiredToBoot, PollLowBattery,
                 PollDownload, PollUpdating, TapLink, TapDownload, TapToBoot, TapNothing, GuiSend,
                 GuiSendGivesUp, bootVars
      <3> QED BY <2>6, <3>1, <3>2 DEF GuiStep, Expired
    <2>7. CASE Restart
          BY <2>1, <2>7 DEF Restart
    <2> QED BY <2>1, <2>2, <2>3, <2>4, <2>5, <2>6, <2>7 DEF Next, BootStep
  <1> QED BY <1>1, PTL DEF Spec, StayIfAsked
=============================================================================
