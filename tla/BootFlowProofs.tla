--------------------------- MODULE BootFlowProofs ---------------------------
(***************************************************************************)
(* Proofs about BootFlow, for every set of images, keys, versions and any  *)
(* number of power losses: what it starts, installs, confirms, announces   *)
(* and replaces, and that it implements SafeBoot.                          *)
(***************************************************************************)
EXTENDS BootFlowRefinement, TLAPS

USE ImageAssumption, AttributeAssumption

-----------------------------------------------------------------------------
(* Type correctness.                                                         *)

\* What an update in the secondary slot has to be where an action uses it as an update.
UpdateShape ==
  /\ pc = "replaceKey" => secondary \in Wrapper
  /\ pc = "copyErase" => secondary \in App \cup Wrapper

TypeInv == TypeOK /\ UpdateShape

\* The content at the start of the secondary area is a content, and a wrapper is only seen
\* from the base of the slot.
LEMMA SeenContent ==
  ASSUME TypeOK
  PROVE  /\ Seen \in Content
         /\ Seen \in Wrapper => shift = 0 /\ secondary \in Wrapper
         /\ Seen \in App \cup Wrapper => secondary \in App \cup Wrapper
  BY DEF TypeOK, Seen, Content, Image

\* Whatever finds room, only events that were sent are added.
LEMMA SentEvents ==
  ASSUME NEW S, NEW box \in SUBSET S, NEW events \in SUBSET S, NEW after \in Sent(box, events)
  PROVE  after \subseteq S
  BY DEF Sent

LEMMA FirstRunSent ==
  ASSUME SendFirstRun, toMF \subseteq ToMF
  PROVE  /\ toMF' \subseteq ToMF /\ refused' \in BOOLEAN
         /\ "mfFirstRun" \in toMF' \/ refused'
  <1>1. {"mfFirstRun"} \subseteq ToMF
        BY DEF ToMF
  <1>2. toMF' \in Sent(toMF, {"mfFirstRun"})
        BY DEF SendFirstRun
  <1>3. toMF' \subseteq ToMF
        BY <1>1, <1>2, SentEvents
  <1>4. refused' \in BOOLEAN /\ ("mfFirstRun" \in toMF' \/ refused')
        BY Zenon DEF SendFirstRun
  <1> QED BY <1>3, <1>4

LEMMA InitType == Init => TypeInv
  <1> SUFFICES ASSUME Init PROVE TypeInv
      OBVIOUS
  <1>1. primary \in Content /\ secondary \in Content /\ seKey \in Key /\ self \in Loader
        BY DEF Init, Content, Image
  <1>2. trailer \in Trailer /\ secMagic \in [0..1 -> Flag]
        BY DEF Init, Trailer, Erased, Flag
  <1>3. pc \in Label /\ ret \in Return /\ blStatus \in Status /\ dlStatus \in Status
        BY DEF Init, Label, Return, Status
  <1>4. /\ whole \in BOOLEAN /\ initiated \in BOOLEAN /\ mfBootFailed \in BOOLEAN
        /\ inited \in BOOLEAN /\ passed \in BOOLEAN /\ refused \in BOOLEAN
        BY Zenon DEF Init
  <1> QED BY <1>1, <1>2, <1>3, <1>4 DEF Init, TypeInv, TypeOK, UpdateShape

LEMMA MsgType == TypeInv /\ (PowerOn \/ MsgStep) => TypeInv'
  <1> SUFFICES ASSUME TypeInv, PowerOn \/ MsgStep PROVE TypeInv'
      OBVIOUS
  <1> USE DEF TypeInv, TypeOK, UpdateShape, Label, InitLabel, CopyLabel, StartLabel, EraseLabel, Return,
              slotVars, idVars, mboxVars, frame, callVars, ramVars, histVars, Goto, Erase, EraseIf
  <1>1. CASE PowerOn
        BY <1>1 DEF PowerOn
  <1>2. CASE MsgFailed
        BY <1>2 DEF MsgFailed, Status
  <1>3. CASE MsgDone
        BY <1>3 DEF MsgDone
  <1>4. CASE MsgFirst
    <2>1. /\ toBS' \subseteq ToBS
          /\ toMF' \subseteq ToMF
      <3>1. {"firstRunOk"} \subseteq ToBS /\ {"keyOk"} \subseteq ToBS
            /\ toBS \cup {"image"} \subseteq ToBS
            BY DEF ToBS
      <3>2. \/ toBS' \in Sent(toBS, {"firstRunOk"})
            \/ toBS' \in Sent(toBS \cup {"image"}, {"keyOk"})
            \/ toBS' = toBS \/ toBS' = {}
            BY <1>4 DEF MsgFirst, ShareFails
      <3>3. toMF' = toMF \/ toMF' = {}
            BY <1>4 DEF MsgFirst, ShareFails
      <3> QED BY <3>1, <3>2, <3>3, SentEvents
    <2>2. pc' \in {"msgMF", "eraseHeader"} /\ ret' \in Return /\ area' \in {"primary", "secondary"}
          BY <1>4 DEF MsgFirst
    <2>3. dlStatus' \in Status
          BY <1>4 DEF MsgFirst, Status
    <2> QED BY <1>4, <2>1, <2>2, <2>3 DEF MsgFirst
  <1>5. CASE MsgMF
        BY <1>5 DEF MsgMF
  <1>6. CASE MsgOk
    <2>1. toMF' \subseteq ToMF
      <3>1. {"mfUpdateSuccess"} \subseteq ToMF
            BY DEF ToMF
      <3> QED BY <1>6, <3>1, SentEvents DEF MsgOk
    <2>2. trailer' \in Trailer
          BY <1>6 DEF MsgOk, Trailer, Flag
    <2> QED BY <1>6, <2>1, <2>2 DEF MsgOk
  <1>7. CASE InitDone
        BY <1>7 DEF InitDone
  <1> QED BY <1>1, <1>2, <1>3, <1>4, <1>5, <1>6, <1>7 DEF MsgStep

LEMMA EraseStartType == TypeInv /\ (EraseStep \/ Start \/ Finish) => TypeInv'
  <1> SUFFICES ASSUME TypeInv, EraseStep \/ Start \/ Finish PROVE TypeInv'
      OBVIOUS
  <1> USE DEF TypeInv, TypeOK, UpdateShape, Label, InitLabel, CopyLabel, StartLabel, EraseLabel, Return,
              slotVars, idVars, mboxVars, frame, callVars, ramVars, histVars, Goto, Erase, EraseIf
  <1>1. CASE EraseHeader
        BY <1>1 DEF EraseHeader, HeaderErased, Content
  <1>2. CASE EraseTrailer
    <2>1. trailer' \in Trailer /\ secMagic' \in [0..1 -> Flag]
          BY <1>2 DEF EraseTrailer, SecTrailerErased, Trailer, Erased, Flag
    <2> QED BY <1>2, <2>1 DEF EraseTrailer
  <1>3. CASE Start
    <2>1. /\ inited' \in BOOLEAN /\ initiated' \in BOOLEAN /\ mfBootFailed' \in BOOLEAN
          /\ refused' \in BOOLEAN
          BY <1>3, Zenon DEF Start
    <2> QED BY <1>3, <2>1 DEF Start, Status
  <1>4. CASE Finish
        BY <1>4 DEF Finish, EnterMF, Status
  <1> QED BY <1>1, <1>2, <1>3, <1>4 DEF EraseStep

LEMMA CheckType == TypeInv /\ (CheckStep \/ UpdateStep) => TypeInv'
  <1> SUFFICES ASSUME TypeInv, CheckStep \/ UpdateStep PROVE TypeInv'
      OBVIOUS
  <1> USE DEF TypeInv, TypeOK, UpdateShape, Label, InitLabel, CopyLabel, StartLabel, EraseLabel, Return,
              slotVars, idVars, mboxVars, frame, callVars, ramVars, histVars, Goto, Erase,
              EraseIf, AfterCheck, UpdateFound
  <1>1. ASSUME NEW e \in BOOLEAN, NEW st \in Status, Checked(e, st)
        PROVE  TypeInv'
    <2>1. blStatus' \in Status
          BY <1>1 DEF Checked, IfOK
    <2> QED BY <1>1, <2>1 DEF Checked
  <1>2. CASE CheckGarbage \/ CheckForeign \/ CheckForbidden \/ CheckLowBattery
        BY <1>1, <1>2 DEF CheckGarbage, CheckForeign, CheckForbidden, CheckLowBattery, Status
  <1>3. CASE CheckRefused
        BY <1>1, <1>3 DEF CheckRefused, Refusal, Status
  <1>4. CASE CheckWrapperBad
        BY <1>1, <1>4 DEF CheckWrapperBad, Status
  <1>5. CASE ReplaceKeyFails
        BY <1>1, <1>5 DEF ReplaceKeyFails, Status
  <1>6. CASE CheckLoader
    <2>1. toBS' \subseteq ToBS /\ toMF' \subseteq ToMF /\ blStatus' \in Status
          BY <1>6 DEF CheckLoader, ShareFails, ToBS, IfOK, Status
    <2> QED BY <1>6, <2>1 DEF CheckLoader
  <1>7. CASE CheckApp
        BY <1>7 DEF CheckApp
  <1>8. CASE CheckWrapper
    <2>1. shift = 0 /\ secondary \in Wrapper
          BY <1>8, SeenContent DEF CheckWrapper
    <2> QED BY <1>8, <2>1 DEF CheckWrapper
  <1>9. CASE ReplaceKey
        BY <1>9 DEF ReplaceKey
  <1>10. CASE Initiate
    <2>1. secMagic' \in [0..1 -> Flag] /\ initiated' \in BOOLEAN
          BY <1>10 DEF Initiate, Flag
    <2> QED BY <1>10, <2>1 DEF Initiate
  <1> QED BY <1>2, <1>3, <1>4, <1>5, <1>6, <1>7, <1>8, <1>9, <1>10 DEF CheckStep, UpdateStep

LEMMA StatusType == TypeInv /\ StatusStep => TypeInv'
  <1> SUFFICES ASSUME TypeInv, StatusStep PROVE TypeInv'
      OBVIOUS
  <1> USE DEF TypeInv, TypeOK, UpdateShape, Label, InitLabel, CopyLabel, StartLabel, EraseLabel, Return,
              slotVars, idVars, mboxVars, frame, callVars, ramVars, histVars, Goto, Erase,
              EraseIf, BootFailed
  <1>1. CASE StatusJump \/ StatusOK
        BY <1>1 DEF StatusJump, StatusOK
  <1>2. CASE StatusFailed
    <2>1. blStatus' \in Status
          BY <1>2 DEF StatusFailed, Status
    <2>2. mfBootFailed' \in BOOLEAN
          BY <1>2, Zenon DEF StatusFailed, BootFailed
    <2> QED BY <1>2, <2>1, <2>2 DEF StatusFailed
  <1>3. CASE NotReady
    <2>1. mfBootFailed' \in BOOLEAN
          BY <1>3, Zenon DEF NotReady, BootFailed
    <2> QED BY <1>3, <2>1 DEF NotReady
  <1>4. CASE FailTail
    <2>1. blStatus' \in Status /\ shift' \in 0..1
          BY <1>4 DEF FailTail, IfOK, Status
    <2> QED BY <1>4, <2>1 DEF FailTail
  <1>5. CASE FailEnd
        BY <1>5 DEF FailEnd, IfOK, Status
  <1> QED BY <1>1, <1>2, <1>3, <1>4, <1>5 DEF StatusStep

LEMMA CopyType == TypeInv /\ CopyStep => TypeInv'
  <1> SUFFICES ASSUME TypeInv, CopyStep PROVE TypeInv'
      OBVIOUS
  <1> USE DEF TypeInv, TypeOK, UpdateShape, Label, InitLabel, CopyLabel, StartLabel, EraseLabel, Return,
              slotVars, idVars, mboxVars, frame, callVars, ramVars, histVars, Goto, Erase, EraseIf
  <1>1. CASE CopyErase
        BY <1>1 DEF CopyErase, Content
  <1>2. CASE CopyTrailer
        BY <1>2 DEF CopyTrailer, Trailer, Erased, Flag
  <1>3. CASE CopyData
        BY <1>3, SeenContent DEF CopyData
  <1>4. CASE CopyMagic
        BY <1>4 DEF CopyMagic, Trailer, Flag
  <1>5. CASE CopyDone
    <2>1. trailer' \in Trailer
          BY <1>5 DEF CopyDone, Trailer, Flag
    <2>2. passed' \in BOOLEAN
          BY <1>5, Zenon DEF CopyDone
    <2> QED BY <1>5, <2>1, <2>2 DEF CopyDone
  <1>6. CASE DropHeader
    <2>1. whole' \in BOOLEAN
          BY <1>6, Zenon DEF DropHeader
    <2> QED BY <1>6, <2>1 DEF DropHeader, Content
  <1>7. CASE DropTrailer
        BY <1>7 DEF DropTrailer, SecTrailerErased, Flag
  <1> QED BY <1>1, <1>2, <1>3, <1>4, <1>5, <1>6, <1>7 DEF CopyStep

LEMMA BootType == TypeInv /\ BootStep => TypeInv'
  <1> SUFFICES ASSUME TypeInv, BootStep PROVE TypeInv'
      OBVIOUS
  <1> USE DEF TypeInv, TypeOK, UpdateShape, Label, InitLabel, CopyLabel, StartLabel, EraseLabel, Return,
              slotVars, idVars, mboxVars, frame, callVars, ramVars, histVars, Goto, Erase, EraseIf
  <1>1. CASE BootGoErase
    <2>1. secMagic' \in [0..1 -> Flag]
          BY <1>1 DEF BootGoErase, SecTrailerErased, Flag
    <2>2. whole' \in BOOLEAN
          BY <1>1, Zenon DEF BootGoErase
    <2> QED BY <1>1, <2>1, <2>2 DEF BootGoErase, Content
  <1>2. CASE BootGo
    <2>1. pc' = "copyErase" => secondary \in App \cup Wrapper
          BY <1>2, SeenContent DEF BootGo, UpdateUsable, SecVerifies
    <2> QED BY <1>2, <2>1 DEF BootGo
  <1>3. CASE CopyStep
        BY <1>3, CopyType
  <1>4. CASE ValidateFails
        BY <1>4 DEF ValidateFails
  <1>5. CASE Validate
    <2>1. toMF' \subseteq ToMF /\ refused' \in BOOLEAN
      <3>1. Forwarded \subseteq ToMF
            BY DEF Forwarded, ToMF
      <3>2. \/ SendFirstRun
            \/ toMF' \in Sent(toMF, Forwarded) /\ refused' = refused
            \/ toMF' = toMF /\ refused' = refused
            BY <1>5 DEF Validate
      <3> QED BY <3>1, <3>2, SentEvents, FirstRunSent
    <2>2. inited' \in BOOLEAN
          BY <1>5, Zenon DEF Validate
    <2> QED BY <1>5, <2>1, <2>2 DEF Validate
  <1>6. CASE SetMagic
        BY <1>6 DEF SetMagic, Trailer, Flag
  <1>7. CASE SetCopy
    <2>1. /\ trailer' \in Trailer
          /\ toMF' \subseteq ToMF /\ refused' \in BOOLEAN
      <3>1. trailer' \in Trailer
            BY <1>7 DEF SetCopy, Trailer, Flag
      <3> QED BY <1>7, <3>1, FirstRunSent DEF SetCopy
    <2>2. passed' \in BOOLEAN
          BY <1>7, Zenon DEF SetCopy
    <2> QED BY <1>7, <2>1, <2>2 DEF SetCopy
  <1>8. CASE Ready
        BY <1>8 DEF Ready, Status
  <1> QED BY <1>1, <1>2, <1>3, <1>4, <1>5, <1>6, <1>7, <1>8 DEF BootStep

\* A reset leaves every variable of the RAM in its initial state.
LEMMA ResetType ==
  ASSUME RamReset
  PROVE  /\ pc' = "off" /\ ret' \in Return /\ area' \in {"primary", "secondary"}
         /\ phase' \in {"first", "afterOK", "classic", "restore"}
         /\ parsed' \in {"none", "app", "bl", "other"}
         /\ mail' \subseteq ToBL /\ shift' \in 0..1
         /\ initiated' \in BOOLEAN /\ mfBootFailed' \in BOOLEAN /\ inited' \in BOOLEAN
         /\ passed' \in BOOLEAN /\ blStatus' \in Status /\ dlStatus' \in Status
  <1>1. /\ initiated' \in BOOLEAN /\ mfBootFailed' \in BOOLEAN /\ inited' \in BOOLEAN
        /\ passed' \in BOOLEAN
        BY Zenon DEF RamReset
  <1> QED BY <1>1 DEF RamReset, Return, Status

LEMMA OutsideType == TypeInv /\ (IdleStep \/ OutsideStep) => TypeInv'
  <1> SUFFICES ASSUME TypeInv, IdleStep \/ OutsideStep PROVE TypeInv'
      OBVIOUS
  <1> USE DEF TypeInv, TypeOK, UpdateShape, Label, InitLabel, CopyLabel, StartLabel, EraseLabel, Return,
              slotVars, idVars, mboxVars, frame, callVars, ramVars, histVars, Goto, Erase, EraseIf
  <1>1. CASE JumpToMF
        BY <1>1 DEF JumpToMF, EnterMF
  <1>2. CASE JumpToMFRefused
        BY <1>2 DEF JumpToMFRefused, Status
  <1>3. CASE StartAgain
        BY <1>3 DEF StartAgain
  <1>4. ASSUME Downloaded
        PROVE  /\ secondary' \in Content /\ whole' \in BOOLEAN /\ secMagic' \in [0..1 -> Flag]
               /\ installing' \in App \cup Wrapper \cup {Blank}
    <2>1. secondary' \in Content /\ whole' \in BOOLEAN
      <3>1. whole' \in BOOLEAN
            BY <1>4, Zenon DEF Downloaded
      <3> QED BY <1>4, <3>1 DEF Downloaded, Content
    <2> QED BY <1>4, <2>1 DEF Downloaded, Flag
  <1>5. CASE Download
        BY <1>4, <1>5 DEF Download
  <1>6. CASE ForceDownload
        BY <1>6 DEF ForceDownload, ToBL
  <1>7. CASE Sleep
        BY <1>7, ResetType DEF Sleep
  <1>8. CASE BSReturn
    <2>1. toBL' \subseteq ToBL
          BY <1>8 DEF BSReturn, ToBL
    <2>2. self' \in Loader
          BY <1>8 DEF BSReturn
    <2> QED BY <1>8, <2>1, <2>2, ResetType DEF BSReturn
  <1>9. CASE MFReport
        BY <1>9, ResetType DEF MFReport, ToBL
  <1>10. CASE MFDownload
    <2>1. toBL' \subseteq ToBL
          BY <1>10 DEF MFDownload, ToBL
    <2> QED BY <1>4, <1>10, <2>1, ResetType DEF MFDownload
  <1>11. CASE MFReset
        BY <1>11, ResetType DEF MFReset
  <1> QED BY <1>1, <1>2, <1>3, <1>5, <1>6, <1>7, <1>8, <1>9, <1>10, <1>11 DEF IdleStep, OutsideStep

LEMMA PowerLossType == TypeInv /\ PowerLoss => TypeInv'
  <1> SUFFICES ASSUME TypeInv, PowerLoss PROVE TypeInv'
      OBVIOUS
  <1> USE DEF TypeInv, TypeOK, UpdateShape, Label, InitLabel, CopyLabel, StartLabel, EraseLabel, Return,
              slotVars, idVars, mboxVars, frame, callVars, ramVars, histVars, Goto, Erase, EraseIf
  <1>1. losses' \in 0..MaxLosses
        BY DEF PowerLoss
  <1>2. /\ primary' \in Content /\ trailer' \in Trailer /\ secondary' \in Content
        /\ secMagic' \in [0..1 -> Flag] /\ installing' \in App \cup Wrapper \cup {Blank}
    <2>1. CASE UNCHANGED <<slotVars, installing>>
          BY <2>1
    <2>2. CASE TornPrimary
          BY <2>2 DEF TornPrimary, Content
    <2>3. CASE TornSecondary
          BY <2>3 DEF TornSecondary, Content
    <2>4. CASE TornTrailer
          BY <2>4 DEF TornTrailer, Trailer, Flag
    <2>5. CASE TornMagic
          BY <2>5 DEF TornMagic, Flag
    <2> QED BY <2>1, <2>2, <2>3, <2>4, <2>5 DEF PowerLoss
  <1>3. whole' \in BOOLEAN
    <2>1. CASE UNCHANGED whole
          BY <2>1
    <2>2. CASE TornSecondary
          BY <2>2, Zenon DEF TornSecondary
    <2> QED BY <2>1, <2>2 DEF PowerLoss, TornPrimary, TornTrailer, TornMagic
  <1> QED BY <1>1, <1>2, <1>3, ResetType DEF PowerLoss

LEMMA NextType == TypeInv /\ [Next]_vars => TypeInv'
  <1> SUFFICES ASSUME TypeInv, [Next]_vars PROVE TypeInv'
      OBVIOUS
  <1>1. CASE UNCHANGED vars
        BY <1>1 DEF TypeInv, TypeOK, UpdateShape, vars, slotVars, idVars, mboxVars, frame,
                    callVars, ramVars, histVars
  <1>2. CASE Next
        BY <1>2, MsgType, EraseStartType, CheckType, StatusType, BootType, OutsideType,
           PowerLossType DEF Next, BLStep
  <1> QED BY <1>1, <1>2

\* Every variable keeps its type; in particular the secondary area is never moved twice, and
\* the key and the image an installation works on are those of an update.
THEOREM TypeCorrect == Spec => []TypeOK
  <1>1. TypeInv => TypeOK
        BY DEF TypeInv
  <1> QED BY InitType, NextType, <1>1, PTL DEF Spec

-----------------------------------------------------------------------------
(* The safety invariant.                                                     *)

\* What StatusMF, Bootable and Permitted depend on.
LEMMA Depends ==
  /\ UNCHANGED trailer => StatusMF' = StatusMF
  /\ UNCHANGED <<primary, seKey, self>> => Bootable' = Bootable
  /\ UNCHANGED <<mail, mfBootFailed>> => Permitted' = Permitted
  BY DEF StatusMF, Bootable, Compatible, Permitted, Allowed

\* The status of a trailer that is erased, and of one that follows the copy of an update.
LEMMA StatusOfTrailer ==
  /\ trailer = Erased => StatusMF = "MAGIC_UNSET"
  /\ trailer = [magic |-> "set", copyDone |-> "set", imageOk |-> "unset"]
       => StatusMF = "TEST_IN_PROGRESS"
  BY DEF StatusMF, Erased

\* The flags behind the statuses.
LEMMA FlagsOfStatus ==
  ASSUME TypeOK
  PROVE  /\ StatusMF \in {"OK", "TEST_IN_PROGRESS"} =>
              trailer.magic = "set" /\ trailer.copyDone = "set"
         /\ StatusMF = "MAGIC_UNSET" => trailer.magic = "unset"
         /\ StatusMF = "COPY_DONE_UNSET" => trailer.magic = "set" /\ trailer.copyDone = "unset"
         /\ StatusMF \in {"OK", "TEST_IN_PROGRESS", "MAGIC_UNSET", "COPY_DONE_UNSET", "READ_FAILED"}
  BY DEF StatusMF, TypeOK, Trailer, Flag

LEMMA InitFlow == Init => FlowInv
  BY DEF Init, FlowInv, ControlInv, PermissionInv, TrailerInv, ReadyInv, Erasing, CopyLabel,
         EraseLabel, Erased

LEMMA MsgFlow == TypeInv /\ FlowInv /\ (PowerOn \/ MsgStep) => FlowInv'
  <1> SUFFICES ASSUME TypeInv, FlowInv, PowerOn \/ MsgStep PROVE FlowInv'
      OBVIOUS
  <1> USE DEF FlowInv, ControlInv, PermissionInv, TrailerInv, ReadyInv, Erasing, Marked, Settled,
              CopyLabel, EraseLabel, slotVars, idVars, mboxVars, frame, callVars, ramVars,
              histVars, Goto, Erase, EraseIf
  <1>1. CASE PowerOn
        BY <1>1 DEF PowerOn
  <1>2. CASE MsgFailed
        BY <1>2 DEF MsgFailed
  <1>3. CASE MsgDone
        BY <1>3 DEF MsgDone
  <1>4. CASE MsgFirst
        BY <1>4 DEF MsgFirst
  <1>5. CASE MsgMF
        BY <1>5 DEF MsgMF
  <1>6. CASE MsgOk
    <2>1. (trailer.magic = "unset" => trailer = Erased)'
          BY <1>6 DEF MsgOk, TypeInv, TypeOK, Trailer, Flag, Erased
    <2> QED BY <1>6, <2>1 DEF MsgOk
  <1>7. CASE InitDone
        BY <1>7 DEF InitDone
  <1> QED BY <1>1, <1>2, <1>3, <1>4, <1>5, <1>6, <1>7 DEF MsgStep

LEMMA EraseStartFlow == TypeInv /\ FlowInv /\ (EraseStep \/ Start \/ Finish) => FlowInv'
  <1> SUFFICES ASSUME TypeInv, FlowInv, EraseStep \/ Start \/ Finish PROVE FlowInv'
      OBVIOUS
  <1> USE DEF FlowInv, ControlInv, PermissionInv, TrailerInv, ReadyInv, Erasing, Marked, Settled,
              CopyLabel, EraseLabel, slotVars, idVars, mboxVars, frame, callVars, ramVars,
              histVars, Goto, Erase, EraseIf
  <1>1. CASE EraseHeader
        BY <1>1, Depends DEF EraseHeader
  <1>2. CASE EraseTrailer
    <2>1. ret \in Return
          BY DEF TypeInv, TypeOK
    <2>2. trailer.magic # "unset" /\ area = "primary" => trailer' = Erased
          BY <1>2 DEF EraseTrailer
    <2>3. ~(trailer.magic # "unset" /\ area = "primary") => trailer' = trailer
          BY <1>2 DEF EraseTrailer
    <2>4. (trailer.magic = "unset" => trailer = Erased)'
          BY <2>2, <2>3
    <2>5. area = "primary" => StatusMF' = "MAGIC_UNSET"
      <3>1. area = "primary" => trailer' = Erased
            BY <2>2, <2>3
      <3> QED BY <3>1, StatusOfTrailer DEF StatusMF, Erased
    <2>6. area # "primary" => StatusMF' = StatusMF
          BY <2>3, Depends
    <2> QED BY <1>2, <2>1, <2>4, <2>5, <2>6 DEF EraseTrailer, Return, InitLabel
  <1>3. CASE Start
        BY <1>3, Depends DEF Start
  <1>4. CASE Finish
        BY <1>4, Depends DEF Finish
  <1> QED BY <1>1, <1>2, <1>3, <1>4 DEF EraseStep

LEMMA CheckFlow == TypeInv /\ FlowInv /\ (CheckStep \/ UpdateStep) => FlowInv'
  <1> SUFFICES ASSUME TypeInv, FlowInv, CheckStep \/ UpdateStep PROVE FlowInv'
      OBVIOUS
  <1> USE DEF FlowInv, ControlInv, PermissionInv, TrailerInv, ReadyInv, Erasing, Marked, Settled,
              CopyLabel, EraseLabel, slotVars, idVars, mboxVars, frame, callVars, ramVars,
              histVars, Goto, Erase, EraseIf
  <1> USE Depends DEF AfterCheck, UpdateFound
  <1>1. ASSUME NEW e \in BOOLEAN, NEW st \in Status, st # "READY", Checked(e, st),
               pc \in {"check", "replaceKey"}
        PROVE  FlowInv'
        BY <1>1 DEF Checked, IfOK
  <1>2. CASE CheckGarbage \/ CheckForeign \/ CheckForbidden \/ CheckLowBattery
        BY <1>1, <1>2 DEF CheckGarbage, CheckForeign, CheckForbidden, CheckLowBattery, Status
  <1>3. CASE CheckRefused
        BY <1>1, <1>3 DEF CheckRefused, Refusal, Status
  <1>4. CASE CheckWrapperBad
        BY <1>1, <1>4 DEF CheckWrapperBad, Status
  <1>5. CASE ReplaceKeyFails
        BY <1>1, <1>5 DEF ReplaceKeyFails, Status
  <1>6. CASE CheckLoader
        BY <1>6 DEF CheckLoader, IfOK
  <1>7. CASE CheckApp
        BY <1>7 DEF CheckApp
  <1>8. CASE CheckWrapper
        BY <1>8 DEF CheckWrapper
  <1>9. CASE ReplaceKey
        BY <1>9 DEF ReplaceKey
  <1>10. CASE Initiate
        BY <1>10 DEF Initiate
  <1> QED BY <1>2, <1>3, <1>4, <1>5, <1>6, <1>7, <1>8, <1>9, <1>10 DEF CheckStep, UpdateStep

LEMMA StatusFlow == TypeInv /\ FlowInv /\ StatusStep => FlowInv'
  <1> SUFFICES ASSUME TypeInv, FlowInv, StatusStep PROVE FlowInv'
      OBVIOUS
  <1> USE DEF FlowInv, ControlInv, PermissionInv, TrailerInv, ReadyInv, Erasing, Marked, Settled,
              CopyLabel, EraseLabel, slotVars, idVars, mboxVars, frame, callVars, ramVars,
              histVars, Goto, Erase, EraseIf
  <1> USE Depends
  <1>1. CASE StatusJump
        BY <1>1 DEF StatusJump
  <1>2. CASE StatusOK
        BY <1>2 DEF StatusOK
  <1>3. CASE StatusFailed
        BY <1>3 DEF StatusFailed, BootFailed
  <1>4. CASE NotReady
        BY <1>4 DEF NotReady, BootFailed
  <1>5. CASE FailTail
        BY <1>5 DEF FailTail, IfOK
  <1>6. CASE FailEnd
        BY <1>6 DEF FailEnd, IfOK
  <1> QED BY <1>1, <1>2, <1>3, <1>4, <1>5, <1>6 DEF StatusStep

LEMMA CopyFlow == TypeInv /\ FlowInv /\ CopyStep => FlowInv'
  <1> SUFFICES ASSUME TypeInv, FlowInv, CopyStep PROVE FlowInv'
      OBVIOUS
  <1> USE DEF FlowInv, ControlInv, PermissionInv, TrailerInv, ReadyInv, Erasing, Marked, Settled,
              CopyLabel, EraseLabel, slotVars, idVars, mboxVars, frame, callVars, ramVars,
              histVars, Goto, Erase, EraseIf
  <1> USE Depends
  <1>1. CASE CopyErase
        BY <1>1 DEF CopyErase
  <1>2. CASE CopyTrailer
        BY <1>2 DEF CopyTrailer
  <1>3. CASE CopyData
        BY <1>3 DEF CopyData
  <1>4. CASE CopyMagic
        BY <1>4 DEF CopyMagic, Erased
  <1>5. CASE CopyDone
        BY <1>5 DEF CopyDone, Erased
  <1>6. CASE DropHeader
        BY <1>6 DEF DropHeader
  <1>7. CASE DropTrailer
        BY <1>7, StatusOfTrailer DEF DropTrailer
  <1> QED BY <1>1, <1>2, <1>3, <1>4, <1>5, <1>6, <1>7 DEF CopyStep

LEMMA BootStepFlow == TypeInv /\ FlowInv /\ BootStep => FlowInv'
  <1> SUFFICES ASSUME TypeInv, FlowInv, BootStep PROVE FlowInv'
      OBVIOUS
  <1> USE DEF FlowInv, ControlInv, PermissionInv, TrailerInv, ReadyInv, Erasing, Marked, Settled,
              CopyLabel, EraseLabel, slotVars, idVars, mboxVars, frame, callVars, ramVars,
              histVars, Goto, Erase, EraseIf
  <1> USE Depends
  <1>1. CASE BootGoErase
        BY <1>1 DEF BootGoErase
  <1>2. CASE BootGo
        BY <1>2 DEF BootGo
  <1>3. CASE CopyStep
        BY <1>3, CopyFlow
  <1>4. CASE ValidateFails
        BY <1>4 DEF ValidateFails
  <1>5. CASE Validate
        BY <1>5, FlagsOfStatus DEF Validate, TypeInv
  <1>6. CASE SetMagic
    <2>1. trailer'.magic = "set" /\ trailer'.copyDone = "unset"
          BY <1>6, FlagsOfStatus DEF SetMagic, TypeInv, TypeOK, Trailer, Erased
    <2> QED BY <1>6, <2>1 DEF SetMagic
  <1>7. CASE SetCopy
    <2>1. trailer'.magic = "set" /\ trailer'.copyDone = "set"
          BY <1>7 DEF SetCopy, TypeInv, TypeOK, Trailer
    <2> QED BY <1>7, <2>1 DEF SetCopy
  <1>8. CASE Ready
        BY <1>8 DEF Ready
  <1> QED BY <1>1, <1>2, <1>3, <1>4, <1>5, <1>6, <1>7, <1>8 DEF BootStep

\* After a reset only the boot status of the primary slot matters.
LEMMA ResetFlow ==
  ASSUME RamReset, (trailer.magic = "unset" => trailer = Erased)'
  PROVE  FlowInv'
  BY DEF RamReset, FlowInv, ControlInv, PermissionInv, TrailerInv, ReadyInv, Erasing, CopyLabel,
         EraseLabel

LEMMA OutsideFlow == TypeInv /\ FlowInv /\ (IdleStep \/ OutsideStep) => FlowInv'
  <1> SUFFICES ASSUME TypeInv, FlowInv, IdleStep \/ OutsideStep PROVE FlowInv'
      OBVIOUS
  <1> USE DEF FlowInv, ControlInv, PermissionInv, TrailerInv, ReadyInv, Erasing, Marked, Settled,
              CopyLabel, EraseLabel, slotVars, idVars, mboxVars, frame, callVars, ramVars,
              histVars, Goto, Erase, EraseIf
  <1> USE Depends
  <1>1. CASE JumpToMF
        BY <1>1 DEF JumpToMF
  <1>2. CASE JumpToMFRefused
        BY <1>2 DEF JumpToMFRefused
  <1>3. CASE StartAgain
        BY <1>3 DEF StartAgain
  <1>4. CASE Download
        BY <1>4 DEF Download
  <1>5. CASE ForceDownload
        BY <1>5 DEF ForceDownload
  <1>6. CASE Sleep
        BY <1>6, ResetFlow DEF Sleep
  <1>7. CASE OutsideStep
        BY <1>7, ResetFlow DEF OutsideStep, BSReturn, MFReport, MFDownload, MFReset
  <1> QED BY <1>1, <1>2, <1>3, <1>4, <1>5, <1>6, <1>7 DEF IdleStep

LEMMA PowerLossFlow == TypeInv /\ FlowInv /\ PowerLoss => FlowInv'
  <1> SUFFICES ASSUME TypeInv, FlowInv, PowerLoss PROVE FlowInv'
      OBVIOUS
  <1>1. trailer.magic = "unset" => trailer = Erased
        BY DEF FlowInv, TrailerInv
  <1>2. CASE TornTrailer
    <2>1. trailer \in Trailer /\ trailer' \in Trailer
          BY <1>2, PowerLossType DEF TypeInv, TypeOK
    <2>2. pc = "copyDone" => trailer.magic = "set"
          BY DEF FlowInv, TrailerInv, Erased
    <2>3. pc = "setCopy" => trailer.magic = "set"
          BY DEF FlowInv, ReadyInv
    <2>4. trailer'.magic # "unset"
          BY <1>2, <2>1, <2>2, <2>3 DEF TornTrailer, Trailer
    <2> QED BY <2>4, ResetFlow DEF PowerLoss
  <1>3. CASE UNCHANGED trailer
        BY <1>1, <1>3, ResetFlow DEF PowerLoss
  <1> QED BY <1>2, <1>3 DEF PowerLoss, TornPrimary, TornSecondary, TornMagic, slotVars

LEMMA NextFlow == TypeInv /\ FlowInv /\ [Next]_vars => FlowInv'
  <1> SUFFICES ASSUME TypeInv, FlowInv, [Next]_vars PROVE FlowInv'
      OBVIOUS
  <1>1. CASE UNCHANGED vars
        BY <1>1, Depends DEF vars, slotVars, idVars, mboxVars, frame, callVars, ramVars, histVars,
           FlowInv, ControlInv, PermissionInv, TrailerInv, ReadyInv, Erasing, Marked, Settled
  <1>2. CASE Next
        BY <1>2, MsgFlow, EraseStartFlow, CheckFlow, StatusFlow, BootStepFlow, OutsideFlow,
           PowerLossFlow DEF Next, BLStep
  <1> QED BY <1>1, <1>2

LEMMA FlowCorrect == Spec => [](TypeInv /\ FlowInv)
  BY InitType, NextType, InitFlow, NextFlow, PTL DEF Spec

\* The code only jumps to an image that verifies under the current key, is compatible with the
\* bootloader and is marked as completely copied, after any sequence of updates and losses.
THEOREM RunsVerified == Spec => []RunsOnlyVerified
  <1>1. TypeInv /\ FlowInv => RunsOnlyVerified
        BY DEF FlowInv, ReadyInv, Marked, Bootable, Compatible, RunsOnlyVerified
  <1> QED BY FlowCorrect, <1>1, PTL

\* The primary slot is only overwritten with the consent of the user or when there is nothing
\* else to boot.
THEOREM InstallsRequested == Spec => []NoUnrequestedInstall
  <1>1. FlowInv => NoUnrequestedInstall
        BY DEF FlowInv, PermissionInv, Permitted, Allowed, NoUnrequestedInstall
  <1> QED BY FlowCorrect, <1>1, PTL
-----------------------------------------------------------------------------
(* Who is confirmed.                                                         *)

LEMMA InitReport == Init => ReportInv
  BY DEF Init, ReportInv, ConfirmedOnlyAfterReport, ReadingMail, Erasing, InitLabel, EraseLabel,
         Erased

\* Steps away from the mail: they confirm nothing and send nothing to the BL.
LEMMA QuietReport ==
  ASSUME ReportInv, pc # "off", ~ReadingMail', UNCHANGED <<toBL, trial>>,
         trailer'.imageOk = "set" => trailer.imageOk = "set"
  PROVE  ReportInv'
  BY DEF ReportInv, ConfirmedOnlyAfterReport, ReadingMail, Erasing, InitLabel, EraseLabel

LEMMA MsgReport == TypeInv /\ ReportInv /\ (PowerOn \/ MsgStep) => ReportInv'
  <1> SUFFICES ASSUME TypeInv, ReportInv, PowerOn \/ MsgStep PROVE ReportInv'
      OBVIOUS
  <1> USE DEF ReportInv, ConfirmedOnlyAfterReport, ReadingMail, Erasing, InitLabel, EraseLabel,
              slotVars, idVars, mboxVars, frame, callVars, ramVars, histVars, Goto, Erase, EraseIf
  <1>1. CASE PowerOn
        BY <1>1 DEF PowerOn
  <1>2. CASE MsgFailed
        BY <1>2 DEF MsgFailed
  <1>3. CASE MsgDone
        BY <1>3 DEF MsgDone
  <1>4. CASE MsgFirst
        BY <1>4 DEF MsgFirst
  <1>5. CASE MsgMF
        BY <1>5 DEF MsgMF
  <1>6. CASE MsgOk
        BY <1>6 DEF MsgOk
  <1>7. CASE InitDone
        BY <1>7 DEF InitDone
  <1> QED BY <1>1, <1>2, <1>3, <1>4, <1>5, <1>6, <1>7 DEF MsgStep

LEMMA EraseReport == TypeInv /\ ReportInv /\ EraseStep => ReportInv'
  <1> SUFFICES ASSUME TypeInv, ReportInv, EraseStep PROVE ReportInv'
      OBVIOUS
  <1> USE DEF ReportInv, ConfirmedOnlyAfterReport, ReadingMail, Erasing, InitLabel, EraseLabel,
              slotVars, idVars, mboxVars, frame, callVars, ramVars, histVars, Goto
  <1>1. CASE EraseHeader
        BY <1>1 DEF EraseHeader
  <1>2. CASE EraseTrailer
    <2>1. trailer'.imageOk = "set" => trailer.imageOk = "set"
          BY <1>2 DEF EraseTrailer, Erased
    <2>2. ret \in Return
          BY DEF TypeInv, TypeOK
    <2> QED BY <1>2, <2>1, <2>2 DEF EraseTrailer, Return
  <1> QED BY <1>1, <1>2 DEF EraseStep

LEMMA StartReport == ReportInv /\ (Start \/ CheckStep \/ UpdateStep \/ StatusStep) => ReportInv'
  <1> SUFFICES ASSUME ReportInv, Start \/ CheckStep \/ UpdateStep \/ StatusStep PROVE ReportInv'
      OBVIOUS
  <1> USE DEF slotVars, idVars, mboxVars, frame, callVars, ramVars, histVars, Goto, Erase,
              EraseIf, ReadingMail, InitLabel, EraseLabel
  <1>1. CASE Start
        BY <1>1, QuietReport DEF Start
  <1>2. ASSUME NEW e \in BOOLEAN, NEW st \in Status, Checked(e, st), pc # "off"
        PROVE  ReportInv'
        BY <1>2, QuietReport DEF Checked, AfterCheck
  <1>3. CASE CheckGarbage \/ CheckForeign \/ CheckForbidden \/ CheckLowBattery
        BY <1>2, <1>3 DEF CheckGarbage, CheckForeign, CheckForbidden, CheckLowBattery, Status
  <1>4. CASE CheckRefused \/ CheckWrapperBad \/ ReplaceKeyFails
        BY <1>2, <1>4 DEF CheckRefused, Refusal, CheckWrapperBad, ReplaceKeyFails, UpdateFound, Status
  <1>5. CASE CheckLoader \/ CheckApp \/ CheckWrapper
        BY <1>5, QuietReport DEF CheckLoader, CheckApp, CheckWrapper, UpdateFound, AfterCheck
  <1>6. CASE ReplaceKey \/ Initiate
        BY <1>6, QuietReport DEF ReplaceKey, Initiate, AfterCheck
  <1>7. CASE StatusStep
        BY <1>7, QuietReport DEF StatusStep, StatusJump, StatusOK, StatusFailed, NotReady, FailTail,
           FailEnd, BootFailed
  <1> QED BY <1>1, <1>3, <1>4, <1>5, <1>6, <1>7 DEF CheckStep, UpdateStep

\* The copy of an update makes an image that has not reported: its boot status is erased then.
LEMMA BootReport == TypeInv /\ FlowInv /\ ReportInv /\ BootStep => ReportInv'
  <1> SUFFICES ASSUME TypeInv, FlowInv, ReportInv, BootStep PROVE ReportInv'
      OBVIOUS
  <1> USE DEF slotVars, idVars, mboxVars, frame, callVars, ramVars, histVars, Goto, Erase,
              ReadingMail, InitLabel, EraseLabel
  <1>1. CASE BootGoErase \/ BootGo \/ ValidateFails \/ Validate \/ Ready
        BY <1>1, QuietReport DEF BootGoErase, BootGo, ValidateFails, Validate, Ready
  <1>2. CASE CopyData
    <2>1. trailer'.imageOk # "set"
          BY <1>2 DEF CopyData, FlowInv, TrailerInv, Erased
    <2> QED BY <1>2, <2>1 DEF CopyData, ReportInv, ConfirmedOnlyAfterReport, Erasing
  <1>3. CASE CopyErase \/ DropHeader \/ DropTrailer
        BY <1>3, QuietReport DEF CopyErase, DropHeader, DropTrailer
  <1>4. CASE CopyTrailer
        BY <1>4, QuietReport DEF CopyTrailer, Erased
  <1>5. CASE CopyMagic \/ CopyDone \/ SetMagic \/ SetCopy
    <2>1. trailer'.imageOk = trailer.imageOk
          BY <1>5 DEF CopyMagic, CopyDone, SetMagic, SetCopy, TypeInv, TypeOK, Trailer
    <2> QED BY <1>5, <2>1, QuietReport DEF CopyMagic, CopyDone, SetMagic, SetCopy
  <1> QED BY <1>1, <1>2, <1>3, <1>4, <1>5 DEF BootStep, CopyStep

LEMMA OutsideReport == ReportInv /\ (Finish \/ IdleStep \/ OutsideStep) => ReportInv'
  <1> SUFFICES ASSUME ReportInv, Finish \/ IdleStep \/ OutsideStep PROVE ReportInv'
      OBVIOUS
  <1> USE DEF ReportInv, ConfirmedOnlyAfterReport, ReadingMail, Erasing, InitLabel, EraseLabel,
              slotVars, idVars, mboxVars, frame, callVars, ramVars, histVars, Goto
  <1>1. CASE Finish
        BY <1>1 DEF Finish, EnterMF
  <1>2. CASE JumpToMF \/ JumpToMFRefused \/ StartAgain \/ Download \/ ForceDownload
        BY <1>2 DEF JumpToMF, JumpToMFRefused, StartAgain, Download, ForceDownload, EnterMF
  <1>3. CASE Sleep
        BY <1>3 DEF Sleep, RamReset
  <1>4. CASE BSReturn
    <2>1. "mfFirstRunOk" \notin toBL'
          BY <1>4 DEF BSReturn, FirstRunEvent
    <2> QED BY <1>4, <2>1 DEF BSReturn, RamReset
  <1>5. CASE MFReport
        BY <1>5 DEF MFReport, RamReset
  <1>6. CASE MFDownload \/ MFReset
        BY <1>6 DEF MFDownload, MFReset, RamReset
  <1> QED BY <1>1, <1>2, <1>3, <1>4, <1>5, <1>6 DEF IdleStep, OutsideStep

LEMMA PowerLossReport == TypeInv /\ ReportInv /\ PowerLoss => ReportInv'
  <1> SUFFICES ASSUME TypeInv, ReportInv, PowerLoss PROVE ReportInv'
      OBVIOUS
  <1>1. trailer'.imageOk = "set" => trailer.imageOk = "set"
    <2>1. CASE TornTrailer
          BY <2>1 DEF TornTrailer, TypeInv, TypeOK, Trailer
    <2>2. CASE UNCHANGED trailer
          BY <2>2
    <2> QED BY <2>1, <2>2 DEF PowerLoss, TornPrimary, TornSecondary, TornMagic, slotVars
  <1> QED BY <1>1 DEF PowerLoss, RamReset, ReportInv, ConfirmedOnlyAfterReport, ReadingMail,
                      Erasing, InitLabel, EraseLabel

LEMMA NextReport == TypeInv /\ FlowInv /\ ReportInv /\ [Next]_vars => ReportInv'
  <1> SUFFICES ASSUME TypeInv, FlowInv, ReportInv, [Next]_vars PROVE ReportInv'
      OBVIOUS
  <1>1. CASE UNCHANGED vars
        BY <1>1 DEF vars, slotVars, idVars, mboxVars, frame, callVars, ramVars, histVars,
                    ReportInv, ConfirmedOnlyAfterReport, ReadingMail, Erasing
  <1>2. CASE Next
        BY <1>2, MsgReport, EraseReport, StartReport, BootReport, OutsideReport, PowerLossReport
           DEF Next, BLStep
  <1> QED BY <1>1, <1>2

\* The primary slot is confirmed only after the image in it has run and reported, whatever
\* reports, copies, erasures and power losses come between.
THEOREM ConfirmsReported == Spec => []ConfirmedOnlyAfterReport
  <1>1. ReportInv => ConfirmedOnlyAfterReport
        BY DEF ReportInv
  <1> QED BY FlowCorrect, InitReport, NextReport, <1>1, PTL DEF Spec
-----------------------------------------------------------------------------
(* Who is announced.                                                         *)

\* Before a MF can be started there is nothing to announce.
LEMMA EarlyAnnounce ==
  TypeInv /\ FlowInv /\ (PowerOn \/ MsgStep \/ EraseStep \/ Start \/ CheckStep \/ UpdateStep)
    => AnnounceInv'
  <1> SUFFICES ASSUME TypeInv, FlowInv,
                      PowerOn \/ MsgStep \/ EraseStep \/ Start \/ CheckStep \/ UpdateStep
               PROVE  AnnounceInv'
      OBVIOUS
  <1> USE DEF AnnounceInv, Startable, frame, Goto, Erase, EraseIf
  <1>1. CASE PowerOn \/ MsgStep
    <2>1. pc' = "idle" => pc = "initDone"
          BY <1>1 DEF PowerOn, MsgStep, MsgFailed, MsgDone, MsgFirst, MsgMF, MsgOk, InitDone
    <2>2. pc' = "idle" => ~inited'
          BY <1>1, <2>1 DEF PowerOn, MsgStep, MsgFailed, MsgDone, MsgFirst, MsgMF, MsgOk,
                            InitDone, ramVars, FlowInv, ReadyInv
    <2> QED BY <1>1, <2>2 DEF PowerOn, MsgStep, MsgFailed, MsgDone, MsgFirst, MsgMF, MsgOk,
                              InitDone
  <1>2. CASE EraseStep
        BY <1>2 DEF EraseStep, EraseHeader, EraseTrailer, TypeInv, TypeOK, Return
  <1>3. CASE Start
        BY <1>3 DEF Start
  <1>4. CASE CheckStep \/ UpdateStep
    <2>1. pc' \in {"status", "bootGo", "eraseHeader", "initiate", "replaceKey"}
          BY <1>4 DEF CheckStep, UpdateStep, CheckGarbage, CheckForeign, CheckForbidden,
                      CheckLowBattery, CheckLoader, CheckRefused, CheckApp, CheckWrapperBad,
                      CheckWrapper, ReplaceKey, ReplaceKeyFails, Initiate, Checked, AfterCheck
    <2> QED BY <2>1
  <1> QED BY <1>1, <1>2, <1>3, <1>4

LEMMA StatusAnnounce == FlowInv /\ StatusStep => AnnounceInv'
  <1> SUFFICES ASSUME FlowInv, StatusStep PROVE AnnounceInv'
      OBVIOUS
  <1>1. ~inited /\ inited' = inited
        BY DEF StatusStep, StatusJump, StatusOK, StatusFailed, NotReady, FailTail, FailEnd,
               ramVars, FlowInv, ReadyInv
  <1>2. pc' \notin {"ready", "mf"}
        BY DEF StatusStep, StatusJump, StatusOK, StatusFailed, NotReady, FailTail, FailEnd,
               BootFailed, Goto, Erase, EraseIf
  <1> QED BY <1>1, <1>2 DEF AnnounceInv, Startable

LEMMA BootAnnounce == TypeInv /\ FlowInv /\ AnnounceInv /\ BootStep => AnnounceInv'
  <1> SUFFICES ASSUME TypeInv, FlowInv, AnnounceInv, BootStep PROVE AnnounceInv'
      OBVIOUS
  <1> USE DEF AnnounceInv, Startable, slotVars, mboxVars, frame, callVars, ramVars, histVars,
              Goto, Erase
  <1>1. CASE BootGoErase \/ BootGo \/ CopyStep \/ ValidateFails \/ SetMagic
        BY <1>1 DEF BootGoErase, BootGo, ValidateFails, SetMagic, CopyStep, CopyErase, CopyTrailer,
                    CopyData, CopyMagic, CopyDone, DropHeader, DropTrailer
  <1>2. CASE Validate
    <2>1. StatusMF = "OK" => trailer.imageOk = "set"
          BY DEF StatusMF, TypeInv, TypeOK, Trailer, Flag
    <2>2. CASE SendFirstRun
          BY <1>2, <2>2, FirstRunSent DEF Validate, TypeInv, TypeOK
    <2>3. CASE ~SendFirstRun
          BY <1>2, <2>1, <2>3 DEF Validate
    <2> QED BY <2>2, <2>3
  <1>3. CASE SetCopy
        BY <1>3, FirstRunSent DEF SetCopy, TypeInv, TypeOK
  <1>4. CASE Ready
        BY <1>4 DEF Ready
  <1> QED BY <1>1, <1>2, <1>3, <1>4 DEF BootStep

LEMMA OutsideAnnounce ==
  FlowInv /\ AnnounceInv /\ (Finish \/ IdleStep \/ OutsideStep \/ PowerLoss) => AnnounceInv'
  <1> SUFFICES ASSUME FlowInv, AnnounceInv, Finish \/ IdleStep \/ OutsideStep \/ PowerLoss
               PROVE  AnnounceInv'
      OBVIOUS
  <1> USE DEF AnnounceInv, Startable, slotVars, mboxVars, frame, callVars, ramVars, histVars, Goto
  <1>1. CASE Finish
        BY <1>1 DEF Finish, FlowInv, ReadyInv
  <1>2. CASE JumpToMF \/ JumpToMFRefused \/ StartAgain \/ Download \/ ForceDownload
        BY <1>2 DEF JumpToMF, JumpToMFRefused, StartAgain, Download, ForceDownload
  <1>3. CASE Sleep \/ OutsideStep \/ PowerLoss
        BY <1>3 DEF Sleep, OutsideStep, BSReturn, MFReport, MFDownload, MFReset, PowerLoss, RamReset
  <1> QED BY <1>1, <1>2, <1>3 DEF IdleStep

LEMMA NextAnnounce == TypeInv /\ FlowInv /\ AnnounceInv /\ [Next]_vars => AnnounceInv'
  <1> SUFFICES ASSUME TypeInv, FlowInv, AnnounceInv, [Next]_vars PROVE AnnounceInv'
      OBVIOUS
  <1>1. CASE UNCHANGED vars
        BY <1>1 DEF vars, slotVars, mboxVars, callVars, ramVars, histVars, AnnounceInv, Startable
  <1>2. CASE Next
        BY <1>2, EarlyAnnounce, StatusAnnounce, BootAnnounce, OutsideAnnounce DEF Next, BLStep
  <1> QED BY <1>1, <1>2

\* A MF that is not confirmed is never started without its first-run event, so that it can
\* report and the next start does not take it for one that did not respond, except when the
\* mailbox was full as this start put the event.
THEOREM AnnouncesTrials == Spec => []TrialIsAnnounced
  <1>1. Init => AnnounceInv
        BY DEF Init, AnnounceInv, Startable
  <1>2. AnnounceInv => TrialIsAnnounced
        BY DEF AnnounceInv, Startable, TrialIsAnnounced
  <1> QED BY FlowCorrect, NextAnnounce, <1>1, <1>2, PTL DEF Spec

-----------------------------------------------------------------------------
(* A main firmware that is good is given up only for a better one.          *)

\* What the update and the image in the primary slot are judged by.
LEMMA JudgedBy ==
  /\ UNCHANGED <<secondary, whole, shift>> => Seen' = Seen
  /\ UNCHANGED <<secondary, whole, shift, seKey>> => SecVerifies' = SecVerifies
  /\ UNCHANGED <<secondary, whole, shift, primary, self>> => UpdateApproved' = UpdateApproved
  /\ UNCHANGED <<primary, trailer>> => Confirmed' = Confirmed /\ Marked' = Marked
  BY DEF Seen, SecVerifies, UpdateApproved, PrimaryParses, Compatible, Confirmed, Marked

LEMMA InitKeep == Init => KeepInv
  BY DEF Init, KeepInv, GiveUpInv, ReplaceInv, TrialInv, Erases, Startable, Marked, Erased,
         ReadingMail, EraseLabel, CopyLabel, InitLabel

LEMMA MsgKeep == TypeInv /\ FlowInv /\ ReportInv /\ KeepInv /\ (PowerOn \/ MsgStep) => KeepInv'
  <1> SUFFICES ASSUME TypeInv, FlowInv, ReportInv, KeepInv, PowerOn \/ MsgStep PROVE KeepInv'
      OBVIOUS
  <1> USE JudgedBy, Depends
      DEF KeepInv, GiveUpInv, ReplaceInv, TrialInv, Erases, Startable, ReadingMail, EraseLabel,
          InitLabel, slotVars, idVars, mboxVars, frame, callVars, ramVars, histVars,
          Goto, Erase, EraseIf
  <1>1. CASE PowerOn
        BY <1>1 DEF PowerOn
  <1>2. CASE MsgFailed
        BY <1>2 DEF MsgFailed
  <1>3. CASE MsgDone
        BY <1>3 DEF MsgDone
  <1>4. CASE MsgFirst
        BY <1>4 DEF MsgFirst
  <1>5. CASE MsgMF
        BY <1>5 DEF MsgMF
  <1>6. CASE MsgOk
    <2>1. primary \in App /\ trial # "fresh" => Marked'
          BY <1>6 DEF MsgOk, Marked, TypeInv, TypeOK, Trailer
    <2> QED BY <1>6, <2>1 DEF MsgOk, Confirmed
  <1>7. CASE InitDone
    <2>1. ~inited
          BY <1>7 DEF InitDone, FlowInv, ReadyInv
    <2> QED BY <1>7, <2>1 DEF InitDone
  <1> QED BY <1>1, <1>2, <1>3, <1>4, <1>5, <1>6, <1>7 DEF MsgStep

LEMMA EraseKeep == TypeInv /\ FlowInv /\ KeepInv /\ EraseStep => KeepInv'
  <1> SUFFICES ASSUME TypeInv, FlowInv, KeepInv, EraseStep PROVE KeepInv'
      OBVIOUS
  <1> USE JudgedBy, Depends
      DEF KeepInv, GiveUpInv, ReplaceInv, TrialInv, Erases, Startable, ReadingMail, EraseLabel,
          InitLabel, slotVars, idVars, mboxVars, frame, callVars, ramVars, histVars,
          Goto, Erase, EraseIf
  <1>1. CASE EraseHeader
    <2>1. CASE area = "primary"
      <3>1. primary' = Blank /\ primary' \notin App
            BY <1>1, <2>1 DEF EraseHeader, HeaderErased, Image
      <3> QED BY <1>1, <2>1, <3>1 DEF EraseHeader, Confirmed
    <2>2. CASE area # "primary"
      <3>1. UNCHANGED primary
            BY <1>1, <2>2 DEF EraseHeader, HeaderErased
      <3> QED BY <1>1, <2>2, <3>1 DEF EraseHeader
    <2> QED BY <2>1, <2>2
  <1>2. CASE EraseTrailer
    <2>1. ret \in Return
          BY DEF TypeInv, TypeOK
    <2>2. area = "primary" => primary \notin App /\ primary' \notin App
          BY <1>2 DEF EraseTrailer, Image
    <2>3. area # "primary" => UNCHANGED trailer
          BY <1>2 DEF EraseTrailer
    <2>4. ret # "off" /\ (ret \in {"status", "bootGo"} => ~initiated)
          BY <1>2 DEF EraseTrailer, FlowInv, ControlInv, Erasing
    <2> QED BY <1>2, <2>1, <2>2, <2>3, <2>4 DEF EraseTrailer, Return, Confirmed, Marked
  <1> QED BY <1>1, <1>2 DEF EraseStep

LEMMA StartKeep == TypeInv /\ FlowInv /\ KeepInv /\ Start => KeepInv'
  BY JudgedBy, Depends
     DEF KeepInv, GiveUpInv, ReplaceInv, TrialInv, Erases, Startable, ReadingMail, EraseLabel,
         InitLabel, slotVars, idVars, mboxVars, frame, callVars, ramVars, histVars, Goto, Start

\* What newMainFirmwareHandler does not refuse is approved: a plain update as it is, a wrapped one
\* once the area has been moved behind the wrapper's header.
LEMMA NotRefused ==
  ASSUME TypeOK, Refusal = "OK"
  PROVE  /\ Seen \in App => UpdateApproved
         /\ CheckWrapper => UpdateApproved'
  <1>1. ASSUME NEW x \in App, PrimaryParses, Refusal = "OK", Target(Seen) = x
        PROVE  Ver[x] # Ver[primary] /\ Cnt[x] >= Cnt[primary] /\ Compatible(x)
    <2>1. Cnt[x] \in Nat /\ Cnt[primary] \in Nat
          BY <1>1 DEF PrimaryParses
    <2>2. Ver[primary] # Ver[x] /\ ~(Cnt[primary] > Cnt[x]) /\ Compatible(x)
          BY <1>1 DEF Refusal
    <2> QED BY <2>1, <2>2
  <1>2. Seen \in App => UpdateApproved
    <2> SUFFICES ASSUME Seen \in App PROVE UpdateApproved
        OBVIOUS
    <2>1. Seen \notin Wrapper /\ Target(Seen) = Seen
          BY DEF Target
    <2> QED BY <1>1, <2>1 DEF UpdateApproved
  <1>3. CheckWrapper => UpdateApproved'
    <2> SUFFICES ASSUME CheckWrapper PROVE UpdateApproved'
        OBVIOUS
    <2>1. shift = 0 /\ Seen = secondary /\ secondary \in Wrapper /\ secondary \in Movable
          BY SeenContent DEF CheckWrapper, Seen
    <2>2. Inner[secondary] \in App /\ Target(Seen) = Inner[secondary]
          BY <2>1 DEF Target
    <2>3. shift' = 1 /\ UNCHANGED <<primary, secondary, whole, self>>
          BY <2>1 DEF CheckWrapper, slotVars, idVars
    <2>4. Seen' \in {Inner[secondary], Blank}
          BY <2>1, <2>3 DEF Seen
    <2>5. Blank \notin App /\ Blank \notin Wrapper
          BY DEF Image
    <2> QED BY <1>1, <2>2, <2>3, <2>4, <2>5 DEF UpdateApproved, PrimaryParses, Compatible
  <1> QED BY <1>2, <1>3

LEMMA CheckKeep == TypeInv /\ FlowInv /\ KeepInv /\ (CheckStep \/ UpdateStep) => KeepInv'
  <1> SUFFICES ASSUME TypeInv, FlowInv, KeepInv, CheckStep \/ UpdateStep PROVE KeepInv'
      OBVIOUS
  <1> USE JudgedBy, Depends
      DEF KeepInv, GiveUpInv, ReplaceInv, TrialInv, Erases, Startable, ReadingMail, EraseLabel,
          InitLabel, slotVars, idVars, mboxVars, frame, callVars, ramVars, histVars,
          Goto, Erase, EraseIf, AfterCheck, UpdateFound
  <1>1. pc \in {"check", "replaceKey", "initiate"} => ~initiated
        BY DEF FlowInv, ControlInv
  <1>2. ASSUME NEW e \in BOOLEAN, NEW st \in Status, Checked(e, st), pc \in {"check", "replaceKey"}
        PROVE  KeepInv'
        BY <1>1, <1>2 DEF Checked
  <1>3. CASE CheckGarbage \/ CheckForeign \/ CheckForbidden \/ CheckLowBattery
        BY <1>2, <1>3 DEF CheckGarbage, CheckForeign, CheckForbidden, CheckLowBattery, Status
  <1>4. CASE CheckRefused
        BY <1>2, <1>4 DEF CheckRefused, Refusal, Status
  <1>5. CASE CheckWrapperBad \/ ReplaceKeyFails
        BY <1>2, <1>5 DEF CheckWrapperBad, ReplaceKeyFails, Status
  <1>6. CASE CheckLoader
        BY <1>1, <1>6 DEF CheckLoader
  <1>7. CASE CheckApp
        BY <1>7, NotRefused DEF CheckApp, TypeInv
  <1>8. CASE CheckWrapper
    <2>1. UpdateApproved'
          BY <1>8, NotRefused DEF CheckWrapper, TypeInv
    <2> QED BY <1>8, <2>1 DEF CheckWrapper
  <1>9. CASE ReplaceKey
        BY <1>9 DEF ReplaceKey
  <1>10. CASE Initiate
        BY <1>10 DEF Initiate
  <1> QED BY <1>3, <1>4, <1>5, <1>6, <1>7, <1>8, <1>9, <1>10 DEF CheckStep, UpdateStep

LEMMA StatusKeep == TypeInv /\ FlowInv /\ ReportInv /\ KeepInv /\ StatusStep => KeepInv'
  <1> SUFFICES ASSUME TypeInv, FlowInv, ReportInv, KeepInv, StatusStep PROVE KeepInv'
      OBVIOUS
  <1> USE JudgedBy, Depends
      DEF KeepInv, GiveUpInv, ReplaceInv, TrialInv, Erases, Startable, ReadingMail, EraseLabel,
          InitLabel, slotVars, idVars, mboxVars, frame, callVars, ramVars, histVars,
          Goto, Erase, EraseIf
  <1>1. pc \in {"status", "notReady", "failTail", "failEnd"} => ~inited
        BY DEF FlowInv, ReadyInv
  <1>2. CASE StatusJump
        BY <1>1, <1>2 DEF StatusJump
  <1>3. CASE StatusOK
        BY <1>1, <1>3 DEF StatusOK
  <1>4. CASE StatusFailed
    <2>1. StatusMF # "OK" => ~(Marked /\ trailer.imageOk = "set")
          BY DEF StatusMF, Marked
    <2>2. ~Confirmed
      <3>1. ConfirmedOnlyAfterReport => (Confirmed => Marked)
            BY DEF Confirmed, ConfirmedOnlyAfterReport
      <3> QED BY <1>4, <2>1, <3>1 DEF StatusFailed, Confirmed, ReportInv
    <2> QED BY <1>4, <2>2 DEF StatusFailed, BootFailed
  <1>5. CASE NotReady
        BY <1>5 DEF NotReady, BootFailed
  <1>6. CASE FailTail
        BY <1>6 DEF FailTail
  <1>7. CASE FailEnd
        BY <1>1, <1>7 DEF FailEnd
  <1> QED BY <1>2, <1>3, <1>4, <1>5, <1>6, <1>7 DEF StatusStep

LEMMA CopyKeep == TypeInv /\ FlowInv /\ KeepInv /\ CopyStep => KeepInv'
  <1> SUFFICES ASSUME TypeInv, FlowInv, KeepInv, CopyStep PROVE KeepInv'
      OBVIOUS
  <1> USE JudgedBy, Depends
      DEF KeepInv, GiveUpInv, ReplaceInv, TrialInv, Erases, Startable, ReadingMail, EraseLabel,
          InitLabel, slotVars, idVars, mboxVars, frame, callVars, ramVars, histVars,
          Goto, Erase, EraseIf
  <1>1. CASE CopyErase
    <2>1. Seen \in App /\ Blank \notin App
          BY <1>1 DEF CopyErase, SecVerifies, UpdateApproved, Image
    <2> QED BY <1>1, <2>1 DEF CopyErase, Confirmed
  <1>2. CASE CopyTrailer
        BY <1>2 DEF CopyTrailer, Confirmed, Image
  <1>3. CASE CopyData
    <2>1. trailer.imageOk # "set"
          BY <1>3 DEF CopyData, FlowInv, TrailerInv, Erased
    <2> QED BY <1>3, <2>1 DEF CopyData, Confirmed
  <1>4. CASE CopyMagic \/ CopyDone
    <2>1. trailer'.imageOk # "set"
          BY <1>4 DEF CopyMagic, CopyDone, FlowInv, TrailerInv, Erased
    <2> QED BY <1>4, <2>1 DEF CopyMagic, CopyDone, Confirmed
  <1>5. CASE DropHeader \/ DropTrailer
        BY <1>5 DEF DropHeader, DropTrailer
  <1> QED BY <1>1, <1>2, <1>3, <1>4, <1>5 DEF CopyStep

LEMMA BootKeep == TypeInv /\ FlowInv /\ KeepInv /\ BootStep => KeepInv'
  <1> SUFFICES ASSUME TypeInv, FlowInv, KeepInv, BootStep PROVE KeepInv'
      OBVIOUS
  <1> USE JudgedBy, Depends
      DEF KeepInv, GiveUpInv, ReplaceInv, TrialInv, Erases, Startable, ReadingMail, EraseLabel,
          InitLabel, slotVars, idVars, mboxVars, frame, callVars, ramVars, histVars,
          Goto, Erase, EraseIf
  <1>1. CASE BootGoErase \/ BootGo
    <2>1. pc = "bootGo" /\ StatusMF # "TEST_IN_PROGRESS"
          BY <1>1 DEF BootGoErase, BootGo, FlowInv, TrailerInv, Settled
    <2>2. CASE BootGoErase
          BY <2>1, <2>2 DEF BootGoErase
    <2>3. CASE BootGo
          BY <2>1, <2>3 DEF BootGo, UpdateUsable
    <2> QED BY <1>1, <2>2, <2>3
  <1>2. CASE CopyStep
        BY <1>2, CopyKeep
  <1>3. CASE ValidateFails
        BY <1>3 DEF ValidateFails
  <1>4. CASE Validate
    <2>1. Settled \/ (StatusMF = "TEST_IN_PROGRESS" /\ initiated)
          BY <1>4 DEF Validate, FlowInv, TrailerInv
    <2>2. StatusMF \in {"MAGIC_UNSET", "COPY_DONE_UNSET"} => trial = "fresh"
          BY <1>4, FlagsOfStatus DEF Validate, Bootable, Marked, TypeInv
    <2>3. StatusMF = "OK" => trailer.imageOk = "set"
          BY DEF StatusMF, TypeInv, TypeOK, Trailer, Flag
    <2> QED BY <1>4, <2>1, <2>2, <2>3 DEF Validate, Settled
  <1>5. CASE SetMagic \/ SetCopy
    <2>1. trailer'.imageOk = trailer.imageOk /\ trial = "fresh"
          BY <1>5 DEF SetMagic, SetCopy, TypeInv, TypeOK, Trailer
    <2> QED BY <1>5, <2>1 DEF SetMagic, SetCopy, Confirmed
  <1>6. CASE Ready
        BY <1>6 DEF Ready
  <1> QED BY <1>1, <1>2, <1>3, <1>4, <1>5, <1>6 DEF BootStep

LEMMA OutsideKeep == TypeInv /\ FlowInv /\ KeepInv /\ (Finish \/ IdleStep \/ OutsideStep) => KeepInv'
  <1> SUFFICES ASSUME TypeInv, FlowInv, KeepInv, Finish \/ IdleStep \/ OutsideStep PROVE KeepInv'
      OBVIOUS
  <1> USE JudgedBy, Depends
      DEF KeepInv, GiveUpInv, ReplaceInv, TrialInv, Erases, Startable, ReadingMail, EraseLabel,
          InitLabel, slotVars, idVars, mboxVars, frame, callVars, ramVars, histVars,
          Goto, Erase, EraseIf
  <1>1. CASE Finish
    <2>1. (blStatus = "READY" => inited) /\ (inited /\ pc = "finish" => Marked)
          BY <1>1 DEF Finish, FlowInv, ReadyInv
    <2> QED BY <1>1, <2>1 DEF Finish, EnterMF
  <1>2. CASE JumpToMF
    <2>1. Marked
          BY <1>2 DEF JumpToMF, FlowInv, ReadyInv
    <2> QED BY <1>2, <2>1 DEF JumpToMF, EnterMF
  <1>3. CASE JumpToMFRefused \/ StartAgain \/ Download \/ ForceDownload
        BY <1>3 DEF JumpToMFRefused, StartAgain, Download, ForceDownload
  <1>4. CASE Sleep
        BY <1>4 DEF Sleep, RamReset
  <1>5. CASE BSReturn
        BY <1>5 DEF BSReturn, RamReset
  <1>6. CASE MFReport \/ MFDownload \/ MFReset
        BY <1>6 DEF MFReport, MFDownload, MFReset, RamReset
  <1> QED BY <1>1, <1>2, <1>3, <1>4, <1>5, <1>6 DEF IdleStep, OutsideStep

LEMMA PowerLossKeep == TypeInv /\ FlowInv /\ KeepInv /\ PowerLoss => KeepInv'
  <1> SUFFICES ASSUME TypeInv, FlowInv, KeepInv, PowerLoss PROVE KeepInv'
      OBVIOUS
  <1>1. (primary \in App /\ trial # "fresh" => Marked)'
    <2>1. trial' = trial
          BY DEF PowerLoss
    <2>2. CASE TornPrimary
          BY <2>2 DEF TornPrimary, Image
    <2>3. CASE TornTrailer
      <3>1. Blank \notin App
            BY DEF Image
      <3> QED BY <2>1, <2>3, <3>1
              DEF TornTrailer, MagicInFlight, KeepInv, GiveUpInv, ReplaceInv, TrialInv, Erases,
                  Marked, TypeInv, TypeOK, Trailer
    <2>4. CASE UNCHANGED <<primary, trailer>>
          BY <2>1, <2>4 DEF KeepInv, GiveUpInv, Marked
    <2> QED BY <2>2, <2>3, <2>4 DEF PowerLoss, TornSecondary, TornMagic, slotVars
  <1> QED BY <1>1 DEF PowerLoss, RamReset, KeepInv, GiveUpInv, ReplaceInv, TrialInv, Erases,
                      Startable, EraseLabel, ReadingMail

LEMMA NextKeep == TypeInv /\ FlowInv /\ ReportInv /\ KeepInv /\ [Next]_vars => KeepInv'
  <1> SUFFICES ASSUME TypeInv, FlowInv, ReportInv, KeepInv, [Next]_vars PROVE KeepInv'
      OBVIOUS
  <1>1. CASE UNCHANGED vars
        BY <1>1, Depends, JudgedBy
           DEF vars, slotVars, idVars, mboxVars, frame, callVars, ramVars, histVars, KeepInv,
               GiveUpInv, ReplaceInv, TrialInv, Erases, Startable, ReadingMail
  <1>2. CASE Next
        BY <1>2, MsgKeep, EraseKeep, StartKeep, CheckKeep, StatusKeep, BootKeep, OutsideKeep,
           PowerLossKeep DEF Next, BLStep
  <1> QED BY <1>1, <1>2

LEMMA KeepCorrect == Spec => [](TypeInv /\ FlowInv /\ ReportInv /\ KeepInv)
  BY InitType, NextType, InitFlow, NextFlow, InitReport, NextReport, InitKeep, NextKeep, PTL
     DEF Spec
-----------------------------------------------------------------------------
(* What takes the place of a confirmed MF.                                   *)

\* The only steps that change the primary slot.
LEMMA PrimaryChanges ==
  [Next]_vars /\ primary' # primary =>
    \/ EraseHeader /\ area = "primary"
    \/ CopyErase \/ CopyData
    \/ PowerLoss /\ TornPrimary
  <1> SUFFICES ASSUME [Next]_vars, primary' # primary,
                      ~(EraseHeader /\ area = "primary"), ~CopyErase, ~CopyData,
                      ~(PowerLoss /\ TornPrimary)
               PROVE  FALSE
      OBVIOUS
  <1> USE DEF slotVars
  <1>1. ASSUME NEW e \in BOOLEAN, NEW st, Checked(e, st)
        PROVE  FALSE
        BY <1>1 DEF Checked
  <1>2. ~(MsgStep \/ PowerOn \/ Start \/ Finish)
        BY DEF MsgStep, MsgFailed, MsgDone, MsgFirst, MsgMF, MsgOk, InitDone, PowerOn, Start, Finish
  <1>3. ~EraseStep
        BY DEF EraseStep, EraseHeader, EraseTrailer, HeaderErased
  <1>4. ~CheckStep
        BY <1>1 DEF CheckStep, CheckGarbage, CheckForeign, CheckForbidden, CheckLowBattery,
                    CheckLoader, CheckRefused, CheckApp, CheckWrapperBad, CheckWrapper
  <1>5. ~UpdateStep
        BY <1>1 DEF UpdateStep, ReplaceKey, ReplaceKeyFails, Initiate
  <1>6. ~StatusStep
        BY DEF StatusStep, StatusJump, StatusOK, StatusFailed, NotReady, FailTail, FailEnd
  <1>7. ~BootStep
        BY DEF BootStep, CopyStep, BootGoErase, BootGo, CopyTrailer, CopyMagic, CopyDone,
               DropHeader, DropTrailer, ValidateFails, Validate, SetMagic, SetCopy, Ready
  <1>8. ~(IdleStep \/ OutsideStep)
        BY DEF IdleStep, OutsideStep, JumpToMF, JumpToMFRefused, StartAgain, Download,
               ForceDownload, Sleep, BSReturn, MFReport, MFDownload, MFReset
  <1>9. ~PowerLoss
        BY DEF PowerLoss, TornSecondary, TornTrailer, TornMagic
  <1> QED BY <1>2, <1>3, <1>4, <1>5, <1>6, <1>7, <1>8, <1>9 DEF Next, BLStep, vars

\* A good confirmed MF is only overwritten, by an image that verifies, is compatible, is another
\* version and has no lower security counter, whatever erasures, failures and power losses the
\* flow goes through.
THEOREM ReplacesOnlyByBetter == Spec => ConfirmedMFOnlyReplaced
  <1> DEFINE Step ==
        /\ primary \in App /\ Signer[primary] = seKey /\ MinVer[self] <= Ver[primary]
        /\ trailer = [magic |-> "set", copyDone |-> "set", imageOk |-> "set"]
        /\ primary' # primary
        => /\ pc = "copyErase" /\ Seen \in App /\ whole /\ Signer[Seen] = seKey
           /\ MinVer[self] <= Ver[Seen] /\ Ver[Seen] # Ver[primary] /\ Cnt[Seen] >= Cnt[primary]
  <1>1. TypeInv /\ KeepInv /\ [Next]_vars => Step
    <2> SUFFICES ASSUME TypeInv, KeepInv, [Next]_vars, primary \in App, Signer[primary] = seKey,
                        MinVer[self] <= Ver[primary], trailer.imageOk = "set",
                        primary' # primary
                 PROVE  /\ pc = "copyErase" /\ Seen \in App /\ whole /\ Signer[Seen] = seKey
                        /\ MinVer[self] <= Ver[Seen] /\ Ver[Seen] # Ver[primary]
                        /\ Cnt[Seen] >= Cnt[primary]
        OBVIOUS
    <2>1. Bootable /\ Confirmed
          BY DEF Bootable, Compatible, Confirmed
    <2>2. primary # Blank
          BY DEF Image
    <2>3. pc = "copyErase"
          BY <2>1, <2>2, PrimaryChanges
             DEF EraseHeader, CopyErase, CopyData, TornPrimary, KeepInv, GiveUpInv, ReplaceInv, Erases
    <2> QED BY <2>3 DEF KeepInv, ReplaceInv, SecVerifies, UpdateApproved, PrimaryParses, Compatible
  <1>2. Spec => [][Step]_vars
        BY <1>1, KeepCorrect, PTL DEF Spec
  <1> QED BY <1>2 DEF ConfirmedMFOnlyReplaced

-----------------------------------------------------------------------------
(* BootFlow implements SafeBoot: the initial states are its initial states,   *)
(* and every step is one of its steps or leaves the state of SafeBoot alone. *)

LEMMA InitRefines == Init => Safe!Init
  <1> SUFFICES ASSUME Init PROVE Safe!Init
      OBVIOUS
  <1>1. Allowed = FALSE /\ (pc = "mf") = FALSE
        BY DEF Init, Allowed
  <1>2. CASE primary = Blank
    <2>1. primary \notin App
          BY <1>2 DEF Image
    <2> QED BY <1>1, <1>2, <2>1 DEF Safe!Init, Standing
  <1>3. CASE primary # Blank
    <2>1. primary \in App /\ Bootable
          BY <1>3 DEF Init
    <2>2. Standing \in {"fresh", "confirmed"}
          BY <2>1 DEF Init, Standing, Erased
    <2> QED BY <1>1, <2>1, <2>2 DEF Safe!Init, VerifiesWith, AcceptedBy, Bootable, Compatible
  <1> QED BY <1>2, <1>3

-----------------------------------------------------------------------------
(* Steps of the boot flow that SafeBoot does not see.                        *)

\* What is known of the firmware depends on the slot, the trial and one flag of the trailer.
LEMMA SameStanding ==
  ASSUME UNCHANGED <<primary, trial>>, (trailer'.imageOk = "set") = (trailer.imageOk = "set")
  PROVE  Standing' = Standing
  BY DEF Standing

LEMMA Waits ==
  ASSUME UNCHANGED <<primary, seKey, self>>, Standing' = Standing, (pc' = "mf") = (pc = "mf")
  PROVE  Safe!Wait
  BY DEF Safe!Wait, Safe!Consent, Allowed

\* A slot without a firmware stays without one.
LEMMA StaysEmpty ==
  ASSUME primary \notin App, primary' \notin App, UNCHANGED <<seKey, self>>,
         (pc' = "mf") = (pc = "mf")
  PROVE  Safe!Wait
  BY DEF Safe!Wait, Safe!Consent, Allowed, Standing

\* Steps that touch neither the firmware nor its boot status.
LEMMA Unseen ==
  ASSUME UNCHANGED <<primary, trailer, seKey, self, trial>>, pc # "mf", pc' # "mf"
  PROVE  Safe!Wait
  BY SameStanding, Waits

LEMMA QuietRefines ==
  Start \/ CheckStep \/ ReplaceKeyFails \/ Initiate \/ StatusStep => Safe!Wait
  <1> USE Unseen DEF slotVars, idVars, mboxVars, frame, callVars, ramVars, histVars, Goto, Erase,
                     EraseIf, AfterCheck, UpdateFound
  <1>1. ASSUME NEW e \in BOOLEAN, NEW st, Checked(e, st), pc # "mf"
        PROVE  Safe!Wait
        BY <1>1 DEF Checked
  <1>2. Start => Safe!Wait
        BY DEF Start
  <1>3. CheckStep => Safe!Wait
        BY <1>1 DEF CheckStep, CheckGarbage, CheckForeign, CheckForbidden, CheckLowBattery,
                    CheckLoader, CheckRefused, CheckApp, CheckWrapperBad, CheckWrapper
  <1>4. ReplaceKeyFails \/ Initiate => Safe!Wait
        BY <1>1 DEF ReplaceKeyFails, Initiate
  <1>5. StatusStep => Safe!Wait
        BY DEF StatusStep, StatusJump, StatusOK, StatusFailed, NotReady, FailTail, FailEnd,
               BootFailed
  <1> QED BY <1>2, <1>3, <1>4, <1>5

-----------------------------------------------------------------------------
(* Steps that SafeBoot sees.                                                 *)

\* A firmware SafeBoot calls good is bootable and confirmed.
LEMMA GoodIsKept ==
  ASSUME TypeOK, FlowInv, GiveUpInv, Safe!Good
  PROVE  /\ Bootable /\ Confirmed
         /\ pc \in {"replaceKey", "copyErase"} => Allowed
  <1>1. primary \in App /\ trailer.imageOk = "set"
        BY DEF Safe!Good, Standing, TypeOK, Image
  <1>2. Bootable /\ Confirmed
        BY <1>1 DEF Safe!Good, VerifiesWith, AcceptedBy, Bootable, Compatible, Confirmed
  <1>3. pc \in {"replaceKey", "copyErase"} => Allowed
        BY <1>2 DEF FlowInv, PermissionInv, Permitted, CopyLabel, GiveUpInv, Erases
  <1> QED BY <1>2, <1>3

\* The firmware in the slot is destroyed where the code may do so.
LEMMA GivesUp ==
  ASSUME TypeOK, FlowInv, GiveUpInv, primary' \notin App, UNCHANGED <<seKey, self>>, pc' # "mf",
         pc = "copyErase" \/ Erases("primary", "eraseHeader")
  PROVE  Safe!GiveUp \/ Safe!Wait
  <1>1. pc # "mf"
        BY DEF Erases
  <1>2. CASE primary \notin App
        BY <1>1, <1>2, StaysEmpty
  <1>3. CASE primary \in App
    <2>1. Safe!Good => Allowed
          BY GoodIsKept DEF GiveUpInv
    <2> QED BY <1>1, <2>1 DEF Safe!GiveUp, Safe!MayGiveUp, Safe!Consent, Allowed, Standing
  <1> QED BY <1>2, <1>3

LEMMA MsgRefines == ReportInv /\ (PowerOn \/ MsgStep) => Safe!Next
  <1> SUFFICES ASSUME ReportInv, PowerOn \/ MsgStep PROVE Safe!Next
      OBVIOUS
  <1> USE DEF slotVars, idVars, mboxVars, frame, callVars, ramVars, histVars, Goto, Erase, EraseIf
  <1>1. CASE PowerOn \/ MsgFailed \/ MsgDone \/ MsgFirst \/ MsgMF \/ InitDone
    <2>1. Safe!Wait
          BY <1>1, Unseen DEF PowerOn, MsgFailed, MsgDone, MsgFirst, MsgMF, InitDone
    <2> QED BY <2>1 DEF Safe!Next
  <1>2. CASE MsgOk
    <2>1. UNCHANGED <<primary, seKey, self, trial>> /\ pc # "mf" /\ pc' # "mf"
          BY <1>2 DEF MsgOk
    <2>2. trial = "reported"
          BY <1>2 DEF MsgOk, ReportInv, ReadingMail, InitLabel
    <2>3. CASE primary \notin App \/ UNCHANGED trailer
      <3>1. Safe!Wait
            BY <2>1, <2>3, StaysEmpty, Unseen
      <3> QED BY <3>1 DEF Safe!Next
    <2>4. CASE primary \in App /\ ~UNCHANGED trailer
      <3>1. trailer.imageOk = "unset" /\ trailer'.imageOk \in {"set", trailer.imageOk}
            BY <1>2, <2>4 DEF MsgOk
      <3>2. Standing = "reported" /\ Standing' \in {"confirmed", "reported"}
            BY <2>1, <2>2, <2>4, <3>1 DEF Standing
      <3>3. Safe!Confirm \/ Safe!Wait
            BY <2>1, <3>2 DEF Safe!Confirm, Safe!Wait, Safe!Consent, Allowed
      <3> QED BY <3>3 DEF Safe!Next
    <2> QED BY <2>3, <2>4
  <1> QED BY <1>1, <1>2 DEF MsgStep

LEMMA EraseRefines == TypeInv /\ FlowInv /\ KeepInv /\ EraseStep => Safe!Next
  <1> SUFFICES ASSUME TypeInv, FlowInv, KeepInv, EraseStep PROVE Safe!Next
      OBVIOUS
  <1> USE DEF slotVars, idVars, mboxVars, frame, callVars, ramVars, histVars, Goto, Erase, EraseIf
  <1>1. CASE EraseHeader
    <2>1. CASE area = "primary"
      <3>1. primary' \notin App
            BY <1>1, <2>1 DEF EraseHeader, HeaderErased, Image
      <3>2. Safe!GiveUp \/ Safe!Wait
            BY <1>1, <2>1, <3>1, GivesUp DEF EraseHeader, KeepInv, Erases, TypeInv
      <3> QED BY <3>2 DEF Safe!Next
    <2>2. CASE area # "primary"
      <3>1. Safe!Wait
            BY <1>1, <2>2, Unseen DEF EraseHeader, HeaderErased
      <3> QED BY <3>1 DEF Safe!Next
    <2> QED BY <2>1, <2>2
  <1>2. CASE EraseTrailer
    <2>1. pc # "mf" /\ pc' # "mf"
          BY <1>2 DEF EraseTrailer, TypeInv, TypeOK, Return
    <2>2. area = "primary" => primary \notin App /\ primary' \notin App
          BY <1>2 DEF EraseTrailer, KeepInv, GiveUpInv, Erases, Image
    <2>3. Safe!Wait
          BY <1>2, <2>1, <2>2, StaysEmpty, Unseen DEF EraseTrailer
    <2> QED BY <2>3 DEF Safe!Next
  <1> QED BY <1>1, <1>2 DEF EraseStep

LEMMA KeyRefines == TypeInv /\ FlowInv /\ KeepInv /\ ReplaceKey => Safe!Next
  <1> SUFFICES ASSUME TypeInv, FlowInv, KeepInv, ReplaceKey PROVE Safe!Next
      OBVIOUS
  <1>1. Safe!Good => Allowed
        BY GoodIsKept DEF ReplaceKey, TypeInv, KeepInv
  <1>2. UNCHANGED <<primary, trailer, trial, self>> /\ pc = "replaceKey" /\ pc' = "initiate"
        BY DEF ReplaceKey, slotVars, Goto
  <1>3. Standing' = Standing
        BY <1>2, SameStanding
  <1>4. Safe!ChangeKey
        BY <1>1, <1>2, <1>3 DEF Safe!ChangeKey, Safe!MayGiveUp, Safe!Consent, Allowed
  <1> QED BY <1>4 DEF Safe!Next

LEMMA BootRefines == TypeInv /\ FlowInv /\ KeepInv /\ BootStep => Safe!Next
  <1> SUFFICES ASSUME TypeInv, FlowInv, KeepInv, BootStep PROVE Safe!Next
      OBVIOUS
  <1> USE DEF slotVars, idVars, mboxVars, frame, callVars, ramVars, histVars, Goto, Erase, EraseIf
  <1>1. CASE BootGoErase \/ BootGo \/ DropHeader \/ DropTrailer \/ ValidateFails \/ Validate \/ Ready
    <2>1. Safe!Wait
          BY <1>1, Unseen
             DEF BootGoErase, BootGo, DropHeader, DropTrailer, ValidateFails, Validate, Ready
    <2> QED BY <2>1 DEF Safe!Next
  <1>2. CASE CopyErase
    <2>1. primary' \notin App
          BY <1>2 DEF CopyErase, Image
    <2>2. Safe!GiveUp \/ Safe!Wait
          BY <1>2, <2>1, GivesUp DEF CopyErase, KeepInv, TypeInv
    <2> QED BY <2>2 DEF Safe!Next
  <1>3. CASE CopyTrailer
    <2>1. primary \notin App /\ primary' \notin App
          BY <1>3 DEF CopyTrailer, KeepInv, ReplaceInv, Image
    <2>2. Safe!Wait
          BY <1>3, <2>1, StaysEmpty DEF CopyTrailer
    <2> QED BY <2>2 DEF Safe!Next
  <1>4. CASE CopyData
    <2>1. primary \notin App /\ Seen \in App /\ Signer[Seen] = seKey
          BY <1>4 DEF CopyData, KeepInv, ReplaceInv, SecVerifies, Image
    <2>2. primary' = Seen /\ Standing' = "fresh"
          BY <1>4, <2>1 DEF CopyData, Standing, FlowInv, TrailerInv, Erased
    <2>3. Safe!Install
          BY <1>4, <2>1, <2>2 DEF CopyData, Safe!Install, Safe!Consent, Allowed, VerifiesWith
    <2> QED BY <2>3 DEF Safe!Next
  <1>5. CASE CopyMagic \/ CopyDone \/ SetMagic \/ SetCopy
    <2>1. trailer'.imageOk = trailer.imageOk
          BY <1>5 DEF CopyMagic, CopyDone, SetMagic, SetCopy, TypeInv, TypeOK, Trailer
    <2>2. Standing' = Standing
          BY <1>5, <2>1, SameStanding DEF CopyMagic, CopyDone, SetMagic, SetCopy
    <2>3. Safe!Wait
          BY <1>5, <2>2, Waits DEF CopyMagic, CopyDone, SetMagic, SetCopy
    <2> QED BY <2>3 DEF Safe!Next
  <1> QED BY <1>1, <1>2, <1>3, <1>4, <1>5 DEF BootStep, CopyStep

\* A firmware is only started when it verifies, is compatible, and has a trial left or has passed.
LEMMA StartRefines == TypeInv /\ FlowInv /\ KeepInv /\ (Finish \/ JumpToMF) => Safe!Next
  <1> SUFFICES ASSUME TypeInv, FlowInv, KeepInv, Finish \/ JumpToMF PROVE Safe!Next
      OBVIOUS
  <1> USE DEF slotVars, idVars, mboxVars, frame, callVars, ramVars, histVars, Goto, Erase, EraseIf
  <1>1. CASE pc' = "mf"
    <2>1. pc \in {"finish", "idle"} /\ inited /\ EnterMF
          BY <1>1 DEF Finish, JumpToMF, FlowInv, ReadyInv
    <2>2. UNCHANGED <<primary, trailer, seKey, self>>
          BY DEF Finish, JumpToMF
    <2>3. primary \in App /\ Signer[primary] = seKey /\ MinVer[self] <= Ver[primary]
          BY <2>1 DEF FlowInv, ReadyInv, Bootable, Compatible
    <2>4. \/ Standing = "confirmed" /\ Standing' = "confirmed"
          \/ Standing = "fresh" /\ Standing' = "started"
          BY <2>1, <2>2, <2>3 DEF KeepInv, TrialInv, Startable, Standing, EnterMF
    <2>5. Safe!Start
          BY <1>1, <2>1, <2>2, <2>3, <2>4
             DEF Safe!Start, Safe!Consent, Allowed, VerifiesWith, AcceptedBy
    <2> QED BY <2>5 DEF Safe!Next
  <1>2. CASE pc' # "mf"
    <2>1. Safe!Wait
          BY <1>2, Unseen DEF Finish, JumpToMF
    <2> QED BY <2>1 DEF Safe!Next
  <1> QED BY <1>1, <1>2

LEMMA OutsideRefines ==
  TypeInv /\ KeepInv /\ (JumpToMFRefused \/ StartAgain \/ Download \/ ForceDownload \/ Sleep
                         \/ OutsideStep) => Safe!Next
  <1> SUFFICES ASSUME TypeInv, KeepInv,
                      JumpToMFRefused \/ StartAgain \/ Download \/ ForceDownload \/ Sleep
                        \/ OutsideStep
               PROVE  Safe!Next
      OBVIOUS
  <1> USE DEF slotVars, idVars, mboxVars, frame, callVars, ramVars, histVars, Goto, Erase, EraseIf
  <1>1. CASE JumpToMFRefused \/ StartAgain \/ Download \/ ForceDownload \/ Sleep
    <2>1. Safe!Wait
          BY <1>1, Unseen DEF JumpToMFRefused, StartAgain, Download, ForceDownload, Sleep, RamReset
    <2> QED BY <2>1 DEF Safe!Next
  <1>2. CASE BSReturn
    <2>1. UNCHANGED <<primary, trailer, trial, seKey>> /\ pc = "bs" /\ pc' = "off"
          BY <1>2 DEF BSReturn, RamReset
    <2>2. Standing' = Standing
          BY <2>1, SameStanding
    <2>3. Safe!ChangeLoader
          BY <2>1, <2>2 DEF Safe!ChangeLoader, Safe!Consent, Allowed
    <2> QED BY <2>3 DEF Safe!Next
  <1>3. CASE MFReport \/ MFDownload \/ MFReset
    <2>1. UNCHANGED <<primary, trailer, seKey, self>> /\ pc = "mf" /\ pc' = "off"
          BY <1>3 DEF MFReport, MFDownload, MFReset, RamReset
    <2>2. trial' \in {trial, "reported"} /\ trial \in {"started", "reported"}
          BY <1>3, <2>1 DEF MFReport, MFDownload, MFReset, TypeInv, TypeOK, KeepInv, TrialInv
    <2>3. Standing' = Standing \/ (Standing = "started" /\ Standing' = "reported")
          BY <2>1, <2>2 DEF Standing
    <2>4. Safe!Stop
          BY <2>1, <2>3 DEF Safe!Stop, Safe!Consent, Allowed
    <2> QED BY <2>4 DEF Safe!Next
  <1> QED BY <1>1, <1>2, <1>3 DEF OutsideStep

\* Even a torn erasure or write of the primary slot is one the code may begin.
LEMMA PowerLossRefines == TypeInv /\ FlowInv /\ KeepInv /\ PowerLoss => Safe!Next
  <1> SUFFICES ASSUME TypeInv, FlowInv, KeepInv, PowerLoss PROVE Safe!Next
      OBVIOUS
  <1>1. UNCHANGED <<trial, seKey, self>> /\ pc' = "off"
        BY DEF PowerLoss, RamReset, idVars
  <1>2. CASE TornPrimary
    <2>1. primary' \notin App
          BY <1>2 DEF TornPrimary, Image
    <2>2. CASE pc = "copyErase" \/ Erases("primary", "eraseHeader")
      <3>1. Safe!GiveUp \/ Safe!Wait
            BY <1>1, <2>1, <2>2, GivesUp DEF TypeInv, KeepInv
      <3> QED BY <3>1 DEF Safe!Next
    <2>3. CASE pc = "copyData"
      <3>1. primary \notin App
            BY <2>3 DEF KeepInv, ReplaceInv, Image
      <3>2. Safe!Wait
            BY <1>1, <2>1, <2>3, <3>1, StaysEmpty
      <3> QED BY <3>2 DEF Safe!Next
    <2> QED BY <1>2, <2>2, <2>3 DEF TornPrimary, Erases
  <1>3. CASE ~TornPrimary
    <2>1. UNCHANGED primary /\ (trailer'.imageOk = "set") = (trailer.imageOk = "set")
      <3>1. CASE TornTrailer
            BY <3>1 DEF TornTrailer, TypeInv, TypeOK, Trailer
      <3>2. CASE UNCHANGED <<primary, trailer>>
            BY <3>2
      <3> QED BY <1>3, <3>1, <3>2 DEF PowerLoss, TornSecondary, TornMagic, slotVars
    <2>2. Standing' = Standing
          BY <1>1, <2>1, SameStanding
    <2>3. Safe!Wait \/ Safe!Stop
          BY <1>1, <2>1, <2>2 DEF Safe!Wait, Safe!Stop, Safe!Consent, Allowed
    <2> QED BY <2>3 DEF Safe!Next
  <1> QED BY <1>2, <1>3

-----------------------------------------------------------------------------
LEMMA NextRefines ==
  TypeInv /\ FlowInv /\ ReportInv /\ KeepInv /\ [Next]_vars => [Safe!Next]_(Safe!vars)
  <1> SUFFICES ASSUME TypeInv, FlowInv, ReportInv, KeepInv, [Next]_vars
               PROVE  [Safe!Next]_(Safe!vars)
      OBVIOUS
  <1>1. CASE UNCHANGED vars
        BY <1>1 DEF vars, slotVars, idVars, ramVars, histVars, Safe!vars, Standing, Allowed
  <1>2. CASE Start \/ CheckStep \/ UpdateStep \/ StatusStep
    <2>1. Safe!Wait => Safe!Next
          BY DEF Safe!Next
    <2> QED BY <1>2, <2>1, QuietRefines, KeyRefines DEF UpdateStep
  <1>3. CASE Next /\ ~(Start \/ CheckStep \/ UpdateStep \/ StatusStep)
        BY <1>3, MsgRefines, EraseRefines, BootRefines, StartRefines, OutsideRefines,
           PowerLossRefines DEF Next, BLStep, IdleStep
  <1> QED BY <1>1, <1>2, <1>3

\* Whatever the flow does in flash, mail and RAM, and wherever the power fails, what becomes of
\* the firmware is what SafeBoot promises.
THEOREM BootFlowImplementsSafeBoot == Spec => ImplementsSafeBoot
  BY InitRefines, NextRefines, KeepCorrect, PTL DEF Spec, ImplementsSafeBoot, Safe!Spec
=============================================================================
