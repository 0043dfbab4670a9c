------------------------- MODULE BootFlowRiskProofs -------------------------
(***************************************************************************)
(* Proofs about BootFlow: one power loss never costs both copies of a main *)
(* firmware.                                                               *)
(***************************************************************************)
EXTENDS BootFlowProofs

USE ImageAssumption, AttributeAssumption

-----------------------------------------------------------------------------
(* Where checkDownloadedUpdate runs.                                         *)

LEMMA InitCheck == Init => CheckInv
  BY DEF Init, CheckInv

LEMMA MsgCheck == CheckInv /\ FlowInv /\ (PowerOn \/ MsgStep) => CheckInv'
  <1> SUFFICES ASSUME CheckInv, FlowInv, PowerOn \/ MsgStep PROVE CheckInv'
      OBVIOUS
  <1> USE Depends DEF CheckInv, slotVars, idVars, mboxVars, frame, callVars, ramVars, histVars,
              Goto, Erase, EraseIf
  <1>1. CASE PowerOn \/ MsgFailed \/ MsgDone
        BY <1>1 DEF PowerOn, MsgFailed, MsgDone
  <1>2. CASE MsgFirst
        BY <1>2 DEF MsgFirst
  <1>3. CASE MsgMF \/ MsgOk \/ InitDone
        BY <1>3 DEF MsgMF, MsgOk, InitDone
  <1> QED BY <1>1, <1>2, <1>3 DEF MsgStep

LEMMA EraseStartCheck ==
  TypeInv /\ FlowInv /\ KeepInv /\ CheckInv /\ (EraseStep \/ Start) => CheckInv'
  <1> SUFFICES ASSUME TypeInv, FlowInv, KeepInv, CheckInv, EraseStep \/ Start PROVE CheckInv'
      OBVIOUS
  <1> USE Depends DEF CheckInv, slotVars, idVars, mboxVars, frame, callVars, ramVars, histVars,
              Goto, Erase, EraseIf
  <1>1. CASE EraseHeader
        BY <1>1 DEF EraseHeader
  <1>2. CASE EraseTrailer
    <2>1. ret \in Return
          BY DEF TypeInv, TypeOK
    <2>2. ret = "check" => phase # "first" /\ primary = Blank
          BY <1>2 DEF EraseTrailer, FlowInv, ControlInv, Erasing, EraseLabel, KeepInv, GiveUpInv, Erases
    <2>3. ret \in {"status", "bootGo"} => ~initiated
          BY <1>2 DEF EraseTrailer, FlowInv, ControlInv, Erasing, EraseLabel
    <2>4. ret = "check" => Unset'
      <3> SUFFICES ASSUME ret = "check" PROVE Unset'
          OBVIOUS
      <3>1. area = "primary"
            BY <1>2 DEF EraseTrailer, FlowInv, ControlInv, Erasing, EraseLabel
      <3>2. trailer' = Erased
            BY <1>2, <3>1 DEF EraseTrailer, FlowInv, TrailerInv
      <3> QED BY <3>2 DEF Unset, StatusMF, Erased
    <2> QED BY <1>2, <2>1, <2>2, <2>3, <2>4 DEF EraseTrailer, Return
  <1>3. CASE Start
        BY <1>3 DEF Start
  <1> QED BY <1>1, <1>2, <1>3 DEF EraseStep

LEMMA CheckCheck == TypeInv /\ FlowInv /\ CheckInv /\ (CheckStep \/ UpdateStep) => CheckInv'
  <1> SUFFICES ASSUME TypeInv, FlowInv, CheckInv, CheckStep \/ UpdateStep PROVE CheckInv'
      OBVIOUS
  <1> USE Depends DEF CheckInv, slotVars, idVars, mboxVars, frame, callVars, ramVars, histVars,
              Goto, Erase, EraseIf, AfterCheck, UpdateFound
  <1>1. pc \in {"check", "replaceKey", "initiate"} => ~initiated
        BY DEF FlowInv, ControlInv
  <1>2. ASSUME NEW e \in BOOLEAN, NEW st \in Status, Checked(e, st), pc \in {"check", "replaceKey"}
        PROVE  CheckInv'
        BY <1>1, <1>2 DEF Checked
  <1>3. CASE CheckGarbage \/ CheckForeign \/ CheckForbidden \/ CheckLowBattery
        BY <1>2, <1>3 DEF CheckGarbage, CheckForeign, CheckForbidden, CheckLowBattery, Status
  <1>4. CASE CheckRefused
        BY <1>2, <1>4 DEF CheckRefused, Refusal, Status
  <1>5. CASE CheckWrapperBad \/ ReplaceKeyFails
        BY <1>2, <1>5 DEF CheckWrapperBad, ReplaceKeyFails, Status
  <1>6. CASE CheckLoader
        BY <1>1, <1>6 DEF CheckLoader
  <1>7. CASE CheckApp
        BY <1>7 DEF CheckApp
  <1>8. CASE CheckWrapper
    <2>1. shift = 0 /\ Seen = secondary
          BY <1>8, SeenContent DEF CheckWrapper, Seen, TypeInv
    <2> QED BY <1>8, <2>1 DEF CheckWrapper, SecVerifies
  <1>9. CASE ReplaceKey
        BY <1>9 DEF ReplaceKey
  <1>10. CASE Initiate
    <2>1. shift \in 0..1 /\ DOMAIN secMagic = 0..1
          BY DEF TypeInv, TypeOK
    <2> QED BY <1>1, <1>10, <2>1 DEF Initiate
  <1> QED BY <1>3, <1>4, <1>5, <1>6, <1>7, <1>8, <1>9, <1>10 DEF CheckStep, UpdateStep

LEMMA StatusCheck == FlowInv /\ CheckInv /\ StatusStep => CheckInv'
  <1> SUFFICES ASSUME FlowInv, CheckInv, StatusStep PROVE CheckInv'
      OBVIOUS
  <1> USE Depends DEF CheckInv, slotVars, idVars, mboxVars, frame, callVars, ramVars, histVars,
              Goto, Erase, EraseIf
  <1>1. CASE StatusJump \/ StatusOK
        BY <1>1 DEF StatusJump, StatusOK
  <1>2. CASE StatusFailed
    <2>1. StatusMF \in {"MAGIC_UNSET", "COPY_DONE_UNSET"} <=> Unset
          BY DEF Unset
    <2>2. Unset' = Unset
          BY <1>2 DEF StatusFailed, Unset
    <2> QED BY <1>2, <2>1, <2>2 DEF StatusFailed, BootFailed
  <1>3. CASE NotReady \/ FailTail \/ FailEnd
        BY <1>3 DEF NotReady, BootFailed, FailTail, FailEnd
  <1> QED BY <1>1, <1>2, <1>3 DEF StatusStep

LEMMA BootCheck == CheckInv /\ BootStep => CheckInv'
  <1> SUFFICES ASSUME CheckInv, BootStep PROVE CheckInv'
      OBVIOUS
  <1> USE Depends DEF CheckInv, slotVars, idVars, mboxVars, frame, callVars, ramVars, histVars,
              Goto, Erase, EraseIf
  <1>1. CASE BootGoErase \/ BootGo
        BY <1>1 DEF BootGoErase, BootGo
  <1>2. CASE CopyStep
        BY <1>2 DEF CopyStep, CopyErase, CopyTrailer, CopyData, CopyMagic, CopyDone, DropHeader,
                    DropTrailer
  <1>3. CASE ValidateFails \/ Validate \/ SetMagic \/ SetCopy \/ Ready
        BY <1>3 DEF ValidateFails, Validate, SetMagic, SetCopy, Ready
  <1> QED BY <1>1, <1>2, <1>3 DEF BootStep

LEMMA OutsideCheck == CheckInv /\ (Finish \/ IdleStep \/ OutsideStep \/ PowerLoss) => CheckInv'
  <1> SUFFICES ASSUME CheckInv, Finish \/ IdleStep \/ OutsideStep \/ PowerLoss PROVE CheckInv'
      OBVIOUS
  <1> USE Depends DEF CheckInv, slotVars, idVars, mboxVars, frame, callVars, ramVars, histVars, Goto
  <1>1. CASE Finish
        BY <1>1 DEF Finish
  <1>2. CASE IdleStep
        BY <1>2 DEF IdleStep, JumpToMF, JumpToMFRefused, StartAgain, Download, ForceDownload, Sleep, RamReset
  <1>3. CASE OutsideStep \/ PowerLoss
        BY <1>3 DEF OutsideStep, BSReturn, MFReport, MFDownload, MFReset, PowerLoss, RamReset
  <1> QED BY <1>1, <1>2, <1>3

LEMMA NextCheck ==
  TypeInv /\ FlowInv /\ KeepInv /\ CheckInv /\ [Next]_vars => CheckInv'
  <1> SUFFICES ASSUME TypeInv, FlowInv, KeepInv, CheckInv, [Next]_vars PROVE CheckInv'
      OBVIOUS
  <1>1. CASE UNCHANGED vars
        BY <1>1, Depends DEF vars, slotVars, idVars, mboxVars, frame, callVars, ramVars, histVars,
                             CheckInv, Unset
  <1>2. CASE Next
        BY <1>2, MsgCheck, EraseStartCheck, CheckCheck, StatusCheck, BootCheck, OutsideCheck
           DEF Next, BLStep
  <1> QED BY <1>1, <1>2

-----------------------------------------------------------------------------
(* A jump to the BS, and the magic of the secondary slot.                    *)

LEMMA InitJump == Init => JumpInv /\ MagicInv
  BY DEF Init, JumpInv, MagicInv, ReadingMail, InitLabel

LEMMA MsgJump == JumpInv /\ (PowerOn \/ MsgStep) => JumpInv'
  <1> SUFFICES ASSUME JumpInv, PowerOn \/ MsgStep PROVE JumpInv'
      OBVIOUS
  <1> USE DEF JumpInv, ReadingMail, InitLabel, EraseLabel, Erasing,
              slotVars, idVars, mboxVars, frame, callVars, ramVars, histVars, Goto, Erase, EraseIf
  <1>1. CASE PowerOn \/ MsgFailed \/ MsgDone
        BY <1>1 DEF PowerOn, MsgFailed, MsgDone
  <1>2. CASE MsgFirst
        BY <1>2 DEF MsgFirst
  <1>3. CASE MsgMF \/ MsgOk \/ InitDone
        BY <1>3 DEF MsgMF, MsgOk, InitDone
  <1> QED BY <1>1, <1>2, <1>3 DEF MsgStep

LEMMA StartJump ==
  TypeInv /\ FlowInv /\ JumpInv /\ (EraseStep \/ Start \/ CheckStep \/ UpdateStep) => JumpInv'
  <1> SUFFICES ASSUME TypeInv, FlowInv, JumpInv, EraseStep \/ Start \/ CheckStep \/ UpdateStep
               PROVE  JumpInv'
      OBVIOUS
  <1> USE DEF JumpInv, ReadingMail, InitLabel, EraseLabel, Erasing, AfterCheck, UpdateFound,
              slotVars, idVars, mboxVars, frame, callVars, ramVars, histVars, Goto, Erase, EraseIf
  <1>1. CASE EraseStep
    <2>1. ret \in Return /\ ret # "off"
          BY <1>1 DEF EraseStep, EraseHeader, EraseTrailer, TypeInv, TypeOK, FlowInv, ControlInv
    <2> QED BY <1>1, <2>1 DEF EraseStep, EraseHeader, EraseTrailer, Return
  <1>2. CASE Start
        BY <1>2 DEF Start
  <1>3. pc \in {"check", "replaceKey", "initiate"} => ~initiated
        BY DEF FlowInv, ControlInv
  <1>4. ASSUME NEW e \in BOOLEAN, NEW st \in Status \ {"JUMP_TO_BS"}, Checked(e, st),
               pc \in {"check", "replaceKey"}
        PROVE  JumpInv'
        BY <1>4 DEF Checked, IfOK
  <1>5. CASE CheckGarbage \/ CheckForeign \/ CheckForbidden \/ CheckLowBattery
        BY <1>4, <1>5 DEF CheckGarbage, CheckForeign, CheckForbidden, CheckLowBattery, Status
  <1>6. CASE CheckRefused
        BY <1>4, <1>6 DEF CheckRefused, Refusal, Status
  <1>7. CASE CheckWrapperBad \/ ReplaceKeyFails
        BY <1>4, <1>7 DEF CheckWrapperBad, ReplaceKeyFails, Status
  <1>8. CASE CheckLoader
        BY <1>3, <1>8 DEF CheckLoader, IfOK
  <1>9. CASE CheckApp \/ CheckWrapper
        BY <1>9 DEF CheckApp, CheckWrapper
  <1>10. CASE ReplaceKey \/ Initiate
        BY <1>10 DEF ReplaceKey, Initiate
  <1> QED BY <1>1, <1>2, <1>5, <1>6, <1>7, <1>8, <1>9, <1>10 DEF CheckStep, UpdateStep

LEMMA BootJump ==
  TypeInv /\ FlowInv /\ KeepInv /\ JumpInv /\ (StatusStep \/ BootStep) => JumpInv'
  <1> SUFFICES ASSUME TypeInv, FlowInv, KeepInv, JumpInv, StatusStep \/ BootStep PROVE JumpInv'
      OBVIOUS
  <1> USE DEF JumpInv, ReadingMail, InitLabel, EraseLabel, Erasing,
              slotVars, idVars, mboxVars, frame, callVars, ramVars, histVars, Goto, Erase, EraseIf
  <1>1. CASE StatusJump \/ StatusOK \/ StatusFailed
        BY <1>1 DEF StatusJump, StatusOK, StatusFailed, BootFailed
  <1>2. CASE NotReady \/ FailTail \/ FailEnd
        BY <1>2 DEF NotReady, BootFailed, FailTail, FailEnd, IfOK
  <1>3. CASE BootGoErase \/ BootGo
        BY <1>3 DEF BootGoErase, BootGo
  <1>4. CASE CopyStep
    <2>1. initiated
          BY <1>4 DEF CopyStep, CopyErase, CopyTrailer, CopyData, CopyMagic, CopyDone, DropHeader,
                      DropTrailer, FlowInv, ControlInv, CopyLabel
    <2> QED BY <1>4, <2>1 DEF CopyStep, CopyErase, CopyTrailer, CopyData, CopyMagic, CopyDone,
                              DropHeader, DropTrailer
  <1>5. CASE ValidateFails
        BY <1>5 DEF ValidateFails
  <1>6. CASE Validate
    <2>1. StatusMF \in {"OK", "MAGIC_UNSET", "COPY_DONE_UNSET"}
             \/ (StatusMF = "TEST_IN_PROGRESS" /\ initiated)
          BY <1>6 DEF Validate, FlowInv, TrailerInv, Settled
    <2> QED BY <1>6, <2>1 DEF Validate
  <1>7. CASE SetMagic \/ SetCopy \/ Ready
        BY <1>7 DEF SetMagic, SetCopy, Ready
  <1> QED BY <1>1, <1>2, <1>3, <1>4, <1>5, <1>6, <1>7 DEF StatusStep, BootStep

LEMMA OutsideJump ==
  JumpInv /\ (Finish \/ IdleStep \/ OutsideStep \/ PowerLoss) => JumpInv'
  <1> SUFFICES ASSUME JumpInv, Finish \/ IdleStep \/ OutsideStep \/ PowerLoss PROVE JumpInv'
      OBVIOUS
  <1> USE DEF JumpInv, ReadingMail, InitLabel, EraseLabel, Erasing,
              slotVars, idVars, mboxVars, frame, callVars, ramVars, histVars, Goto, RamReset
  <1>1. CASE Finish
        BY <1>1 DEF Finish
  <1>2. CASE IdleStep
        BY <1>2 DEF IdleStep, JumpToMF, JumpToMFRefused, StartAgain, Download, ForceDownload, Sleep
  <1>3. CASE OutsideStep \/ PowerLoss
        BY <1>3 DEF OutsideStep, BSReturn, MFReport, MFDownload, MFReset, PowerLoss
  <1> QED BY <1>1, <1>2, <1>3

LEMMA NextJump == TypeInv /\ FlowInv /\ KeepInv /\ JumpInv /\ [Next]_vars => JumpInv'
  <1> SUFFICES ASSUME TypeInv, FlowInv, KeepInv, JumpInv, [Next]_vars PROVE JumpInv'
      OBVIOUS
  <1>1. CASE UNCHANGED vars
        BY <1>1 DEF vars, slotVars, idVars, mboxVars, frame, callVars, ramVars, histVars,
                    JumpInv, ReadingMail, Erasing
  <1>2. CASE Next
        BY <1>2, MsgJump, StartJump, BootJump, OutsideJump DEF Next, BLStep
  <1> QED BY <1>1, <1>2

\* The magic is written by an update that is initiated, and erased with it, by MCUboot or by
\* BootFailedHandler, before letStart ends.
LEMMA QuietMagic ==
  ASSUME MagicInv, UNCHANGED <<losses, secMagic>>, losses = 0 => secMagic[0] # "set"
  PROVE  MagicInv'
  BY DEF MagicInv

LEMMA MsgMagic == MagicInv /\ FlowInv /\ (PowerOn \/ MsgStep \/ Start \/ CheckStep) => MagicInv'
  <1> SUFFICES ASSUME MagicInv, FlowInv, PowerOn \/ MsgStep \/ Start \/ CheckStep PROVE MagicInv'
      OBVIOUS
  <1> USE DEF slotVars, histVars
  <1>1. ASSUME NEW e, NEW st, Checked(e, st)
        PROVE  UNCHANGED <<losses, secMagic>>
        BY <1>1 DEF Checked
  <1>2. CASE PowerOn \/ MsgStep
    <2>1. UNCHANGED <<losses, secMagic>> /\ pc \in InitLabel \cup {"off"}
          BY <1>2 DEF PowerOn, MsgStep, MsgFailed, MsgDone, MsgFirst, MsgMF, MsgOk, InitDone, InitLabel
    <2> QED BY <2>1, QuietMagic DEF MagicInv, InitLabel, CopyLabel, Erasing, EraseLabel
  <1>3. CASE Start \/ CheckStep
    <2>1. UNCHANGED <<losses, secMagic>>
          BY <1>1, <1>3 DEF Start, CheckStep, CheckGarbage, CheckForeign, CheckForbidden,
               CheckLowBattery, CheckLoader, CheckRefused, CheckApp, CheckWrapperBad, CheckWrapper
    <2>2. pc \in {"start", "check"}
          BY <1>3 DEF Start, CheckStep, CheckGarbage, CheckForeign, CheckForbidden, UpdateFound,
               CheckLowBattery, CheckLoader, CheckRefused, CheckApp, CheckWrapperBad, CheckWrapper
    <2> QED BY <2>1, <2>2, QuietMagic DEF MagicInv, CopyLabel, Erasing, EraseLabel
  <1> QED BY <1>2, <1>3

LEMMA EraseMagic == TypeInv /\ MagicInv /\ FlowInv /\ EraseStep => MagicInv'
  <1> SUFFICES ASSUME TypeInv, MagicInv, FlowInv, EraseStep PROVE MagicInv'
      OBVIOUS
  <1> USE DEF MagicInv, Erasing, EraseLabel, CopyLabel, ramVars, histVars, Goto, frame
  <1>1. CASE EraseHeader
        BY <1>1 DEF EraseHeader
  <1>2. CASE EraseTrailer
    <2>1. secMagic \in [0..1 -> Flag] /\ shift \in 0..1 /\ ret # "off"
          BY <1>2 DEF TypeInv, TypeOK, FlowInv, ControlInv, EraseTrailer
    <2>2. area = "secondary" => secMagic'[0] # "set" \/ secMagic[0] # "set" \/ shift # 0
          BY <1>2, <2>1 DEF EraseTrailer, SecTrailerErased
    <2>3. secMagic'[0] = "set" => secMagic[0] = "set"
          BY <1>2, <2>1 DEF EraseTrailer, SecTrailerErased
    <2>4. CASE area = "secondary"
      <3>1. losses' = 0 => secMagic'[0] # "set"
            BY <1>2, <2>1, <2>2, <2>3, <2>4 DEF EraseTrailer, SecTrailerErased
      <3> QED BY <3>1
    <2>5. CASE area # "secondary"
          BY <1>2, <2>3, <2>5 DEF EraseTrailer
    <2> QED BY <2>4, <2>5
  <1> QED BY <1>1, <1>2 DEF EraseStep

LEMMA BootMagic ==
  TypeInv /\ MagicInv /\ FlowInv /\ CheckInv /\ (UpdateStep \/ StatusStep \/ BootStep) => MagicInv'
  <1> SUFFICES ASSUME TypeInv, MagicInv, FlowInv, CheckInv, UpdateStep \/ StatusStep \/ BootStep
               PROVE  MagicInv'
      OBVIOUS
  <1> USE DEF MagicInv, Erasing, EraseLabel, CopyLabel, slotVars, idVars, mboxVars, frame, callVars,
              ramVars, histVars, Goto, Erase, EraseIf, AfterCheck
  <1>1. secMagic \in [0..1 -> Flag] /\ shift \in 0..1
        BY DEF TypeInv, TypeOK
  <1>2. CASE ReplaceKey \/ ReplaceKeyFails
        BY <1>2 DEF ReplaceKey, ReplaceKeyFails, Checked
  <1>3. CASE Initiate
        BY <1>1, <1>3 DEF Initiate
  <1>4. CASE StatusStep
        BY <1>4 DEF StatusStep, StatusJump, StatusOK, StatusFailed, NotReady, BootFailed, FailTail,
                    FailEnd, CheckInv
  <1>5. CASE BootGoErase \/ DropTrailer
        BY <1>1, <1>5 DEF BootGoErase, DropTrailer, SecTrailerErased
  <1>6. CASE BootGo
        BY <1>6 DEF BootGo, CheckInv, UpdatePending
  <1>7. CASE CopyErase \/ CopyTrailer \/ CopyData \/ CopyMagic \/ CopyDone \/ DropHeader
        BY <1>7 DEF CopyErase, CopyTrailer, CopyData, CopyMagic, CopyDone, DropHeader
  <1>8. CASE ValidateFails \/ Validate \/ SetMagic \/ SetCopy \/ Ready
        BY <1>8 DEF ValidateFails, Validate, SetMagic, SetCopy, Ready
  <1> QED BY <1>2, <1>3, <1>4, <1>5, <1>6, <1>7, <1>8 DEF UpdateStep, BootStep, CopyStep

LEMMA OutsideMagic ==
  TypeInv /\ MagicInv /\ (Finish \/ IdleStep \/ OutsideStep \/ PowerLoss) => MagicInv'
  <1> SUFFICES ASSUME TypeInv, MagicInv, Finish \/ IdleStep \/ OutsideStep \/ PowerLoss
               PROVE  MagicInv'
      OBVIOUS
  <1>1. pc \in {"finish", "idle", "mf", "bs"} /\ losses = 0 => secMagic[0] # "set"
        BY DEF MagicInv, CopyLabel, Erasing, EraseLabel
  <1>2. CASE PowerLoss
        BY <1>2 DEF PowerLoss, MagicInv, TypeInv, TypeOK
  <1>3. CASE Finish \/ IdleStep \/ OutsideStep
    <2>1. UNCHANGED losses /\ (UNCHANGED secMagic \/ secMagic' = [p \in 0..1 |-> "unset"])
          BY <1>3 DEF Finish, IdleStep, JumpToMF, JumpToMFRefused, StartAgain, Download, Downloaded,
               ForceDownload, Sleep, OutsideStep, BSReturn, MFReport, MFDownload, MFReset, slotVars,
               histVars
    <2>2. pc \in {"finish", "idle", "mf", "bs"}
          BY <1>3 DEF Finish, IdleStep, JumpToMF, JumpToMFRefused, StartAgain, Download,
               ForceDownload, Sleep, OutsideStep, BSReturn, MFReport, MFDownload, MFReset
    <2>3. losses' = 0 => secMagic'[0] # "set"
          BY <1>1, <2>1, <2>2
    <2> QED BY <2>3 DEF MagicInv
  <1> QED BY <1>2, <1>3

LEMMA NextMagic == TypeInv /\ MagicInv /\ FlowInv /\ CheckInv /\ [Next]_vars => MagicInv'
  <1> SUFFICES ASSUME TypeInv, MagicInv, FlowInv, CheckInv, [Next]_vars PROVE MagicInv'
      OBVIOUS
  <1>1. CASE UNCHANGED vars
        BY <1>1 DEF vars, slotVars, idVars, mboxVars, frame, callVars, ramVars, histVars,
                    MagicInv, Erasing
  <1>2. CASE Next
        BY <1>2, MsgMagic, EraseMagic, BootMagic, OutsideMagic DEF Next, BLStep
  <1> QED BY <1>1, <1>2

-----------------------------------------------------------------------------
(* Consent.                                                                  *)

\* What a good MF depends on.
LEMMA GoodDepends ==
  /\ UNCHANGED trailer => Unset' = Unset
  /\ UNCHANGED <<primary, trailer, seKey, self>> => Good' = Good
  /\ UNCHANGED seKey => KeyReplaced' = KeyReplaced
  /\ UNCHANGED mail => Allowed' = Allowed
  BY DEF Unset, Good, Bootable, Compatible, StatusMF, KeyReplaced, Allowed

LEMMA GoodIsConfirmed ==
  ASSUME TypeOK, Good
  PROVE  Bootable /\ Confirmed /\ trailer.magic = "set" /\ trailer.copyDone = "set" /\ ~Unset
  BY DEF Good, Bootable, Confirmed, StatusMF, TypeOK, Trailer, Flag, Unset

LEMMA InitConsent == Init => ConsentInv
  BY DEF Init, ConsentInv, Allowed, Bootable, Image

LEMMA MsgConsent == TypeInv /\ FlowInv /\ ConsentInv /\ (PowerOn \/ MsgStep) => ConsentInv'
  <1> SUFFICES ASSUME TypeInv, FlowInv, ConsentInv, PowerOn \/ MsgStep PROVE ConsentInv'
      OBVIOUS
  <1> USE GoodDepends, Depends
      DEF ConsentInv, Renewing, slotVars, idVars, mboxVars, frame, callVars, ramVars, histVars,
          Goto, Erase, EraseIf
  <1>1. CASE PowerOn
        BY <1>1 DEF PowerOn, Allowed
  <1>2. CASE MsgFailed \/ MsgDone
        BY <1>2 DEF MsgFailed, MsgDone
  <1>3. CASE MsgFirst
        BY <1>3 DEF MsgFirst
  <1>4. CASE MsgMF
        BY <1>4 DEF MsgMF
  <1>5. CASE MsgOk
    <2>1. Good => Good'
      <3> SUFFICES ASSUME Good PROVE Good'
          OBVIOUS
      <3>1. UNCHANGED <<primary, trailer, seKey, self>>
            BY <1>5, GoodIsConfirmed DEF MsgOk, TypeInv, Confirmed
      <3> QED BY <3>1
    <2> QED BY <1>5, <2>1 DEF MsgOk
  <1>6. CASE InitDone
    <2>1. blStatus # "READY"
          BY <1>6 DEF InitDone, FlowInv, ReadyInv
    <2> QED BY <1>6, <2>1 DEF InitDone
  <1> QED BY <1>1, <1>2, <1>3, <1>4, <1>5, <1>6 DEF MsgStep

LEMMA EraseConsent ==
  TypeInv /\ FlowInv /\ KeepInv /\ ConsentInv /\ (EraseStep \/ Start) => ConsentInv'
  <1> SUFFICES ASSUME TypeInv, FlowInv, KeepInv, ConsentInv, EraseStep \/ Start PROVE ConsentInv'
      OBVIOUS
  <1> USE GoodDepends, Depends
      DEF ConsentInv, Renewing, slotVars, idVars, mboxVars, frame, callVars, ramVars, histVars,
          Goto, Erase, EraseIf
  <1>1. CASE EraseHeader
    <2>1. CASE area = "primary"
      <3>1. ~Good /\ primary' = Blank /\ Blank \notin App
            BY <1>1, <2>1, GoodIsConfirmed
               DEF EraseHeader, HeaderErased, KeepInv, GiveUpInv, Erases, TypeInv, Image
      <3> QED BY <1>1, <3>1 DEF EraseHeader
    <2>2. CASE area # "primary"
      <3>1. UNCHANGED primary
            BY <1>1, <2>2 DEF EraseHeader, HeaderErased
      <3> QED BY <1>1, <3>1 DEF EraseHeader
    <2> QED BY <2>1, <2>2
  <1>2. CASE EraseTrailer
    <2>1. ret \in Return /\ pc' = ret
          BY <1>2 DEF TypeInv, TypeOK, EraseTrailer
    <2>2. CASE area = "primary"
      <3>1. ~Good
            BY <1>2, <2>2 DEF EraseTrailer, KeepInv, GiveUpInv, Erases, Good, Bootable, Image
      <3> QED BY <1>2, <2>1, <3>1 DEF EraseTrailer, Return
    <2>3. CASE area # "primary"
      <3>1. UNCHANGED trailer
            BY <1>2, <2>3 DEF EraseTrailer
      <3> QED BY <1>2, <2>1, <3>1 DEF EraseTrailer, Return
    <2> QED BY <2>2, <2>3
  <1>3. CASE Start
        BY <1>3 DEF Start
  <1> QED BY <1>1, <1>2, <1>3 DEF EraseStep

LEMMA CheckConsent == TypeInv /\ ConsentInv /\ (CheckStep \/ UpdateStep) => ConsentInv'
  <1> SUFFICES ASSUME TypeInv, ConsentInv, CheckStep \/ UpdateStep PROVE ConsentInv'
      OBVIOUS
  <1> USE GoodDepends, Depends
      DEF ConsentInv, slotVars, idVars, mboxVars, frame, callVars, ramVars, histVars,
          Goto, Erase, EraseIf, AfterCheck, UpdateFound
  <1>1. ASSUME pc \in {"check", "replaceKey", "initiate"},
               pc' \in {"check", "replaceKey", "initiate", "status", "bootGo", "eraseHeader"},
               UNCHANGED <<primary, trailer, seKey, self, mail, toBL>>
        PROVE  ConsentInv'
        BY <1>1 DEF Renewing
  <1>2. ASSUME NEW e \in BOOLEAN, NEW st, Checked(e, st), pc \in {"check", "replaceKey"}
        PROVE  ConsentInv'
        BY <1>1, <1>2 DEF Checked
  <1>3. CASE CheckGarbage \/ CheckForeign \/ CheckForbidden \/ CheckLowBattery
        BY <1>2, <1>3 DEF CheckGarbage, CheckForeign, CheckForbidden, CheckLowBattery
  <1>4. CASE CheckRefused \/ CheckWrapperBad \/ ReplaceKeyFails
        BY <1>2, <1>4 DEF CheckRefused, CheckWrapperBad, ReplaceKeyFails
  <1>5. CASE CheckLoader \/ CheckApp \/ CheckWrapper
        BY <1>1, <1>5 DEF CheckLoader, CheckApp, CheckWrapper
  <1>6. CASE ReplaceKey
    <2>1. KeyReplaced' /\ pc' = "initiate"
          BY <1>6 DEF ReplaceKey, KeyReplaced, TypeInv, UpdateShape
    <2> QED BY <1>6, <2>1 DEF ReplaceKey
  <1>7. CASE Initiate
        BY <1>1, <1>7 DEF Initiate
  <1> QED BY <1>3, <1>4, <1>5, <1>6, <1>7 DEF CheckStep, UpdateStep

LEMMA StatusConsent == FlowInv /\ ConsentInv /\ StatusStep => ConsentInv'
  <1> SUFFICES ASSUME FlowInv, ConsentInv, StatusStep PROVE ConsentInv'
      OBVIOUS
  <1> USE GoodDepends, Depends
      DEF ConsentInv, Renewing, slotVars, idVars, mboxVars, frame, callVars, ramVars, histVars,
          Goto, Erase, EraseIf
  <1>1. pc \in {"status", "notReady", "failTail", "failEnd"} /\ blStatus # "READY"
        BY DEF StatusStep, StatusJump, StatusOK, StatusFailed, NotReady, FailTail, FailEnd,
               FlowInv, ReadyInv
  <1>2. CASE StatusJump \/ StatusOK \/ StatusFailed
        BY <1>1, <1>2 DEF StatusJump, StatusOK, StatusFailed, BootFailed
  <1>3. CASE NotReady \/ FailTail \/ FailEnd
        BY <1>1, <1>3 DEF NotReady, BootFailed, FailTail, FailEnd, IfOK
  <1> QED BY <1>2, <1>3 DEF StatusStep

LEMMA CopyConsent == TypeInv /\ FlowInv /\ KeepInv /\ ConsentInv /\ CopyStep => ConsentInv'
  <1> SUFFICES ASSUME TypeInv, FlowInv, KeepInv, ConsentInv, CopyStep PROVE ConsentInv'
      OBVIOUS
  <1> USE GoodDepends, Depends, JudgedBy
      DEF ConsentInv, slotVars, idVars, mboxVars, frame, callVars, ramVars, histVars, Goto
  <1>1. UNCHANGED <<seKey, self, mail, toBL, shift, secondary, whole, secMagic>> =>
          Compatible(Seen)' = Compatible(Seen)
        BY DEF Compatible
  <1>2. CASE CopyErase
    <2>1. SecVerifies /\ UpdateApproved
          BY <1>2 DEF CopyErase, KeepInv, ReplaceInv
    <2>2. Seen \in App
          BY <2>1 DEF SecVerifies, UpdateApproved
    <2>3. Good => Compatible(Seen)
          BY <2>1, <2>2 DEF Good, Bootable, UpdateApproved, PrimaryParses
    <2>4. Compatible(Seen)' = Compatible(Seen)
          BY <1>1, <1>2 DEF CopyErase
    <2>5. primary' = Blank /\ Blank \notin App
          BY <1>2 DEF CopyErase, Image
    <2> QED BY <1>2, <2>3, <2>4, <2>5 DEF CopyErase, Renewing
  <1>3. CASE CopyTrailer
    <2>1. Compatible(Seen)' = Compatible(Seen)
          BY <1>1, <1>3 DEF CopyTrailer
    <2>2. primary = Blank /\ Blank \notin App
          BY <1>3 DEF CopyTrailer, KeepInv, ReplaceInv, Image
    <2>3. ~Good
          BY <2>2 DEF Good, Bootable
    <2> QED BY <1>3, <2>1, <2>2, <2>3 DEF CopyTrailer, Renewing
  <1>4. CASE CopyData
    <2>1. SecVerifies /\ Seen \in App /\ primary = Blank /\ Blank \notin App
          BY <1>4 DEF CopyData, KeepInv, ReplaceInv, Image
    <2>2. ~Good
          BY <2>1 DEF Good, Bootable
    <2>3. primary' = Seen /\ Signer[Seen] = seKey
          BY <1>4, <2>1 DEF CopyData, SecVerifies
    <2>4. Compatible(Seen) => Bootable'
          BY <1>4, <2>1, <2>3 DEF CopyData, Bootable, Compatible
    <2> QED BY <1>4, <2>1, <2>2, <2>3, <2>4 DEF CopyData, Renewing
  <1>5. CASE CopyMagic \/ CopyDone
    <2>1. ~Good
          BY <1>5, GoodIsConfirmed DEF CopyMagic, CopyDone, FlowInv, TrailerInv, Erased, TypeInv, Confirmed
    <2> QED BY <1>5, <2>1 DEF CopyMagic, CopyDone, Renewing
  <1>6. CASE DropHeader \/ DropTrailer
    <2>1. ~Good /\ StatusMF = "TEST_IN_PROGRESS"
          BY <1>6, StatusOfTrailer DEF DropHeader, DropTrailer, FlowInv, TrailerInv, Good
    <2> QED BY <1>6, <2>1 DEF DropHeader, DropTrailer, Renewing
  <1> QED BY <1>2, <1>3, <1>4, <1>5, <1>6 DEF CopyStep

LEMMA BootConsent == TypeInv /\ FlowInv /\ KeepInv /\ ConsentInv /\ BootStep => ConsentInv'
  <1> SUFFICES ASSUME TypeInv, FlowInv, KeepInv, ConsentInv, BootStep PROVE ConsentInv'
      OBVIOUS
  <1> USE GoodDepends, Depends
      DEF ConsentInv, Renewing, slotVars, idVars, mboxVars, frame, callVars, ramVars, histVars,
          Goto, Erase, EraseIf
  <1>1. CASE BootGoErase \/ BootGo
    <2>1. StatusMF # "TEST_IN_PROGRESS"
          BY <1>1 DEF BootGoErase, BootGo, FlowInv, TrailerInv, Settled
    <2> QED BY <1>1, <2>1 DEF BootGoErase, BootGo
  <1>2. CASE CopyStep
        BY <1>2, CopyConsent
  <1>3. CASE ValidateFails
        BY <1>3 DEF ValidateFails, Good
  <1>4. CASE Validate
    <2>1. Settled \/ (StatusMF = "TEST_IN_PROGRESS" /\ initiated)
          BY <1>4 DEF Validate, FlowInv, TrailerInv
    <2> QED BY <1>4, <2>1 DEF Validate, Settled
  <1>5. CASE SetMagic \/ SetCopy
    <2>1. ~Good
          BY <1>5 DEF SetMagic, SetCopy, Good, FlowInv, ReadyInv, StatusMF
    <2> QED BY <1>5, <2>1 DEF SetMagic, SetCopy
  <1>6. CASE Ready
        BY <1>6 DEF Ready
  <1> QED BY <1>1, <1>2, <1>3, <1>4, <1>5, <1>6 DEF BootStep

LEMMA OutsideConsent ==
  ASSUME ~EagerMF, TypeInv, FlowInv, KeepInv, ConsentInv,
         Finish \/ IdleStep \/ OutsideStep \/ PowerLoss
  PROVE  ConsentInv'
  <1> USE GoodDepends, Depends
      DEF ConsentInv, slotVars, idVars, mboxVars, frame, callVars, ramVars, histVars, Goto
  <1>1. CASE Finish
    <2>1. blStatus = "READY" => Bootable
          BY <1>1 DEF Finish, FlowInv, ReadyInv
    <2> QED BY <1>1, <2>1 DEF Finish, Renewing, Good, EnterMF
  <1>2. CASE JumpToMF \/ JumpToMFRefused \/ StartAgain
        BY <1>2 DEF JumpToMF, JumpToMFRefused, StartAgain, Renewing, EnterMF
  <1>3. CASE Download \/ ForceDownload
        BY <1>3 DEF Download, ForceDownload, Renewing
  <1>4. ASSUME RamReset, UNCHANGED <<primary, trailer, seKey, trial>>,
               "allowUpdate" \in toBL' => Good'
        PROVE  ConsentInv'
        BY <1>4 DEF RamReset, Allowed
  <1>5. CASE Sleep \/ MFReset
    <2>1. pc # "off"
          BY <1>5 DEF Sleep, MFReset
    <2> QED BY <1>4, <1>5, <2>1 DEF Sleep, MFReset
  <1>6. CASE BSReturn
    <2>1. "allowUpdate" \notin toBL'
          BY <1>6 DEF BSReturn, FirstRunEvent
    <2> QED BY <1>6, <2>1 DEF BSReturn, RamReset, Allowed
  <1>7. CASE MFReport
        BY <1>7 DEF MFReport, RamReset, Allowed
  <1>8. CASE MFDownload
    <2>1. Bootable /\ Marked
          BY <1>8 DEF MFDownload, FlowInv, ReadyInv
    <2>2. "allowUpdate" \in toBL' => trailer.imageOk = "set"
          BY <1>8 DEF MFDownload
    <2>3. trailer.imageOk = "set" => Good
          BY <2>1 DEF Good, StatusMF, Marked
    <2>4. Good' = Good
          BY <1>8 DEF MFDownload, idVars
    <2> QED BY <1>8, <2>2, <2>3, <2>4 DEF MFDownload, RamReset, Allowed
  <1>9. CASE PowerLoss
    <2>1. primary' \in App => primary' = primary
          BY <1>9 DEF PowerLoss, TornPrimary, TornSecondary, TornTrailer, TornMagic, Image
    <2> QED BY <1>9, <2>1 DEF PowerLoss, RamReset, Allowed
  <1> QED BY <1>1, <1>2, <1>3, <1>5, <1>6, <1>7, <1>8, <1>9 DEF IdleStep, OutsideStep

LEMMA NextConsent ==
  ASSUME ~EagerMF, TypeInv, FlowInv, KeepInv, ConsentInv, [Next]_vars
  PROVE  ConsentInv'
  <1>1. CASE UNCHANGED vars
        BY <1>1, GoodDepends, Depends, JudgedBy
           DEF vars, slotVars, idVars, mboxVars, frame, callVars, ramVars, histVars, ConsentInv,
               Renewing, Compatible
  <1>2. CASE Next
        BY <1>2, MsgConsent, EraseConsent, CheckConsent, StatusConsent, BootConsent, OutsideConsent
           DEF Next, BLStep
  <1> QED BY <1>1, <1>2

-----------------------------------------------------------------------------
(* The copies.                                                               *)

KnownInv ==
  TypeInv /\ FlowInv /\ KeepInv /\ ConsentInv /\ CheckInv /\ JumpInv /\ MagicInv /\ SourceInv

\* The secondary slot and the image that is being installed change together.
LEMMA SourceChanges ==
  ASSUME [Next]_vars
  PROVE  \/ secondary' = secondary /\ installing' \in {installing, secondary, Blank}
         \/ secondary' \in {Blank, Noise} /\ installing' = installing
         \/ installing' = Blank
  <1> USE DEF slotVars, histVars
  <1>1. ASSUME NEW e, NEW st, Checked(e, st)
        PROVE  UNCHANGED <<secondary, installing>>
        BY <1>1 DEF Checked
  <1>2. CASE MsgStep \/ PowerOn \/ Start \/ Finish
        BY <1>2 DEF MsgStep, MsgFailed, MsgDone, MsgFirst, MsgMF, MsgOk, InitDone, PowerOn, Start, Finish
  <1>3. CASE EraseStep
        BY <1>3 DEF EraseStep, EraseHeader, EraseTrailer, HeaderErased
  <1>4. CASE CheckStep
        BY <1>1, <1>4
           DEF CheckStep, CheckGarbage, CheckForeign, CheckForbidden, CheckLowBattery,
               CheckLoader, CheckRefused, CheckApp, CheckWrapperBad, CheckWrapper
  <1>5. CASE UpdateStep
        BY <1>1, <1>5 DEF UpdateStep, ReplaceKey, ReplaceKeyFails, Initiate
  <1>6. CASE StatusStep
        BY <1>6 DEF StatusStep, StatusJump, StatusOK, StatusFailed, NotReady, FailTail, FailEnd
  <1>7. CASE BootStep
        BY <1>7 DEF BootStep, CopyStep, BootGoErase, BootGo, CopyErase, CopyTrailer, CopyData, CopyMagic,
               CopyDone, DropHeader, DropTrailer, ValidateFails, Validate, SetMagic, SetCopy, Ready
  <1>8. CASE IdleStep \/ OutsideStep
        BY <1>8 DEF IdleStep, OutsideStep, JumpToMF, JumpToMFRefused, StartAgain, Download,
               ForceDownload, Sleep, BSReturn, MFReport, MFDownload, MFReset, Downloaded
  <1>9. CASE PowerLoss
        BY <1>9 DEF PowerLoss, TornPrimary, TornSecondary, TornTrailer, TornMagic
  <1>10. CASE UNCHANGED vars
        BY <1>10 DEF vars
  <1> QED BY <1>2, <1>3, <1>4, <1>5, <1>6, <1>7, <1>8, <1>9, <1>10 DEF Next, BLStep

LEMMA NextSource == SourceInv /\ [Next]_vars => SourceInv'
  BY SourceChanges DEF SourceInv

\* The steps that begin an installation.
Begins == ReplaceKey \/ CopyErase \/ (PowerLoss /\ TornPrimary /\ pc = "copyErase")

\* Any other step has the image at risk that was at risk before.
LEMMA RiskStays ==
  ASSUME TypeInv, SourceInv, [Next]_vars, AtRisk', ~Begins
  PROVE  AtRisk /\ UNCHANGED <<installing, seKey, self>>
  <1> USE DEF slotVars, idVars, histVars
  <1>1. installing' # Blank
        BY DEF AtRisk, Installable, Image
  <1>2. ASSUME NEW e, NEW st, Checked(e, st)
        PROVE  UNCHANGED <<installing, seKey, self>>
        BY <1>2 DEF Checked
  <1>3. UNCHANGED <<installing, seKey, self>>
    <2>1. CASE MsgStep \/ PowerOn \/ Start \/ Finish
          BY <2>1 DEF MsgStep, MsgFailed, MsgDone, MsgFirst, MsgMF, MsgOk, InitDone, PowerOn, Start, Finish
    <2>2. CASE EraseStep
          BY <2>2 DEF EraseStep, EraseHeader, EraseTrailer
    <2>3. CASE CheckStep
          BY <1>2, <2>3
             DEF CheckStep, CheckGarbage, CheckForeign, CheckForbidden, CheckLowBattery,
                 CheckLoader, CheckRefused, CheckApp, CheckWrapperBad, CheckWrapper
    <2>4. CASE UpdateStep
          BY <1>2, <2>4 DEF UpdateStep, ReplaceKeyFails, Initiate, Begins
    <2>5. CASE StatusStep
          BY <2>5 DEF StatusStep, StatusJump, StatusOK, StatusFailed, NotReady, FailTail, FailEnd
    <2>6. CASE BootStep
          BY <1>1, <2>6
             DEF BootStep, CopyStep, BootGoErase, BootGo, CopyTrailer, CopyData, CopyMagic, CopyDone,
                 DropHeader, DropTrailer, ValidateFails, Validate, SetMagic, SetCopy, Ready, Begins
    <2>7. CASE BSReturn
      <3>1. installing' = installing /\ seKey' = seKey
            BY <2>7 DEF BSReturn
      <3>2. secondary \notin Loader
            BY <1>1, <3>1 DEF SourceInv, TypeInv, TypeOK, Image
      <3> QED BY <2>7, <3>1, <3>2 DEF BSReturn
    <2>8. CASE IdleStep \/ (OutsideStep /\ ~BSReturn)
          BY <1>1, <2>8
             DEF IdleStep, OutsideStep, JumpToMF, JumpToMFRefused, StartAgain, Download,
                 ForceDownload, Sleep, MFReport, MFDownload, MFReset, Downloaded
    <2>9. CASE PowerLoss
          BY <1>1, <2>9 DEF PowerLoss, TornPrimary, TornSecondary, TornTrailer, TornMagic, Begins
    <2>10. CASE UNCHANGED vars
          BY <2>10 DEF vars
    <2> QED BY <2>1, <2>2, <2>3, <2>4, <2>5, <2>6, <2>7, <2>8, <2>9, <2>10 DEF Next, BLStep
  <1> QED BY <1>3 DEF AtRisk, Installable

LEMMA RiskDepends ==
  /\ UNCHANGED <<installing, seKey, self>> => AtRisk' = AtRisk
  /\ UNCHANGED <<installing, secondary, whole>> => Intact' = Intact
  /\ UNCHANGED <<installing, primary, trailer>> => Restored' = Restored
  BY DEF AtRisk, Installable, Intact, Restored, Unset, StatusMF, Target

\* What is at risk, where it is in the secondary slot, and that the MF cannot be started.
LEMMA RiskFacts ==
  ASSUME TypeInv, FlowInv, AtRisk, RunInv
  PROVE  /\ installing \in App \cup Wrapper /\ installing \notin {Blank, Noise}
         /\ Target(installing) \in App
         /\ Signer[Target(installing)] = seKey /\ Compatible(Target(installing))
         /\ Bootable => primary = Target(installing) /\ trailer.copyDone # "set"
         /\ primary = Target(installing) => Bootable /\ trailer.copyDone # "set"
         /\ ~Good
         /\ pc \notin {"ready", "mf"} /\ ~(inited /\ pc \in {"finish", "idle"})
  <1>1. installing \in App \cup Wrapper /\ installing \notin {Blank, Noise}
        BY DEF AtRisk, Installable, Image
  <1>2. Target(installing) \in App
        BY <1>1 DEF Target
  <1>3. Signer[Target(installing)] = seKey /\ Compatible(Target(installing))
        BY <1>1 DEF AtRisk, Installable, RunInv, Compatible
  <1>4. Bootable => primary = Target(installing) /\ trailer.copyDone # "set"
        BY DEF RunInv, Bootable
  <1>5. primary = Target(installing) => Bootable /\ trailer.copyDone # "set"
        BY <1>2, <1>3 DEF Bootable, RunInv
  <1>6. ~Good
        BY <1>4, GoodIsConfirmed DEF TypeInv
  <1>7. pc \notin {"ready", "mf"} /\ ~(inited /\ pc \in {"finish", "idle"})
        BY <1>4 DEF FlowInv, ReadyInv, Marked
  <1> QED BY <1>1, <1>2, <1>3, <1>4, <1>5, <1>6, <1>7

\* What is seen of an intact copy before it is unwrapped, and after.
LEMMA SeenAtRisk ==
  ASSUME TypeInv, FlowInv, AtRisk, RunInv, Intact
  PROVE  /\ ~Running => Seen = installing
         /\ Running => Seen = Target(installing) /\ SecVerifies
  <1>1. ~Running => Seen = installing
        BY DEF RunInv, Seen, Intact
  <1>2. ASSUME Running
        PROVE  Seen = Target(installing) /\ SecVerifies
    <2>1. shift = IF installing \in Wrapper THEN 1 ELSE 0
          BY <1>2 DEF RunInv
    <2>2. Seen = Target(installing)
          BY <2>1, RiskFacts DEF RunInv, Seen, Intact, Target
    <2> QED BY <2>2, RiskFacts DEF SecVerifies, Intact
  <1> QED BY <1>1, <1>2

\* A step that changes no flash and sends no mail, while nothing is being installed.
LEMMA QuietRisk ==
  ASSUME AtRisk, CopyInv, RunInv, ~Running, ~Running',
         UNCHANGED <<slotVars, idVars, installing, losses, shift, mail, toBL>>,
         ~initiated', pc' # "bs", blStatus' # "JUMP_TO_BS", ~Erases("secondary", "eraseHeader")',
         ~Intact => pc' \in {"bootGo", "validate", "setMagic", "setCopy"}
  PROVE  CopyInv' /\ RunInv'
  <1>1. AtRisk' = AtRisk /\ Intact' = Intact /\ Restored' = Restored
        BY RiskDepends DEF slotVars, idVars
  <1>2. CopyInv'
        BY <1>1 DEF CopyInv, slotVars
  <1>3. RunInv'
        BY <1>1 DEF RunInv, slotVars, idVars, Target
  <1> QED BY <1>2, <1>3

LEMMA MsgRisk ==
  ASSUME KnownInv, CopyInv, RunInv, AtRisk, PowerOn \/ MsgStep \/ Start
  PROVE  CopyInv' /\ RunInv'
  <1> USE DEF slotVars, idVars, mboxVars, frame, callVars, ramVars, histVars, Goto, EraseIf
  <1>1. pc \in InitLabel \cup {"off", "start"}
        BY DEF PowerOn, MsgStep, MsgFailed, MsgDone, MsgFirst, MsgMF, MsgOk, InitDone, Start, InitLabel
  <1>2. ~Running /\ Intact
        BY <1>1 DEF Running, CopyInv, InitLabel, Erases
  <1>3. mail = {} /\ toBL = {} /\ ~initiated /\ blStatus # "JUMP_TO_BS"
        BY <1>2 DEF RunInv
  <1>4. CASE PowerOn
        BY <1>2, <1>3, <1>4, QuietRisk DEF PowerOn, Running, Erases
  <1>5. CASE MsgFailed \/ MsgDone \/ MsgMF
        BY <1>2, <1>3, <1>5, QuietRisk DEF MsgFailed, MsgDone, MsgMF, Running, Erases
  <1>6. CASE MsgFirst
        BY <1>2, <1>3, <1>6, QuietRisk DEF MsgFirst, Running, Erases
  <1>7. CASE MsgOk
    <2>1. AtRisk' = AtRisk /\ Intact' = Intact /\ ~Running'
          BY <1>7, RiskDepends DEF MsgOk, Running
    <2>2. trailer'.copyDone = trailer.copyDone
          BY <1>7 DEF MsgOk, KnownInv, TypeInv, TypeOK, Trailer
    <2>3. CopyInv'
          BY <1>2, <1>7, <2>1 DEF MsgOk, CopyInv, Erases
    <2>4. RunInv'
          BY <1>2, <1>7, <2>1, <2>2 DEF MsgOk, RunInv, Target
    <2> QED BY <2>3, <2>4
  <1>8. CASE InitDone
    <2>1. dlStatus # "JUMP_TO_BS"
          BY <1>3, <1>8 DEF InitDone, KnownInv, JumpInv, ReadingMail, InitLabel
    <2> QED BY <1>2, <1>3, <1>8, <2>1, QuietRisk DEF InitDone, Running, Erases
  <1>9. CASE Start
        BY <1>2, <1>3, <1>9, QuietRisk DEF Start, Running, Erases
  <1> QED BY <1>4, <1>5, <1>6, <1>7, <1>8, <1>9 DEF MsgStep

LEMMA EraseRisk ==
  ASSUME KnownInv, CopyInv, RunInv, AtRisk, EraseStep
  PROVE  CopyInv' /\ RunInv'
  <1> USE DEF slotVars, idVars, mboxVars, frame, callVars, ramVars, histVars, Goto
  <1>1. pc \in EraseLabel /\ ~Running
        BY DEF EraseStep, EraseHeader, EraseTrailer, EraseLabel, Running
  <1>2. shift = 0 /\ ~initiated
        BY <1>1 DEF RunInv
  <1>3. UNCHANGED <<installing, seKey, self, initiated>> /\ AtRisk' = AtRisk
        BY RiskDepends DEF EraseStep, EraseHeader, EraseTrailer
  <1>4. Target(installing) \in App /\ Blank \notin App
        BY RiskFacts DEF KnownInv, Image
  <1>5. CASE EraseHeader
    <2>1. CASE area = "primary"
      <3>1. Intact' /\ primary' = Blank
            BY <1>5, <2>1 DEF EraseHeader, HeaderErased, CopyInv, Erases, Intact
      <3>2. CopyInv'
            BY <1>5, <2>1, <3>1 DEF EraseHeader, CopyInv, Erases
      <3>3. RunInv'
            BY <1>1, <1>3, <1>4, <1>5, <3>1 DEF EraseHeader, RunInv, Running, Target
      <3> QED BY <3>2, <3>3
    <2>2. CASE area # "primary"
      <3>1. area = "secondary" /\ UNCHANGED <<primary, trailer, area, ret>>
            BY <1>5, <2>2 DEF EraseHeader, HeaderErased, KnownInv, TypeInv, TypeOK
      <3>2. Restored /\ ret = "bootGo" /\ Restored' = Restored
            BY <1>3, <1>5, <3>1, RiskDepends DEF EraseHeader, CopyInv, Erases
      <3>3. CopyInv'
            BY <1>2, <1>3, <1>5, <3>1, <3>2 DEF EraseHeader, CopyInv, Erases
      <3>4. RunInv'
            BY <1>1, <1>3, <1>5, <3>1 DEF EraseHeader, RunInv, Running, Target
      <3> QED BY <3>3, <3>4
    <2> QED BY <2>1, <2>2
  <1>6. CASE EraseTrailer
    <2>1. ret \in Return /\ pc' = ret
          BY <1>6 DEF EraseTrailer, KnownInv, TypeInv, TypeOK
    <2>2. ~Running'
          BY <1>2, <1>3, <2>1 DEF Running, Return
    <2>3. pc' \notin EraseLabel \cup {"bs"}
          BY <2>1 DEF Return, EraseLabel
    <2>4. trailer' = trailer \/ (area = "primary" /\ trailer' = Erased)
          BY <1>6 DEF EraseTrailer
    <2>5. trailer'.copyDone = "set" => trailer.copyDone = "set"
          BY <2>4 DEF Erased
    <2>6. secMagic'[0] = "set" => secMagic[0] = "set"
          BY <1>6 DEF EraseTrailer, SecTrailerErased
    <2>7. Intact' = Intact
          BY <1>6, RiskDepends DEF EraseTrailer
    <2>8. CopyInv'
      <3>1. CASE Intact
            BY <2>3, <2>7, <3>1 DEF CopyInv, Erases, EraseLabel
      <3>2. CASE ~Intact
        <4>1. area = "secondary" /\ ret = "bootGo" /\ Restored
              BY <1>6, <3>2 DEF CopyInv, Erases, EraseTrailer
        <4>2. Restored'
              BY <1>3, <1>6, <2>4, <4>1, RiskDepends DEF EraseTrailer
        <4> QED BY <1>2, <1>3, <2>1, <2>3, <4>1, <4>2 DEF CopyInv, Erases
      <3> QED BY <3>1, <3>2
    <2>9. RunInv'
          BY <1>1, <1>3, <1>6, <2>2, <2>3, <2>5, <2>6 DEF EraseTrailer, RunInv, Target
    <2> QED BY <2>8, <2>9
  <1> QED BY <1>5, <1>6 DEF EraseStep

\* A check erases the copy of what is at risk only when the primary slot has it complete.
LEMMA CheckRisk ==
  ASSUME KeyReplacedOnce, KnownInv, CopyInv, RunInv, AtRisk, CheckStep \/ ReplaceKeyFails
  PROVE  CopyInv' /\ RunInv'
  <1> USE DEF slotVars, idVars, mboxVars, frame, callVars, ramVars, histVars, Goto, UpdateFound
  <1>1. pc \in {"check", "replaceKey"}
        BY DEF CheckStep, CheckGarbage, CheckForeign, CheckForbidden, CheckLowBattery, CheckLoader,
               CheckRefused, CheckApp, CheckWrapperBad, CheckWrapper, ReplaceKeyFails
  <1>2. ~Running /\ Intact
        BY <1>1 DEF Running, CopyInv, Erases
  <1>3. shift = 0 /\ ~initiated /\ mail = {} /\ toBL = {} /\ blStatus # "JUMP_TO_BS"
        BY <1>2 DEF RunInv
  <1>4. /\ Seen = installing /\ installing \in App \cup Wrapper
        /\ Target(installing) \in App /\ Compatible(Target(installing))
        BY <1>2, SeenAtRisk, RiskFacts DEF KnownInv
  <1>5. pc = "check" /\ ~(Seen \in Wrapper /\ SecVerifies)
    <2>1. Seen \in Wrapper => Signer[Seen] # seKey
          BY <1>4 DEF RunInv, KeyReplacedOnce
    <2>2. shift # 1
          BY <1>3
    <2> QED BY <1>1, <2>1, <2>2 DEF SecVerifies, KnownInv, CheckInv
  <1>6. SecondaryParses /\ Seen # Foreign /\ Seen \notin Loader
        BY <1>4 DEF SecondaryParses, Image
  <1>7. Permitted => mfBootFailed /\ phase # "first"
        BY <1>3, <1>5 DEF Permitted, Allowed, KnownInv, CheckInv
  <1>8. Refusal # "OK" /\ Permitted => Restored
    <2> SUFFICES ASSUME Refusal # "OK", Permitted PROVE Restored
        OBVIOUS
    <2>1. primary \in App
          BY DEF Refusal, PrimaryParses
    <2>2. phase = "restore"
      <3>1. phase \in {"first", "afterOK", "classic", "restore"} /\ Blank \notin App
            BY DEF KnownInv, TypeInv, TypeOK, Image
      <3> QED BY <1>5, <1>7, <2>1, <3>1 DEF KnownInv, CheckInv
    <2>3. Unset
          BY <1>5, <2>2 DEF KnownInv, CheckInv
    <2>4. primary = Target(installing)
      <3> SUFFICES ASSUME primary # Target(installing) PROVE FALSE
          OBVIOUS
      <3>1. Ver[primary] # Ver[Target(installing)] /\ Cnt[Target(installing)] >= Cnt[primary]
            BY <2>1 DEF RunInv
      <3>2. Cnt[primary] \in Nat /\ Cnt[Target(installing)] \in Nat
            BY <1>4, <2>1
      <3>3. ~(Cnt[primary] > Cnt[Target(installing)])
            BY <3>1, <3>2
      <3> QED BY <1>4, <3>1, <3>3 DEF Refusal
    <2> QED BY <2>3, <2>4 DEF Restored
  <1>9. ASSUME NEW st, Checked(FALSE, st), st # "JUMP_TO_BS"
        PROVE  CopyInv' /\ RunInv'
    <2>1. pc' \in {"status", "bootGo"} /\ blStatus' # "JUMP_TO_BS" /\ initiated' = initiated
          BY <1>3, <1>9 DEF Checked, EraseIf, AfterCheck, IfOK
    <2>2. ~Running' /\ ~Erases("secondary", "eraseHeader")' /\ ~initiated'
          BY <1>3, <2>1 DEF Running, Erases
    <2> QED BY <1>2, <1>9, <2>1, <2>2, QuietRisk DEF Checked
  <1>10. ASSUME NEW st, Checked(TRUE, st), st # "JUMP_TO_BS", Restored, phase # "first"
         PROVE  CopyInv' /\ RunInv'
    <2>1. pc' = "eraseHeader" /\ blStatus' # "JUMP_TO_BS" /\ initiated' = initiated
            /\ ret' = "bootGo"
          BY <1>3, <1>10 DEF Checked, EraseIf, Erase, AfterCheck, IfOK
    <2>2. ~Running' /\ AtRisk' = AtRisk /\ Intact' = Intact /\ Restored' = Restored
          BY <1>10, <2>1, RiskDepends DEF Running, Checked
    <2>3. CopyInv'
          BY <1>2, <1>10, <2>1, <2>2 DEF CopyInv
    <2>4. RunInv'
          BY <1>2, <1>10, <2>1, <2>2 DEF RunInv, Checked, Target
    <2> QED BY <2>3, <2>4
  <1>11. CASE CheckGarbage \/ CheckForeign \/ CheckLoader
        BY <1>6, <1>11 DEF CheckGarbage, CheckForeign, CheckLoader
  <1>12. CASE CheckForbidden \/ CheckLowBattery
        BY <1>9, <1>12 DEF CheckForbidden, CheckLowBattery
  <1>13. CASE CheckRefused
    <2>1. Restored /\ phase # "first" /\ Refusal # "JUMP_TO_BS"
          BY <1>7, <1>8, <1>13 DEF CheckRefused, Refusal
    <2> QED BY <1>10, <1>13, <2>1 DEF CheckRefused
  <1>14. CASE CheckWrapperBad
        BY <1>4, <1>7, <1>14 DEF CheckWrapperBad, MayUnwrap, RunInv
  <1>15. CASE CheckApp \/ CheckWrapper
    <2>1. AtRisk' = AtRisk /\ Intact' = Intact /\ pc' = "initiate"
          BY <1>5, <1>15, RiskDepends DEF CheckApp, CheckWrapper
    <2>2. shift' = IF installing \in Wrapper THEN 1 ELSE 0
          BY <1>3, <1>4, <1>15 DEF CheckApp, CheckWrapper
    <2>3. phase' # "first" /\ UNCHANGED <<primary, trailer, installing, seKey>>
          BY <1>7, <1>15 DEF CheckApp, CheckWrapper
    <2>4. CopyInv'
          BY <1>2, <2>1 DEF CopyInv, Erases
    <2>5. RunInv'
          BY <2>1, <2>2, <2>3 DEF RunInv, Running, Target
    <2> QED BY <2>4, <2>5
  <1>16. CASE ReplaceKeyFails
        BY <1>5, <1>16 DEF ReplaceKeyFails
  <1> QED BY <1>11, <1>12, <1>13, <1>14, <1>15, <1>16 DEF CheckStep

LEMMA InitiateRisk ==
  ASSUME KnownInv, CopyInv, RunInv, AtRisk, Initiate
  PROVE  CopyInv' /\ RunInv'
  <1> USE DEF slotVars, idVars, mboxVars, frame, callVars, ramVars, histVars, Goto
  <1>1. Running /\ Intact
        BY DEF Initiate, Running, CopyInv, Erases
  <1>2. pc' = "initiate" \/ (pc' = "status" /\ phase = "first" /\ initiated')
          \/ (pc' = "bootGo" /\ initiated')
        BY DEF Initiate, AfterCheck
  <1>3. AtRisk' = AtRisk /\ Intact' = Intact /\ StatusMF' = StatusMF
        BY RiskDepends, Depends DEF Initiate
  <1>4. CopyInv'
        BY <1>1, <1>2, <1>3 DEF CopyInv, Erases
  <1>5. RunInv'
        BY <1>1, <1>2, <1>3 DEF RunInv, Running, Target, Initiate
  <1> QED BY <1>4, <1>5

\* An update that was not initiated is never at risk where BootFailedHandler erases it.
LEMMA StatusRisk ==
  ASSUME KnownInv, CopyInv, RunInv, AtRisk, StatusStep
  PROVE  CopyInv' /\ RunInv'
  <1> USE DEF slotVars, idVars, mboxVars, frame, callVars, ramVars, histVars, Goto
  <1>1. pc \in {"status", "notReady", "failTail", "failEnd"} /\ Intact
    <2>1. pc \in {"status", "notReady", "failTail", "failEnd"}
          BY DEF StatusStep, StatusJump, StatusOK, StatusFailed, NotReady, FailTail, FailEnd
    <2> QED BY <2>1 DEF CopyInv, Erases
  <1>2. UNCHANGED <<slotVars, idVars, installing, losses, initiated, mail, toBL>>
        BY DEF StatusStep, StatusJump, StatusOK, StatusFailed, NotReady, FailTail, FailEnd
  <1>3. CASE Running
    <2>1. initiated /\ pc = "status"
          BY <1>1, <1>3 DEF Running
    <2>2. StatusMF = "OK" /\ blStatus = "OK"
          BY <1>3, <2>1 DEF RunInv, KnownInv, CheckInv
    <2>3. StatusOK
          BY <2>1, <2>2 DEF StatusStep, StatusJump, StatusFailed, NotReady, FailTail, FailEnd
    <2>4. pc' = "bootGo" /\ shift' = shift
          BY <2>2, <2>3 DEF StatusOK
    <2>5. AtRisk' = AtRisk /\ Intact' = Intact /\ Running'
          BY <1>2, <2>1, <2>4, RiskDepends DEF Running
    <2>6. CopyInv'
          BY <1>1, <2>4, <2>5 DEF CopyInv, Erases
    <2>7. RunInv'
          BY <1>2, <1>3, <2>4, <2>5 DEF RunInv, Target
    <2> QED BY <2>6, <2>7
  <1>4. CASE ~Running
    <2>1. ~initiated /\ blStatus # "JUMP_TO_BS"
          BY <1>4 DEF RunInv
    <2>2. /\ shift' = shift
          /\ pc' \in {"finish", "bootGo", "check", "eraseHeader", "failTail", "failEnd"}
          /\ pc' = "eraseHeader" => area' = "primary"
          /\ blStatus' # "JUMP_TO_BS"
      <3>1. CASE StatusJump \/ StatusOK \/ StatusFailed
            BY <2>1, <3>1 DEF StatusJump, StatusOK, StatusFailed, BootFailed, EraseIf, Erase
      <3>2. CASE NotReady \/ FailTail \/ FailEnd
            BY <2>1, <3>2 DEF NotReady, FailTail, FailEnd, BootFailed, EraseIf, Erase, IfOK
      <3> QED BY <3>1, <3>2 DEF StatusStep
    <2>3. initiated' = initiated
          BY <1>2
    <2>4. ~initiated' /\ ~Running' /\ ~Erases("secondary", "eraseHeader")' /\ pc' # "bs"
          BY <2>1, <2>2, <2>3 DEF Running, Erases
    <2> QED BY <1>1, <1>2, <1>4, <2>2, <2>4, QuietRisk
  <1> QED BY <1>3, <1>4

\* The update that runs is the one MCUboot accepts.
LEMMA UsableAtRisk ==
  ASSUME KnownInv, CopyInv, RunInv, AtRisk, Running, pc = "bootGo"
  PROVE  initiated /\ Intact /\ UpdatePending /\ UpdateUsable
  <1>1. initiated
        BY DEF Running
  <1>2. Intact /\ UpdatePending
        BY <1>1 DEF CopyInv, KnownInv, CheckInv, UpdatePending
  <1>3. Seen = Target(installing) /\ SecVerifies /\ Target(installing) \in App
        BY <1>2, SeenAtRisk, RiskFacts DEF KnownInv
  <1>4. Target(Seen) = Seen
        BY <1>3 DEF Target
  <1>5. PrimaryParses => Cnt[Seen] >= Cnt[primary]
        BY <1>1, <1>3 DEF KnownInv, KeepInv, ReplaceInv, UpdateApproved
  <1>6. PrimaryParses => ~(Cnt[Seen] < Cnt[primary])
    <2> SUFFICES ASSUME PrimaryParses PROVE ~(Cnt[Seen] < Cnt[primary])
        OBVIOUS
    <2>1. Cnt[Seen] \in Nat /\ Cnt[primary] \in Nat
          BY <1>3 DEF PrimaryParses
    <2> QED BY <1>5, <2>1
  <1> QED BY <1>1, <1>2, <1>3, <1>4, <1>6 DEF UpdateUsable

\* MCUboot is given an update that runs, and accepts it; it leaves one that was interrupted alone,
\* or drops it once the primary slot has it.
LEMMA BootGoRisk ==
  ASSUME KnownInv, CopyInv, RunInv, AtRisk, BootGoErase \/ BootGo
  PROVE  CopyInv' /\ RunInv'
  <1> USE DEF slotVars, idVars, mboxVars, frame, callVars, ramVars, histVars, Goto
  <1>1. pc = "bootGo" /\ UNCHANGED <<primary, trailer, idVars, mboxVars, ramVars, histVars>>
        BY DEF BootGoErase, BootGo
  <1>2. AtRisk' = AtRisk /\ Restored' = Restored
        BY <1>1, RiskDepends
  <1>3. CASE Running
    <2>1. initiated /\ Intact /\ UpdatePending /\ UpdateUsable
          BY <1>1, <1>3, UsableAtRisk
    <2>2. BootGo /\ pc' = "copyErase" /\ UNCHANGED slotVars
          BY <2>1 DEF BootGo, BootGoErase
    <2>3. Intact' = Intact /\ Running'
          BY <1>1, <2>2, RiskDepends DEF Running
    <2>4. CopyInv'
          BY <1>2, <2>1, <2>2, <2>3 DEF CopyInv, Erases
    <2>5. RunInv'
          BY <1>1, <1>2, <1>3, <2>2, <2>3 DEF RunInv, Target
    <2> QED BY <2>4, <2>5
  <1>4. CASE ~Running
    <2>1. ~initiated /\ shift = 0
          BY <1>4 DEF RunInv
    <2>2. CASE BootGo
      <3>1. pc' = "validate" /\ UNCHANGED slotVars
            BY <2>1, <2>2 DEF BootGo
      <3>2. initiated' = initiated
            BY <1>1
      <3>3. ~initiated' /\ ~Running'
            BY <2>1, <3>1, <3>2 DEF Running
      <3>4. blStatus # "JUMP_TO_BS"
            BY <1>4 DEF RunInv
      <3> QED BY <1>1, <1>4, <3>1, <3>3, <3>4, QuietRisk DEF Erases
    <2>3. CASE BootGoErase
      <3>1. Restored
        <4> SUFFICES ASSUME Intact PROVE Restored
            BY DEF CopyInv
        <4>1. Seen = installing /\ installing \in App \cup Wrapper
              BY <1>4, SeenAtRisk, RiskFacts DEF KnownInv
        <4>2. secMagic[0] = "set" /\ ~UpdateUsable
              BY <2>1, <2>3 DEF BootGoErase, UpdatePending
        <4>3. installing \in App /\ Target(installing) = installing
              BY <1>4, <4>1, <4>2 DEF RunInv, Target
        <4>4. SecVerifies
              BY <4>1, <4>3, RiskFacts DEF SecVerifies, Intact, KnownInv
        <4>5. primary \in App /\ Cnt[installing] < Cnt[primary]
              BY <4>1, <4>2, <4>3, <4>4 DEF UpdateUsable, PrimaryParses
        <4>6. primary = installing
          <5> SUFFICES ASSUME primary # installing PROVE FALSE
              OBVIOUS
          <5>1. Cnt[installing] >= Cnt[primary]
                BY <4>3, <4>5 DEF RunInv
          <5>2. Cnt[installing] \in Nat /\ Cnt[primary] \in Nat
                BY <4>3, <4>5
          <5> QED BY <4>5, <5>1, <5>2
        <4>7. Cnt[primary] \in Nat
              BY <4>5
        <4> QED BY <4>5, <4>6, <4>7
      <3>2. pc' = "validate" /\ initiated' = initiated
            BY <1>1, <2>3 DEF BootGoErase
      <3>3. CopyInv'
            BY <1>2, <2>1, <3>1, <3>2 DEF CopyInv, Erases
      <3>4. secMagic'[0] # "set"
            BY <2>1, <2>3 DEF BootGoErase, SecTrailerErased
      <3>5. ~Running'
            BY <2>1, <3>2 DEF Running
      <3>6. RunInv'
            BY <1>1, <1>2, <1>4, <3>2, <3>4, <3>5 DEF RunInv, Target
      <3> QED BY <3>3, <3>6
    <2> QED BY <2>2, <2>3
  <1> QED BY <1>3, <1>4

\* Nothing is at risk when nothing is being installed.
LEMMA NoRisk ==
  /\ installing = Blank => ~AtRisk
  /\ ~AtRisk => CopyInv /\ RunInv
  BY DEF AtRisk, Installable, Image, CopyInv, RunInv

LEMMA CopyRisk ==
  ASSUME KnownInv, CopyInv, RunInv, AtRisk, CopyStep, ~CopyErase, AtRisk'
  PROVE  CopyInv' /\ RunInv'
  <1> USE DEF slotVars, idVars, mboxVars, frame, callVars, ramVars, histVars, Goto
  <1>1. pc \in CopyLabel \ {"copyErase", "copyDone"}
    <2>1. pc \in CopyLabel \ {"copyErase"}
          BY DEF CopyStep, CopyErase, CopyTrailer, CopyData, CopyMagic, CopyDone, DropHeader,
                 DropTrailer, CopyLabel
    <2>2. pc # "copyDone"
      <3> SUFFICES ASSUME pc = "copyDone" PROVE FALSE
          OBVIOUS
      <3>1. installing' = Blank
            BY DEF CopyStep, CopyErase, CopyTrailer, CopyData, CopyMagic, CopyDone, DropHeader,
                   DropTrailer
      <3> QED BY <3>1 DEF AtRisk, Installable, Image
    <2> QED BY <2>1, <2>2
  <1>2. initiated
        BY <1>1 DEF KnownInv, FlowInv, ControlInv
  <1>3. Running /\ Intact /\ pc \in {"copyTrailer", "copyData", "copyMagic"}
    <2>1. Running
          BY <1>2 DEF RunInv
    <2> QED BY <1>1, <1>2, <2>1 DEF Running, CopyInv, CopyLabel
  <1>4. /\ UNCHANGED <<secondary, whole, secMagic, idVars, mboxVars, phase, parsed, ramVars,
                       installing, losses>>
        /\ pc' \in {"copyData", "copyMagic", "copyDone"}
        BY <1>3 DEF CopyStep, CopyErase, CopyTrailer, CopyData, CopyMagic, CopyDone, DropHeader,
                    DropTrailer
  <1>5. Running' /\ Intact' = Intact
        BY <1>4, RiskDepends DEF Running
  <1>6. CopyInv'
        BY <1>3, <1>4, <1>5 DEF CopyInv, Erases
  <1>7. Seen = Target(installing)
        BY <1>3, SeenAtRisk DEF KnownInv
  <1>8. /\ primary' = primary \/ primary' = Target(installing)
        /\ primary' = Target(installing) => trailer'.copyDone # "set"
    <2>1. CASE pc = "copyTrailer"
      <3>1. primary' = primary /\ trailer' = Erased
            BY <2>1 DEF CopyStep, CopyErase, CopyTrailer, CopyData, CopyMagic, CopyDone, DropHeader,
                        DropTrailer
      <3> QED BY <3>1 DEF Erased
    <2>2. CASE pc = "copyData"
      <3>1. primary' = Seen /\ trailer' = trailer
            BY <2>2 DEF CopyStep, CopyErase, CopyTrailer, CopyData, CopyMagic, CopyDone, DropHeader,
                        DropTrailer
      <3>2. trailer = Erased
            BY <2>2 DEF KnownInv, FlowInv, TrailerInv
      <3> QED BY <1>7, <3>1, <3>2 DEF Erased
    <2>3. CASE pc = "copyMagic"
      <3>1. primary' = primary /\ trailer' = [trailer EXCEPT !.magic = "set"]
            BY <2>3 DEF CopyStep, CopyErase, CopyTrailer, CopyData, CopyMagic, CopyDone, DropHeader,
                        DropTrailer
      <3>2. trailer = Erased
            BY <2>3 DEF KnownInv, FlowInv, TrailerInv
      <3> QED BY <3>1, <3>2 DEF Erased
    <2> QED BY <1>3, <2>1, <2>2, <2>3
  <1>9. RunInv'
        BY <1>3, <1>4, <1>5, <1>8 DEF RunInv, Target
  <1> QED BY <1>6, <1>9

\* The primary slot that is at risk is completed, not started.
LEMMA ValidateRisk ==
  ASSUME KnownInv, CopyInv, RunInv, AtRisk, AtRisk',
         ValidateFails \/ Validate \/ SetMagic \/ SetCopy \/ Ready
  PROVE  CopyInv' /\ RunInv'
  <1> USE DEF slotVars, idVars, mboxVars, frame, callVars, ramVars, histVars, Goto
  <1>1. pc \in {"validate", "setMagic", "setCopy"}
    <2>1. pc # "ready"
          BY RiskFacts DEF KnownInv
    <2> QED BY <2>1 DEF ValidateFails, Validate, SetMagic, SetCopy, Ready
  <1>2. ~Running
        BY <1>1 DEF Running
  <1>3. ~initiated /\ blStatus # "JUMP_TO_BS"
        BY <1>2 DEF RunInv
  <1>4. Restored => Bootable
        BY RiskFacts DEF KnownInv, Restored
  <1>5. CASE ValidateFails
    <2>1. Intact
          BY <1>4, <1>5 DEF ValidateFails, CopyInv
    <2>2. initiated' = initiated
          BY <1>5 DEF ValidateFails
    <2> QED BY <1>2, <1>3, <1>5, <2>1, <2>2, QuietRisk DEF ValidateFails, Running, Erases
  <1>6. CASE Validate
    <2>1. /\ UNCHANGED <<slotVars, idVars, toBL, mail, shift, initiated, blStatus, installing, losses>>
          /\ pc' \in {"setMagic", "ready", "eraseHeader"}
          /\ pc' = "eraseHeader" => area' = "primary"
          /\ Unset => pc' = "setMagic"
      <3>1. UNCHANGED <<slotVars, idVars, toBL, mail, shift, initiated, blStatus, installing, losses>>
            BY <1>6 DEF Validate
      <3>2. CASE StatusMF \in {"MAGIC_UNSET", "COPY_DONE_UNSET"}
            BY <1>6, <3>1, <3>2 DEF Validate
      <3>3. CASE StatusMF \notin {"MAGIC_UNSET", "COPY_DONE_UNSET"}
            BY <1>6, <3>1, <3>3 DEF Validate, Unset, Erase
      <3> QED BY <3>2, <3>3
    <2>2. ~initiated' /\ ~Running' /\ ~Erases("secondary", "eraseHeader")' /\ pc' # "bs"
            /\ blStatus' # "JUMP_TO_BS"
      <3>1. initiated' = initiated
            BY <2>1
      <3> QED BY <1>3, <2>1, <3>1 DEF Running, Erases
    <2>3. ~Intact => pc' = "setMagic"
          BY <2>1 DEF CopyInv, Restored
    <2> QED BY <1>2, <2>1, <2>2, <2>3, QuietRisk
  <1>7. CASE SetMagic
    <2>1. /\ UNCHANGED <<primary, secondary, whole, secMagic, idVars, ramVars, toBL, installing, losses>>
          /\ pc' = "setCopy"
          BY <1>7 DEF SetMagic
    <2>2. StatusMF \in {"MAGIC_UNSET", "COPY_DONE_UNSET"} /\ trailer \in Trailer
          BY <1>7 DEF SetMagic, KnownInv, FlowInv, ReadyInv, TypeInv, TypeOK
    <2>3. trailer'.copyDone = trailer.copyDone /\ trailer'.imageOk = trailer.imageOk
            /\ trailer'.magic = "set"
          BY <1>7, <2>2 DEF SetMagic, Trailer, StatusMF, Flag
    <2>4. trailer.magic = "unset" => trailer.copyDone = "unset"
          BY DEF KnownInv, FlowInv, TrailerInv, Erased
    <2>5. Unset'
          BY <2>2, <2>3, <2>4 DEF Unset, StatusMF, Trailer, Flag
    <2>6. Restored => Restored'
          BY <2>1, <2>5 DEF Restored, Target
    <2>7. Intact' = Intact /\ ~Running' /\ initiated' = initiated
          BY <2>1, RiskDepends DEF Running
    <2>8. CopyInv'
          BY <1>3, <2>1, <2>6, <2>7 DEF CopyInv, Erases
    <2>9. RunInv'
          BY <1>2, <2>1, <2>3, <2>7 DEF RunInv, Target
    <2> QED BY <2>8, <2>9
  <1>8. CASE SetCopy
    <2>1. Bootable
          BY <1>8 DEF SetCopy, KnownInv, FlowInv, ReadyInv
    <2>2. primary = Target(installing) /\ installing # Blank
          BY <2>1, RiskFacts DEF KnownInv
    <2>3. installing' = Blank
          BY <1>8, <2>2 DEF SetCopy
    <2> QED BY <2>3 DEF AtRisk, Installable, Image
  <1> QED BY <1>1, <1>5, <1>6, <1>7, <1>8 DEF Ready

LEMMA OutsideRisk ==
  ASSUME KnownInv, CopyInv, RunInv, AtRisk, AtRisk', Finish \/ IdleStep \/ OutsideStep
  PROVE  CopyInv' /\ RunInv'
  <1> USE DEF slotVars, idVars, mboxVars, frame, callVars, ramVars, histVars, Goto
  <1>1. pc \in {"finish", "idle", "mf", "bs"}
        BY DEF Finish, IdleStep, JumpToMF, JumpToMFRefused, StartAgain, Download, ForceDownload,
               Sleep, OutsideStep, BSReturn, MFReport, MFDownload, MFReset
  <1>2. ~Running /\ Intact
        BY <1>1 DEF Running, CopyInv, Erases
  <1>3. ~initiated /\ shift = 0 /\ toBL = {} /\ mail = {} /\ pc # "bs" /\ blStatus # "JUMP_TO_BS"
        BY <1>2 DEF RunInv
  <1>4. pc # "mf" /\ ~inited
        BY <1>1, <1>3, RiskFacts DEF KnownInv
  <1>5. CASE Finish
    <2>1. pc = "finish" /\ blStatus # "READY"
          BY <1>4, <1>5 DEF Finish, KnownInv, FlowInv, ReadyInv
    <2>2. /\ UNCHANGED <<slotVars, idVars, installing, losses, shift, mail, toBL, initiated, blStatus>>
          /\ pc' = "idle"
          BY <1>3, <1>5, <2>1 DEF Finish
    <2>3. initiated' = initiated
          BY <2>2
    <2> QED BY <1>2, <1>3, <2>2, <2>3, QuietRisk DEF Running, Erases
  <1>6. CASE JumpToMF \/ Download \/ ForceDownload
    <2>1. ~JumpToMF
          BY <1>4 DEF JumpToMF
    <2>2. ~Download
          BY NoRisk DEF Download, Downloaded, AtRisk, Installable, Image
    <2>3. ~ForceDownload
          BY RiskFacts DEF ForceDownload, KnownInv, ConsentInv
    <2> QED BY <1>6, <2>1, <2>2, <2>3
  <1>7. CASE JumpToMFRefused \/ StartAgain
    <2>1. /\ UNCHANGED <<slotVars, idVars, installing, losses, shift, mail, toBL, initiated>>
          /\ pc' \in {"idle", "start"} /\ blStatus' # "JUMP_TO_BS"
          BY <1>3, <1>7 DEF JumpToMFRefused, StartAgain
    <2>2. initiated' = initiated
          BY <2>1
    <2> QED BY <1>2, <1>3, <2>1, <2>2, QuietRisk DEF Running, Erases
  <1>8. CASE Sleep
    <2>1. /\ UNCHANGED <<slotVars, idVars, installing, losses, shift, mail, toBL>>
          /\ pc' = "off" /\ blStatus' # "JUMP_TO_BS" /\ ~initiated'
          BY <1>3, <1>8 DEF Sleep, RamReset
    <2> QED BY <1>2, <1>3, <2>1, QuietRisk DEF Running, Erases
  <1>9. ~OutsideStep
        BY <1>3, <1>4 DEF OutsideStep, BSReturn, MFReport, MFDownload, MFReset
  <1> QED BY <1>5, <1>6, <1>7, <1>8, <1>9 DEF IdleStep

\* The first power loss leaves an installation that ran as a start without mail finds it.
LEMMA LossRisk ==
  ASSUME MaxLosses <= 1, KnownInv, CopyInv, RunInv, AtRisk, PowerLoss, ~Begins
  PROVE  CopyInv' /\ RunInv'
  <1> USE DEF slotVars, idVars, mboxVars, frame, callVars, ramVars, histVars
  <1>1. losses = 0 /\ losses' # 0
    <2>1. losses \in Nat /\ losses < MaxLosses /\ losses' = losses + 1
          BY DEF KnownInv, TypeInv, TypeOK, PowerLoss
    <2> QED BY <2>1
  <1>2. Running
        BY <1>1 DEF RunInv
  <1>3. Intact /\ shift = IF installing \in Wrapper THEN 1 ELSE 0
        BY <1>2 DEF CopyInv, RunInv, Running, Erases
  <1>4. installing \in Wrapper => secMagic[0] # "set"
        BY <1>1, <1>3 DEF KnownInv, MagicInv
  <1>5. ~TornSecondary
    <2>1. pc = "bootGo" => UpdateUsable
          BY <1>2, UsableAtRisk
    <2> QED BY <1>2, <2>1 DEF TornSecondary, Running
  <1>6. UNCHANGED <<installing, secondary, whole, seKey, self>>
        BY <1>5 DEF PowerLoss, TornPrimary, TornTrailer, TornMagic, Begins
  <1>7. AtRisk' = AtRisk /\ Intact' = Intact
        BY <1>6, RiskDepends
  <1>8. /\ pc' = "off" /\ shift' = 0 /\ ~initiated' /\ toBL' = {} /\ mail' = {} /\ blStatus' = "OK"
        /\ ~Running'
    <2>1. /\ pc' = "off" /\ shift' = 0 /\ ~initiated' /\ toBL' = {} /\ mail' = {}
          /\ blStatus' = "OK"
          BY DEF PowerLoss, RamReset
    <2> QED BY <2>1 DEF Running
  <1>9. CopyInv'
        BY <1>3, <1>7, <1>8 DEF CopyInv, Erases
  <1>10. primary' = primary \/ primary' = Noise
         BY DEF PowerLoss, TornPrimary, TornSecondary, TornTrailer, TornMagic
  <1>11. trailer'.copyDone = "set" => trailer.copyDone = "set"
    <2>1. trailer \in Trailer
          BY DEF KnownInv, TypeInv, TypeOK
    <2> QED BY <2>1 DEF PowerLoss, TornPrimary, TornSecondary, TornTrailer, TornMagic, Trailer
  <1>12. installing \in Wrapper => secMagic'[0] # "set"
    <2>1. secMagic \in [0..1 -> Flag]
          BY DEF KnownInv, TypeInv, TypeOK
    <2> QED BY <1>3, <1>4, <2>1 DEF PowerLoss, TornPrimary, TornSecondary, TornTrailer, TornMagic
  <1>13. Noise \notin App /\ Target(installing) \in App
         BY RiskFacts DEF KnownInv, Image
  <1>14. primary' \in App => primary' = primary
         BY <1>10, <1>13
  <1>15. RunInv'
         BY <1>1, <1>6, <1>7, <1>8, <1>10, <1>11, <1>12, <1>13, <1>14 DEF RunInv, Target
  <1> QED BY <1>9, <1>15

\* The update that is copied is what newMainFirmwareHandler approved, behind a wrapper or not.
LEMMA CopySource ==
  ASSUME KnownInv, pc = "copyErase"
  PROVE  /\ secondary \in App \cup Wrapper /\ whole
         /\ shift = IF secondary \in Wrapper THEN 1 ELSE 0
         /\ secondary \in Wrapper => secondary \in Movable
         /\ Signer[Target(secondary)] = seKey
  <1>1. SecVerifies /\ Seen \in App /\ shift \in 0..1
        BY DEF KnownInv, KeepInv, ReplaceInv, UpdateApproved, SecVerifies, TypeInv, TypeOK
  <1>2. CASE shift = 0
        BY <1>1, <1>2 DEF Seen, SecVerifies, Target
  <1>3. CASE shift # 0
        BY <1>1, <1>3 DEF Seen, SecVerifies, Target, Image
  <1> QED BY <1>2, <1>3

\* An installation begins with the only copy in the secondary slot, and with a MF that allowed it
\* or cannot be started.
LEMMA CopyBegins ==
  ASSUME MaxLosses <= 1, KnownInv, AtRisk',
         CopyErase \/ (PowerLoss /\ TornPrimary /\ pc = "copyErase")
  PROVE  CopyInv' /\ RunInv'
  <1> USE DEF slotVars, idVars, mboxVars, frame, callVars, ramVars, histVars, Goto
  <1>1. /\ UNCHANGED <<secondary, whole, trailer, secMagic, seKey, self>>
        /\ installing' = secondary /\ primary' \in {Blank, Noise} /\ pc = "copyErase"
        BY DEF CopyErase, PowerLoss, TornPrimary
  <1>2. /\ secondary \in App \cup Wrapper /\ whole
        /\ shift = IF secondary \in Wrapper THEN 1 ELSE 0
        /\ secondary \in Wrapper => secondary \in Movable
        /\ Signer[Target(secondary)] = seKey
        BY <1>1, CopySource
  <1>3. Intact' /\ pc' # "eraseHeader"
    <2>1. pc' \in {"copyTrailer", "off"}
          BY DEF CopyErase, PowerLoss, RamReset
    <2> QED BY <1>1, <1>2, <2>1 DEF Intact
  <1>4. CopyInv'
        BY <1>3 DEF CopyInv, Erases
  <1>5. installing' \in Wrapper => seKey' = NewKey[installing']
        BY <1>1, <1>2 DEF AtRisk, Installable, Target
  <1>6. primary' \notin App /\ primary' # Target(installing')
        BY <1>1, <1>2 DEF Target, Image
  <1>7. CASE CopyErase
    <2>1. pc' = "copyTrailer" /\ shift' = shift
          BY <1>7 DEF CopyErase
    <2>2. Running'
          BY <2>1 DEF Running
    <2>3. RunInv'
          BY <1>1, <1>2, <1>5, <1>6, <2>1, <2>2 DEF RunInv, Target
    <2> QED BY <1>4, <2>3
  <1>8. CASE PowerLoss
    <2>1. losses = 0 /\ losses' # 0
      <3>1. losses \in Nat /\ losses < MaxLosses /\ losses' = losses + 1
            BY <1>8 DEF KnownInv, TypeInv, TypeOK, PowerLoss
      <3> QED BY <3>1
    <2>2. secondary \in Wrapper => secMagic[0] # "set"
          BY <1>2, <2>1 DEF KnownInv, MagicInv
    <2>3. /\ pc' = "off" /\ shift' = 0 /\ ~initiated' /\ toBL' = {} /\ mail' = {}
          /\ blStatus' = "OK"
          BY <1>8 DEF PowerLoss, RamReset
    <2>4. ~Running'
          BY <2>3 DEF Running
    <2>5. RunInv'
          BY <1>1, <1>2, <1>5, <1>6, <2>1, <2>2, <2>3, <2>4 DEF RunInv, Target
    <2> QED BY <1>4, <2>5
  <1> QED BY <1>7, <1>8

LEMMA ReplaceBegins ==
  ASSUME KeyReplacedOnce, KnownInv, AtRisk', ReplaceKey
  PROVE  CopyInv' /\ RunInv'
  <1> USE DEF slotVars, idVars, mboxVars, frame, callVars, ramVars, histVars, Goto
  <1>1. pc = "replaceKey" /\ pc' = "initiate" /\ installing' = secondary /\ seKey' = NewKey[secondary]
        BY DEF ReplaceKey
  <1>2. UNCHANGED <<slotVars, self, mboxVars, phase, ramVars, losses>>
        BY DEF ReplaceKey
  <1>3. shift = 1 /\ whole /\ secondary \in Movable /\ Signer[secondary] = seKey
        BY <1>1 DEF KnownInv, CheckInv
  <1>4. secondary \in Wrapper /\ Seen = Inner[secondary] /\ Seen \in App /\ Seen = Target(secondary)
    <2>1. secondary \in Wrapper
          BY <1>3
    <2>2. Inner[secondary] \in App
          BY <2>1
    <2> QED BY <1>3, <2>1, <2>2 DEF Seen, Target
  <1>5. ~KeyReplaced /\ seKey # NewKey[secondary]
        BY <1>3, <1>4 DEF KeyReplacedOnce, KeyReplaced
  <1>6. Running' /\ Intact' /\ pc' # "eraseHeader"
        BY <1>1, <1>2, <1>3 DEF Running, Intact
  <1>7. CopyInv'
        BY <1>6 DEF CopyInv, Erases
  <1>8. phase = "first" => StatusMF = "OK"
    <2> SUFFICES ASSUME phase = "first" PROVE StatusMF = "OK"
        OBVIOUS
    <2>1. Allowed
          BY <1>1 DEF KnownInv, CheckInv, FlowInv, PermissionInv, Permitted, Allowed
    <2>2. ~Renewing
          BY <1>1 DEF Renewing
    <2> QED BY <1>5, <2>1, <2>2 DEF KnownInv, ConsentInv, Good
  <1>9. primary \in App =>
          /\ Ver[primary] # Ver[Target(secondary)] /\ Cnt[Target(secondary)] >= Cnt[primary]
          /\ Signer[primary] = seKey
        BY <1>1, <1>4, <1>5 DEF KnownInv, KeepInv, ReplaceInv, UpdateApproved, PrimaryParses, ConsentInv
  <1>10. primary # Target(secondary)
         BY <1>4, <1>9
  <1>11. StatusMF' = StatusMF
         BY <1>2, Depends
  <1>12. RunInv'
         BY <1>1, <1>2, <1>3, <1>4, <1>5, <1>6, <1>8, <1>9, <1>10, <1>11 DEF RunInv, Target
  <1> QED BY <1>7, <1>12

LEMMA NextRisk ==
  ASSUME KeyReplacedOnce, MaxLosses <= 1, KnownInv, CopyInv, RunInv, [Next]_vars
  PROVE  CopyInv' /\ RunInv'
  <1>1. CASE ~AtRisk'
        BY <1>1 DEF CopyInv, RunInv
  <1>2. CASE AtRisk' /\ Begins
        BY <1>2, ReplaceBegins, CopyBegins DEF Begins
  <1>3. CASE AtRisk' /\ ~Begins
    <2>1. AtRisk
          BY <1>3, RiskStays DEF KnownInv
    <2>2. CASE UNCHANGED vars
      <3>1. AtRisk' = AtRisk /\ Intact' = Intact /\ Restored' = Restored /\ Running' = Running
            BY <2>2, RiskDepends
               DEF vars, slotVars, idVars, callVars, ramVars, histVars, Running
      <3> QED BY <2>2, <3>1, Depends
              DEF vars, slotVars, idVars, mboxVars, frame, callVars, ramVars, histVars, CopyInv,
                  RunInv, Erases, Target
    <2>3. CASE BLStep /\ ~Begins
          BY <1>3, <2>1, <2>3, MsgRisk, EraseRisk, CheckRisk, InitiateRisk, StatusRisk, BootGoRisk,
             CopyRisk, ValidateRisk, OutsideRisk
             DEF BLStep, UpdateStep, BootStep, Begins
    <2>4. CASE IdleStep \/ OutsideStep
          BY <1>3, <2>1, <2>4, OutsideRisk
    <2>5. CASE PowerLoss
          BY <1>3, <2>1, <2>5, LossRisk
    <2> QED BY <1>3, <2>2, <2>3, <2>4, <2>5 DEF Next
  <1> QED BY <1>1, <1>2, <1>3

LEMMA InitRisk == Init => SourceInv /\ CopyInv /\ RunInv
  BY NoRisk DEF Init, SourceInv

LEMMA RiskCorrect ==
  ASSUME KeyReplacedOnce, ~EagerMF, MaxLosses <= 1
  PROVE  Spec => [](KnownInv /\ ReportInv /\ CopyInv /\ RunInv)
  <1>1. Init => KnownInv /\ ReportInv /\ CopyInv /\ RunInv
        BY InitType, InitFlow, InitReport, InitKeep, InitConsent, InitCheck, InitJump, InitRisk
           DEF KnownInv
  <1>2. KnownInv /\ ReportInv /\ CopyInv /\ RunInv /\ [Next]_vars
          => KnownInv' /\ ReportInv' /\ CopyInv' /\ RunInv'
    <2> SUFFICES ASSUME KnownInv, ReportInv, CopyInv, RunInv, [Next]_vars
                 PROVE  KnownInv' /\ ReportInv' /\ CopyInv' /\ RunInv'
        OBVIOUS
    <2>1. TypeInv' /\ FlowInv' /\ ReportInv' /\ KeepInv'
          BY NextType, NextFlow, NextReport, NextKeep DEF KnownInv
    <2>2. ConsentInv' /\ CheckInv' /\ JumpInv' /\ MagicInv' /\ SourceInv'
          BY NextConsent, NextCheck, NextJump, NextMagic, NextSource DEF KnownInv
    <2> QED BY <2>1, <2>2, NextRisk DEF KnownInv
  <1> QED BY <1>1, <1>2, PTL DEF Spec

\* From the moment an installation destroys the old main firmware, or the key it verifies with,
\* until the new one is complete, one intact copy of the new one exists (copy, erasures of
\* checkDownloadedUpdate and BootFailedHandler): over one power loss in any flash operation, if the
\* main firmware consents to updates only once it is confirmed, and no wrapper is signed with a key
\* that another wrapper brings.
THEOREM KeepsOneCopy ==
  ASSUME KeyReplacedOnce, ~EagerMF, MaxLosses <= 1
  PROVE  Spec => []NeverLosesBothCopies
  <1>1. CopyInv => NeverLosesBothCopies
        BY DEF CopyInv, NeverLosesBothCopies, AtRisk, Intact, Restored
  <1> QED BY <1>1, RiskCorrect, PTL
=============================================================================
