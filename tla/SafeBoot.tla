------------------------------ MODULE SafeBoot ------------------------------
(***************************************************************************)
(* What the bootloader promises about the main firmware (MF), without      *)
(* slots, trailers, mailboxes, flash operations or power losses: a         *)
(* firmware is installed, tried once, confirmed by its own report, and     *)
(* given up only with consent or when it is of no use.                     *)
(*                                                                         *)
(* BootFlowRefinement shows that BootFlow implements it.                   *)
(***************************************************************************)
CONSTANTS
  Firmware,            \* main firmware images
  NoFirmware,          \* the slot holds nothing that can be started
  Verifies(_, _),      \* firmware, key: its signature verifies
  Accepts(_, _)        \* loader, firmware: the loader can run it

VARIABLES
  fw,        \* the firmware on the device
  standing,  \* what is known of it
  key,       \* the public key firmware must verify with
  loader,    \* the bootloader in charge
  consent,   \* the user has asked for an update since the last reset
  running    \* the firmware is in control

vars == <<fw, standing, key, loader, consent, running>>

\* A firmware that must not be lost.
Good == /\ fw \in Firmware /\ standing = "confirmed"
        /\ Verifies(fw, key) /\ Accepts(loader, fw)
MayGiveUp == ~running /\ (Good => consent)

Init ==
  /\ \/ fw = NoFirmware /\ standing = "absent"
     \/ /\ fw \in Firmware /\ standing \in {"fresh", "confirmed"}
        /\ Verifies(fw, key) /\ Accepts(loader, fw)
  /\ consent = FALSE /\ running = FALSE

\* The user may change his mind at any time.
Consent == consent' \in BOOLEAN

Install ==
  /\ ~running /\ fw = NoFirmware
  /\ fw' \in Firmware /\ Verifies(fw', key) /\ standing' = "fresh"
  /\ Consent /\ UNCHANGED <<key, loader, running>>

\* An unconfirmed firmware gets one chance.
Start ==
  /\ ~running /\ running' = TRUE
  /\ fw \in Firmware /\ Verifies(fw, key) /\ Accepts(loader, fw)
  /\ \/ standing = "fresh" /\ standing' = "started"
     \/ standing = "confirmed" /\ standing' = "confirmed"
  /\ Consent /\ UNCHANGED <<fw, key, loader>>

Stop ==
  /\ running /\ running' = FALSE
  /\ \/ UNCHANGED standing
     \/ standing = "started" /\ standing' = "reported"
  /\ Consent /\ UNCHANGED <<fw, key, loader>>

Confirm ==
  /\ ~running /\ standing = "reported" /\ standing' = "confirmed"
  /\ Consent /\ UNCHANGED <<fw, key, loader, running>>

GiveUp ==
  /\ MayGiveUp /\ fw' = NoFirmware /\ standing' = "absent"
  /\ Consent /\ UNCHANGED <<key, loader, running>>

\* A new key may make the present firmware worthless.
ChangeKey ==
  /\ MayGiveUp
  /\ Consent /\ UNCHANGED <<fw, standing, loader, running>>

ChangeLoader ==
  /\ ~running
  /\ Consent /\ UNCHANGED <<fw, standing, key, running>>

Wait == Consent /\ UNCHANGED <<fw, standing, key, loader, running>>

Next == \/ Install \/ Start \/ Stop \/ Confirm \/ GiveUp
        \/ ChangeKey \/ ChangeLoader \/ Wait

Spec == Init /\ [][Next]_vars
=============================================================================
