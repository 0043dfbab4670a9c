------------------------ MODULE BootFlowRefinement ------------------------
(***************************************************************************)
(* BootFlow implements SafeBoot.  The abstract state is a function of what *)
(* is in flash, in the secure element and in the mail, and of who runs.    *)
(***************************************************************************)
EXTENDS BootFlow

\* What the boot status of the primary slot says of the image in it.
Standing ==
  IF primary \notin App THEN "absent"
  ELSE IF trailer.imageOk = "set" THEN "confirmed" ELSE trial

VerifiesWith(i, k) == Signer[i] = k
AcceptedBy(l, i) == MinVer[l] <= Ver[i]

Safe == INSTANCE SafeBoot WITH
  Firmware <- App, NoFirmware <- Blank,
  Verifies <- VerifiesWith, Accepts <- AcceptedBy,
  fw <- IF primary \in App THEN primary ELSE Blank,
  standing <- Standing,
  key <- seKey, loader <- self,
  consent <- Allowed,
  running <- (pc = "mf")

\* Every step of the boot flow, power losses inside flash operations included, is a step of
\* SafeBoot: a firmware that is not confirmed is started once, only a report confirms it, and a
\* good confirmed one is given up, or loses its key, only with consent (bootloader_letStart,
\* bootloader_jumpToMF and everything they call).
ImplementsSafeBoot == Safe!Spec
=============================================================================
