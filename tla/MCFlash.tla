------------------------------ MODULE MCFlash ------------------------------
(* Either the boot task updates the firmware (FlashUpdate), or any call of   *)
(* any area is made, with any argument (FlashArea), on the same flash.       *)
EXTENDS FlashUpdate

VARIABLE updating   \* which of the two

MCInit == Init /\ updating \in BOOLEAN
MCNext ==
  /\ UNCHANGED updating
  /\ \/ updating /\ Next
     \/ ~updating /\ FlashNext /\ UNCHANGED <<progressVars, bootVars, guiQ, guiVars>>

MCSpec == MCInit /\ [][MCNext]_<<vars, updating>>
=============================================================================
