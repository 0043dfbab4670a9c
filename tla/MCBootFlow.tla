----------------------------- MODULE MCBootFlow -----------------------------
(***************************************************************************)
(* Values for TLC: a device that runs o or n, its updates u (newer), x     *)
(* (not signed), the wrappers w and wx (new key, good and bad inner image) *)
(* and the loader b2, which no longer accepts o.  The security counter of  *)
(* o is that of u: it is not raised by every version.                      *)
(***************************************************************************)
EXTENDS BootFlowRefinement

MCVer == [a \in App |-> CASE a = "o" -> 1 [] a = "u" -> 2 [] a = "n" -> 3 [] OTHER -> 4]
MCCnt == [a \in App |-> IF a = "o" THEN 2 ELSE MCVer[a]]
MCSigner == [i \in App \cup Wrapper |-> CASE i = "n" -> "k2" [] i = "x" -> "none" [] OTHER -> "k1"]
MCInner == [w \in Wrapper |-> IF w = "w" THEN "n" ELSE "x"]
MCNewKey == [w \in Wrapper |-> "k2"]
MCMinVer == [b \in Loader |-> IF b = "b1" THEN 1 ELSE 2]
=============================================================================
