SPECIFICATION Spec
CONSTANTS
  App = {"o", "u", "n", "x"}
  Wrapper = {"w", "wx"}
  Loader = {"b1", "b2"}
  Blank = "blank"
  Noise = "noise"
  Foreign = "foreign"
  Key = {"k1", "k2"}
  Ver <- MCVer
  Cnt <- MCCnt
  Signer <- MCSigner
  Inner <- MCInner
  NewKey <- MCNewKey
  Movable = {"w", "wx"}
  MinVer <- MCMinVer
  EagerMF = FALSE
  CleanSlot = TRUE
  MaxLosses = 0
INVARIANTS
  NeverHere
