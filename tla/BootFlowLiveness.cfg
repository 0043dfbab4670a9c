SPECIFICATION FairSpec
CONSTANTS
  App = {"o", "u", "n"}
  Wrapper = {"w"}
  Loader = {"b1"}
  Blank = "blank"
  Noise = "noise"
  Foreign = "foreign"
  Key = {"k1", "k2"}
  Ver <- MCVer
  Cnt <- MCCnt
  Signer <- MCSigner
  Inner <- MCInner
  NewKey <- MCNewKey
  Movable = {"w"}
  MinVer <- MCMinVer
  EagerMF = FALSE
  CleanSlot = TRUE
  MaxLosses = 1
PROPERTIES
  InterruptedInstallCompletes
