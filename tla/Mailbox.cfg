CONSTANTS
  Room = 8
  ImageRoom = 3
  MaxStarts = 2
SPECIFICATION Spec
INVARIANTS TypeOK MFDecodesIOP VersionsShown KeyReplyMeansImage NothingIsReadTwice OthersKept
CHECK_DEADLOCK FALSE
