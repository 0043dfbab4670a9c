SPECIFICATION MCSpec
CONSTANTS
  Word = 64
  Page = 2
  ExtSector = 4
  IntSector = 8
  IntBase = 8
  PrimaryFirst = 2
  PrimaryLast = 5
  ExtFirst = 4
  ExtHigh = 35
  ExtSectors = 9
  ImageSizes = {5, 9}
  PrimarySizes = {8, 20}
  CopyChunk = 4
  GuiLen = 1
  MaxStarts = 1
INVARIANTS
  CompleteMeansFull
  StaysInArea
  DoesWhatItSays
  SectorsTile
