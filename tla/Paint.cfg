SPECIFICATION Spec
CONSTANTS
  Width = 24
  Height = 10
  LineHeight = 3
  BaseLine = 1
  Font <- MCFont
  Xs <- MCXs
  Ys <- MCYs
  TextXs <- MCTextXs
  TextYs <- MCTextYs
  Texts <- MCTexts
  Percents <- MCPercents
  Images <- MCImages
INVARIANTS
  TypeOK
  OnlyTheShape
  RedrawsClean
  OutlineIsClosed
  ReadsTheBitmap
  TextComplete
  LinesFit
  ButtonReadable
