CONSTANTS
  BootLen = 1
  GuiLen = 1
SPECIFICATION FairSpec
INVARIANT TypeOK
INVARIANT DrawnMeansShown
PROPERTY StayIfAsked
PROPERTY BootTaskReturns
PROPERTY ScreensTimeOut
