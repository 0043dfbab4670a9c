CONSTANTS
  BootLen = 1
  GuiLen = 2
SPECIFICATION Spec
PROPERTY PeekWaits
