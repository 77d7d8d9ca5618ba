\* A core that has reported its fault, or never has one, ends the behaviours.
CONSTANTS
  c1 = c1
  c2 = c2
  Cores = {c1, c2}
  IntBits = 8
  Places = 2
  MAX_ROWS = 3
  MAX_COLS = 4
  ByteBase = 8
  BootFormat <- MCBootFormat
  FaultFormat <- MCFaultFormat
  BootArgs <- MCBootArgs
  FaultArgs <- MCFaultArgs
SPECIFICATION Spec
CHECK_DEADLOCK FALSE
INVARIANTS
  ScreenShowsLog
  CursorOnScreen
  ConversionsReadBack
PROPERTIES
  FaultsReported
