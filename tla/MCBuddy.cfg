\* Four smallest blocks, every order, headed and headerless blocks.
CONSTANTS
  MaxOrder = 2
  Size <- MCSize
  MinBlock = 4
  Header = 1
  Narrow = 64
  Requests <- MCRequests
  ClientData <- MCData
SPECIFICATION Spec
INVARIANTS ListsLinked FullyMerged Accounted RefusalJustified
PROPERTIES ImplementsBlocks DoubleFreeIgnored
