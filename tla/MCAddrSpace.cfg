\* A corrupted pool ends the behaviours of the model: nothing is said of what
\* the machine does once a table that is in use has been given away.
CONSTANTS
  Root = 3
  Slot <- MCSlot
  PageCount = 96
  Index <- MCIndex
  FrameCount = 10
  Pml4 = 0
  BootEntry <- MCBootEntry
  Pool <- MCPool
  Rubbish <- MCRubbish
  Mirror = 0
  PageSize = 2
  KernelStart = 64
  Headers = 3
  KernelMappings <- MCKernelWithin
  HooksBefore = FALSE
  Calls <- MCCalls
  MaxLost = 0
  MemMapCalls <- MCMemMapCalls
SPECIFICATION Spec
CHECK_DEADLOCK FALSE
INVARIANTS
  TablesAccounted
  CorruptedOnlyByFailure
  PromisesKept
  RangesAccounted
  RollbackSucceeds
  FreeUnmapped
  MisforcedByArea
PROPERTIES
  ImplementsAddressMap
