\* The kernel area reaches beyond the identity-mapped pages.
CONSTANTS
  Root = 3
  Slot <- MCSlot
  PageCount = 96
  Index <- MCIndex
  FrameCount = 10
  Pml4 = 0
  BootEntry <- MCBootEntry
  Pool <- MCPool
  Rubbish <- MCRubbish
  Mirror = 0
  PageSize = 2
  KernelStart = 64
  Headers = 6
  KernelMappings <- MCKernelBeyond
  HooksBefore = FALSE
  Calls <- MCCalls
  MaxLost = 0
  MemMapCalls <- MCMemMapCalls
SPECIFICATION Spec
CHECK_DEADLOCK FALSE
INVARIANT
  LazilyAllocated
