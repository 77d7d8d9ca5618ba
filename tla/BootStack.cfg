\* Where the kernel's stacks lie.
CONSTANTS
  CoreCount = 4
  AreaSize = 7
SPECIFICATION Spec
CHECK_DEADLOCK FALSE
INVARIANT StackIsOwn
