\* The order of the hooks against the precondition of make_kernel_mappings.
CONSTANTS
  CoreCount = 4
  AreaSize = 7
SPECIFICATION Spec
CHECK_DEADLOCK FALSE
INVARIANT NoTablesBefore
