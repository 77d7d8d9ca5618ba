\* The Makefile's four cores, and the smallest memory area that has room for
\* the heap, the tables and four stacks.  core_entry does not return, and a
\* core that fails hangs: the system stops.
CONSTANTS
  CoreCount = 4
  AreaSize = 7
SPECIFICATION FairSpec
CHECK_DEADLOCK FALSE
INVARIANTS FirstStacksApart BootOnce PitExclusive StacksGiven
PROPERTY AllEnter
