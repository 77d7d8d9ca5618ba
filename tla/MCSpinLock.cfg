\* Four cores; the counters wrap after five tickets.
CONSTANTS
  bsp = bsp  ap1 = ap1  ap2 = ap2  ap3 = ap3
  Cores <- MCCores
  Width = 5
SPECIFICATION FairSpec
INVARIANTS MutualExclusion TicketsInOrder
PROPERTIES Progress ImplementsQueueLock
