\* A boot that fails, a fault and a request without a drive end the behaviours.
CONSTANTS
  Machines <- MCMachines
  SlotCount = 2
  CountMod = 8
  PrdSectors = 3
  SectorUnits = 2
  DiskSectors = 11
  MemoryUnits = 24
  Images <- MCImages
  BootLoadedSectors = 2
  NextLba = 3
  PageUnits = 4
  BootPages <- MCBootPages
  ClientRequests <- MCClientRequests
SPECIFICATION Spec
CHECK_DEADLOCK FALSE
INVARIANTS
  MainPortReady
  KernelInPlace
  SegmentsMapped
PROPERTIES
  ImplementsBlockDevice
  Returns
