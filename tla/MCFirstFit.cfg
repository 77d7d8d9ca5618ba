\* Five addresses, two headers: fragmentation, merging and header failure.
CONSTANTS
  AddrMod = 16
  Top = 5
  MaxHeaders = 2
  Starts <- MCStarts
  Sizes <- MCSizes
  Alignments <- MCAlignments
SPECIFICATION Spec
INVARIANTS Coalesced Conserved HeadersBalanced RefusalJustified
PROPERTIES ImplementsRangeAllocator
