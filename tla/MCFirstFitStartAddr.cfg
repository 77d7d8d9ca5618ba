\* A free range asked for by its start address is refused when it ends its block.
CONSTANTS
  AddrMod = 16
  Top = 6
  MaxHeaders = 2
  Starts <- MCStarts
  Sizes <- MCSizes
  Alignments <- MCAlignments
SPECIFICATION Spec
INVARIANT StartAddrHonoured
