\* Forced ranges as the function supports them; four headers, of which each split leaks one.
CONSTANTS
  AddrMod = 16
  Top = 5
  MaxHeaders = 4
  Starts <- MCStarts
  Sizes <- MCSizes
  Alignments <- MCAlignments
SPECIFICATION SupportedSpec
INVARIANTS Coalesced ForceConserved HeadersNotGained
