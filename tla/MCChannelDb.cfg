SPECIFICATION Spec
CONSTANTS
  A = A
  B = B
  s1 = s1
  s2 = s2
  R = R
  f1 = f1
  f2 = f2
  None = None
  Keys <- MCKeys
  Muxes <- MCMuxes
  Programs <- MCPrograms
  Pat <- MCPat
  Vct <- MCVct
  Qam <- MCQam
  RawKey <- MCRawKey
  MaxRows = 2
  Scanners = {s1, s2}
  Slots = {1}
  Faults = {"fopen"}
INVARIANTS TableSound LoadGivesBack CacheComplete
SYMMETRY Symmetry
