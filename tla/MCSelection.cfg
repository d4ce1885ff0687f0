SPECIFICATION Spec
CONSTANTS
  MaxFds = 6
  MaxRanges = 32
  Conns = {c1, c2}
  Maps = {"us_bcast", "us_cable"}
  Inputs <- MCInputs
  Lineup <- MCLineup
  Filters <- MCFilters
  Programs <- MCPrograms
  MaxOps = 4
  None = None
SYMMETRY Symm
CHECK_DEADLOCK FALSE
INVARIANTS
  SelectionSound
  FilterShowsStream
  FiltersFit
  RawNeverUnderStream
  PullLeavesIdle
