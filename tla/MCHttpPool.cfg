SPECIFICATION FairSpec
CONSTANTS
  None = None
  N = 2
  Conns = {c1, c2}
  Peers = {a, b}
  Others = {u1, u2}
INVARIANTS RefusedOnlyWhenBusy
PROPERTIES Affinity IsLease RequestAnswered
