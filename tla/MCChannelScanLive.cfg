SPECIFICATION FairSpec
CONSTANTS
  None = None
  bcast = bcast
  cable = cable
  vsb = vsb
  qam = qam
  Conns = {c1, c2}
  Takers = {x1}
  Freqs = {f1}
  Maps = {bcast}
  Deliveries = {vsb}
  MapOf <- MCMapOf1
  Cap = 2
  MaxOps = 3
  Faults = {"open", "thread"}

PROPERTIES WorkerEnds SetsReplied
