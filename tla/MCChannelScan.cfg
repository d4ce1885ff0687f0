SPECIFICATION Spec
CONSTANTS
  None = None
  bcast = bcast
  cable = cable
  vsb = vsb
  qam = qam
  Conns = {c1, c2}
  Takers = {x1}
  Freqs = {f1, f2}
  Maps = {bcast}
  Deliveries = {vsb}
  MapOf <- MCMapOf1
  Cap = 2
  MaxOps = 5
  Faults = {"open", "thread"}
SYMMETRY Symmetry
INVARIANTS RingIsFifo NoneStaysNone SoleWorker WorkerAlert
