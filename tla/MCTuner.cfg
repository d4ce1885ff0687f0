SPECIFICATION Spec
CONSTANTS
  None = None
  c1 = c1
  c2 = c2
  m1 = m1
  m2 = m2
  Proc = {p1, p2}
  Timers = {t1, t2}
  Fds = {f1, f2}
  Chans = {c1, c2}
  Freqs = {m1, m2}
  FreqOf <- MCFreqOf
  Clients = {"pull", "push", "boot", "scan", "select", "clear"}
  Faults = {"open", "tune", "lock", "demux", "thread", "memory"}
SYMMETRY Symmetry
INVARIANTS FrontendOwned ClaimExclusive StreamOnItsMux NoLostWakeup
PROPERTIES RefresherSafe
