SPECIFICATION FairSpec
CONSTANTS
  None = None
  c1 = c1
  c2 = c2
  m1 = m1
  m2 = m2
  Proc = {p1, p2}
  Timers = {t1}
  Fds = {f1}
  Chans = {c1}
  Freqs = {m1}
  FreqOf <- MCFreqOf1
  Clients = {"pull", "scan", "select", "clear"}
  Faults = {"thread"}
PROPERTIES WaitsEnd
