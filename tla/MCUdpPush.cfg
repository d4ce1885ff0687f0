SPECIFICATION FairSpec
CONSTANTS
  None = None
  Listener = Listener
  Synth = Synth
  Other = Other
  c1 = c1
  m1 = m1
  Conns = {x1}
  Pushes = {p1, p2}
  Dests = {d1}
  BadDests = {}
  Chans = {c1}
  Freqs = {m1}
  FreqOf <- MCFreqOf
  Faults = {"socket", "open", "thread", "lookup", "eof", "signal"}
INVARIANTS FieldsAreNewest ClaimIsPush
PROPERTIES UnwantedPushEnds
