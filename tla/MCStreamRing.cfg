SPECIFICATION FairSpec
CONSTANTS
  Cap = 4
  MaxChunk = 3
  MaxRead = 3
  K = 8
  Pollers = {g1, g2}
  Faults = {"eof", "thread"}
INVARIANTS StreamSafe NoSleeperForgotten
PROPERTIES IsPipe TeardownEnds
