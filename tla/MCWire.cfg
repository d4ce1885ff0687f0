SPECIFICATION WireFairSpec
CONSTANTS
  Base = 4
  NameCap = 6
  ValueCap = 7
  MaxPacket = 40
  Scripts <- MCScripts
  Params <- MCParams
  Datagrams <- MCDatagrams
  Configs <- MCConfigs
CHECK_DEADLOCK FALSE
INVARIANTS
  StreamInStep
  AnswersMatch
  DiscoverAddressed
PROPERTIES
  BothEnd
