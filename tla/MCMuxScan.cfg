SPECIFICATION FairSpec
CONSTANTS
  None = None
  m1 = m1
  m2 = m2
  Muxes = {m1, m2}
  Air <- MCAir
  Numbers <- MCNumbers
  Step = 1
  CbInterval = 2
  LockTimeout = 5
  Window = 3
  Settle = 4
  Rate = 10
  MaxErrors = 1
  MaxBlock = 2
  PatMax = 2
  VctMax = 3
  VctAttempts = 4
INVARIANTS NumberNamesFrequency TablesSound SettleGivesQuality
PROPERTIES QualityEarned AttemptInTime
