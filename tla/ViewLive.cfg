SPECIFICATION FairSpec
CONSTANTS
  MaxBackends = 2
  Parts = {"ip"}
  Words = {0, 1, 2}
  ZeroWord = 0
  Sources <- MCSources
  EarlyAttach = TRUE
  MaxPublish = 1
  MaxCrash = 1
INVARIANTS TypeOK NoTornPool
PROPERTIES CleanReadReturns Stops Converges
CHECK_DEADLOCK FALSE
