SPECIFICATION FairSpec
CONSTANTS
  MaxBackends = 2
  Parts = {"ip"}
  Words = {0, 1, 2}
  ZeroWord = 0
  Sources <- MCSources
  EarlyAttach = FALSE
  MaxPublish = 2
  MaxCrash = 1
PROPERTIES ReadReturns
CHECK_DEADLOCK FALSE
