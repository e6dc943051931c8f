SPECIFICATION Spec
CONSTANTS
  MaxBackends = 2
  Parts = {"ip", "enabled"}
  Words = {0, 1, 2}
  ZeroWord = 0
  Sources <- MCSources
  EarlyAttach = FALSE
  MaxPublish = 2
  MaxCrash = 0
PROPERTIES RegisterSpec
CHECK_DEADLOCK FALSE
