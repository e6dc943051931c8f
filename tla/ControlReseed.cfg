SPECIFICATION FairSpec
CONSTANTS
  Backends = {1}
  Flaky = {1}
  MaxEnd = 1
  MaxFlip = 1
PROPERTIES FailedDisabled
CHECK_DEADLOCK FALSE
