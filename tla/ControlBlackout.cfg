SPECIFICATION Spec
CONSTANTS
  Backends = {1, 2}
  Flaky = {}
  MaxEnd = 0
  MaxFlip = 0
INVARIANTS DisabledMeansFailed
CHECK_DEADLOCK FALSE
