SPECIFICATION FairSpec
CONSTANTS
  Backends = {1, 2}
  Flaky = {1}
  MaxEnd = 1
  MaxFlip = 1
INVARIANTS TypeOK HonestPool AppliedIsCurrent
PROPERTIES DamageWindow HealthReaches
CHECK_DEADLOCK FALSE
