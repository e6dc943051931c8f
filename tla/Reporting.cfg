SPECIFICATION FairSpec
CONSTANTS
  NLcores = 2
  CountMod = 8
  MaxObjects = 2
  MaxCount = 3
  MaxTime = 2
INVARIANTS TypeOK NoPhantomTraffic AgeHonest
PROPERTIES EveryPacketReported
