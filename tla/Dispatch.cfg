SPECIFICATION FairSpec
CONSTANTS
  f1 = f1
  f2 = f2
  r1 = r1
  a1 = a1
  o1 = o1
  Packets = {f1, f2, r1, a1, o1}
  kInvalid = kInvalid
  Gone = Gone
  Graphs <- MCGraphs
  Class <- MCClass
  kBurstSize = 3
  kMaxFanout = 0
INVARIANTS TypeOK FramesConserved PacketsConserved NothingForgotten NoAllocation OrderKept
PROPERTIES RunEnds
