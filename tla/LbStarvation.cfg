SPECIFICATION FairSpec
CONSTANTS
  k1 = k1
  k2 = k2
  k3 = k3
  NoKey = NoKey
  Keys = {k1, k3}
  Cap = 2
  TimeoutMs = 1
  ClockMod = 3
  Protos <- MCProtos
  Proto <- MCProto
  Hash <- MCHash
  Backends = {0}
  NPorts = 1
  Ports <- MCPorts
  RevHash <- MCRevHash
  TcpProto = 6
  TcpFlagSets <- MCSynRst
  PoolPorts <- MCPoolPorts
PROPERTIES StarvationEnds
