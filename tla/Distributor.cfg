SPECIFICATION Spec
CONSTANTS
  c1 = c1
  c2 = c2
  c3 = c3
  b1 = b1
  gw = gw
  vip = vip
  vip_port = 80
  self_ip = self
  self_mac = self
  Backends <- MCBackends
  Backend <- MCBackend
  Clients <- MCClients
  BackendMac <- MCBackendMac
  Addresses <- MCAddresses
  Macs <- MCMacs
  NWorkers = 2
  Low = 4
  High = 5
  Hash <- MCHash
  Mbufs = {m1, m2, m3}
  Headers <- MCHeaders
  NoHeader = NoHeader
  kBurstSize = 2
  kRingSize = 2
  kEgressRingSize = 2
INVARIANTS TypeOK MbufConservation RoundTrip CleanWire FlowOrder
SYMMETRY MCSymmetry
