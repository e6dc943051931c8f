# Cerebellum in TLA+

Cerebellum is a userspace L4 load balancer. Its **dataplane** runs DPDK worker
threads that translate TCP and UDP flows between clients and backends (full NAT
with connection tracking). Its **control plane** probes the backends and tells
the dataplane which of them are enabled. The two are separate processes that
share two POSIX shared-memory segments and nothing else. This directory holds
TLA+ specifications of the parts where the difficult behaviour is, the TLC
models that check them, and TLAPS proofs of what matters most.

## 1. Inventory

| Component | State | Operations | Works with |
|---|---|---|---|
| **LB node** `dataplane/src/nodes/lb_node.cpp`, `lb/nat_table.hpp`, `lb/port_pool.hpp`, `lb/backend_pool.hpp` | per worker: conntrack slots, reverse index, `size_`, a stack of free SNAT ports per backend | `Process` on a burst: look up, create, touch, tear down, evict, reap | reads the pool the control loop stored; writes gauges |
| **Control segment** `libs/ipc/.../control_view.hpp` | `seq`, `count`, `backends[]` in shared memory | `PublishControl`, `ReadControl` | written by both processes, read by the dataplane's main thread |
| **Shared-memory provider** `libs/ipc/src/shm_provider.cpp` | a name, the object it stands for, a header | create or open, attach, unlink | dataplane creates, control plane attaches |
| **Health checker** `controlplane/src/health` | `states_` under a mutex | `RunLoop`: copy, probe each, store | read by the monitor and the REST handlers |
| **Monitor** `controlplane/src/monitor` | `control_`, `published_enabled_`, latest statistics | attach in the constructor; every second: aggregate, `PublishControl`, export | health checker, both segments |
| **Dataplane main** `dataplane/src/main.cpp` | `applied_seq`, `AtomicRcu<BackendPool>`, `g_running` | seed, first read, launch of lcores, `RunControlLoop` every 200 ms | control segment, workers |
| **Distributor** `lb/steering.hpp`, `steer_node`, ring nodes | bounded rings between lcores | classify, enqueue or drop, dequeue | one IO lcore, n workers |
| **Graph engine** `dataplane/src/graph` | pending frames per node, LIFO of scheduled nodes, frame pool | `RunOnce`, `RunNode`, `RouteInto` | runs every node of an lcore |
| **Parse, DNAT, Ethernet, ARP, RX, TX, drop nodes** | none | one packet at a time | graph engine |
| **Statistics** `lcore_stats.hpp`, `stats_aggregator.cpp` | counters per lcore; the previous totals | `fetch_add`; `Tick` | written by workers, read by the monitor |
| **REST handlers, configuration, UI, nginx, Grafana, load test, CI** | none of their own | | |

The hard behaviours are: a connection table with open addressing, lazy expiry on
a wrapping clock and slots reused in place, whose ports must neither leak nor be
shared; a sequence lock between processes that can be killed at any point; and
two processes whose lifetimes, caches and shared-memory objects get out of step.
Workers share the backend pool and, with the software distributor, bounded rings;
the interleavings that matter are those of packets, clock and pool changes within
a worker, of lcores at the rings, and of the two processes.

What makes each part correct:

- *LB node*: a client 5-tuple has at most one translation; a translation does not
  move while its connection lives; every SNAT port is in one place; packets of a
  live flow find it in both directions; the published number of flows is right; a
  node that ran out of ports recovers.
- *Control segment*: a reader gets a list that was published as a whole, the
  latest one, and gets it eventually.
- *Health checker, monitor, provider, main*: a lasting failure or recovery of a
  backend reaches the workers, whoever was restarted; nobody is disabled who did
  not fail.
- *Distributor and rewriting*: both directions of a flow reach the same worker, and
  what is sent carries the right addresses; a full ring loses a packet but nothing
  else; packets of one connection do not overtake each other.
- *Graph engine*: every packet that enters a run leaves it once; frames return;
  every run ends.
- *Statistics and handlers*: every packet is reported once; rates do not go astray
  when a process restarts; the age of a probe is not a wrapped difference.

## 2. Plan

Done, in this order:

1. `NatTable`, `PortPool`, `LbNode` with the proofs `LbNodeProofs`,
   `LbTableProofs`.
2. `ControlRegister` (abstract), `ControlView` (detailed) with the refinement,
   checked and proved in `ControlViewProofs`.
3. `ControlPlane`: health, publication, segments and restarts; `ControlPlaneProofs`.
4. `FlowMap`, the abstract specification of a worker's flows, and its refinement by
   `LbNode`, checked and proved in `LbFlowMapProofs`.
5. `PacketGraphs` and `Dispatcher`: the dispatch loop on the graphs the program
   builds; `DispatcherProofs`.
6. `Translation` and `Distributor`: the IO lcore, the rings and the workers, each
   with a `FlowMap` in the place of its `LbNode`; steering, parsing, rewriting, ARP;
   `DistributorProofs`.
7. `Reporting`: statistics and REST handlers through restarts; `ReportingProofs`.

Every invariant, every safety property of steps and both refinements that the
passing runs check are now theorems as well. What is left:

8. Make the longer proofs (`DistributorProofs`, `DispatcherProofs`) shorter where
   lemmas about a state and the next one say the same twice.
9. State what follows from several modules at once, such as a bound on the mbufs a
   dataplane has in use, from `NoMbufLost` and the sizes of rings and frames.

## 3. Modules

`NatTable` — the operators of `lb::NatTable` on explicit arguments (table,
reverse index, key, time): `Expired`, the two lookups with the slots they reap on
the way, `Insert` with eviction, `IndexReverse`, `Close`. A probe sequence is
described by distance from the home slot, so "the first slot at which the loop
stops" is a quantified definition instead of a loop. The hash functions are
arbitrary constant functions (`Hash`, `RevHash`): everything proved holds for
every hash.

`PortPool` — `PortPool::ForWorker`, the ports of one worker as a stack.

`LbNode` — one worker's node. `ProcessBegin` loads the pool and the clock, which
may have moved by any amount modulo `ClockMod`; then each packet is one action,
one per outcome of `HandlePacket` (`ForwardHit`, `ForwardNoSyn`,
`ForwardNoPort`, `ForwardTableFull`, `ForwardCreate`, `ReverseHit`,
`ReverseMiss`, and `ProcessNoBackends` for an empty pool); `ProcessEnd` stores
the gauge. The variable `meta` records the packet handled last and its verdict.
Abstractions: a client 5-tuple is a key with a protocol; a backend is its index
(the configuration is taken to hold no two backends with the same address and
port); the client's MAC address, which is kept with the flow (see `Distributor`), and
per-backend counters are left out.

`ControlRegister` — the promise of the control segment: an atomic register.

`ControlView` — the sequence lock, one action per load or store of
`PublishControl` and `ReadControl`. The entries are not atomic and nothing
between the fences orders their copies, so an entry is split into `Parts` and
each step copies any word that is left: this covers every order and every tearing
that a compiler may produce. The loop bound that `PublishControl` reads back from
`view.count` is taken as the number it stored. Publishers are the dataplane
(`SeedControl`) and the monitor; the reader is the dataplane's main thread,
continued to `RunControlLoop`, its `applied_seq`, the pool and the stop signal.
`KillControlplane` and `KillDataplane` cut a process off anywhere and start it
anew on the surviving segment. Two history variables: `published`, the completed
publications in order, and `clean`, which is true as long as no publication began
while another was unfinished and none was cut off. `seq` is unbounded; 2^31
publications, at most one a second, are out of reach.

`ControlPlane` — both processes through their lifetimes: objects in shared memory
and the name (`linked`, `header`), the dataplane (`DpCreate`, `DpHeader`, `DpStop`,
`DpKill`), the health checker (`CheckerCopy`, `Probe`), the monitor (`CpStart`,
`PublishControl`, `CpStop`, `CpKill`) and the backends (`Flip`). Both planes publish
and nothing makes them exclude each other, so `ipc::PublishControl` is taken apart
for both into `LoadSeq`, `StoreOdd`, `StoreEntry` and `StoreEven`, and `ReadControl`
into `ReadSeq`, `ReadEntry` and `CheckSeq`: `SeedControl`, the first read and the
monitor's publications meet in every order, and a kill can come between any two of
their accesses. A stop cannot: the poller and `RunControlLoop` finish their round.
An entry is one access here (`ControlView` goes on to words), and the list is
abstracted to the set of enabled backends, because both planes take all else from
the same configuration file. A round of the control loop that finds the number it
applied last has no effect and no step. A probe finds what is reachable at that
moment. History: `found` and `rounds`, what the round of probes under way and the
finished ones found; `joined`, true while both planes run and the control plane was
started after `SeedControl`; and `damaged`, the objects in which a publication began
while another was unfinished, or one was cut off. The code promises little about
such objects (see the observations in section 4), and the properties about the pool
exclude them by name (`Sound`); `DamageWindow` says when an object can become one.

`FlowMap` — what an `LbNode` promises to the rest of the dataplane: a one-to-one
map between client 5-tuples and pairs of a backend and a SNAT port. An entry
translates packets (`bound`) or belongs to a reaped flow, whose port is not free
yet (`parked`). `LbNode!FlowMapSpec` is the refinement: `EntriesOf` maps the slots
to the entries. The steps are written as operators on a map (`Reaped`, `Hit`,
`Evicted`, `Opened`), so that `Distributor` can use them for the map of each worker.

`PacketGraphs` — the four `Build...Graph` functions of `main.cpp` as values, what
`Graph::Wire` checks, `Graph::Target`, and for each node to which outputs it may
move a packet of each class.

`Dispatcher` — `RunOnce` on such a graph, with pending frames, the LIFO of
scheduled nodes, scratch frames and the `FramePool` as a stack over an array of
frames that may grow. A step is a packet processed or routed, or a frame or a node
taken up or done with. `RxNode` and `RingRxNode` may bring any burst. `arrived` and
`left` are history.

`Translation` — what `ClassifyForSteer`, `Ip4ParseNode`, `DnatNode`,
`EtherRewriteNode` and `ArpNode` read from and write to headers. A header is a
record of the fields they use; lengths, byte order, TTL and checksums are left out.
The destination MAC address of a reply is the `client_mac` of its flow, that of a
request the one the configuration gives to the backend.

`Distributor` — the mode with one IO lcore and several workers. The IO lcore's two
graphs are the steps `IoRx`, `IoSteer` (one packet), `IoArp` and `IoTx`; a worker's
are `WorkerRx`, `WorkerLb` (one packet) and `WorkerTx`. Between two accesses to a
ring an lcore works alone, so these steps cover every interleaving of the rings'
contents. In `WorkerRx` the packets for `LbNode` are put together the way
`Dispatcher` does it: all forward packets of a burst before all replies. When a
flow times out, which flags a packet has and which backends are active is left to
`FlowMap`, so every behaviour of the real node is among those checked. An entry of
the map carries one field more (`Flow`): the `client_mac` that `LbOpen` stores from
the packet that opens the flow and that `LbHit` gives to the replies; `NatTable`
copies a flow as a whole, so it stays with its entry. A client may send from several
MAC addresses. `orig` (the headers an mbuf came with) and `before` (which of two mbufs
came first) are history.

`Reporting` — the statistics segment from the lcores' `fetch_add` to the REST
answers. `Tick` is one step per lcore it sums up. The dataplane's object is
created, taken over, unlinked or left behind as in `ControlPlane`; the monitor
attaches in its constructor or falls back to an empty view for good. One counter
stands for all. `BackendsHandler` reads the clock (`Request`) before it copies the
health states (`Answer`). `seen`, the sum of the reported rates, is history.

`MCLbNode`, `MCControlView`, `MCControlPlane`, `MCDispatcher` and `MCDistributor`
give the constants their values.

**Assumptions about the surroundings.** No two backends have the same address and
port, and a VIP on the balancer's own address has a port outside the SNAT range
(`AddressAssumption`), since otherwise replies look like requests. Both processes
read the same configuration file, so that an index means one backend throughout:
ports are pooled per index, flows keep an address. Whoever sends to the VIP is a
client (`HeaderAssumption`). Fewer than 2^64 packets are counted in an object
(`MaxCount < CountMod`). Nobody sets the wall clock back: the age of a probe is a
difference of two readings of `system_clock`, which `Reporting` lets grow only.

## 4. Runs

In the `lb_` runs the table can fill up, wrap, collide and reuse slots: two slots
(`Cap`), three keys of which two collide and one is TCP, a clock of three values
with a timeout of one (so that flows expire, and a flow idle for a whole turn of
the clock looks fresh). `lb_flows` has three backends with a port each, one port
more than slots, so that a flow can be refused for want of a port and for want of a
slot; its flag sets are SYN, FIN, and SYN with RST, which cover opening, half
closing and closing at once. `VIEW MCView` leaves out `meta`,
which no action reads and of which the properties read only the new value, and
replaces times by ages: nothing in the table compares a time with anything but
the clock, so turning all of them by the same amount changes no behaviour.

| Run | Question | Outcome |
|---|---|---|
| `lb_flows` | Backends that come and go: `TypeOK`, `SizeHonest` (`size_` and the gauge), `PortConservation`, `KeyUnique`, `ForwardReachable`, `BindingStable` (a live flow changes only when its own packets close it), `ReverseStable`, `FlowMapSpec` (the node implements `FlowMap`) | pass |
| `lb_reverse` | Can every live flow be found by its replies (`ReverseReachable`)? | violated |
| `lb_starvation` | Does a node out of ports recover once its flows have timed out (`StarvationEnds`)? | violated |
| `view_live` | Monitor attaching before the seed, one kill anywhere: `TypeOK`, `NoTornPool`, `CleanReadReturns`, `Stops`, `Converges` | pass |
| `view_register` | One publisher at a time, nobody killed, two words per entry: `RegisterSpec`, the refinement of `ControlRegister` | pass |
| `view_killed` | The monitor is killed inside `PublishControl`: `ReadReturns` | violated |
| `control_health` | A stop or a kill of either plane anywhere, inside publications too, and a new start: `TypeOK`; `HonestPool` (a pool is the seed, empty or a whole round of probes) and `AppliedIsCurrent` (the applied number tells the applied list) for objects that are not `damaged`; `DamageWindow` (overlaps and cut-off publications only during `SeedControl` or by a kill of the control plane); `HealthReaches` (a lasting failure or recovery reaches the workers while `joined` holds and the object is not damaged) | pass |
| `control_reseed` | Does a lasting failure reach the workers whoever was started first (`FailedDisabled`)? | violated |
| `control_blackout` | Is only disabled who failed (`DisabledMeansFailed`)? | violated |
| `dispatch` | Every graph, bursts of up to three of five packets: `TypeOK`, `FramesConserved`, `PacketsConserved`, `NothingForgotten`, `NoAllocation` (the frame pool does not grow), `OrderKept`, `RunEnds` | pass |
| `distributor` | Rings that overflow, two workers, colliding clients: `TypeOK`, `MbufConservation`, `RoundTrip` (a reply finds the worker and the flow it belongs to), `CleanWire` (the addresses on what is sent; a reply goes to a MAC address of its own client), `FlowOrder` | pass |
| `reporting` | Stops, kills and restarts of both processes at any point of a `Tick`: `TypeOK`, `NoPhantomTraffic`, `EveryPacketReported`, `AgeHonest` | pass |

`ControlView` is checked with arrays of two entries, a list of one and a list of
three that is clipped, so that lists of different length overwrite each other;
one reader is all there is in the code. `control_health` has two backends, so that
there are lists that are neither the seed nor empty and copies that mix two lists.
`MaxEnd = 1`: one stop or kill, of either plane and at any of its steps, and with it
two objects and a restart on the old or on a new one. A second end is beyond the time
of a run; the theorems cover any number. One of the backends (`Flaky`)
changes its reachability, once (`MaxFlip`), before, between or after the rest; the
other stays up. Deadlock is not checked in
the `view_` and `control_` runs, where processes end; in the others it is.

`dispatch` uses all four graphs and a packet of every class, two of them of the
class that takes the longest way. A burst of three is as large as a frame, so that
frames fill up exactly. The code reserves `kMaxFanout` frames beyond one per node;
the run reserves none of these, which makes `NoAllocation` stronger than needed.
`distributor` has three mbufs, rings of two entries and bursts of two, so that every
ring is met full, and three clients of which two are steered to one worker that has
a single port: the two compete for it, one after the other, and one of the two sends
from two MAC addresses. Not storing `client_mac` (`lb_node.cpp:108`) and not loading
it (`:70`) are the two mutants of `CleanWire`. The mbufs are
interchangeable (`SYMMETRY`); only safety is checked there. `reporting` has two
lcores, two objects and three packets, enough for packets counted before, within
and after a round and on both sides of a restart.

**Fairness.** In `LbNode` the worker polls for ever, so bursts begin and end (weak
fairness); `StarvationEnds` also lets clients retry (strong fairness of a
flow-opening packet of each). In `ControlView` the main thread runs and a
publisher that has entered `PublishControl` goes on; when the monitor publishes
again is left open, and the bound on its publications stands for the second
between two of them, in which a read of microseconds finds time. In
`ControlPlane` the main thread, the checker's thread and the poller each keep
running, through publications and reads, and a service that ended is started again. In `Dispatcher` an
lcore runs its dispatcher without pause (weak fairness of the whole step relation);
which packets come is left open. In `Reporting` only the poller is fair (`Tick`);
nobody has to count, start or stop.

### What the violated runs show

- **`lb_reverse`** (`nat_table.hpp:157`). `IndexReverse` judges a cell by the slot
  it points at; after the slot is reused, the old cell looks alive. Such cells can
  fill the index, and then a flow is stored without one: its replies are dropped.
- **`lb_starvation`** (`lb_node.cpp:101`). A port is acquired before the insertion
  that would evict a timed-out flow and give its port back. When dead flows hold
  all ports, new flows are refused for ever.
- **`view_killed`** (`control_view.hpp:46`). A kill between the two stores makes
  `seq` odd after every later publication; `ReadControl` spins for ever, and
  neither a signal nor a restart helps.
- **`control_reseed`** (`monitor_component.cpp:112`). The monitor compares with
  what it published last, not with what the segment holds. A seed that comes after
  its publication, of a restarted dataplane or of one to which the monitor attached
  early, is never overwritten; a failed backend stays enabled.
- **`control_blackout`** (`monitor_component.cpp:110`). The first publication of a
  control plane, made before the first probe, disables every backend. Since
  `Process` drops everything without a backend, every restart of the control plane
  interrupts all traffic until the first round of probes is published.

### Observations the passing runs depend on

- Without an enabled backend, `Process` drops the packets of established flows too
  (`lb_node.cpp:15`, action `ProcessNoBackends`), while the documentation lets
  established flows drain.
- Nothing keeps the two publishers apart: a monitor that attached between
  `ApplyHeader` and `SeedControl`, or that is still attached when a killed dataplane
  comes back, can publish during the seed. The overlap can leave a mixture of two
  lists; it can end on a number that was applied already (both load 0, the seed ends on
  2, which is read, then the monitor ends on 2 with another list), which the control
  loop never picks up; and it can leave `seq` odd (one loads the odd number of the
  other and adds 2), on which the first read of the starting dataplane spins for ever.
  After a cut-off publication the parity is inverted: a read can only return in the
  middle of a later publication, with whatever is there. `NoTornPool`, `RegisterSpec`,
  `Converges` and the control-plane properties are therefore claimed while `clean`
  holds, or for objects that are not `damaged`; TLC violates each of `PoolPublished`,
  `HonestPool` and `AppliedIsCurrent` without that condition. `DamageWindow` shows how
  narrow the window is: a control plane started after the seed is exposed to it only
  by a later seed on the same object or by its own kill.
- The monitor attaches only in its constructor (`monitor_component.cpp:49-57`). A
  control plane that was started first never attaches, and one that outlives the
  dataplane's object keeps the orphan. `HealthReaches` therefore requires `joined`,
  and no property covers the hazard that one failed attempt to attach is final.

### Other observations

These came up while modelling and have no run of their own.

- A control plane that was started first stays "detached" until it is restarted,
  where `docs/getting-started.md` says that it serves zeros until the dataplane is
  up. `NoPhantomTraffic` states what does hold: a detached monitor reports zeros.
- `prev_` starts at zero, so the first `Tick` of a restarted control plane reports
  all that was ever counted in the object as the rate of one second.
- `active_flows` of a killed dataplane stays in the segment until an lcore with the
  same index runs `LbNode` again, which after a change of mode may be never.
- Ports are handed out last in, first out. A late reply of a closed connection can
  reach the next owner of its port. In `Distributor` such replies are delivered;
  `CleanWire` holds for them, as they do go to a client.
- Packets freed by `DropNode`, by `SteerNode` as `kDrop` and by the refusals of
  `LbNode` are not all counted as `dropped`; the models leave the counters out.
- The same hash steers, selects the backend and gives the home slot. Where the
  number of workers has a factor in common with the number of backends or slots, a
  worker sees only some of the remainders.
- A backend that was never probed has an age counted from the epoch.

## 5. Proofs

All theorems hold for every value of the constants that satisfies the named
assumptions (`TableAssumption`, `PoolAssumption`, `FlagAssumption` of the LB node,
`ViewAssumption`, `ControlAssumption`, `ReportingAssumption`,
`DispatcherAssumption`, and `RingAssumption`, `HeaderAssumption`,
`AddressAssumption`, `SteeringAssumption` of the distributor). They say that numbers
are numbers, that rings, bursts and tables are not empty, and what section 3 lists
about the surroundings. The bounds that keep TLC's runs finite are arbitrary here:
any number of lcores, packets, restarts, publications and slots, and any hash.

| Theorem | Says |
|---|---|
| `LbNodeProofs!TypeCorrect` | `Spec => []TypeOK` |
| `LbNodeProofs!PortsConserved` | `Spec => []PortConservation` |
| `LbTableProofs!NoDoubleBinding` | `Spec => []KeyUnique` |
| `LbTableProofs!LiveFlowsReachable` | `Spec => []ForwardReachable` |
| `LbTableProofs!GaugeHonest` | `Spec => []SizeHonest` |
| `LbTableProofs!BindingsStable` | `Spec => BindingStable` |
| `LbFlowMapProofs!NodeIsFlowMap` | `Spec => FlowMapSpec`, the refinement of `FlowMap` |
| `LbFlowMapProofs!RepliesStable` | `Spec => ReverseStable` |
| `ControlViewProofs!ViewTypes` | `Spec => []TypeOK` |
| `ControlViewProofs!NeverTorn` | `Spec => []NoTornPool` |
| `ControlViewProofs!SegmentIsRegister` | `Gentle => (Spec => RegisterSpec)`, where `Gentle` says that the monitor attaches after the seed and nobody is killed |
| `ControlPlaneProofs!ControlTypes` | `Spec => []TypeOK` |
| `ControlPlaneProofs!AppliedCurrent` | `Spec => []AppliedIsCurrent` |
| `ControlPlaneProofs!PoolHonest` | `Spec => []HonestPool` |
| `ControlPlaneProofs!DamageBounded` | `Spec => DamageWindow` |
| `DispatcherProofs!FramesFit` | `Spec => []TypeOK` |
| `DispatcherProofs!NoFrameLost` | `Spec => []FramesConserved` |
| `DispatcherProofs!NoPacketLost` | `AllComplete => (Spec => []PacketsConserved)` |
| `DispatcherProofs!RunsComplete` | `AllComplete => (Spec => []NothingForgotten)` |
| `DispatcherProofs!PoolSuffices` | `AllComplete => (Spec => []NoAllocation)` |
| `DispatcherProofs!OrderPreserved` | `AllComplete /\ AllOnePath => (Spec => []OrderKept)` |
| `DispatcherProofs!ProgramAssumptions` | the four graphs of `main.cpp` satisfy `AllComplete` and `AllOnePath` |
| `DistributorProofs!RingsFit` | `Spec => []TypeOK`, the capacities included |
| `DistributorProofs!NoMbufLost` | `Spec => []MbufConservation` |
| `DistributorProofs!RepliesReturn` | `Spec => []RoundTrip` |
| `DistributorProofs!WireClean` | `Spec => []CleanWire` |
| `DistributorProofs!OrderPerFlow` | `Spec => []FlowOrder` |
| `ReportingProofs!ReportTypes` | `Spec => []TypeOK` |
| `ReportingProofs!NoPhantoms` | `Spec => []NoPhantomTraffic` |
| `ReportingProofs!AgesHonest` | `Spec => []AgeHonest` |

*LB node.* `PortConservation` is inductive with the types. It is proved by lemmas
about a table and its pools as values: taking the top of a stack into a slot,
trading it for the port of the evicted flow, closing a slot, and reaping, which
touches no port, each keep it; every action is a sequence of those. `KeyUnique`
is not inductive: that a miss of `LookupForward` proves that no slot holds the
key needs `ProbeChain` (no empty slot between a flow's home and the flow), and
`Insert` keeps the chain because it stops at the first slot that is empty, timed
out or reaped, and nothing ever empties a slot. `ForwardReachable` follows from
the two. `SizeHonest` counts the slots that are not reaped; the lemmas are
about the cardinality of that set when slots are reaped, closed and filled.
`BindingStable` is an action property that follows from the same invariant.

*Control segment.* The invariant `SeqlockInv` claims, while `clean` holds, that at
most one publisher is active, that `seq` is twice the number of publications, plus
one while one is under way, that the segment holds the latest publication outside
of one and what has been copied so far within one (`WriterInv`), and that a reader
whose `seq_before` still equals `seq` has copied from the current publication, a
list it has accepted is the publication number `seq_before / 2`, and the pool is
number `applied_seq / 2` (`ReaderInv`). Without the link between the number and
the contents, an accepted copy could not be told from a torn one. The refinement
maps a publication to the store that makes `seq` even and a read to its successful
second load; it needs `CleanInv`, that with `Gentle` nobody ever spoils `clean`.

*LB node as a map.* A table stands for the map `MapOf` of its slots. A slot may
be taken out of the map by its entry only because no two slots hold the same port of
the same backend (`OneOwner`), which is where `PortConservation` comes in. Each
operator of `NatTable` is shown to be a step of the map (reaping, a hit, an eviction,
an opening), and each action a sequence of them. `ReverseStable` compares the cells
that lead to a flow before and after (`CellsOf`): since nobody else has its tuple, a
search by that tuple stops at an empty cell or at a cell of this flow, and no step
takes such a cell away or empties one before it (`ReverseKept`). This needs
`HoldPorts`, that a flow that was not reaped has a port.

*Control plane.* The argument is the one of a sequence lock with two writers, object by
object. `LockInv` says of every object that is not damaged: at most one publisher is
inside (`Exclusive`); one that has loaded `seq` finds it unchanged until it stores
(`PublisherOk`), and what it has copied agrees with its source; `seq` is even when
nobody is inside (`EvenAtRest`); a number that was applied is not ahead of `seq`, and
if it is the current one then the pool is the list (`AppliedOk`); and a read whose
first number is still the current one has copied what the object holds (`CopyOk`).
`AppliedIsCurrent` follows. `HonestPool` is followed back through the segment and the
monitor to the checker: `HonestInv` says that a copy under way agrees with the probes
made so far, that `states_` is either untouched or a whole round, and that every source
of a publication, every list at rest in an object that is not damaged and the pool are
the seed, empty, or the outcome of a round, and outcomes are only ever added.
`DamageWindow` needs only `Mapped`, which ties the publishers to the place of their
thread: outside of `"seed"` the dataplane is no publisher.

*Graph engine.* `FrameInv` adds to the types that the stacks of frames are disjoint
and without repetition (`FramesApart`), that free frames are empty, that what the
current frame has left would fit behind any output (`HeadFrame`), and that a node
with frames is queued or is about to be (`Queued`). Packets are shared out among
frames, scratch frames and the outside (`Apart`), and each step that touches one
moves the first packet of a place to the end of another (`PacketMoves`). That
none is lost depends on the graph: `Complete` says that every output a node may use
is wired, that the root is a source and that nothing is wired to a source. Then a
source works only on the seed frame, while no packet is around (`SourceFirst`), so
that overwriting the frame loses none. For `NoAllocation`, a burst fits one frame, so
no node has two frames (`OneFrame`); a frame is taken only for a node that has none,
while another is drained and the root has none: fewer frames are in use than nodes.
For `OrderKept`, `OnePath` says that for the packets of one class the graph is a
tree. A packet at a node is on an output leading to it, pending, worked on, or left
there; these places are ordered by `Upstream`, and of two packets of a class the
earlier one is never upstream of the later one and stands before it when both are in
the same place (`NoneOvertaken`). A step moves the first packet of a place to the
next place and behind those that are there (`Advances`, `Onward`). That the four
graphs of the program satisfy `Complete` and `OnePath` is proved with the trees
written out.

*Distributor.* `RoundTrip` needs only `FlowsInv`: the map of a worker holds ports of
that worker and no tuple twice. The rest is proved from one invariant about a layout
that gives each place its sequence of mbufs: each mbuf is in one position
(`OnePlace`), with the headers its place stands for (`Fits`, which needs that a flow's
`client_mac` came with a packet of that client, `Learned`), and mbufs that arrived
alike are in the order of their arrival, within a place and between places of
different stages (`Ordered`). Every step is a burst that arrives (`Arrives`) or
moves the first entries of a place to the end of another and drops some (`Moves`);
a lemma for each says what it does to each of the three parts, and the actions are
shown to be such moves. A move keeps `Ordered` because a packet has one way
(`Route`), by the worker its headers select, so that no packet it would overtake
waits elsewhere (`Alone`).

*Statistics.* The inductive invariant of `NoPhantomTraffic` must say, in the middle
of a round, that the sum so far is at most what the lcores already read have counted,
and that the previous total is at most that sum plus the counters of the others
(`Reading`). Sums are cardinalities of sets
with one element per packet (`Slice`), which can be split at any lcore; this takes the
place of an induction over lcores. With `TotalsFit` no unsigned difference wraps.

*Only model-checked*: liveness (`CleanReadReturns`, `Stops`, `Converges`,
`HealthReaches`, `RunEnds`, `EveryPacketReported`), because the prover has no rules
for fairness and `ENABLED`. The properties of the violated runs are refuted by their
counterexamples and have nothing to prove.

## 6. Not modelled

- DPDK itself, `Eal` and `DpdkPort`: calls into a library at start-up, and bursts
  in and out, which are modelled by what they hand over.
- Command line, parsing of configuration and addresses, the error exits of
  `RunDataplane`: done once, before there is any state.
- Header lengths, byte order, TTL and checksums: arithmetic on one packet, which
  unit tests reach.
- `WriteMetrics`, JSON and HTTP: read-only views of state modelled elsewhere; errors
  of the export are ignored by the code.
- The counters of `LcoreStats` other than the one that stands for all in
  `Reporting`, and the gauge `active_flows` beyond `LbNode`.
- The dashboard, the proxy, the load test and the deployment files.

System calls are taken to succeed, except that attaching fails when there is no
valid segment.
