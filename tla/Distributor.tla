---------------------------- MODULE Distributor -----------------------------
(***************************************************************************)
(* The software distributor: the IO lcore, which receives, steers, answers *)
(* ARP and transmits, and the workers, each with a flow map of its own.    *)
(* They share the ingress rings (one per worker), the egress ring, and     *)
(* nothing else.                                                           *)
(*                                                                         *)
(* Between two accesses to a ring an lcore works on its own, a burst or a  *)
(* packet in one step.  LbNode is the promise it implements, FlowMap:      *)
(* which flows have timed out, which TCP flags a packet has and which      *)
(* backends are active is left open.  A flow also keeps the MAC address of *)
(* its client.  The counters are left out.                                 *)
(***************************************************************************)
EXTENDS Translation, Sequences, FiniteSets

CONSTANTS Mbufs, Headers, \* the mbuf pool, and what the wire may deliver
          NoHeader,       \* an mbuf that is not in use
          kBurstSize,
          kRingSize, kEgressRingSize \* entries that fit into a ring

ASSUME RingAssumption ==
  /\ {kBurstSize, kRingSize, kEgressRingSize} \subseteq Nat \ {0}

\* Whoever sends to the VIP is a client.
ASSUME HeaderAssumption ==
  /\ NoHeader \notin Headers \cup IpHeader \cup ArpHeader
  /\ \A h \in Headers :
       /\ h.type = "arp" => h \in ArpHeader
       /\ h.type = "ipv4" => h \in IpHeader /\ (h.dst = Vip => h.src \in Clients)

VARIABLES io_pc,    \* RunIo: "rx", "steer" or "tx"
          io_frame, \* received packets that SteerNode has not looked at yet
          arp,      \* the frame of ArpNode
          ingress, egress,
          in_frame, \* per worker: LbNode's frame
          out_frame,\* per worker: the frame of RingTxNode
          flows,    \* per worker: the promise of its LbNode
          hdr,      \* the headers in each mbuf
          orig,     \* history: the headers each mbuf arrived with
          before    \* history: <<m, n>> are in use and m arrived before n

rings == <<ingress, egress>>
io == <<io_pc, io_frame, arp>>
workers == <<in_frame, out_frame, flows>>
packets == <<hdr, orig, before>>
vars == <<io, rings, workers, packets>>

FM == INSTANCE FlowMap WITH Ports <- Low .. High

\* An entry of the map with the part of NatFlow that FlowMap does not look at.
Flow == [key : Keys, b : Backends, port : Low .. High, client_mac : Macs]

Elements(s) == {s[i] : i \in DOMAIN s}
Lesser(x, y) == IF x < y THEN x ELSE y
Upto(s, n) == SubSeq(s, 1, Lesser(n, Len(s)))
After(s, n) == SubSeq(s, n + 1, Len(s))

\* What is left of s, in its order, when the mbufs outside M are taken out:
\* one sequence.
Only(s, M) ==
  LET I == {i \in DOMAIN s : s[i] \in M}
  IN  {[i \in DOMAIN f |-> s[f[i]]] :
         f \in {f \in [1 .. Cardinality(I) -> I] :
                 \A i, j \in DOMAIN f : i < j => f[i] < f[j]}}

InUse == {m \in Mbufs : hdr[m] # NoHeader}

\* The mbufs in M leave: rte_pktmbuf_free, or the wire.
Leave(M) ==
  /\ hdr' = [m \in Mbufs |-> IF m \in M THEN NoHeader ELSE hdr[m]]
  /\ orig' = [m \in Mbufs |-> IF m \in M THEN NoHeader ELSE orig[m]]
  /\ before' = before \cap ((Mbufs \ M) \X (Mbufs \ M))

Init ==
  /\ io_pc = "rx" /\ io_frame = <<>> /\ arp = <<>>
  /\ ingress = [w \in Workers |-> <<>>] /\ egress = <<>>
  /\ in_frame = [w \in Workers |-> <<>>] /\ out_frame = [w \in Workers |-> <<>>]
  /\ flows = [w \in Workers |-> FM!NoFlows]
  /\ hdr = [m \in Mbufs |-> NoHeader] /\ orig = [m \in Mbufs |-> NoHeader]
  /\ before = {}

\* What rte_eth_rx_burst may return: mbufs from the pool.
Bursts ==
  {b \in UNION {[1 .. n -> Mbufs \ InUse] : n \in 0 .. kBurstSize} :
     \A i, j \in DOMAIN b : b[i] = b[j] => i = j}

\* The pairs of mbufs of s one of which is before the other.
Successive(s) ==
  {pr \in Elements(s) \X Elements(s) :
     \E i, j \in DOMAIN s : i < j /\ pr = <<s[i], s[j]>>}

\* RxNode.
IoRx ==
  /\ io_pc = "rx"
  /\ \E b \in Bursts : \E hs \in [Elements(b) -> Headers] :
       /\ io_frame' = b
       /\ hdr' = [m \in Mbufs |-> IF m \in Elements(b) THEN hs[m] ELSE hdr[m]]
       /\ orig' = [m \in Mbufs |-> IF m \in Elements(b) THEN hs[m] ELSE orig[m]]
       /\ before' = before \cup (InUse \X Elements(b)) \cup Successive(b)
  /\ io_pc' = "steer"
  /\ UNCHANGED <<arp, rings, workers>>

\* Mutant of Steer: the packet is not freed when the ring is full.
SteerLeak(m, w) ==
  IF Len(ingress[w]) < kRingSize
  THEN ingress' = [ingress EXCEPT ![w] = Append(@, m)] /\ UNCHANGED packets
  ELSE UNCHANGED <<packets, ingress>>

\* Mutant of Steer: a full ring takes one more.
SteerOver(m, w) ==
  IF Len(ingress[w]) <= kRingSize
  THEN ingress' = [ingress EXCEPT ![w] = Append(@, m)] /\ UNCHANGED packets
  ELSE Leave({m}) /\ UNCHANGED ingress

\* rte_ring_enqueue to a worker, or the packet is freed.
Steer(m, w) ==
  IF Len(ingress[w]) < kRingSize
  THEN ingress' = [ingress EXCEPT ![w] = Append(@, m)] /\ UNCHANGED packets
  ELSE Leave({m}) /\ UNCHANGED ingress

\* SteerNode on the next packet.
IoSteer ==
  /\ io_pc = "steer" /\ io_frame # <<>>
  /\ LET m == Head(io_frame)
         res == ClassifyForSteer(hdr[m])
     IN  \/ /\ res.cls = "kSteer" /\ Steer(m, res.worker)
            /\ UNCHANGED <<arp, egress>>
         \/ /\ res.cls = "kArp" /\ arp' = Append(arp, m)
            /\ UNCHANGED <<packets, rings>>
         \/ /\ res.cls = "kDrop" /\ Leave({m})
            /\ UNCHANGED <<arp, rings>>
  /\ io_frame' = Tail(io_frame)
  /\ UNCHANGED <<io_pc, workers>>

\* rte_ring_enqueue_burst: as many as fit.
Room == kEgressRingSize - Len(egress)

\* Mutant of Enqueue: before the packets that wait already.
EnqueueFirst(s) == egress' = Upto(s, Room) \o egress

Enqueue(s) == egress' = egress \o Upto(s, Room)

\* ArpNode turns requests into replies, DropNode frees the rest, RingTxNode
\* hands on what fits and frees what does not.
IoArp ==
  /\ io_pc = "steer" /\ io_frame = <<>>
  /\ \E replies \in Only(arp, {m \in Elements(arp) : Answers(hdr[m])}) :
       LET sent == Elements(Upto(replies, Room))
           gone == Elements(arp) \ sent
       IN  /\ Enqueue(replies)
           /\ hdr' = [m \in Mbufs |-> IF m \in gone THEN NoHeader
                                      ELSE IF m \in sent THEN BuildReply(hdr[m])
                                      ELSE hdr[m]]
           /\ orig' = [m \in Mbufs |-> IF m \in gone THEN NoHeader ELSE orig[m]]
           /\ before' = before \cap ((Mbufs \ gone) \X (Mbufs \ gone))
  /\ arp' = <<>> /\ io_pc' = "tx"
  /\ UNCHANGED <<io_frame, ingress, workers>>

\* The second graph of RunIo: RingRxNode takes a burst from the egress ring,
\* TxNode sends as many as the device takes and frees the rest.
IoTx ==
  /\ io_pc = "tx"
  /\ egress' = After(egress, kBurstSize)
  /\ Leave(Elements(Upto(egress, kBurstSize)))
  /\ io_pc' = "rx"
  /\ UNCHANGED <<io_frame, arp, ingress, workers>>

-----------------------------------------------------------------------------
(* A worker.                                                               *)

Idle(w) == in_frame[w] = <<>> /\ out_frame[w] = <<>>

\* The mbufs Ip4ParseNode sends to out.
Parsed(out) == {m \in InUse : Classify(hdr[m]) = out}

\* RingRxNode and Ip4ParseNode.  RouteInto appends the packets of kNextFwd
\* to LbNode's frame before those of kNextRev; the others go to DropNode.
WorkerRx(w) ==
  /\ Idle(w) /\ ingress[w] # <<>>
  /\ ingress' = [ingress EXCEPT ![w] = After(@, kBurstSize)]
  /\ LET burst == Upto(ingress[w], kBurstSize)
     IN  \E fwd \in Only(burst, Parsed("kNextFwd")), rev \in Only(burst, Parsed("kNextRev")) :
           /\ in_frame' = [in_frame EXCEPT ![w] = fwd \o rev]
           /\ Leave(Elements(burst) \ Elements(fwd \o rev))
  /\ UNCHANGED <<io, egress, out_frame, flows>>

\* LbNode sends packet m to DnatNode with flow e, or to DropNode.
Forwarded(w, m, e) ==
  /\ out_frame' = [out_frame EXCEPT ![w] = Append(@, m)]
  /\ LET dir == Classify(hdr[m])
     IN  hdr' = [hdr EXCEPT ![m] = EtherRewrite(Rewrite(@, dir, e), dir, e)]
  /\ UNCHANGED <<orig, before>>
Dropped(m) == Leave({m}) /\ UNCHANGED out_frame

\* Worker w's map becomes a member of M.
Becomes(w, M) == \E m \in M : flows' = [flows EXCEPT ![w] = m]

LbHit(w, m) ==
  \E f \in FM!Reaped(flows[w]) : \E e \in f.bound :
    /\ \/ Classify(hdr[m]) = "kNextFwd" /\ MatchesForward(e, hdr[m])
       \/ Classify(hdr[m]) = "kNextRev" /\ MatchesReverse(e, hdr[m])
    /\ Becomes(w, FM!Hit(f, e))
    /\ Forwarded(w, m, e)

\* No flow, no port, no room, no SYN, or no active backend.
LbRefuse(w, m) == Becomes(w, FM!Reaped(flows[w])) /\ Dropped(m)

\* Mutant of LbOpen: client_mac is not stored.
LbOpenNoMac(w, m) ==
  /\ Classify(hdr[m]) = "kNextFwd"
  /\ \E f \in FM!Reaped(flows[w]), b \in Backends, p \in PortsOf(w) :
       LET e == [key |-> KeyOf(hdr[m]), b |-> b, port |-> p, client_mac |-> self_mac] IN
       /\ \A d \in f.bound : d.key # e.key
       /\ FM!Fresh(f, e)
       /\ \E v \in FM!Evicted(f) : Becomes(w, FM!Opened(v, e))
       /\ Forwarded(w, m, e)

LbOpen(w, m) ==
  /\ Classify(hdr[m]) = "kNextFwd"
  /\ \E f \in FM!Reaped(flows[w]), b \in Backends, p \in PortsOf(w) :
       LET e == [key |-> KeyOf(hdr[m]), b |-> b, port |-> p,
                 client_mac |-> hdr[m].smac] IN
       /\ \A d \in f.bound : d.key # e.key
       /\ FM!Fresh(f, e)
       /\ \E v \in FM!Evicted(f) : Becomes(w, FM!Opened(v, e))
       /\ Forwarded(w, m, e)

\* LbNode, DnatNode and EtherRewriteNode on the next packet.
WorkerLb(w) ==
  /\ in_frame[w] # <<>>
  /\ LET m == Head(in_frame[w]) IN LbHit(w, m) \/ LbRefuse(w, m) \/ LbOpen(w, m)
  /\ in_frame' = [in_frame EXCEPT ![w] = Tail(@)]
  /\ UNCHANGED <<io, rings>>

\* RingTxNode: what does not fit is freed.
WorkerTx(w) ==
  /\ in_frame[w] = <<>> /\ out_frame[w] # <<>>
  /\ Enqueue(out_frame[w])
  /\ Leave(Elements(After(out_frame[w], Room)))
  /\ out_frame' = [out_frame EXCEPT ![w] = <<>>]
  /\ UNCHANGED <<io, ingress, in_frame, flows>>

Io == IoRx \/ IoSteer \/ IoArp \/ IoTx
Worker(w) == WorkerRx(w) \/ WorkerLb(w) \/ WorkerTx(w)
Next == Io \/ \E w \in Workers : Worker(w)

Spec == Init /\ [][Next]_vars

-----------------------------------------------------------------------------
(* Properties.                                                             *)

\* Every variable keeps its type and no ring or frame overflows.
TypeOK ==
  /\ io_pc \in {"rx", "steer", "tx"}
  /\ {io_frame, arp, egress} \subseteq Seq(Mbufs)
  /\ {ingress, in_frame, out_frame} \subseteq [Workers -> Seq(Mbufs)]
  /\ Len(io_frame) + Len(arp) <= kBurstSize /\ Len(egress) <= kEgressRingSize
  /\ \A w \in Workers : /\ Len(ingress[w]) <= kRingSize
                        /\ Len(in_frame[w]) + Len(out_frame[w]) <= kBurstSize
                        /\ flows[w].bound \cup flows[w].parked \subseteq Flow
  /\ hdr \in [Mbufs -> Headers \cup IpHeader \cup ArpHeader \cup {NoHeader}]
  /\ orig \in [Mbufs -> Headers \cup {NoHeader}]
  /\ before \subseteq Mbufs \X Mbufs

\* The frames and rings, and where mbuf m is.
Places == ({"io", "arp", "egress"} \X {0}) \cup ({"ingress", "in", "out"} \X Workers)
Frame(pl) ==
  IF pl[1] = "io" THEN io_frame
  ELSE IF pl[1] = "arp" THEN arp
  ELSE IF pl[1] = "egress" THEN egress
  ELSE IF pl[1] = "ingress" THEN ingress[pl[2]]
  ELSE IF pl[1] = "in" THEN in_frame[pl[2]] ELSE out_frame[pl[2]]
PlacesOf(m) ==
  UNION {{<<pl, i>> : i \in {i \in DOMAIN Frame(pl) : Frame(pl)[i] = m}} : pl \in Places}

\* An mbuf the device handed out is in one frame or ring until it is sent or
\* freed, whatever is full on its way: none is in two places, which would
\* free it twice, and none in no place, which would drain the pool.
MbufConservation ==
  \A m \in Mbufs : Cardinality(PlacesOf(m)) = IF m \in InUse THEN 1 ELSE 0

\* The answer of the backend of flow e.
ReplyTo(e) ==
  [type |-> "ipv4", proto |-> e.key.proto, src |-> Backend[e.b],
   dst |-> <<self_ip, e.port>>, smac |-> BackendMac[e.b], dmac |-> self_mac]

\* "symmetric port allocation guarantees the reverse packet lands back on the
\* same worker" (docs/index.md): the reply to a flow is steered to the worker
\* that has the flow, is parsed as a reply there, matches that flow alone
\* among those of all workers, and leaves as the VIP's answer to the client.
RoundTrip ==
  \A w \in Workers : \A e \in flows[w].bound :
    LET r == ReplyTo(e) IN
    /\ ClassifyForSteer(r) = [cls |-> "kSteer", worker |-> w]
    /\ Classify(r) = "kNextRev"
    /\ \A v \in Workers : \A d \in flows[v].bound :
         MatchesReverse(d, r) => v = w /\ d = e
    /\ Rewrite(r, "kNextRev", e).src = Vip
    /\ Rewrite(r, "kNextRev", e).dst = e.key.src

\* The MAC addresses from which client c sends to the VIP.
ClientMacs(c) == {h.smac : h \in {g \in Headers : g.type = "ipv4" /\ g.dst = Vip /\ g.src = c}}

\* What waits to be sent: no client address reaches a backend and no backend
\* address reaches a client.  A reply goes to a MAC address its own client
\* sends from, whatever flows were opened, closed and reaped between the
\* request that left it in the flow and the reply, and a request leaves with
\* a source port whose replies go to the worker that handled it.
CleanWire ==
  \A m \in Elements(egress) \cup UNION {Elements(out_frame[w]) : w \in Workers} :
    LET h == hdr[m] IN
    /\ h.smac = self_mac
    /\ \/ h.type = "arp" /\ h.op = "reply" /\ h.dmac = orig[m].smac
       \/ /\ h.type = "ipv4"
          /\ \/ /\ Classify(orig[m]) = "kNextFwd" /\ h.src[1] = self_ip
                /\ \E b \in Backends : h.dst = Backend[b] /\ h.dmac = BackendMac[b]
                /\ h.src[2] % NWorkers = ClassifyForSteer(orig[m]).worker
             \/ /\ Classify(orig[m]) = "kNextRev" /\ h.src = Vip
                /\ h.dst \in Clients /\ h.dmac \in ClientMacs(h.dst)

\* How far a place is from the wire.
Stage(pl) ==
  IF pl[1] = "io" THEN 4
  ELSE IF pl[1] = "ingress" THEN 3
  ELSE IF pl[1] \in {"in", "arp"} THEN 2
  ELSE IF pl[1] = "out" THEN 1 ELSE 0

\* Packets with the same addresses, ports and protocol never overtake each
\* other: bursts, rings, LbNode's merged frame and the lcores that race for
\* the egress ring keep them in the order of their arrival.
FlowOrder ==
  \A pl, ql \in Places : \A i \in DOMAIN Frame(pl), j \in DOMAIN Frame(ql) :
    /\ Stage(pl) < Stage(ql) \/ (pl = ql /\ i < j)
    /\ orig[Frame(pl)[i]] = orig[Frame(ql)[j]]
    => <<Frame(pl)[i], Frame(ql)[j]>> \in before
=============================================================================
