------------------------- MODULE DistributorProofs --------------------------
(***************************************************************************)
(* The distributor for every number of workers, mbufs, clients and         *)
(* backends and every size of rings and bursts: replies return to the      *)
(* worker of their flow, no mbuf is lost or in two places, nothing         *)
(* untranslated is sent, and packets of a flow stay in order.              *)
(***************************************************************************)
EXTENDS Distributor, FiniteSetTheorems, SequenceTheorems, TLAPS

-----------------------------------------------------------------------------
(* The maps of the workers.                                                *)

\* Map f has entries of worker w only, each with a tuple of its own.
GoodMap(f, w) ==
  /\ \A e \in f.bound \cup f.parked :
       e.b \in Backends /\ e.port \in PortsOf(w) /\ e.key.proto \in L4
  /\ \A d, e \in f.bound \cup f.parked : d.b = e.b /\ d.port = e.port => d = e

FlowsInv == DOMAIN flows = Workers /\ \A w \in Workers : GoodMap(flows[w], w)

LEMMA ReapedGood ==
  ASSUME NEW f, NEW w, GoodMap(f, w), NEW g \in FM!Reaped(f)
  PROVE  GoodMap(g, w) /\ g.bound \subseteq f.bound
                       /\ g.bound \cup g.parked = f.bound \cup f.parked
<1>1. PICK R \in SUBSET f.bound : g = [bound |-> f.bound \ R, parked |-> f.parked \cup R]
  BY DEF FM!Reaped
<1>2. g.bound \cup g.parked = f.bound \cup f.parked /\ g.bound \subseteq f.bound
  BY <1>1
<1>3. QED BY <1>2 DEF GoodMap

LEMMA SmallerGood ==
  ASSUME NEW f, NEW w, GoodMap(f, w), NEW g,
         g.bound \subseteq f.bound, g.parked \subseteq f.parked
  PROVE  GoodMap(g, w)
BY DEF GoodMap

LEMMA HitGood ==
  ASSUME NEW f, NEW w, GoodMap(f, w), NEW e, NEW g \in FM!Hit(f, e)
  PROVE  GoodMap(g, w) /\ g.bound \subseteq f.bound /\ g.parked \subseteq f.parked
<1>1. g.bound \subseteq f.bound /\ g.parked \subseteq f.parked
  BY DEF FM!Hit
<1>2. QED BY <1>1, SmallerGood

LEMMA OpenGood ==
  ASSUME NEW f, NEW w, GoodMap(f, w), NEW e, e.b \in Backends, e.port \in PortsOf(w),
         e.key.proto \in L4, FM!Fresh(f, e), NEW v \in FM!Evicted(f),
         NEW g \in FM!Opened(v, e)
  PROVE  GoodMap(g, w) /\ g.bound \subseteq f.bound \cup {e} /\ g.parked \subseteq f.parked
<1>1. v.bound \subseteq f.bound /\ v.parked \subseteq f.parked
  BY DEF FM!Evicted
<1>2. g.bound \subseteq f.bound \cup {e} /\ g.parked \subseteq f.parked
  BY <1>1 DEF FM!Opened
<1>3. \A d \in f.bound \cup f.parked : ~(d.b = e.b /\ d.port = e.port)
  BY DEF FM!Fresh
<1>4. QED BY <1>2, <1>3 DEF GoodMap

\* What Ip4ParseNode has seen of a packet it sends to LbNode.
LEMMA ParsedFacts ==
  ASSUME NEW h
  PROVE  /\ Classify(h) = "kNextFwd" => h.type = "ipv4" /\ h.proto \in L4 /\ h.dst = Vip
         /\ Classify(h) = "kNextRev" => /\ h.type = "ipv4" /\ h.proto \in L4
                                        /\ h.dst # Vip /\ h.dst[1] = self_ip
BY DEF Classify

\* What each packet does to a worker's map.
LEMMA FlowsStep ==
  ASSUME FlowsInv, [Next]_vars
  PROVE  FlowsInv'
<1>a. ASSUME NEW w \in Workers, NEW g, flows' = [flows EXCEPT ![w] = g], GoodMap(g, w)
      PROVE  FlowsInv'
  BY <1>a DEF FlowsInv
<1>1. ASSUME NEW w \in Workers, NEW m, LbHit(w, m)
      PROVE  FlowsInv'
  <2>1. PICK f \in FM!Reaped(flows[w]) : \E e \in f.bound : Becomes(w, FM!Hit(f, e))
    BY <1>1 DEF LbHit
  <2>e. PICK e \in f.bound : Becomes(w, FM!Hit(f, e))
    BY <2>1
  <2>2. PICK g \in FM!Hit(f, e) : flows' = [flows EXCEPT ![w] = g]
    BY <2>e DEF Becomes
  <2>3. GoodMap(g, w)
    BY ReapedGood, HitGood DEF FlowsInv
  <2>4. QED BY <2>2, <2>3, <1>a
<1>2. ASSUME NEW w \in Workers, NEW m, LbRefuse(w, m)
      PROVE  FlowsInv'
  <2>1. PICK g \in FM!Reaped(flows[w]) : flows' = [flows EXCEPT ![w] = g]
    BY <1>2 DEF LbRefuse, Becomes
  <2>2. GoodMap(g, w)
    BY ReapedGood DEF FlowsInv
  <2>3. QED BY <2>1, <2>2, <1>a
<1>3. ASSUME NEW w \in Workers, NEW m, LbOpen(w, m)
      PROVE  FlowsInv'
  <2>1. PICK f \in FM!Reaped(flows[w]), b \in Backends, p \in PortsOf(w) :
          LET e == [key |-> KeyOf(hdr[m]), b |-> b, port |-> p,
                    client_mac |-> hdr[m].smac] IN
          /\ FM!Fresh(f, e)
          /\ \E v \in FM!Evicted(f) : Becomes(w, FM!Opened(v, e))
    BY <1>3 DEF LbOpen
  <2> DEFINE e == [key |-> KeyOf(hdr[m]), b |-> b, port |-> p, client_mac |-> hdr[m].smac]
  <2>2. e.b \in Backends /\ e.port \in PortsOf(w) /\ e.key.proto \in L4
    BY <1>3, ParsedFacts DEF LbOpen, KeyOf
  <2>3. FM!Fresh(f, e)
    BY <2>1
  <2>4. PICK v \in FM!Evicted(f) : Becomes(w, FM!Opened(v, e))
    BY <2>1
  <2>5. PICK g \in FM!Opened(v, e) : flows' = [flows EXCEPT ![w] = g]
    BY <2>4 DEF Becomes
  <2> HIDE DEF e
  <2>6. GoodMap(g, w)
    BY <2>2, <2>3, ReapedGood, OpenGood DEF FlowsInv
  <2>7. QED BY <2>5, <2>6, <1>a
<1>4. CASE UNCHANGED flows
  BY <1>4 DEF FlowsInv
<1>5. QED BY <1>1, <1>2, <1>3, <1>4
  DEF Next, vars, workers, Io, IoRx, IoSteer, IoArp, IoTx, Worker, WorkerRx, WorkerLb,
      WorkerTx

LEMMA FlowsInvHolds == Spec => []FlowsInv
<1>1. Init => FlowsInv
  BY DEF Init, FlowsInv, GoodMap, FM!NoFlows
<1>2. FlowsInv /\ [Next]_vars => FlowsInv'
  BY FlowsStep
<1>3. QED BY <1>1, <1>2, PTL DEF Spec

\* "symmetric port allocation guarantees the reverse packet lands back on the
\* same worker", for every number of workers and every port range: the reply
\* to any flow is steered to the worker that has it, matches it alone among
\* the flows of all workers, and leaves as the VIP's answer to its client.
THEOREM RepliesReturn == Spec => []RoundTrip
<1>1. ASSUME FlowsInv, NEW w \in Workers, NEW e \in flows[w].bound
      PROVE  LET r == ReplyTo(e) IN
             /\ ClassifyForSteer(r) = [cls |-> "kSteer", worker |-> w]
             /\ Classify(r) = "kNextRev"
             /\ \A v \in Workers : \A d \in flows[v].bound :
                  MatchesReverse(d, r) => v = w /\ d = e
             /\ Rewrite(r, "kNextRev", e).src = Vip
             /\ Rewrite(r, "kNextRev", e).dst = e.key.src
  <2> DEFINE r == ReplyTo(e)
  <2>1. /\ e.b \in Backends /\ e.port \in Low .. High /\ e.port % NWorkers = w
        /\ e.key.proto \in L4
    BY <1>1 DEF FlowsInv, GoodMap, PortsOf
  <2>2. /\ r.type = "ipv4" /\ r.proto = e.key.proto /\ r.src = Backend[e.b]
        /\ r.dst = <<self_ip, e.port>> /\ r.dst[1] = self_ip /\ r.dst[2] = e.port
    BY DEF ReplyTo
  <2>3. r.dst # Vip
    BY <2>1, <2>2, AddressAssumption DEF Vip
  <2>4. /\ Rewrite(r, "kNextRev", e).src = Vip
        /\ Rewrite(r, "kNextRev", e).dst = e.key.src
    BY DEF Rewrite, Between, ReplyTo
  <2> HIDE DEF r
  <2>5. ClassifyForSteer(r) = [cls |-> "kSteer", worker |-> w] /\ Classify(r) = "kNextRev"
    BY <2>1, <2>2, <2>3 DEF ClassifyForSteer, Classify
  <2>6. ASSUME NEW v \in Workers, NEW d \in flows[v].bound, MatchesReverse(d, r)
        PROVE  v = w /\ d = e
    <3>1. /\ d.b \in Backends /\ d.port \in Low .. High /\ d.port % NWorkers = v
      BY <1>1, <2>6 DEF FlowsInv, GoodMap, PortsOf
    <3>2. d.b = e.b /\ d.port = e.port
      BY <2>1, <2>2, <2>6, <3>1, AddressAssumption DEF MatchesReverse
    <3>3. v = w
      BY <2>1, <3>1, <3>2
    <3>4. QED BY <1>1, <2>6, <3>2, <3>3 DEF FlowsInv, GoodMap
  <2>7. QED BY <2>4, <2>5, <2>6 DEF r
<1>2. FlowsInv => RoundTrip
  BY <1>1 DEF RoundTrip
<1>3. QED BY <1>2, FlowsInvHolds, PTL

-----------------------------------------------------------------------------
(* Sequences of mbufs.                                                     *)

LEMMA UptoFacts ==
  ASSUME NEW s \in Seq(Mbufs), NEW n \in Nat
  PROVE  /\ Upto(s, n) \in Seq(Mbufs)
         /\ Len(Upto(s, n)) = Lesser(n, Len(s))
         /\ Len(Upto(s, n)) <= n /\ Len(Upto(s, n)) <= Len(s)
         /\ \A i \in 1 .. Len(Upto(s, n)) : Upto(s, n)[i] = s[i]
<1>1. Lesser(n, Len(s)) \in 0 .. Len(s) /\ Lesser(n, Len(s)) <= n
  BY DEF Lesser
<1>2. \A i \in 1 .. Lesser(n, Len(s)) : s[i] \in Mbufs
  BY <1>1, ElementOfSeq
<1>3. /\ SubSeq(s, 1, Lesser(n, Len(s))) \in Seq(Mbufs)
      /\ Len(SubSeq(s, 1, Lesser(n, Len(s)))) = Lesser(n, Len(s))
      /\ \A i \in 1 .. Lesser(n, Len(s)) : SubSeq(s, 1, Lesser(n, Len(s)))[i] = s[i]
  BY <1>1, <1>2, SubSeqProperties
<1>4. QED BY <1>1, <1>3 DEF Upto

LEMMA AfterFacts ==
  ASSUME NEW s \in Seq(Mbufs), NEW n \in Nat
  PROVE  /\ After(s, n) \in Seq(Mbufs)
         /\ Len(After(s, n)) = Len(s) - Lesser(n, Len(s))
         /\ \A i \in 1 .. Len(After(s, n)) : After(s, n)[i] = s[i + Lesser(n, Len(s))]
<1>1. Len(s) \in Nat
  OBVIOUS
<1>2. \A i \in n + 1 .. Len(s) : s[i] \in Mbufs
  BY <1>1, ElementOfSeq
<1>3. /\ SubSeq(s, n + 1, Len(s)) \in Seq(Mbufs)
      /\ Len(SubSeq(s, n + 1, Len(s))) = IF n + 1 <= Len(s) THEN Len(s) - (n + 1) + 1 ELSE 0
      /\ \A i \in 1 .. Len(s) - (n + 1) + 1 : SubSeq(s, n + 1, Len(s))[i] = s[n + 1 + i - 1]
  BY <1>1, <1>2, SubSeqProperties
<1>4. CASE n < Len(s)
  BY <1>1, <1>3, <1>4 DEF After, Lesser
<1>5. CASE ~(n < Len(s))
  BY <1>1, <1>3, <1>5 DEF After, Lesser
<1>6. QED BY <1>4, <1>5

Picked(s, M) == {i \in 1 .. Len(s) : s[i] \in M}

\* What is left of s when the mbufs outside M are taken out: its members, each
\* from a place of its own, in the order of s.
LEMMA OnlyFacts ==
  ASSUME NEW s \in Seq(Mbufs), NEW M, NEW q \in Only(s, M)
  PROVE  /\ q \in Seq(Mbufs)
         /\ IsFiniteSet(Picked(s, M)) /\ Len(q) = Cardinality(Picked(s, M)) /\ Cardinality(Picked(s, M)) <= Len(s)
         /\ \E f \in [1 .. Len(q) -> Picked(s, M)] :
              /\ \A i, j \in 1 .. Len(q) : i < j => f[i] < f[j]
              /\ \A k \in Picked(s, M) : \E i \in 1 .. Len(q) : f[i] = k
              /\ \A i \in 1 .. Len(q) : q[i] = s[f[i]]
<1> DEFINE I == {i \in 1 .. Len(s) : s[i] \in M}
           n == Cardinality(I)
<1>1. DOMAIN s = 1 .. Len(s) /\ Len(s) \in Nat
  BY LenProperties
<1>2. IsFiniteSet(I) /\ n \in Nat /\ n <= Len(s)
  <2>1. IsFiniteSet(1 .. Len(s)) /\ Cardinality(1 .. Len(s)) = Len(s)
    BY <1>1, FS_Interval
  <2>2. IsFiniteSet(I) /\ Cardinality(I) <= Cardinality(1 .. Len(s))
    BY <2>1, FS_Subset
  <2>3. QED BY <2>1, <2>2, FS_CardinalityType
<1>3. PICK f \in [1 .. n -> I] : /\ \A i, j \in 1 .. n : i < j => f[i] < f[j]
                                 /\ q = [i \in 1 .. n |-> s[f[i]]]
  BY <1>1 DEF Only
<1>4. \A k \in I : \E i \in 1 .. n : f[i] = k
  <2>1. f \in Injection(1 .. n, I)
    <3>1. \A i, j \in 1 .. n : f[i] = f[j] => i = j
      <4>1. ASSUME NEW i \in 1 .. n, NEW j \in 1 .. n, f[i] = f[j] PROVE i = j
        <5>1. f[i] \in Nat /\ f[j] \in Nat /\ i \in Nat /\ j \in Nat
          <6>1. f[i] \in 1 .. Len(s) /\ f[j] \in 1 .. Len(s)
            BY <1>3
          <6>2. QED BY <1>1, <1>2, <6>1
        <5>2. ~(i < j) /\ ~(j < i)
          BY <1>3, <4>1, <5>1
        <5>3. QED BY <5>1, <5>2
      <4>2. QED BY <4>1
    <3>2. f \in [1 .. n -> I]
      BY <1>3
    <3> HIDE DEF n, I
    <3>3. QED BY <3>1, <3>2 DEF Injection, IsInjective
  <2>2. IsFiniteSet(1 .. n) /\ Cardinality(1 .. n) = n
    BY <1>2, FS_Interval
  <2>3. f \in Surjection(1 .. n, I)
    BY <1>2, <2>1, <2>2, FS_Injection
  <2>4. QED BY <2>3 DEF Surjection
<1>5. q \in Seq(Mbufs) /\ Len(q) = n
  <2>1. \A i \in 1 .. n : s[f[i]] \in Mbufs
    BY <1>3, ElementOfSeq
  <2>2. QED BY <1>2, <1>3, <2>1
<1> HIDE DEF I
<1>6. I = Picked(s, M)
  BY DEF I, Picked
<1>7. QED BY <1>2, <1>3, <1>4, <1>5, <1>6

Distinct(s) == \A i, j \in 1 .. Len(s) : s[i] = s[j] => i = j

LEMMA OnlyKeeps ==
  ASSUME NEW s \in Seq(Mbufs), NEW M, NEW q \in Only(s, M)
  PROVE  /\ q \in Seq(Mbufs) /\ Len(q) <= Len(s)
         /\ \A i \in 1 .. Len(q) : q[i] \in M /\ \E k \in 1 .. Len(s) : q[i] = s[k]
         /\ \A k \in 1 .. Len(s) : s[k] \in M => \E i \in 1 .. Len(q) : q[i] = s[k]
         /\ \A i, j \in 1 .. Len(q) :
              i < j => \E k, l \in 1 .. Len(s) : k < l /\ q[i] = s[k] /\ q[j] = s[l]
         /\ Distinct(s) => Distinct(q)
<1> DEFINE I == Picked(s, M)
<1>0. /\ q \in Seq(Mbufs)
      /\ Len(q) = Cardinality(I) /\ Cardinality(I) <= Len(s)
      /\ \E f \in [1 .. Len(q) -> I] :
              /\ \A i, j \in 1 .. Len(q) : i < j => f[i] < f[j]
              /\ \A k \in I : \E i \in 1 .. Len(q) : f[i] = k
              /\ \A i \in 1 .. Len(q) : q[i] = s[f[i]]
  BY OnlyFacts
<1>1. q \in Seq(Mbufs) /\ Len(q) \in Nat /\ Len(s) \in Nat /\ Len(q) <= Len(s)
  BY <1>0
<1>2. PICK f \in [1 .. Len(q) -> I] :
              /\ \A i, j \in 1 .. Len(q) : i < j => f[i] < f[j]
              /\ \A k \in I : \E i \in 1 .. Len(q) : f[i] = k
              /\ \A i \in 1 .. Len(q) : q[i] = s[f[i]]
  BY <1>0
<1>3. \A i \in 1 .. Len(q) : f[i] \in 1 .. Len(s) /\ s[f[i]] \in M
  BY <1>2 DEF Picked
<1>4. \A k \in 1 .. Len(s) : s[k] \in M => \E i \in 1 .. Len(q) : q[i] = s[k]
  <2>1. SUFFICES ASSUME NEW k \in 1 .. Len(s), s[k] \in M
                 PROVE  \E i \in 1 .. Len(q) : q[i] = s[k]
    OBVIOUS
  <2>2. k \in I
    BY <2>1 DEF Picked
  <2>3. QED BY <1>2, <2>2
<1> HIDE DEF I
<1>5. Distinct(s) => Distinct(q)
  <2>1. SUFFICES ASSUME Distinct(s), NEW i \in 1 .. Len(q), NEW j \in 1 .. Len(q), q[i] = q[j]
                 PROVE  i = j
    BY DEF Distinct
  <2>2. f[i] = f[j]
    BY <1>2, <1>3, <2>1 DEF Distinct
  <2>3. f[i] \in Nat /\ f[j] \in Nat /\ i \in Nat /\ j \in Nat
    BY <1>1, <1>3
  <2>4. ~(i < j) /\ ~(j < i)
    BY <1>2, <2>2, <2>3
  <2>5. QED BY <2>3, <2>4
<1>6. \A i, j \in 1 .. Len(q) :
        i < j => \E k, l \in 1 .. Len(s) : k < l /\ q[i] = s[k] /\ q[j] = s[l]
  BY <1>2, <1>3
<1>7. \A i \in 1 .. Len(q) : q[i] \in M /\ \E k \in 1 .. Len(s) : q[i] = s[k]
  BY <1>2, <1>3
<1>8. QED BY <1>1, <1>4, <1>5, <1>6, <1>7

-----------------------------------------------------------------------------
(* Frames and rings together: a layout gives each place its sequence.      *)

Layouts == [Places -> Seq(Mbufs)]

\* No mbuf is in two positions; the mbufs that are in some position.
OnePlace(f) ==
  \A pl, ql \in Places : \A i \in 1 .. Len(f[pl]), j \in 1 .. Len(f[ql]) :
    f[pl][i] = f[ql][j] => pl = ql /\ i = j
Found(f) == {m \in Mbufs : \E pl \in Places : \E i \in 1 .. Len(f[pl]) : f[pl][i] = m}

\* Packets that arrived with the same headers o are in the order B.
Ordered(f, o, B) ==
  \A pl, ql \in Places : \A i \in 1 .. Len(f[pl]), j \in 1 .. Len(f[ql]) :
    /\ Stage(pl) < Stage(ql) \/ (pl = ql /\ i < j)
    /\ o[f[pl][i]] = o[f[ql][j]]
    => <<f[pl][i], f[ql][j]>> \in B

\* Place a loses its first k entries; some of them, q, go to the end of b.
Moves(f, g, a, b, k, q) ==
  /\ a \in Places /\ b \in Places /\ a # b
  /\ k \in 0 .. Len(f[a])
  /\ q \in Seq(Mbufs) /\ Distinct(q)
  /\ \A i \in 1 .. Len(q) : \E l \in 1 .. k : q[i] = f[a][l]
  /\ Len(g[a]) = Len(f[a]) - k
  /\ \A i \in 1 .. Len(g[a]) : g[a][i] = f[a][i + k]
  /\ Len(g[b]) = Len(f[b]) + Len(q)
  /\ \A i \in 1 .. Len(f[b]) : g[b][i] = f[b][i]
  /\ \A i \in 1 .. Len(q) : g[b][Len(f[b]) + i] = q[i]
  /\ \A c \in Places \ {a, b} : g[c] = f[c]

\* The mbufs that leave.
Lost(f, a, k, q) ==
  {m \in Mbufs : /\ \E l \in 1 .. k : f[a][l] = m
                 /\ \A i \in 1 .. Len(q) : q[i] # m}

\* Where the entry at position i of place pl comes from.
LEMMA MovesSource ==
  ASSUME NEW f \in Layouts, NEW g \in Layouts, NEW a, NEW b, NEW k, NEW q,
         Moves(f, g, a, b, k, q), NEW pl \in Places, NEW i \in 1 .. Len(g[pl])
  PROVE  \/ pl # a /\ i \in 1 .. Len(f[pl]) /\ g[pl][i] = f[pl][i]
         \/ pl = a /\ i + k \in 1 .. Len(f[a]) /\ g[pl][i] = f[a][i + k]
         \/ /\ pl = b /\ i - Len(f[b]) \in 1 .. Len(q)
            /\ g[pl][i] = q[i - Len(f[b])]
            /\ \E l \in 1 .. k : q[i - Len(f[b])] = f[a][l]
<1>1. a \in Places /\ b \in Places /\ a # b /\ q \in Seq(Mbufs)
  BY DEF Moves
<1>2. /\ Len(f[pl]) \in Nat /\ Len(g[pl]) \in Nat /\ Len(f[a]) \in Nat
      /\ Len(f[b]) \in Nat /\ Len(q) \in Nat
  <2>1. f[pl] \in Seq(Mbufs) /\ g[pl] \in Seq(Mbufs) /\ f[a] \in Seq(Mbufs) /\ f[b] \in Seq(Mbufs)
    BY <1>1 DEF Layouts
  <2>2. QED BY <1>1, <2>1
<1>3. k \in Nat /\ i \in Nat /\ i >= 1 /\ k <= Len(f[a])
  BY <1>2 DEF Moves
<1>4. CASE pl = a
  <2>1. Len(g[a]) = Len(f[a]) - k /\ g[a][i] = f[a][i + k]
    BY <1>4 DEF Moves
  <2>2. QED BY <1>2, <1>3, <1>4, <2>1
<1>5. CASE pl = b
  <2>1. Len(g[b]) = Len(f[b]) + Len(q)
    BY DEF Moves
  <2>2. CASE i <= Len(f[b])
    BY <1>1, <1>2, <1>3, <1>5, <2>2 DEF Moves
  <2>3. CASE i > Len(f[b])
    <3>1. i - Len(f[b]) \in 1 .. Len(q) /\ Len(f[b]) + (i - Len(f[b])) = i
      BY <1>2, <1>3, <1>5, <2>1, <2>3
    <3>2. g[b][Len(f[b]) + (i - Len(f[b]))] = q[i - Len(f[b])]
      BY <3>1 DEF Moves
    <3>3. \E l \in 1 .. k : q[i - Len(f[b])] = f[a][l]
      BY <3>1 DEF Moves
    <3>4. QED BY <1>5, <3>1, <3>2, <3>3
  <2>4. QED BY <1>2, <1>3, <2>2, <2>3
<1>6. CASE pl # a /\ pl # b
  <2>1. g[pl] = f[pl]
    BY <1>6 DEF Moves
  <2>2. QED BY <1>6, <2>1
<1>7. QED BY <1>4, <1>5, <1>6

LEMMA MovesOnePlace ==
  ASSUME NEW f \in Layouts, NEW g \in Layouts, NEW a, NEW b, NEW k, NEW q,
         Moves(f, g, a, b, k, q), OnePlace(f)
  PROVE  OnePlace(g)
<1>1. SUFFICES ASSUME NEW pl \in Places, NEW ql \in Places, NEW i \in 1 .. Len(g[pl]),
                      NEW j \in 1 .. Len(g[ql]), g[pl][i] = g[ql][j]
               PROVE  pl = ql /\ i = j
  BY DEF OnePlace
<1>2. /\ a \in Places /\ b \in Places /\ a # b /\ Distinct(q)
      /\ k \in 0 .. Len(f[a])
  BY DEF Moves
<1>3. /\ k \in Nat /\ Len(f[a]) \in Nat /\ k <= Len(f[a]) /\ Len(f[b]) \in Nat
      /\ i \in Int /\ j \in Int
  <2>1. f[a] \in Seq(Mbufs) /\ f[b] \in Seq(Mbufs)
    BY <1>2 DEF Layouts
  <2>2. Len(f[a]) \in Nat /\ Len(f[b]) \in Nat
    BY <2>1
  <2>3. QED BY <1>2, <2>2
<1>l. \A l \in 1 .. k : l \in 1 .. Len(f[a]) /\ l <= k
  BY <1>3
<1>a. \A l \in 1 .. k : \A cl \in Places : \A n \in 1 .. Len(f[cl]) :
        f[a][l] = f[cl][n] => cl = a /\ n = l
  BY <1>2, <1>l DEF OnePlace
<1>x. \/ pl # a /\ i \in 1 .. Len(f[pl]) /\ g[pl][i] = f[pl][i]
      \/ pl = a /\ i + k \in 1 .. Len(f[a]) /\ g[pl][i] = f[a][i + k]
      \/ /\ pl = b /\ i - Len(f[b]) \in 1 .. Len(q)
         /\ g[pl][i] = q[i - Len(f[b])]
         /\ \E l \in 1 .. k : q[i - Len(f[b])] = f[a][l]
  BY MovesSource
<1>y. \/ ql # a /\ j \in 1 .. Len(f[ql]) /\ g[ql][j] = f[ql][j]
      \/ ql = a /\ j + k \in 1 .. Len(f[a]) /\ g[ql][j] = f[a][j + k]
      \/ /\ ql = b /\ j - Len(f[b]) \in 1 .. Len(q)
         /\ g[ql][j] = q[j - Len(f[b])]
         /\ \E l \in 1 .. k : q[j - Len(f[b])] = f[a][l]
  BY MovesSource
<1>b. CASE pl # a /\ i \in 1 .. Len(f[pl]) /\ g[pl][i] = f[pl][i]
  <2>1. CASE ql # a /\ j \in 1 .. Len(f[ql]) /\ g[ql][j] = f[ql][j]
    <3>1. f[pl][i] = f[ql][j]
      BY <1>1, <1>b, <2>1
    <3>2. QED BY <1>b, <2>1, <3>1 DEF OnePlace
  <2>2. CASE ql = a /\ j + k \in 1 .. Len(f[a]) /\ g[ql][j] = f[a][j + k]
    <3>1. f[pl][i] = f[a][j + k]
      BY <1>1, <1>b, <2>2
    <3>2. \A n \in 1 .. Len(f[a]) : f[pl][i] = f[a][n] => pl = a
      BY <1>2, <1>b DEF OnePlace
    <3>3. QED BY <1>b, <2>2, <3>1, <3>2
  <2>3. CASE ql = b /\ \E l \in 1 .. k : g[ql][j] = f[a][l]
    BY <1>1, <1>a, <1>b, <2>3
  <2>4. QED BY <1>y, <2>1, <2>2, <2>3
<1>c. CASE pl = a /\ i + k \in 1 .. Len(f[a]) /\ g[pl][i] = f[a][i + k]
  <2>1. CASE ql # a /\ j \in 1 .. Len(f[ql]) /\ g[ql][j] = f[ql][j]
    <3>1. f[ql][j] = f[a][i + k]
      BY <1>1, <1>c, <2>1
    <3>2. \A n \in 1 .. Len(f[a]) : f[ql][j] = f[a][n] => ql = a
      BY <1>2, <2>1 DEF OnePlace
    <3>3. QED BY <1>c, <2>1, <3>1, <3>2
  <2>2. CASE ql = a /\ j + k \in 1 .. Len(f[a]) /\ g[ql][j] = f[a][j + k]
    <3>1. i + k = j + k
      BY <1>1, <1>2, <1>c, <2>2 DEF OnePlace
    <3>2. QED BY <1>3, <1>c, <2>2, <3>1
  <2>3. CASE ql = b /\ \E l \in 1 .. k : g[ql][j] = f[a][l]
    <3>1. PICK l \in 1 .. k : g[ql][j] = f[a][l]
      BY <2>3
    <3>2. i + k = l
      BY <1>1, <1>2, <1>a, <1>c, <3>1
    <3>3. QED BY <1>3, <1>l, <3>2
  <2>4. QED BY <1>y, <2>1, <2>2, <2>3
<1>d. CASE /\ pl = b /\ i - Len(f[b]) \in 1 .. Len(q)
           /\ g[pl][i] = q[i - Len(f[b])]
           /\ \E l \in 1 .. k : q[i - Len(f[b])] = f[a][l]
  <2>0. PICK l \in 1 .. k : g[pl][i] = f[a][l]
    BY <1>d
  <2>1. CASE ql # a /\ j \in 1 .. Len(f[ql]) /\ g[ql][j] = f[ql][j]
    BY <1>1, <1>a, <2>0, <2>1
  <2>2. CASE ql = a /\ j + k \in 1 .. Len(f[a]) /\ g[ql][j] = f[a][j + k]
    <3>1. j + k = l
      BY <1>1, <1>2, <1>a, <2>0, <2>2
    <3>2. QED BY <1>3, <1>l, <3>1
  <2>3. CASE /\ ql = b /\ j - Len(f[b]) \in 1 .. Len(q)
             /\ g[ql][j] = q[j - Len(f[b])]
    <3>1. i - Len(f[b]) = j - Len(f[b])
      BY <1>1, <1>2, <1>d, <2>3 DEF Distinct
    <3>2. QED BY <1>3, <1>d, <2>3, <3>1
  <2>4. QED BY <1>y, <2>1, <2>2, <2>3
<1>e. QED BY <1>x, <1>b, <1>c, <1>d

LEMMA MovesFound ==
  ASSUME NEW f \in Layouts, NEW g \in Layouts, NEW a, NEW b, NEW k, NEW q,
         Moves(f, g, a, b, k, q), OnePlace(f)
  PROVE  Found(g) = Found(f) \ Lost(f, a, k, q)
<1>2. /\ a \in Places /\ b \in Places /\ a # b /\ q \in Seq(Mbufs)
      /\ k \in 0 .. Len(f[a])
  BY DEF Moves
<1>3. /\ k \in Nat /\ Len(f[a]) \in Nat /\ k <= Len(f[a]) /\ Len(f[b]) \in Nat /\ Len(q) \in Nat
  <2>1. f[a] \in Seq(Mbufs) /\ f[b] \in Seq(Mbufs)
    BY <1>2 DEF Layouts
  <2>2. Len(f[a]) \in Nat /\ Len(f[b]) \in Nat
    BY <2>1
  <2>3. QED BY <1>2, <2>2
<1>l. \A l \in 1 .. k : l \in 1 .. Len(f[a]) /\ l <= k
  BY <1>3
<1>a. \A l \in 1 .. k : \A cl \in Places : \A n \in 1 .. Len(f[cl]) :
        f[a][l] = f[cl][n] => cl = a /\ n = l
  BY <1>2, <1>l DEF OnePlace
<1>4. ASSUME NEW m \in Found(g)
      PROVE  m \in Found(f) /\ m \notin Lost(f, a, k, q)
  <2>1. PICK pl \in Places : \E i \in 1 .. Len(g[pl]) : g[pl][i] = m
    BY DEF Found
  <2>2. PICK i \in 1 .. Len(g[pl]) : g[pl][i] = m
    BY <2>1
  <2>m. m \in Mbufs
    BY DEF Found
  <2>3. CASE pl # a /\ i \in 1 .. Len(f[pl]) /\ g[pl][i] = f[pl][i]
    BY <1>a, <2>m, <2>2, <2>3 DEF Found, Lost
  <2>4. CASE pl = a /\ i + k \in 1 .. Len(f[a]) /\ g[pl][i] = f[a][i + k]
    <3>1. \A l \in 1 .. k : l # i + k
      BY <1>3
    <3>2. QED BY <1>2, <1>a, <2>m, <2>2, <2>4, <3>1 DEF Found, Lost
  <2>5. CASE /\ pl = b /\ i - Len(f[b]) \in 1 .. Len(q)
             /\ g[pl][i] = q[i - Len(f[b])]
             /\ \E l \in 1 .. k : q[i - Len(f[b])] = f[a][l]
    BY <1>2, <1>l, <2>m, <2>2, <2>5 DEF Found, Lost
  <2>6. QED BY <2>3, <2>4, <2>5, MovesSource
<1>5. ASSUME NEW m \in Found(f), m \notin Lost(f, a, k, q)
      PROVE  m \in Found(g)
  <2>1. PICK pl \in Places : \E i \in 1 .. Len(f[pl]) : f[pl][i] = m
    BY DEF Found
  <2>2. PICK i \in 1 .. Len(f[pl]) : f[pl][i] = m
    BY <2>1
  <2>m. m \in Mbufs
    BY DEF Found
  <2>3. CASE pl # a /\ pl # b
    <3>1. g[pl] = f[pl]
      BY <2>3 DEF Moves
    <3>2. QED BY <2>m, <2>2, <3>1 DEF Found
  <2>4. CASE pl = b
    <3>1. Len(g[b]) = Len(f[b]) + Len(q) /\ g[b][i] = f[b][i]
      BY <2>4 DEF Moves
    <3>2. i \in 1 .. Len(g[b])
      BY <1>3, <2>4, <3>1
    <3>3. QED BY <2>m, <2>2, <2>4, <3>1, <3>2 DEF Found
  <2>5. CASE pl = a /\ i > k
    <3>1. Len(g[a]) = Len(f[a]) - k
      BY DEF Moves
    <3>2. i - k \in 1 .. Len(g[a]) /\ (i - k) + k = i
      BY <1>3, <2>5, <3>1
    <3>3. g[a][i - k] = f[a][(i - k) + k]
      BY <3>2 DEF Moves
    <3>4. QED BY <1>2, <2>m, <2>2, <2>5, <3>2, <3>3 DEF Found
  <2>6. CASE pl = a /\ i <= k
    <3>1. i \in 1 .. k
      BY <1>3, <2>6
    <3>2. PICK j \in 1 .. Len(q) : q[j] = m
      BY <1>5, <2>m, <2>2, <2>6, <3>1 DEF Lost
    <3>3. Len(g[b]) = Len(f[b]) + Len(q) /\ g[b][Len(f[b]) + j] = q[j]
      BY DEF Moves
    <3>4. Len(f[b]) + j \in 1 .. Len(g[b])
      BY <1>3, <3>3
    <3>5. QED BY <1>2, <2>m, <3>2, <3>3, <3>4 DEF Found
  <2>7. QED BY <1>3, <2>3, <2>4, <2>5, <2>6
<1>6. QED BY <1>4, <1>5

-----------------------------------------------------------------------------
(* What the packets of a place look like.                                  *)

\* A packet that waits to be sent: headers h, and those it arrived with.
Clean(h, o) ==
  /\ h \in IpHeader \cup ArpHeader
  /\ h.smac = self_mac
  /\ \/ h.type = "arp" /\ h.op = "reply" /\ h.dmac = o.smac
     \/ /\ h.type = "ipv4"
        /\ \/ /\ Classify(o) = "kNextFwd" /\ h.src[1] = self_ip
              /\ \E b \in Backends : h.dst = Backend[b] /\ h.dmac = BackendMac[b]
              /\ h.src[2] % NWorkers = ClassifyForSteer(o).worker
           \/ /\ Classify(o) = "kNextRev" /\ h.src = Vip
              /\ h.dst \in Clients /\ h.dmac \in ClientMacs(h.dst)

Fit(pl, h, o) ==
  /\ o \in Headers
  /\ pl[1] \in {"io", "arp", "ingress", "in"} => h = o
  /\ pl[1] = "arp" => o.type = "arp"
  /\ pl[1] \in {"ingress", "in", "out"} =>
       ClassifyForSteer(o) = [cls |-> "kSteer", worker |-> pl[2]]
  /\ pl[1] = "in" => Classify(o) \in {"kNextFwd", "kNextRev"}
  /\ pl[1] \in {"out", "egress"} => Clean(h, o)

Fits(f, hd, or) ==
  \A pl \in Places : \A i \in 1 .. Len(f[pl]) : Fit(pl, hd[f[pl][i]], or[f[pl][i]])

\* Between two places of one worker, or of the IO lcore, no packet with the
\* headers of one in q waits.
Alone(f, or, a, b, q) ==
  \A c \in Places : \A i \in 1 .. Len(q), j \in 1 .. Len(f[c]) :
    c # a /\ Stage(b) < Stage(c) /\ Stage(c) <= Stage(a) => or[q[i]] # or[f[c][j]]

LEMMA MovesFits ==
  ASSUME NEW f \in Layouts, NEW g \in Layouts, NEW a, NEW b, NEW k, NEW q,
         Moves(f, g, a, b, k, q), OnePlace(f), NEW hd, NEW or, Fits(f, hd, or),
         NEW hd2, NEW or2,
         \A m \in Found(g) : or2[m] = or[m],
         \A m \in Found(g) : (\A i \in 1 .. Len(q) : q[i] # m) => hd2[m] = hd[m],
         \A i \in 1 .. Len(q) : Fit(b, hd2[q[i]], or[q[i]])
  PROVE  Fits(g, hd2, or2)
<1>1. SUFFICES ASSUME NEW pl \in Places, NEW i \in 1 .. Len(g[pl])
               PROVE  Fit(pl, hd2[g[pl][i]], or2[g[pl][i]])
  BY DEF Fits
<1>2. /\ a \in Places /\ b \in Places /\ a # b /\ q \in Seq(Mbufs)
      /\ k \in 0 .. Len(f[a])
  BY DEF Moves
<1>3. k \in Nat /\ Len(f[a]) \in Nat /\ k <= Len(f[a]) /\ i \in Nat /\ i >= 1
  <2>1. f[a] \in Seq(Mbufs) /\ g[pl] \in Seq(Mbufs)
    BY <1>2 DEF Layouts
  <2>2. Len(f[a]) \in Nat /\ Len(g[pl]) \in Nat
    BY <2>1
  <2>3. QED BY <1>2, <2>2
<1>l. \A l \in 1 .. k : l \in 1 .. Len(f[a]) /\ l <= k
  BY <1>3
<1>a. \A l \in 1 .. k : \A cl \in Places : \A n \in 1 .. Len(f[cl]) :
        f[a][l] = f[cl][n] => cl = a /\ n = l
  BY <1>2, <1>l DEF OnePlace
<1>q. \A n \in 1 .. Len(q) : \E l \in 1 .. k : q[n] = f[a][l]
  BY DEF Moves
<1>m. g[pl][i] \in Found(g)
  <2>1. g[pl] \in Seq(Mbufs)
    BY DEF Layouts
  <2>2. g[pl][i] \in Mbufs
    BY <2>1, ElementOfSeq
  <2>3. QED BY <2>2 DEF Found
<1>4. CASE pl # a /\ i \in 1 .. Len(f[pl]) /\ g[pl][i] = f[pl][i]
  <2>1. \A n \in 1 .. Len(q) : q[n] # g[pl][i]
    BY <1>a, <1>q, <1>4
  <2>2. hd2[g[pl][i]] = hd[f[pl][i]] /\ or2[g[pl][i]] = or[f[pl][i]]
    BY <1>m, <1>4, <2>1
  <2>3. QED BY <1>4, <2>2 DEF Fits
<1>5. CASE pl = a /\ i + k \in 1 .. Len(f[a]) /\ g[pl][i] = f[a][i + k]
  <2>0. \A l \in 1 .. k : l # i + k
    BY <1>3
  <2>1. \A n \in 1 .. Len(q) : q[n] # g[pl][i]
    BY <1>2, <1>a, <1>q, <1>5, <2>0
  <2>2. hd2[g[pl][i]] = hd[f[a][i + k]] /\ or2[g[pl][i]] = or[f[a][i + k]]
    BY <1>m, <1>5, <2>1
  <2>3. QED BY <1>2, <1>5, <2>2 DEF Fits
<1>6. CASE /\ pl = b /\ i - Len(f[b]) \in 1 .. Len(q)
           /\ g[pl][i] = q[i - Len(f[b])]
  BY <1>m, <1>6
<1>7. QED BY <1>4, <1>5, <1>6, MovesSource

LEMMA StageType == \A pl \in Places : Stage(pl) \in Nat
BY DEF Stage

LEMMA MovesOrdered ==
  ASSUME NEW f \in Layouts, NEW g \in Layouts, NEW a, NEW b, NEW k, NEW q,
         Moves(f, g, a, b, k, q), NEW or, NEW B, Ordered(f, or, B),
         \A i \in 1 .. Len(q) : Stage(b) < Stage(a),
         \A i, j \in 1 .. Len(q) : i < j /\ or[q[i]] = or[q[j]] => <<q[i], q[j]>> \in B,
         Alone(f, or, a, b, q)
  PROVE  Ordered(g, or, B)
<1>1. SUFFICES ASSUME NEW pl \in Places, NEW ql \in Places, NEW i \in 1 .. Len(g[pl]),
                      NEW j \in 1 .. Len(g[ql]),
                      Stage(pl) < Stage(ql) \/ (pl = ql /\ i < j),
                      or[g[pl][i]] = or[g[ql][j]]
               PROVE  <<g[pl][i], g[ql][j]>> \in B
  BY DEF Ordered
<1>2. /\ a \in Places /\ b \in Places /\ a # b /\ k \in 0 .. Len(f[a])
  BY DEF Moves
<1>3. /\ k \in Nat /\ Len(f[a]) \in Nat /\ k <= Len(f[a]) /\ Len(f[b]) \in Nat
      /\ i \in Int /\ j \in Int /\ i >= 1 /\ j >= 1
  <2>1. f[a] \in Seq(Mbufs) /\ f[b] \in Seq(Mbufs)
    BY <1>2 DEF Layouts
  <2>2. Len(f[a]) \in Nat /\ Len(f[b]) \in Nat
    BY <2>1
  <2>3. QED BY <1>2, <2>2
<1>s. /\ Stage(pl) \in Nat /\ Stage(ql) \in Nat /\ Stage(a) \in Nat /\ Stage(b) \in Nat
  BY <1>2, StageType
<1>l. \A l \in 1 .. k : l \in 1 .. Len(f[a]) /\ l <= k
  BY <1>3
<1>o. ASSUME NEW c \in Places, NEW d \in Places, NEW m \in 1 .. Len(f[c]),
             NEW n \in 1 .. Len(f[d]), Stage(c) < Stage(d) \/ (c = d /\ m < n),
             g[pl][i] = f[c][m], g[ql][j] = f[d][n]
      PROVE  <<g[pl][i], g[ql][j]>> \in B
  BY <1>1, <1>o DEF Ordered
<1>x. \/ pl # a /\ i \in 1 .. Len(f[pl]) /\ g[pl][i] = f[pl][i]
      \/ pl = a /\ i + k \in 1 .. Len(f[a]) /\ g[pl][i] = f[a][i + k]
      \/ /\ pl = b /\ i - Len(f[b]) \in 1 .. Len(q)
         /\ g[pl][i] = q[i - Len(f[b])]
         /\ \E l \in 1 .. k : q[i - Len(f[b])] = f[a][l]
  BY MovesSource, SMTT(30)
<1>y. \/ ql # a /\ j \in 1 .. Len(f[ql]) /\ g[ql][j] = f[ql][j]
      \/ ql = a /\ j + k \in 1 .. Len(f[a]) /\ g[ql][j] = f[a][j + k]
      \/ /\ ql = b /\ j - Len(f[b]) \in 1 .. Len(q)
         /\ g[ql][j] = q[j - Len(f[b])]
         /\ \E l \in 1 .. k : q[j - Len(f[b])] = f[a][l]
  BY MovesSource
<1>b. CASE pl # a /\ i \in 1 .. Len(f[pl]) /\ g[pl][i] = f[pl][i]
  <2>1. CASE ql # a /\ j \in 1 .. Len(f[ql]) /\ g[ql][j] = f[ql][j]
    BY <1>1, <1>b, <2>1, <1>o
  <2>2. CASE ql = a /\ j + k \in 1 .. Len(f[a]) /\ g[ql][j] = f[a][j + k]
    BY <1>1, <1>2, <1>b, <2>2, <1>o
  <2>3. CASE /\ ql = b /\ j - Len(f[b]) \in 1 .. Len(q)
             /\ g[ql][j] = q[j - Len(f[b])]
             /\ \E l \in 1 .. k : q[j - Len(f[b])] = f[a][l]
    <3>1. PICK l \in 1 .. k : g[ql][j] = f[a][l]
      BY <2>3
    <3>2. Stage(pl) < Stage(a)
      <4>1. Stage(b) < Stage(a)
        BY <2>3
      <4>2. Stage(pl) <= Stage(b)
        BY <1>1, <1>s, <2>3
      <4>3. QED BY <1>s, <4>1, <4>2
    <3>3. QED BY <1>2, <1>l, <1>b, <3>1, <3>2, <1>o
  <2>4. QED BY <1>y, <2>1, <2>2, <2>3
<1>c. CASE pl = a /\ i + k \in 1 .. Len(f[a]) /\ g[pl][i] = f[a][i + k]
  <2>1. CASE ql # a /\ j \in 1 .. Len(f[ql]) /\ g[ql][j] = f[ql][j]
    BY <1>1, <1>2, <1>c, <2>1, <1>o
  <2>2. CASE ql = a /\ j + k \in 1 .. Len(f[a]) /\ g[ql][j] = f[a][j + k]
    <3>1. i + k < j + k
      BY <1>1, <1>3, <1>s, <1>c, <2>2
    <3>2. QED BY <1>2, <1>c, <2>2, <3>1, <1>o
  <2>3. CASE ql = b /\ j - Len(f[b]) \in 1 .. Len(q)
    BY <1>1, <1>2, <1>s, <1>c, <2>3
  <2>4. QED BY <1>y, <2>1, <2>2, <2>3
<1>d. CASE /\ pl = b /\ i - Len(f[b]) \in 1 .. Len(q)
           /\ g[pl][i] = q[i - Len(f[b])]
           /\ \E l \in 1 .. k : q[i - Len(f[b])] = f[a][l]
  <2>0. PICK l \in 1 .. k : g[pl][i] = f[a][l]
    BY <1>d
  <2>1. CASE ql # a /\ j \in 1 .. Len(f[ql]) /\ g[ql][j] = f[ql][j]
    <3>1. ~(ql = b)
      BY <1>1, <1>3, <1>s, <1>d, <2>1
    <3>2. Stage(b) < Stage(ql)
      BY <1>1, <1>d, <3>1
    <3>3. CASE Stage(ql) <= Stage(a)
      BY <1>1, <1>d, <2>1, <3>2, <3>3 DEF Alone
    <3>4. CASE Stage(a) < Stage(ql)
      BY <1>2, <1>l, <2>0, <2>1, <3>4, <1>o
    <3>5. QED BY <1>s, <3>3, <3>4
  <2>2. CASE ql = a /\ j + k \in 1 .. Len(f[a]) /\ g[ql][j] = f[a][j + k]
    <3>1. l < j + k
      BY <1>3, <1>l
    <3>2. QED BY <1>2, <1>l, <2>0, <2>2, <3>1, <1>o
  <2>3. CASE /\ ql = b /\ j - Len(f[b]) \in 1 .. Len(q)
             /\ g[ql][j] = q[j - Len(f[b])]
    <3>1. i - Len(f[b]) < j - Len(f[b])
      BY <1>1, <1>3, <1>s, <1>d, <2>3
    <3>2. QED BY <1>1, <1>d, <2>3, <3>1
  <2>4. QED BY <1>y, <2>1, <2>2, <2>3
<1>e. QED BY <1>x, <1>b, <1>c, <1>d

-----------------------------------------------------------------------------
(* A burst arrives.                                                        *)

IO == <<"io", 0>>
ARP == <<"arp", 0>>
EGRESS == <<"egress", 0>>

LEMMA PlaceFacts ==
  /\ IO \in Places /\ ARP \in Places /\ EGRESS \in Places
  /\ \A w \in Workers : /\ <<"ingress", w>> \in Places /\ <<"in", w>> \in Places
                        /\ <<"out", w>> \in Places
                        /\ Stage(<<"ingress", w>>) = 3 /\ Stage(<<"in", w>>) = 2
                        /\ Stage(<<"out", w>>) = 1
  /\ Stage(IO) = 4 /\ Stage(ARP) = 2 /\ Stage(EGRESS) = 0
  /\ \A pl \in Places : Stage(pl) <= 4
BY DEF Places, Stage, IO, ARP, EGRESS

LEMMA PlaceCases ==
  ASSUME NEW pl \in Places
  PROVE  \/ pl = IO \/ pl = ARP \/ pl = EGRESS
         \/ \E w \in Workers : pl = <<"ingress", w>> \/ pl = <<"in", w>> \/ pl = <<"out", w>>
BY DEF Places, IO, ARP, EGRESS

LEMMA StageCases ==
  ASSUME NEW pl \in Places
  PROVE  \/ pl = IO /\ Stage(pl) = 4
         \/ pl = ARP /\ Stage(pl) = 2
         \/ pl = EGRESS /\ Stage(pl) = 0
         \/ (\E w \in Workers : pl = <<"ingress", w>>) /\ Stage(pl) = 3
         \/ (\E w \in Workers : pl = <<"in", w>>) /\ Stage(pl) = 2
         \/ (\E w \in Workers : pl = <<"out", w>>) /\ Stage(pl) = 1
<1>1. CASE \E w \in Workers : pl = <<"ingress", w>> \/ pl = <<"in", w>> \/ pl = <<"out", w>>
  BY <1>1, PlaceFacts
<1>2. CASE pl = IO \/ pl = ARP \/ pl = EGRESS
  BY <1>2, PlaceFacts
<1>3. QED BY <1>1, <1>2, PlaceCases

\* Place IO, which was empty, gets the mbufs s, which were nowhere.
Arrives(f, g, s) ==
  /\ Len(f[IO]) = 0 /\ g[IO] = s
  /\ s \in Seq(Mbufs) /\ Distinct(s)
  /\ \A i \in 1 .. Len(s) : s[i] \notin Found(f)
  /\ \A c \in Places \ {IO} : g[c] = f[c]

LEMMA ArrivesOnePlace ==
  ASSUME NEW f \in Layouts, NEW g \in Layouts, NEW s, Arrives(f, g, s), OnePlace(f)
  PROVE  OnePlace(g) /\ Found(g) = Found(f) \cup Elements(s)
<1>0. /\ Len(f[IO]) = 0 /\ g[IO] = s /\ s \in Seq(Mbufs) /\ Distinct(s) /\ IO \in Places
      /\ \A i \in 1 .. Len(s) : s[i] \notin Found(f)
      /\ \A c \in Places : c # IO => g[c] = f[c]
  BY PlaceFacts DEF Arrives
<1>1. DOMAIN s = 1 .. Len(s) /\ Len(s) \in Nat /\ \A i \in 1 .. Len(s) : s[i] \in Mbufs
  BY <1>0, LenProperties, ElementOfSeq
<1>2. ASSUME NEW pl \in Places, NEW i \in 1 .. Len(f[pl])
      PROVE  f[pl][i] \in Found(f) /\ pl # IO
  <2>1. f[pl] \in Seq(Mbufs)
    BY DEF Layouts
  <2>2. f[pl][i] \in Mbufs
    BY <2>1, ElementOfSeq
  <2>3. pl # IO
    BY <1>0, <2>1
  <2>4. QED BY <2>2, <2>3 DEF Found
<1>3. OnePlace(g)
  <2>1. SUFFICES ASSUME NEW pl \in Places, NEW ql \in Places, NEW i \in 1 .. Len(g[pl]),
                        NEW j \in 1 .. Len(g[ql]), g[pl][i] = g[ql][j]
                 PROVE  pl = ql /\ i = j
    BY DEF OnePlace
  <2>2. CASE pl = IO /\ ql = IO
    BY <1>0, <2>1, <2>2 DEF Distinct
  <2>3. CASE pl = IO /\ ql # IO
    BY <1>0, <1>2, <2>1, <2>3
  <2>4. CASE pl # IO /\ ql = IO
    BY <1>0, <1>2, <2>1, <2>4
  <2>5. CASE pl # IO /\ ql # IO
    <3>1. g[pl] = f[pl] /\ g[ql] = f[ql]
      BY <1>0, <2>5
    <3>2. QED BY <2>1, <3>1 DEF OnePlace
  <2>6. QED BY <2>2, <2>3, <2>4, <2>5
<1>4. ASSUME NEW m \in Found(g) PROVE m \in Found(f) \cup Elements(s)
  <2>1. PICK pl \in Places : \E i \in 1 .. Len(g[pl]) : g[pl][i] = m
    BY DEF Found
  <2>2. PICK i \in 1 .. Len(g[pl]) : g[pl][i] = m
    BY <2>1
  <2>3. CASE pl = IO
    BY <1>0, <1>1, <2>2, <2>3 DEF Elements
  <2>4. CASE pl # IO
    BY <1>0, <1>2, <2>2, <2>4
  <2>5. QED BY <2>3, <2>4
<1>5. ASSUME NEW m \in Found(f) PROVE m \in Found(g)
  <2>1. PICK pl \in Places : \E i \in 1 .. Len(f[pl]) : f[pl][i] = m
    BY DEF Found
  <2>2. pl # IO
    BY <1>2, <2>1
  <2>3. g[pl] = f[pl] /\ m \in Mbufs
    BY <1>0, <2>2 DEF Found
  <2>4. QED BY <2>1, <2>3 DEF Found
<1>6. ASSUME NEW m \in Elements(s) PROVE m \in Found(g)
  <2>1. PICK i \in 1 .. Len(s) : m = s[i]
    BY <1>1 DEF Elements
  <2>2. QED BY <1>0, <1>1, <2>1 DEF Found
<1>7. QED BY <1>3, <1>4, <1>5, <1>6

LEMMA ArrivesFits ==
  ASSUME NEW f \in Layouts, NEW g \in Layouts, NEW s, Arrives(f, g, s),
         NEW hd, NEW or, Fits(f, hd, or), NEW hd2, NEW or2,
         \A m \in Found(f) : hd2[m] = hd[m] /\ or2[m] = or[m],
         \A i \in 1 .. Len(s) : hd2[s[i]] = or2[s[i]] /\ or2[s[i]] \in Headers
  PROVE  Fits(g, hd2, or2)
<1>1. SUFFICES ASSUME NEW pl \in Places, NEW i \in 1 .. Len(g[pl])
               PROVE  Fit(pl, hd2[g[pl][i]], or2[g[pl][i]])
  BY DEF Fits
<1>2. CASE pl = IO
  <2>1. IO[1] = "io"
    BY DEF IO
  <2>2. g[pl] = s
    BY <1>2 DEF Arrives
  <2>3. QED BY <1>1, <1>2, <2>1, <2>2 DEF Fit
<1>3. CASE pl # IO
  <2>1. g[pl] = f[pl] /\ f[pl] \in Seq(Mbufs)
    BY <1>3 DEF Arrives, Layouts
  <2>2. f[pl][i] \in Found(f)
    BY <2>1, ElementOfSeq DEF Found
  <2>3. QED BY <2>1, <2>2 DEF Fits
<1>4. QED BY <1>2, <1>3

LEMMA ArrivesOrdered ==
  ASSUME NEW f \in Layouts, NEW g \in Layouts, NEW s, Arrives(f, g, s),
         NEW or, NEW or2, NEW B, NEW B2, Ordered(f, or, B),
         \A m \in Found(f) : or2[m] = or[m],
         B \subseteq B2,
         \A m \in Found(f) : \A i \in 1 .. Len(s) : <<m, s[i]>> \in B2,
         \A i, j \in 1 .. Len(s) : i < j => <<s[i], s[j]>> \in B2
  PROVE  Ordered(g, or2, B2)
<1>1. SUFFICES ASSUME NEW pl \in Places, NEW ql \in Places, NEW i \in 1 .. Len(g[pl]),
                      NEW j \in 1 .. Len(g[ql]),
                      Stage(pl) < Stage(ql) \/ (pl = ql /\ i < j),
                      or2[g[pl][i]] = or2[g[ql][j]]
               PROVE  <<g[pl][i], g[ql][j]>> \in B2
  BY DEF Ordered
<1>2. /\ IO \in Places /\ g[IO] = s
      /\ \A c \in Places : c # IO => g[c] = f[c]
  BY PlaceFacts DEF Arrives
<1>3. ASSUME NEW cl \in Places, cl # IO, NEW n \in 1 .. Len(g[cl])
      PROVE  g[cl] = f[cl] /\ g[cl][n] \in Found(f)
  <2>1. g[cl] = f[cl] /\ f[cl] \in Seq(Mbufs)
    BY <1>2, <1>3 DEF Layouts
  <2>2. QED BY <1>3, <2>1, ElementOfSeq DEF Found
<1>4. CASE ql = IO /\ pl = IO
  BY <1>1, <1>2, <1>4, PlaceFacts
<1>5. CASE ql = IO /\ pl # IO
  BY <1>2, <1>3, <1>5
<1>6. CASE ql # IO /\ pl = IO
  BY <1>1, <1>6, PlaceFacts, StageType
<1>7. CASE ql # IO /\ pl # IO
  <2>1. g[pl] = f[pl] /\ g[ql] = f[ql] /\ or[f[pl][i]] = or[f[ql][j]]
    BY <1>1, <1>3, <1>7
  <2>2. <<f[pl][i], f[ql][j]>> \in B
    BY <1>1, <2>1 DEF Ordered
  <2>3. QED BY <2>1, <2>2
<1>8. QED BY <1>4, <1>5, <1>6, <1>7

-----------------------------------------------------------------------------
(* A step that moves packets from a place to the next.                     *)

\* The ways of a packet.
Route(a, b) ==
  \/ a = IO /\ b = ARP
  \/ a = ARP /\ b = EGRESS
  \/ \E w \in Workers : \/ a = IO /\ b = <<"ingress", w>>
                        \/ a = <<"ingress", w>> /\ b = <<"in", w>>
                        \/ a = <<"in", w>> /\ b = <<"out", w>>
                        \/ a = <<"out", w>> /\ b = EGRESS

\* A packet stays with its worker, or with ArpNode.
LEMMA FitLane ==
  ASSUME NEW h, NEW i, NEW o, NEW w \in Workers, NEW c,
         c = <<"ingress", w>> \/ c = <<"in", w>> \/ c = <<"out", w>>, Fit(c, h, o)
  PROVE  /\ ~Fit(ARP, i, o)
         /\ \A v \in Workers : \A d :
              /\ d = <<"ingress", v>> \/ d = <<"in", v>> \/ d = <<"out", v>>
              /\ Fit(d, i, o)
              => v = w
<1>1. ClassifyForSteer(o) = [cls |-> "kSteer", worker |-> w]
  BY DEF Fit
<1>2. ~Fit(ARP, i, o)
  <2>1. SUFFICES ASSUME o.type = "arp" PROVE FALSE
    BY DEF Fit, ARP
  <2>2. ClassifyForSteer(o) = [cls |-> "kArp", worker |-> 0]
    BY <2>1 DEF ClassifyForSteer
  <2>3. ClassifyForSteer(o).cls = "kArp" /\ ClassifyForSteer(o).cls = "kSteer"
    BY <1>1, <2>2
  <2>4. QED BY <2>3
<1>3. ASSUME NEW v \in Workers, NEW d,
             d = <<"ingress", v>> \/ d = <<"in", v>> \/ d = <<"out", v>>, Fit(d, i, o)
      PROVE  v = w
  <2>1. ClassifyForSteer(o) = [cls |-> "kSteer", worker |-> v]
    BY <1>3 DEF Fit
  <2>2. ClassifyForSteer(o).worker = v /\ ClassifyForSteer(o).worker = w
    BY <1>1, <2>1
  <2>3. QED BY <2>2
<1>4. QED BY <1>2, <1>3

LEMMA RouteAlone ==
  ASSUME NEW f \in Layouts, NEW a, NEW b, Route(a, b), NEW hd, NEW or, NEW hd2, NEW q,
         Fits(f, hd, or),
         \A i \in 1 .. Len(q) : \E l \in 1 .. Len(f[a]) : q[i] = f[a][l],
         \A i \in 1 .. Len(q) : Fit(b, hd2[q[i]], or[q[i]])
  PROVE  Alone(f, or, a, b, q) /\ Stage(b) < Stage(a)
<1>0. a \in Places /\ b \in Places /\ Stage(b) < Stage(a)
  <2>1. CASE (a = IO /\ b = ARP) \/ (a = ARP /\ b = EGRESS)
    BY <2>1, PlaceFacts
  <2>2. ASSUME NEW w \in Workers, a = IO, b = <<"ingress", w>>
        PROVE  a \in Places /\ b \in Places /\ Stage(b) < Stage(a)
    <3>1. a \in Places /\ b \in Places
      BY <2>2, PlaceFacts
    <3>2. Stage(a) = 4 /\ Stage(b) = 3
      BY <2>2, PlaceFacts
    <3>3. QED BY <3>1, <3>2
  <2>3. ASSUME NEW w \in Workers, a = <<"ingress", w>>, b = <<"in", w>>
        PROVE  a \in Places /\ b \in Places /\ Stage(b) < Stage(a)
    <3>1. a \in Places /\ b \in Places
      BY <2>3, PlaceFacts
    <3>2. Stage(a) = 3 /\ Stage(b) = 2
      BY <2>3, PlaceFacts
    <3>3. QED BY <3>1, <3>2
  <2>4. ASSUME NEW w \in Workers, a = <<"in", w>>, b = <<"out", w>>
        PROVE  a \in Places /\ b \in Places /\ Stage(b) < Stage(a)
    <3>1. a \in Places /\ b \in Places
      BY <2>4, PlaceFacts
    <3>2. Stage(a) = 2 /\ Stage(b) = 1
      BY <2>4, PlaceFacts
    <3>3. QED BY <3>1, <3>2
  <2>5. ASSUME NEW w \in Workers, a = <<"out", w>>, b = EGRESS
        PROVE  a \in Places /\ b \in Places /\ Stage(b) < Stage(a)
    <3>1. a \in Places /\ b \in Places
      BY <2>5, PlaceFacts
    <3>2. Stage(a) = 1 /\ Stage(b) = 0
      BY <2>5, PlaceFacts
    <3>3. QED BY <3>1, <3>2
  <2>6. QED BY <2>1, <2>2, <2>3, <2>4, <2>5 DEF Route
<1>1. SUFFICES ASSUME NEW c \in Places, NEW i \in 1 .. Len(q), NEW j \in 1 .. Len(f[c]),
                      c # a, Stage(b) < Stage(c), Stage(c) <= Stage(a),
                      or[q[i]] = or[f[c][j]]
               PROVE  FALSE
  BY <1>0 DEF Alone
<1>2. /\ Fit(c, hd[f[c][j]], or[q[i]]) /\ Fit(b, hd2[q[i]], or[q[i]])
      /\ \E h : Fit(a, h, or[q[i]])
  BY <1>0, <1>1 DEF Fits
<1>3. CASE a = IO /\ b = ARP
  <2>1. c # ARP /\ c # EGRESS /\ c # IO
    BY <1>1, <1>3, PlaceFacts
  <2>2. PICK w \in Workers : c = <<"ingress", w>> \/ c = <<"in", w>> \/ c = <<"out", w>>
    BY <2>1, PlaceCases
  <2>3. QED BY <1>2, <1>3, <2>2, FitLane
<1>4. CASE a = ARP /\ b = EGRESS
  <2>1. c # ARP /\ c # EGRESS /\ c # IO
    BY <1>1, <1>4, PlaceFacts
  <2>2. PICK w \in Workers : c = <<"ingress", w>> \/ c = <<"in", w>> \/ c = <<"out", w>>
    BY <2>1, PlaceCases
  <2>3. QED BY <1>2, <1>4, <2>2, FitLane
<1>5. ASSUME NEW w \in Workers, a = IO, b = <<"ingress", w>>
      PROVE  FALSE
  <2>1. Stage(b) = 3 /\ Stage(a) = 4
    BY <1>5, PlaceFacts
  <2>2. c = IO
    BY <1>1, <2>1, StageCases
  <2>3. QED BY <1>1, <1>5, <2>2
<1>6. ASSUME NEW w \in Workers, a = <<"ingress", w>>, b = <<"in", w>>
      PROVE  FALSE
  <2>1. Stage(b) = 2 /\ Stage(a) = 3
    BY <1>6, PlaceFacts
  <2>2. PICK v \in Workers : c = <<"ingress", v>>
    BY <1>1, <2>1, StageCases
  <2>3. v = w
    BY <1>2, <1>6, <2>2, FitLane
  <2>4. QED BY <1>1, <1>6, <2>2, <2>3
<1>7. ASSUME NEW w \in Workers, a = <<"in", w>>, b = <<"out", w>>
      PROVE  FALSE
  <2>1. Stage(b) = 1 /\ Stage(a) = 2
    BY <1>7, PlaceFacts
  <2>2. c = ARP \/ \E v \in Workers : c = <<"in", v>>
    BY <1>1, <2>1, StageCases
  <2>3. c # ARP
    BY <1>2, <1>7, FitLane
  <2>4. PICK v \in Workers : c = <<"in", v>>
    BY <2>2, <2>3
  <2>5. v = w
    BY <1>2, <1>7, <2>4, FitLane
  <2>6. QED BY <1>1, <1>7, <2>4, <2>5
<1>8. ASSUME NEW w \in Workers, a = <<"out", w>>, b = EGRESS
      PROVE  FALSE
  <2>1. Stage(b) = 0 /\ Stage(a) = 1
    BY <1>8, PlaceFacts
  <2>2. PICK v \in Workers : c = <<"out", v>>
    BY <1>1, <2>1, StageCases
  <2>3. v = w
    BY <1>2, <1>8, <2>2, FitLane
  <2>4. QED BY <1>1, <1>8, <2>2, <2>3
<1>9. QED BY <1>3, <1>4, <1>5, <1>6, <1>7, <1>8 DEF Route

-----------------------------------------------------------------------------
(* The state of the distributor as a layout.                               *)

Layout == [pl \in Places |-> Frame(pl)]

Arrange(i, a, e, ing, inn, out) ==
  [pl \in Places |-> IF pl[1] = "io" THEN i
                     ELSE IF pl[1] = "arp" THEN a
                     ELSE IF pl[1] = "egress" THEN e
                     ELSE IF pl[1] = "ingress" THEN ing[pl[2]]
                     ELSE IF pl[1] = "in" THEN inn[pl[2]] ELSE out[pl[2]]]

LEMMA LayoutIs ==
  /\ Layout = Arrange(io_frame, arp, egress, ingress, in_frame, out_frame)
  /\ Layout' = Arrange(io_frame', arp', egress', ingress', in_frame', out_frame')
BY DEF Layout, Frame, Arrange

MbufFrames(i, a, e, ing, inn, out) ==
  /\ i \in Seq(Mbufs) /\ a \in Seq(Mbufs) /\ e \in Seq(Mbufs)
  /\ ing \in [Workers -> Seq(Mbufs)] /\ inn \in [Workers -> Seq(Mbufs)]
  /\ out \in [Workers -> Seq(Mbufs)]

LEMMA ArrangeFacts ==
  ASSUME NEW i, NEW a, NEW e, NEW ing, NEW inn, NEW out,
         MbufFrames(i, a, e, ing, inn, out)
  PROVE  /\ Arrange(i, a, e, ing, inn, out) \in Layouts
         /\ Arrange(i, a, e, ing, inn, out)[IO] = i
         /\ Arrange(i, a, e, ing, inn, out)[ARP] = a
         /\ Arrange(i, a, e, ing, inn, out)[EGRESS] = e
         /\ \A w \in Workers :
              /\ Arrange(i, a, e, ing, inn, out)[<<"ingress", w>>] = ing[w]
              /\ Arrange(i, a, e, ing, inn, out)[<<"in", w>>] = inn[w]
              /\ Arrange(i, a, e, ing, inn, out)[<<"out", w>>] = out[w]
<1> DEFINE L == Arrange(i, a, e, ing, inn, out)
<1>1. L[IO] = i /\ L[ARP] = a /\ L[EGRESS] = e
  BY DEF Arrange, IO, ARP, EGRESS, Places
<1>2. ASSUME NEW w \in Workers
      PROVE  L[<<"ingress", w>>] = ing[w] /\ L[<<"in", w>>] = inn[w] /\ L[<<"out", w>>] = out[w]
  BY DEF Arrange, Places
<1>3. L \in Layouts
  <2>2. L = [pl \in Places |-> L[pl]]
    BY DEF Arrange
  <2> HIDE DEF L
  <2>1. \A pl \in Places : L[pl] \in Seq(Mbufs)
    BY <1>1, <1>2, PlaceCases DEF MbufFrames
  <2>3. QED BY <2>1, <2>2 DEF Layouts
<1>4. QED BY <1>1, <1>2, <1>3

\* Between bursts the IO lcore holds no packet.
Rest == io_pc # "steer" => io_frame = <<>> /\ arp = <<>>

\* Every mbuf in use is in one position, with the headers its place stands
\* for, and packets that arrived alike are in the order of their arrival.
Seats ==
  /\ OnePlace(Layout)
  /\ Found(Layout) = InUse
  /\ Fits(Layout, hdr, orig)
  /\ Ordered(Layout, orig, before)

\* A step moves packets from place a to place b and loses some.
LEMMA Advance ==
  ASSUME Seats, Layout \in Layouts, Layout' \in Layouts, NEW a, NEW b, NEW k, NEW q,
         Moves(Layout, Layout', a, b, k, q), Len(q) = 0 \/ Route(a, b),
         NEW G, G = Lost(Layout, a, k, q),
         \A m \in Mbufs : m \in G => hdr'[m] = NoHeader,
         \A m \in Mbufs : m \notin G => orig'[m] = orig[m],
         \A m \in Mbufs : m \notin G /\ (\A i \in 1 .. Len(q) : q[i] # m) => hdr'[m] = hdr[m],
         \A m, n \in Mbufs : m \notin G /\ n \notin G /\ <<m, n>> \in before => <<m, n>> \in before',
         \A i \in 1 .. Len(q) : hdr'[q[i]] # NoHeader /\ Fit(b, hdr'[q[i]], orig[q[i]]),
         \A i, j \in 1 .. Len(q) :
           i < j /\ orig[q[i]] = orig[q[j]] =>
             \E x, y \in 1 .. k : x < y /\ q[i] = Layout[a][x] /\ q[j] = Layout[a][y]
  PROVE  Seats'
<1>1. OnePlace(Layout) /\ Found(Layout) = InUse /\ Fits(Layout, hdr, orig)
      /\ Ordered(Layout, orig, before)
  BY DEF Seats
<1>2. OnePlace(Layout') /\ Found(Layout') = Found(Layout) \ G
  BY <1>1, MovesOnePlace, MovesFound
<1>3. /\ a \in Places /\ b \in Places /\ q \in Seq(Mbufs)
      /\ \A i \in 1 .. Len(q) : \E l \in 1 .. k : q[i] = Layout[a][l]
      /\ \A l \in 1 .. k : l \in 1 .. Len(Layout[a])
  <2>1. /\ a \in Places /\ b \in Places /\ q \in Seq(Mbufs) /\ k \in 0 .. Len(Layout[a])
        /\ \A i \in 1 .. Len(q) : \E l \in 1 .. k : q[i] = Layout[a][l]
    BY DEF Moves
  <2>2. Layout[a] \in Seq(Mbufs)
    BY <2>1 DEF Layouts
  <2>3. Len(Layout[a]) \in Nat
    BY <2>2
  <2>4. QED BY <2>1, <2>3
<1>4. Found(Layout) \subseteq Mbufs /\ G \subseteq Mbufs
  BY DEF Found, Lost
<1>5. InUse' = Found(Layout')
  <2>1. ASSUME NEW m \in Mbufs
        PROVE  hdr'[m] # NoHeader <=> m \in Found(Layout')
    <3>1. CASE m \in G
      BY <1>2, <3>1
    <3>2. CASE m \notin G /\ \A i \in 1 .. Len(q) : q[i] # m
      BY <1>1, <1>2, <3>2 DEF InUse
    <3>3. CASE \E i \in 1 .. Len(q) : q[i] = m
      <4>1. hdr'[m] # NoHeader
        BY <3>3
      <4>2. m \in Found(Layout)
        BY <1>3, <3>3 DEF Found
      <4>3. m \notin G
        BY <3>3 DEF Lost
      <4>4. QED BY <1>2, <4>1, <4>2, <4>3
    <3>4. QED BY <3>1, <3>2, <3>3
  <2>2. QED BY <1>2, <1>4, <2>1 DEF InUse
<1>6. Fits(Layout', hdr', orig')
  <2>1. \A m \in Found(Layout') : orig'[m] = orig[m]
    BY <1>2, <1>4
  <2>2. \A m \in Found(Layout') : (\A i \in 1 .. Len(q) : q[i] # m) => hdr'[m] = hdr[m]
    BY <1>2, <1>4
  <2>3. QED BY <1>1, <2>1, <2>2, MovesFits
<1>7. Ordered(Layout', orig, before)
  <2>1. CASE Len(q) = 0
    <3>1. Alone(Layout, orig, a, b, q)
      BY <2>1 DEF Alone
    <3>2. ~\E i \in 1 .. Len(q) : TRUE
      BY <2>1
    <3>3. QED BY <1>1, <3>1, <3>2, MovesOrdered
  <2>2. CASE Route(a, b)
    <3>1. Alone(Layout, orig, a, b, q) /\ Stage(b) < Stage(a)
      BY <1>1, <1>3, <2>2, RouteAlone
    <3>2. ASSUME NEW i \in 1 .. Len(q), NEW j \in 1 .. Len(q), i < j, orig[q[i]] = orig[q[j]]
          PROVE  <<q[i], q[j]>> \in before
      <4>1. PICK x \in 1 .. k, y \in 1 .. k :
              x < y /\ q[i] = Layout[a][x] /\ q[j] = Layout[a][y]
        BY <3>2
      <4>2. QED BY <1>1, <1>3, <3>2, <4>1 DEF Ordered
    <3>3. QED BY <1>1, <3>1, <3>2, MovesOrdered
  <2>3. QED BY <2>1, <2>2
<1>8. Ordered(Layout', orig', before')
  <2>1. SUFFICES ASSUME NEW pl \in Places, NEW ql \in Places, NEW i \in 1 .. Len(Layout'[pl]),
                        NEW j \in 1 .. Len(Layout'[ql]),
                        Stage(pl) < Stage(ql) \/ (pl = ql /\ i < j),
                        orig'[Layout'[pl][i]] = orig'[Layout'[ql][j]]
                 PROVE  <<Layout'[pl][i], Layout'[ql][j]>> \in before'
    BY DEF Ordered
  <2>2. ASSUME NEW cl \in Places, NEW n \in 1 .. Len(Layout'[cl])
        PROVE  /\ Layout'[cl][n] \in Mbufs /\ Layout'[cl][n] \notin G
               /\ orig'[Layout'[cl][n]] = orig[Layout'[cl][n]]
    <3>1. Layout'[cl] \in Seq(Mbufs)
      BY DEF Layouts
    <3>2. Layout'[cl][n] \in Mbufs
      BY <3>1, ElementOfSeq
    <3>3. Layout'[cl][n] \in Found(Layout')
      BY <3>2 DEF Found
    <3>4. QED BY <1>2, <3>2, <3>3
  <2>3. <<Layout'[pl][i], Layout'[ql][j]>> \in before
    BY <1>7, <2>1, <2>2 DEF Ordered
  <2>4. QED BY <2>2, <2>3
<1>9. QED BY <1>2, <1>5, <1>6, <1>8 DEF Seats

-----------------------------------------------------------------------------
(* The inductive invariant.                                                *)

FramesOK ==
  /\ io_frame \in Seq(Mbufs) /\ arp \in Seq(Mbufs) /\ egress \in Seq(Mbufs)
  /\ ingress \in [Workers -> Seq(Mbufs)] /\ in_frame \in [Workers -> Seq(Mbufs)]
  /\ out_frame \in [Workers -> Seq(Mbufs)]

WorkerBounds ==
  \A w \in Workers : /\ Len(ingress[w]) <= kRingSize
                     /\ Len(in_frame[w]) + Len(out_frame[w]) <= kBurstSize

Bounds ==
  /\ io_pc \in {"rx", "steer", "tx"}
  /\ Len(io_frame) + Len(arp) <= kBurstSize /\ Len(egress) <= kEgressRingSize
  /\ WorkerBounds

Marks ==
  /\ hdr \in [Mbufs -> Headers \cup IpHeader \cup ArpHeader \cup {NoHeader}]
  /\ orig \in [Mbufs -> Headers \cup {NoHeader}]
  /\ before \subseteq Mbufs \X Mbufs

\* The flows, each with a MAC address of its own client.
Learned == {e \in Flow : e.client_mac \in ClientMacs(e.key.src)}

TypedMaps == \A w \in Workers : flows[w].bound \cup flows[w].parked \subseteq Learned

IInv == FramesOK /\ Bounds /\ Rest /\ Marks /\ TypedMaps /\ FlowsInv /\ Seats

LEMMA TypeParts == FramesOK /\ Bounds /\ Marks /\ TypedMaps => TypeOK
BY DEF TypeOK, FramesOK, Bounds, WorkerBounds, Marks, TypedMaps, Learned

LEMMA LayoutFacts ==
  ASSUME FramesOK
  PROVE  /\ Layout \in Layouts
         /\ Layout[IO] = io_frame /\ Layout[ARP] = arp /\ Layout[EGRESS] = egress
         /\ \A w \in Workers : /\ Layout[<<"ingress", w>>] = ingress[w]
                               /\ Layout[<<"in", w>>] = in_frame[w]
                               /\ Layout[<<"out", w>>] = out_frame[w]
<1>1. MbufFrames(io_frame, arp, egress, ingress, in_frame, out_frame)
  BY DEF FramesOK, MbufFrames
<1> DEFINE L == Arrange(io_frame, arp, egress, ingress, in_frame, out_frame)
<1>2. Layout = L
  BY LayoutIs
<1>3. /\ L \in Layouts
      /\ L[IO] = io_frame /\ L[ARP] = arp /\ L[EGRESS] = egress
      /\ \A w \in Workers : /\ L[<<"ingress", w>>] = ingress[w]
                            /\ L[<<"in", w>>] = in_frame[w]
                            /\ L[<<"out", w>>] = out_frame[w]
  BY <1>1, ArrangeFacts
<1> HIDE DEF L
<1>4. QED BY <1>2, <1>3

LEMMA LayoutFactsNext ==
  ASSUME FramesOK'
  PROVE  /\ Layout' \in Layouts
         /\ Layout'[IO] = io_frame' /\ Layout'[ARP] = arp' /\ Layout'[EGRESS] = egress'
         /\ \A w \in Workers : /\ Layout'[<<"ingress", w>>] = ingress'[w]
                               /\ Layout'[<<"in", w>>] = in_frame'[w]
                               /\ Layout'[<<"out", w>>] = out_frame'[w]
<1>1. MbufFrames(io_frame', arp', egress', ingress', in_frame', out_frame')
  BY DEF FramesOK, MbufFrames
<1> DEFINE L == Arrange(io_frame', arp', egress', ingress', in_frame', out_frame')
<1>2. Layout' = L
  BY LayoutIs
<1>3. /\ L \in Layouts
      /\ L[IO] = io_frame' /\ L[ARP] = arp' /\ L[EGRESS] = egress'
      /\ \A w \in Workers : /\ L[<<"ingress", w>>] = ingress'[w]
                            /\ L[<<"in", w>>] = in_frame'[w]
                            /\ L[<<"out", w>>] = out_frame'[w]
  BY <1>1, ArrangeFacts
<1> HIDE DEF L
<1>4. QED BY <1>2, <1>3

\* Places a step does not touch.
LEMMA Elsewhere ==
  ASSUME FramesOK, FramesOK', NEW S,
         IO \notin S => io_frame' = io_frame,
         ARP \notin S => arp' = arp,
         EGRESS \notin S => egress' = egress,
         \A w \in Workers : <<"ingress", w>> \notin S => ingress'[w] = ingress[w],
         \A w \in Workers : <<"in", w>> \notin S => in_frame'[w] = in_frame[w],
         \A w \in Workers : <<"out", w>> \notin S => out_frame'[w] = out_frame[w]
  PROVE  \A c \in Places \ S : Layout'[c] = Layout[c]
<1>1. SUFFICES ASSUME NEW c \in Places, c \notin S PROVE Layout'[c] = Layout[c]
  OBVIOUS
<1>2. CASE c = IO \/ c = ARP \/ c = EGRESS
  BY <1>1, <1>2, LayoutFacts, LayoutFactsNext
<1>3. ASSUME NEW w \in Workers, c = <<"ingress", w>>
      PROVE  Layout'[c] = Layout[c]
  BY <1>1, <1>3, LayoutFacts, LayoutFactsNext
<1>4. ASSUME NEW w \in Workers, c = <<"in", w>>
      PROVE  Layout'[c] = Layout[c]
  BY <1>1, <1>4, LayoutFacts, LayoutFactsNext
<1>5. ASSUME NEW w \in Workers, c = <<"out", w>>
      PROVE  Layout'[c] = Layout[c]
  BY <1>1, <1>5, LayoutFacts, LayoutFactsNext
<1>6. QED BY <1>2, <1>3, <1>4, <1>5, PlaceCases

LEMMA LeaveFacts ==
  ASSUME Marks, NEW M, Leave(M)
  PROVE  /\ Marks'
         /\ \A m \in Mbufs : m \in M => hdr'[m] = NoHeader
         /\ \A m \in Mbufs : m \notin M => hdr'[m] = hdr[m] /\ orig'[m] = orig[m]
         /\ \A m, n \in Mbufs :
              m \notin M /\ n \notin M /\ <<m, n>> \in before => <<m, n>> \in before'
<1>1. /\ hdr' = [m \in Mbufs |-> IF m \in M THEN NoHeader ELSE hdr[m]]
      /\ orig' = [m \in Mbufs |-> IF m \in M THEN NoHeader ELSE orig[m]]
      /\ before' = before \cap ((Mbufs \ M) \X (Mbufs \ M))
  BY DEF Leave
<1>2. hdr' \in [Mbufs -> Headers \cup IpHeader \cup ArpHeader \cup {NoHeader}]
  BY <1>1 DEF Marks
<1>3. orig' \in [Mbufs -> Headers \cup {NoHeader}]
  BY <1>1 DEF Marks
<1>4. before' \subseteq Mbufs \X Mbufs
  BY <1>1 DEF Marks
<1>5. Marks'
  BY <1>2, <1>3, <1>4 DEF Marks
<1>6. QED BY <1>1, <1>5

\* What is sent keeps the bounds of the IO lcore and the workers.
LEMMA MovesIs ==
  ASSUME NEW f \in Layouts, NEW g \in Layouts, NEW a \in Places, NEW b \in Places, a # b,
         NEW k \in Nat, k <= Len(f[a]), NEW q \in Seq(Mbufs), Distinct(q),
         \A i \in 1 .. Len(q) : \E l \in 1 .. k : q[i] = f[a][l],
         Len(g[a]) = Len(f[a]) - k,
         \A i \in 1 .. Len(g[a]) : g[a][i] = f[a][i + k],
         g[b] = f[b] \o q,
         \A c \in Places \ {a, b} : g[c] = f[c]
  PROVE  Moves(f, g, a, b, k, q)
<1>1. f[a] \in Seq(Mbufs) /\ f[b] \in Seq(Mbufs)
  BY DEF Layouts
<1>2. Len(f[a]) \in Nat /\ Len(f[b]) \in Nat /\ Len(q) \in Nat
  BY <1>1
<1>3. k \in 0 .. Len(f[a])
  BY <1>2
<1>4. Len(g[b]) = Len(f[b]) + Len(q)
  BY <1>1, ConcatProperties
<1>5. \A i \in 1 .. Len(f[b]) + Len(q) :
        (f[b] \o q)[i] = IF i <= Len(f[b]) THEN f[b][i] ELSE q[i - Len(f[b])]
  BY <1>1, ConcatProperties
<1>6. \A i \in 1 .. Len(f[b]) : g[b][i] = f[b][i]
  BY <1>2, <1>5
<1>7. ASSUME NEW i \in 1 .. Len(q) PROVE g[b][Len(f[b]) + i] = q[i]
  <2>1. /\ Len(f[b]) + i \in 1 .. Len(f[b]) + Len(q) /\ ~(Len(f[b]) + i <= Len(f[b]))
        /\ (Len(f[b]) + i) - Len(f[b]) = i
    BY <1>2
  <2>2. QED BY <1>5, <2>1
<1>8. QED BY <1>3, <1>4, <1>6, <1>7 DEF Moves

-----------------------------------------------------------------------------
(* The steps of the IO lcore.                                              *)

LEMMA BurstFacts ==
  ASSUME NEW b \in Bursts
  PROVE  /\ b \in Seq(Mbufs) /\ Len(b) \in Nat /\ Len(b) <= kBurstSize /\ Distinct(b)
         /\ DOMAIN b = 1 .. Len(b)
         /\ \A i \in 1 .. Len(b) : b[i] \in Mbufs /\ b[i] \notin InUse
<1>1. PICK n \in 0 .. kBurstSize : b \in [1 .. n -> Mbufs \ InUse]
  BY DEF Bursts
<1>2. n \in Nat /\ n <= kBurstSize
  BY RingAssumption
<1>3. b \in [1 .. n -> Mbufs]
  BY <1>1
<1>4. b \in Seq(Mbufs) /\ Len(b) = n /\ DOMAIN b = 1 .. n
  BY <1>2, <1>3
<1>5. Distinct(b)
  BY <1>4 DEF Bursts, Distinct
<1>6. QED BY <1>1, <1>2, <1>4, <1>5

LEMMA IoRxStep ==
  ASSUME IInv, IoRx
  PROVE  FramesOK' /\ Bounds' /\ Rest' /\ Marks' /\ TypedMaps' /\ Seats'
<1>1. PICK b \in Bursts : \E hs \in [Elements(b) -> Headers] :
        /\ io_frame' = b
        /\ hdr' = [m \in Mbufs |-> IF m \in Elements(b) THEN hs[m] ELSE hdr[m]]
        /\ orig' = [m \in Mbufs |-> IF m \in Elements(b) THEN hs[m] ELSE orig[m]]
        /\ before' = before \cup (InUse \X Elements(b)) \cup Successive(b)
  BY DEF IoRx
<1>2. PICK hs \in [Elements(b) -> Headers] :
        /\ io_frame' = b
        /\ hdr' = [m \in Mbufs |-> IF m \in Elements(b) THEN hs[m] ELSE hdr[m]]
        /\ orig' = [m \in Mbufs |-> IF m \in Elements(b) THEN hs[m] ELSE orig[m]]
        /\ before' = before \cup (InUse \X Elements(b)) \cup Successive(b)
  BY <1>1
<1>3. /\ io_frame = <<>> /\ arp = <<>> /\ arp' = arp /\ egress' = egress /\ ingress' = ingress
      /\ in_frame' = in_frame /\ out_frame' = out_frame /\ flows' = flows /\ io_pc' = "steer"
  BY DEF IoRx, IInv, Rest, rings, workers
<1>4. /\ b \in Seq(Mbufs) /\ Len(b) \in Nat /\ Len(b) <= kBurstSize /\ Distinct(b)
      /\ DOMAIN b = 1 .. Len(b)
      /\ \A i \in 1 .. Len(b) : b[i] \in Mbufs /\ b[i] \notin InUse
  BY BurstFacts
<1>5. FramesOK'
  BY <1>2, <1>3, <1>4 DEF IInv, FramesOK
<1>6. Bounds'
  <2>1. Len(arp) = 0
    BY <1>3
  <2>2. Len(io_frame') + Len(arp') <= kBurstSize
    BY <1>2, <1>3, <1>4, <2>1
  <2>3. WorkerBounds' /\ Len(egress') <= kEgressRingSize
    BY <1>3 DEF IInv, Bounds, WorkerBounds
  <2>4. QED BY <1>3, <2>2, <2>3 DEF Bounds
<1>7. Elements(b) \subseteq Mbufs \ InUse /\ \A i \in 1 .. Len(b) : b[i] \in Elements(b)
  BY <1>4 DEF Elements
<1>8. Marks'
  <2>1. hdr' \in [Mbufs -> Headers \cup IpHeader \cup ArpHeader \cup {NoHeader}]
    BY <1>2 DEF IInv, Marks
  <2>2. orig' \in [Mbufs -> Headers \cup {NoHeader}]
    BY <1>2 DEF IInv, Marks
  <2>3. before' \subseteq Mbufs \X Mbufs
    BY <1>2, <1>7 DEF IInv, Marks, Successive, InUse
  <2>4. QED BY <2>1, <2>2, <2>3 DEF Marks
<1>9. Seats'
  <2>1. OnePlace(Layout) /\ Found(Layout) = InUse /\ Fits(Layout, hdr, orig)
        /\ Ordered(Layout, orig, before)
    BY DEF IInv, Seats
  <2>2. Layout \in Layouts /\ Layout' \in Layouts /\ Layout[IO] = <<>> /\ Layout'[IO] = b
    BY <1>2, <1>3, <1>5, LayoutFacts, LayoutFactsNext DEF IInv
  <2>3. \A c \in Places \ {IO} : Layout'[c] = Layout[c]
    <3>1. FramesOK
      BY DEF IInv
    <3>2. QED BY <1>3, <1>5, <3>1, Elsewhere
  <2>4. Len(Layout[IO]) = 0
    BY <2>2
  <2>5. Arrives(Layout, Layout', b)
    BY <1>4, <2>1, <2>2, <2>3, <2>4 DEF Arrives
  <2>6. OnePlace(Layout') /\ Found(Layout') = InUse \cup Elements(b)
    BY <2>1, <2>2, <2>5, ArrivesOnePlace
  <2>7. Found(Layout') = InUse'
    <3>1. \A m \in Mbufs : hdr'[m] # NoHeader <=> m \in InUse \cup Elements(b)
      BY <1>2, HeaderAssumption DEF InUse
    <3>2. InUse \cup Elements(b) \subseteq Mbufs
      BY <1>7 DEF InUse
    <3>3. QED BY <2>6, <3>1, <3>2 DEF InUse
  <2>a. \A m \in InUse : hdr'[m] = hdr[m] /\ orig'[m] = orig[m]
    BY <1>2, <1>7 DEF InUse
  <2>8. Fits(Layout', hdr', orig')
    <3>1. \A i \in 1 .. Len(b) : hdr'[b[i]] = orig'[b[i]] /\ orig'[b[i]] \in Headers
      BY <1>2, <1>4, <1>7
    <3>2. QED BY <2>1, <2>2, <2>5, <2>a, <3>1, ArrivesFits
  <2>9. Ordered(Layout', orig', before')
    <3>1. \A m \in InUse : \A i \in 1 .. Len(b) : <<m, b[i]>> \in before'
      BY <1>2, <1>7
    <3>2. \A i, j \in 1 .. Len(b) : i < j => <<b[i], b[j]>> \in before'
      BY <1>2, <1>4, <1>7 DEF Successive
    <3>3. before \subseteq before'
      BY <1>2
    <3>4. QED BY <2>1, <2>2, <2>5, <2>a, <3>1, <3>2, <3>3, ArrivesOrdered
  <2>b. QED BY <2>6, <2>7, <2>8, <2>9 DEF Seats
<1>a. Rest' /\ TypedMaps'
  BY <1>3 DEF Rest, TypedMaps, IInv
<1>b. QED BY <1>5, <1>6, <1>8, <1>9, <1>a

LEMMA IoTxStep ==
  ASSUME IInv, IoTx
  PROVE  FramesOK' /\ Bounds' /\ Rest' /\ Marks' /\ TypedMaps' /\ Seats'
<1> DEFINE k == Lesser(kBurstSize, Len(egress))
           M == Elements(Upto(egress, kBurstSize))
           q == <<>>
<1>1. /\ io_frame = <<>> /\ arp = <<>> /\ arp' = arp /\ io_frame' = io_frame /\ ingress' = ingress
      /\ in_frame' = in_frame /\ out_frame' = out_frame /\ flows' = flows /\ io_pc' = "rx"
      /\ egress' = After(egress, kBurstSize) /\ Leave(M)
  BY DEF IoTx, IInv, Rest, workers
<1>2. egress \in Seq(Mbufs) /\ kBurstSize \in Nat /\ Len(egress) \in Nat /\ Marks /\ FramesOK
  BY RingAssumption DEF IInv, FramesOK
<1>3. /\ egress' \in Seq(Mbufs) /\ Len(egress') = Len(egress) - k
      /\ \A i \in 1 .. Len(egress') : egress'[i] = egress[i + k]
  BY <1>1, <1>2, AfterFacts
<1>4. k \in Nat /\ k <= Len(egress)
  BY <1>2 DEF Lesser
<1>5. M = {egress[i] : i \in 1 .. k}
  <2>1. /\ Upto(egress, kBurstSize) \in Seq(Mbufs) /\ Len(Upto(egress, kBurstSize)) = k
        /\ \A i \in 1 .. k : Upto(egress, kBurstSize)[i] = egress[i]
    BY <1>2, UptoFacts
  <2>2. DOMAIN Upto(egress, kBurstSize) = 1 .. k
    BY <2>1, LenProperties
  <2>3. QED BY <2>1, <2>2 DEF Elements
<1> HIDE DEF k, M
<1>6. FramesOK'
  BY <1>1, <1>2, <1>3 DEF FramesOK
<1>7. Bounds'
  <2>1. Len(egress') <= Len(egress) /\ Len(egress') \in Nat /\ Len(egress) <= kEgressRingSize
    BY <1>2, <1>3, <1>4 DEF IInv, Bounds
  <2>2. Len(egress') <= kEgressRingSize
    BY <1>2, <2>1, RingAssumption
  <2>3. WorkerBounds' /\ Len(io_frame') + Len(arp') <= kBurstSize
    BY <1>1 DEF IInv, Bounds, WorkerBounds
  <2>4. QED BY <1>1, <2>2, <2>3 DEF Bounds
<1>8. /\ Layout \in Layouts /\ Layout' \in Layouts /\ Layout[EGRESS] = egress
      /\ Layout'[EGRESS] = egress' /\ Layout[IO] = <<>> /\ Layout'[IO] = <<>>
  BY <1>1, <1>2, <1>6, LayoutFacts, LayoutFactsNext
<1>9. Moves(Layout, Layout', EGRESS, IO, k, q)
  <2>1. \A c \in Places \ {EGRESS, IO} : Layout'[c] = Layout[c]
    BY <1>1, <1>2, <1>6, Elsewhere
  <2>2. EGRESS \in Places /\ IO \in Places /\ EGRESS # IO
    BY PlaceFacts DEF EGRESS, IO
  <2>3. q \in Seq(Mbufs) /\ Len(q) = 0 /\ Distinct(q) /\ <<>> = <<>> \o q
    BY DEF Distinct
  <2>4. \A i \in 1 .. Len(q) : \E l \in 1 .. k : q[i] = Layout[EGRESS][l]
    BY <2>3
  <2> HIDE DEF q
  <2>5. QED BY <1>3, <1>4, <1>8, <2>1, <2>2, <2>3, <2>4, MovesIs
<1>a. M = Lost(Layout, EGRESS, k, q)
  <2>1. \A i \in 1 .. k : egress[i] \in Mbufs
    BY <1>2, <1>4, ElementOfSeq
  <2>2. ~\E i \in 1 .. Len(q) : TRUE
    OBVIOUS
  <2> HIDE DEF q
  <2>3. QED BY <1>5, <1>8, <2>1, <2>2 DEF Lost
<1>b. Seats'
  <2>1. Seats
    BY DEF IInv
  <2>2. Len(q) = 0 /\ ~\E i \in 1 .. Len(q) : TRUE
    OBVIOUS
  <2> HIDE DEF q
  <2>3. QED BY <1>1, <1>2, <1>8, <1>9, <1>a, <2>1, <2>2, LeaveFacts, Advance
<1>c. Rest' /\ TypedMaps' /\ Marks'
  BY <1>1, <1>2, LeaveFacts DEF Rest, TypedMaps, IInv
<1>d. QED BY <1>6, <1>7, <1>b, <1>c

LEMMA HeadTail ==
  ASSUME NEW s \in Seq(Mbufs), s # <<>>
  PROVE  /\ Len(s) \in Nat /\ Len(s) >= 1
         /\ Head(s) = s[1] /\ Head(s) \in Mbufs
         /\ Tail(s) \in Seq(Mbufs) /\ Len(Tail(s)) = Len(s) - 1
         /\ \A i \in 1 .. Len(Tail(s)) : Tail(s)[i] = s[i + 1]
BY HeadTailProperties, EmptySeq, ElementOfSeq

\* The first packet of place a moves to place b.
LEMMA HeadMoved ==
  ASSUME Seats, Layout \in Layouts, Layout' \in Layouts, NEW a \in Places, NEW b \in Places,
         a # b, Route(a, b), Layout[a] # <<>>, NEW m, m = Head(Layout[a]),
         Layout'[a] = Tail(Layout[a]), Layout'[b] = Append(Layout[b], m),
         \A c \in Places \ {a, b} : Layout'[c] = Layout[c],
         orig' = orig, before' = before,
         \A n \in Mbufs : n # m => hdr'[n] = hdr[n],
         hdr'[m] # NoHeader, Fit(b, hdr'[m], orig[m])
  PROVE  Seats'
<1> DEFINE q == <<m>>
<1>1. Layout[a] \in Seq(Mbufs) /\ Layout[b] \in Seq(Mbufs)
  BY DEF Layouts
<1>2. /\ Len(Layout[a]) \in Nat /\ Len(Layout[a]) >= 1 /\ m = Layout[a][1] /\ m \in Mbufs
      /\ Len(Tail(Layout[a])) = Len(Layout[a]) - 1
      /\ \A i \in 1 .. Len(Tail(Layout[a])) : Tail(Layout[a])[i] = Layout[a][i + 1]
  BY <1>1, HeadTail
<1>3. q \in Seq(Mbufs) /\ Len(q) = 1 /\ q[1] = m
  BY <1>2
<1>4. Append(Layout[b], m) = Layout[b] \o q
  BY <1>1, <1>2, AppendIsConcat
<1> HIDE DEF q
<1>5. Distinct(q) /\ \A i \in 1 .. Len(q) : i = 1 /\ q[i] = m
  BY <1>3 DEF Distinct
<1>6. Moves(Layout, Layout', a, b, 1, q)
  <2>1. \A i \in 1 .. Len(q) : \E l \in 1 .. 1 : q[i] = Layout[a][l]
    BY <1>2, <1>5
  <2>a. /\ 1 \in Nat /\ 1 <= Len(Layout[a]) /\ Len(Layout'[a]) = Len(Layout[a]) - 1
        /\ \A i \in 1 .. Len(Layout'[a]) : Layout'[a][i] = Layout[a][i + 1]
        /\ Layout'[b] = Layout[b] \o q
    BY <1>2, <1>4
  <2>2. QED BY <1>3, <1>5, <2>1, <2>a, MovesIs
<1>7. {} = Lost(Layout, a, 1, q)
  BY <1>2, <1>3 DEF Lost
<1>8. \A n \in Mbufs : (\A i \in 1 .. Len(q) : q[i] # n) => hdr'[n] = hdr[n]
  BY <1>3
<1>9. \A i \in 1 .. Len(q) : hdr'[q[i]] # NoHeader /\ Fit(b, hdr'[q[i]], orig[q[i]])
  BY <1>5
<1>a. \A i, j \in 1 .. Len(q) : ~(i < j)
  BY <1>5
<1>b. QED BY <1>6, <1>7, <1>8, <1>9, <1>a, Advance

\* The first packet of place a leaves; b is any other place.
LEMMA HeadDropped ==
  ASSUME Seats, Marks, Layout \in Layouts, Layout' \in Layouts, NEW a \in Places,
         NEW b \in Places, a # b, Layout[a] # <<>>, NEW m, m = Head(Layout[a]),
         Layout'[a] = Tail(Layout[a]),
         \A c \in Places \ {a} : Layout'[c] = Layout[c],
         Leave({m})
  PROVE  Seats'
<1> DEFINE q == <<>>
<1>1. Layout[a] \in Seq(Mbufs) /\ Layout[b] \in Seq(Mbufs)
  BY DEF Layouts
<1>2. /\ Len(Layout[a]) \in Nat /\ Len(Layout[a]) >= 1 /\ m = Layout[a][1] /\ m \in Mbufs
      /\ Len(Tail(Layout[a])) = Len(Layout[a]) - 1
      /\ \A i \in 1 .. Len(Tail(Layout[a])) : Tail(Layout[a])[i] = Layout[a][i + 1]
  BY <1>1, HeadTail
<1>3. q \in Seq(Mbufs) /\ Len(q) = 0 /\ Distinct(q) /\ ~\E i \in 1 .. Len(q) : TRUE
  BY DEF Distinct
<1>4. Layout'[b] = Layout[b] \o q
  BY <1>1, ConcatEmptySeq
<1> HIDE DEF q
<1>6. Moves(Layout, Layout', a, b, 1, q)
  <2>1. \A i \in 1 .. Len(q) : \E l \in 1 .. 1 : q[i] = Layout[a][l]
    BY <1>3
  <2>2. \A c \in Places \ {a, b} : Layout'[c] = Layout[c]
    OBVIOUS
  <2>a. /\ 1 \in Nat /\ 1 <= Len(Layout[a]) /\ Len(Layout'[a]) = Len(Layout[a]) - 1
        /\ \A i \in 1 .. Len(Layout'[a]) : Layout'[a][i] = Layout[a][i + 1]
        /\ Layout'[b] = Layout[b] \o q
    BY <1>2, <1>4
  <2>3. QED BY <1>3, <2>1, <2>2, <2>a, MovesIs
<1>7. {m} = Lost(Layout, a, 1, q)
  <2>1. \A l \in 1 .. 1 : l = 1
    OBVIOUS
  <2>2. 1 \in 1 .. 1
    OBVIOUS
  <2>3. QED BY <1>2, <1>3, <2>1, <2>2 DEF Lost
<1>8. QED BY <1>3, <1>6, <1>7, LeaveFacts, Advance

LEMMA SteerFacts ==
  ASSUME NEW h \in Headers
  PROVE  /\ ClassifyForSteer(h).cls = "kArp" => h.type = "arp"
         /\ ClassifyForSteer(h).cls = "kSteer" =>
              /\ ClassifyForSteer(h).worker \in Workers
              /\ ClassifyForSteer(h)
                   = [cls |-> "kSteer", worker |-> ClassifyForSteer(h).worker]
<1>n. NWorkers \in Nat /\ NWorkers > 0
  BY SteeringAssumption
<1>1. CASE h.type = "arp"
  BY <1>1 DEF ClassifyForSteer
<1>2. CASE h.type # "arp" /\ (h.type # "ipv4" \/ h.proto \notin L4)
  BY <1>2 DEF ClassifyForSteer
<1>3. CASE h.type = "ipv4" /\ h.proto \in L4 /\ h.dst = Vip
  <2>1. h \in IpHeader /\ h.src \in Clients
    BY <1>3, HeaderAssumption
  <2>2. KeyOf(h) \in Keys
    BY <1>3, <2>1 DEF KeyOf, Keys
  <2>3. Hash[KeyOf(h)] \in Nat
    BY <2>2, SteeringAssumption
  <2>4. Hash[KeyOf(h)] % NWorkers \in Workers
    BY <1>n, <2>3 DEF Workers
  <2>5. ClassifyForSteer(h) = [cls |-> "kSteer", worker |-> Hash[KeyOf(h)] % NWorkers]
    BY <1>3 DEF ClassifyForSteer
  <2>6. QED BY <2>4, <2>5
<1>4. CASE h.type = "ipv4" /\ h.proto \in L4 /\ h.dst # Vip /\ h.dst[1] = self_ip
  <2>1. h \in IpHeader
    BY <1>4, HeaderAssumption
  <2>2. h.dst[2] \in Nat
    BY <2>1 DEF IpHeader, Endpoints
  <2>3. h.dst[2] % NWorkers \in Workers
    BY <1>n, <2>2 DEF Workers
  <2>4. ClassifyForSteer(h) = [cls |-> "kSteer", worker |-> h.dst[2] % NWorkers]
    BY <1>4 DEF ClassifyForSteer
  <2>5. QED BY <2>3, <2>4
<1>5. CASE h.type = "ipv4" /\ h.proto \in L4 /\ h.dst # Vip /\ h.dst[1] # self_ip
  BY <1>5 DEF ClassifyForSteer
<1>6. QED BY <1>1, <1>2, <1>3, <1>4, <1>5

LEMMA AppendBound ==
  ASSUME NEW s \in Seq(Mbufs), NEW m \in Mbufs
  PROVE  Append(s, m) \in Seq(Mbufs) /\ Len(Append(s, m)) = Len(s) + 1 /\ Len(s) \in Nat
BY AppendProperties

LEMMA IoSteerStep ==
  ASSUME IInv, IoSteer
  PROVE  FramesOK' /\ Bounds' /\ Rest' /\ Marks' /\ TypedMaps' /\ Seats'
<1> DEFINE m == Head(io_frame)
           w == ClassifyForSteer(hdr[m]).worker
<1>1. /\ FramesOK /\ Bounds /\ Marks /\ TypedMaps /\ Seats
      /\ io_pc = "steer" /\ io_pc' = io_pc /\ io_frame # <<>> /\ io_frame' = Tail(io_frame)
      /\ in_frame' = in_frame /\ out_frame' = out_frame /\ flows' = flows
  BY DEF IInv, IoSteer, workers
<1>2. /\ io_frame \in Seq(Mbufs) /\ arp \in Seq(Mbufs) /\ egress \in Seq(Mbufs)
      /\ ingress \in [Workers -> Seq(Mbufs)] /\ in_frame \in [Workers -> Seq(Mbufs)]
      /\ out_frame \in [Workers -> Seq(Mbufs)]
  BY <1>1 DEF FramesOK
<1>3. /\ Len(io_frame) \in Nat /\ Len(io_frame) >= 1 /\ m = io_frame[1] /\ m \in Mbufs
      /\ io_frame' \in Seq(Mbufs) /\ Len(io_frame') = Len(io_frame) - 1
  BY <1>1, <1>2, HeadTail
<1>4. /\ Layout \in Layouts /\ Layout[IO] = io_frame /\ Layout[ARP] = arp
      /\ \A v \in Workers : Layout[<<"ingress", v>>] = ingress[v]
  BY <1>1, LayoutFacts
<1>5. hdr[m] = orig[m] /\ orig[m] \in Headers /\ hdr[m] # NoHeader
  <2>1. IO \in Places /\ IO[1] = "io" /\ 1 \in 1 .. Len(Layout[IO])
    BY <1>3, <1>4, PlaceFacts DEF IO
  <2>2. Fit(IO, hdr[Layout[IO][1]], orig[Layout[IO][1]])
    BY <1>1, <2>1 DEF Seats, Fits
  <2>3. hdr[m] = orig[m] /\ orig[m] \in Headers
    BY <1>3, <1>4, <2>1, <2>2 DEF Fit
  <2>4. QED BY <2>3, HeaderAssumption
<1>t. Rest' /\ TypedMaps'
  BY <1>1 DEF Rest, TypedMaps
<1>f. ASSUME FramesOK', NEW b \in Places, b # IO, Layout'[b] = Append(Layout[b], m),
             \A c \in Places \ {IO, b} : Layout'[c] = Layout[c], Route(IO, b),
             hdr' = hdr, orig' = orig, before' = before, Fit(b, hdr[m], orig[m])
      PROVE  Seats'
  <2>1. Layout' \in Layouts /\ Layout'[IO] = Tail(Layout[IO]) /\ IO \in Places
    BY <1>1, <1>4, <1>f, LayoutFactsNext, PlaceFacts
  <2> HIDE DEF m
  <2>2. m = Head(Layout[IO]) /\ Layout[IO] # <<>>
    BY <1>1, <1>4 DEF m
  <2>3. /\ hdr'[m] # NoHeader /\ Fit(b, hdr'[m], orig[m]) /\ IO # b
        /\ \A n \in Mbufs : n # m => hdr'[n] = hdr[n]
    BY <1>5, <1>f
  <2>4. Layout'[b] = Append(Layout[b], m) /\ orig' = orig /\ before' = before /\ Route(IO, b)
    BY <1>f
  <2>5. \A c \in Places \ {IO, b} : Layout'[c] = Layout[c]
    BY <1>f
  <2>6. Seats /\ Layout \in Layouts
    BY <1>1, <1>4
  <2>7. QED BY <2>1, <2>2, <2>3, <2>4, <2>5, <2>6, HeadMoved
<1>g. ASSUME FramesOK', \A c \in Places \ {IO} : Layout'[c] = Layout[c], Leave({m})
      PROVE  Seats'
  <2>1. Layout' \in Layouts /\ Layout'[IO] = Tail(Layout[IO]) /\ IO \in Places /\ ARP \in Places
    BY <1>1, <1>4, <1>g, LayoutFactsNext, PlaceFacts
  <2>2. IO # ARP
    BY DEF IO, ARP
  <2>3. QED BY <1>1, <1>4, <1>g, <2>1, <2>2, HeadDropped
<1>b. ASSUME arp' = arp, egress' = egress, ingress' = ingress
      PROVE  Bounds'
  <2>1. Len(io_frame') + Len(arp') <= kBurstSize
    <3>1. Len(arp) \in Nat
      BY <1>2
    <3>2. QED BY <1>1, <1>3, <1>b, <3>1, RingAssumption DEF Bounds
  <2>2. WorkerBounds' /\ Len(egress') <= kEgressRingSize
    BY <1>1, <1>b DEF Bounds, WorkerBounds
  <2>3. QED BY <1>1, <2>1, <2>2 DEF Bounds
<1>6. CASE /\ ClassifyForSteer(hdr[m]).cls = "kSteer" /\ Len(ingress[w]) < kRingSize
           /\ ingress' = [ingress EXCEPT ![w] = Append(@, m)] /\ UNCHANGED packets
           /\ UNCHANGED <<arp, egress>>
  <2>1. w \in Workers /\ ClassifyForSteer(hdr[m]) = [cls |-> "kSteer", worker |-> w]
    BY <1>5, <1>6, SteerFacts
  <2> HIDE DEF w, m
  <2>2. /\ Append(ingress[w], m) \in Seq(Mbufs) /\ Len(ingress[w]) \in Nat
        /\ Len(Append(ingress[w], m)) = Len(ingress[w]) + 1
    BY <1>2, <1>3, <2>1, AppendBound
  <2>3. ingress' \in [Workers -> Seq(Mbufs)] /\ ingress'[w] = Append(ingress[w], m)
    BY <1>2, <1>6, <2>1, <2>2
  <2>4. \A v \in Workers : v # w => ingress'[v] = ingress[v]
    BY <1>2, <1>6, <2>1
  <2>5. FramesOK'
    BY <1>1, <1>2, <1>3, <1>6, <2>3 DEF FramesOK
  <2>6. Bounds'
    <3>1. Len(io_frame') + Len(arp') <= kBurstSize
      <4>1. Len(arp) \in Nat
        BY <1>2
      <4>2. QED BY <1>1, <1>3, <1>6, <4>1, RingAssumption DEF Bounds
    <3>2. Len(ingress'[w]) <= kRingSize
      BY <1>6, <2>2, <2>3, RingAssumption
    <3>3. WorkerBounds'
      BY <1>1, <2>4, <3>2 DEF Bounds, WorkerBounds
    <3>4. QED BY <1>1, <1>6, <3>1, <3>3 DEF Bounds
  <2>7. Marks'
    BY <1>1, <1>6 DEF Marks, packets
  <2> DEFINE b == <<"ingress", w>>
  <2>8. b \in Places /\ b # IO /\ Route(IO, b) /\ b[1] = "ingress" /\ b[2] = w
    BY <2>1, PlaceFacts DEF IO, Route
  <2>9. \A v \in Workers : <<"ingress", v>> # b => v # w
    OBVIOUS
  <2>a. Layout'[b] = Append(Layout[b], m)
    BY <1>4, <2>1, <2>3, <2>5, LayoutFactsNext
  <2> HIDE DEF b
  <2>b. \A c \in Places \ {IO, b} : Layout'[c] = Layout[c]
    BY <1>1, <1>6, <2>4, <2>5, <2>9, Elsewhere
  <2>c. Fit(b, hdr[m], orig[m])
    BY <1>5, <2>1, <2>8 DEF Fit
  <2>d. Seats'
    BY <1>6, <2>5, <2>8, <2>a, <2>b, <2>c, <1>f DEF packets
  <2>e. QED BY <1>t, <2>5, <2>6, <2>7, <2>d
<1>7. CASE /\ ClassifyForSteer(hdr[m]).cls = "kArp" /\ arp' = Append(arp, m)
           /\ UNCHANGED <<packets, rings>>
  <2>1. orig[m].type = "arp"
    BY <1>5, <1>7, SteerFacts
  <2> HIDE DEF w, m
  <2>2. /\ Append(arp, m) \in Seq(Mbufs) /\ Len(arp) \in Nat
        /\ Len(Append(arp, m)) = Len(arp) + 1
    BY <1>2, <1>3, AppendBound
  <2>5. FramesOK'
    BY <1>1, <1>2, <1>3, <1>7, <2>2 DEF FramesOK, rings
  <2>6. Bounds'
    <3>1. Len(io_frame') + Len(arp') <= kBurstSize
      BY <1>1, <1>3, <1>7, <2>2, RingAssumption DEF Bounds
    <3>2. WorkerBounds' /\ Len(egress') <= kEgressRingSize
      BY <1>1, <1>7 DEF Bounds, WorkerBounds, rings
    <3>3. QED BY <1>1, <3>1, <3>2 DEF Bounds
  <2>7. Marks'
    BY <1>1, <1>7 DEF Marks, packets
  <2>8. ARP \in Places /\ ARP # IO /\ Route(IO, ARP) /\ ARP[1] = "arp"
    BY PlaceFacts DEF IO, ARP, Route
  <2>a. Layout'[ARP] = Append(Layout[ARP], m)
    BY <1>4, <1>7, <2>5, LayoutFactsNext
  <2>b. \A c \in Places \ {IO, ARP} : Layout'[c] = Layout[c]
    BY <1>1, <1>7, <2>5, Elsewhere DEF rings
  <2>c. Fit(ARP, hdr[m], orig[m])
    BY <1>5, <2>1, <2>8 DEF Fit
  <2>d. Seats'
    BY <1>7, <2>5, <2>8, <2>a, <2>b, <2>c, <1>f DEF packets
  <2>e. QED BY <1>t, <2>5, <2>6, <2>7, <2>d
<1>8. CASE Leave({m}) /\ UNCHANGED <<arp, rings>>
  <2> HIDE DEF w, m
  <2>5. FramesOK'
    BY <1>1, <1>2, <1>3, <1>8 DEF FramesOK, rings
  <2>6. Bounds'
    BY <1>8, <1>b DEF rings
  <2>7. Marks'
    BY <1>1, <1>8, LeaveFacts
  <2>b. \A c \in Places \ {IO} : Layout'[c] = Layout[c]
    BY <1>1, <1>8, <2>5, Elsewhere DEF rings
  <2>d. Seats'
    BY <1>8, <2>5, <2>b, <1>g
  <2>e. QED BY <1>t, <2>5, <2>6, <2>7, <2>d
<1>9. QED BY <1>6, <1>7, <1>8 DEF IoSteer, Steer, rings

LEMMA DistinctFrames ==
  ASSUME NEW f \in Layouts, OnePlace(f), NEW a \in Places
  PROVE  Distinct(f[a])
BY DEF OnePlace, Distinct

LEMMA UptoOnly ==
  ASSUME NEW s \in Seq(Mbufs), Distinct(s), NEW M, NEW r \in Only(s, M), NEW n \in Nat
  PROVE  /\ Upto(r, n) \in Seq(Mbufs) /\ Len(Upto(r, n)) <= n /\ Distinct(Upto(r, n))
         /\ \A i \in 1 .. Len(Upto(r, n)) :
              Upto(r, n)[i] \in M /\ \E k \in 1 .. Len(s) : Upto(r, n)[i] = s[k]
         /\ \A i, j \in 1 .. Len(Upto(r, n)) :
              i < j => \E k, l \in 1 .. Len(s) :
                         k < l /\ Upto(r, n)[i] = s[k] /\ Upto(r, n)[j] = s[l]
<1> DEFINE q == Upto(r, n)
<1>1. /\ r \in Seq(Mbufs) /\ Distinct(r)
      /\ \A i \in 1 .. Len(r) : r[i] \in M /\ \E k \in 1 .. Len(s) : r[i] = s[k]
      /\ \A i, j \in 1 .. Len(r) :
           i < j => \E k, l \in 1 .. Len(s) : k < l /\ r[i] = s[k] /\ r[j] = s[l]
  BY OnlyKeeps
<1>2. /\ q \in Seq(Mbufs) /\ Len(q) <= n /\ Len(q) <= Len(r)
      /\ \A i \in 1 .. Len(q) : q[i] = r[i]
  BY <1>1, UptoFacts
<1>3. Len(q) \in Nat /\ Len(r) \in Nat
  BY <1>1, <1>2
<1> HIDE DEF q
<1>4. \A i \in 1 .. Len(q) : i \in 1 .. Len(r)
  BY <1>2, <1>3
<1>5. Distinct(q)
  BY <1>1, <1>2, <1>4 DEF Distinct
<1>6. QED BY <1>1, <1>2, <1>4, <1>5 DEF q

LEMMA ReplyClean ==
  ASSUME NEW o \in ArpHeader, Answers(o)
  PROVE  Clean(BuildReply(o), o) /\ BuildReply(o) # NoHeader
<1>1. BuildReply(o) = [type |-> "arp", op |-> "reply", sip |-> o.tip, tip |-> o.sip,
                       smac |-> self_mac, dmac |-> o.smac]
  BY DEF BuildReply, ArpHeader
<1>2. BuildReply(o) \in ArpHeader
  BY <1>1, AddressAssumption DEF ArpHeader
<1>3. BuildReply(o) # NoHeader
  BY <1>2, HeaderAssumption
<1>4. /\ BuildReply(o).type = "arp" /\ BuildReply(o).op = "reply"
      /\ BuildReply(o).smac = self_mac /\ BuildReply(o).dmac = o.smac
  BY <1>1
<1>5. QED BY <1>2, <1>3, <1>4 DEF Clean

\* All of place a leaves but what goes to place b.
LEMMA LostIs ==
  ASSUME NEW f \in Layouts, NEW a \in Places, NEW q \in Seq(Mbufs)
  PROVE  Elements(f[a]) \ Elements(q) = Lost(f, a, Len(f[a]), q)
<1>1. f[a] \in Seq(Mbufs)
  BY DEF Layouts
<1>2. /\ DOMAIN f[a] = 1 .. Len(f[a]) /\ DOMAIN q = 1 .. Len(q)
      /\ \A i \in 1 .. Len(f[a]) : f[a][i] \in Mbufs
  BY <1>1, LenProperties, ElementOfSeq
<1>3. QED BY <1>2 DEF Lost, Elements

LEMMA EnqueueBound ==
  ASSUME FramesOK, Bounds, NEW q \in Seq(Mbufs), Len(q) <= Room, egress' = egress \o q
  PROVE  egress' \in Seq(Mbufs) /\ Len(egress') <= kEgressRingSize
<1>1. egress \in Seq(Mbufs) /\ Len(egress) \in Nat /\ Len(q) \in Nat /\ kEgressRingSize \in Nat
  BY RingAssumption DEF FramesOK
<1>2. egress' \in Seq(Mbufs) /\ Len(egress') = Len(egress) + Len(q)
  BY <1>1, ConcatProperties
<1>3. QED BY <1>1, <1>2 DEF Room

LEMMA RoomType ==
  ASSUME FramesOK, Bounds
  PROVE  Room \in Nat
<1>1. Len(egress) \in Nat /\ kEgressRingSize \in Nat /\ Len(egress) <= kEgressRingSize
  BY RingAssumption DEF FramesOK, Bounds
<1>2. QED BY <1>1 DEF Room

LEMMA IoArpStep ==
  ASSUME IInv, IoArp
  PROVE  FramesOK' /\ Bounds' /\ Rest' /\ Marks' /\ TypedMaps' /\ Seats'
<1>1. /\ FramesOK /\ Bounds /\ Marks /\ TypedMaps /\ Seats
      /\ io_pc = "steer" /\ io_pc' = "tx" /\ io_frame = <<>> /\ io_frame' = io_frame
      /\ arp' = <<>> /\ ingress' = ingress
      /\ in_frame' = in_frame /\ out_frame' = out_frame /\ flows' = flows
  BY DEF IInv, IoArp, workers
<1> DEFINE A == {m \in Elements(arp) : Answers(hdr[m])}
<1>2. PICK replies \in Only(arp, A) :
        LET sent == Elements(Upto(replies, Room))
            gone == Elements(arp) \ sent
        IN  /\ Enqueue(replies)
            /\ hdr' = [m \in Mbufs |-> IF m \in gone THEN NoHeader
                                       ELSE IF m \in sent THEN BuildReply(hdr[m])
                                       ELSE hdr[m]]
            /\ orig' = [m \in Mbufs |-> IF m \in gone THEN NoHeader ELSE orig[m]]
            /\ before' = before \cap ((Mbufs \ gone) \X (Mbufs \ gone))
  BY DEF IoArp
<1> DEFINE q == Upto(replies, Room)
           gone == Elements(arp) \ Elements(q)
<1>3. /\ egress' = egress \o q
      /\ hdr' = [m \in Mbufs |-> IF m \in gone THEN NoHeader
                                 ELSE IF m \in Elements(q) THEN BuildReply(hdr[m])
                                 ELSE hdr[m]]
      /\ orig' = [m \in Mbufs |-> IF m \in gone THEN NoHeader ELSE orig[m]]
      /\ before' = before \cap ((Mbufs \ gone) \X (Mbufs \ gone))
  BY <1>2 DEF Enqueue
<1>4. /\ Layout \in Layouts /\ Layout[IO] = io_frame /\ Layout[ARP] = arp
      /\ Layout[EGRESS] = egress /\ arp \in Seq(Mbufs) /\ Len(arp) \in Nat
      /\ OnePlace(Layout)
  BY <1>1, LayoutFacts DEF FramesOK, Seats
<1>5. Distinct(arp) /\ Room \in Nat
  BY <1>1, <1>4, DistinctFrames, PlaceFacts, RoomType
<1>6. /\ q \in Seq(Mbufs) /\ Len(q) <= Room /\ Distinct(q)
      /\ \A i \in 1 .. Len(q) : q[i] \in A /\ \E k \in 1 .. Len(arp) : q[i] = arp[k]
      /\ \A i, j \in 1 .. Len(q) :
           i < j => \E k, l \in 1 .. Len(arp) : k < l /\ q[i] = arp[k] /\ q[j] = arp[l]
  <2> HIDE DEF A
  <2>1. arp \in Seq(Mbufs) /\ Distinct(arp) /\ Room \in Nat
    BY <1>4, <1>5
  <2>2. QED BY <2>1, UptoOnly, SMTT(30)
<1>7. /\ DOMAIN q = 1 .. Len(q) /\ DOMAIN arp = 1 .. Len(arp)
      /\ \A i \in 1 .. Len(q) : q[i] \in Mbufs
      /\ \A i \in 1 .. Len(arp) : arp[i] \in Mbufs
  BY <1>4, <1>6, LenProperties, ElementOfSeq
<1> HIDE DEF q
<1>8. egress' \in Seq(Mbufs) /\ Len(egress') <= kEgressRingSize
  BY <1>1, <1>3, <1>6, EnqueueBound
<1>9. FramesOK'
  BY <1>1, <1>8 DEF FramesOK
<1>a. Bounds'
  <2>1. Len(arp') = 0 /\ Len(io_frame') = 0 /\ kBurstSize \in Nat
    BY <1>1, RingAssumption
  <2>2. Len(io_frame') + Len(arp') <= kBurstSize
    BY <2>1
  <2>3. WorkerBounds'
    BY <1>1 DEF Bounds, WorkerBounds
  <2>4. QED BY <1>1, <1>8, <2>2, <2>3 DEF Bounds
<1>b. Rest' /\ TypedMaps'
  BY <1>1 DEF Rest, TypedMaps
\* What is in arp, and what is made of it.
<1>c. \A i \in 1 .. Len(q) : /\ orig[q[i]] \in ArpHeader /\ orig[q[i]] \in Headers
                             /\ hdr[q[i]] = orig[q[i]] /\ Answers(orig[q[i]])
  <2>1. SUFFICES ASSUME NEW i \in 1 .. Len(q)
                 PROVE  /\ orig[q[i]] \in ArpHeader /\ orig[q[i]] \in Headers
                        /\ hdr[q[i]] = orig[q[i]] /\ Answers(orig[q[i]])
    OBVIOUS
  <2>2. PICK l \in 1 .. Len(arp) : q[i] = arp[l]
    BY <1>6
  <2>3. Fit(ARP, hdr[q[i]], orig[q[i]]) /\ ARP[1] = "arp"
    BY <1>1, <1>4, <2>2, PlaceFacts DEF Seats, Fits, ARP
  <2>4. orig[q[i]] \in Headers /\ orig[q[i]].type = "arp" /\ hdr[q[i]] = orig[q[i]]
    BY <2>3 DEF Fit
  <2>5. Answers(hdr[q[i]])
    BY <1>6
  <2>6. QED BY <2>4, <2>5, HeaderAssumption
<1>d. \A i \in 1 .. Len(q) : hdr'[q[i]] = BuildReply(orig[q[i]])
  BY <1>3, <1>7, <1>c DEF Elements
<1>e. \A i \in 1 .. Len(q) : Clean(hdr'[q[i]], orig[q[i]]) /\ hdr'[q[i]] # NoHeader
  BY <1>c, <1>d, ReplyClean
<1>f. Marks'
  <2>1. ASSUME NEW m \in Mbufs
        PROVE  hdr'[m] \in Headers \cup IpHeader \cup ArpHeader \cup {NoHeader}
    <3>1. CASE m \in Elements(q)
      <4>1. PICK i \in 1 .. Len(q) : m = q[i]
        BY <1>7, <3>1 DEF Elements
      <4>2. Clean(hdr'[m], orig[m])
        BY <1>e, <4>1
      <4>3. QED BY <4>2 DEF Clean
    <3>2. CASE m \notin Elements(q)
      BY <1>1, <1>3, <3>2 DEF Marks
    <3>3. QED BY <3>1, <3>2
  <2>2. hdr' \in [Mbufs -> Headers \cup IpHeader \cup ArpHeader \cup {NoHeader}]
    <3>1. hdr' = [m \in Mbufs |-> hdr'[m]]
      BY <1>3
    <3>2. QED BY <2>1, <3>1
  <2>3. orig' \in [Mbufs -> Headers \cup {NoHeader}]
    BY <1>1, <1>3 DEF Marks
  <2>4. before' \subseteq Mbufs \X Mbufs
    BY <1>1, <1>3 DEF Marks
  <2>5. QED BY <2>2, <2>3, <2>4 DEF Marks
<1>g. gone = Lost(Layout, ARP, Len(arp), q)
  BY <1>4, <1>6, PlaceFacts, LostIs
<1>h. Moves(Layout, Layout', ARP, EGRESS, Len(arp), q)
  <2>1. ARP \in Places /\ EGRESS \in Places /\ ARP # EGRESS
    BY PlaceFacts DEF ARP, EGRESS
  <2>2. Layout' \in Layouts /\ Layout'[ARP] = <<>> /\ Layout'[EGRESS] = Layout[EGRESS] \o q
    BY <1>1, <1>3, <1>4, <1>9, LayoutFactsNext
  <2>3. /\ Len(Layout'[ARP]) = Len(Layout[ARP]) - Len(arp) /\ Len(arp) <= Len(Layout[ARP])
        /\ \A i \in 1 .. Len(Layout'[ARP]) : Layout'[ARP][i] = Layout[ARP][i + Len(arp)]
    BY <1>4, <2>2
  <2>4. \A c \in Places \ {ARP, EGRESS} : Layout'[c] = Layout[c]
    BY <1>1, <1>9, Elsewhere
  <2>5. \A i \in 1 .. Len(q) : \E l \in 1 .. Len(arp) : q[i] = Layout[ARP][l]
    BY <1>4, <1>6
  <2>6. QED BY <1>4, <1>6, <2>1, <2>2, <2>3, <2>4, <2>5, MovesIs
<1>i. Seats'
  <2>1. Layout' \in Layouts /\ Route(ARP, EGRESS) /\ EGRESS[1] = "egress"
    BY <1>9, LayoutFactsNext DEF Route, EGRESS
  <2>2. \A i \in 1 .. Len(q) : Fit(EGRESS, hdr'[q[i]], orig[q[i]])
    BY <1>c, <1>e, <2>1 DEF Fit
  <2>3. \A m \in Mbufs : m \in gone => hdr'[m] = NoHeader
    BY <1>3
  <2>4. \A m \in Mbufs : m \notin gone => orig'[m] = orig[m]
    BY <1>3
  <2>5. \A m \in Mbufs : m \notin gone /\ (\A i \in 1 .. Len(q) : q[i] # m) => hdr'[m] = hdr[m]
    BY <1>3, <1>7 DEF Elements
  <2>6. \A m, n \in Mbufs : m \notin gone /\ n \notin gone /\ <<m, n>> \in before =>
          <<m, n>> \in before'
    BY <1>3
  <2> HIDE DEF gone
  <2>7. \A i, j \in 1 .. Len(q) : i < j /\ orig[q[i]] = orig[q[j]] =>
          \E x, y \in 1 .. Len(arp) : x < y /\ q[i] = Layout[ARP][x] /\ q[j] = Layout[ARP][y]
    BY <1>4, <1>6
  <2>8. \A i \in 1 .. Len(q) : hdr'[q[i]] # NoHeader /\ Fit(EGRESS, hdr'[q[i]], orig[q[i]])
    BY <1>e, <2>2
  <2>9. Seats /\ Layout \in Layouts /\ Layout' \in Layouts
    BY <1>1, <1>4, <2>1
  <2>a. Len(q) = 0 \/ Route(ARP, EGRESS)
    BY <2>1
  <2>b. QED BY <1>g, <1>h, <2>3, <2>4, <2>5, <2>6, <2>7, <2>8, <2>9, <2>a, Advance, SMTT(30)
<1>j. QED BY <1>9, <1>a, <1>b, <1>f, <1>i

-----------------------------------------------------------------------------
(* The steps of a worker.                                                  *)

\* Two disjoint choices from one sequence are no longer than it.
LEMMA TwoChoices ==
  ASSUME NEW s \in Seq(Mbufs), NEW M, NEW N, M \cap N = {},
         NEW p \in Only(s, M), NEW r \in Only(s, N)
  PROVE  Len(p) + Len(r) <= Len(s)
<1>1. /\ IsFiniteSet(Picked(s, M)) /\ Len(p) = Cardinality(Picked(s, M))
      /\ IsFiniteSet(Picked(s, N)) /\ Len(r) = Cardinality(Picked(s, N))
  BY OnlyFacts
<1>2. Picked(s, M) \cap Picked(s, N) = {}
  BY DEF Picked
<1>3. Cardinality(Picked(s, M) \cap Picked(s, N)) = 0
  BY <1>2, FS_EmptySet
<1>n. Len(s) \in Nat
  BY LenProperties
<1>4. Len(s) \in Nat /\ IsFiniteSet(1 .. Len(s)) /\ Cardinality(1 .. Len(s)) = Len(s)
  BY <1>n, FS_Interval
<1>5. Picked(s, M) \cup Picked(s, N) \subseteq 1 .. Len(s)
  BY DEF Picked
<1>6. Cardinality(Picked(s, M) \cup Picked(s, N)) <= Len(s)
  BY <1>4, <1>5, FS_Subset
<1>7. Cardinality(Picked(s, M) \cup Picked(s, N))
        = Cardinality(Picked(s, M)) + Cardinality(Picked(s, N))
          - Cardinality(Picked(s, M) \cap Picked(s, N))
  BY <1>1, FS_Union
<1>8. Cardinality(Picked(s, M)) \in Nat /\ Cardinality(Picked(s, N)) \in Nat
  BY <1>1, FS_CardinalityType
<1>9. QED BY <1>1, <1>3, <1>4, <1>6, <1>7, <1>8

\* The packets of kNextFwd, then those of kNextRev.
LEMMA Merged ==
  ASSUME NEW s \in Seq(Mbufs), Distinct(s), NEW M, NEW N, M \cap N = {},
         NEW p \in Only(s, M), NEW r \in Only(s, N)
  PROVE  /\ p \o r \in Seq(Mbufs) /\ Len(p \o r) <= Len(s) /\ Distinct(p \o r)
         /\ \A i \in 1 .. Len(p \o r) : /\ (p \o r)[i] \in M \cup N
                                        /\ \E k \in 1 .. Len(s) : (p \o r)[i] = s[k]
         /\ \A i, j \in 1 .. Len(p \o r) : i < j =>
              \/ (p \o r)[i] \in M /\ (p \o r)[j] \in N
              \/ \E k, l \in 1 .. Len(s) : k < l /\ (p \o r)[i] = s[k] /\ (p \o r)[j] = s[l]
<1> DEFINE q == p \o r
<1>1. /\ p \in Seq(Mbufs) /\ Distinct(p)
      /\ \A i \in 1 .. Len(p) : p[i] \in M /\ \E k \in 1 .. Len(s) : p[i] = s[k]
      /\ \A i, j \in 1 .. Len(p) :
           i < j => \E k, l \in 1 .. Len(s) : k < l /\ p[i] = s[k] /\ p[j] = s[l]
  BY OnlyKeeps
<1>2. /\ r \in Seq(Mbufs) /\ Distinct(r)
      /\ \A i \in 1 .. Len(r) : r[i] \in N /\ \E k \in 1 .. Len(s) : r[i] = s[k]
      /\ \A i, j \in 1 .. Len(r) :
           i < j => \E k, l \in 1 .. Len(s) : k < l /\ r[i] = s[k] /\ r[j] = s[l]
  BY OnlyKeeps
<1>3. Len(p) \in Nat /\ Len(r) \in Nat /\ Len(p) + Len(r) <= Len(s)
  BY <1>1, <1>2, TwoChoices
<1>4. /\ q \in Seq(Mbufs) /\ Len(q) = Len(p) + Len(r)
      /\ \A i \in 1 .. Len(p) + Len(r) : q[i] = IF i <= Len(p) THEN p[i] ELSE r[i - Len(p)]
  BY <1>1, <1>2, ConcatProperties
<1> HIDE DEF q
<1>5. ASSUME NEW i \in 1 .. Len(q)
      PROVE  \/ i \in 1 .. Len(p) /\ q[i] = p[i] /\ q[i] \in M
             \/ i > Len(p) /\ i - Len(p) \in 1 .. Len(r) /\ q[i] = r[i - Len(p)] /\ q[i] \in N
  <2>1. CASE i <= Len(p)
    <3>1. i \in 1 .. Len(p) /\ i \in 1 .. Len(p) + Len(r)
      BY <1>3, <1>4, <2>1
    <3>2. q[i] = p[i]
      BY <1>4, <2>1, <3>1
    <3>3. QED BY <1>1, <3>1, <3>2
  <2>2. CASE ~(i <= Len(p))
    <3>1. i > Len(p) /\ i - Len(p) \in 1 .. Len(r) /\ i \in 1 .. Len(p) + Len(r)
      BY <1>3, <1>4, <2>2
    <3>2. q[i] = r[i - Len(p)]
      BY <1>4, <2>2, <3>1
    <3>3. QED BY <1>2, <3>1, <3>2
  <2>3. QED BY <2>1, <2>2
<1>6. Distinct(q)
  <2>1. SUFFICES ASSUME NEW i \in 1 .. Len(q), NEW j \in 1 .. Len(q), q[i] = q[j]
                 PROVE  i = j
    BY DEF Distinct
  <2>2. CASE q[i] \in M
    <3>1. i \in 1 .. Len(p) /\ q[i] = p[i] /\ j \in 1 .. Len(p) /\ q[j] = p[j]
      BY <1>5, <2>1, <2>2
    <3>2. p[i] = p[j]
      BY <2>1, <3>1
    <3>3. QED BY <1>1, <3>1, <3>2 DEF Distinct
  <2>3. CASE q[i] \in N
    <3>1. /\ i - Len(p) \in 1 .. Len(r) /\ q[i] = r[i - Len(p)]
          /\ j - Len(p) \in 1 .. Len(r) /\ q[j] = r[j - Len(p)]
      BY <1>5, <2>1, <2>3
    <3>2. i - Len(p) = j - Len(p)
      BY <1>2, <2>1, <3>1 DEF Distinct
    <3>3. i \in Int /\ j \in Int
      OBVIOUS
    <3>4. QED BY <1>3, <3>2, <3>3
  <2>4. QED BY <1>5, <2>2, <2>3
<1>7. \A i \in 1 .. Len(q) : q[i] \in M \cup N /\ \E k \in 1 .. Len(s) : q[i] = s[k]
  BY <1>1, <1>2, <1>5
<1>8. ASSUME NEW i \in 1 .. Len(q), NEW j \in 1 .. Len(q), i < j
      PROVE  \/ q[i] \in M /\ q[j] \in N
             \/ \E k, l \in 1 .. Len(s) : k < l /\ q[i] = s[k] /\ q[j] = s[l]
  <2>1. CASE j \in 1 .. Len(p) /\ q[j] = p[j]
    <3>1. i \in 1 .. Len(p)
      BY <1>3, <1>8, <2>1
    <3>2. q[i] = p[i]
      BY <1>3, <1>5, <3>1
    <3>3. QED BY <1>1, <1>8, <2>1, <3>1, <3>2
  <2>2. CASE j > Len(p) /\ j - Len(p) \in 1 .. Len(r) /\ q[j] = r[j - Len(p)] /\ q[j] \in N
    <3>1. CASE q[i] \in M
      BY <2>2, <3>1
    <3>2. CASE i > Len(p) /\ i - Len(p) \in 1 .. Len(r) /\ q[i] = r[i - Len(p)]
      <4>1. i - Len(p) < j - Len(p)
        BY <1>3, <1>8, <3>2
      <4>2. \E k, l \in 1 .. Len(s) : k < l /\ r[i - Len(p)] = s[k] /\ r[j - Len(p)] = s[l]
        BY <1>2, <2>2, <3>2, <4>1
      <4>3. QED BY <2>2, <3>2, <4>2
    <3>3. QED BY <1>5, <3>1, <3>2
  <2>3. QED BY <1>5, <2>1, <2>2
<1>9. Len(q) <= Len(s)
  BY <1>3, <1>4
<1>a. QED BY <1>4, <1>6, <1>7, <1>8, <1>9 DEF q

LEMMA WorkerRxStep ==
  ASSUME IInv, NEW w \in Workers, WorkerRx(w)
  PROVE  FramesOK' /\ Bounds' /\ Rest' /\ Marks' /\ TypedMaps' /\ Seats'
<1> DEFINE s == ingress[w]
           burst == Upto(s, kBurstSize)
           k == Lesser(kBurstSize, Len(s))
           F == Parsed("kNextFwd")
           R == Parsed("kNextRev")
           a == <<"ingress", w>>
           b == <<"in", w>>
<1>1. /\ FramesOK /\ Bounds /\ Rest /\ Marks /\ TypedMaps /\ Seats
      /\ in_frame[w] = <<>> /\ out_frame[w] = <<>>
      /\ ingress' = [ingress EXCEPT ![w] = After(s, kBurstSize)]
      /\ io_pc' = io_pc /\ io_frame' = io_frame /\ arp' = arp /\ egress' = egress
      /\ out_frame' = out_frame /\ flows' = flows
  BY DEF IInv, WorkerRx, Idle, io
<1>2. PICK fwd \in Only(burst, F), rev \in Only(burst, R) :
        /\ in_frame' = [in_frame EXCEPT ![w] = fwd \o rev]
        /\ Leave(Elements(burst) \ Elements(fwd \o rev))
  BY DEF WorkerRx
<1> DEFINE q == fwd \o rev
           gone == Elements(burst) \ Elements(q)
<1>3. /\ ingress \in [Workers -> Seq(Mbufs)] /\ in_frame \in [Workers -> Seq(Mbufs)]
      /\ out_frame \in [Workers -> Seq(Mbufs)] /\ s \in Seq(Mbufs) /\ Len(s) \in Nat
      /\ kBurstSize \in Nat
  <2>1. /\ ingress \in [Workers -> Seq(Mbufs)] /\ in_frame \in [Workers -> Seq(Mbufs)]
        /\ out_frame \in [Workers -> Seq(Mbufs)] /\ kBurstSize \in Nat
    BY <1>1, RingAssumption DEF FramesOK
  <2>2. s \in Seq(Mbufs)
    BY <2>1
  <2>3. QED BY <2>1, <2>2
<1>4. a \in Places /\ b \in Places /\ a # b /\ b[1] = "in" /\ b[2] = w /\ a[1] = "ingress"
      /\ a[2] = w /\ Route(a, b)
  BY PlaceFacts DEF Route
<1>5. /\ Layout \in Layouts /\ Layout[a] = s /\ Layout[b] = <<>> /\ OnePlace(Layout)
  BY <1>1, LayoutFacts DEF Seats
<1>v. /\ \A v \in Workers : <<"ingress", v>> # a => v # w
      /\ \A v \in Workers : <<"in", v>> # b => v # w
  OBVIOUS
<1>p. /\ F \cap R = {} /\ F \subseteq InUse /\ R \subseteq InUse
      /\ \A m \in F : Classify(hdr[m]) = "kNextFwd"
      /\ \A m \in R : Classify(hdr[m]) = "kNextRev"
  BY DEF Parsed
<1>6. Distinct(s)
  BY <1>4, <1>5, DistinctFrames
<1> HIDE DEF a, b
<1>7. /\ burst \in Seq(Mbufs) /\ Len(burst) = k /\ k \in Nat /\ k <= Len(s) /\ k <= kBurstSize
      /\ \A i \in 1 .. k : burst[i] = s[i]
  <2>1. /\ burst \in Seq(Mbufs) /\ Len(burst) = k
        /\ Len(burst) <= kBurstSize /\ Len(burst) <= Len(s)
        /\ \A i \in 1 .. Len(burst) : burst[i] = s[i]
    BY <1>3, UptoFacts
  <2>2. k \in Nat
    BY <1>3 DEF Lesser
  <2>3. QED BY <2>1, <2>2
<1>8. /\ After(s, kBurstSize) \in Seq(Mbufs) /\ Len(After(s, kBurstSize)) = Len(s) - k
      /\ \A i \in 1 .. Len(After(s, kBurstSize)) : After(s, kBurstSize)[i] = s[i + k]
  BY <1>3, AfterFacts
<1> HIDE DEF k, burst, F, R
<1>9. Distinct(burst)
  <2>1. \A i \in 1 .. k : i \in 1 .. Len(s)
    BY <1>3, <1>7
  <2>2. QED BY <1>6, <1>7, <2>1 DEF Distinct
<1>a. /\ q \in Seq(Mbufs) /\ Len(q) <= k /\ Distinct(q)
      /\ \A i \in 1 .. Len(q) : /\ q[i] \in F \cup R
                                /\ \E l \in 1 .. k : q[i] = burst[l]
      /\ \A i, j \in 1 .. Len(q) : i < j =>
           \/ q[i] \in F /\ q[j] \in R
           \/ \E x, y \in 1 .. k : x < y /\ q[i] = burst[x] /\ q[j] = burst[y]
  <2>1. F \cap R = {}
    BY <1>p
  <2>2. burst \in Seq(Mbufs) /\ Len(burst) = k
    BY <1>7
  <2>3. /\ q \in Seq(Mbufs) /\ Len(q) <= Len(burst) /\ Distinct(q)
        /\ \A i \in 1 .. Len(q) : /\ q[i] \in F \cup R
                                  /\ \E l \in 1 .. Len(burst) : q[i] = burst[l]
        /\ \A i, j \in 1 .. Len(q) : i < j =>
             \/ q[i] \in F /\ q[j] \in R
             \/ \E x, y \in 1 .. Len(burst) : x < y /\ q[i] = burst[x] /\ q[j] = burst[y]
    BY <1>9, <2>1, <2>2, Merged
  <2> HIDE DEF q
  <2>4. QED BY <2>2, <2>3
<1>b. /\ in_frame' = [in_frame EXCEPT ![w] = q] /\ Leave(gone)
  BY <1>2
<1> HIDE DEF q
<1>c. /\ ingress' \in [Workers -> Seq(Mbufs)] /\ in_frame' \in [Workers -> Seq(Mbufs)]
      /\ ingress'[w] = After(s, kBurstSize) /\ in_frame'[w] = q
      /\ \A v \in Workers : v # w => ingress'[v] = ingress[v] /\ in_frame'[v] = in_frame[v]
  BY <1>1, <1>3, <1>8, <1>a, <1>b
<1>d. FramesOK'
  BY <1>1, <1>c DEF FramesOK
<1>e. Bounds'
  <2>1. Len(ingress'[w]) <= kRingSize
    <3>1. Len(s) <= kRingSize /\ kRingSize \in Nat
      BY <1>1, RingAssumption DEF Bounds, WorkerBounds
    <3>2. QED BY <1>3, <1>7, <1>8, <1>c, <3>1
  <2>2. Len(in_frame'[w]) + Len(out_frame'[w]) <= kBurstSize
    <3>1. Len(out_frame'[w]) = 0 /\ Len(q) \in Nat
      BY <1>1, <1>a
    <3>2. QED BY <1>3, <1>7, <1>a, <1>c, <3>1
  <2>3. WorkerBounds'
    BY <1>1, <1>c, <2>1, <2>2 DEF Bounds, WorkerBounds
  <2>4. QED BY <1>1, <2>3 DEF Bounds
<1>f. Rest' /\ TypedMaps' /\ Marks'
  BY <1>1, <1>b, LeaveFacts DEF Rest, TypedMaps
<1>g. gone = Lost(Layout, a, k, q)
  <2>1. /\ DOMAIN burst = 1 .. k /\ DOMAIN q = 1 .. Len(q)
        /\ \A i \in 1 .. k : burst[i] \in Mbufs /\ burst[i] = Layout[a][i]
    BY <1>5, <1>7, <1>a, LenProperties, ElementOfSeq
  <2> HIDE DEF s
  <2>2. QED BY <2>1 DEF Lost, Elements
<1>h. Layout' \in Layouts /\ Layout'[a] = After(s, kBurstSize) /\ Layout'[b] = q
  BY <1>c, <1>d, LayoutFactsNext DEF a, b
<1>i. Moves(Layout, Layout', a, b, k, q)
  <2>1. \A c \in Places \ {a, b} : Layout'[c] = Layout[c]
    BY <1>1, <1>c, <1>d, <1>v, Elsewhere
  <2>2. Layout'[b] = Layout[b] \o q
    BY <1>5, <1>a, <1>h, ConcatEmptySeq
  <2>3. \A i \in 1 .. Len(q) : \E l \in 1 .. k : q[i] = Layout[a][l]
    BY <1>5, <1>7, <1>a
  <2>4. /\ Len(Layout'[a]) = Len(Layout[a]) - k /\ k <= Len(Layout[a])
        /\ \A i \in 1 .. Len(Layout'[a]) : Layout'[a][i] = Layout[a][i + k]
    BY <1>5, <1>7, <1>8, <1>h
  <2>5. k \in Nat /\ q \in Seq(Mbufs) /\ Distinct(q)
    BY <1>7, <1>a
  <2>6. QED BY <1>4, <1>5, <1>h, <2>1, <2>2, <2>3, <2>4, <2>5, MovesIs
<1>j. ASSUME NEW i \in 1 .. Len(q)
      PROVE  /\ hdr[q[i]] = orig[q[i]] /\ hdr'[q[i]] # NoHeader
             /\ Fit(b, hdr'[q[i]], orig[q[i]])
  <2>1. PICK l \in 1 .. k : q[i] = burst[l]
    BY <1>a
  <2>2. l \in 1 .. Len(s) /\ q[i] = Layout[a][l] /\ q[i] \in Mbufs
    <3>1. l \in 1 .. Len(s)
      BY <1>3, <1>7
    <3>2. q[i] \in Mbufs
      BY <1>a, ElementOfSeq
    <3>3. QED BY <1>5, <1>7, <2>1, <3>1, <3>2
  <2>3. Fit(a, hdr[q[i]], orig[q[i]])
    BY <1>1, <1>4, <1>5, <2>2 DEF Seats, Fits
  <2>4. /\ hdr[q[i]] = orig[q[i]] /\ orig[q[i]] \in Headers
        /\ ClassifyForSteer(orig[q[i]]) = [cls |-> "kSteer", worker |-> w]
    BY <1>4, <2>3 DEF Fit
  <2>5. q[i] \notin gone
    <3>1. DOMAIN q = 1 .. Len(q)
      BY <1>a, LenProperties
    <3>2. QED BY <3>1 DEF Elements
  <2>6. hdr'[q[i]] = hdr[q[i]]
    BY <1>1, <1>b, <2>2, <2>5, LeaveFacts
  <2>7. Classify(orig[q[i]]) \in {"kNextFwd", "kNextRev"}
    BY <1>a, <1>p, <2>4
  <2>8. Fit(b, hdr'[q[i]], orig[q[i]])
    BY <1>4, <2>4, <2>6, <2>7 DEF Fit
  <2>9. QED BY <2>4, <2>6, <2>8, HeaderAssumption
<1>k. ASSUME NEW i \in 1 .. Len(q), NEW j \in 1 .. Len(q), i < j, orig[q[i]] = orig[q[j]]
      PROVE  \E x, y \in 1 .. k : x < y /\ q[i] = Layout[a][x] /\ q[j] = Layout[a][y]
  <2>1. ~(q[i] \in F /\ q[j] \in R)
    <3>1. hdr[q[i]] = hdr[q[j]]
      BY <1>j, <1>k
    <3>2. QED BY <1>p, <3>1
  <2>2. \E x, y \in 1 .. k : x < y /\ q[i] = burst[x] /\ q[j] = burst[y]
    BY <1>a, <1>k, <2>1
  <2>3. QED BY <1>5, <1>7, <2>2
<1>l. Seats'
  <2> HIDE DEF gone
  <2>1. /\ \A m \in Mbufs : m \in gone => hdr'[m] = NoHeader
        /\ \A m \in Mbufs : m \notin gone => hdr'[m] = hdr[m] /\ orig'[m] = orig[m]
        /\ \A m, n \in Mbufs :
             m \notin gone /\ n \notin gone /\ <<m, n>> \in before => <<m, n>> \in before'
    BY <1>1, <1>b, LeaveFacts
  <2>2. \A m \in Mbufs : m \notin gone => orig'[m] = orig[m]
    BY <2>1
  <2>3. \A m \in Mbufs : m \notin gone /\ (\A i \in 1 .. Len(q) : q[i] # m) => hdr'[m] = hdr[m]
    BY <2>1
  <2>4. \A i \in 1 .. Len(q) : hdr'[q[i]] # NoHeader /\ Fit(b, hdr'[q[i]], orig[q[i]])
    BY <1>j
  <2>5. Len(q) = 0 \/ Route(a, b)
    BY <1>4
  <2>6. \A i, j \in 1 .. Len(q) : i < j /\ orig[q[i]] = orig[q[j]] =>
          \E x, y \in 1 .. k : x < y /\ q[i] = Layout[a][x] /\ q[j] = Layout[a][y]
    BY <1>k
  <2>7. Seats
    BY <1>1
  <2>8. Layout \in Layouts /\ Layout' \in Layouts
    BY <1>5, <1>h
  <2>9. QED BY <1>g, <1>i, <2>1, <2>2, <2>3, <2>4, <2>5, <2>6, <2>7, <2>8, Advance, SMTT(30)
<1>m. QED BY <1>d, <1>e, <1>f, <1>l

LEMMA WorkerTxStep ==
  ASSUME IInv, NEW w \in Workers, WorkerTx(w)
  PROVE  FramesOK' /\ Bounds' /\ Rest' /\ Marks' /\ TypedMaps' /\ Seats'
<1> DEFINE s == out_frame[w]
           q == Upto(s, Room)
           gone == Elements(After(s, Room))
           a == <<"out", w>>
<1>1. /\ FramesOK /\ Bounds /\ Rest /\ Marks /\ TypedMaps /\ Seats
      /\ in_frame[w] = <<>> /\ egress' = egress \o q /\ Leave(gone)
      /\ out_frame' = [out_frame EXCEPT ![w] = <<>>]
      /\ io_pc' = io_pc /\ io_frame' = io_frame /\ arp' = arp /\ ingress' = ingress
      /\ in_frame' = in_frame /\ flows' = flows
  BY DEF IInv, WorkerTx, Enqueue, io
<1>2. out_frame \in [Workers -> Seq(Mbufs)] /\ s \in Seq(Mbufs) /\ Len(s) \in Nat
  <2>1. out_frame \in [Workers -> Seq(Mbufs)]
    BY <1>1 DEF FramesOK
  <2>2. s \in Seq(Mbufs)
    BY <2>1
  <2>3. QED BY <2>1, <2>2
<1>3. Room \in Nat
  BY <1>1, RoomType
<1>4. a \in Places /\ EGRESS \in Places /\ a # EGRESS /\ a[1] = "out"
      /\ EGRESS[1] = "egress" /\ Route(a, EGRESS)
  BY PlaceFacts DEF Route, EGRESS
<1>5. Layout \in Layouts /\ Layout[a] = s /\ Layout[EGRESS] = egress /\ OnePlace(Layout)
  BY <1>1, LayoutFacts DEF Seats
<1>v. \A v \in Workers : <<"out", v>> # a => v # w
  OBVIOUS
<1>6. Distinct(s)
  BY <1>4, <1>5, DistinctFrames
<1> HIDE DEF a
<1>7. /\ q \in Seq(Mbufs) /\ Len(q) = Lesser(Room, Len(s)) /\ Len(q) <= Room /\ Len(q) <= Len(s)
      /\ \A i \in 1 .. Len(q) : q[i] = s[i]
  BY <1>2, <1>3, UptoFacts
<1>8. /\ After(s, Room) \in Seq(Mbufs) /\ Len(After(s, Room)) = Len(s) - Lesser(Room, Len(s))
      /\ \A i \in 1 .. Len(After(s, Room)) : After(s, Room)[i] = s[i + Lesser(Room, Len(s))]
  BY <1>2, <1>3, AfterFacts
<1> DEFINE r == After(s, Room)
<1>9. /\ Len(q) \in Nat /\ Len(r) = Len(s) - Len(q) /\ Len(r) \in Nat
      /\ \A i \in 1 .. Len(r) : r[i] = s[i + Len(q)]
      /\ DOMAIN r = 1 .. Len(r) /\ DOMAIN s = 1 .. Len(s) /\ DOMAIN q = 1 .. Len(q)
      /\ \A i \in 1 .. Len(s) : s[i] \in Mbufs
  BY <1>2, <1>7, <1>8, LenProperties, ElementOfSeq
<1>a. gone = Lost(Layout, a, Len(s), q)
  <2> HIDE DEF q, r, s
  <2>0. gone = {r[i] : i \in 1 .. Len(r)}
    BY <1>9 DEF r, Elements
  <2>1. ASSUME NEW m \in gone PROVE m \in Lost(Layout, a, Len(s), q)
    <3>1. PICK i \in 1 .. Len(r) : m = r[i]
      BY <2>0
    <3>2. i + Len(q) \in 1 .. Len(s) /\ m = s[i + Len(q)] /\ m \in Mbufs
      <4>1. i + Len(q) \in 1 .. Len(s)
        BY <1>2, <1>9
      <4>2. QED BY <1>9, <3>1, <4>1
    <3>3. \A j \in 1 .. Len(q) : j \in 1 .. Len(s) /\ j # i + Len(q)
      BY <1>2, <1>7, <1>9
    <3>4. \A j \in 1 .. Len(q) : q[j] # m
      BY <1>6, <1>7, <3>2, <3>3 DEF Distinct
    <3>5. QED BY <1>5, <3>2, <3>4 DEF Lost
  <2>2. ASSUME NEW m \in Lost(Layout, a, Len(s), q) PROVE m \in gone
    <3>1. PICK l \in 1 .. Len(s) : m = s[l]
      BY <1>5 DEF Lost
    <3>2. \A j \in 1 .. Len(q) : q[j] # m
      BY DEF Lost
    <3>3. l > Len(q)
      <4>1. CASE l <= Len(q)
        <5>1. l \in 1 .. Len(q)
          BY <1>2, <1>9, <4>1
        <5>2. QED BY <1>7, <3>1, <3>2, <5>1
      <4>2. QED BY <1>2, <1>9, <4>1
    <3>4. l - Len(q) \in 1 .. Len(r) /\ (l - Len(q)) + Len(q) = l
      BY <1>2, <1>9, <3>3
    <3>5. r[l - Len(q)] = s[l]
      BY <1>9, <3>4
    <3>6. QED BY <2>0, <3>1, <3>4, <3>5
  <2>3. QED BY <2>1, <2>2
<1> HIDE DEF q, gone
<1>b. out_frame' \in [Workers -> Seq(Mbufs)] /\ out_frame'[w] = <<>>
      /\ \A v \in Workers : v # w => out_frame'[v] = out_frame[v]
  BY <1>1, <1>2
<1>c. egress' \in Seq(Mbufs) /\ Len(egress') <= kEgressRingSize
  BY <1>1, <1>7, EnqueueBound
<1>d. FramesOK'
  BY <1>1, <1>b, <1>c DEF FramesOK
<1>e. Bounds'
  <2>1. Len(in_frame'[w]) + Len(out_frame'[w]) <= kBurstSize
    <3>1. Len(in_frame'[w]) = 0 /\ Len(out_frame'[w]) = 0 /\ kBurstSize \in Nat
      BY <1>1, <1>b, RingAssumption
    <3>2. QED BY <3>1
  <2>2. WorkerBounds'
    BY <1>1, <1>b, <2>1 DEF Bounds, WorkerBounds
  <2>3. QED BY <1>1, <1>c, <2>2 DEF Bounds
<1>f. Rest' /\ TypedMaps' /\ Marks'
  BY <1>1, LeaveFacts DEF Rest, TypedMaps
<1>h. Layout' \in Layouts /\ Layout'[a] = <<>> /\ Layout'[EGRESS] = Layout[EGRESS] \o q
  BY <1>1, <1>5, <1>b, <1>d, LayoutFactsNext DEF a
<1>i. Moves(Layout, Layout', a, EGRESS, Len(s), q)
  <2>1. \A c \in Places \ {a, EGRESS} : Layout'[c] = Layout[c]
    BY <1>1, <1>b, <1>d, <1>v, Elsewhere
  <2>3. \A i \in 1 .. Len(q) : \E l \in 1 .. Len(s) : q[i] = Layout[a][l]
    <3>1. \A i \in 1 .. Len(q) : i \in 1 .. Len(s)
      BY <1>2, <1>7, <1>9
    <3>2. QED BY <1>5, <1>7, <3>1
  <2>4. /\ Len(Layout'[a]) = Len(Layout[a]) - Len(s) /\ Len(s) <= Len(Layout[a])
        /\ \A i \in 1 .. Len(Layout'[a]) : Layout'[a][i] = Layout[a][i + Len(s)]
    BY <1>2, <1>5, <1>h
  <2>5. Len(s) \in Nat /\ q \in Seq(Mbufs) /\ Distinct(q)
    <3>1. \A i \in 1 .. Len(q) : i \in 1 .. Len(s)
      BY <1>2, <1>7, <1>9
    <3>2. QED BY <1>2, <1>6, <1>7, <3>1 DEF Distinct
  <2>6. QED BY <1>4, <1>5, <1>h, <2>1, <2>3, <2>4, <2>5, MovesIs
<1>j. ASSUME NEW i \in 1 .. Len(q)
      PROVE  hdr'[q[i]] # NoHeader /\ Fit(EGRESS, hdr'[q[i]], orig[q[i]])
  <2>1. i \in 1 .. Len(s) /\ q[i] = Layout[a][i] /\ q[i] \in Mbufs
    <3>1. i \in 1 .. Len(s)
      BY <1>2, <1>7, <1>9
    <3>2. QED BY <1>5, <1>7, <1>9, <3>1
  <2>3. Fit(a, hdr[q[i]], orig[q[i]])
    BY <1>1, <1>4, <1>5, <2>1 DEF Seats, Fits
  <2>4. Clean(hdr[q[i]], orig[q[i]]) /\ orig[q[i]] \in Headers
    BY <1>4, <2>3 DEF Fit
  <2>5. q[i] \notin gone
    BY <1>a DEF Lost
  <2>6. hdr'[q[i]] = hdr[q[i]]
    BY <1>1, <2>1, <2>5, LeaveFacts
  <2>7. hdr[q[i]] # NoHeader
    BY <2>4, HeaderAssumption DEF Clean
  <2>8. Fit(EGRESS, hdr'[q[i]], orig[q[i]])
    BY <1>4, <2>4, <2>6 DEF Fit
  <2>9. QED BY <2>6, <2>7, <2>8
<1>k. \A i, j \in 1 .. Len(q) : i < j /\ orig[q[i]] = orig[q[j]] =>
        \E x, y \in 1 .. Len(s) : x < y /\ q[i] = Layout[a][x] /\ q[j] = Layout[a][y]
  <2>1. \A i \in 1 .. Len(q) : i \in 1 .. Len(s) /\ q[i] = Layout[a][i]
    BY <1>2, <1>5, <1>7, <1>9
  <2>2. QED BY <2>1
<1>l. Seats'
  <2>1. /\ \A m \in Mbufs : m \in gone => hdr'[m] = NoHeader
        /\ \A m \in Mbufs : m \notin gone => hdr'[m] = hdr[m] /\ orig'[m] = orig[m]
        /\ \A m, n \in Mbufs :
             m \notin gone /\ n \notin gone /\ <<m, n>> \in before => <<m, n>> \in before'
    BY <1>1, LeaveFacts
  <2>2. \A m \in Mbufs : m \notin gone => orig'[m] = orig[m]
    BY <2>1
  <2>3. \A m \in Mbufs : m \notin gone /\ (\A i \in 1 .. Len(q) : q[i] # m) => hdr'[m] = hdr[m]
    BY <2>1
  <2>4. \A i \in 1 .. Len(q) : hdr'[q[i]] # NoHeader /\ Fit(EGRESS, hdr'[q[i]], orig[q[i]])
    BY <1>j
  <2>5. Len(q) = 0 \/ Route(a, EGRESS)
    BY <1>4
  <2>6. Seats
    BY <1>1
  <2> HIDE DEF s
  <2>7. Layout \in Layouts /\ Layout' \in Layouts
    BY <1>5, <1>h
  <2>8. QED BY <1>a, <1>i, <1>k, <2>1, <2>2, <2>3, <2>4, <2>5, <2>6, <2>7, Advance, SMTT(30)
<1>m. QED BY <1>d, <1>e, <1>f, <1>l

\* What DnatNode and EtherRewriteNode make of a packet of flow e.
LEMMA ForwardClean ==
  ASSUME NEW w \in Workers, NEW o \in Headers, NEW dir, dir = Classify(o),
         dir \in {"kNextFwd", "kNextRev"},
         ClassifyForSteer(o) = [cls |-> "kSteer", worker |-> w],
         NEW e \in Learned, e.port \in PortsOf(w)
  PROVE  LET h == EtherRewrite(Rewrite(o, dir, e), dir, e)
         IN  Clean(h, o) /\ h # NoHeader
<1> DEFINE h == EtherRewrite(Rewrite(o, dir, e), dir, e)
<1>1. o.type = "ipv4" /\ o.proto \in L4 /\ o \in IpHeader
  BY ParsedFacts, HeaderAssumption
<1>2. /\ e.b \in Backends /\ e.port \in Nat /\ e.port % NWorkers = w
      /\ e.key.src \in Clients /\ e.client_mac \in Macs
      /\ e.client_mac \in ClientMacs(e.key.src)
  BY SteeringAssumption DEF Learned, Flow, PortsOf, Keys
<1>3. Backend[e.b] \in Endpoints /\ e.key.src \in Endpoints /\ Vip \in Endpoints
      /\ self_ip \in Addresses /\ self_mac \in Macs
  BY <1>2, AddressAssumption
<1>4. /\ <<self_ip, e.port>> \in Endpoints
      /\ BackendMac[e.b] \in Macs
  BY <1>2, <1>3, AddressAssumption DEF Endpoints
<1>5. ClassifyForSteer(o).worker = w
  OBVIOUS
<1>6. CASE dir = "kNextFwd"
  <2>1. h = [type |-> "ipv4", proto |-> o.proto, src |-> <<self_ip, e.port>>,
             dst |-> Backend[e.b], smac |-> self_mac, dmac |-> BackendMac[e.b]]
    BY <1>1, <1>6 DEF EtherRewrite, Rewrite, Between, Framed
  <2> HIDE DEF h
  <2>2. h \in IpHeader
    BY <1>1, <1>3, <1>4, <2>1 DEF IpHeader
  <2>3. /\ h.type = "ipv4" /\ h.smac = self_mac /\ h.dmac = BackendMac[e.b]
        /\ h.src[1] = self_ip /\ h.src[2] = e.port /\ h.dst = Backend[e.b]
    BY <2>1
  <2>4. Clean(h, o)
    BY <1>2, <1>5, <1>6, <2>2, <2>3 DEF Clean
  <2>5. QED BY <2>2, <2>4, HeaderAssumption DEF h
<1>7. CASE dir = "kNextRev"
  <2>1. h = [type |-> "ipv4", proto |-> o.proto, src |-> Vip,
             dst |-> e.key.src, smac |-> self_mac, dmac |-> e.client_mac]
    BY <1>1, <1>7 DEF EtherRewrite, Rewrite, Between, Framed
  <2> HIDE DEF h
  <2>2. h \in IpHeader
    BY <1>1, <1>2, <1>3, <1>4, <2>1 DEF IpHeader
  <2>3. /\ h.type = "ipv4" /\ h.smac = self_mac /\ h.dmac = e.client_mac
        /\ h.src = Vip /\ h.dst = e.key.src
    BY <2>1
  <2>4. Clean(h, o)
    BY <1>2, <1>7, <2>2, <2>3 DEF Clean
  <2>5. QED BY <2>2, <2>4, HeaderAssumption DEF h
<1>8. QED BY <1>6, <1>7

\* What LbNode does with packet m: it is dropped, or translated with a flow e
\* of worker w, and the map keeps its kind.
LEMMA LbCases ==
  ASSUME IInv, NEW w \in Workers, WorkerLb(w), NEW m, m = Head(in_frame[w])
  PROVE  /\ TypedMaps'
         /\ \/ Dropped(m)
            \/ \E e \in Learned : e.port \in PortsOf(w) /\ Forwarded(w, m, e)
<1>1. FlowsInv /\ TypedMaps
  BY DEF IInv
<1>2. GoodMap(flows[w], w) /\ flows[w].bound \cup flows[w].parked \subseteq Learned
  BY <1>1 DEF FlowsInv, TypedMaps
<1>t. ASSUME NEW g, flows' = [flows EXCEPT ![w] = g], g.bound \cup g.parked \subseteq Learned
      PROVE  TypedMaps'
  BY <1>1, <1>t DEF TypedMaps, FlowsInv
<1>r. ASSUME NEW f \in FM!Reaped(flows[w])
      PROVE  GoodMap(f, w) /\ f.bound \cup f.parked \subseteq Learned
  BY <1>2, ReapedGood
<1>3. CASE LbHit(w, m)
  <2>1. PICK f \in FM!Reaped(flows[w]) :
          \E e \in f.bound : Becomes(w, FM!Hit(f, e)) /\ Forwarded(w, m, e)
    BY <1>3 DEF LbHit
  <2>2. PICK e \in f.bound : Becomes(w, FM!Hit(f, e)) /\ Forwarded(w, m, e)
    BY <2>1
  <2>3. PICK g \in FM!Hit(f, e) : flows' = [flows EXCEPT ![w] = g]
    BY <2>2 DEF Becomes
  <2>4. g.bound \cup g.parked \subseteq Learned
    BY <1>r, HitGood
  <2>5. e \in Learned /\ e.port \in PortsOf(w)
    BY <1>r DEF GoodMap
  <2>6. QED BY <1>t, <2>2, <2>3, <2>4, <2>5
<1>4. CASE LbRefuse(w, m)
  <2>1. PICK g \in FM!Reaped(flows[w]) : flows' = [flows EXCEPT ![w] = g]
    BY <1>4 DEF LbRefuse, Becomes
  <2>2. QED BY <1>4, <1>r, <1>t, <2>1 DEF LbRefuse
<1>5. CASE LbOpen(w, m)
  <2>1. PICK f \in FM!Reaped(flows[w]), b \in Backends, p \in PortsOf(w) :
          LET e == [key |-> KeyOf(hdr[m]), b |-> b, port |-> p,
                    client_mac |-> hdr[m].smac] IN
          /\ FM!Fresh(f, e)
          /\ \E v \in FM!Evicted(f) : Becomes(w, FM!Opened(v, e))
          /\ Forwarded(w, m, e)
    BY <1>5 DEF LbOpen
  <2> DEFINE e == [key |-> KeyOf(hdr[m]), b |-> b, port |-> p, client_mac |-> hdr[m].smac]
  <2>2. e \in Learned /\ e.b \in Backends /\ e.port \in PortsOf(w) /\ e.key.proto \in L4
    <3>1. Classify(hdr[m]) = "kNextFwd"
      BY <1>5 DEF LbOpen
    <3>2. hdr[m] \in Headers
      <4>1. FramesOK /\ Seats
        BY DEF IInv
      <4>2. in_frame[w] \in Seq(Mbufs) /\ in_frame[w] # <<>>
        BY <4>1 DEF FramesOK, WorkerLb
      <4>3. m = in_frame[w][1] /\ 1 \in 1 .. Len(in_frame[w])
        BY <4>2, HeadTail
      <4>4. Layout[<<"in", w>>] = in_frame[w] /\ <<"in", w>> \in Places
        BY <4>1, LayoutFacts, PlaceFacts
      <4>5. Fit(<<"in", w>>, hdr[m], orig[m])
        BY <4>1, <4>3, <4>4 DEF Seats, Fits
      <4>6. QED BY <4>5 DEF Fit
    <3>3. hdr[m].type = "ipv4" /\ hdr[m].dst = Vip /\ hdr[m].proto \in L4
          /\ hdr[m].src \in Clients /\ hdr[m] \in IpHeader
      BY <3>1, <3>2, ParsedFacts, HeaderAssumption
    <3>4. KeyOf(hdr[m]) \in Keys /\ KeyOf(hdr[m]).proto \in L4
          /\ KeyOf(hdr[m]).src = hdr[m].src
      BY <3>3 DEF KeyOf, Keys
    <3>5. p \in Low .. High
      BY DEF PortsOf
    <3>6. hdr[m].smac \in Macs /\ hdr[m].smac \in ClientMacs(hdr[m].src)
      BY <3>2, <3>3 DEF IpHeader, ClientMacs
    <3>7. QED BY <3>4, <3>5, <3>6 DEF Flow, Learned
  <2>3. FM!Fresh(f, e) /\ Forwarded(w, m, e)
    BY <2>1
  <2>4. PICK v \in FM!Evicted(f) : Becomes(w, FM!Opened(v, e))
    BY <2>1
  <2>5. PICK g \in FM!Opened(v, e) : flows' = [flows EXCEPT ![w] = g]
    BY <2>4 DEF Becomes
  <2> HIDE DEF e
  <2>6. g.bound \cup g.parked \subseteq Learned
    <3>1. GoodMap(f, w) /\ f.bound \cup f.parked \subseteq Learned
      BY <1>r
    <3>2. g.bound \subseteq f.bound \cup {e} /\ g.parked \subseteq f.parked
      BY <2>2, <2>3, <3>1, OpenGood
    <3>3. QED BY <2>2, <3>1, <3>2
  <2>7. QED BY <1>t, <2>2, <2>3, <2>5, <2>6
<1>6. QED BY <1>3, <1>4, <1>5 DEF WorkerLb

LEMMA WorkerLbStep ==
  ASSUME IInv, NEW w \in Workers, WorkerLb(w)
  PROVE  FramesOK' /\ Bounds' /\ Rest' /\ Marks' /\ TypedMaps' /\ Seats'
<1> DEFINE s == in_frame[w]
           m == Head(s)
           a == <<"in", w>>
           b == <<"out", w>>
<1>1. /\ FramesOK /\ Bounds /\ Rest /\ Marks /\ Seats
      /\ in_frame[w] # <<>> /\ in_frame' = [in_frame EXCEPT ![w] = Tail(s)]
      /\ io_pc' = io_pc /\ io_frame' = io_frame /\ arp' = arp
      /\ ingress' = ingress /\ egress' = egress
  BY DEF IInv, WorkerLb, io, rings
<1>2. /\ in_frame \in [Workers -> Seq(Mbufs)] /\ out_frame \in [Workers -> Seq(Mbufs)]
      /\ s \in Seq(Mbufs) /\ out_frame[w] \in Seq(Mbufs)
  <2>1. in_frame \in [Workers -> Seq(Mbufs)] /\ out_frame \in [Workers -> Seq(Mbufs)]
    BY <1>1 DEF FramesOK
  <2>2. QED BY <2>1
<1>3. /\ Len(s) \in Nat /\ Len(s) >= 1 /\ m = s[1] /\ m \in Mbufs
      /\ Tail(s) \in Seq(Mbufs) /\ Len(Tail(s)) = Len(s) - 1
  BY <1>1, <1>2, HeadTail
<1>4. /\ in_frame' \in [Workers -> Seq(Mbufs)] /\ in_frame'[w] = Tail(s)
      /\ \A v \in Workers : v # w => in_frame'[v] = in_frame[v]
  BY <1>1, <1>2, <1>3
<1>5. a \in Places /\ b \in Places /\ a # b /\ Route(a, b) /\ a[1] = "in" /\ a[2] = w
      /\ b[1] = "out" /\ b[2] = w
  BY PlaceFacts DEF Route
<1>6. Layout \in Layouts /\ Layout[a] = s /\ Layout[b] = out_frame[w]
  BY <1>1, LayoutFacts
<1>v. /\ \A v \in Workers : <<"in", v>> # a => v # w
      /\ \A v \in Workers : <<"out", v>> # b => v # w
  OBVIOUS
<1>7. /\ hdr[m] = orig[m] /\ orig[m] \in Headers
      /\ ClassifyForSteer(orig[m]) = [cls |-> "kSteer", worker |-> w]
      /\ Classify(orig[m]) \in {"kNextFwd", "kNextRev"}
  <2>1. 1 \in 1 .. Len(Layout[a]) /\ m = Layout[a][1]
    BY <1>3, <1>6
  <2>2. Fit(a, hdr[m], orig[m])
    BY <1>1, <1>5, <2>1 DEF Seats, Fits
  <2>3. QED BY <1>5, <2>2 DEF Fit
<1>8. /\ TypedMaps'
      /\ \/ Dropped(m)
         \/ \E e \in Learned : e.port \in PortsOf(w) /\ Forwarded(w, m, e)
  BY LbCases
<1>r. Rest'
  BY <1>1 DEF Rest
<1>b. ASSUME out_frame' \in [Workers -> Seq(Mbufs)],
             Len(out_frame'[w]) <= Len(out_frame[w]) + 1,
             \A v \in Workers : v # w => out_frame'[v] = out_frame[v]
      PROVE  Bounds'
  <2>1. Len(in_frame'[w]) + Len(out_frame'[w]) <= kBurstSize
    <3>1. Len(s) + Len(out_frame[w]) <= kBurstSize /\ kBurstSize \in Nat
      BY <1>1, RingAssumption DEF Bounds, WorkerBounds
    <3>2. out_frame'[w] \in Seq(Mbufs)
      BY <1>b
    <3>3. Len(out_frame[w]) \in Nat /\ Len(out_frame'[w]) \in Nat
      BY <1>2, <3>2
    <3>4. Len(in_frame'[w]) = Len(s) - 1 /\ Len(s) \in Nat
      BY <1>3, <1>4
    <3>5. Len(out_frame'[w]) <= Len(out_frame[w]) + 1
      BY <1>b
    <3>6. \A l, x, y, n \in Nat : l + x <= n /\ y <= x + 1 => (l - 1) + y <= n
      OBVIOUS
    <3>7. (Len(s) - 1) + Len(out_frame'[w]) <= kBurstSize
      BY <3>1, <3>3, <3>4, <3>5, <3>6
    <3>8. QED BY <3>4, <3>7
  <2>2. WorkerBounds'
    <3>1. ASSUME NEW v \in Workers, v # w
          PROVE  /\ Len(ingress'[v]) <= kRingSize
                 /\ Len(in_frame'[v]) + Len(out_frame'[v]) <= kBurstSize
      BY <1>1, <1>4, <1>b, <3>1 DEF Bounds, WorkerBounds
    <3>2. Len(ingress'[w]) <= kRingSize
      BY <1>1 DEF Bounds, WorkerBounds
    <3>3. QED BY <2>1, <3>1, <3>2 DEF WorkerBounds
  <2>3. QED BY <1>1, <2>2 DEF Bounds
<1> HIDE DEF m, a, b
<1>9. CASE Dropped(m)
  <2>1. Leave({m}) /\ out_frame' = out_frame
    BY <1>9 DEF Dropped
  <2>2. FramesOK'
    BY <1>1, <1>4, <2>1 DEF FramesOK
  <2>3. Bounds'
    <3>1. Len(out_frame[w]) \in Nat
      BY <1>2
    <3>2. QED BY <1>2, <1>b, <2>1, <3>1
  <2>4. Marks'
    BY <1>1, <2>1, LeaveFacts
  <2>5. Layout' \in Layouts /\ Layout'[a] = Tail(Layout[a])
    BY <1>4, <1>6, <2>2, LayoutFactsNext DEF a
  <2>6. \A c \in Places \ {a} : Layout'[c] = Layout[c]
    BY <1>1, <1>4, <1>v, <2>1, <2>2, Elsewhere
  <2>7. Layout[a] # <<>> /\ m = Head(Layout[a])
    BY <1>1, <1>6 DEF m
  <2>8. Seats'
    BY <1>1, <1>5, <1>6, <2>1, <2>5, <2>6, <2>7, HeadDropped
  <2>9. QED BY <1>8, <1>r, <2>2, <2>3, <2>4, <2>8
<1>a. ASSUME NEW e \in Learned, e.port \in PortsOf(w), Forwarded(w, m, e)
      PROVE  FramesOK' /\ Bounds' /\ Rest' /\ Marks' /\ TypedMaps' /\ Seats'
  <2> DEFINE dir == Classify(hdr[m])
             h == EtherRewrite(Rewrite(hdr[m], dir, e), dir, e)
  <2>1. /\ out_frame' = [out_frame EXCEPT ![w] = Append(out_frame[w], m)]
        /\ hdr' = [hdr EXCEPT ![m] = h] /\ orig' = orig /\ before' = before
    BY <1>a DEF Forwarded
  <2>2. Clean(h, orig[m]) /\ h # NoHeader
    BY <1>7, <1>a, ForwardClean
  <2> HIDE DEF h
  <2>3. h \in IpHeader \cup ArpHeader
    BY <2>2 DEF Clean
  <2>4. Marks'
    BY <1>1, <2>1, <2>3 DEF Marks
  <2>5. hdr'[m] = h /\ \A n \in Mbufs : n # m => hdr'[n] = hdr[n]
    BY <1>1, <1>3, <2>1 DEF Marks
  <2>6. Append(out_frame[w], m) \in Seq(Mbufs) /\ Len(Append(out_frame[w], m)) = Len(out_frame[w]) + 1
        /\ Len(out_frame[w]) \in Nat
    BY <1>2, <1>3, AppendBound
  <2>7. /\ out_frame' \in [Workers -> Seq(Mbufs)] /\ out_frame'[w] = Append(out_frame[w], m)
        /\ \A v \in Workers : v # w => out_frame'[v] = out_frame[v]
    BY <1>2, <2>1, <2>6
  <2>8. FramesOK'
    BY <1>1, <1>4, <2>7 DEF FramesOK
  <2>9. Bounds'
    BY <1>b, <2>6, <2>7
  <2>a. Layout' \in Layouts /\ Layout'[a] = Tail(Layout[a]) /\ Layout'[b] = Append(Layout[b], m)
    BY <1>4, <1>6, <2>7, <2>8, LayoutFactsNext DEF a, b
  <2>b. \A c \in Places \ {a, b} : Layout'[c] = Layout[c]
    BY <1>1, <1>4, <1>v, <2>7, <2>8, Elsewhere
  <2>c. Layout[a] # <<>> /\ m = Head(Layout[a])
    BY <1>1, <1>6 DEF m
  <2>d. hdr'[m] # NoHeader /\ Fit(b, hdr'[m], orig[m])
    BY <1>5, <1>7, <2>2, <2>5 DEF Fit
  <2>e. Seats
    BY <1>1
  <2>f. Seats'
    BY <1>5, <1>6, <2>1, <2>5, <2>a, <2>b, <2>c, <2>d, <2>e, HeadMoved
  <2>g. QED BY <1>8, <1>r, <2>4, <2>8, <2>9, <2>f
<1>c. QED BY <1>8, <1>9, <1>a

-----------------------------------------------------------------------------
(* Every step keeps the invariant, and what follows from it.               *)

LEMMA LayoutInit ==
  ASSUME Init
  PROVE  IInv
<1>1. /\ io_pc = "rx" /\ io_frame = <<>> /\ arp = <<>> /\ egress = <<>>
      /\ ingress = [w \in Workers |-> <<>>] /\ in_frame = [w \in Workers |-> <<>>]
      /\ out_frame = [w \in Workers |-> <<>>] /\ flows = [w \in Workers |-> FM!NoFlows]
      /\ hdr = [m \in Mbufs |-> NoHeader] /\ orig = [m \in Mbufs |-> NoHeader]
      /\ before = {}
  BY DEF Init
<1>2. <<>> \in Seq(Mbufs) /\ Len(<<>>) = 0
  OBVIOUS
<1>3. FramesOK
  BY <1>1, <1>2 DEF FramesOK
<1>4. kBurstSize \in Nat /\ kRingSize \in Nat /\ kEgressRingSize \in Nat
  BY RingAssumption
<1>5. Bounds
  <2>1. Len(io_frame) = 0 /\ Len(arp) = 0 /\ Len(egress) = 0
    BY <1>1, <1>2
  <2>2. \A w \in Workers : /\ Len(ingress[w]) = 0 /\ Len(in_frame[w]) = 0
                           /\ Len(out_frame[w]) = 0
    BY <1>1, <1>2
  <2>3. WorkerBounds
    <3>1. 0 <= kRingSize /\ 0 + 0 <= kBurstSize
      BY <1>4
    <3>2. QED BY <2>2, <3>1 DEF WorkerBounds
  <2>4. QED BY <1>1, <1>4, <2>1, <2>3 DEF Bounds
<1>6. Rest /\ Marks
  BY <1>1 DEF Rest, Marks
<1>7. TypedMaps
  BY <1>1 DEF TypedMaps, FM!NoFlows
<1>8. FlowsInv
  BY <1>1 DEF FlowsInv, GoodMap, FM!NoFlows
<1>9. Seats
  <2>1. \A pl \in Places : Layout[pl] = <<>>
    BY <1>1, <1>3, LayoutFacts, PlaceCases
  <2>2. \A pl \in Places : ~\E i \in 1 .. Len(Layout[pl]) : TRUE
    BY <1>2, <2>1
  <2>3. InUse = {}
    BY <1>1 DEF InUse
  <2>4. OnePlace(Layout) /\ Found(Layout) = {} /\ Fits(Layout, hdr, orig)
        /\ Ordered(Layout, orig, before)
    BY <2>2 DEF OnePlace, Found, Fits, Ordered
  <2>5. QED BY <2>3, <2>4 DEF Seats
<1>a. QED BY <1>3, <1>5, <1>6, <1>7, <1>8, <1>9 DEF IInv

LEMMA LayoutStep ==
  ASSUME IInv, [Next]_vars
  PROVE  IInv'
<1>1. FlowsInv'
  BY FlowsStep DEF IInv
<1>2. CASE UNCHANGED vars
  <2>1. /\ io_pc' = io_pc /\ io_frame' = io_frame /\ arp' = arp /\ ingress' = ingress
        /\ egress' = egress /\ in_frame' = in_frame /\ out_frame' = out_frame
        /\ flows' = flows /\ hdr' = hdr /\ orig' = orig /\ before' = before
    BY <1>2 DEF vars, io, rings, workers, packets
  <2>2. Layout' = Layout /\ InUse' = InUse
    BY <2>1, LayoutIs DEF InUse
  <2>3. FramesOK' /\ Bounds' /\ Rest' /\ Marks' /\ TypedMaps'
    BY <2>1 DEF IInv, FramesOK, Bounds, WorkerBounds, Rest, Marks, TypedMaps
  <2>4. Seats'
    BY <2>1, <2>2 DEF IInv, Seats
  <2>5. QED BY <1>1, <2>3, <2>4 DEF IInv
<1>3. CASE Io
  <2>1. FramesOK' /\ Bounds' /\ Rest' /\ Marks' /\ TypedMaps' /\ Seats'
    BY <1>3, IoRxStep, IoSteerStep, IoArpStep, IoTxStep DEF Io
  <2>2. QED BY <1>1, <2>1 DEF IInv
<1>4. ASSUME NEW w \in Workers, Worker(w)
      PROVE  IInv'
  <2>1. FramesOK' /\ Bounds' /\ Rest' /\ Marks' /\ TypedMaps' /\ Seats'
    BY <1>4, WorkerRxStep, WorkerLbStep, WorkerTxStep DEF Worker
  <2>2. QED BY <1>1, <2>1 DEF IInv
<1>5. QED BY <1>2, <1>3, <1>4 DEF Next

LEMMA IInvHolds == Spec => []IInv
<1>1. Init => IInv
  BY LayoutInit
<1>2. IInv /\ [Next]_vars => IInv'
  BY LayoutStep
<1>3. QED BY <1>1, <1>2, PTL DEF Spec

\* No ring and no frame overflows, whatever their sizes, and every variable
\* keeps its type: RteRing and Frame have no room beyond their capacity.
THEOREM RingsFit == Spec => []TypeOK
<1>1. IInv => TypeOK
  BY TypeParts DEF IInv
<1>2. QED BY <1>1, IInvHolds, PTL

\* Whatever is full on its way, an mbuf the device handed out is in exactly
\* one frame or ring until it is sent or freed: Steer, RingTxNode and the
\* nodes neither leak one nor free one twice.
THEOREM NoMbufLost == Spec => []MbufConservation
<1>1. ASSUME IInv, NEW m \in Mbufs
      PROVE  Cardinality(PlacesOf(m)) = IF m \in InUse THEN 1 ELSE 0
  <2>1. Seats /\ FramesOK
    BY <1>1 DEF IInv
  <2>2. Layout \in Layouts
    BY <2>1, LayoutFacts
  <2>3. \A pl \in Places : /\ Layout[pl] = Frame(pl) /\ Layout[pl] \in Seq(Mbufs)
                           /\ DOMAIN Frame(pl) = 1 .. Len(Layout[pl])
    <3>1. SUFFICES ASSUME NEW pl \in Places
                   PROVE  /\ Layout[pl] = Frame(pl) /\ Layout[pl] \in Seq(Mbufs)
                          /\ DOMAIN Frame(pl) = 1 .. Len(Layout[pl])
      OBVIOUS
    <3>2. Layout[pl] = Frame(pl)
      BY DEF Layout
    <3>3. Layout[pl] \in Seq(Mbufs)
      BY <2>2 DEF Layouts
    <3>4. QED BY <3>2, <3>3, LenProperties
  <2>4. \A x : x \in PlacesOf(m) <=>
          \E pl \in Places : \E i \in 1 .. Len(Layout[pl]) : Layout[pl][i] = m /\ x = <<pl, i>>
    BY <2>3 DEF PlacesOf
  <2>5. CASE m \in InUse
    <3>1. m \in Found(Layout)
      BY <2>1, <2>5 DEF Seats
    <3>2. PICK pl \in Places : \E i \in 1 .. Len(Layout[pl]) : Layout[pl][i] = m
      BY <3>1 DEF Found
    <3>3. PICK i \in 1 .. Len(Layout[pl]) : Layout[pl][i] = m
      BY <3>2
    <3>4. \A ql \in Places : \A j \in 1 .. Len(Layout[ql]) :
            Layout[ql][j] = m => ql = pl /\ j = i
      BY <2>1, <3>3 DEF Seats, OnePlace
    <3>5. PlacesOf(m) = {<<pl, i>>}
      BY <2>4, <3>3, <3>4
    <3>6. QED BY <2>5, <3>5, FS_Singleton
  <2>6. CASE m \notin InUse
    <3>1. m \notin Found(Layout)
      BY <2>1, <2>6 DEF Seats
    <3>2. PlacesOf(m) = {}
      BY <2>4, <3>1 DEF Found
    <3>3. QED BY <2>6, <3>2, FS_EmptySet
  <2>7. QED BY <2>5, <2>6
<1>2. IInv => MbufConservation
  BY <1>1 DEF MbufConservation
<1>3. QED BY <1>2, IInvHolds, PTL

\* Nothing untranslated is sent, for any backends, clients and flows: what
\* waits in an out frame or in the egress ring is an ARP reply, a request
\* with the address of the balancer, a port of its worker and a backend it is
\* for, or the answer of the VIP to a client, at a MAC address this client
\* sends from.
THEOREM WireClean == Spec => []CleanWire
<1>1. ASSUME IInv,
             NEW m \in Elements(egress) \cup UNION {Elements(out_frame[w]) : w \in Workers}
      PROVE  Clean(hdr[m], orig[m])
  <2>1. Seats /\ FramesOK
    BY <1>1 DEF IInv
  <2>2. /\ Layout \in Layouts /\ Layout[EGRESS] = egress
        /\ \A w \in Workers : Layout[<<"out", w>>] = out_frame[w]
    BY <2>1, LayoutFacts
  <2>3. CASE m \in Elements(egress)
    <3>1. PICK i \in 1 .. Len(egress) : m = egress[i]
      BY <2>1, <2>3, LenProperties DEF Elements, FramesOK
    <3>2. Fit(EGRESS, hdr[m], orig[m]) /\ EGRESS[1] = "egress"
      BY <2>1, <2>2, <3>1, PlaceFacts DEF Seats, Fits, EGRESS
    <3>3. QED BY <3>2 DEF Fit
  <2>4. ASSUME NEW w \in Workers, m \in Elements(out_frame[w])
        PROVE  Clean(hdr[m], orig[m])
    <3>0. out_frame[w] \in Seq(Mbufs)
      BY <2>1 DEF FramesOK
    <3>1. PICK i \in 1 .. Len(out_frame[w]) : m = out_frame[w][i]
      BY <2>4, <3>0, LenProperties DEF Elements
    <3>2. Fit(<<"out", w>>, hdr[m], orig[m])
      BY <2>1, <2>2, <3>1, PlaceFacts DEF Seats, Fits
    <3>3. QED BY <3>2 DEF Fit
  <2>5. QED BY <1>1, <2>3, <2>4
<1>2. IInv => CleanWire
  BY <1>1 DEF CleanWire, Clean
<1>3. QED BY <1>2, IInvHolds, PTL

\* Packets that arrive with the same addresses, ports and protocol never
\* overtake each other, for any number of workers and any sizes of bursts and
\* rings: not in SteerNode, not in LbNode's merged frame, and not when the
\* workers and ArpNode race for the egress ring.
THEOREM OrderPerFlow == Spec => []FlowOrder
<1>1. ASSUME IInv PROVE FlowOrder
  <2>1. Ordered(Layout, orig, before) /\ FramesOK
    BY <1>1 DEF IInv, Seats
  <2>2. Layout \in Layouts
    BY <2>1, LayoutFacts
  <2>3. ASSUME NEW pl \in Places
        PROVE  Layout[pl] = Frame(pl) /\ DOMAIN Frame(pl) = 1 .. Len(Frame(pl))
    <3>1. Layout[pl] = Frame(pl)
      BY DEF Layout
    <3>2. Layout[pl] \in Seq(Mbufs)
      BY <2>2 DEF Layouts
    <3>3. QED BY <3>1, <3>2, LenProperties
  <2>4. QED BY <2>1, <2>3 DEF FlowOrder, Ordered
<1>2. IInv => FlowOrder
  BY <1>1
<1>3. QED BY <1>2, IInvHolds, PTL
=============================================================================
