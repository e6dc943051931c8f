--------------------------- MODULE LbTableProofs ----------------------------
(***************************************************************************)
(* What LbNode promises of its connection table, for every capacity and    *)
(* hash function: no 5-tuple is bound twice, a live flow is always found   *)
(* by its forward packets, the gauge counts the flows, and a live flow's   *)
(* binding changes only when its own packets close it.                     *)
(***************************************************************************)
EXTENDS LbNodeProofs

\* The strengthening: uniqueness is inductive only together with unbroken
\* probe chains, which are what lets LookupForward see every flow.
Unique(sl) == \A s, t \in Counted(sl) : sl[s].fwd_key = sl[t].fwd_key => s = t
Chained(sl) == \A s \in Slots : sl[s].occupied => ChainTo(sl, s)

-----------------------------------------------------------------------------
(* Steps that do not store a flow.                                         *)

\* tl has the flows of sl, some of them reaped.
OnlyReaps(sl, tl) ==
  \A t \in Slots : /\ tl[t].occupied = sl[t].occupied
                   /\ tl[t].fwd_key = sl[t].fwd_key
                   /\ sl[t].reaped => tl[t].reaped

LEMMA OnlyReapsUnique ==
  ASSUME NEW sl, NEW tl, OnlyReaps(sl, tl), Unique(sl)
  PROVE  Unique(tl)
<1>1. \A t \in Counted(tl) : t \in Counted(sl) /\ tl[t].fwd_key = sl[t].fwd_key
  BY DEF OnlyReaps, Counted
<1>2. QED BY <1>1 DEF Unique

LEMMA OnlyReapsChained ==
  ASSUME NEW sl, NEW tl, OnlyReaps(sl, tl), Chained(sl)
  PROVE  Chained(tl)
BY DEF OnlyReaps, Chained, ChainTo

\* A lookup, a hit and a teardown only reap.
LEMMA ReapAllOnlyReaps ==
  ASSUME NEW sl, IsTable(sl), NEW S, NEW now
  PROVE  OnlyReaps(sl, ReapAll(sl, S, now))
<1>1. ASSUME NEW t \in Slots, sl[t].reaped PROVE ReapAll(sl, S, now)[t].reaped
  BY <1>1, ReapFacts
<1>2. QED BY <1>1, ReapFacts DEF OnlyReaps

LEMMA HitOnlyReaps ==
  ASSUME NEW sl, IsTable(sl), NEW S, NEW now \in Clock, NEW s \in Slots,
         NEW dir, NEW flags, NEW tl,
         tl = [Touch(ReapAll(sl, S, now), s, now) EXCEPT
                 ![s] = TornFlow(Touch(ReapAll(sl, S, now), s, now)[s], dir, flags)]
  PROVE  OnlyReaps(sl, tl)
<1> DEFINE w == ReapAll(sl, S, now)
           u == Touch(w, s, now)
<1>1. IsTable(w) /\ OnlyReaps(sl, w)
  BY ReapAllTable, ReapAllOnlyReaps
<1>2. IsTable(u) /\ OnlyReaps(w, u)
  BY <1>1, TouchTable DEF OnlyReaps
<1> HIDE DEF w, u
<1>3. tl = [u EXCEPT ![s] = TornFlow(u[s], dir, flags)]
  BY DEF u, w
<1>4. u[s] \in Flow
  BY <1>2 DEF IsTable
<1>5. /\ TornFlow(u[s], dir, flags).occupied = u[s].occupied
      /\ TornFlow(u[s], dir, flags).fwd_key = u[s].fwd_key
      /\ u[s].reaped => TornFlow(u[s], dir, flags).reaped
  BY <1>4, TornFlowFacts
<1>6. OnlyReaps(u, tl)
  BY <1>2, <1>3, <1>5 DEF OnlyReaps, IsTable
<1>7. QED BY <1>1, <1>2, <1>6 DEF OnlyReaps

\* Every step is the storing of a flow by CreateFlow or only reaps.
LEMMA StepShape ==
  ASSUME TypeOK, [Next]_vars
  PROVE  \/ OnlyReaps(slots, slots')
         \/ \E k \in Keys, s \in Slots : \E flags \in Flags(Proto[k]) :
              ForwardCreate(k, flags, s)
<1>0. IsTable(slots) /\ now_ms \in Clock
  BY DEF TypeOK, IsTable
<1>1. CASE ProcessBegin \/ ProcessEnd \/ UNCHANGED vars
  BY <1>1 DEF ProcessBegin, ProcessEnd, vars, table, OnlyReaps
<1>2. ASSUME NEW k \in Keys, NEW flags, ProcessNoBackends(k, flags)
      PROVE  OnlyReaps(slots, slots')
  BY <1>2 DEF ProcessNoBackends, table, OnlyReaps
<1>3. ASSUME NEW b \in Backends, NEW p \in Ports, NEW flags,
             ProcessNoBackendsReverse(b, p, flags)
      PROVE  OnlyReaps(slots, slots')
  BY <1>3 DEF ProcessNoBackendsReverse, table, OnlyReaps
<1>4. ASSUME NEW k \in Keys, NEW flags, NEW s \in Slots, ForwardHit(k, flags, s)
      PROVE  OnlyReaps(slots, slots')
  BY <1>0, <1>4, HitOnlyReaps DEF ForwardHit, MaybeTeardown, Walked
<1>5. ASSUME NEW k \in Keys, NEW flags,
             \/ ForwardNoSyn(k, flags) \/ ForwardNoPort(k, flags)
             \/ ForwardTableFull(k, flags)
      PROVE  OnlyReaps(slots, slots')
  BY <1>0, <1>5, ReapAllOnlyReaps
     DEF ForwardNoSyn, ForwardNoPort, ForwardTableFull, Walked
<1>6. ASSUME NEW b \in Backends, NEW p \in Ports, NEW proto \in Protos, NEW flags,
             NEW s \in Slots, ReverseHit(b, p, proto, flags, s)
      PROVE  OnlyReaps(slots, slots')
  BY <1>0, <1>6, HitOnlyReaps DEF ReverseHit, MaybeTeardown, WalkedRev
<1>7. ASSUME NEW b \in Backends, NEW p \in Ports, NEW proto \in Protos, NEW flags,
             ReverseMiss(b, p, proto, flags)
      PROVE  OnlyReaps(slots, slots')
  BY <1>0, <1>7, ReapAllOnlyReaps DEF ReverseMiss, WalkedRev
<1>8. QED BY <1>1, <1>2, <1>3, <1>4, <1>5, <1>6, <1>7
          DEF Next, ForwardPacket, ReversePacket

-----------------------------------------------------------------------------
(* LookupForward and Insert.                                               *)

\* With unique keys and unbroken chains, the one slot that may answer for k
\* comes before every slot never used.
LEMMA BeforeEmpty ==
  ASSUME NEW sl, IsTable(sl), Chained(sl), NEW t \in Slots, sl[t].occupied,
         NEW u \in Slots, ~sl[u].occupied
  PROVE  Dist(Home(sl[t].fwd_key), t) < Dist(Home(sl[t].fwd_key), u)
<1> DEFINE h == Home(sl[t].fwd_key)
<1>1. h \in Slots
  BY HomeSlot DEF IsTable
<1>2. ~(Dist(h, u) < Dist(h, t))
  BY DEF Chained, ChainTo
<1>3. Dist(h, u) # Dist(h, t)
  BY <1>1, DistFacts
<1>4. Dist(h, u) \in Int /\ Dist(h, t) \in Int
  BY <1>1, DistFacts
<1>5. QED BY <1>2, <1>3, <1>4

\* A live flow is what LookupForward of its key returns.
LEMMA LiveFound ==
  ASSUME NEW sl, IsTable(sl), Unique(sl), Chained(sl), NEW now,
         NEW t \in Slots, Live(sl[t], now)
  PROVE  ForwardFinds(sl, sl[t].fwd_key, now, t)
<1> DEFINE k == sl[t].fwd_key
<1>1. sl[t].occupied /\ t \in Counted(sl) /\ t \in ForwardHits(sl, k, now)
  BY DEF Live, Expired, Counted, ForwardHits
<1>2. ASSUME NEW u \in ForwardStops(sl, k, now)
      PROVE  Dist(Home(k), t) <= Dist(Home(k), u)
  <2>0. u \in Slots
    BY <1>2 DEF ForwardStops, ForwardHits
  <2>1. Home(k) \in Slots
    BY <1>1, HomeSlot DEF IsTable
  <2>2. Dist(Home(k), t) \in Int /\ Dist(Home(k), u) \in Int
    BY <2>0, <2>1, DistFacts
  <2>3. CASE u \in ForwardHits(sl, k, now)
    <3>1. u \in Counted(sl) /\ sl[u].fwd_key = k
      BY <2>3 DEF ForwardHits, Live, Expired, Counted
    <3>2. u = t
      BY <3>1, <1>1 DEF Unique
    <3>3. QED BY <3>2, <2>2
  <2>4. CASE ~sl[u].occupied
    BY <2>0, <2>2, <2>4, <1>1, BeforeEmpty
  <2>5. QED BY <2>3, <2>4, <1>2 DEF ForwardStops
<1>3. t \in ForwardStops(sl, k, now)
  BY <1>1 DEF ForwardStops
<1>4. QED BY <1>1, <1>2, <1>3 DEF ForwardFinds, IsFirst

\* After a miss no slot of the key is left unreaped.
LEMMA MissClears ==
  ASSUME NEW sl, IsTable(sl), Unique(sl), Chained(sl), NEW now, NEW k \in Keys,
         ForwardMisses(sl, k, now), NEW t \in Slots,
         t \in Counted(ReapAll(sl, ForwardPassed(sl, k, now), now))
  PROVE  sl[t].fwd_key # k
<1> SUFFICES ASSUME sl[t].fwd_key = k PROVE FALSE
  OBVIOUS
<1> DEFINE S == ForwardPassed(sl, k, now)
           w == ReapAll(sl, S, now)
<1>1. w[t].occupied /\ ~w[t].reaped
  BY DEF Counted
<1>2. sl[t].occupied /\ t \notin Lapsed(sl, S, now)
  BY <1>1, ReapFacts
<1>3. ~sl[t].reaped
  BY <1>1, <1>2, ReapFacts
<1>4. ~Live(sl[t], now)
  BY LiveFound DEF ForwardMisses
<1>5. Expired(sl[t], now)
  BY <1>2, <1>4 DEF Live
<1>6. t \in S
  <2>1. ASSUME NEW u \in ForwardStops(sl, k, now)
        PROVE  Dist(Home(k), t) < Dist(Home(k), u)
    <3>0. u \in Slots
      BY <2>1 DEF ForwardStops, ForwardHits
    <3>1. CASE u \in ForwardHits(sl, k, now)
      <4>1. u \in Counted(sl) /\ sl[u].fwd_key = k /\ Live(sl[u], now)
        BY <3>1 DEF ForwardHits, Live, Expired, Counted
      <4>2. t \in Counted(sl)
        BY <1>2, <1>3 DEF Counted
      <4>3. u = t
        BY <4>1, <4>2 DEF Unique
      <4>4. QED BY <4>1, <4>3, <1>4
    <3>2. CASE ~sl[u].occupied
      BY <3>0, <3>2, <1>2, BeforeEmpty
    <3>3. QED BY <3>1, <3>2, <2>1 DEF ForwardStops
  <2>2. QED BY <2>1 DEF ForwardPassed, Passed
<1>7. QED BY <1>2, <1>3, <1>5, <1>6 DEF Lapsed

\* The table after CreateFlow: slot s has a flow of k, the rest is as the
\* lookup left it.
LEMMA CreateShape ==
  ASSUME TypeOK, NEW k \in Keys, NEW s \in Slots, NEW flags, ForwardCreate(k, flags, s)
  PROVE  /\ slots'[s].occupied /\ slots'[s].fwd_key = k
         /\ \A t \in Slots \ {s} : slots'[t] = Walked(k)[t]
         /\ InsertsAt(Walked(k), k, now_ms, s)
         /\ ForwardMisses(slots, k, now_ms)
<1> DEFINE b == Select(pool, k)
           p == Top(free[b])
           st == Stored(k, b, p, s)
<1>1. b \in Backends /\ free[b] # <<>>
  BY SelectBackend DEF TypeOK, ForwardCreate
<1>2. IsTable(st) /\ IsTable(Walked(k))
  BY <1>1, StoredTypes, WalkedTypes
<1>3. st[s] = NewFlow(k, b, p, now_ms) /\ \A t \in Slots \ {s} : st[t] = Walked(k)[t]
  BY <1>2 DEF Stored, IsTable
<1>4. st[s] \in Flow /\ st[s].occupied /\ st[s].fwd_key = k
  BY <1>2, <1>3 DEF NewFlow, IsTable
<1> HIDE DEF st
<1>5. slots' = [st EXCEPT ![s] = TornFlow(st[s], "kForward", flags)]
  BY DEF ForwardCreate, MaybeTeardown, st
<1>6. slots'[s] = TornFlow(st[s], "kForward", flags)
      /\ \A t \in Slots \ {s} : slots'[t] = st[t]
  BY <1>2, <1>5 DEF IsTable
<1>7. slots'[s].occupied /\ slots'[s].fwd_key = k
  BY <1>4, <1>6, TornFlowFacts
<1>8. QED BY <1>3, <1>6, <1>7 DEF ForwardCreate

LEMMA UniqueStep ==
  ASSUME TypeOK, Unique(slots), Chained(slots), [Next]_vars
  PROVE  Unique(slots') /\ Chained(slots')
<1>0. IsTable(slots)
  BY DEF TypeOK, IsTable
<1>1. CASE OnlyReaps(slots, slots')
  BY <1>1, OnlyReapsUnique, OnlyReapsChained
<1>2. ASSUME NEW k \in Keys, NEW s \in Slots, NEW flags, ForwardCreate(k, flags, s)
      PROVE  Unique(slots') /\ Chained(slots')
  <2> DEFINE w == Walked(k)
  <2>1. /\ slots'[s].occupied /\ slots'[s].fwd_key = k
        /\ \A t \in Slots \ {s} : slots'[t] = w[t]
        /\ InsertsAt(w, k, now_ms, s)
        /\ ForwardMisses(slots, k, now_ms)
    BY <1>2, CreateShape
  <2>2. OnlyReaps(slots, w)
    BY <1>0, ReapAllOnlyReaps DEF Walked
  <2>3. Unique(w) /\ Chained(w)
    BY <2>2, OnlyReapsUnique, OnlyReapsChained
  <2>4. \A t \in Slots : t \in Counted(w) => w[t].fwd_key # k
    BY <1>0, <2>1, <2>2, MissClears DEF Walked, OnlyReaps
  <2> HIDE DEF w
  <2>5. Unique(slots')
    <3>1. ASSUME NEW t \in Counted(slots'), NEW u \in Counted(slots'),
                 slots'[t].fwd_key = slots'[u].fwd_key
          PROVE  t = u
      <4>1. t \in Slots /\ u \in Slots
        BY DEF Counted
      <4>2. CASE t # s /\ u # s
        BY <4>1, <4>2, <3>1, <2>1, <2>3 DEF Counted, Unique
      <4>3. CASE t = s /\ u # s
        BY <4>1, <4>3, <3>1, <2>1, <2>4 DEF Counted
      <4>4. CASE t # s /\ u = s
        BY <4>1, <4>4, <3>1, <2>1, <2>4 DEF Counted
      <4>5. QED BY <4>2, <4>3, <4>4
    <3>2. QED BY <3>1 DEF Unique
  <2>6. Chained(slots')
    <3>1. ASSUME NEW t \in Slots, slots'[t].occupied PROVE ChainTo(slots', t)
      <4>1. CASE t # s
        <5>1. w[t].occupied /\ slots'[t].fwd_key = w[t].fwd_key
          BY <4>1, <3>1, <2>1
        <5>2. \A u \in Slots : w[u].occupied => slots'[u].occupied
          BY <2>1
        <5>3. ChainTo(w, t)
          BY <5>1, <2>3 DEF Chained
        <5>4. QED BY <5>1, <5>2, <5>3 DEF ChainTo
      <4>2. CASE t = s
        <5>1. ASSUME NEW u \in Slots, Dist(Home(k), u) < Dist(Home(k), s)
              PROVE  slots'[u].occupied
          <6>1. u # s
            BY <5>1, HomeSlot, DistFacts
          <6>2. u \notin InsertStops(w, now_ms)
            <7>1. Dist(Home(k), u) \in Int /\ Dist(Home(k), s) \in Int
              BY HomeSlot, DistFacts
            <7>2. QED BY <5>1, <7>1, <2>1 DEF InsertsAt, IsFirst
          <6>3. QED BY <6>1, <6>2, <2>1 DEF InsertStops
        <5>2. QED BY <5>1, <4>2, <2>1 DEF ChainTo
      <4>3. QED BY <4>1, <4>2
    <3>2. QED BY <3>1 DEF Chained
  <2>7. QED BY <2>5, <2>6
<1>3. QED BY <1>1, <1>2, StepShape

\* Unique and Chained are KeyUnique and ProbeChain.
LEMMA UniqueChainedInv ==
  Spec => [](TypeOK /\ KeyUnique /\ ProbeChain)
<1>1. Init => KeyUnique /\ ProbeChain
  BY DEF Init, KeyUnique, ProbeChain, Counted, EmptyFlow
<1>2. TypeOK /\ KeyUnique /\ ProbeChain /\ [Next]_vars => (KeyUnique /\ ProbeChain)'
  BY UniqueStep DEF KeyUnique, ProbeChain, Unique, Chained
<1>3. QED BY <1>1, <1>2, TypeCorrect, PTL DEF Spec

\* Whatever collides, expires, closes or is evicted: no client 5-tuple ever
\* has two translations that are not reaped.
THEOREM NoDoubleBinding == Spec => []KeyUnique
BY UniqueChainedInv, PTL

\* A live flow is found by LookupForward at every moment, so its packets are
\* never dropped or bound anew while a backend is active.
THEOREM LiveFlowsReachable == Spec => []ForwardReachable
<1>1. TypeOK /\ KeyUnique /\ ProbeChain => ForwardReachable
  BY LiveFound DEF TypeOK, IsTable, KeyUnique, ProbeChain, Unique, Chained,
                   ForwardReachable
<1>2. QED BY <1>1, UniqueChainedInv, PTL

-----------------------------------------------------------------------------
(* The gauge.                                                              *)

LEMMA CountedFinite ==
  ASSUME NEW sl
  PROVE  IsFiniteSet(Counted(sl)) /\ Cardinality(Counted(sl)) \in Nat
<1>1. IsFiniteSet(Counted(sl))
  BY SlotsFinite DEF Counted
<1>2. QED BY <1>1, FS_CardinalityType

\* Reap takes off size_ what it takes off the count.
LEMMA ReapSize ==
  ASSUME NEW sl, IsTable(sl), NEW S \in SUBSET Slots, NEW now
  PROVE  SizeReaped(sl, Cardinality(Counted(sl)), S, now)
           = Cardinality(Counted(ReapAll(sl, S, now)))
<1> DEFINE C == Counted(sl)
           L == Lapsed(sl, S, now)
<1>1. L \subseteq C
  BY DEF Lapsed, Expired, Counted
<1>2. Counted(ReapAll(sl, S, now)) = C \ L
  <2>1. ASSUME NEW s \in Slots
        PROVE  s \in Counted(ReapAll(sl, S, now)) <=> s \in C \ L
    <3>1. CASE s \in L
      BY <3>1, ReapFacts DEF Counted
    <3>2. CASE s \notin L
      BY <3>2, ReapFacts DEF Counted
    <3>3. QED BY <3>1, <3>2
  <2>2. QED BY <2>1 DEF Counted
<1>3. IsFiniteSet(C) /\ Cardinality(C) \in Nat
  BY CountedFinite
<1>4. IsFiniteSet(L) /\ Cardinality(L) \in Nat /\ Cardinality(L) <= Cardinality(C)
  BY <1>1, <1>3, FS_Subset, FS_CardinalityType
<1>5. C \cap L = L
  BY <1>1
<1>6. Cardinality(C \ L) = Cardinality(C) - Cardinality(L)
  BY <1>3, <1>5, FS_Difference
<1>7. QED BY <1>2, <1>3, <1>4, <1>6 DEF SizeReaped, Less

\* Close takes one off both.
LEMMA TornSizeCount ==
  ASSUME NEW sl, IsTable(sl), NEW s \in Slots, NEW dir, NEW flags
  PROVE  TornSize(Cardinality(Counted(sl)), sl[s], dir, flags)
           = Cardinality(Counted([sl EXCEPT ![s] = TornFlow(sl[s], dir, flags)]))
<1> DEFINE C == Counted(sl)
           tl == [sl EXCEPT ![s] = TornFlow(sl[s], dir, flags)]
<1>1. sl[s] \in Flow
  BY DEF IsTable
<1>2. tl[s] = TornFlow(sl[s], dir, flags) /\ \A t \in Slots \ {s} : tl[t] = sl[t]
  BY DEF IsTable
<1>3. IsFiniteSet(C) /\ Cardinality(C) \in Nat
  BY CountedFinite
<1> HIDE DEF tl
<1>4. CASE Closes(sl[s], dir, flags)
  <2>1. s \in C
    BY <1>4 DEF Closes, Counted
  <2>2. tl[s].reaped
    BY <1>1, <1>2, <1>4, TornFlowFacts
  <2>3. Counted(tl) = C \ {s}
    BY <1>2, <2>2 DEF Counted
  <2>4. Cardinality(C \ {s}) = Cardinality(C) - 1
    BY <1>3, <2>1, FS_RemoveElement
  <2>5. Cardinality(C \ {s}) \in Nat
    BY <1>3, FS_RemoveElement, FS_CardinalityType
  <2>6. Less(Cardinality(C), 1) = Cardinality(C) - 1
    BY <1>3, <2>4, <2>5 DEF Less
  <2>7. TornSize(Cardinality(C), sl[s], dir, flags) = Cardinality(C) - 1
    BY <1>4, <2>6 DEF TornSize
  <2>8. QED BY <2>3, <2>4, <2>7 DEF tl
<1>5. CASE ~Closes(sl[s], dir, flags)
  <2>1. tl[s].reaped = sl[s].reaped /\ tl[s].occupied = sl[s].occupied
    BY <1>1, <1>2, <1>5, TornFlowFacts
  <2>2. Counted(tl) = C
    BY <1>2, <2>1 DEF Counted
  <2>3. QED BY <1>5, <2>2 DEF TornSize, tl
<1>6. QED BY <1>4, <1>5

\* Insert adds one to both unless it replaces a flow still counted.
LEMMA StoreSize ==
  ASSUME NEW sl, IsTable(sl), NEW s \in Slots, NEW f, f.occupied, ~f.reaped
  PROVE  SizeInserted(sl, Cardinality(Counted(sl)), s)
           = Cardinality(Counted([sl EXCEPT ![s] = f]))
<1> DEFINE C == Counted(sl)
           tl == [sl EXCEPT ![s] = f]
<1>1. tl[s] = f /\ \A t \in Slots \ {s} : tl[t] = sl[t]
  BY DEF IsTable
<1> HIDE DEF tl
<1>2. Counted(tl) = C \cup {s}
  BY <1>1 DEF Counted
<1>3. IsFiniteSet(C) /\ Cardinality(C) \in Nat
  BY CountedFinite
<1>4. CASE s \in C
  <2>1. C \cup {s} = C
    BY <1>4
  <2>2. sl[s].occupied /\ ~sl[s].reaped
    BY <1>4 DEF Counted
  <2>3. QED BY <1>2, <2>1, <2>2 DEF SizeInserted, tl
<1>5. CASE s \notin C
  <2>1. Cardinality(C \cup {s}) = Cardinality(C) + 1
    BY <1>3, <1>5, FS_AddElement
  <2>2. ~sl[s].occupied \/ sl[s].reaped
    BY <1>5 DEF Counted
  <2>3. QED BY <1>2, <2>1, <2>2 DEF SizeInserted, tl
<1>6. QED BY <1>4, <1>5

\* Touch counts nothing in or out.
LEMMA TouchCounted ==
  ASSUME NEW sl, IsTable(sl), NEW s \in Slots, NEW now \in Clock
  PROVE  Counted(Touch(sl, s, now)) = Counted(sl)
BY TouchTable DEF Counted

LEMMA SizeStep == TypeOK /\ SizeHonest /\ [Next]_vars => SizeHonest'
<1> SUFFICES ASSUME TypeOK, SizeHonest, [Next]_vars PROVE SizeHonest'
  OBVIOUS
<1>0. /\ IsTable(slots) /\ now_ms \in Clock /\ rev \in [Slots -> 0 .. Cap]
      /\ size = Cardinality(Counted(slots))
  BY DEF TypeOK, IsTable, SizeHonest
<1>1. CASE ProcessBegin \/ ProcessEnd \/ UNCHANGED vars
  BY <1>1 DEF ProcessBegin, ProcessEnd, vars, table, SizeHonest
<1>2. ASSUME NEW k \in Keys, NEW flags, ProcessNoBackends(k, flags)
      PROVE  SizeHonest'
  BY <1>2 DEF ProcessNoBackends, table, SizeHonest
<1>3. ASSUME NEW b \in Backends, NEW p \in Ports, NEW flags,
             ProcessNoBackendsReverse(b, p, flags)
      PROVE  SizeHonest'
  BY <1>3 DEF ProcessNoBackendsReverse, table, SizeHonest
<1>4. ASSUME NEW k \in Keys
      PROVE  IsTable(Walked(k)) /\ WalkedSize(k) = Cardinality(Counted(Walked(k)))
  BY <1>0, WalkedTypes, ReapSize, ForwardPassedSlots DEF Walked, WalkedSize
<1>5. ASSUME NEW b \in Backends, NEW p \in Ports, NEW proto \in Protos
      PROVE  /\ IsTable(WalkedRev(b, p, proto))
             /\ WalkedRevSize(b, p, proto)
                  = Cardinality(Counted(WalkedRev(b, p, proto)))
  BY <1>0, WalkedRevTypes, ReapSize, ReversePassedSlots DEF WalkedRev, WalkedRevSize
<1>6. ASSUME NEW k \in Keys, NEW flags, NEW s \in Slots, ForwardHit(k, flags, s)
      PROVE  SizeHonest'
  <2> DEFINE u == Touch(Walked(k), s, now_ms)
  <2>1. IsTable(u) /\ WalkedSize(k) = Cardinality(Counted(u))
    BY <1>0, <1>4, TouchTable, TouchCounted
  <2>2. /\ slots' = [u EXCEPT ![s] = TornFlow(u[s], "kForward", flags)]
        /\ size' = TornSize(WalkedSize(k), u[s], "kForward", flags)
        /\ burst'
    BY <1>6 DEF ForwardHit, MaybeTeardown
  <2> HIDE DEF u
  <2>3. TornSize(Cardinality(Counted(u)), u[s], "kForward", flags)
          = Cardinality(Counted([u EXCEPT ![s] = TornFlow(u[s], "kForward", flags)]))
    BY <2>1, TornSizeCount
  <2>4. size' = Cardinality(Counted(slots'))
    BY <2>1, <2>2, <2>3
  <2>5. QED BY <2>2, <2>4 DEF SizeHonest, Counted
<1>7. ASSUME NEW k \in Keys, NEW flags,
             \/ ForwardNoSyn(k, flags) \/ ForwardNoPort(k, flags)
             \/ ForwardTableFull(k, flags)
      PROVE  SizeHonest'
  <2>1. slots' = Walked(k) /\ size' = WalkedSize(k) /\ burst'
    BY <1>7 DEF ForwardNoSyn, ForwardNoPort, ForwardTableFull
  <2>2. QED BY <2>1, <1>4 DEF SizeHonest, Counted
<1>8. ASSUME NEW k \in Keys, NEW flags, NEW s \in Slots, ForwardCreate(k, flags, s)
      PROVE  SizeHonest'
  <2> DEFINE b == Select(pool, k)
             p == Top(free[b])
             st == Stored(k, b, p, s)
             n == SizeInserted(Walked(k), WalkedSize(k), s)
  <2>1. b \in Backends /\ free[b] # <<>>
    BY <1>8, SelectBackend DEF TypeOK, ForwardCreate
  <2>2. IsTable(st)
    BY <2>1, StoredTypes
  <2>3. n = Cardinality(Counted(st))
    <3> DEFINE f == NewFlow(k, b, p, now_ms)
               w == Walked(k)
    <3>1. f.occupied /\ ~f.reaped /\ IsTable(w)
      BY <1>4 DEF NewFlow
    <3>2. st = [w EXCEPT ![s] = f] /\ n = SizeInserted(w, Cardinality(Counted(w)), s)
      BY <1>4 DEF Stored
    <3> HIDE DEF f, w, st, n
    <3>3. QED BY <3>1, <3>2, StoreSize
  <2>4. /\ slots' = [st EXCEPT ![s] = TornFlow(st[s], "kForward", flags)]
        /\ size' = TornSize(n, st[s], "kForward", flags)
        /\ burst'
    BY <1>8 DEF ForwardCreate, MaybeTeardown
  <2> HIDE DEF st, n
  <2>5. TornSize(Cardinality(Counted(st)), st[s], "kForward", flags)
          = Cardinality(Counted([st EXCEPT ![s] = TornFlow(st[s], "kForward", flags)]))
    BY <2>2, TornSizeCount
  <2>6. size' = Cardinality(Counted(slots'))
    BY <2>3, <2>4, <2>5
  <2>7. QED BY <2>4, <2>6 DEF SizeHonest, Counted
<1>9. ASSUME NEW b \in Backends, NEW p \in Ports, NEW proto \in Protos, NEW flags,
             NEW s \in Slots, ReverseHit(b, p, proto, flags, s)
      PROVE  SizeHonest'
  <2> DEFINE u == Touch(WalkedRev(b, p, proto), s, now_ms)
  <2>1. IsTable(u) /\ WalkedRevSize(b, p, proto) = Cardinality(Counted(u))
    BY <1>0, <1>5, TouchTable, TouchCounted
  <2>2. /\ slots' = [u EXCEPT ![s] = TornFlow(u[s], "kReverse", flags)]
        /\ size' = TornSize(WalkedRevSize(b, p, proto), u[s], "kReverse", flags)
        /\ burst'
    BY <1>9 DEF ReverseHit, MaybeTeardown
  <2> HIDE DEF u
  <2>3. TornSize(Cardinality(Counted(u)), u[s], "kReverse", flags)
          = Cardinality(Counted([u EXCEPT ![s] = TornFlow(u[s], "kReverse", flags)]))
    BY <2>1, TornSizeCount
  <2>4. size' = Cardinality(Counted(slots'))
    BY <2>1, <2>2, <2>3
  <2>5. QED BY <2>2, <2>4 DEF SizeHonest, Counted
<1>10. ASSUME NEW b \in Backends, NEW p \in Ports, NEW proto \in Protos, NEW flags,
              ReverseMiss(b, p, proto, flags)
       PROVE  SizeHonest'
  <2>1. /\ slots' = WalkedRev(b, p, proto)
        /\ size' = WalkedRevSize(b, p, proto) /\ burst'
    BY <1>10 DEF ReverseMiss
  <2>2. QED BY <2>1, <1>5 DEF SizeHonest, Counted
<1>11. QED BY <1>1, <1>2, <1>3, <1>6, <1>7, <1>8, <1>9, <1>10
           DEF Next, ForwardPacket, ReversePacket

\* size_ and, between bursts, the published gauge are the number of slots not
\* reaped, in every reachable state.
THEOREM GaugeHonest == Spec => []SizeHonest
<1>1. Init => SizeHonest
  <2> SUFFICES ASSUME Init PROVE SizeHonest
    OBVIOUS
  <2>1. Counted(slots) = {}
    BY DEF Init, Counted, EmptyFlow
  <2>2. QED BY <2>1, FS_EmptySet DEF Init, SizeHonest
<1>2. QED BY <1>1, SizeStep, TypeCorrect, PTL DEF Spec

-----------------------------------------------------------------------------
(* Bindings.                                                               *)

\* Slot s keeps its binding in this step, or is closed by its own packet.
Kept(s) ==
  /\ slots'[s].fwd_key = slots[s].fwd_key
  /\ slots'[s].backend_idx = slots[s].backend_idx
  /\ slots'[s].reaped \/ slots'[s].snat_port = slots[s].snat_port
  /\ slots'[s].reaped => ClosedByPacket(s)

\* A live flow is not reaped by the lookups of others.
LEMMA LiveUntouched ==
  ASSUME NEW sl, IsTable(sl), NEW S, NEW now, NEW s \in Slots, Live(sl[s], now)
  PROVE  ReapAll(sl, S, now)[s] = sl[s] /\ sl[s].occupied /\ ~sl[s].reaped
<1>1. ~Expired(sl[s], now) /\ sl[s].occupied /\ ~sl[s].reaped
  BY DEF Live, Expired
<1>2. s \notin Lapsed(sl, S, now)
  BY <1>1 DEF Lapsed
<1>3. QED BY <1>1, <1>2, ReapFacts

\* Closing keeps the FINs recorded.
LEMMA TornFin ==
  ASSUME NEW f \in Flow, NEW dir, NEW flags, Closes(f, dir, flags)
  PROVE  \/ "kTcpRst" \in flags
         \/ "kTcpFin" \in flags /\ TornFlow(f, dir, flags).fin_seen = FinBits
<1> DEFINE g == NoteFin(f, dir, flags)
<1>1. g \in Flow
  BY NoteFinFlow
<1> HIDE DEF g
<1>2. TornFlow(f, dir, flags) = Closed(g)
  BY DEF TornFlow, g
<1>3. Closed(g).fin_seen = g.fin_seen
  BY <1>1 DEF Closed, Flow
<1>4. QED BY <1>2, <1>3 DEF Closes, g

\* A hit on slot h keeps the binding of every live flow but a closed one.
LEMMA HitKeeps ==
  ASSUME IsTable(slots), now_ms \in Clock, NEW S, NEW h \in Slots, NEW dir, NEW flags,
         slots' = [Touch(ReapAll(slots, S, now_ms), h, now_ms) EXCEPT
                     ![h] = TornFlow(Touch(ReapAll(slots, S, now_ms), h, now_ms)[h],
                                     dir, flags)],
         meta'.verdict = "kNextDnat", meta'.key = slots[h].fwd_key,
         meta'.tcp_flags = flags,
         NEW s \in Slots, Live(slots[s], now_ms)
  PROVE  Kept(s)
<1> DEFINE w == ReapAll(slots, S, now_ms)
           u == Touch(w, h, now_ms)
<1>1. w[s] = slots[s] /\ ~slots[s].reaped /\ IsTable(w)
  BY LiveUntouched, ReapAllTable
<1>2. IsTable(u)
  BY <1>1, TouchTable
<1>3. /\ u[s].reaped = slots[s].reaped
      /\ u[s].fwd_key = slots[s].fwd_key
      /\ u[s].backend_idx = slots[s].backend_idx
      /\ u[s].snat_port = slots[s].snat_port
  BY <1>1, TouchTable
<1>4. slots' = [u EXCEPT ![h] = TornFlow(u[h], dir, flags)]
  OBVIOUS
<1> HIDE DEF w, u
<1>5. CASE s # h
  <2>1. slots'[s] = u[s]
    BY <1>2, <1>4, <1>5 DEF IsTable
  <2>2. QED BY <2>1, <1>1, <1>3 DEF Kept
<1>6. CASE s = h
  <2>1. slots'[s] = TornFlow(u[s], dir, flags) /\ u[s] \in Flow
    BY <1>2, <1>4, <1>6 DEF IsTable
  <2>2. CASE Closes(u[s], dir, flags)
    <3>1. /\ slots'[s].fwd_key = slots[s].fwd_key
          /\ slots'[s].backend_idx = slots[s].backend_idx
          /\ slots'[s].reaped
      BY <2>1, <2>2, <1>3, TornFlowFacts
    <3>2. \/ "kTcpRst" \in flags
          \/ "kTcpFin" \in flags /\ slots'[s].fin_seen = FinBits
      BY <2>1, <2>2, TornFin
    <3>3. ClosedByPacket(s)
      BY <3>2, <1>6 DEF ClosedByPacket
    <3>4. QED BY <3>1, <3>3 DEF Kept
  <2>3. CASE ~Closes(u[s], dir, flags)
    <3>1. /\ slots'[s].fwd_key = slots[s].fwd_key
          /\ slots'[s].backend_idx = slots[s].backend_idx
          /\ slots'[s].reaped = slots[s].reaped
          /\ slots'[s].snat_port = slots[s].snat_port
      BY <2>1, <2>3, <1>3, TornFlowFacts
    <3>2. QED BY <3>1, <1>1 DEF Kept
  <2>4. QED BY <2>2, <2>3
<1>7. QED BY <1>5, <1>6

LEMMA UnchangedKeeps ==
  ASSUME NEW s \in Slots, slots'[s] = slots[s], ~slots[s].reaped
  PROVE  Kept(s)
BY DEF Kept

LEMMA BindingStep ==
  ASSUME TypeOK, [Next]_vars, NEW s \in Slots, Live(slots[s], now_ms')
  PROVE  Kept(s)
<1>0. IsTable(slots) /\ now_ms \in Clock /\ ~slots[s].reaped /\ rev \in [Slots -> 0 .. Cap]
  BY DEF TypeOK, IsTable, Live, Expired
<1>1. CASE ProcessBegin \/ ProcessEnd \/ UNCHANGED vars
  BY <1>0, <1>1, UnchangedKeeps DEF ProcessBegin, ProcessEnd, vars, table
<1>2. ASSUME NEW k \in Keys, NEW flags, ProcessNoBackends(k, flags)
      PROVE  Kept(s)
  BY <1>0, <1>2, UnchangedKeeps DEF ProcessNoBackends, table
<1>3. ASSUME NEW b \in Backends, NEW p \in Ports, NEW flags,
             ProcessNoBackendsReverse(b, p, flags)
      PROVE  Kept(s)
  BY <1>0, <1>3, UnchangedKeeps DEF ProcessNoBackendsReverse, table
<1>4. ASSUME NEW k \in Keys, NEW flags, NEW h \in Slots, ForwardHit(k, flags, h)
      PROVE  Kept(s)
  <2>1. now_ms' = now_ms /\ slots[h].fwd_key = k
    BY <1>4, ForwardFindsFacts DEF ForwardHit
  <2>2. /\ meta'.verdict = "kNextDnat" /\ meta'.key = slots[h].fwd_key
        /\ meta'.tcp_flags = flags
    BY <1>4, <2>1 DEF ForwardHit, Emit
  <2>3. QED BY <1>0, <1>4, <2>1, <2>2, HitKeeps DEF ForwardHit, MaybeTeardown, Walked
<1>5. ASSUME NEW k \in Keys, NEW flags,
             \/ ForwardNoSyn(k, flags) \/ ForwardNoPort(k, flags)
             \/ ForwardTableFull(k, flags)
      PROVE  Kept(s)
  <2>1. slots' = Walked(k) /\ now_ms' = now_ms
    BY <1>5 DEF ForwardNoSyn, ForwardNoPort, ForwardTableFull
  <2>2. QED BY <2>1, <1>0, LiveUntouched, UnchangedKeeps DEF Walked
<1>6. ASSUME NEW k \in Keys, NEW flags, NEW t \in Slots, ForwardCreate(k, flags, t)
      PROVE  Kept(s)
  <2>1. now_ms' = now_ms
    BY <1>6 DEF ForwardCreate
  <2>2. Walked(k)[s] = slots[s] /\ slots[s].occupied /\ ~slots[s].reaped
    BY <2>1, <1>0, LiveUntouched DEF Walked
  <2>3. /\ \A v \in Slots \ {t} : slots'[v] = Walked(k)[v]
        /\ InsertsAt(Walked(k), k, now_ms, t)
    BY <1>6, CreateShape
  <2>4. s # t
    BY <2>1, <2>2, <2>3, InsertsAtSlot DEF Live
  <2>5. QED BY <2>2, <2>3, <2>4, UnchangedKeeps
<1>7. ASSUME NEW b \in Backends, NEW p \in Ports, NEW proto \in Protos, NEW flags,
             NEW h \in Slots, ReverseHit(b, p, proto, flags, h)
      PROVE  Kept(s)
  <2>1. /\ now_ms' = now_ms
        /\ meta'.verdict = "kNextDnat" /\ meta'.key = slots[h].fwd_key
        /\ meta'.tcp_flags = flags
    BY <1>7 DEF ReverseHit, Emit
  <2>2. QED BY <1>0, <1>7, <2>1, HitKeeps DEF ReverseHit, MaybeTeardown, WalkedRev
<1>8. ASSUME NEW b \in Backends, NEW p \in Ports, NEW proto \in Protos, NEW flags,
             ReverseMiss(b, p, proto, flags)
      PROVE  Kept(s)
  <2>1. slots' = WalkedRev(b, p, proto) /\ now_ms' = now_ms
    BY <1>8 DEF ReverseMiss
  <2>2. QED BY <2>1, <1>0, LiveUntouched, UnchangedKeeps DEF WalkedRev
<1>9. QED BY <1>1, <1>2, <1>3, <1>4, <1>5, <1>6, <1>7, <1>8
          DEF Next, ForwardPacket, ReversePacket

\* No step moves or evicts a flow that has not timed out: its client, backend
\* and port stay until a RST or both FINs of its own close it, whichever
\* backends are enabled meanwhile.
THEOREM BindingsStable == Spec => BindingStable
<1>1. TypeOK /\ [Next]_vars => [\A s \in Slots : Live(slots[s], now_ms') =>
         /\ slots'[s].fwd_key = slots[s].fwd_key
         /\ slots'[s].backend_idx = slots[s].backend_idx
         /\ slots'[s].reaped \/ slots'[s].snat_port = slots[s].snat_port
         /\ slots'[s].reaped => ClosedByPacket(s)]_vars
  BY BindingStep DEF Kept
<1>2. QED BY <1>1, TypeCorrect, PTL DEF Spec, BindingStable

=============================================================================
