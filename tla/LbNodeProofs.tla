---------------------------- MODULE LbNodeProofs ----------------------------
(***************************************************************************)
(* Proofs about LbNode for every capacity, timeout, clock width, set of    *)
(* clients, set of backends and port pool.                                 *)
(***************************************************************************)
EXTENDS LbNode, FiniteSetTheorems, TLAPS

\* A table: a flow in every slot, and a client's key in every used one.
IsTable(sl) ==
  /\ sl \in [Slots -> Flow]
  /\ \A s \in Slots : sl[s].occupied => sl[s].fwd_key \in Keys

\* Port stacks, one per backend.
IsFree(fr) == fr \in [Backends -> Seq(Ports)]

-----------------------------------------------------------------------------
(* Typing.                                                                 *)

\* Reaping keeps a table a table.
LEMMA ReapAllTable ==
  ASSUME NEW sl, IsTable(sl), NEW S, NEW now
  PROVE  IsTable(ReapAll(sl, S, now))
<1> DEFINE r == ReapAll(sl, S, now)
<1>1. ASSUME NEW s \in Slots
      PROVE  /\ r[s] \in Flow
             /\ r[s].occupied => r[s].fwd_key \in Keys
  <2>1. CASE s \in Lapsed(sl, S, now)
    <3>1. r[s] = [sl[s] EXCEPT !.reaped = TRUE]
      BY <2>1 DEF ReapAll
    <3>2. QED BY <3>1 DEF IsTable, Flow
  <2>2. CASE s \notin Lapsed(sl, S, now)
    BY <2>2 DEF ReapAll, IsTable
  <2>3. QED BY <2>1, <2>2
<1>2. r = [s \in Slots |-> r[s]]
  BY DEF ReapAll
<1>3. QED BY <1>1, <1>2 DEF IsTable

\* Releasing a port, or 0, keeps the stacks stacks.
LEMMA ReleaseFree ==
  ASSUME NEW fr, IsFree(fr), NEW b \in Backends, NEW p \in Ports \cup {0}
  PROVE  IsFree(Release(fr, b, p))
BY DEF IsFree, Release

\* Recording a FIN keeps a flow's type and changes nothing but fin_seen.
LEMMA NoteFinFlow ==
  ASSUME NEW f \in Flow, NEW dir, NEW flags
  PROVE  /\ NoteFin(f, dir, flags) \in Flow
         /\ NoteFin(f, dir, flags).occupied = f.occupied
         /\ NoteFin(f, dir, flags).reaped = f.reaped
         /\ NoteFin(f, dir, flags).fwd_key = f.fwd_key
         /\ NoteFin(f, dir, flags).backend_idx = f.backend_idx
         /\ NoteFin(f, dir, flags).snat_port = f.snat_port
BY DEF NoteFin, Fin, Flow, FinBits

\* What MaybeTeardown does to a flow.
LEMMA TornFlowFacts ==
  ASSUME NEW f \in Flow, NEW dir, NEW flags
  PROVE  /\ TornFlow(f, dir, flags) \in Flow
         /\ TornFlow(f, dir, flags).occupied = f.occupied
         /\ TornFlow(f, dir, flags).fwd_key = f.fwd_key
         /\ TornFlow(f, dir, flags).backend_idx = f.backend_idx
         /\ Closes(f, dir, flags) =>
              /\ TornFlow(f, dir, flags).reaped
              /\ TornFlow(f, dir, flags).snat_port = 0
         /\ ~Closes(f, dir, flags) =>
              /\ TornFlow(f, dir, flags).reaped = f.reaped
              /\ TornFlow(f, dir, flags).snat_port = f.snat_port
<1> DEFINE g == NoteFin(f, dir, flags)
<1>1. /\ g \in Flow
      /\ g.occupied = f.occupied
      /\ g.reaped = f.reaped
      /\ g.fwd_key = f.fwd_key
      /\ g.backend_idx = f.backend_idx
      /\ g.snat_port = f.snat_port
  BY NoteFinFlow
<1> HIDE DEF g
<1>2. TornFlow(f, dir, flags) = IF Closes(f, dir, flags) THEN Closed(g) ELSE g
  BY DEF TornFlow, g
<1>3. QED BY <1>1, <1>2 DEF Closed, Flow

\* Replacing a flow by a flow with the same key keeps a table a table.
LEMMA UpdateTable ==
  ASSUME NEW sl, IsTable(sl), NEW s \in Slots, NEW f \in Flow,
         f.occupied => f.fwd_key \in Keys
  PROVE  IsTable([sl EXCEPT ![s] = f])
BY DEF IsTable

\* A lookup's hit refreshes the flow and nothing else.
LEMMA TouchTable ==
  ASSUME NEW sl, IsTable(sl), NEW s \in Slots, NEW now \in Clock
  PROVE  /\ IsTable(Touch(sl, s, now))
         /\ \A t \in Slots :
              /\ Touch(sl, s, now)[t].occupied = sl[t].occupied
              /\ Touch(sl, s, now)[t].reaped = sl[t].reaped
              /\ Touch(sl, s, now)[t].fwd_key = sl[t].fwd_key
              /\ Touch(sl, s, now)[t].backend_idx = sl[t].backend_idx
              /\ Touch(sl, s, now)[t].snat_port = sl[t].snat_port
              /\ Touch(sl, s, now)[t].fin_seen = sl[t].fin_seen
<1>1. sl \in [Slots -> Flow]
  BY DEF IsTable
<1>2. Touch(sl, s, now) = [sl EXCEPT ![s] = [sl[s] EXCEPT !.last_seen_ms = now]]
  BY DEF Touch
<1>3. [sl[s] EXCEPT !.last_seen_ms = now] \in Flow
  BY <1>1 DEF Flow
<1>4. QED BY <1>1, <1>2, <1>3 DEF IsTable, Flow

\* MaybeTeardown keeps the types.
LEMMA TornTypes ==
  ASSUME NEW sl, IsTable(sl), NEW n \in Nat, NEW fr, IsFree(fr),
         NEW s \in Slots, NEW dir, NEW flags
  PROVE  /\ IsTable([sl EXCEPT ![s] = TornFlow(sl[s], dir, flags)])
         /\ TornSize(n, sl[s], dir, flags) \in Nat
         /\ IsFree(TornFree(fr, sl[s], dir, flags))
<1>1. sl[s] \in Flow
  BY DEF IsTable
<1>2. IsTable([sl EXCEPT ![s] = TornFlow(sl[s], dir, flags)])
  BY <1>1, TornFlowFacts, UpdateTable DEF IsTable
<1>3. TornSize(n, sl[s], dir, flags) \in Nat
  BY DEF TornSize, Less
<1>4. IsFree(TornFree(fr, sl[s], dir, flags))
  <2>1. sl[s].backend_idx \in Backends /\ sl[s].snat_port \in Ports \cup {0}
    BY <1>1 DEF Flow
  <2>2. IsFree(Release(fr, sl[s].backend_idx, sl[s].snat_port))
    BY <2>1, ReleaseFree
  <2>3. QED BY <2>2 DEF TornFree
<1>5. QED BY <1>2, <1>3, <1>4

\* size_ stays a natural number when slots are reaped.
LEMMA SizeReapedNat ==
  ASSUME NEW sl, NEW n \in Nat, NEW S, NEW now, IsFiniteSet(S)
  PROVE  SizeReaped(sl, n, S, now) \in Nat
<1>1. IsFiniteSet(Lapsed(sl, S, now))
  BY FS_Subset DEF Lapsed
<1>2. Cardinality(Lapsed(sl, S, now)) \in Nat
  BY <1>1, FS_CardinalityType
<1>3. QED BY <1>2 DEF SizeReaped, Less

\* Sets of slots are finite.
LEMMA SlotsFinite ==
  /\ IsFiniteSet(Slots)
  /\ \A S \in SUBSET Slots : IsFiniteSet(S)
<1>1. IsFiniteSet(Slots)
  BY FS_Interval, TableAssumption DEF Slots
<1>2. QED BY <1>1, FS_Subset

\* The pool of a burst selects a backend.
LEMMA SelectBackend ==
  ASSUME NEW a \in ActiveLists, a # <<>>, NEW k \in Keys
  PROVE  Select(a, k) \in Backends
<1>1. PICK n \in 0 .. Cardinality(Backends) : a \in [1 .. n -> Backends]
  BY DEF ActiveLists
<1>2. n \in Nat
  BY <1>1
<1>3. Len(a) = n /\ a \in Seq(Backends)
  BY <1>1, <1>2
<1>4. n # 0
  BY <1>1, <1>3
<1>5. Hash[k] % n \in 0 .. n - 1
  BY <1>2, <1>4, TableAssumption
<1>6. QED BY <1>1, <1>3, <1>5 DEF Select

\* Probing starts at a place, and two places are never equally far from it.
LEMMA HomeSlot == \A k \in Keys : Home(k) \in Slots
BY TableAssumption DEF Home, Slots

LEMMA RevHomeSlot ==
  \A b \in Backends, p \in Ports, proto \in Protos : RevHome(b, p, proto) \in Slots
<1> SUFFICES ASSUME NEW b \in Backends, NEW p \in Ports, NEW proto \in Protos
             PROVE  RevHome(b, p, proto) \in Slots
  OBVIOUS
<1>1. RevHash[<<b, p, proto>>] \in Nat
  BY TableAssumption
<1>2. QED BY <1>1, TableAssumption DEF RevHome, Slots

LEMMA DistFacts ==
  ASSUME NEW a \in Slots, NEW s \in Slots, NEW t \in Slots
  PROVE  /\ Dist(a, s) \in 0 .. Cap - 1
         /\ Dist(a, s) = Dist(a, t) => s = t
BY TableAssumption DEF Dist, Slots

\* What a reverse lookup walks over are slots.
LEMMA ReversePassedSlots ==
  ASSUME NEW sl, NEW rv \in [Slots -> 0 .. Cap], NEW b \in Backends,
         NEW p \in Ports, NEW proto \in Protos, NEW now
  PROVE  ReversePassed(sl, rv, b, p, proto, now) \subseteq Slots
<1> DEFINE stops == ReverseStops(sl, rv, b, p, proto, now)
<1>1. ASSUME NEW c \in Passed(RevHome(b, p, proto), stops)
      PROVE  rv[c] - 1 \in Slots
  <2>1. c \in Slots /\ \A t \in stops :
           Dist(RevHome(b, p, proto), c) < Dist(RevHome(b, p, proto), t)
    BY <1>1 DEF Passed
  <2>2. c \notin stops
    BY <2>1, RevHomeSlot, DistFacts
  <2>3. rv[c] # 0
    BY <2>1, <2>2 DEF ReverseStops
  <2>4. QED BY <2>1, <2>3, TableAssumption DEF Slots
<1>2. QED BY <1>1 DEF ReversePassed

LEMMA ForwardPassedSlots ==
  ASSUME NEW sl, NEW k, NEW now
  PROVE  ForwardPassed(sl, k, now) \subseteq Slots
BY DEF ForwardPassed, Passed

\* The tables and sizes a lookup leaves behind.
LEMMA WalkedTypes ==
  ASSUME TypeOK, NEW k \in Keys
  PROVE  IsTable(Walked(k)) /\ WalkedSize(k) \in Nat
<1>1. IsTable(slots) /\ size \in Nat
  BY DEF TypeOK, IsTable
<1>2. IsTable(Walked(k))
  BY <1>1, ReapAllTable DEF Walked
<1>3. IsFiniteSet(ForwardPassed(slots, k, now_ms))
  BY ForwardPassedSlots, SlotsFinite
<1>4. WalkedSize(k) \in Nat
  BY <1>1, <1>3, SizeReapedNat DEF WalkedSize
<1>5. QED BY <1>2, <1>4

LEMMA WalkedRevTypes ==
  ASSUME TypeOK, NEW b \in Backends, NEW p \in Ports, NEW proto \in Protos
  PROVE  IsTable(WalkedRev(b, p, proto)) /\ WalkedRevSize(b, p, proto) \in Nat
<1>1. IsTable(slots) /\ size \in Nat /\ rev \in [Slots -> 0 .. Cap]
  BY DEF TypeOK, IsTable
<1>2. IsTable(WalkedRev(b, p, proto))
  BY <1>1, ReapAllTable DEF WalkedRev
<1>3. IsFiniteSet(ReversePassed(slots, rev, b, p, proto, now_ms))
  BY <1>1, ReversePassedSlots, SlotsFinite
<1>4. WalkedRevSize(b, p, proto) \in Nat
  BY <1>1, <1>3, SizeReapedNat DEF WalkedRevSize
<1>5. QED BY <1>2, <1>4

\* Acquire: the top of a stack that is not empty is a port, and the rest is a
\* stack.
LEMMA PopFree ==
  ASSUME NEW fr, IsFree(fr), NEW b \in Backends, fr[b] # <<>>
  PROVE  /\ Top(fr[b]) \in Ports
         /\ IsFree([fr EXCEPT ![b] = Pop(@)])
         /\ Len(fr[b]) \in Nat \ {0}
         /\ Len(Pop(fr[b])) = Len(fr[b]) - 1
         /\ \A i \in 1 .. Len(fr[b]) - 1 : Pop(fr[b])[i] = fr[b][i]
<1>1. fr[b] \in Seq(Ports)
  BY DEF IsFree
<1>2. Len(fr[b]) \in Nat \ {0}
  BY <1>1
<1>3. Top(fr[b]) \in Ports
  BY <1>1, <1>2 DEF Top
<1>4. Pop(fr[b]) \in Seq(Ports) /\ Len(Pop(fr[b])) = Len(fr[b]) - 1
      /\ \A i \in 1 .. Len(fr[b]) - 1 : Pop(fr[b])[i] = fr[b][i]
  BY <1>1, <1>2 DEF Pop
<1>5. IsFree([fr EXCEPT ![b] = Pop(@)])
  BY <1>4 DEF IsFree
<1>6. QED BY <1>2, <1>3, <1>4, <1>5

\* Indexing a flow writes a pointer to its slot.
LEMMA IndexType ==
  ASSUME NEW sl, NEW rv \in [Slots -> 0 .. Cap], NEW s \in Slots, NEW now
  PROVE  IndexReverse(sl, rv, s, now) \in [Slots -> 0 .. Cap]
<1>1. s + 1 \in 0 .. Cap
  BY TableAssumption DEF Slots
<1>2. QED BY <1>1 DEF IndexReverse

\* The conjuncts of TypeOK about the arrays, and about the rest.
TypeTable(sl, rv, n, fr) ==
  IsTable(sl) /\ rv \in [Slots -> 0 .. Cap] /\ n \in Nat /\ IsFree(fr)

TypeRest ==
  /\ now_ms \in Clock
  /\ burst \in BOOLEAN
  /\ pool \in ActiveLists
  /\ burst => pool # <<>>
  /\ active_flows \in Nat
  /\ meta \in [dir : Directions, key : Keys \cup {NoKey},
               backend_idx : Backends, snat_port : Ports \cup {0},
               tcp_flags : SUBSET TcpFlags, verdict : Verdicts]

LEMMA TypeSplit == TypeOK <=> TypeTable(slots, rev, size, free) /\ TypeRest
BY DEF TypeOK, TypeTable, TypeRest, IsTable, IsFree

LEMMA TypeSplitNext ==
  TypeTable(slots', rev', size', free') /\ TypeRest' => TypeOK'
BY DEF TypeOK, TypeTable, TypeRest, IsTable, IsFree

\* Emit writes a packet's metadata of the right type.
LEMMA EmitType ==
  ASSUME NEW dir \in Directions, NEW k \in Keys \cup {NoKey},
         NEW b \in Backends, NEW p \in Ports \cup {0},
         NEW flags \in SUBSET TcpFlags, NEW v \in Verdicts,
         Emit(dir, k, b, p, flags, v), TypeRest,
         UNCHANGED <<now_ms, burst, pool, active_flows>>
  PROVE  TypeRest'
BY DEF Emit, TypeRest

\* The flags a packet of either protocol carries.
LEMMA FlagsType == \A proto : \A flags \in Flags(proto) : flags \in SUBSET TcpFlags
BY FlagAssumption DEF Flags

\* A hit's slot holds a flow of the key looked up.
LEMMA ForwardFindsFacts ==
  ASSUME NEW sl, NEW k, NEW now, NEW s, ForwardFinds(sl, k, now, s)
  PROVE  /\ s \in Slots /\ Live(sl[s], now) /\ sl[s].fwd_key = k
         /\ s \in ForwardHits(sl, k, now)
BY DEF ForwardFinds, ForwardHits

LEMMA ReverseFindsFacts ==
  ASSUME NEW sl, NEW rv \in [Slots -> 0 .. Cap], NEW b, NEW p, NEW proto, NEW now,
         NEW s, ReverseFinds(sl, rv, b, p, proto, now, s)
  PROVE  /\ s \in Slots /\ Live(sl[s], now)
         /\ sl[s].backend_idx = b /\ sl[s].snat_port = p
<1>1. PICK c \in ReverseHits(sl, rv, b, p, proto, now) : s = rv[c] - 1
  BY DEF ReverseFinds
<1>2. /\ c \in Slots /\ rv[c] # 0
      /\ ReverseMatch(sl[s], b, p, proto, now)
  BY <1>1 DEF ReverseHits
<1>3. rv[c] \in 0 .. Cap
  BY <1>2
<1>4. s \in Slots
  BY <1>1, <1>2, <1>3, TableAssumption DEF Slots
<1>5. QED BY <1>2, <1>4 DEF ReverseMatch

LEMMA InsertsAtSlot ==
  ASSUME NEW sl, NEW k, NEW now, NEW s, InsertsAt(sl, k, now, s)
  PROVE  /\ s \in Slots
         /\ ~sl[s].occupied \/ Expired(sl[s], now)
BY DEF InsertsAt, IsFirst, InsertStops

\* The flow CreateFlow stores.
LEMMA StoredTypes ==
  ASSUME TypeOK, NEW k \in Keys, NEW b \in Backends, free[b] # <<>>,
         NEW s \in Slots
  PROVE  /\ NewFlow(k, b, Top(free[b]), now_ms) \in Flow
         /\ IsTable(Stored(k, b, Top(free[b]), s))
         /\ SizeInserted(Walked(k), WalkedSize(k), s) \in Nat
         /\ Walked(k)[s].backend_idx \in Backends
         /\ EvictedPort(Walked(k), s) \in Ports \cup {0}
         /\ IsFree(Traded(k, b, s))
<1>1. IsTable(Walked(k)) /\ WalkedSize(k) \in Nat
  BY WalkedTypes
<1>2. IsFree(free) /\ now_ms \in Clock
  BY DEF TypeOK, IsFree
<1>3. Top(free[b]) \in Ports /\ IsFree([free EXCEPT ![b] = Pop(@)])
  BY <1>2, PopFree
<1>4. NewFlow(k, b, Top(free[b]), now_ms) \in Flow
  BY <1>2, <1>3 DEF NewFlow, Flow
<1>5. NewFlow(k, b, Top(free[b]), now_ms).fwd_key \in Keys
  BY DEF NewFlow
<1>6. IsTable(Stored(k, b, Top(free[b]), s))
  BY <1>1, <1>4, <1>5, UpdateTable DEF Stored
<1>7. SizeInserted(Walked(k), WalkedSize(k), s) \in Nat
  BY <1>1 DEF SizeInserted
<1>8. Walked(k)[s] \in Flow
  BY <1>1 DEF IsTable
<1>9. /\ Walked(k)[s].backend_idx \in Backends
      /\ EvictedPort(Walked(k), s) \in Ports \cup {0}
  BY <1>8 DEF Flow, EvictedPort
<1>10. IsFree(Traded(k, b, s))
  BY <1>3, <1>9, ReleaseFree DEF Traded
<1>11. QED BY <1>4, <1>6, <1>7, <1>9, <1>10

\* A pool may have no active backend.
LEMMA NoBackendActive == <<>> \in ActiveLists
<1>1. Cardinality(Backends) \in Nat
  BY TableAssumption, FS_CardinalityType
<1>2. <<>> \in [1 .. 0 -> Backends] /\ 0 \in 0 .. Cardinality(Backends)
  BY <1>1
<1>3. \A i, j \in DOMAIN <<>> : i < j => <<>>[i] < <<>>[j]
  OBVIOUS
<1>4. QED BY <1>2, <1>3 DEF ActiveLists

\* Every step keeps the types.
LEMMA TypeStep == TypeOK /\ [Next]_vars => TypeOK'
<1> SUFFICES ASSUME TypeOK, [Next]_vars PROVE TypeOK'
  OBVIOUS
<1>0. TypeTable(slots, rev, size, free) /\ TypeRest
  BY TypeSplit
<1>a. 0 \in Backends /\ "kForward" \in Directions /\ "kReverse" \in Directions
      /\ "kNextDnat" \in Verdicts /\ "kNextDrop" \in Verdicts
  BY TableAssumption DEF Directions, Verdicts
<1>1. CASE ProcessBegin
  BY <1>1, <1>0, TypeSplitNext DEF ProcessBegin, table, TypeTable, TypeRest
<1>2. CASE ProcessEnd
  <2>1. <<>> \in ActiveLists
    BY NoBackendActive
  <2>2. QED BY <1>2, <1>0, <2>1, TypeSplitNext
            DEF ProcessEnd, table, TypeTable, TypeRest
<1>3. ASSUME NEW k \in Keys, NEW flags \in Flags(Proto[k]),
             ProcessNoBackends(k, flags)
      PROVE  TypeOK'
  <2>1. TypeTable(slots', rev', size', free')
    BY <1>0, <1>3 DEF ProcessNoBackends, table, TypeTable
  <2>2. TypeRest'
    BY <1>0, <1>3, <1>a, FlagsType, EmitType DEF ProcessNoBackends
  <2>3. QED BY <2>1, <2>2, TypeSplitNext
<1>4. ASSUME NEW b \in Backends, NEW p \in Ports, NEW proto \in Protos,
             NEW flags \in Flags(proto), ProcessNoBackendsReverse(b, p, flags)
      PROVE  TypeOK'
  <2>1. TypeTable(slots', rev', size', free')
    BY <1>0, <1>4 DEF ProcessNoBackendsReverse, table, TypeTable
  <2>2. TypeRest'
    BY <1>0, <1>4, <1>a, FlagsType, EmitType DEF ProcessNoBackendsReverse
  <2>3. QED BY <2>1, <2>2, TypeSplitNext
<1>5. ASSUME NEW k \in Keys, NEW flags \in Flags(Proto[k]), NEW s \in Slots,
             ForwardHit(k, flags, s)
      PROVE  TypeOK'
  <2>1. IsTable(Walked(k)) /\ WalkedSize(k) \in Nat /\ IsFree(free)
    BY <1>0, WalkedTypes DEF TypeTable
  <2>2. IsTable(Touch(Walked(k), s, now_ms))
    BY <2>1, <1>0, TouchTable DEF TypeRest
  <2>3. TypeTable(slots', rev', size', free')
    BY <2>1, <2>2, <1>0, <1>5, TornTypes DEF ForwardHit, MaybeTeardown, TypeTable
  <2>4. slots[s] \in Flow
    BY <1>0 DEF TypeTable, IsTable
  <2>5. slots[s].backend_idx \in Backends /\ slots[s].snat_port \in Ports \cup {0}
    BY <2>4 DEF Flow
  <2>6. TypeRest'
    BY <2>5, <1>0, <1>5, <1>a, FlagsType, EmitType DEF ForwardHit
  <2>7. QED BY <2>3, <2>6, TypeSplitNext
<1>6. ASSUME NEW k \in Keys, NEW flags \in Flags(Proto[k]),
             ForwardNoSyn(k, flags) \/ ForwardNoPort(k, flags)
      PROVE  TypeOK'
  <2>1. TypeTable(slots', rev', size', free')
    BY <1>0, <1>6, WalkedTypes DEF ForwardNoSyn, ForwardNoPort, TypeTable
  <2>2. TypeRest'
    BY <1>0, <1>6, <1>a, FlagsType, EmitType DEF ForwardNoSyn, ForwardNoPort
  <2>3. QED BY <2>1, <2>2, TypeSplitNext
<1>7. ASSUME NEW k \in Keys, NEW flags \in Flags(Proto[k]),
             ForwardTableFull(k, flags)
      PROVE  TypeOK'
  <2> DEFINE b == Select(pool, k)
  <2>1. b \in Backends /\ free[b] # <<>>
    BY <1>0, <1>7, SelectBackend DEF TypeRest, ForwardTableFull
  <2>2. Top(free[b]) \in Ports /\ IsFree([free EXCEPT ![b] = Pop(@)])
    BY <2>1, <1>0, PopFree DEF TypeTable
  <2>3. IsFree(Release([free EXCEPT ![b] = Pop(@)], b, Top(free[b])))
    BY <2>1, <2>2, ReleaseFree
  <2>4. TypeTable(slots', rev', size', free')
    BY <2>3, <1>0, <1>7, WalkedTypes DEF ForwardTableFull, ReturnPort, TypeTable
  <2>5. TypeRest'
    BY <1>0, <1>7, <1>a, FlagsType, EmitType DEF ForwardTableFull
  <2>6. QED BY <2>4, <2>5, TypeSplitNext
<1>8. ASSUME NEW k \in Keys, NEW flags \in Flags(Proto[k]), NEW s \in Slots,
             ForwardCreate(k, flags, s)
      PROVE  TypeOK'
  <2> DEFINE b == Select(pool, k)
             p == Top(free[b])
  <2>1. b \in Backends /\ free[b] # <<>>
    BY <1>0, <1>8, SelectBackend DEF TypeRest, ForwardCreate
  <2>2. /\ p \in Ports
        /\ IsTable(Stored(k, b, p, s))
        /\ SizeInserted(Walked(k), WalkedSize(k), s) \in Nat
        /\ IsFree(Traded(k, b, s))
    BY <2>1, <1>0, PopFree, StoredTypes DEF TypeTable
  <2>3. rev' \in [Slots -> 0 .. Cap]
    BY <1>0, <1>8, IndexType DEF TypeTable, ForwardCreate
  <2>4. TypeTable(slots', rev', size', free')
    BY <2>2, <2>3, <1>8, TornTypes DEF ForwardCreate, MaybeTeardown, TypeTable
  <2>5. TypeRest'
    BY <2>1, <2>2, <1>0, <1>8, <1>a, FlagsType, EmitType DEF ForwardCreate
  <2>6. QED BY <2>4, <2>5, TypeSplitNext
<1>9. ASSUME NEW b \in Backends, NEW p \in Ports, NEW proto \in Protos,
             NEW flags \in Flags(proto), NEW s \in Slots,
             ReverseHit(b, p, proto, flags, s)
      PROVE  TypeOK'
  <2>1. IsTable(WalkedRev(b, p, proto)) /\ WalkedRevSize(b, p, proto) \in Nat
        /\ IsFree(free)
    BY <1>0, WalkedRevTypes DEF TypeTable
  <2>2. IsTable(Touch(WalkedRev(b, p, proto), s, now_ms))
    BY <2>1, <1>0, TouchTable DEF TypeRest
  <2>3. TypeTable(slots', rev', size', free')
    BY <2>1, <2>2, <1>0, <1>9, TornTypes DEF ReverseHit, MaybeTeardown, TypeTable
  <2>4. slots[s] \in Flow
    BY <1>0 DEF TypeTable, IsTable
  <2>5. slots[s].fwd_key \in Keys \cup {NoKey}
    BY <2>4 DEF Flow
  <2>6. TypeRest'
    BY <2>5, <1>0, <1>9, <1>a, FlagsType, EmitType DEF ReverseHit
  <2>7. QED BY <2>3, <2>6, TypeSplitNext
<1>10. ASSUME NEW b \in Backends, NEW p \in Ports, NEW proto \in Protos,
              NEW flags \in Flags(proto), ReverseMiss(b, p, proto, flags)
       PROVE  TypeOK'
  <2>1. TypeTable(slots', rev', size', free')
    BY <1>0, <1>10, WalkedRevTypes DEF ReverseMiss, TypeTable
  <2>2. TypeRest'
    BY <1>0, <1>10, <1>a, FlagsType, EmitType DEF ReverseMiss
  <2>3. QED BY <2>1, <2>2, TypeSplitNext
<1>11. CASE UNCHANGED vars
  BY <1>11 DEF vars, TypeOK
<1>12. QED BY <1>1, <1>2, <1>3, <1>4, <1>5, <1>6, <1>7, <1>8, <1>9, <1>10, <1>11
           DEF Next, ForwardPacket, ReversePacket

LEMMA TypeInit == Init => TypeOK
<1> SUFFICES ASSUME Init PROVE TypeOK
  OBVIOUS
<1>1. EmptyFlow \in Flow /\ ~EmptyFlow.occupied
  BY TableAssumption DEF EmptyFlow, Flow, Clock
<1>2. TypeTable(slots, rev, size, free)
  BY <1>1, TableAssumption, PoolAssumption DEF Init, TypeTable, IsTable, IsFree
<1>3. TypeRest
  BY NoBackendActive, TableAssumption
     DEF Init, TypeRest, Directions, Verdicts, TcpFlags
<1>4. QED BY <1>2, <1>3, TypeSplit

\* Every variable of the node has its type after every step of every burst:
\* no stack ever holds port 0 and no used slot the empty key.
THEOREM TypeCorrect == Spec => []TypeOK
BY TypeInit, TypeStep, PTL DEF Spec

-----------------------------------------------------------------------------
(* Conservation of ports.                                                  *)

Conserved(sl, fr) == NeverTwice(sl, fr) /\ NeverLost(sl, fr)

\* No stack holds a port twice.
NoDup(fr) ==
  \A b \in Backends : \A i, j \in 1 .. Len(fr[b]) : fr[b][i] = fr[b][j] => i = j

\* Conservation, said with NoDup, Pooled and Owns only.
LEMMA ConservedUnfold ==
  ASSUME NEW sl, NEW fr
  PROVE  Conserved(sl, fr) <=>
           /\ NoDup(fr)
           /\ \A b \in Backends, s \in Slots, p \in Ports :
                Owns(sl, s, b, p) => ~Pooled(fr, b, p)
           /\ \A b \in Backends, s \in Slots, t \in Slots, p \in Ports :
                Owns(sl, s, b, p) /\ Owns(sl, t, b, p) => s = t
           /\ \A b \in Backends, p \in Ports :
                Pooled(fr, b, p) \/ \E s \in Slots : Owns(sl, s, b, p)
BY DEF Conserved, NeverTwice, NeverLost, NoDup

\* Release adds exactly its port to exactly its stack.
LEMMA PooledRelease ==
  ASSUME NEW fr, IsFree(fr), NEW b \in Backends, NEW p \in Ports
  PROVE  /\ \A c \in Backends, q \in Ports :
              Pooled(Release(fr, b, p), c, q) <=> Pooled(fr, c, q) \/ (c = b /\ q = p)
         /\ NoDup(fr) /\ ~Pooled(fr, b, p) => NoDup(Release(fr, b, p))
<1> DEFINE r == Release(fr, b, p)
<1>1. p # 0
  BY TableAssumption
<1>2. r = [fr EXCEPT ![b] = Append(fr[b], p)]
  BY <1>1 DEF Release
<1>3. fr \in [Backends -> Seq(Ports)]
  BY DEF IsFree
<1>4. r[b] = Append(fr[b], p) /\ fr[b] \in Seq(Ports)
  BY <1>2, <1>3
<1>5. \A c \in Backends \ {b} : r[c] = fr[c]
  BY <1>2, <1>3
<1>6. /\ Len(fr[b]) \in Nat
      /\ Len(r[b]) = Len(fr[b]) + 1
      /\ r[b][Len(fr[b]) + 1] = p
      /\ \A i \in 1 .. Len(fr[b]) : r[b][i] = fr[b][i]
  BY <1>4
<1> HIDE DEF r
<1>7. ASSUME NEW c \in Backends, NEW q \in Ports
      PROVE  Pooled(r, c, q) <=> Pooled(fr, c, q) \/ (c = b /\ q = p)
  <2>1. CASE c # b
    BY <2>1, <1>5 DEF Pooled
  <2>2. CASE c = b
    BY <2>2, <1>6 DEF Pooled
  <2>3. QED BY <2>1, <2>2
<1>8. ASSUME NoDup(fr), ~Pooled(fr, b, p) PROVE NoDup(r)
  <2>1. ASSUME NEW c \in Backends, NEW i \in 1 .. Len(r[c]), NEW j \in 1 .. Len(r[c]),
               r[c][i] = r[c][j]
        PROVE  i = j
    <3>1. CASE c # b
      BY <3>1, <2>1, <1>5, <1>8 DEF NoDup
    <3>2. CASE c = b
      <4>1. \A l \in 1 .. Len(fr[b]) : fr[b][l] # p
        BY <1>8 DEF Pooled
      <4>2. \A l, m \in 1 .. Len(fr[b]) : fr[b][l] = fr[b][m] => l = m
        BY <1>8 DEF NoDup
      <4>3. i \in 1 .. Len(fr[b]) + 1 /\ j \in 1 .. Len(fr[b]) + 1
        BY <3>2, <2>1, <1>6
      <4>4. CASE i = Len(fr[b]) + 1
        BY <4>4, <4>3, <4>1, <3>2, <2>1, <1>6
      <4>5. CASE j = Len(fr[b]) + 1
        BY <4>5, <4>3, <4>1, <3>2, <2>1, <1>6
      <4>6. CASE i # Len(fr[b]) + 1 /\ j # Len(fr[b]) + 1
        <5>1. i \in 1 .. Len(fr[b]) /\ j \in 1 .. Len(fr[b])
          BY <4>6, <4>3, <1>6
        <5>2. QED BY <5>1, <4>2, <3>2, <2>1, <1>6
      <4>7. QED BY <4>4, <4>5, <4>6
    <3>3. QED BY <3>1, <3>2
  <2>2. QED BY <2>1 DEF NoDup
<1>9. QED BY <1>7, <1>8 DEF r

\* Acquire takes exactly the top off exactly its stack.
LEMMA PooledPop ==
  ASSUME NEW fr, IsFree(fr), NoDup(fr), NEW b \in Backends, fr[b] # <<>>
  PROVE  LET r == [fr EXCEPT ![b] = Pop(@)] IN
         /\ Pooled(fr, b, Top(fr[b]))
         /\ \A c \in Backends, q \in Ports :
              Pooled(r, c, q) <=> Pooled(fr, c, q) /\ ~(c = b /\ q = Top(fr[b]))
         /\ NoDup(r)
<1> DEFINE r == [fr EXCEPT ![b] = Pop(@)]
<1>1. fr \in [Backends -> Seq(Ports)]
  BY DEF IsFree
<1>2. r[b] = Pop(fr[b]) /\ \A c \in Backends \ {b} : r[c] = fr[c]
  BY <1>1
<1> HIDE DEF r
<1>3. /\ Len(fr[b]) \in Nat \ {0}
      /\ Len(r[b]) = Len(fr[b]) - 1
      /\ \A i \in 1 .. Len(fr[b]) - 1 : r[b][i] = fr[b][i]
  <2>1. /\ Len(fr[b]) \in Nat \ {0}
        /\ Len(Pop(fr[b])) = Len(fr[b]) - 1
        /\ \A i \in 1 .. Len(fr[b]) - 1 : Pop(fr[b])[i] = fr[b][i]
    BY PopFree
  <2>2. QED BY <2>1, <1>2
<1>4. Top(fr[b]) = fr[b][Len(fr[b])]
  BY DEF Top
<1>5. Pooled(fr, b, Top(fr[b]))
  BY <1>3, <1>4 DEF Pooled
<1>6. ASSUME NEW c \in Backends, NEW q \in Ports
      PROVE  Pooled(r, c, q) <=> Pooled(fr, c, q) /\ ~(c = b /\ q = Top(fr[b]))
  <2>1. CASE c # b
    BY <2>1, <1>2 DEF Pooled
  <2>2. CASE c = b
    <3>1. ASSUME Pooled(r, b, q) PROVE Pooled(fr, b, q) /\ q # Top(fr[b])
      <4>1. PICK i \in 1 .. Len(r[b]) : r[b][i] = q
        BY <3>1 DEF Pooled
      <4>2. /\ i \in 1 .. Len(fr[b]) /\ fr[b][i] = q
            /\ i # Len(fr[b]) /\ Len(fr[b]) \in 1 .. Len(fr[b])
        BY <4>1, <1>3
      <4>3. q # Top(fr[b])
        BY <4>2, <1>4 DEF NoDup
      <4>4. QED BY <4>2, <4>3 DEF Pooled
    <3>2. ASSUME Pooled(fr, b, q), q # Top(fr[b]) PROVE Pooled(r, b, q)
      <4>1. PICK i \in 1 .. Len(fr[b]) : fr[b][i] = q
        BY <3>2 DEF Pooled
      <4>2. i \in 1 .. Len(fr[b]) - 1
        BY <4>1, <3>2, <1>3, <1>4
      <4>3. QED BY <4>1, <4>2, <1>3 DEF Pooled
    <3>3. QED BY <2>2, <3>1, <3>2
  <2>3. QED BY <2>1, <2>2
<1>7. NoDup(r)
  <2>1. ASSUME NEW c \in Backends, NEW i \in 1 .. Len(r[c]), NEW j \in 1 .. Len(r[c]),
               r[c][i] = r[c][j]
        PROVE  i = j
    <3>1. CASE c # b
      BY <3>1, <2>1, <1>2 DEF NoDup
    <3>2. CASE c = b
      BY <3>2, <2>1, <1>3 DEF NoDup
    <3>3. QED BY <3>1, <3>2
  <2>2. QED BY <2>1 DEF NoDup
<1>8. QED BY <1>5, <1>6, <1>7 DEF r

\* Conservation depends on a table only through who owns what.
LEMMA SameOwners ==
  ASSUME NEW sl, NEW tl, NEW fr, Conserved(sl, fr),
         \A s \in Slots, b \in Backends, p \in Ports :
           Owns(tl, s, b, p) <=> Owns(sl, s, b, p)
  PROVE  Conserved(tl, fr)
BY ConservedUnfold, Zenon

\* Reaping a slot moves no port.
LEMMA ReapFacts ==
  ASSUME NEW sl, IsTable(sl), NEW S, NEW now, NEW s \in Slots
  PROVE  /\ ReapAll(sl, S, now)[s].occupied = sl[s].occupied
         /\ ReapAll(sl, S, now)[s].fwd_key = sl[s].fwd_key
         /\ ReapAll(sl, S, now)[s].backend_idx = sl[s].backend_idx
         /\ ReapAll(sl, S, now)[s].snat_port = sl[s].snat_port
         /\ ReapAll(sl, S, now)[s].fin_seen = sl[s].fin_seen
         /\ s \in Lapsed(sl, S, now) => ReapAll(sl, S, now)[s].reaped
         /\ s \notin Lapsed(sl, S, now) => ReapAll(sl, S, now)[s] = sl[s]
<1>1. sl[s] \in Flow
  BY DEF IsTable
<1>2. ReapAll(sl, S, now)[s] = IF s \in Lapsed(sl, S, now)
                               THEN [sl[s] EXCEPT !.reaped = TRUE] ELSE sl[s]
  BY DEF ReapAll
<1>3. QED BY <1>1, <1>2 DEF Flow

LEMMA ReapConserved ==
  ASSUME NEW sl, IsTable(sl), NEW S, NEW now, NEW fr, Conserved(sl, fr)
  PROVE  Conserved(ReapAll(sl, S, now), fr)
BY ReapFacts, SameOwners DEF Owns

LEMMA TouchConserved ==
  ASSUME NEW sl, IsTable(sl), NEW s \in Slots, NEW now \in Clock,
         NEW fr, Conserved(sl, fr)
  PROVE  Conserved(Touch(sl, s, now), fr)
BY TouchTable, SameOwners DEF Owns

\* MaybeTeardown moves the port of the flow it closes to its stack.
LEMMA TornConserved ==
  ASSUME NEW sl, IsTable(sl), NEW fr, IsFree(fr), Conserved(sl, fr),
         NEW s \in Slots, NEW dir, NEW flags
  PROVE  Conserved([sl EXCEPT ![s] = TornFlow(sl[s], dir, flags)],
                   TornFree(fr, sl[s], dir, flags))
<1> DEFINE f == sl[s]
           tl == [sl EXCEPT ![s] = TornFlow(f, dir, flags)]
           r == TornFree(fr, f, dir, flags)
<1>1. f \in Flow /\ f.backend_idx \in Backends /\ f.snat_port \in Ports \cup {0}
  BY DEF IsTable, Flow
<1>2. /\ TornFlow(f, dir, flags).occupied = f.occupied
      /\ TornFlow(f, dir, flags).backend_idx = f.backend_idx
      /\ Closes(f, dir, flags) => TornFlow(f, dir, flags).snat_port = 0
      /\ ~Closes(f, dir, flags) => TornFlow(f, dir, flags).snat_port = f.snat_port
  BY <1>1, TornFlowFacts
<1>3. tl[s] = TornFlow(f, dir, flags) /\ \A t \in Slots \ {s} : tl[t] = sl[t]
  BY DEF IsTable
<1> HIDE DEF tl
<1>4. CASE ~Closes(f, dir, flags)
  <2>1. r = fr
    BY <1>4 DEF TornFree
  <2>2. \A t \in Slots, b \in Backends, p \in Ports :
          Owns(tl, t, b, p) <=> Owns(sl, t, b, p)
    BY <1>2, <1>3, <1>4 DEF Owns
  <2>3. Conserved(tl, fr)
    BY <2>2, SameOwners
  <2>4. QED BY <2>1, <2>3 DEF tl
<1>5. CASE Closes(f, dir, flags) /\ f.snat_port = 0
  <2>1. r = fr
    BY <1>5 DEF TornFree, Release
  <2>2. \A t \in Slots, b \in Backends, p \in Ports :
          Owns(tl, t, b, p) <=> Owns(sl, t, b, p)
    BY <1>2, <1>3, <1>5 DEF Owns
  <2>3. Conserved(tl, fr)
    BY <2>2, SameOwners
  <2>4. QED BY <2>1, <2>3 DEF tl
<1>6. CASE Closes(f, dir, flags) /\ f.snat_port # 0
  <2>1. f.snat_port \in Ports /\ f.occupied
    BY <1>1, <1>6 DEF Closes
  <2>2. r = Release(fr, f.backend_idx, f.snat_port)
    BY <1>6 DEF TornFree
  <2>3. Owns(sl, s, f.backend_idx, f.snat_port)
    BY <2>1 DEF Owns
  <2>4. \A t \in Slots, b \in Backends, p \in Ports :
          Owns(tl, t, b, p) <=> Owns(sl, t, b, p) /\ t # s
    BY <1>2, <1>3, <1>6, TableAssumption DEF Owns
  <2>5. \A b \in Backends, p \in Ports :
          Owns(sl, s, b, p) => b = f.backend_idx /\ p = f.snat_port
    BY DEF Owns
  <2>6. /\ \A c \in Backends, q \in Ports :
              Pooled(r, c, q) <=> \/ Pooled(fr, c, q)
                                  \/ c = f.backend_idx /\ q = f.snat_port
        /\ NoDup(fr) /\ ~Pooled(fr, f.backend_idx, f.snat_port) => NoDup(r)
    BY <1>1, <2>1, <2>2, PooledRelease
  <2> HIDE DEF r, f
  <2>7. Conserved(tl, r)
    <3>1. ~Pooled(fr, f.backend_idx, f.snat_port) /\ NoDup(fr)
      BY <1>1, <2>1, <2>3, ConservedUnfold
    <3>2. ASSUME NEW c \in Backends, NEW t \in Slots, NEW q \in Ports,
                 Owns(tl, t, c, q)
          PROVE  ~Pooled(r, c, q)
      BY <3>2, <1>1, <2>1, <2>3, <2>4, <2>6, ConservedUnfold
    <3>3. ASSUME NEW c \in Backends, NEW t \in Slots, NEW u \in Slots, NEW q \in Ports,
                 Owns(tl, t, c, q), Owns(tl, u, c, q)
          PROVE  t = u
      BY <3>3, <2>4, ConservedUnfold
    <3>4. ASSUME NEW c \in Backends, NEW q \in Ports
          PROVE  Pooled(r, c, q) \/ \E t \in Slots : Owns(tl, t, c, q)
      <4>1. CASE Pooled(fr, c, q)
        BY <4>1, <2>6
      <4>2. CASE ~Pooled(fr, c, q)
        <5>1. PICK t \in Slots : Owns(sl, t, c, q)
          BY <4>2, ConservedUnfold
        <5>2. QED BY <5>1, <2>4, <2>5, <2>6
      <4>3. QED BY <4>1, <4>2
    <3>5. QED BY <3>1, <2>6, <3>2, <3>3, <3>4, ConservedUnfold
  <2>8. QED BY <2>7 DEF tl, r, f
<1>7. QED BY <1>4, <1>5, <1>6

\* CreateFlow moves the top of a stack into a slot, and the port of the flow
\* evicted from that slot onto its own stack.
LEMMA StoreConserved ==
  ASSUME NEW sl, IsTable(sl), NEW fr, IsFree(fr), Conserved(sl, fr),
         NEW b \in Backends, fr[b] # <<>>, NEW s \in Slots,
         NEW f \in Flow, f.occupied, f.backend_idx = b, f.snat_port = Top(fr[b])
  PROVE  Conserved([sl EXCEPT ![s] = f],
                   Release([fr EXCEPT ![b] = Pop(@)],
                           sl[s].backend_idx, EvictedPort(sl, s)))
<1> DEFINE tl == [sl EXCEPT ![s] = f]
           p == Top(fr[b])
           m == [fr EXCEPT ![b] = Pop(@)]
           eb == sl[s].backend_idx
           ep == EvictedPort(sl, s)
           r == Release(m, eb, ep)
<1>1. NoDup(fr) /\ p \in Ports /\ IsFree(m)
  BY ConservedUnfold, PopFree
<1>2. /\ Pooled(fr, b, p)
      /\ \A c \in Backends, q \in Ports :
           Pooled(m, c, q) <=> Pooled(fr, c, q) /\ ~(c = b /\ q = p)
      /\ NoDup(m)
  BY <1>1, PooledPop
<1>3. sl[s] \in Flow
  BY DEF IsTable
<1>4. eb \in Backends /\ ep \in Ports \cup {0}
  BY <1>3 DEF Flow, EvictedPort
<1>5. tl[s] = f /\ \A t \in Slots \ {s} : tl[t] = sl[t]
  BY DEF IsTable
<1>6. \A t \in Slots, c \in Backends, q \in Ports :
        Owns(tl, t, c, q) <=> IF t = s THEN c = b /\ q = p ELSE Owns(sl, t, c, q)
  BY <1>5 DEF Owns
<1>7. \A c \in Backends, q \in Ports :
        Owns(sl, s, c, q) <=> c = eb /\ q = ep
  BY <1>3, TableAssumption DEF Owns, EvictedPort
<1> HIDE DEF tl, p, m, eb, ep
<1>8. CASE ep = 0
  <2>1. r = m
    BY <1>8 DEF Release
  <2>2. \A c \in Backends, q \in Ports : ~Owns(sl, s, c, q)
    BY <1>7, <1>8, TableAssumption
  <2> HIDE DEF r
  <2>3. Conserved(tl, m)
    <3>1. ASSUME NEW c \in Backends, NEW t \in Slots, NEW q \in Ports,
                 Owns(tl, t, c, q)
          PROVE  ~Pooled(m, c, q)
      BY <3>1, <1>2, <1>6, ConservedUnfold
    <3>2. ASSUME NEW c \in Backends, NEW t \in Slots, NEW u \in Slots, NEW q \in Ports,
                 Owns(tl, t, c, q), Owns(tl, u, c, q)
          PROVE  t = u
      <4>1. CASE t = s /\ u # s
        BY <4>1, <3>2, <1>6, <1>2, ConservedUnfold
      <4>2. CASE t # s /\ u = s
        BY <4>2, <3>2, <1>6, <1>2, ConservedUnfold
      <4>3. CASE t # s /\ u # s
        BY <4>3, <3>2, <1>6, ConservedUnfold
      <4>4. QED BY <4>1, <4>2, <4>3
    <3>3. ASSUME NEW c \in Backends, NEW q \in Ports
          PROVE  Pooled(m, c, q) \/ \E t \in Slots : Owns(tl, t, c, q)
      <4>1. CASE c = b /\ q = p
        BY <4>1, <1>6
      <4>2. CASE Pooled(fr, c, q) /\ ~(c = b /\ q = p)
        BY <4>2, <1>2
      <4>3. CASE ~Pooled(fr, c, q)
        <5>1. PICK t \in Slots : Owns(sl, t, c, q)
          BY <4>3, ConservedUnfold
        <5>2. QED BY <5>1, <2>2, <1>6
      <4>4. QED BY <4>1, <4>2, <4>3
    <3>4. QED BY <1>2, <3>1, <3>2, <3>3, ConservedUnfold
  <2>4. QED BY <2>1, <2>3 DEF tl, m, p, r, eb, ep
<1>9. CASE ep # 0
  <2>1. ep \in Ports
    BY <1>4, <1>9
  <2>2. ~Pooled(fr, eb, ep)
    BY <1>4, <1>7, <2>1, ConservedUnfold
  <2>3. ~Pooled(m, eb, ep)
    BY <1>2, <1>4, <2>1, <2>2
  <2>4. /\ \A c \in Backends, q \in Ports :
              Pooled(r, c, q) <=> Pooled(m, c, q) \/ (c = eb /\ q = ep)
        /\ NoDup(r)
    BY <1>1, <1>2, <1>4, <2>1, <2>3, PooledRelease
  <2> HIDE DEF r
  <2>5. ~(eb = b /\ ep = p)
    BY <1>2, <2>2
  <2>6. ASSUME NEW c \in Backends, NEW t \in Slots, NEW q \in Ports, Owns(tl, t, c, q)
        PROVE  ~Pooled(r, c, q)
    <3>1. CASE t = s
      BY <3>1, <2>6, <1>6, <1>2, <2>4, <2>5
    <3>2. CASE t # s
      <4>1. Owns(sl, t, c, q) /\ ~Pooled(fr, c, q)
        BY <3>2, <2>6, <1>6, ConservedUnfold
      <4>2. ~(c = eb /\ q = ep)
        BY <3>2, <4>1, <1>7, ConservedUnfold
      <4>3. QED BY <4>1, <4>2, <1>2, <2>4
    <3>3. QED BY <3>1, <3>2
  <2>7. ASSUME NEW c \in Backends, NEW t \in Slots, NEW u \in Slots, NEW q \in Ports,
               Owns(tl, t, c, q), Owns(tl, u, c, q)
        PROVE  t = u
    <3>1. CASE t = s /\ u # s
      BY <3>1, <2>7, <1>6, <1>2, ConservedUnfold
    <3>2. CASE t # s /\ u = s
      BY <3>2, <2>7, <1>6, <1>2, ConservedUnfold
    <3>3. CASE t # s /\ u # s
      BY <3>3, <2>7, <1>6, ConservedUnfold
    <3>4. QED BY <3>1, <3>2, <3>3
  <2>8. ASSUME NEW c \in Backends, NEW q \in Ports
        PROVE  Pooled(r, c, q) \/ \E t \in Slots : Owns(tl, t, c, q)
    <3>1. CASE c = b /\ q = p
      BY <3>1, <1>6
    <3>2. CASE Pooled(fr, c, q) /\ ~(c = b /\ q = p)
      BY <3>2, <1>2, <2>4
    <3>3. CASE ~Pooled(fr, c, q)
      <4>1. PICK t \in Slots : Owns(sl, t, c, q)
        BY <3>3, ConservedUnfold
      <4>2. CASE t = s
        BY <4>1, <4>2, <1>7, <2>4
      <4>3. CASE t # s
        BY <4>1, <4>3, <1>6
      <4>4. QED BY <4>2, <4>3
    <3>4. QED BY <3>1, <3>2, <3>3
  <2>9. Conserved(tl, r)
    BY <2>4, <2>6, <2>7, <2>8, ConservedUnfold
  <2>10. QED BY <2>9 DEF tl, m, p, r, eb, ep
<1>10. QED BY <1>8, <1>9

\* Putting back the port just acquired leaves every stack as it was.
LEMMA PopPush ==
  ASSUME NEW fr, IsFree(fr), NEW b \in Backends, fr[b] # <<>>
  PROVE  Release([fr EXCEPT ![b] = Pop(@)], b, Top(fr[b])) = fr
<1> DEFINE m == [fr EXCEPT ![b] = Pop(@)]
<1>1. fr \in [Backends -> Seq(Ports)] /\ fr[b] \in Seq(Ports)
  BY DEF IsFree
<1>2. Top(fr[b]) \in Ports /\ Top(fr[b]) # 0 /\ Len(fr[b]) \in Nat \ {0}
  BY PopFree, TableAssumption
<1>3. Append(Pop(fr[b]), Top(fr[b])) = fr[b]
  BY <1>1, <1>2 DEF Pop, Top
<1>4. m[b] = Pop(fr[b]) /\ m \in [Backends -> Seq(Ports)]
  BY <1>1, PopFree DEF IsFree
<1>5. Release(m, b, Top(fr[b])) = [m EXCEPT ![b] = Append(m[b], Top(fr[b]))]
  BY <1>2 DEF Release
<1>6. QED BY <1>1, <1>3, <1>4, <1>5

\* Every step moves ports between the pools and the slots without loss.
LEMMA ConservedStep == TypeOK /\ PortConservation /\ [Next]_vars => PortConservation'
<1> SUFFICES ASSUME TypeOK, Conserved(slots, free), [Next]_vars
             PROVE  Conserved(slots', free')
  BY DEF PortConservation, Conserved
<1>0. IsTable(slots) /\ IsFree(free) /\ now_ms \in Clock
  BY DEF TypeOK, IsTable, IsFree
<1>1. CASE ProcessBegin \/ ProcessEnd \/ UNCHANGED vars
  BY <1>1 DEF ProcessBegin, ProcessEnd, vars, table
<1>2. ASSUME NEW k \in Keys, NEW flags, ProcessNoBackends(k, flags)
      PROVE  Conserved(slots', free')
  BY <1>2 DEF ProcessNoBackends, table
<1>3. ASSUME NEW b \in Backends, NEW p \in Ports, NEW flags,
             ProcessNoBackendsReverse(b, p, flags)
      PROVE  Conserved(slots', free')
  BY <1>3 DEF ProcessNoBackendsReverse, table
<1>4. ASSUME NEW k \in Keys
      PROVE  IsTable(Walked(k)) /\ Conserved(Walked(k), free)
  BY <1>0, WalkedTypes, ReapConserved DEF Walked
<1>5. ASSUME NEW b \in Backends, NEW p \in Ports, NEW proto \in Protos
      PROVE  /\ IsTable(WalkedRev(b, p, proto))
             /\ Conserved(WalkedRev(b, p, proto), free)
  BY <1>0, WalkedRevTypes, ReapConserved DEF WalkedRev
<1>6. ASSUME NEW k \in Keys, NEW flags, NEW s \in Slots, ForwardHit(k, flags, s)
      PROVE  Conserved(slots', free')
  <2>1. /\ IsTable(Touch(Walked(k), s, now_ms))
        /\ Conserved(Touch(Walked(k), s, now_ms), free)
    BY <1>0, <1>4, TouchTable, TouchConserved
  <2>2. QED BY <2>1, <1>0, <1>6, TornConserved DEF ForwardHit, MaybeTeardown
<1>7. ASSUME NEW k \in Keys, NEW flags, ForwardNoSyn(k, flags) \/ ForwardNoPort(k, flags)
      PROVE  Conserved(slots', free')
  BY <1>4, <1>7 DEF ForwardNoSyn, ForwardNoPort
<1>8. ASSUME NEW k \in Keys, NEW flags, ForwardTableFull(k, flags)
      PROVE  Conserved(slots', free')
  <2> DEFINE b == Select(pool, k)
  <2>1. b \in Backends /\ free[b] # <<>>
    BY <1>8, SelectBackend DEF TypeOK, ForwardTableFull
  <2>2. free' = free
    BY <2>1, <1>0, <1>8, PopPush DEF ForwardTableFull, ReturnPort
  <2>3. QED BY <2>2, <1>4, <1>8 DEF ForwardTableFull
<1>9. ASSUME NEW k \in Keys, NEW flags, NEW s \in Slots, ForwardCreate(k, flags, s)
      PROVE  Conserved(slots', free')
  <2> DEFINE b == Select(pool, k)
             p == Top(free[b])
             f == NewFlow(k, b, p, now_ms)
  <2>1. b \in Backends /\ free[b] # <<>>
    BY <1>9, SelectBackend DEF TypeOK, ForwardCreate
  <2>2. /\ f \in Flow
        /\ IsTable(Stored(k, b, p, s))
        /\ IsFree(Traded(k, b, s))
    BY <2>1, StoredTypes
  <2>3. f.occupied /\ f.backend_idx = b /\ f.snat_port = p
    BY DEF NewFlow
  <2> HIDE DEF f
  <2>4. Conserved(Stored(k, b, p, s), Traded(k, b, s))
    <3>1. Stored(k, b, p, s) = [Walked(k) EXCEPT ![s] = f]
      BY DEF Stored, f
    <3>2. QED BY <3>1, <2>1, <2>2, <2>3, <1>0, <1>4, StoreConserved DEF Traded
  <2>5. QED BY <2>2, <2>4, <1>9, TornConserved DEF ForwardCreate, MaybeTeardown
<1>10. ASSUME NEW b \in Backends, NEW p \in Ports, NEW proto \in Protos, NEW flags,
              NEW s \in Slots, ReverseHit(b, p, proto, flags, s)
       PROVE  Conserved(slots', free')
  <2> DEFINE w == WalkedRev(b, p, proto)
  <2>1. IsTable(Touch(w, s, now_ms)) /\ Conserved(Touch(w, s, now_ms), free)
    BY <1>0, <1>5, TouchTable, TouchConserved
  <2>2. QED BY <2>1, <1>0, <1>10, TornConserved DEF ReverseHit, MaybeTeardown
<1>11. ASSUME NEW b \in Backends, NEW p \in Ports, NEW proto \in Protos, NEW flags,
              ReverseMiss(b, p, proto, flags)
       PROVE  Conserved(slots', free')
  BY <1>5, <1>11 DEF ReverseMiss
<1>12. QED BY <1>1, <1>2, <1>3, <1>6, <1>7, <1>8, <1>9, <1>10, <1>11
           DEF Next, ForwardPacket, ReversePacket

\* For every table, backend set and pool: after every packet each SNAT port
\* of each backend is on that backend's stack or in one slot, never both,
\* never twice and never nowhere.
THEOREM PortsConserved == Spec => []PortConservation
<1>1. Init => PortConservation
  <2> SUFFICES ASSUME Init PROVE PortConservation
    OBVIOUS
  <2>1. \A b \in Backends : free[b] = PoolPorts
    BY DEF Init
  <2>2. \A s \in Slots, b \in Backends, p \in Ports : ~Owns(slots, s, b, p)
    BY DEF Init, Owns, EmptyFlow
  <2>3. NeverTwice(slots, free)
    BY <2>1, <2>2, PoolAssumption DEF NeverTwice
  <2>4. NeverLost(slots, free)
    BY <2>1, PoolAssumption DEF NeverLost, Pooled
  <2>5. QED BY <2>3, <2>4 DEF PortConservation
<1>2. QED BY <1>1, TypeCorrect, ConservedStep, PTL DEF Spec

=============================================================================
