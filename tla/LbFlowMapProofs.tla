--------------------------- MODULE LbFlowMapProofs --------------------------
(***************************************************************************)
(* LbNode implements FlowMap: slots, probing, eviction, stacks and the     *)
(* clock of a worker amount to a one-to-one map of 5-tuples and translated *)
(* tuples.  And a flow that its replies find is found by them until it     *)
(* ends.  Both rest on the conservation of ports.                          *)
(***************************************************************************)
EXTENDS LbTableProofs, WellFoundedInduction

-----------------------------------------------------------------------------
(* The refinement mapping on tables.                                       *)

EntryOf(f) == [key |-> f.fwd_key, b |-> f.backend_idx, port |-> f.snat_port]

Holds(sl, s) == sl[s].occupied /\ sl[s].snat_port # 0

Held(sl, S) == {EntryOf(sl[s]) : s \in {s \in S : Holds(sl, s)}}

MapOf(sl) == [bound |-> Held(sl, Counted(sl)), parked |-> Held(sl, Slots \ Counted(sl))]

\* No two slots hold the same port of the same backend.
OneOwner(sl) ==
  \A s, t \in Slots : /\ Holds(sl, s) /\ Holds(sl, t)
                      /\ sl[s].backend_idx = sl[t].backend_idx
                      /\ sl[s].snat_port = sl[t].snat_port
                      => s = t

LEMMA ConservedOneOwner ==
  ASSUME NEW sl, IsTable(sl), NEW fr, Conserved(sl, fr)
  PROVE  OneOwner(sl)
<1>1. \A s \in Slots : sl[s].backend_idx \in Backends /\ sl[s].snat_port \in Ports \cup {0}
  BY DEF IsTable, Flow
<1>2. \A b \in Backends, s \in Slots, t \in Slots, p \in Ports :
        Owns(sl, s, b, p) /\ Owns(sl, t, b, p) => s = t
  BY ConservedUnfold
<1>3. QED BY <1>1, <1>2 DEF OneOwner, Holds, Owns

\* Taking slots away takes their entries away.
LEMMA HeldDifference ==
  ASSUME NEW sl, OneOwner(sl), NEW A \in SUBSET Slots, NEW L \in SUBSET Slots
  PROVE  Held(sl, A \ L) = Held(sl, A) \ Held(sl, L)
<1>1. ASSUME NEW s \in A, NEW t \in L, Holds(sl, s), Holds(sl, t),
             EntryOf(sl[s]) = EntryOf(sl[t])
      PROVE  s \in L
  BY <1>1 DEF OneOwner, EntryOf
<1>2. QED BY <1>1 DEF Held

LEMMA HeldUnion ==
  ASSUME NEW sl, NEW A, NEW L
  PROVE  Held(sl, A \cup L) = Held(sl, A) \cup Held(sl, L)
BY DEF Held

\* Tables with the same bindings have the same entries.
SameBinding(f, g) ==
  /\ g.occupied = f.occupied /\ g.fwd_key = f.fwd_key
  /\ g.backend_idx = f.backend_idx /\ g.snat_port = f.snat_port

LEMMA HeldSame ==
  ASSUME NEW sl, NEW tl, NEW S, \A s \in S : SameBinding(sl[s], tl[s])
  PROVE  Held(tl, S) = Held(sl, S)
BY DEF Held, Holds, EntryOf, SameBinding

LEMMA OneOwnerSame ==
  ASSUME NEW sl, NEW tl, OneOwner(sl), \A s \in Slots : SameBinding(sl[s], tl[s])
  PROVE  OneOwner(tl)
BY DEF OneOwner, Holds, SameBinding

-----------------------------------------------------------------------------
(* What the operations on a table are on the map.                          *)

\* Lookups reap.
LEMMA ReapRefines ==
  ASSUME NEW sl, IsTable(sl), OneOwner(sl), NEW S \in SUBSET Slots, NEW now
  PROVE  /\ MapOf(ReapAll(sl, S, now)) \in Promise!Reaped(MapOf(sl))
         /\ OneOwner(ReapAll(sl, S, now))
<1> DEFINE w == ReapAll(sl, S, now)
           L == Lapsed(sl, S, now)
           C == Counted(sl)
<1>1. \A s \in Slots : SameBinding(sl[s], w[s])
  BY ReapFacts DEF SameBinding
<1>2. L \subseteq C /\ C \subseteq Slots
  BY DEF Lapsed, Counted, Expired
<1>3. Counted(w) = C \ L
  <2>1. ASSUME NEW s \in Slots PROVE s \in Counted(w) <=> s \in C \ L
    <3>1. CASE s \in L
      BY <3>1, ReapFacts DEF Counted
    <3>2. CASE s \notin L
      BY <3>2, ReapFacts DEF Counted
    <3>3. QED BY <3>1, <3>2
  <2>2. QED BY <2>1, <1>2 DEF Counted
<1> HIDE DEF w, L, C
<1>4. Held(w, Counted(w)) = Held(sl, C) \ Held(sl, L)
  <2>1. Held(w, C \ L) = Held(sl, C \ L)
    BY <1>1, <1>2, HeldSame
  <2>2. Held(sl, C \ L) = Held(sl, C) \ Held(sl, L)
    BY <1>2, HeldDifference
  <2>3. QED BY <1>3, <2>1, <2>2
<1>5. Held(w, Slots \ Counted(w)) = Held(sl, Slots \ C) \cup Held(sl, L)
  <2>1. Slots \ Counted(w) = (Slots \ C) \cup L
    BY <1>2, <1>3
  <2>2. Held(w, (Slots \ C) \cup L) = Held(sl, (Slots \ C) \cup L)
    BY <1>1, <1>2, HeldSame
  <2>3. QED BY <2>1, <2>2, HeldUnion
<1>6. Held(sl, L) \subseteq Held(sl, C)
  BY <1>2 DEF Held
<1>7. MapOf(w) = [bound |-> Held(sl, C) \ Held(sl, L),
                  parked |-> Held(sl, Slots \ C) \cup Held(sl, L)]
  BY <1>4, <1>5 DEF MapOf
<1>8. MapOf(sl).bound = Held(sl, C) /\ MapOf(sl).parked = Held(sl, Slots \ C)
  BY DEF MapOf, C
<1>9. MapOf(w) \in Promise!Reaped(MapOf(sl))
  BY <1>6, <1>7, <1>8 DEF Promise!Reaped
<1>10. OneOwner(w)
  BY <1>1, OneOwnerSame
<1>11. QED BY <1>9, <1>10 DEF w

\* Touch changes no entry.
LEMMA TouchMap ==
  ASSUME NEW sl, IsTable(sl), NEW s \in Slots, NEW now \in Clock
  PROVE  /\ MapOf(Touch(sl, s, now)) = MapOf(sl)
         /\ OneOwner(sl) => OneOwner(Touch(sl, s, now))
<1> DEFINE u == Touch(sl, s, now)
<1>1. \A t \in Slots : SameBinding(sl[t], u[t])
  BY TouchTable DEF SameBinding
<1>2. Counted(u) = Counted(sl) /\ Counted(sl) \subseteq Slots
  BY TouchCounted DEF Counted
<1> HIDE DEF u
<1>3. /\ Held(u, Counted(sl)) = Held(sl, Counted(sl))
      /\ Held(u, Slots \ Counted(sl)) = Held(sl, Slots \ Counted(sl))
  BY <1>1, <1>2, HeldSame
<1>4. MapOf(u) = MapOf(sl)
  BY <1>2, <1>3 DEF MapOf
<1>5. OneOwner(sl) => OneOwner(u)
  BY <1>1, OneOwnerSame
<1>6. QED BY <1>4, <1>5 DEF u

\* A teardown leaves the map alone or takes the flow's entry out of it.
LEMMA TornMap ==
  ASSUME NEW sl, IsTable(sl), OneOwner(sl), NEW s \in Slots, NEW dir, NEW flags
  PROVE  LET tl == [sl EXCEPT ![s] = TornFlow(sl[s], dir, flags)] IN
         MapOf(tl) \in Promise!Hit(MapOf(sl), EntryOf(sl[s]))
<1> DEFINE tl == [sl EXCEPT ![s] = TornFlow(sl[s], dir, flags)]
           C == Counted(sl)
<1>1. sl[s] \in Flow /\ C \subseteq Slots
  BY DEF IsTable, Counted
<1>2. tl[s] = TornFlow(sl[s], dir, flags) /\ \A t \in Slots \ {s} : tl[t] = sl[t]
  BY DEF IsTable
<1> HIDE DEF tl, C
<1>3. CASE ~Closes(sl[s], dir, flags)
  <2>1. SameBinding(sl[s], tl[s]) /\ tl[s].reaped = sl[s].reaped
    BY <1>1, <1>2, <1>3, TornFlowFacts DEF SameBinding
  <2>2. \A t \in Slots : SameBinding(sl[t], tl[t]) /\ tl[t].reaped = sl[t].reaped
    BY <1>2, <2>1 DEF SameBinding
  <2>3. Counted(tl) = C
    BY <2>2 DEF Counted, SameBinding, C
  <2>4. /\ Held(tl, C) = Held(sl, C)
        /\ Held(tl, Slots \ C) = Held(sl, Slots \ C)
    BY <1>1, <2>2, HeldSame
  <2>5. MapOf(tl) = MapOf(sl)
    BY <2>3, <2>4 DEF MapOf, C
  <2>6. QED BY <2>5 DEF Promise!Hit, tl
<1>4. CASE Closes(sl[s], dir, flags)
  <2>1. s \in C
    BY <1>4 DEF Closes, Counted, C
  <2>2. tl[s].reaped /\ tl[s].snat_port = 0
    BY <1>1, <1>2, <1>4, TornFlowFacts
  <2>3. Counted(tl) = C \ {s}
    BY <1>2, <2>2 DEF Counted, C
  <2>4. Held(tl, C \ {s}) = Held(sl, C) \ {EntryOf(sl[s])}
    <3>1. Held(tl, C \ {s}) = Held(sl, C \ {s})
      BY <1>1, <1>2, HeldSame DEF SameBinding
    <3>2. Held(sl, C \ {s}) = Held(sl, C) \ Held(sl, {s})
      BY <1>1, <2>1, HeldDifference
    <3>3. CASE Holds(sl, s)
      <4>1. Held(sl, {s}) = {EntryOf(sl[s])}
        BY <3>3 DEF Held
      <4>2. QED BY <3>1, <3>2, <4>1
    <3>4. CASE ~Holds(sl, s)
      <4>1. Held(sl, {s}) = {}
        BY <3>4 DEF Held
      <4>2. sl[s].snat_port = 0
        BY <2>1, <3>4 DEF Holds, Counted, C
      <4>3. EntryOf(sl[s]).port = 0 /\ \A e \in Held(sl, C) : e.port # 0
        BY <4>2 DEF EntryOf, Held, Holds
      <4>4. EntryOf(sl[s]) \notin Held(sl, C)
        BY <4>3
      <4>5. QED BY <3>1, <3>2, <4>1, <4>4
    <3>5. QED BY <3>3, <3>4
  <2>5. Held(tl, Slots \ (C \ {s})) = Held(sl, Slots \ C)
    <3>1. ~Holds(tl, s)
      BY <2>2 DEF Holds
    <3>2. Held(tl, Slots \ (C \ {s})) = Held(tl, Slots \ C)
      <4>1. Slots \ (C \ {s}) = (Slots \ C) \cup {s}
        BY <1>1, <2>1
      <4>2. Held(tl, {s}) = {}
        BY <3>1 DEF Held
      <4>3. QED BY <4>1, <4>2, HeldUnion
    <3>3. Held(tl, Slots \ C) = Held(sl, Slots \ C)
      BY <1>2, <2>1, HeldSame DEF SameBinding
    <3>4. QED BY <3>2, <3>3
  <2>6. MapOf(tl) = [bound |-> Held(sl, C) \ {EntryOf(sl[s])},
                     parked |-> Held(sl, Slots \ C)]
    BY <2>3, <2>4, <2>5 DEF MapOf
  <2>7. MapOf(sl) = [bound |-> Held(sl, C), parked |-> Held(sl, Slots \ C)]
    BY DEF MapOf, C
  <2>8. MapOf(tl) = [bound |-> MapOf(sl).bound \ {EntryOf(sl[s])}, parked |-> MapOf(sl).parked]
    BY <2>6, <2>7
  <2>9. QED BY <2>8 DEF Promise!Hit, tl
<1>5. QED BY <1>3, <1>4 DEF tl

\* A packet that hits a flow translates it in the map, or only looks it up.
LEMMA HitRefines ==
  ASSUME NEW sl, IsTable(sl), OneOwner(sl), NEW S \in SUBSET Slots,
         NEW now \in Clock, NEW s \in Slots, NEW dir, NEW flags, NEW tl,
         tl = [Touch(ReapAll(sl, S, now), s, now) EXCEPT
                 ![s] = TornFlow(Touch(ReapAll(sl, S, now), s, now)[s], dir, flags)]
  PROVE  \E m \in Promise!Reaped(MapOf(sl)) :
           MapOf(tl) = m \/ \E e \in m.bound : MapOf(tl) \in Promise!Hit(m, e)
<1> DEFINE w == ReapAll(sl, S, now)
           u == Touch(w, s, now)
           e == EntryOf(u[s])
<1>1. IsTable(w) /\ OneOwner(w) /\ MapOf(w) \in Promise!Reaped(MapOf(sl))
  BY ReapAllTable, ReapRefines
<1>2. IsTable(u) /\ OneOwner(u) /\ MapOf(u) = MapOf(w)
  BY <1>1, TouchTable, TouchMap
<1>3. tl = [u EXCEPT ![s] = TornFlow(u[s], dir, flags)]
  OBVIOUS
<1> HIDE DEF w, u
<1>4. MapOf(tl) \in Promise!Hit(MapOf(u), e)
  BY <1>2, <1>3, TornMap
<1> HIDE DEF e
<1>5. CASE e \in MapOf(u).bound
  BY <1>1, <1>2, <1>4, <1>5
<1>6. CASE e \notin MapOf(u).bound
  <2>1. MapOf(u) = [bound |-> MapOf(u).bound \ {e}, parked |-> MapOf(u).parked]
    BY <1>6 DEF MapOf
  <2>2. MapOf(tl) = MapOf(u)
    BY <1>4, <2>1 DEF Promise!Hit
  <2>3. QED BY <1>1, <1>2, <2>2
<1>7. QED BY <1>5, <1>6

\* Storing a flow under a tuple nobody has opens it in the map, in place of
\* whatever the slot held.
LEMMA StoreMap ==
  ASSUME NEW sl, IsTable(sl), OneOwner(sl), NEW s \in Slots, NEW f \in Flow,
         f.occupied, ~f.reaped, f.snat_port # 0,
         Promise!Fresh(MapOf(sl), EntryOf(f))
  PROVE  LET st == [sl EXCEPT ![s] = f]
             V == Held(sl, {s})
         IN  /\ MapOf(st) = [bound |-> (MapOf(sl).bound \ V) \cup {EntryOf(f)},
                             parked |-> MapOf(sl).parked \ V]
             /\ V \in Promise!AtMostOne(MapOf(sl).bound \cup MapOf(sl).parked)
             /\ OneOwner(st)
<1> DEFINE st == [sl EXCEPT ![s] = f]
           V == Held(sl, {s})
           C == Counted(sl)
           e == EntryOf(f)
<1>1. st[s] = f /\ (\A t \in Slots \ {s} : st[t] = sl[t]) /\ C \subseteq Slots
  BY DEF IsTable, Counted
<1>2. Counted(st) = C \cup {s}
  BY <1>1 DEF Counted
<1>3. MapOf(sl) = [bound |-> Held(sl, C), parked |-> Held(sl, Slots \ C)]
  BY DEF MapOf
<1> HIDE DEF st, C
<1>4. Held(st, {s}) = {e}
  BY <1>1 DEF Held, Holds
<1>5. Held(st, C \ {s}) = Held(sl, C) \ V
  <2>1. Held(st, C \ {s}) = Held(sl, C \ {s})
    BY <1>1, HeldSame DEF SameBinding
  <2>2. QED BY <1>1, <2>1, HeldDifference
<1>6. Held(st, C \cup {s}) = (Held(sl, C) \ V) \cup {e}
  <2>1. C \cup {s} = (C \ {s}) \cup {s}
    OBVIOUS
  <2>2. Held(st, (C \ {s}) \cup {s}) = Held(st, C \ {s}) \cup Held(st, {s})
    BY HeldUnion
  <2>3. QED BY <2>1, <2>2, <1>4, <1>5
<1>7. Held(st, Slots \ (C \cup {s})) = Held(sl, Slots \ C) \ V
  <2>1. Slots \ (C \cup {s}) = (Slots \ C) \ {s}
    OBVIOUS
  <2>2. Held(st, (Slots \ C) \ {s}) = Held(sl, (Slots \ C) \ {s})
    BY <1>1, HeldSame DEF SameBinding
  <2>3. Held(sl, (Slots \ C) \ {s}) = Held(sl, Slots \ C) \ V
    BY HeldDifference
  <2>4. QED BY <2>1, <2>2, <2>3
<1>8. MapOf(st) = [bound |-> (MapOf(sl).bound \ V) \cup {e},
                   parked |-> MapOf(sl).parked \ V]
  BY <1>2, <1>3, <1>6, <1>7 DEF MapOf
<1>9. V \in Promise!AtMostOne(MapOf(sl).bound \cup MapOf(sl).parked)
  <2>1. CASE Holds(sl, s)
    <3>1. V = {EntryOf(sl[s])}
      BY <2>1 DEF Held
    <3>2. EntryOf(sl[s]) \in MapOf(sl).bound \cup MapOf(sl).parked
      BY <1>3, <2>1 DEF Held
    <3>3. QED BY <3>1, <3>2 DEF Promise!AtMostOne
  <2>2. CASE ~Holds(sl, s)
    BY <2>2 DEF Held, Promise!AtMostOne
  <2>3. QED BY <2>1, <2>2
<1>10. ASSUME NEW t \in Slots, Holds(sl, t)
       PROVE  ~(sl[t].backend_idx = f.backend_idx /\ sl[t].snat_port = f.snat_port)
  <2>1. EntryOf(sl[t]) \in MapOf(sl).bound \cup MapOf(sl).parked
    BY <1>10, <1>3 DEF Held
  <2>2. QED BY <2>1 DEF Promise!Fresh, EntryOf
<1>11. OneOwner(st)
  BY <1>1, <1>10 DEF OneOwner, Holds
<1>12. QED BY <1>8, <1>9, <1>11 DEF st

-----------------------------------------------------------------------------
(* Every step is a step of the map.                                        *)

Flows == [bound |-> EntriesOf(Counted(slots)), parked |-> EntriesOf(Slots \ Counted(slots))]

LEMMA FlowsMap == Flows = MapOf(slots) /\ Flows' = MapOf(slots')
BY DEF Flows, MapOf, EntriesOf, Held, Holds, EntryOf, Counted

\* The state in which the node's steps are related to those of the map.
NodeInv == TypeOK /\ PortConservation /\ KeyUnique /\ ProbeChain

LEMMA NodeInvHolds == Spec => []NodeInv
BY UniqueChainedInv, PortsConserved, PTL DEF NodeInv

\* The tuple on top of a stack belongs to no flow.
LEMMA TopFresh ==
  ASSUME NEW sl, IsTable(sl), NEW fr, IsFree(fr), Conserved(sl, fr),
         NEW b \in Backends, fr[b] # <<>>, NEW k
  PROVE  Promise!Fresh(MapOf(sl), [key |-> k, b |-> b, port |-> Top(fr[b])])
<1>1. Top(fr[b]) \in Ports /\ Len(fr[b]) \in Nat \ {0}
  BY PopFree
<1>2. Pooled(fr, b, Top(fr[b]))
  BY <1>1 DEF Pooled, Top
<1>3. \A s \in Slots : ~Owns(sl, s, b, Top(fr[b]))
  BY <1>1, <1>2, ConservedUnfold
<1>4. ASSUME NEW d \in MapOf(sl).bound \cup MapOf(sl).parked
      PROVE  ~(d.b = b /\ d.port = Top(fr[b]))
  <2>1. PICK s \in Slots : Holds(sl, s) /\ d = EntryOf(sl[s])
    BY DEF MapOf, Held, Counted
  <2>2. QED BY <2>1, <1>3 DEF Holds, EntryOf, Owns
<1>5. QED BY <1>4 DEF Promise!Fresh

LEMMA CreateRefines ==
  ASSUME NodeInv, NEW k \in Keys, NEW s \in Slots, NEW flags, ForwardCreate(k, flags, s)
  PROVE  Promise!Open
<1> DEFINE b == Select(pool, k)
           p == Top(free[b])
           f == NewFlow(k, b, p, now_ms)
           w == Walked(k)
           st == Stored(k, b, p, s)
           e == EntryOf(f)
           V == Held(w, {s})
<1>0. /\ TypeOK /\ IsTable(slots) /\ IsFree(free) /\ now_ms \in Clock
      /\ Conserved(slots, free) /\ Unique(slots) /\ Chained(slots)
  BY DEF NodeInv, TypeOK, IsTable, IsFree, PortConservation, Conserved, KeyUnique,
         ProbeChain, Unique, Chained
<1>1. b \in Backends /\ free[b] # <<>>
  BY <1>0, SelectBackend DEF TypeOK, ForwardCreate
<1>2. f \in Flow /\ IsTable(st) /\ p \in Ports /\ p # 0
  BY <1>0, <1>1, StoredTypes, PopFree, TableAssumption
<1>3. f.occupied /\ ~f.reaped /\ f.snat_port = p
      /\ e = [key |-> k, b |-> b, port |-> p]
  BY DEF NewFlow, EntryOf
<1>4. /\ IsTable(w) /\ OneOwner(w) /\ Conserved(w, free)
      /\ MapOf(w) \in Promise!Reaped(MapOf(slots))
  BY <1>0, WalkedTypes, ReapConserved, ConservedOneOwner, ReapRefines,
     ForwardPassedSlots DEF Walked
<1>5. Promise!Fresh(MapOf(w), e)
  BY <1>0, <1>1, <1>3, <1>4, TopFresh
<1>6. \A d \in MapOf(w).bound : d.key # e.key
  <2>1. \A t \in Slots : t \in Counted(w) => w[t].fwd_key # k
    <3>1. ForwardMisses(slots, k, now_ms)
      BY DEF ForwardCreate
    <3>2. QED BY <1>0, <3>1, MissClears, ReapFacts DEF Walked
  <2>2. QED BY <1>3, <2>1 DEF MapOf, Held, EntryOf, Counted
<1>7. st = [w EXCEPT ![s] = f] /\ st[s] = f
  BY <1>4 DEF Stored, IsTable
<1>8. slots' = [st EXCEPT ![s] = TornFlow(st[s], "kForward", flags)]
  BY DEF ForwardCreate, MaybeTeardown
<1>9. e \in Promise!Entry
  BY <1>1, <1>2, <1>3 DEF Promise!Entry
<1> HIDE DEF b, p, f, w, st, e, V
<1>10. /\ MapOf(st) = [bound |-> (MapOf(w).bound \ V) \cup {e},
                       parked |-> MapOf(w).parked \ V]
       /\ V \in Promise!AtMostOne(MapOf(w).bound \cup MapOf(w).parked)
       /\ OneOwner(st)
  <2>1. f.snat_port # 0 /\ Promise!Fresh(MapOf(w), EntryOf(f))
    BY <1>2, <1>3, <1>5 DEF e
  <2>2. QED BY <1>2, <1>3, <1>4, <1>7, <2>1, StoreMap DEF e, V
<1>11. MapOf(slots') \in Promise!Hit(MapOf(st), e)
  <2>1. MapOf([st EXCEPT ![s] = TornFlow(st[s], "kForward", flags)])
          \in Promise!Hit(MapOf(st), EntryOf(st[s]))
    BY <1>2, <1>10, TornMap
  <2>2. QED BY <1>7, <1>8, <2>1 DEF e
<1> DEFINE v == [bound |-> MapOf(w).bound \ V, parked |-> MapOf(w).parked \ V]
<1>12. v \in Promise!Evicted(MapOf(w))
  BY <1>10 DEF Promise!Evicted
<1>13. MapOf(slots') \in Promise!Opened(v, e)
  <2>1. e \notin MapOf(w).bound
    BY <1>5 DEF Promise!Fresh
  <2>2. MapOf(st) = [bound |-> v.bound \cup {e}, parked |-> v.parked]
    BY <1>10
  <2>3. v = [bound |-> MapOf(st).bound \ {e}, parked |-> MapOf(st).parked]
    BY <2>1, <2>2
  <2>4. QED BY <1>11, <2>2, <2>3 DEF Promise!Hit, Promise!Opened
<1> HIDE DEF v
<1>14. QED BY <1>4, <1>5, <1>6, <1>9, <1>12, <1>13, FlowsMap DEF Promise!Open, Flows

LEMMA MapStep == NodeInv /\ [Next]_vars => [Promise!Next]_Flows
<1> SUFFICES ASSUME NodeInv, [Next]_vars PROVE Promise!Next \/ Flows' = Flows
  OBVIOUS
<1>0. /\ TypeOK /\ IsTable(slots) /\ now_ms \in Clock /\ rev \in [Slots -> 0 .. Cap]
      /\ OneOwner(slots)
  BY ConservedOneOwner DEF NodeInv, TypeOK, IsTable, PortConservation, Conserved
<1>a. ASSUME NEW S \in SUBSET Slots, slots' = ReapAll(slots, S, now_ms)
      PROVE  Promise!Next
  BY <1>0, <1>a, ReapRefines, FlowsMap DEF Promise!Next, Promise!Lookup, Flows
<1>b. ASSUME NEW S \in SUBSET Slots, NEW s \in Slots, NEW dir, NEW flags,
             slots' = [Touch(ReapAll(slots, S, now_ms), s, now_ms) EXCEPT
                         ![s] = TornFlow(Touch(ReapAll(slots, S, now_ms), s, now_ms)[s],
                                         dir, flags)]
      PROVE  Promise!Next
  <2>1. PICK m \in Promise!Reaped(MapOf(slots)) :
          \/ MapOf(slots') = m
          \/ \E e \in m.bound : MapOf(slots') \in Promise!Hit(m, e)
    BY <1>0, <1>b, HitRefines
  <2>2. QED BY <2>1, FlowsMap
    DEF Promise!Next, Promise!Lookup, Promise!Translate, Flows
<1>1. CASE ProcessBegin \/ ProcessEnd \/ UNCHANGED vars
  BY <1>1, FlowsMap DEF ProcessBegin, ProcessEnd, vars, table
<1>2. ASSUME NEW k \in Keys, NEW flags, ProcessNoBackends(k, flags)
      PROVE  Flows' = Flows
  BY <1>2, FlowsMap DEF ProcessNoBackends, table
<1>3. ASSUME NEW b \in Backends, NEW p \in Ports, NEW flags,
             ProcessNoBackendsReverse(b, p, flags)
      PROVE  Flows' = Flows
  BY <1>3, FlowsMap DEF ProcessNoBackendsReverse, table
<1>4. ASSUME NEW k \in Keys, NEW flags, NEW s \in Slots, ForwardHit(k, flags, s)
      PROVE  Promise!Next
  BY <1>4, <1>b, ForwardPassedSlots DEF ForwardHit, MaybeTeardown, Walked
<1>5. ASSUME NEW k \in Keys, NEW flags,
             \/ ForwardNoSyn(k, flags) \/ ForwardNoPort(k, flags)
             \/ ForwardTableFull(k, flags)
      PROVE  Promise!Next
  BY <1>5, <1>a, ForwardPassedSlots
    DEF ForwardNoSyn, ForwardNoPort, ForwardTableFull, Walked
<1>6. ASSUME NEW k \in Keys, NEW flags, NEW s \in Slots, ForwardCreate(k, flags, s)
      PROVE  Promise!Next
  BY <1>6, CreateRefines DEF Promise!Next
<1>7. ASSUME NEW b \in Backends, NEW p \in Ports, NEW proto \in Protos, NEW flags,
             NEW s \in Slots, ReverseHit(b, p, proto, flags, s)
      PROVE  Promise!Next
  BY <1>0, <1>7, <1>b, ReversePassedSlots DEF ReverseHit, MaybeTeardown, WalkedRev
<1>8. ASSUME NEW b \in Backends, NEW p \in Ports, NEW proto \in Protos, NEW flags,
             ReverseMiss(b, p, proto, flags)
      PROVE  Promise!Next
  BY <1>0, <1>8, <1>a, ReversePassedSlots DEF ReverseMiss, WalkedRev
<1>9. QED BY <1>1, <1>2, <1>3, <1>4, <1>5, <1>6, <1>7, <1>8
  DEF Next, ForwardPacket, ReversePacket

\* The node with its table, index, stacks and clock implements the one-to-one
\* map: whatever collides, expires, closes or is evicted, no step gives a
\* 5-tuple a second translation, hands out a translated tuple that another
\* flow still holds, or revives a flow.
THEOREM NodeIsFlowMap == Spec => FlowMapSpec
<1>1. Init => Promise!Init
  <2> SUFFICES ASSUME Init PROVE Promise!Init
    OBVIOUS
  <2>1. \A S \in SUBSET Slots : EntriesOf(S) = {}
    BY DEF Init, EntriesOf, EmptyFlow
  <2>2. Counted(slots) \subseteq Slots
    BY DEF Counted
  <2>3. QED BY <2>1, <2>2 DEF Promise!Init, Promise!NoFlows
<1>2. NodeInv /\ [Next]_vars => [Promise!Next]_Flows
  BY MapStep
<1>3. QED BY <1>1, <1>2, NodeInvHolds, PTL DEF Spec, FlowMapSpec, Promise!Spec, Flows

-----------------------------------------------------------------------------
(* Replies.                                                                *)

\* The least number principle.
LEMMA LeastNat ==
  ASSUME NEW T \in SUBSET Nat, T # {}
  PROVE  \E x \in T : \A y \in T : x <= y
<1> DEFINE R == OpToRel(<, Nat)
<1>1. IsWellFoundedOn(R, Nat)
  BY NatLessThanWellFounded
<1>2. \A x, y \in Nat : <<y, x>> \in R <=> y < x
  BY DEF OpToRel
<1> HIDE DEF R
<1>3. PICK x \in T : \A y \in T : ~(<<y, x>> \in R)
  BY <1>1, WFMin
<1>4. ASSUME NEW y \in T PROVE x <= y
  <2>1. ~(y < x)
    BY <1>2, <1>3
  <2>2. QED BY <2>1
<1>5. QED BY <1>4

\* A probe that something stops ends at one of the places that stop it.
LEMMA FirstStops ==
  ASSUME NEW start \in Slots, NEW S \in SUBSET Slots, S # {}
  PROVE  First(start, S) \in S
<1> DEFINE T == {Dist(start, s) : s \in S}
<1>1. T \in SUBSET Nat /\ T # {}
  BY DistFacts
<1> HIDE DEF T
<1>2. PICK x \in T : \A y \in T : x <= y
  BY <1>1, LeastNat
<1>3. PICK s \in S : x = Dist(start, s)
  BY <1>2 DEF T
<1>4. IsFirst(start, S, s)
  BY <1>2, <1>3 DEF IsFirst, T
<1>5. QED BY <1>4 DEF First

\* Every flow that has not been reaped holds a port.
HoldPorts(sl) == \A s \in Counted(sl) : sl[s].snat_port # 0

\* The cells that answer for the tuple of a live flow, and those that stop the
\* search for it: nobody else has the tuple.
CellsOf(sl, rv, b, p, proto, now, s) ==
  /\ ReverseHits(sl, rv, b, p, proto, now) = {c \in Slots : rv[c] = s + 1}
  /\ ReverseStops(sl, rv, b, p, proto, now) = {c \in Slots : rv[c] \in {0, s + 1}}

LEMMA ReverseCells ==
  ASSUME NEW sl, IsTable(sl), OneOwner(sl), NEW rv \in [Slots -> 0 .. Cap], NEW now,
         NEW s \in Slots, Live(sl[s], now), sl[s].snat_port # 0,
         NEW b, b = sl[s].backend_idx, NEW p, p = sl[s].snat_port,
         NEW proto, proto = Proto[sl[s].fwd_key]
  PROVE  CellsOf(sl, rv, b, p, proto, now, s)
<1>1. ASSUME NEW c \in Slots, rv[c] # 0,
             ReverseMatch(sl[rv[c] - 1], b, p, proto, now)
      PROVE  rv[c] = s + 1
  <2>1. rv[c] - 1 \in Slots
    BY <1>1, TableAssumption DEF Slots
  <2>2. Holds(sl, rv[c] - 1) /\ Holds(sl, s)
    BY <1>1 DEF ReverseMatch, Live, Holds
  <2>3. rv[c] - 1 = s
    BY <1>1, <2>1, <2>2 DEF OneOwner, ReverseMatch
  <2>4. QED BY <2>3, TableAssumption DEF Slots
<1>2. ASSUME NEW c \in Slots, rv[c] = s + 1
      PROVE  rv[c] # 0 /\ ReverseMatch(sl[rv[c] - 1], b, p, proto, now)
  <2>1. rv[c] - 1 = s /\ rv[c] # 0
    BY <1>2, TableAssumption DEF Slots
  <2>2. QED BY <2>1 DEF ReverseMatch
<1>3. ReverseHits(sl, rv, b, p, proto, now) = {c \in Slots : rv[c] = s + 1}
  BY <1>1, <1>2 DEF ReverseHits
<1>4. QED BY <1>3 DEF CellsOf, ReverseStops

\* Replies keep finding a flow if no cell is taken away from it and no cell
\* before it is emptied or made to point at it.
LEMMA ReverseKept ==
  ASSUME NEW sl, IsTable(sl), OneOwner(sl), NEW rv \in [Slots -> 0 .. Cap], NEW now,
         NEW tl, IsTable(tl), OneOwner(tl), NEW rw \in [Slots -> 0 .. Cap], NEW then,
         NEW s \in Slots, Live(sl[s], now), Live(tl[s], then), sl[s].snat_port # 0,
         SameBinding(sl[s], tl[s]),
         \A c \in Slots : rw[c] = rv[c] \/ (rw[c] \notin {0, s + 1} /\ rv[c] # s + 1),
         Reachable(sl, rv, s, now)
  PROVE  Reachable(tl, rw, s, then)
<1> DEFINE b == sl[s].backend_idx
           p == sl[s].snat_port
           proto == Proto[sl[s].fwd_key]
<1>0. b = sl[s].backend_idx /\ p = sl[s].snat_port /\ proto = Proto[sl[s].fwd_key]
  OBVIOUS
<1> HIDE DEF b, p, proto
<1>a. CellsOf(sl, rv, b, p, proto, now, s)
  BY <1>0, ReverseCells
<1>b. CellsOf(tl, rw, b, p, proto, then, s)
  <2>1. b = tl[s].backend_idx /\ p = tl[s].snat_port /\ proto = Proto[tl[s].fwd_key]
    BY <1>0 DEF SameBinding
  <2>2. tl[s].snat_port # 0
    BY <1>0 DEF SameBinding
  <2>3. QED BY <2>1, <2>2, ReverseCells
<1> DEFINE H == ReverseHits(tl, rw, b, p, proto, then)
           D == ReverseStops(tl, rw, b, p, proto, then)
           B == ReverseStops(sl, rv, b, p, proto, now)
<1>1. /\ ReverseHits(sl, rv, b, p, proto, now) = {c \in Slots : rv[c] = s + 1}
      /\ B = {c \in Slots : rv[c] \in {0, s + 1}}
  BY <1>a DEF CellsOf
<1>2. H = {c \in Slots : rw[c] = s + 1} /\ D = {c \in Slots : rw[c] \in {0, s + 1}}
  BY <1>b DEF CellsOf
<1>3. PICK c \in Slots : /\ rv[c] = s + 1
                         /\ IsFirst(RevHome(b, p, proto), B, c)
  <2>1. ReverseFinds(sl, rv, b, p, proto, now, s)
    BY <1>0 DEF Reachable
  <2>2. PICK c \in ReverseHits(sl, rv, b, p, proto, now) :
          IsFirst(RevHome(b, p, proto), B, c)
    BY <2>1 DEF ReverseFinds
  <2>3. QED BY <1>1, <2>2
<1> HIDE DEF H, D, B
<1>4. rw[c] = s + 1 /\ c \in H /\ c \in D /\ s = rw[c] - 1
  <2>1. rw[c] = s + 1
    BY <1>3
  <2>2. c \in H /\ c \in D
    BY <1>2, <2>1
  <2>3. s = rw[c] - 1
    BY <2>1, TableAssumption DEF Slots
  <2>4. QED BY <2>1, <2>2, <2>3
<1>5. D \subseteq B
  BY <1>1, <1>2
<1>6. IsFirst(RevHome(b, p, proto), D, c)
  BY <1>3, <1>4, <1>5 DEF IsFirst
<1>7. ReverseFinds(tl, rw, b, p, proto, then, s)
  BY <1>4, <1>6 DEF ReverseFinds, H, D
<1>8. QED BY <1>0, <1>7 DEF Reachable, SameBinding

\* A live flow that is hit and not closed is alive: the hit makes it young.
LEMMA HitLive ==
  ASSUME IsTable(slots), now_ms \in Clock, NEW S, NEW h \in Slots, NEW dir, NEW flags,
         slots' = [Touch(ReapAll(slots, S, now_ms), h, now_ms) EXCEPT
                     ![h] = TornFlow(Touch(ReapAll(slots, S, now_ms), h, now_ms)[h],
                                     dir, flags)],
         NEW s \in Slots, Live(slots[s], now_ms), ~slots'[s].reaped
  PROVE  Live(slots'[s], now_ms)
<1> DEFINE w == ReapAll(slots, S, now_ms)
           u == Touch(w, h, now_ms)
<1>1. w[s] = slots[s] /\ slots[s].occupied /\ ~slots[s].reaped /\ IsTable(w)
  BY LiveUntouched, ReapAllTable
<1>2. IsTable(u)
  BY <1>1, TouchTable
<1>3. slots' = [u EXCEPT ![h] = TornFlow(u[h], dir, flags)]
  OBVIOUS
<1> HIDE DEF w
<1>4. CASE s # h
  <2>1. u[s] = w[s]
    BY <1>1, <1>4 DEF Touch, IsTable
  <2> HIDE DEF u
  <2>2. slots'[s] = u[s]
    BY <1>2, <1>3, <1>4 DEF IsTable
  <2>3. QED BY <1>1, <2>1, <2>2
<1>5. CASE s = h
  <2>1. u[s] = [w[s] EXCEPT !.last_seen_ms = now_ms]
    BY <1>1, <1>5 DEF Touch, IsTable
  <2>2. w[s] \in Flow
    BY <1>1 DEF IsTable
  <2>3. u[s].last_seen_ms = now_ms /\ u[s].occupied
    BY <1>1, <2>1, <2>2 DEF Flow
  <2> HIDE DEF u
  <2>4. slots'[s] = TornFlow(u[s], dir, flags) /\ u[s] \in Flow
    BY <1>2, <1>3, <1>5 DEF IsTable
  <2>5. slots'[s] = NoteFin(u[s], dir, flags)
    BY <2>4, TornFlowFacts DEF TornFlow
  <2>6. slots'[s].last_seen_ms = now_ms /\ slots'[s].occupied
    BY <2>3, <2>4, <2>5 DEF NoteFin, Flow
  <2>7. Age(slots'[s], now_ms) = 0
    <3>1. now_ms - slots'[s].last_seen_ms = 0
      BY <2>6 DEF Clock
    <3>2. 0 % ClockMod = 0
      BY TableAssumption
    <3>3. QED BY <3>1, <3>2 DEF Age
  <2>8. QED BY <2>6, <2>7, TableAssumption DEF Live, Expired
<1>6. QED BY <1>4, <1>5

LEMMA LiveStep ==
  ASSUME TypeOK, [Next]_vars, NEW s \in Slots, Live(slots[s], now_ms),
         Live(slots[s], now_ms'), ~slots'[s].reaped
  PROVE  Live(slots'[s], now_ms')
<1>0. IsTable(slots) /\ now_ms \in Clock /\ rev \in [Slots -> 0 .. Cap]
  BY DEF TypeOK, IsTable
<1>a. ASSUME NEW S, slots' = ReapAll(slots, S, now_ms)
      PROVE  Live(slots'[s], now_ms')
  BY <1>0, <1>a, LiveUntouched
<1>1. CASE ProcessBegin \/ ProcessEnd \/ UNCHANGED vars
  BY <1>1 DEF ProcessBegin, ProcessEnd, vars, table
<1>2. ASSUME NEW k \in Keys, NEW flags, ProcessNoBackends(k, flags)
      PROVE  Live(slots'[s], now_ms')
  BY <1>2 DEF ProcessNoBackends, table
<1>3. ASSUME NEW b \in Backends, NEW p \in Ports, NEW flags,
             ProcessNoBackendsReverse(b, p, flags)
      PROVE  Live(slots'[s], now_ms')
  BY <1>3 DEF ProcessNoBackendsReverse, table
<1>4. ASSUME NEW k \in Keys, NEW flags, NEW h \in Slots, ForwardHit(k, flags, h)
      PROVE  Live(slots'[s], now_ms')
  <2>1. now_ms' = now_ms
    BY <1>4 DEF ForwardHit
  <2>2. QED BY <1>0, <1>4, <2>1, HitLive DEF ForwardHit, MaybeTeardown, Walked
<1>5. ASSUME NEW k \in Keys, NEW flags,
             \/ ForwardNoSyn(k, flags) \/ ForwardNoPort(k, flags)
             \/ ForwardTableFull(k, flags)
      PROVE  Live(slots'[s], now_ms')
  BY <1>5, <1>a DEF ForwardNoSyn, ForwardNoPort, ForwardTableFull, Walked
<1>6. ASSUME NEW k \in Keys, NEW flags, NEW h \in Slots, ForwardCreate(k, flags, h)
      PROVE  Live(slots'[s], now_ms')
  <2>1. Walked(k)[s] = slots[s]
    BY <1>0, LiveUntouched DEF Walked
  <2>2. /\ \A v \in Slots \ {h} : slots'[v] = Walked(k)[v]
        /\ InsertsAt(Walked(k), k, now_ms, h)
    BY <1>6, CreateShape
  <2>3. s # h
    BY <2>1, <2>2, InsertsAtSlot DEF Live
  <2>4. QED BY <2>1, <2>2, <2>3
<1>7. ASSUME NEW b \in Backends, NEW p \in Ports, NEW proto \in Protos, NEW flags,
             NEW h \in Slots, ReverseHit(b, p, proto, flags, h)
      PROVE  Live(slots'[s], now_ms')
  <2>1. now_ms' = now_ms
    BY <1>7 DEF ReverseHit
  <2>2. QED BY <1>0, <1>7, <2>1, HitLive DEF ReverseHit, MaybeTeardown, WalkedRev
<1>8. ASSUME NEW b \in Backends, NEW p \in Ports, NEW proto \in Protos, NEW flags,
             ReverseMiss(b, p, proto, flags)
      PROVE  Live(slots'[s], now_ms')
  BY <1>8, <1>a DEF ReverseMiss, WalkedRev
<1>9. QED BY <1>1, <1>2, <1>3, <1>4, <1>5, <1>6, <1>7, <1>8
          DEF Next, ForwardPacket, ReversePacket

\* IndexReverse takes no cell that points at a live flow.
LEMMA IndexKeeps ==
  ASSUME NEW sl, IsTable(sl), NEW rv \in [Slots -> 0 .. Cap], NEW now,
         NEW h \in Slots, sl[h].occupied, sl[h].snat_port # 0,
         NEW s \in Slots, s # h, Live(sl[s], now), NEW c \in Slots
  PROVE  LET rw == IndexReverse(sl, rv, h, now)
         IN  rw[c] = rv[c] \/ (rw[c] \notin {0, s + 1} /\ rv[c] # s + 1)
<1> DEFINE stops == IndexStops(sl, rv, now)
           start == RevHome(sl[h].backend_idx, sl[h].snat_port, Proto[sl[h].fwd_key])
           rw == IndexReverse(sl, rv, h, now)
           x == First(start, stops)
<1>1. start \in Slots
  <2>1. /\ sl[h].backend_idx \in Backends /\ sl[h].snat_port \in Ports
        /\ sl[h].fwd_key \in Keys
    BY DEF IsTable, Flow
  <2>2. Proto[sl[h].fwd_key] \in Protos
    BY <2>1, TableAssumption
  <2>3. QED BY <2>1, <2>2, RevHomeSlot
<1>2. stops \in SUBSET Slots
  BY DEF IndexStops
<1>3. CASE stops = {}
  BY <1>3 DEF IndexReverse
<1>4. CASE stops # {}
  <2>1. rw = [rv EXCEPT ![x] = h + 1]
    BY <1>4 DEF IndexReverse
  <2> HIDE DEF start, stops, rw
  <2>2. x \in stops
    BY <1>1, <1>2, <1>4, FirstStops
  <2> HIDE DEF x
  <2>3. rv[x] # s + 1
    <3>1. ASSUME rv[x] = s + 1 PROVE FALSE
      <4>1. rv[x] - 1 = s /\ rv[x] # 0
        BY <3>1, TableAssumption DEF Slots
      <4>2. ~sl[s].occupied \/ Expired(sl[s], now)
        BY <2>2, <4>1 DEF stops, IndexStops
      <4>3. QED BY <4>2 DEF Live
    <3>2. QED BY <3>1
  <2>4. h + 1 \notin {0, s + 1}
    BY TableAssumption DEF Slots
  <2>5. rw[c] = IF c = x THEN h + 1 ELSE rv[c]
    BY <2>1
  <2>6. QED BY <2>3, <2>4, <2>5 DEF rw
<1>5. QED BY <1>3, <1>4

LEMMA ReapPorts ==
  ASSUME NEW sl, IsTable(sl), HoldPorts(sl), NEW S, NEW now
  PROVE  HoldPorts(ReapAll(sl, S, now))
<1>1. ASSUME NEW s \in Counted(ReapAll(sl, S, now))
      PROVE  ReapAll(sl, S, now)[s].snat_port # 0
  <2>1. s \in Slots /\ s \in Counted(sl)
    BY <1>1, ReapFacts DEF Counted
  <2>2. QED BY <2>1, ReapFacts DEF HoldPorts
<1>2. QED BY <1>1 DEF HoldPorts

LEMMA TornPorts ==
  ASSUME NEW sl, IsTable(sl), HoldPorts(sl), NEW s \in Slots, NEW dir, NEW flags
  PROVE  HoldPorts([sl EXCEPT ![s] = TornFlow(sl[s], dir, flags)])
<1> DEFINE tl == [sl EXCEPT ![s] = TornFlow(sl[s], dir, flags)]
<1>1. tl[s] = TornFlow(sl[s], dir, flags) /\ \A t \in Slots \ {s} : tl[t] = sl[t]
  BY DEF IsTable
<1>2. sl[s] \in Flow
  BY DEF IsTable
<1> HIDE DEF tl
<1>3. ASSUME NEW t \in Counted(tl) PROVE tl[t].snat_port # 0
  <2>1. t \in Slots /\ tl[t].occupied /\ ~tl[t].reaped
    BY DEF Counted
  <2>2. CASE t # s
    BY <1>1, <2>1, <2>2 DEF HoldPorts, Counted
  <2>3. CASE t = s
    <3>1. ~Closes(sl[s], dir, flags)
      BY <1>1, <1>2, <2>1, <2>3, TornFlowFacts
    <3>2. sl[s].occupied /\ ~sl[s].reaped /\ tl[s].snat_port = sl[s].snat_port
      BY <1>1, <1>2, <2>1, <2>3, <3>1, TornFlowFacts
    <3>3. QED BY <2>3, <3>2 DEF HoldPorts, Counted
  <2>4. QED BY <2>2, <2>3
<1>4. QED BY <1>3 DEF HoldPorts, tl

LEMMA HitPorts ==
  ASSUME NEW sl, IsTable(sl), HoldPorts(sl), NEW S, NEW now \in Clock, NEW s \in Slots,
         NEW dir, NEW flags
  PROVE  HoldPorts([Touch(ReapAll(sl, S, now), s, now) EXCEPT
                      ![s] = TornFlow(Touch(ReapAll(sl, S, now), s, now)[s], dir, flags)])
<1> DEFINE w == ReapAll(sl, S, now)
           u == Touch(w, s, now)
<1>1. IsTable(w) /\ HoldPorts(w)
  BY ReapAllTable, ReapPorts
<1> HIDE DEF w
<1>2. IsTable(u) /\ HoldPorts(u)
  BY <1>1, TouchTable, TouchCounted DEF HoldPorts, Counted
<1> HIDE DEF u
<1>3. QED BY <1>2, TornPorts DEF u, w

LEMMA PortsStep ==
  ASSUME TypeOK, HoldPorts(slots), [Next]_vars
  PROVE  HoldPorts(slots')
<1>0. IsTable(slots) /\ now_ms \in Clock /\ rev \in [Slots -> 0 .. Cap] /\ IsFree(free)
  BY DEF TypeOK, IsTable, IsFree
<1>1. CASE ProcessBegin \/ ProcessEnd \/ UNCHANGED vars
  BY <1>1 DEF ProcessBegin, ProcessEnd, vars, table
<1>2. ASSUME NEW k \in Keys, NEW flags, ProcessNoBackends(k, flags)
      PROVE  HoldPorts(slots')
  BY <1>2 DEF ProcessNoBackends, table
<1>3. ASSUME NEW b \in Backends, NEW p \in Ports, NEW flags,
             ProcessNoBackendsReverse(b, p, flags)
      PROVE  HoldPorts(slots')
  BY <1>3 DEF ProcessNoBackendsReverse, table
<1>4. ASSUME NEW k \in Keys, NEW flags, NEW h \in Slots, ForwardHit(k, flags, h)
      PROVE  HoldPorts(slots')
  BY <1>0, <1>4, HitPorts DEF ForwardHit, MaybeTeardown, Walked
<1>5. ASSUME NEW k \in Keys, NEW flags,
             \/ ForwardNoSyn(k, flags) \/ ForwardNoPort(k, flags)
             \/ ForwardTableFull(k, flags)
      PROVE  HoldPorts(slots')
  BY <1>0, <1>5, ReapPorts DEF ForwardNoSyn, ForwardNoPort, ForwardTableFull, Walked
<1>6. ASSUME NEW k \in Keys, NEW flags, NEW h \in Slots, ForwardCreate(k, flags, h)
      PROVE  HoldPorts(slots')
  <2> DEFINE b == Select(pool, k)
             p == Top(free[b])
             st == Stored(k, b, p, h)
  <2>1. b \in Backends /\ free[b] # <<>>
    BY <1>6, SelectBackend DEF TypeOK, ForwardCreate
  <2>2. IsTable(st) /\ p # 0
    BY <1>0, <2>1, StoredTypes, PopFree, TableAssumption
  <2>3. IsTable(Walked(k)) /\ HoldPorts(Walked(k))
    BY <1>0, ReapAllTable, ReapPorts DEF Walked
  <2>4. slots' = [st EXCEPT ![h] = TornFlow(st[h], "kForward", flags)]
    BY <1>6 DEF ForwardCreate, MaybeTeardown
  <2>5. st[h].snat_port = p /\ \A t \in Slots \ {h} : st[t] = Walked(k)[t]
    BY <2>3 DEF Stored, NewFlow, IsTable
  <2> HIDE DEF b, p, st
  <2>6. HoldPorts(st)
    BY <2>2, <2>3, <2>5 DEF HoldPorts, Counted
  <2>7. QED BY <2>2, <2>4, <2>6, TornPorts
<1>7. ASSUME NEW b \in Backends, NEW p \in Ports, NEW proto \in Protos, NEW flags,
             NEW h \in Slots, ReverseHit(b, p, proto, flags, h)
      PROVE  HoldPorts(slots')
  BY <1>0, <1>7, HitPorts DEF ReverseHit, MaybeTeardown, WalkedRev
<1>8. ASSUME NEW b \in Backends, NEW p \in Ports, NEW proto \in Protos, NEW flags,
             ReverseMiss(b, p, proto, flags)
      PROVE  HoldPorts(slots')
  BY <1>0, <1>8, ReapPorts DEF ReverseMiss, WalkedRev
<1>9. QED BY <1>1, <1>2, <1>3, <1>4, <1>5, <1>6, <1>7, <1>8
          DEF Next, ForwardPacket, ReversePacket

\* Only the storing of a flow touches the index.
LEMMA IndexShape ==
  ASSUME [Next]_vars
  PROVE  \/ rev' = rev
         \/ \E k \in Keys, s \in Slots : \E flags \in Flags(Proto[k]) :
              ForwardCreate(k, flags, s)
BY DEF Next, vars, table, ForwardPacket, ReversePacket, ProcessBegin, ProcessEnd,
       ProcessNoBackends, ProcessNoBackendsReverse, ForwardHit, ForwardNoSyn,
       ForwardNoPort, ForwardTableFull, ReverseHit, ReverseMiss

LEMMA ReverseStep ==
  ASSUME NodeInv, NodeInv', HoldPorts(slots), [Next]_vars, NEW s \in Slots,
         Live(slots[s], now_ms), Live(slots[s], now_ms'), Reachable(slots, rev, s, now_ms),
         ~slots'[s].reaped
  PROVE  Reachable(slots', rev', s, now_ms')
<1>0. /\ TypeOK /\ IsTable(slots) /\ rev \in [Slots -> 0 .. Cap] /\ OneOwner(slots)
      /\ IsFree(free) /\ now_ms \in Clock
  BY ConservedOneOwner DEF NodeInv, TypeOK, IsTable, IsFree, PortConservation, Conserved
<1>1. IsTable(slots') /\ rev' \in [Slots -> 0 .. Cap] /\ OneOwner(slots')
  <2>1. /\ IsTable(slots') /\ rev' \in [Slots -> 0 .. Cap]
        /\ Conserved(slots', free')
    BY DEF NodeInv, TypeOK, IsTable, PortConservation, Conserved
  <2>2. QED BY <2>1, ConservedOneOwner
<1>2. Live(slots'[s], now_ms') /\ Kept(s)
  BY <1>0, LiveStep, BindingStep
<1>3. slots[s].occupied /\ slots[s].snat_port # 0
  BY DEF HoldPorts, Counted, Live, Expired
<1>4. SameBinding(slots[s], slots'[s])
  <2>1. slots'[s].occupied /\ slots[s].occupied \in BOOLEAN /\ slots'[s].occupied \in BOOLEAN
    BY <1>0, <1>1, <1>2 DEF Live, IsTable, Flow
  <2>2. QED BY <1>2, <1>3, <2>1 DEF Kept, SameBinding
<1>5. \A c \in Slots :
        rev'[c] = rev[c] \/ (rev'[c] \notin {0, s + 1} /\ rev[c] # s + 1)
  <2>1. ASSUME NEW k \in Keys, NEW h \in Slots, NEW flags, ForwardCreate(k, flags, h),
               NEW c \in Slots
        PROVE  rev'[c] = rev[c] \/ (rev'[c] \notin {0, s + 1} /\ rev[c] # s + 1)
    <3> DEFINE b == Select(pool, k)
               p == Top(free[b])
               st == Stored(k, b, p, h)
    <3>1. b \in Backends /\ free[b] # <<>>
      BY <1>0, <2>1, SelectBackend DEF TypeOK, ForwardCreate
    <3>2. IsTable(st) /\ p # 0
      BY <1>0, <3>1, StoredTypes, PopFree, TableAssumption
    <3>3. IsTable(Walked(k)) /\ Walked(k)[s] = slots[s]
      BY <1>0, ReapAllTable, LiveUntouched DEF Walked
    <3>4. s # h
      BY <2>1, <3>3, InsertsAtSlot DEF ForwardCreate, Live
    <3>5. st[h].snat_port = p /\ st[h].occupied /\ st[s] = slots[s]
      BY <3>3, <3>4 DEF Stored, NewFlow, IsTable
    <3>6. rev' = IndexReverse(st, rev, h, now_ms)
      BY <2>1 DEF ForwardCreate
    <3> HIDE DEF b, p, st
    <3>7. QED BY <1>0, <3>2, <3>4, <3>5, <3>6, IndexKeeps
  <2>2. QED BY <2>1, IndexShape
<1>6. QED BY <1>0, <1>1, <1>2, <1>3, <1>4, <1>5, ReverseKept

LEMMA HoldPortsInv == Spec => []HoldPorts(slots)
<1>1. Init => HoldPorts(slots)
  BY DEF Init, HoldPorts, Counted, EmptyFlow
<1>2. TypeOK /\ HoldPorts(slots) /\ [Next]_vars => HoldPorts(slots)'
  BY PortsStep DEF HoldPorts, Counted
<1>3. QED BY <1>1, <1>2, TypeCorrect, PTL DEF Spec

\* A flow its replies find is found by them as long as it lives: whatever the
\* table and the index are asked to take, evict, reap or close meanwhile,
\* IndexReverse neither takes the flow's cell nor opens a gap before it.
THEOREM RepliesStable == Spec => ReverseStable
<1>1. NodeInv /\ NodeInv' /\ HoldPorts(slots) /\ [Next]_vars =>
        [\A s \in Slots :
           /\ Live(slots[s], now_ms) /\ Live(slots[s], now_ms')
           /\ Reachable(slots, rev, s, now_ms)
           /\ ~slots'[s].reaped
           => Reachable(slots', rev', s, now_ms')]_vars
  BY ReverseStep
<1>2. QED BY <1>1, NodeInvHolds, HoldPortsInv, PTL DEF Spec, ReverseStable
=============================================================================
