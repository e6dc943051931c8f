------------------------- MODULE ControlPlaneProofs -------------------------
(***************************************************************************)
(* What holds of both planes however often they are started, stopped and   *)
(* killed, in the middle of a publication too, and however often backends  *)
(* come and go: the bounds of module ControlPlane are arbitrary here.      *)
(***************************************************************************)
EXTENDS ControlPlane, TLAPS

\* Who publishes has an object mapped, and the main thread reads only when
\* SeedControl has returned.
Mapped ==
  /\ dpc # "down" => dseg \in Segments
  /\ wpc[Dp] # "idle" => dpc = "seed"
  /\ wpc[Cp] # "idle" => cpc = "up" /\ cseg \in Segments
  /\ applied_seq # NoSeq => dpc \in {"loop", "copy"}

TypeInv == TypeOK /\ Mapped

LEMMA Numbers ==
  /\ Dp \in Writers /\ Cp \in Writers /\ Dp # Cp
  /\ \A p \in Writers : p = Dp \/ p = Cp
  /\ MaxEnd \in Nat /\ MaxFlip \in Nat
BY ControlAssumption DEF Writers, Dp, Cp

\* The object that a publisher writes to.
LEMMA WriterMapped ==
  ASSUME TypeInv, NEW p \in Writers, wpc[p] # "idle"
  PROVE  Seg(p) \in Segments
BY Numbers DEF TypeInv, Mapped, Seg

LEMMA TypeInit == Init => TypeInv
<1> SUFFICES ASSUME Init PROVE TypeInv
  OBVIOUS
<1>1. Unprobed \in [Backends -> Status]
  BY DEF Unprobed, Status
<1>2. seq \in [Segments -> Nat] /\ list \in [Segments -> SUBSET Backends]
  BY DEF Init
<1>3. /\ wpc \in [Writers -> {"idle", "load", "odd", "copy"}]
      /\ start \in [Writers -> Nat]
      /\ src \in [Writers -> SUBSET Backends] /\ left \in [Writers -> SUBSET Backends]
  BY DEF Init
<1>4. joined \in BOOLEAN
  BY DEF Init
<1>5. nend \in 0 .. MaxEnd /\ nflip \in 0 .. MaxFlip /\ applied_seq \in Nat
  BY Numbers DEF Init, NoSeq
<1>6. TypeOK
  BY <1>1, <1>2, <1>3, <1>4, <1>5 DEF Init, TypeOK
<1>7. Mapped
  BY Numbers DEF Init, Mapped
<1>8. QED BY <1>6, <1>7 DEF TypeInv

\* The steps of PublishControl.
LEMMA PublishTypes ==
  ASSUME TypeInv, NEW p \in Writers, Publish(p)
  PROVE  TypeInv'
<1>0. TypeOK /\ Mapped
  BY DEF TypeInv
<1>1. CASE LoadSeq(p)
  <2>1. Seg(p) \in Segments
    BY <1>1, WriterMapped DEF LoadSeq
  <2>2. /\ start' \in [Writers -> Nat]
        /\ wpc' \in [Writers -> {"idle", "load", "odd", "copy"}]
        /\ damaged' \subseteq Segments
    BY <1>0, <1>1, <2>1 DEF LoadSeq, TypeOK
  <2>3. TypeOK'
    BY <1>0, <1>1, <2>2
    DEF LoadSeq, TypeOK, shm, dataplane, reader, checker, monitor, counters, outcomes
  <2>4. Mapped'
    BY <1>0, <1>1, Numbers DEF LoadSeq, Mapped, TypeOK, dataplane, monitor
  <2>5. QED BY <2>3, <2>4 DEF TypeInv
<1>2. CASE StoreOdd(p)
  <2>1. Seg(p) \in Segments
    BY <1>2, WriterMapped DEF StoreOdd
  <2>2. /\ seq' \in [Segments -> Nat] /\ left' \in [Writers -> SUBSET Backends]
        /\ wpc' \in [Writers -> {"idle", "load", "odd", "copy"}]
    BY <1>0, <1>2, <2>1 DEF StoreOdd, TypeOK
  <2>3. TypeOK'
    BY <1>0, <1>2, <2>2
    DEF StoreOdd, TypeOK, dataplane, reader, checker, monitor, counters, history, outcomes
  <2>4. Mapped'
    BY <1>0, <1>2, Numbers DEF StoreOdd, Mapped, TypeOK, dataplane, monitor
  <2>5. QED BY <2>3, <2>4 DEF TypeInv
<1>3. CASE StoreEven(p)
  <2>1. Seg(p) \in Segments
    BY <1>3, WriterMapped DEF StoreEven
  <2>2. /\ seq' \in [Segments -> Nat] /\ start' \in [Writers -> Nat]
        /\ src' \in [Writers -> SUBSET Backends]
        /\ wpc' \in [Writers -> {"idle", "load", "odd", "copy"}]
        /\ dpc' \in {"down", "created", "seed", "loop", "copy"}
        /\ published_enabled' \subseteq SUBSET Backends
    BY <1>0, <1>3, <2>1, Numbers DEF StoreEven, TypeOK
  <2>3. TypeOK'
    BY <1>0, <1>3, <2>2
    DEF StoreEven, TypeOK, reader, checker, counters, history, outcomes
  <2>4. Mapped'
    <3>1. CASE p = Dp
      BY <1>0, <1>3, <3>1, Numbers DEF StoreEven, Mapped, TypeOK
    <3>2. CASE p = Cp
      BY <1>0, <1>3, <3>2, Numbers DEF StoreEven, Mapped, TypeOK
    <3>3. QED BY <3>1, <3>2, Numbers
  <2>5. QED BY <2>3, <2>4 DEF TypeInv
<1>4. ASSUME NEW b \in Backends, StoreEntry(p, b) PROVE TypeInv'
  <2>1. Seg(p) \in Segments
    BY <1>4, WriterMapped DEF StoreEntry
  <2>2. /\ list' \in [Segments -> SUBSET Backends]
        /\ left' \in [Writers -> SUBSET Backends]
    BY <1>0, <1>4, <2>1 DEF StoreEntry, TypeOK
  <2>3. TypeOK'
    BY <1>0, <1>4, <2>2
    DEF StoreEntry, TypeOK, dataplane, reader, checker, monitor, counters, history,
        outcomes
  <2>4. Mapped'
    BY <1>0, <1>4 DEF StoreEntry, Mapped, dataplane, monitor
  <2>5. QED BY <2>3, <2>4 DEF TypeInv
<1>5. QED BY <1>1, <1>2, <1>3, <1>4 DEF Publish

LEMMA TypeStep == TypeInv /\ [Next]_vars => TypeInv'
<1> SUFFICES ASSUME TypeInv, [Next]_vars PROVE TypeInv'
  OBVIOUS
<1>0. TypeOK /\ Mapped
  BY DEF TypeInv
<1>1. CASE DpCreate
  <2>1. dseg' \in Segments /\ linked' \in Segments
    BY <1>0, <1>1, Numbers DEF DpCreate, TypeOK, Segments
  <2>2. QED BY <1>0, <1>1, <2>1
    DEF DpCreate, TypeInv, TypeOK, Mapped, publishers, reader, checker, monitor,
        counters, history, outcomes
<1>2. CASE DpHeader
  <2>1. /\ wpc' \in [Writers -> {"idle", "load", "odd", "copy"}]
        /\ src' \in [Writers -> SUBSET Backends] /\ header' \subseteq Segments
    BY <1>0, <1>2 DEF DpHeader, TypeOK, Mapped
  <2>2. TypeOK'
    BY <1>0, <1>2, <2>1
    DEF DpHeader, TypeOK, reader, checker, monitor, counters, history, outcomes
  <2>3. Mapped'
    BY <1>0, <1>2, Numbers DEF DpHeader, Mapped, TypeOK, monitor
  <2>4. QED BY <2>2, <2>3 DEF TypeInv
<1>3. CASE ReadSeq
  BY <1>0, <1>3
  DEF ReadSeq, TypeInv, TypeOK, Mapped, shm, publishers, checker, monitor, counters,
      history, outcomes
<1>4. ASSUME NEW b \in Backends, ReadEntry(b) PROVE TypeInv'
  BY <1>0, <1>4
  DEF ReadEntry, TypeInv, TypeOK, Mapped, shm, publishers, checker, monitor, counters,
      history, outcomes
<1>5. CASE CheckSeq
  <2>1. applied_seq' \in Nat /\ pool' \subseteq Backends
    BY <1>0, <1>5 DEF CheckSeq, TypeOK
  <2>2. QED BY <1>0, <1>5, <2>1
    DEF CheckSeq, TypeInv, TypeOK, Mapped, shm, publishers, checker, monitor, counters,
        history, outcomes
<1>6. CASE DpStop
  <2>1. nend' \in 0 .. MaxEnd /\ NoSeq \in Nat
    BY <1>0, <1>6, Numbers DEF DpStop, DpGone, TypeOK, NoSeq
  <2>2. TypeOK'
    BY <1>0, <1>6, <2>1
    DEF DpStop, DpGone, TypeOK, publishers, checker, monitor, outcomes
  <2>3. Mapped'
    BY <1>0, <1>6 DEF DpStop, DpGone, Mapped, publishers, monitor
  <2>4. QED BY <2>2, <2>3 DEF TypeInv
<1>7. CASE DpKill
  <2>1. nend' \in 0 .. MaxEnd /\ NoSeq \in Nat
    BY <1>0, <1>7, Numbers DEF DpKill, DpGone, TypeOK, NoSeq
  <2>2. /\ wpc' \in [Writers -> {"idle", "load", "odd", "copy"}]
        /\ start' \in [Writers -> Nat] /\ src' \in [Writers -> SUBSET Backends]
        /\ left' \in [Writers -> SUBSET Backends]
    BY <1>0, <1>7 DEF DpKill, Silent, TypeOK
  <2>3. damaged' \subseteq Segments
    BY <1>0, <1>7, WriterMapped, Numbers DEF DpKill, CutOff, TypeOK
  <2>4. TypeOK'
    BY <1>0, <1>7, <2>1, <2>2, <2>3
    DEF DpKill, DpGone, TypeOK, shm, checker, monitor, outcomes
  <2>5. Mapped'
    BY <1>0, <1>7, Numbers DEF DpKill, DpGone, Silent, Mapped, TypeOK, monitor
  <2>6. QED BY <2>4, <2>5 DEF TypeInv
<1>8. CASE CpStart
  <2>1. Unprobed \in [Backends -> Status]
    BY DEF Unprobed, Status
  <2>2. cseg' \in Segments \cup {0} /\ joined' \in BOOLEAN
    BY <1>0, <1>8 DEF CpStart, TypeOK
  <2>3. wpc[Cp] = "idle"
    BY <1>0, <1>8 DEF CpStart, Mapped
  <2>4. QED BY <1>0, <1>8, <2>1, <2>2, <2>3
    DEF CpStart, TypeInv, TypeOK, Mapped, shm, publishers, dataplane, reader, counters,
        outcomes
<1>9. CASE CpStop
  <2>1. nend' \in 0 .. MaxEnd /\ Unprobed \in [Backends -> Status]
    BY <1>0, <1>9, Numbers DEF CpStop, CpGone, TypeOK, Unprobed, Status
  <2>2. QED BY <1>0, <1>9, <2>1
    DEF CpStop, CpGone, TypeInv, TypeOK, Mapped, shm, publishers, dataplane, reader
<1>10. CASE CpKill
  <2>1. nend' \in 0 .. MaxEnd /\ Unprobed \in [Backends -> Status]
    BY <1>0, <1>10, Numbers DEF CpKill, CpGone, TypeOK, Unprobed, Status
  <2>2. /\ wpc' \in [Writers -> {"idle", "load", "odd", "copy"}]
        /\ start' \in [Writers -> Nat] /\ src' \in [Writers -> SUBSET Backends]
        /\ left' \in [Writers -> SUBSET Backends]
    BY <1>0, <1>10 DEF CpKill, Silent, TypeOK
  <2>3. damaged' \subseteq Segments
    BY <1>0, <1>10, WriterMapped, Numbers DEF CpKill, CutOff, TypeOK
  <2>4. TypeOK'
    BY <1>0, <1>10, <2>1, <2>2, <2>3
    DEF CpKill, CpGone, TypeOK, shm, dataplane, reader
  <2>5. Mapped'
    BY <1>0, <1>10, Numbers DEF CpKill, CpGone, Silent, Mapped, TypeOK, dataplane
  <2>6. QED BY <2>4, <2>5 DEF TypeInv
<1>11. CASE CheckerCopy
  BY <1>0, <1>11
  DEF CheckerCopy, TypeInv, TypeOK, Mapped, shm, publishers, dataplane, reader, monitor,
      counters, history, outcomes
<1>12. ASSUME NEW b \in Backends, Probe(b) PROVE TypeInv'
  <2>1. snapshot' \in [Backends -> Status]
    BY <1>0, <1>12 DEF Probe, TypeOK, Status
  <2>2. /\ states' \in [Backends -> Status] /\ todo' \subseteq Backends
        /\ found' \subseteq Backends /\ rounds' \subseteq SUBSET Backends
    BY <1>0, <1>12, <2>1 DEF Probe, TypeOK
  <2>3. QED BY <1>0, <1>12, <2>1, <2>2
    DEF Probe, TypeInv, TypeOK, Mapped, shm, publishers, dataplane, reader, monitor,
        counters
<1>13. CASE PublishControl
  <2>1. /\ wpc' \in [Writers -> {"idle", "load", "odd", "copy"}]
        /\ src' \in [Writers -> SUBSET Backends]
    BY <1>0, <1>13 DEF PublishControl, TypeOK, Enabled
  <2>2. TypeOK'
    BY <1>0, <1>13, <2>1
    DEF PublishControl, TypeOK, shm, dataplane, reader, checker, monitor, counters,
        history, outcomes
  <2>3. Mapped'
    BY <1>0, <1>13, Numbers DEF PublishControl, Mapped, TypeOK, dataplane, monitor
  <2>4. QED BY <2>2, <2>3 DEF TypeInv
<1>14. ASSUME NEW b \in Flaky, Flip(b) PROVE TypeInv'
  <2>1. b \in Backends /\ nflip' \in 0 .. MaxFlip
    BY <1>0, <1>14, Numbers, ControlAssumption DEF Flip, TypeOK
  <2>2. QED BY <1>0, <1>14, <2>1
    DEF Flip, TypeInv, TypeOK, Mapped, shm, publishers, dataplane, reader, checker,
        monitor, history, outcomes
<1>15. CASE UNCHANGED vars
  BY <1>0, <1>15
  DEF vars, TypeInv, TypeOK, Mapped, shm, publishers, dataplane, reader, checker,
      monitor, counters, history, outcomes
<1>16. QED
  BY <1>1, <1>2, <1>3, <1>4, <1>5, <1>6, <1>7, <1>8, <1>9, <1>10, <1>11, <1>12, <1>13,
     <1>14, <1>15, PublishTypes, Numbers DEF Next, DpRun, CpRun, Poller, ReadControl

LEMMA TypesHold == Spec => []TypeInv
BY TypeInit, TypeStep, PTL DEF Spec

\* Every variable keeps its type through any sequence of starts, stops,
\* kills, probes and publications.
THEOREM ControlTypes == Spec => []TypeOK
BY TypesHold, PTL DEF TypeInv

-----------------------------------------------------------------------------
(* The sequence lock, in the objects that are not damaged.                 *)

Copying(s) == \E p \in Writers : Seg(p) = s /\ wpc[p] = "copy"

\* Nobody meets another publisher.
Exclusive ==
  \A s \in Segments \ damaged :
    \A p, q \in Writers : Inside(p, s) /\ Inside(q, s) => p = q

\* The number and the entries of a publication that is under way.
PublisherOk(p) ==
  Seg(p) \notin damaged =>
    /\ wpc[p] = "odd" => start[p] % 2 = 0 /\ seq[Seg(p)] = start[p]
    /\ wpc[p] = "copy" =>
         /\ start[p] % 2 = 0 /\ seq[Seg(p)] = start[p] + 1
         /\ \A b \in Backends \ left[p] : b \in list[Seg(p)] <=> b \in src[p]

\* The number is even unless entries are being written.
EvenAtRest == \A s \in Segments \ damaged : ~Copying(s) => seq[s] % 2 = 0

\* No publication into the dataplane's object is behind what was applied, and
\* an equal number means an equal list.
AppliedOk ==
  Sound =>
    /\ applied_seq % 2 = 0 /\ applied_seq <= seq[dseg]
    /\ applied_seq = seq[dseg] => pool = list[dseg]

\* The copy is good as far as it goes, if the number has not changed.
CopyOk ==
  dpc = "copy" /\ dseg \notin damaged =>
    /\ seq_before % 2 = 0 /\ seq_before <= seq[dseg] /\ out \cap rtodo = {}
    /\ seq_before = seq[dseg] =>
         \A b \in Backends \ rtodo : b \in out <=> b \in list[dseg]

LockInv ==
  /\ Exclusive
  /\ \A p \in Writers : PublisherOk(p)
  /\ EvenAtRest
  /\ AppliedOk
  /\ CopyOk

LEMMA Parity ==
  ASSUME NEW n \in Nat, n % 2 = 0
  PROVE  (n + 1) % 2 = 1 /\ (n + 2) % 2 = 0
OBVIOUS

\* Nobody else is in the object of a publisher that is not damaged.
LEMMA Alone ==
  ASSUME TypeInv, LockInv, NEW p \in Writers, wpc[p] \in {"odd", "copy"},
         Seg(p) \notin damaged, NEW q \in Writers, q # p,
         wpc[q] \in {"odd", "copy"}
  PROVE  Seg(q) # Seg(p)
BY WriterMapped DEF LockInv, Exclusive, Inside

LEMMA LockLoad ==
  ASSUME TypeInv, LockInv, NEW p \in Writers, LoadSeq(p)
  PROVE  LockInv'
<1>0. /\ Seg(p) \in Segments /\ wpc[p] = "load" /\ p \in DOMAIN wpc
      /\ wpc \in [Writers -> {"idle", "load", "odd", "copy"}]
      /\ start \in [Writers -> Nat] /\ seq \in [Segments -> Nat]
  BY WriterMapped DEF LoadSeq, TypeInv, TypeOK
<1>1. /\ UNCHANGED <<seq, list, src, left, dpc, dseg, seq_before, rtodo, out,
                     applied_seq, pool, cseg>>
      /\ wpc' = [wpc EXCEPT ![p] = "odd"] /\ start' = [start EXCEPT ![p] = seq[Seg(p)]]
      /\ damaged \subseteq damaged'
      /\ Seg(p) \notin damaged' => \A q \in Writers : ~Inside(q, Seg(p))
  BY DEF LoadSeq, shm, dataplane, reader, monitor
<1>2. \A q : Seg(q)' = Seg(q)
  BY <1>1 DEF Seg
<1>3. \A q \in Writers \ {p} : wpc'[q] = wpc[q] /\ start'[q] = start[q]
  BY <1>0, <1>1
<1>4. wpc'[p] = "odd" /\ start'[p] = seq[Seg(p)]
  BY <1>0, <1>1
<1>5. \A s : Copying(s)' <=> Copying(s)
  BY <1>0, <1>2, <1>3, <1>4 DEF Copying
<1>6. Exclusive'
  BY <1>0, <1>1, <1>2, <1>3, <1>4 DEF LockInv, Exclusive, Inside
<1>7. PublisherOk(p)'
  <2> SUFFICES ASSUME Seg(p) \notin damaged'
               PROVE  start'[p] % 2 = 0 /\ seq'[Seg(p)] = start'[p]
    BY <1>2, <1>4 DEF PublisherOk
  <2>1. ~Copying(Seg(p))
    BY <1>1 DEF Copying, Inside
  <2>2. QED BY <1>0, <1>1, <1>4, <2>1 DEF LockInv, EvenAtRest
<1>8. \A q \in Writers \ {p} : PublisherOk(q)'
  BY <1>1, <1>2, <1>3 DEF LockInv, PublisherOk
<1>9. EvenAtRest' /\ AppliedOk' /\ CopyOk'
  BY <1>1, <1>5 DEF LockInv, EvenAtRest, AppliedOk, CopyOk, Sound, Serving
<1>10. QED BY <1>6, <1>7, <1>8, <1>9 DEF LockInv

\* What a store of publisher p leaves alone.
LEMMA LockStore ==
  ASSUME TypeInv, LockInv, NEW p \in Writers, wpc[p] \in {"odd", "copy"},
         NEW n \in Nat, NEW l \in SUBSET Backends, NEW pc \in {"idle", "copy"},
         seq' = [seq EXCEPT ![Seg(p)] = n], list' = [list EXCEPT ![Seg(p)] = l],
         wpc' = [wpc EXCEPT ![p] = pc],
         UNCHANGED <<dseg, cseg, seq_before, rtodo, out, applied_seq, pool, damaged>>,
         \A q \in Writers \ {p} :
           start'[q] = start[q] /\ src'[q] = src[q] /\ left'[q] = left[q],
         dpc' = dpc \/ (p = Dp /\ dpc' = "loop"),
         PublisherOk(p)',
         Seg(p) \notin damaged =>
           /\ pc = "idle" => n % 2 = 0
           /\ n > seq[Seg(p)] \/ (n = seq[Seg(p)] /\ n % 2 = 1)
  PROVE  LockInv'
<1>0. /\ Seg(p) \in Segments /\ seq \in [Segments -> Nat]
      /\ list \in [Segments -> SUBSET Backends] /\ dseg \in Segments \cup {0}
      /\ wpc \in [Writers -> {"idle", "load", "odd", "copy"}]
      /\ applied_seq \in Nat /\ seq_before \in Nat
  BY WriterMapped DEF TypeInv, TypeOK
<1>1. \A q : Seg(q)' = Seg(q)
  BY DEF Seg
<1>2. /\ wpc'[p] = pc
      /\ \A q \in Writers \ {p} : wpc'[q] = wpc[q]
  BY <1>0
<1>3. /\ seq'[Seg(p)] = n /\ list'[Seg(p)] = l
      /\ \A s \in Segments \ {Seg(p)} : seq'[s] = seq[s] /\ list'[s] = list[s]
  BY <1>0
<1>4. Exclusive'
  BY <1>1, <1>2 DEF LockInv, Exclusive, Inside
<1>5. \A q \in Writers \ {p} : PublisherOk(q)'
  <2> SUFFICES ASSUME NEW q \in Writers \ {p}, Seg(q) \notin damaged,
                      wpc[q] \in {"odd", "copy"}
               PROVE  PublisherOk(q)'
    BY <1>1, <1>2 DEF PublisherOk
  <2>1. Seg(q) # Seg(p) /\ Seg(q) \in Segments
    BY Alone, WriterMapped
  <2>2. PublisherOk(q)
    BY DEF LockInv
  <2>3. /\ seq'[Seg(q)] = seq[Seg(q)] /\ list'[Seg(q)] = list[Seg(q)]
        /\ wpc'[q] = wpc[q] /\ Seg(q)' = Seg(q)
        /\ start'[q] = start[q] /\ src'[q] = src[q] /\ left'[q] = left[q]
    BY <1>1, <1>2, <1>3, <2>1
  <2>4. QED BY <2>2, <2>3 DEF PublisherOk
<1>6. EvenAtRest'
  <2> SUFFICES ASSUME NEW s \in Segments \ damaged, ~Copying(s)'
               PROVE  seq'[s] % 2 = 0
    BY DEF EvenAtRest
  <2>1. CASE s = Seg(p)
    <3>1. pc = "idle"
      BY <1>1, <1>2, <2>1 DEF Copying
    <3>2. QED BY <1>3, <2>1, <3>1
  <2>2. CASE s # Seg(p)
    <3>1. ~Copying(s)
      BY <1>1, <1>2, <2>2 DEF Copying
    <3>2. QED BY <1>3, <2>2, <3>1 DEF LockInv, EvenAtRest
  <2>3. QED BY <2>1, <2>2
<1>7. p = Dp => applied_seq = NoSeq /\ dpc' # "copy"
  BY DEF TypeInv, Mapped
<1>8. CASE p = Dp
  BY <1>4, <1>5, <1>6, <1>7, <1>8 DEF LockInv, AppliedOk, CopyOk, Sound, Serving
<1>9. CASE p # Dp
  <2>1. dpc' = dpc
    BY <1>9
  <2>2. CASE dseg # Seg(p)
    <3>1. dseg \in Segments => seq'[dseg] = seq[dseg] /\ list'[dseg] = list[dseg]
      BY <1>3, <2>2
    <3>2. Serving \/ dpc = "copy" => dseg \in Segments
      BY DEF TypeInv, Mapped, Serving
    <3>3. AppliedOk' /\ CopyOk'
      BY <2>1, <3>1, <3>2 DEF LockInv, AppliedOk, CopyOk, Sound, Serving
    <3>4. QED BY <1>4, <1>5, <1>6, <3>3 DEF LockInv
  <2>3. CASE dseg = Seg(p)
    <3>0. seq[dseg] \in Nat /\ seq'[dseg] = n
      BY <1>0, <1>3, <2>3
    <3>1. AppliedOk'
      <4> SUFFICES ASSUME Serving, dseg \notin damaged
                   PROVE  applied_seq % 2 = 0 /\ applied_seq <= n /\ applied_seq # n
        BY <3>0 DEF AppliedOk, Sound, Serving
      <4>1. applied_seq % 2 = 0 /\ applied_seq <= seq[dseg]
        BY DEF LockInv, AppliedOk, Sound
      <4>2. QED BY <1>0, <2>3, <3>0, <4>1
    <3>2. CopyOk'
      <4> SUFFICES ASSUME dpc = "copy", dseg \notin damaged
                   PROVE  /\ seq_before % 2 = 0 /\ seq_before <= n /\ seq_before # n
                          /\ out \cap rtodo = {}
        BY <2>1, <3>0 DEF CopyOk
      <4>1. seq_before % 2 = 0 /\ seq_before <= seq[dseg] /\ out \cap rtodo = {}
        BY DEF LockInv, CopyOk
      <4>2. QED BY <1>0, <2>3, <3>0, <4>1
    <3>3. QED BY <1>4, <1>5, <1>6, <3>1, <3>2 DEF LockInv
  <2>4. QED BY <2>2, <2>3
<1>10. QED BY <1>8, <1>9

\* PublishControl keeps the lock, whichever step it takes.
LEMMA LockPublish ==
  ASSUME TypeInv, LockInv, NEW p \in Writers, Publish(p)
  PROVE  LockInv'
<1>0. /\ seq \in [Segments -> Nat] /\ list \in [Segments -> SUBSET Backends]
      /\ start \in [Writers -> Nat] /\ src \in [Writers -> SUBSET Backends]
      /\ left \in [Writers -> SUBSET Backends]
      /\ wpc \in [Writers -> {"idle", "load", "odd", "copy"}]
  BY DEF TypeInv, TypeOK
<1>1. PublisherOk(p) /\ start[p] \in Nat
  BY <1>0 DEF LockInv
<1>2. CASE StoreOdd(p)
  <2>1. /\ wpc[p] = "odd" /\ wpc' = [wpc EXCEPT ![p] = "copy"]
        /\ seq' = [seq EXCEPT ![Seg(p)] = start[p] + 1] /\ list' = list
        /\ left' = [left EXCEPT ![p] = Backends] /\ start' = start /\ src' = src
        /\ UNCHANGED <<dseg, cseg, seq_before, rtodo, out, applied_seq, pool, damaged,
                       dpc>>
    BY <1>2 DEF StoreOdd, dataplane, reader, monitor, history
  <2>2. Seg(p) \in Segments /\ Seg(p)' = Seg(p)
    BY <2>1, WriterMapped DEF Seg
  <2>3. list[Seg(p)] \in SUBSET Backends /\ list' = [list EXCEPT ![Seg(p)] = list[Seg(p)]]
    BY <1>0, <2>1, <2>2
  <2>4. \A q \in Writers \ {p} :
           start'[q] = start[q] /\ src'[q] = src[q] /\ left'[q] = left[q]
    BY <1>0, <2>1
  <2>5. wpc'[p] = "copy" /\ seq'[Seg(p)] = start[p] + 1 /\ left'[p] = Backends
    BY <1>0, <2>1, <2>2
  <2>6. PublisherOk(p)'
    BY <1>1, <2>1, <2>2, <2>5 DEF PublisherOk
  <2>7. Seg(p) \notin damaged => start[p] + 1 > seq[Seg(p)]
    BY <1>1, <2>1 DEF PublisherOk
  <2>8. start[p] + 1 \in Nat
    BY <1>1
  <2>9. QED BY <2>1, <2>3, <2>4, <2>6, <2>7, <2>8, LockStore
<1>3. CASE StoreEven(p)
  <2>1. /\ wpc[p] = "copy" /\ left[p] = {} /\ wpc' = [wpc EXCEPT ![p] = "idle"]
        /\ seq' = [seq EXCEPT ![Seg(p)] = start[p] + 2] /\ list' = list
        /\ start' = [start EXCEPT ![p] = 0] /\ src' = [src EXCEPT ![p] = {}]
        /\ left' = left
        /\ UNCHANGED <<dseg, cseg, seq_before, rtodo, out, applied_seq, pool, damaged>>
        /\ dpc' = dpc \/ (p = Dp /\ dpc' = "loop")
    BY <1>3 DEF StoreEven, reader, history
  <2>2. Seg(p) \in Segments /\ Seg(p)' = Seg(p)
    BY <2>1, WriterMapped DEF Seg
  <2>3. list[Seg(p)] \in SUBSET Backends /\ list' = [list EXCEPT ![Seg(p)] = list[Seg(p)]]
    BY <1>0, <2>1, <2>2
  <2>4. \A q \in Writers \ {p} :
           start'[q] = start[q] /\ src'[q] = src[q] /\ left'[q] = left[q]
    BY <1>0, <2>1
  <2>5. PublisherOk(p)'
    BY <1>0, <2>1 DEF PublisherOk
  <2>6. /\ Seg(p) \notin damaged => (start[p] + 2) % 2 = 0
        /\ Seg(p) \notin damaged => start[p] + 2 > seq[Seg(p)]
    BY <1>1, <2>1, Parity DEF PublisherOk
  <2>7. start[p] + 2 \in Nat
    BY <1>1
  <2>8. QED BY <2>1, <2>3, <2>4, <2>5, <2>6, <2>7, LockStore
<1>4. ASSUME NEW b \in Backends, StoreEntry(p, b) PROVE LockInv'
  <2> DEFINE l == IF b \in src[p] THEN list[Seg(p)] \cup {b} ELSE list[Seg(p)] \ {b}
  <2>1. /\ wpc[p] = "copy" /\ b \in left[p] /\ wpc' = wpc /\ seq' = seq
        /\ list' = [list EXCEPT ![Seg(p)] = l]
        /\ left' = [left EXCEPT ![p] = left[p] \ {b}] /\ start' = start /\ src' = src
        /\ UNCHANGED <<dseg, cseg, seq_before, rtodo, out, applied_seq, pool, damaged,
                       dpc>>
    BY <1>4 DEF StoreEntry, dataplane, reader, monitor, history
  <2>2. Seg(p) \in Segments /\ Seg(p)' = Seg(p)
    BY <2>1, WriterMapped DEF Seg
  <2>3. /\ l \in SUBSET Backends
        /\ seq[Seg(p)] \in Nat /\ seq' = [seq EXCEPT ![Seg(p)] = seq[Seg(p)]]
        /\ wpc' = [wpc EXCEPT ![p] = "copy"]
    BY <1>0, <2>1, <2>2
  <2>4. \A q \in Writers \ {p} :
           start'[q] = start[q] /\ src'[q] = src[q] /\ left'[q] = left[q]
    BY <1>0, <2>1
  <2>5. PublisherOk(p)'
    <3>1. list'[Seg(p)] = l /\ left'[p] = left[p] \ {b}
      BY <1>0, <2>1, <2>2
    <3>2. ASSUME Seg(p) \notin damaged
          PROVE  \A c \in Backends \ (left[p] \ {b}) : c \in l <=> c \in src[p]
      BY <1>1, <2>1, <3>2 DEF PublisherOk
    <3>3. QED BY <1>1, <2>1, <2>2, <3>1, <3>2 DEF PublisherOk
  <2>6. Seg(p) \notin damaged => seq[Seg(p)] % 2 = 1
    BY <1>1, <2>1, Parity DEF PublisherOk
  <2> HIDE DEF l
  <2>7. QED BY <2>1, <2>3, <2>4, <2>5, <2>6, LockStore
<1>5. QED BY <1>2, <1>3, <1>4, LockLoad DEF Publish

\* A publisher that is stopped or killed takes its hands off; one that was in
\* the middle has damaged its object.
LEMMA LockGone ==
  ASSUME TypeInv, LockInv, NEW p \in Writers,
         Silent(p), damaged' = CutOff(p), seq' = seq, list' = list,
         \A q \in Writers \ {p} : Seg(q)' = Seg(q),
         AppliedOk', CopyOk'
  PROVE  LockInv'
<1>0. /\ wpc \in [Writers -> {"idle", "load", "odd", "copy"}]
      /\ start \in [Writers -> Nat] /\ src \in [Writers -> SUBSET Backends]
      /\ left \in [Writers -> SUBSET Backends]
  BY DEF TypeInv, TypeOK
<1>1. /\ wpc'[p] = "idle"
      /\ \A q \in Writers \ {p} :
           /\ wpc'[q] = wpc[q] /\ start'[q] = start[q] /\ src'[q] = src[q]
           /\ left'[q] = left[q]
  BY <1>0 DEF Silent
<1>2. damaged \subseteq damaged' /\ (wpc[p] = "copy" => Seg(p) \in damaged')
  BY DEF CutOff
<1>3. Exclusive'
  BY <1>1, <1>2 DEF LockInv, Exclusive, Inside
<1>4. \A q \in Writers : PublisherOk(q)'
  BY <1>1, <1>2 DEF LockInv, PublisherOk
<1>5. EvenAtRest'
  BY <1>1, <1>2 DEF LockInv, EvenAtRest, Copying
<1>6. QED BY <1>3, <1>4, <1>5 DEF LockInv

\* The lock does not notice who starts with nothing to publish.
LEMMA LockStart ==
  ASSUME TypeInv, LockInv, NEW p \in Writers, wpc[p] = "idle",
         wpc' = wpc \/ wpc' = [wpc EXCEPT ![p] = "load"],
         UNCHANGED <<seq, list, start, left, damaged>>,
         \A q \in Writers \ {p} : Seg(q)' = Seg(q) /\ src'[q] = src[q],
         AppliedOk', CopyOk'
  PROVE  LockInv'
<1>1. /\ wpc'[p] \in {"idle", "load"}
      /\ \A q \in Writers \ {p} : wpc'[q] = wpc[q]
  BY DEF TypeInv, TypeOK
<1>2. Exclusive'
  BY <1>1 DEF LockInv, Exclusive, Inside
<1>3. \A q \in Writers : PublisherOk(q)'
  BY <1>1 DEF LockInv, PublisherOk
<1>4. EvenAtRest'
  BY <1>1 DEF LockInv, EvenAtRest, Copying
<1>5. QED BY <1>2, <1>3, <1>4 DEF LockInv

LEMMA LockStep == TypeInv /\ LockInv /\ [Next]_vars => LockInv'
<1> SUFFICES ASSUME TypeInv, LockInv, [Next]_vars PROVE LockInv'
  OBVIOUS
<1>0. /\ TypeOK /\ Mapped
      /\ Exclusive /\ EvenAtRest /\ AppliedOk /\ CopyOk
      /\ \A p \in Writers : PublisherOk(p)
  BY DEF LockInv, TypeInv
<1>1. CASE DpCreate \/ DpHeader
  <2>1. /\ dpc' \in {"created", "seed"} /\ applied_seq' = applied_seq
        /\ wpc' = wpc \/ wpc' = [wpc EXCEPT ![Dp] = "load"]
        /\ UNCHANGED <<seq, list, start, left, damaged, cseg>>
        /\ src' = src \/ src' = [src EXCEPT ![Dp] = Backends]
        /\ dpc \in {"down", "created"}
    BY <1>1 DEF DpCreate, DpHeader, publishers, monitor, history
  <2>2. wpc[Dp] = "idle" /\ applied_seq = NoSeq
    BY <1>0, <2>1 DEF Mapped
  <2>3. AppliedOk' /\ CopyOk'
    BY <2>1, <2>2 DEF AppliedOk, CopyOk, Sound, Serving
  <2>4. \A q \in Writers \ {Dp} : Seg(q)' = Seg(q) /\ src'[q] = src[q]
    BY <1>0, <2>1 DEF Seg, TypeOK
  <2>5. QED BY <2>1, <2>2, <2>3, <2>4, Numbers, LockStart
<1>2. CASE ReadSeq
  <2>1. /\ UNCHANGED <<seq, list, wpc, start, src, left, dseg, cseg, applied_seq, pool,
                       damaged>>
        /\ seq_before' = seq[dseg] /\ rtodo' = Backends /\ out' = {} /\ seq[dseg] % 2 = 0
        /\ dseg \in Segments
    BY <1>0, <1>2 DEF ReadSeq, shm, publishers, monitor, history, Mapped
  <2>2. seq[dseg] \in Nat
    BY <1>0, <2>1 DEF TypeOK
  <2>3. CopyOk'
    BY <2>1, <2>2 DEF CopyOk
  <2>4. QED BY <1>0, <2>1, <2>3
    DEF LockInv, Exclusive, EvenAtRest, AppliedOk, PublisherOk, Inside, Copying, Seg,
        Sound, Serving
<1>3. ASSUME NEW b \in Backends, ReadEntry(b) PROVE LockInv'
  <2>1. /\ UNCHANGED <<seq, list, wpc, start, src, left, dseg, cseg, applied_seq, pool,
                       damaged, seq_before, dpc>>
        /\ b \in rtodo /\ rtodo' = rtodo \ {b}
        /\ out' = IF b \in list[dseg] THEN out \cup {b} ELSE out
        /\ dpc = "copy"
    BY <1>3 DEF ReadEntry, shm, publishers, monitor, history
  <2>2. CopyOk'
    <3> SUFFICES ASSUME dseg \notin damaged
                 PROVE  /\ seq_before % 2 = 0 /\ seq_before <= seq[dseg]
                        /\ out' \cap rtodo' = {}
                        /\ seq_before = seq[dseg] =>
                             \A c \in Backends \ rtodo' : c \in out' <=> c \in list[dseg]
      BY <2>1 DEF CopyOk
    <3>1. /\ seq_before % 2 = 0 /\ seq_before <= seq[dseg] /\ out \cap rtodo = {}
          /\ seq_before = seq[dseg] =>
               \A c \in Backends \ rtodo : c \in out <=> c \in list[dseg]
      BY <1>0, <2>1 DEF CopyOk
    <3>2. QED BY <2>1, <3>1
  <2>3. QED BY <1>0, <2>1, <2>2
    DEF LockInv, Exclusive, EvenAtRest, AppliedOk, PublisherOk, Inside, Copying, Seg,
        Sound, Serving
<1>4. CASE CheckSeq
  <2>1. /\ UNCHANGED <<seq, list, wpc, start, src, left, dseg, cseg, damaged>>
        /\ dpc = "copy" /\ dpc' = "loop" /\ rtodo = {} /\ dseg \in Segments
    BY <1>0, <1>4 DEF CheckSeq, shm, publishers, monitor, history, Mapped
  <2>2. CopyOk'
    BY <2>1 DEF CopyOk
  <2>3. AppliedOk'
    <3>1. CASE seq[dseg] = seq_before
      <4>1. applied_seq' = seq_before /\ pool' = out
        BY <1>4, <3>1 DEF CheckSeq
      <4>2. dseg \notin damaged => seq_before % 2 = 0 /\ out = list[dseg]
        BY <1>0, <2>1, <3>1 DEF CopyOk, TypeOK
      <4>3. seq[dseg] \in Nat
        BY <1>0, <2>1 DEF TypeOK
      <4>4. QED BY <2>1, <3>1, <4>1, <4>2, <4>3 DEF AppliedOk, Sound
    <3>2. CASE seq[dseg] # seq_before
      BY <1>0, <1>4, <2>1, <3>2 DEF CheckSeq, AppliedOk, Sound, Serving
    <3>3. QED BY <3>1, <3>2
  <2>4. QED BY <1>0, <2>1, <2>2, <2>3
    DEF LockInv, Exclusive, EvenAtRest, PublisherOk, Inside, Copying, Seg
<1>5. CASE DpStop
  <2>1. /\ UNCHANGED <<seq, list, wpc, start, src, left, damaged, cseg>>
        /\ dpc' = "down" /\ applied_seq' = NoSeq /\ dpc = "loop"
    BY <1>5 DEF DpStop, DpGone, publishers, monitor
  <2>2. wpc[Dp] = "idle" /\ \A q \in Writers \ {Dp} : Seg(q)' = Seg(q) /\ src'[q] = src[q]
    BY <1>0, <2>1 DEF Mapped, Seg
  <2>3. AppliedOk' /\ CopyOk'
    BY <2>1 DEF AppliedOk, CopyOk, Sound, Serving
  <2>4. QED BY <2>1, <2>2, <2>3, Numbers, LockStart
<1>6. CASE DpKill
  <2>1. /\ Silent(Dp) /\ damaged' = CutOff(Dp) /\ seq' = seq /\ list' = list
        /\ cseg' = cseg /\ dpc' = "down" /\ applied_seq' = NoSeq
    BY <1>6 DEF DpKill, DpGone, shm, monitor
  <2>2. \A q \in Writers \ {Dp} : Seg(q)' = Seg(q)
    BY <2>1 DEF Seg
  <2>3. AppliedOk' /\ CopyOk'
    BY <2>1 DEF AppliedOk, CopyOk, Sound, Serving
  <2>4. QED BY <2>1, <2>2, <2>3, Numbers, LockGone
<1>7. CASE CpStart \/ CpStop
  <2>1. /\ UNCHANGED <<seq, list, wpc, start, src, left, damaged, dseg, dpc, seq_before,
                       rtodo, out, applied_seq, pool>>
        /\ wpc[Cp] = "idle"
    BY <1>0, <1>7
    DEF CpStart, CpStop, CpGone, Mapped, shm, publishers, dataplane, reader
  <2>2. \A q \in Writers \ {Cp} : Seg(q)' = Seg(q) /\ src'[q] = src[q]
    BY <2>1, Numbers DEF Seg
  <2>3. AppliedOk' /\ CopyOk'
    BY <1>0, <2>1 DEF AppliedOk, CopyOk, Sound, Serving
  <2>4. QED BY <2>1, <2>2, <2>3, Numbers, LockStart
<1>8. CASE CpKill
  <2>1. /\ Silent(Cp) /\ damaged' = CutOff(Cp) /\ seq' = seq /\ list' = list
        /\ UNCHANGED <<dseg, dpc, seq_before, rtodo, out, applied_seq, pool>>
    BY <1>8 DEF CpKill, CpGone, shm, dataplane, reader
  <2>2. \A q \in Writers \ {Cp} : Seg(q)' = Seg(q)
    BY <2>1, Numbers DEF Seg
  <2>3. AppliedOk' /\ CopyOk'
    BY <1>0, <2>1 DEF AppliedOk, CopyOk, Sound, Serving, CutOff
  <2>4. QED BY <2>1, <2>2, <2>3, Numbers, LockGone
<1>9. CASE PublishControl
  <2>1. /\ UNCHANGED <<seq, list, start, left, damaged, dseg, cseg, dpc, seq_before,
                       rtodo, out, applied_seq, pool>>
        /\ wpc[Cp] = "idle" /\ wpc' = [wpc EXCEPT ![Cp] = "load"]
        /\ src' = [src EXCEPT ![Cp] = Enabled(states)]
    BY <1>9 DEF PublishControl, shm, dataplane, reader, monitor, history
  <2>2. \A q \in Writers \ {Cp} : Seg(q)' = Seg(q) /\ src'[q] = src[q]
    BY <1>0, <2>1 DEF Seg, TypeOK
  <2>3. AppliedOk' /\ CopyOk'
    BY <1>0, <2>1 DEF AppliedOk, CopyOk, Sound, Serving
  <2>4. QED BY <2>1, <2>2, <2>3, Numbers, LockStart
<1>10. CASE \/ CheckerCopy \/ UNCHANGED vars
            \/ \E b \in Backends : Probe(b)
            \/ \E b \in Flaky : Flip(b)
  <2>1. UNCHANGED <<seq, list, wpc, start, src, left, dseg, cseg, applied_seq, pool,
                    damaged, seq_before, rtodo, out, dpc>>
    BY <1>10
    DEF CheckerCopy, Probe, Flip, vars, shm, publishers, dataplane, reader, monitor,
        history
  <2>2. QED BY <1>0, <2>1
    DEF LockInv, Exclusive, EvenAtRest, AppliedOk, CopyOk, PublisherOk, Inside, Copying,
        Seg, Sound, Serving
<1>11. QED
  BY <1>1, <1>2, <1>3, <1>4, <1>5, <1>6, <1>7, <1>8, <1>9, <1>10, LockPublish, Numbers
  DEF Next, DpRun, CpRun, Poller, ReadControl

LEMMA LockInit == Init => LockInv
<1> SUFFICES ASSUME Init PROVE LockInv
  OBVIOUS
<1>1. \A p \in Writers : wpc[p] = "idle"
  BY DEF Init
<1>2. \A s \in Segments : seq[s] = 0
  BY DEF Init
<1>3. Exclusive /\ EvenAtRest
  BY <1>1, <1>2 DEF Exclusive, EvenAtRest, Inside
<1>4. \A p \in Writers : PublisherOk(p)
  BY <1>1 DEF PublisherOk
<1>5. AppliedOk /\ CopyOk
  BY DEF Init, AppliedOk, CopyOk, Sound, Serving
<1>6. QED BY <1>3, <1>4, <1>5 DEF LockInv

LEMMA LockHolds == Spec => []LockInv
BY LockInit, LockStep, TypesHold, PTL DEF Spec

\* However often both planes were restarted on old or new objects, and however
\* the accesses of publishers and control loop interleave: when the control
\* loop finds the number it knows in an object that is not damaged, the
\* workers' pool is the list that the object holds.
THEOREM AppliedCurrent == Spec => []AppliedIsCurrent
<1>1. LockInv => AppliedIsCurrent
  BY DEF LockInv, AppliedOk, AppliedIsCurrent
<1>2. QED BY <1>1, LockHolds, PTL

-----------------------------------------------------------------------------
(* Where the list comes from.                                              *)

\* A list of enabled backends that is a seed, a blackout or a whole round.
Honest(l) == l \in {Backends, {}} \cup rounds

\* The copy of states_ holds what this round has found so far.
SnapshotInv ==
  /\ found \cap todo = {} /\ (todo = {} => found = {})
  /\ todo # {} => \A b \in Backends \ todo : snapshot[b] = "kUp" <=> b \in found

\* states_ is replaced as a whole.
StatesInv == Honest(Enabled(states))

\* What is being published, what lies in an object at rest, what was applied.
SourcesInv == \A p \in Writers : wpc[p] # "idle" => Honest(src[p])
ListsInv == \A s \in Segments \ damaged : ~Copying(s) => Honest(list[s])
PoolInv == Sound => Honest(pool)

HonestInv == SnapshotInv /\ StatesInv /\ SourcesInv /\ ListsInv /\ PoolInv

\* The stores of a publication: its list is in the object when it ends.
LEMMA HonestPublish ==
  ASSUME TypeInv, LockInv, HonestInv, NEW p \in Writers, Publish(p)
  PROVE  HonestInv'
<1>0. /\ list \in [Segments -> SUBSET Backends] /\ src \in [Writers -> SUBSET Backends]
      /\ wpc \in [Writers -> {"idle", "load", "odd", "copy"}]
      /\ SnapshotInv /\ StatesInv /\ SourcesInv /\ ListsInv /\ PoolInv
  BY DEF TypeInv, TypeOK, HonestInv
<1>1. /\ UNCHANGED <<states, snapshot, todo, found, rounds, dseg, cseg, applied_seq, pool>>
      /\ damaged \subseteq damaged'
      /\ wpc[p] # "idle" /\ \A q \in Writers \ {p} : wpc'[q] = wpc[q]
      /\ \A q \in Writers : src'[q] = src[q] \/ wpc'[q] = "idle"
  BY <1>0
  DEF Publish, LoadSeq, StoreOdd, StoreEven, StoreEntry, dataplane, checker, monitor,
      history, outcomes
<1>2. SnapshotInv' /\ StatesInv' /\ PoolInv'
  BY <1>0, <1>1 DEF SnapshotInv, StatesInv, PoolInv, Honest, Enabled, Sound, Serving
<1>3. SourcesInv'
  BY <1>0, <1>1 DEF SourcesInv, Honest
<1>4. Seg(p) \in Segments /\ \A q : Seg(q)' = Seg(q)
  BY <1>1, WriterMapped DEF Seg
<1>5. ListsInv'
  <2> SUFFICES ASSUME NEW s \in Segments \ damaged', ~Copying(s)'
               PROVE  Honest(list'[s])
    BY <1>1 DEF ListsInv, Honest
  <2>1. CASE s # Seg(p)
    <3>1. list'[s] = list[s]
      BY <1>0, <1>4, <2>1 DEF Publish, LoadSeq, StoreOdd, StoreEven, StoreEntry, shm
    <3>2. ~Copying(s)
      BY <1>1, <1>4, <2>1 DEF Copying
    <3>3. QED BY <1>0, <1>1, <3>1, <3>2 DEF ListsInv
  <2>2. CASE s = Seg(p) /\ LoadSeq(p)
    <3>1. list'[s] = list[s] /\ ~Copying(s)
      BY <1>0, <1>1, <1>4, <2>2 DEF LoadSeq, shm, Copying
    <3>2. QED BY <1>0, <1>1, <3>1 DEF ListsInv
  <2>3. CASE s = Seg(p) /\ StoreEven(p)
    <3>1. list'[s] = list[s] /\ wpc[p] = "copy" /\ left[p] = {} /\ Honest(src[p])
      BY <1>0, <2>3 DEF StoreEven, SourcesInv
    <3>2. \A b \in Backends : b \in list[s] <=> b \in src[p]
      BY <1>1, <2>3, <3>1 DEF LockInv, PublisherOk
    <3>3. list[s] = src[p]
      BY <1>0, <3>2
    <3>4. QED BY <3>1, <3>3
  <2>4. CASE s = Seg(p) /\ (StoreOdd(p) \/ \E b \in Backends : StoreEntry(p, b))
    <3>1. wpc'[p] = "copy"
      BY <1>0, <2>4 DEF StoreOdd, StoreEntry
    <3>2. QED BY <1>4, <2>4, <3>1 DEF Copying
  <2>5. QED BY <2>1, <2>2, <2>3, <2>4 DEF Publish
<1>6. QED BY <1>2, <1>3, <1>5 DEF HonestInv

LEMMA HonestStep == TypeInv /\ LockInv /\ HonestInv /\ [Next]_vars => HonestInv'
<1> SUFFICES ASSUME TypeInv, LockInv, HonestInv, [Next]_vars PROVE HonestInv'
  OBVIOUS
<1>0. /\ TypeOK /\ Mapped
      /\ SnapshotInv /\ StatesInv /\ SourcesInv /\ ListsInv /\ PoolInv
      /\ wpc \in [Writers -> {"idle", "load", "odd", "copy"}]
      /\ src \in [Writers -> SUBSET Backends]
      /\ states \in [Backends -> Status] /\ snapshot \in [Backends -> Status]
  BY DEF HonestInv, TypeInv, TypeOK
<1>1. CASE DpCreate \/ DpHeader
  <2>1. /\ UNCHANGED <<list, states, snapshot, todo, found, rounds, damaged, cseg,
                       applied_seq>>
        /\ \/ wpc' = wpc /\ src' = src
           \/ /\ wpc' = [wpc EXCEPT ![Dp] = "load"]
              /\ src' = [src EXCEPT ![Dp] = Backends]
        /\ dpc \in {"down", "created"}
    BY <1>0, <1>1, Numbers
    DEF DpCreate, DpHeader, publishers, checker, monitor, history, outcomes
  <2>2. wpc[Dp] = "idle" /\ applied_seq = NoSeq
    BY <1>0, <2>1 DEF Mapped
  <2>3. SnapshotInv' /\ StatesInv' /\ PoolInv'
    BY <1>0, <2>1, <2>2
    DEF SnapshotInv, StatesInv, PoolInv, Honest, Enabled, Sound, Serving
  <2>4. SourcesInv'
    BY <1>0, <2>1, <2>2, Numbers DEF SourcesInv, Honest
  <2>5. \A s : Copying(s)' <=> Copying(s)
    <3>1. /\ wpc'[Dp] # "copy" /\ wpc[Dp] # "copy" /\ wpc'[Cp] = wpc[Cp]
          /\ Seg(Cp)' = Seg(Cp)
      BY <1>0, <2>1, <2>2, Numbers DEF Seg
    <3>2. QED BY <3>1, Numbers DEF Copying
  <2>6. ListsInv'
    BY <1>0, <2>1, <2>5 DEF ListsInv, Honest
  <2>7. QED BY <2>3, <2>4, <2>6 DEF HonestInv
<1>2. CASE ReadSeq \/ \E b \in Backends : ReadEntry(b)
  <2>1. UNCHANGED <<list, states, snapshot, todo, found, rounds, damaged, cseg, dseg,
                    applied_seq, pool, wpc, src>>
    BY <1>2
    DEF ReadSeq, ReadEntry, shm, publishers, checker, monitor, history, outcomes
  <2>2. QED BY <1>0, <2>1
    DEF HonestInv, SnapshotInv, StatesInv, SourcesInv, ListsInv, PoolInv, Honest, Enabled,
        Copying, Seg, Sound, Serving
<1>3. CASE CheckSeq
  <2>1. /\ UNCHANGED <<list, states, snapshot, todo, found, rounds, damaged, cseg, dseg,
                       wpc, src>>
        /\ dpc = "copy" /\ rtodo = {} /\ dseg \in Segments
    BY <1>0, <1>3
    DEF CheckSeq, shm, publishers, checker, monitor, history, outcomes, Mapped
  <2>2. PoolInv'
    <3>1. CASE seq[dseg] = seq_before /\ dseg \notin damaged
      <4>1. pool' = out
        BY <1>3, <3>1 DEF CheckSeq
      <4>2. seq[dseg] % 2 = 0 /\ out = list[dseg]
        BY <1>0, <2>1, <3>1 DEF LockInv, CopyOk, TypeOK
      <4>3. ~Copying(dseg)
        <5> SUFFICES ASSUME NEW p \in Writers, Seg(p) = dseg, wpc[p] = "copy"
                     PROVE  FALSE
          BY DEF Copying
        <5>1. start[p] \in Nat /\ start[p] % 2 = 0 /\ seq[dseg] = start[p] + 1
          BY <1>0, <3>1 DEF LockInv, PublisherOk, TypeOK
        <5>2. QED BY <4>2, <5>1, Parity
      <4>4. QED BY <1>0, <2>1, <3>1, <4>1, <4>2, <4>3 DEF ListsInv, PoolInv, Honest
    <3>2. CASE seq[dseg] # seq_before
      BY <1>0, <1>3, <2>1, <3>2 DEF CheckSeq, PoolInv, Honest, Sound, Serving
    <3>3. CASE dseg \in damaged
      BY <2>1, <3>3 DEF PoolInv, Sound
    <3>4. QED BY <3>1, <3>2, <3>3
  <2>3. QED BY <1>0, <2>1, <2>2
    DEF HonestInv, SnapshotInv, StatesInv, SourcesInv, ListsInv, Honest, Enabled, Copying,
        Seg
<1>4. CASE DpStop
  <2>1. /\ UNCHANGED <<list, states, snapshot, todo, found, rounds, damaged, cseg, wpc,
                       src>>
        /\ applied_seq' = NoSeq /\ wpc[Dp] = "idle"
    BY <1>0, <1>4 DEF DpStop, DpGone, publishers, checker, monitor, outcomes, Mapped
  <2>2. \A s : Copying(s)' <=> Copying(s)
    <3>1. Seg(Cp)' = Seg(Cp)
      BY <2>1, Numbers DEF Seg
    <3>2. QED BY <2>1, <3>1, Numbers DEF Copying
  <2>3. QED BY <1>0, <2>1, <2>2
    DEF HonestInv, SnapshotInv, StatesInv, SourcesInv, ListsInv, PoolInv, Honest, Enabled,
        Sound, Serving
<1>5. CASE DpKill
  <2>1. /\ UNCHANGED <<list, states, snapshot, todo, found, rounds, cseg>>
        /\ applied_seq' = NoSeq /\ Silent(Dp) /\ damaged' = CutOff(Dp)
    BY <1>5 DEF DpKill, DpGone, shm, checker, monitor, outcomes
  <2>2. /\ wpc'[Dp] = "idle" /\ wpc'[Cp] = wpc[Cp] /\ src'[Cp] = src[Cp]
        /\ Seg(Cp)' = Seg(Cp)
    BY <1>0, <2>1, Numbers DEF Silent, Seg
  <2>3. /\ damaged \subseteq damaged'
        /\ \A s : s \notin damaged' /\ ~Copying(s)' => ~Copying(s)
    BY <2>1, <2>2, Numbers DEF Copying, CutOff
  <2>4. ListsInv'
    BY <1>0, <2>1, <2>3 DEF ListsInv, Honest
  <2>5. SourcesInv'
    BY <1>0, <2>1, <2>2, Numbers DEF SourcesInv, Honest
  <2>6. QED BY <1>0, <2>1, <2>4, <2>5
    DEF HonestInv, SnapshotInv, StatesInv, PoolInv, Honest, Enabled, Sound, Serving
<1>6. CASE CpStart \/ CpStop
  <2>1. /\ UNCHANGED <<list, rounds, damaged, dseg, applied_seq, pool, wpc, src>>
        /\ states' = Unprobed /\ wpc[Cp] = "idle"
        /\ (todo' = {} /\ found' = {}) \/ UNCHANGED <<todo, found, snapshot>>
    BY <1>0, <1>6
    DEF CpStart, CpStop, CpGone, shm, publishers, dataplane, history, outcomes, Mapped
  <2>2. \A s : Copying(s)' <=> Copying(s)
    <3>1. Seg(Dp)' = Seg(Dp)
      BY <2>1 DEF Seg
    <3>2. QED BY <2>1, <3>1, Numbers DEF Copying
  <2>3. StatesInv'
    BY <2>1 DEF StatesInv, Honest, Enabled, Unprobed
  <2>4. QED BY <1>0, <2>1, <2>2, <2>3
    DEF HonestInv, SnapshotInv, SourcesInv, ListsInv, PoolInv, Honest, Sound, Serving
<1>7. CASE CpKill
  <2>1. /\ UNCHANGED <<list, rounds, dseg, applied_seq, pool>>
        /\ states' = Unprobed /\ todo' = {} /\ found' = {}
        /\ Silent(Cp) /\ damaged' = CutOff(Cp)
    BY <1>7 DEF CpKill, CpGone, shm, dataplane
  <2>2. /\ wpc'[Cp] = "idle" /\ wpc'[Dp] = wpc[Dp] /\ src'[Dp] = src[Dp]
        /\ Seg(Dp)' = Seg(Dp)
    BY <1>0, <2>1, Numbers DEF Silent, Seg
  <2>3. /\ damaged \subseteq damaged'
        /\ \A s : s \notin damaged' /\ ~Copying(s)' => ~Copying(s)
    BY <2>1, <2>2, Numbers DEF Copying, CutOff
  <2>4. ListsInv' /\ PoolInv'
    BY <1>0, <2>1, <2>3 DEF ListsInv, PoolInv, Honest, Sound, Serving
  <2>5. SourcesInv'
    BY <1>0, <2>1, <2>2, Numbers DEF SourcesInv, Honest
  <2>6. StatesInv' /\ SnapshotInv'
    BY <2>1 DEF StatesInv, SnapshotInv, Honest, Enabled, Unprobed
  <2>7. QED BY <2>4, <2>5, <2>6 DEF HonestInv
<1>8. CASE CheckerCopy \/ \E b \in Backends : Probe(b)
  <2>1. /\ UNCHANGED <<list, damaged, dseg, cseg, applied_seq, pool, wpc, src>>
        /\ rounds \subseteq rounds'
    BY <1>8
    DEF CheckerCopy, Probe, shm, publishers, dataplane, monitor, history, outcomes
  <2>2. SourcesInv' /\ ListsInv' /\ PoolInv'
    BY <1>0, <2>1
    DEF SourcesInv, ListsInv, PoolInv, Honest, Copying, Seg, Sound, Serving
  <2>3. CASE CheckerCopy
    <3>1. /\ todo' = Backends /\ snapshot' = states
          /\ UNCHANGED <<states, found, rounds>> /\ todo = {}
      BY <2>3 DEF CheckerCopy, history, outcomes
    <3>2. QED BY <1>0, <2>2, <3>1
      DEF HonestInv, SnapshotInv, StatesInv, Honest, Enabled
  <2>4. ASSUME NEW b \in Backends, Probe(b) PROVE SnapshotInv' /\ StatesInv'
    <3> DEFINE up == IF b \in reachable THEN found \cup {b} ELSE found
    <3>1. /\ b \in todo /\ todo' = todo \ {b}
          /\ found' = IF todo' = {} THEN {} ELSE up
          /\ rounds' = IF todo' = {} THEN rounds \cup {up} ELSE rounds
          /\ states' = IF todo' = {} THEN snapshot' ELSE states
      BY <2>4 DEF Probe
    <3>2. /\ snapshot'[b] = "kUp" <=> b \in reachable
          /\ \A c \in Backends \ {b} : snapshot'[c] = snapshot[c]
      BY <1>0, <2>4 DEF Probe
    <3>3. \A c \in Backends \ todo' : snapshot'[c] = "kUp" <=> c \in up
      BY <1>0, <3>1, <3>2 DEF SnapshotInv
    <3>4. SnapshotInv'
      BY <1>0, <3>1, <3>3 DEF SnapshotInv
    <3>5. CASE todo' = {}
      <4>1. Enabled(states)' = up
        BY <1>0, <3>1, <3>3, <3>5 DEF Enabled, TypeOK
      <4>2. QED BY <3>1, <3>4, <3>5, <4>1 DEF StatesInv, Honest
    <3>6. CASE todo' # {}
      BY <1>0, <3>1, <3>4, <3>6 DEF StatesInv, Honest, Enabled
    <3>7. QED BY <3>5, <3>6
  <2>5. QED BY <1>8, <2>2, <2>3, <2>4 DEF HonestInv
<1>9. CASE PublishControl
  <2>1. /\ UNCHANGED <<list, states, snapshot, todo, found, rounds, damaged, dseg, cseg,
                       applied_seq, pool>>
        /\ wpc[Cp] = "idle" /\ wpc' = [wpc EXCEPT ![Cp] = "load"]
        /\ src' = [src EXCEPT ![Cp] = Enabled(states)]
    BY <1>9 DEF PublishControl, shm, dataplane, checker, monitor, history, outcomes
  <2>2. /\ wpc'[Cp] = "load" /\ src'[Cp] = Enabled(states)
        /\ wpc'[Dp] = wpc[Dp] /\ src'[Dp] = src[Dp]
    BY <1>0, <2>1, Numbers
  <2>3. SourcesInv'
    BY <1>0, <2>1, <2>2, Numbers DEF SourcesInv, StatesInv, Honest
  <2>4. \A s : Copying(s)' <=> Copying(s)
    BY <2>1, <2>2, Numbers DEF Copying, Seg
  <2>5. QED BY <1>0, <2>1, <2>3, <2>4
    DEF HonestInv, SnapshotInv, StatesInv, ListsInv, PoolInv, Honest, Enabled, Sound,
        Serving
<1>10. CASE UNCHANGED vars \/ \E b \in Flaky : Flip(b)
  <2>1. UNCHANGED <<list, states, snapshot, todo, found, rounds, damaged, dseg, cseg,
                    applied_seq, pool, wpc, src>>
    BY <1>10
    DEF Flip, vars, shm, publishers, dataplane, checker, monitor, history, outcomes
  <2>2. QED BY <1>0, <2>1
    DEF HonestInv, SnapshotInv, StatesInv, SourcesInv, ListsInv, PoolInv, Honest, Enabled,
        Copying, Seg, Sound, Serving
<1>11. QED
  BY <1>1, <1>2, <1>3, <1>4, <1>5, <1>6, <1>7, <1>8, <1>9, <1>10, HonestPublish, Numbers
  DEF Next, DpRun, CpRun, Poller, ReadControl

\* The workers balance over the seed, over nothing, or over exactly what one
\* whole round of probes found, if the object is not damaged: no interleaving
\* of the checker's thread, the poller's stores, the control loop's loads,
\* stops, kills and restarts mixes two lists or disables a backend that was
\* not probed yet.
THEOREM PoolHonest == Spec => []HonestPool
<1>1. Init => HonestInv
  <2> SUFFICES ASSUME Init PROVE HonestInv
    OBVIOUS
  <2>1. \A p \in Writers : wpc[p] = "idle"
    BY DEF Init
  <2>2. StatesInv
    BY DEF Init, StatesInv, Honest, Enabled, Unprobed
  <2>3. \A s \in Segments : list[s] = {}
    BY DEF Init
  <2>4. QED BY <2>1, <2>2, <2>3
    DEF Init, HonestInv, SnapshotInv, SourcesInv, ListsInv, PoolInv, Honest, Sound, Serving
<1>2. HonestInv => HonestPool
  BY DEF HonestInv, PoolInv, Honest, HonestPool
<1>3. QED BY <1>1, <1>2, HonestStep, LockHolds, TypesHold, PTL DEF Spec

-----------------------------------------------------------------------------
\* Publications meet or are cut off only while a dataplane seeds its object or
\* when the control plane is killed, for any number of restarts.
THEOREM DamageBounded == Spec => DamageWindow
<1>1. TypeInv /\ [Next]_vars => [damaged' # damaged => dpc = "seed" \/ cpc' = "down"]_vars
  <2> SUFFICES ASSUME TypeInv, [Next]_vars, damaged' # damaged
               PROVE  dpc = "seed" \/ cpc' = "down"
    OBVIOUS
  <2>1. CASE \E p \in Writers : LoadSeq(p)
    <3>1. PICK p \in Writers : LoadSeq(p)
      BY <2>1
    <3>2. PICK q \in Writers : Inside(q, Seg(p))
      BY <3>1 DEF LoadSeq
    <3>3. wpc[p] = "load" /\ wpc[q] \in {"odd", "copy"}
      BY <3>1, <3>2 DEF LoadSeq, Inside
    <3>4. wpc[Dp] # "idle"
      BY <3>3, Numbers
    <3>5. QED BY <3>4 DEF TypeInv, Mapped
  <2>2. CASE DpKill
    BY <2>2 DEF DpKill, CutOff, TypeInv, Mapped
  <2>3. CASE CpKill
    BY <2>3 DEF CpKill, CpGone
  <2>4. QED BY <2>1, <2>2, <2>3, Numbers
    DEF Next, DpRun, CpRun, Poller, ReadControl, Publish, vars, DpCreate, DpHeader,
        ReadSeq, ReadEntry, CheckSeq, DpStop, CpStart, CpStop, CheckerCopy, Probe,
        PublishControl, Flip, StoreOdd, StoreEntry, StoreEven, history
<1>2. QED BY <1>1, TypesHold, PTL DEF Spec, DamageWindow
=============================================================================
