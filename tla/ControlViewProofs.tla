------------------------- MODULE ControlViewProofs -------------------------
(***************************************************************************)
(* Proofs about the control segment: types for every instance, and that a  *)
(* pool is never built from a torn copy while publications neither overlap *)
(* nor are cut off.                                                        *)
(***************************************************************************)
EXTENDS ControlView, TLAPS

LEMMA AddrMonotone ==
  ASSUME NEW m \in Nat, NEW n \in 0 .. m
  PROVE  Addr(n) \subseteq Addr(m)
BY DEF Addr

LEMMA LesserBounded ==
  ASSUME NEW n \in Nat
  PROVE  Lesser(n, MaxBackends) \in 0 .. MaxBackends
BY ViewAssumption DEF Lesser

LEMMA ViewTyped ==
  ASSUME NEW n \in 0 .. MaxBackends, NEW w \in Cells
  PROVE  View(n, w) \in Views
<1>1. Addr(n) \subseteq Addr(MaxBackends) BY AddrMonotone, ViewAssumption
<1>2. View(n, w) \in [Addr(n) -> Words] BY <1>1 DEF View, Cells
<1> QED BY <1>2 DEF Views

LEMMA EmptyView == << >> \in Views
<1>1. Addr(0) = {} BY DEF Addr
<1>2. << >> \in [Addr(0) -> Words] BY <1>1
<1>3. 0 \in 0 .. MaxBackends BY ViewAssumption
<1> QED BY <1>2, <1>3 DEF Views

\* Every variable keeps its type in every step, kills and restarts included:
\* no copy ever leaves the arrays of kMaxBackends entries.
LEMMA TypeInit == Init => TypeOK
<1> SUFFICES ASSUME Init PROVE TypeOK OBVIOUS
<1>1. ZeroCells \in Cells BY ViewAssumption DEF ZeroCells, Cells
<1>2. NoSource \in [n : Nat, w : Cells] BY <1>1 DEF NoSource
<1>3. pool \in Views /\ published \in Seq(Views) BY EmptyView DEF Init
<1>5. /\ start \in [Writers -> Nat] /\ src \in [Writers -> [n : Nat, w : Cells]]
      /\ todo \in [Writers -> SUBSET Addr(MaxBackends)]
      /\ wpc \in [Writers -> {"idle", "odd", "count", "copy"}]
  BY <1>2 DEF Init
<1>4. 0 \in 0 .. MaxBackends BY ViewAssumption
<1> QED BY <1>1, <1>3, <1>4, <1>5 DEF Init, TypeOK, NoSeq

LEMMA TypeStep == TypeOK /\ [Next]_vars => TypeOK'
<1> SUFFICES ASSUME TypeOK, [Next]_vars PROVE TypeOK' OBVIOUS
<1> USE DEF shared, writer, reader, history
<1>1. ASSUME NEW p \in Writers, LoadSeq(p) PROVE TypeOK'
  BY <1>1, ViewAssumption DEF TypeOK, LoadSeq
<1>2. ASSUME NEW p \in Writers, StoreOdd(p) PROVE TypeOK'
  BY <1>2 DEF TypeOK, StoreOdd
<1>3. ASSUME NEW p \in Writers, StoreCount(p) PROVE TypeOK'
  <2>1. src[p].n \in Nat BY DEF TypeOK
  <2>2. count' \in 0 .. MaxBackends BY <1>3, <2>1, LesserBounded DEF StoreCount
  <2>3. Addr(count') \subseteq Addr(MaxBackends)
    BY <2>2, AddrMonotone, ViewAssumption
  <2> QED BY <1>3, <2>2, <2>3 DEF TypeOK, StoreCount
<1>4. ASSUME NEW p \in Writers, StoreWord(p) PROVE TypeOK'
  <2> PICK a \in todo[p] : /\ cells' = [cells EXCEPT ![a] = src[p].w[a]]
                           /\ todo' = [todo EXCEPT ![p] = @ \ {a}]
    BY <1>4 DEF StoreWord
  <2>1. a \in Addr(MaxBackends) BY DEF TypeOK
  <2>2. src[p].w[a] \in Words BY <2>1 DEF TypeOK, Cells
  <2>3. cells' \in Cells BY <2>1, <2>2 DEF TypeOK, Cells
  <2>4. todo' \in [Writers -> SUBSET Addr(MaxBackends)] BY DEF TypeOK
  <2> QED BY <1>4, <2>3, <2>4 DEF TypeOK, StoreWord
<1>5. ASSUME NEW p \in Writers, StoreEven(p) PROVE TypeOK'
  <2>1. src[p].n \in Nat /\ src[p].w \in Cells BY DEF TypeOK
  <2>2. View(Lesser(src[p].n, MaxBackends), src[p].w) \in Views
    BY <2>1, LesserBounded, ViewTyped
  <2>3. published' \in Seq(Views) BY <1>5, <2>2 DEF TypeOK, StoreEven
  <2> QED BY <1>5, <2>3 DEF TypeOK, StoreEven
<1>6. CASE Attach BY <1>6 DEF TypeOK, Attach
<1>7. CASE ReadSeq BY <1>7 DEF TypeOK, ReadSeq
<1>8. CASE ReadCount
  <2>1. rcount' \in 0 .. MaxBackends BY <1>8, LesserBounded DEF ReadCount, TypeOK
  <2>2. Addr(rcount') \subseteq Addr(MaxBackends)
    BY <2>1, AddrMonotone, ViewAssumption
  <2> QED BY <1>8, <2>1, <2>2 DEF TypeOK, ReadCount
<1>9. CASE ReadWord
  <2> PICK a \in rtodo : /\ out' = [out EXCEPT ![a] = cells[a]]
                         /\ rtodo' = rtodo \ {a}
    BY <1>9 DEF ReadWord
  <2>1. a \in Addr(MaxBackends) BY DEF TypeOK
  <2>2. out' \in Cells BY <2>1 DEF TypeOK, Cells
  <2> QED BY <1>9, <2>2 DEF TypeOK, ReadWord
<1>10. CASE CheckSeq BY <1>10 DEF TypeOK, CheckSeq
<1>11. CASE Apply
  <2>1. View(rcount, out) \in Views BY ViewTyped DEF TypeOK
  <2> QED BY <1>11, <2>1 DEF TypeOK, Apply
<1>12. CASE LoopHead BY <1>12 DEF TypeOK, LoopHead
<1>13. CASE OnSignal BY <1>13 DEF TypeOK, OnSignal
<1>14. CASE KillControlplane
  <2>1. clean' \in BOOLEAN BY <1>14, Zenon DEF KillControlplane
  <2>2. wpc' \in [Writers -> {"idle", "odd", "count", "copy"}]
    BY <1>14 DEF KillControlplane, TypeOK
  <2>3. /\ attached' \in BOOLEAN /\ ncrash' = ncrash + 1
        /\ UNCHANGED <<shared, start, src, todo, running, reader, published, npub>>
    BY <1>14 DEF KillControlplane
  <2> QED BY <2>1, <2>2, <2>3 DEF TypeOK
<1>15. CASE KillDataplane
  BY <1>15, EmptyView DEF TypeOK, KillDataplane, Dp, Writers, NoSeq
<1>16. CASE UNCHANGED vars BY <1>16 DEF TypeOK, vars
<1> QED BY <1>1, <1>2, <1>3, <1>4, <1>5, <1>6, <1>7, <1>8, <1>9, <1>10, <1>11,
           <1>12, <1>13, <1>14, <1>15, <1>16 DEF Next, Publish, MainThread

THEOREM ViewTypes == Spec => []TypeOK
BY TypeInit, TypeStep, PTL DEF Spec

-----------------------------------------------------------------------------
(* The invariant.  The parity of seq tells whether a publication is under  *)
(* way, half of seq is the number of the publication it stands for, and a  *)
(* reader whose seq_before is still current has copied from that one.      *)

Quiet == \A p \in Writers : wpc[p] \in {"idle", "odd"}

\* At most one publication is under way; what it has copied so far is in the
\* segment, and outside of one the segment holds the latest.
WriterInv ==
  /\ \A p, q \in Writers : wpc[p] # "idle" /\ wpc[q] # "idle" => p = q
  /\ wpc[Dp] # "idle" => rpc = "seed"
  /\ \A p \in Writers : wpc[p] # "idle" => start[p] = 2 * Len(published)
  /\ seq = IF Quiet THEN 2 * Len(published) ELSE 2 * Len(published) + 1
  /\ Quiet /\ published # <<>> => View(count, cells) = published[Len(published)]
  /\ \A p \in Writers : wpc[p] = "copy" =>
       /\ count = Lesser(src[p].n, MaxBackends)
       /\ \A a \in Addr(count) : a \notin todo[p] => cells[a] = src[p].w[a]

ReaderInv ==
  /\ rpc # "seed" => published # <<>>
  /\ rpc \in {"count", "copy", "apply"} =>
       \E k \in 1 .. Len(published) : seq_before = 2 * k
  /\ rpc = "copy" /\ seq = seq_before =>
       /\ rcount = count
       /\ \A a \in Addr(rcount) : a \notin rtodo => out[a] = cells[a]
  /\ rpc = "apply" => View(rcount, out) = published[seq_before \div 2]
  /\ applied_seq # NoSeq =>
       \E k \in 1 .. Len(published) : applied_seq = 2 * k /\ pool = published[k]

SeqlockInv == clean => WriterInv /\ ReaderInv

LEMMA SeqlockInit == Init => SeqlockInv
<1> SUFFICES ASSUME Init PROVE WriterInv /\ ReaderInv BY DEF SeqlockInv
<1>1. Quiet BY DEF Init, Quiet
<1>2. Len(published) = 0 /\ published = <<>> BY DEF Init
<1>3. WriterInv BY <1>1, <1>2 DEF Init, WriterInv, Writers, Dp
<1>4. ReaderInv BY <1>2 DEF Init, ReaderInv, NoSeq
<1> QED BY <1>3, <1>4

\* The views of two arrays that agree on the first n entries.
LEMMA SameView ==
  ASSUME NEW n, NEW v, NEW w, \A a \in Addr(n) : v[a] = w[a]
  PROVE  View(n, v) = View(n, w)
BY DEF View

LEMMA PublishStep ==
  ASSUME TypeOK, WriterInv, ReaderInv, clean', NEW p \in Writers, Publish(p)
  PROVE  WriterInv' /\ ReaderInv'
<1> USE DEF shared, writer, reader, history
<1>0. published \in Seq(Views) /\ Len(published) \in Nat BY DEF TypeOK
<1>1. CASE LoadSeq(p)
  <2>1. \A q \in Writers : wpc[q] = "idle" BY <1>1, Zenon DEF LoadSeq
  <2>2. Quiet BY <2>1 DEF Quiet
  <2>3. wpc' = [wpc EXCEPT ![p] = "odd"] /\ start' = [start EXCEPT ![p] = seq]
    BY <1>1 DEF LoadSeq
  <2>4. /\ seq' = seq /\ count' = count /\ cells' = cells
        /\ published' = published /\ rpc' = rpc
    BY <1>1 DEF LoadSeq
  <2>5. \A q \in Writers : wpc'[q] = IF q = p THEN "odd" ELSE "idle"
    BY <2>1, <2>3 DEF TypeOK
  <2>6. Quiet' BY <2>5 DEF Quiet
  <2>7. start'[p] = 2 * Len(published) BY <2>2, <2>3 DEF WriterInv, TypeOK
  <2>8. wpc'[Dp] # "idle" => rpc' = "seed"
    BY <1>1, <2>5 DEF LoadSeq, MayPublish, Writers, Dp, Cp
  <2>9. WriterInv'
    BY <2>2, <2>4, <2>5, <2>6, <2>7, <2>8 DEF WriterInv
  <2>10. ReaderInv' BY <1>1 DEF LoadSeq, ReaderInv
  <2> QED BY <2>9, <2>10
<1>2. CASE StoreOdd(p)
  <2>1. wpc' = [wpc EXCEPT ![p] = "count"] /\ wpc[p] = "odd" /\ seq' = start[p] + 1
    BY <1>2 DEF StoreOdd
  <2>2. \A q \in Writers : wpc'[q] = IF q = p THEN "count" ELSE "idle"
    BY <2>1 DEF WriterInv, TypeOK
  <2>3. \A q \in Writers : wpc[q] = IF q = p THEN "odd" ELSE "idle"
    BY <2>1 DEF WriterInv
  <2>4. ~Quiet' BY <2>2 DEF Quiet
  <2>5. seq' = 2 * Len(published) + 1 BY <2>1 DEF WriterInv
  <2>6. /\ count' = count /\ cells' = cells /\ start' = start
        /\ published' = published /\ rpc' = rpc
    BY <1>2 DEF StoreOdd
  <2>7. wpc'[Dp] # "idle" => rpc' = "seed"
    BY <2>2, <2>3, <2>6 DEF WriterInv, Writers
  <2>8. WriterInv' BY <2>2, <2>3, <2>4, <2>5, <2>6, <2>7 DEF WriterInv
  <2>9. rpc' = "copy" => seq' # seq_before'
    BY <1>0, <1>2, <2>5, <2>6 DEF StoreOdd, ReaderInv
  <2>10. ReaderInv' BY <1>2, <2>9 DEF StoreOdd, ReaderInv
  <2> QED BY <2>8, <2>10
<1>3. CASE StoreCount(p)
  <2>1. wpc' = [wpc EXCEPT ![p] = "copy"] /\ wpc[p] = "count"
    BY <1>3 DEF StoreCount
  <2>2. \A q \in Writers : wpc'[q] = IF q = p THEN "copy" ELSE "idle"
    BY <2>1 DEF WriterInv, TypeOK
  <2>3. \A q \in Writers : wpc[q] = IF q = p THEN "count" ELSE "idle"
    BY <2>1 DEF WriterInv
  <2>4. ~Quiet /\ ~Quiet' BY <2>2, <2>3 DEF Quiet
  <2>5. seq = 2 * Len(published) + 1 BY <2>4 DEF WriterInv
  <2>6. /\ seq' = seq /\ cells' = cells /\ start' = start /\ src' = src
        /\ published' = published /\ rpc' = rpc
        /\ count' = Lesser(src[p].n, MaxBackends)
    BY <1>3 DEF StoreCount
  <2>7. todo'[p] = Addr(count') BY <1>3 DEF StoreCount, TypeOK
  <2>8. wpc'[Dp] # "idle" => rpc' = "seed"
    BY <2>2, <2>3, <2>6 DEF WriterInv, Writers
  <2>9. WriterInv'
    BY <2>2, <2>3, <2>4, <2>5, <2>6, <2>7, <2>8 DEF WriterInv
  <2>10. rpc' = "copy" => seq' # seq_before'
    BY <1>0, <1>3, <2>5, <2>6 DEF StoreCount, ReaderInv
  <2>11. ReaderInv' BY <1>3, <2>10 DEF StoreCount, ReaderInv
  <2> QED BY <2>9, <2>11
<1>4. CASE StoreWord(p)
  <2> PICK a \in todo[p] : /\ cells' = [cells EXCEPT ![a] = src[p].w[a]]
                           /\ todo' = [todo EXCEPT ![p] = @ \ {a}]
    BY <1>4 DEF StoreWord
  <2>1. wpc[p] = "copy" /\ wpc' = wpc BY <1>4 DEF StoreWord
  <2>2. \A q \in Writers : wpc[q] = IF q = p THEN "copy" ELSE "idle"
    BY <2>1 DEF WriterInv
  <2>3. ~Quiet /\ ~Quiet' BY <2>1, <2>2 DEF Quiet
  <2>4. seq = 2 * Len(published) + 1 BY <2>3 DEF WriterInv
  <2>5. /\ seq' = seq /\ count' = count /\ start' = start /\ src' = src
        /\ published' = published /\ rpc' = rpc
    BY <1>4 DEF StoreWord
  <2>6. a \in Addr(MaxBackends) BY DEF TypeOK
  <2>7. \A b \in Addr(count') : b \notin todo'[p] => cells'[b] = src'[p].w[b]
    <3> SUFFICES ASSUME NEW b \in Addr(count), b \notin todo'[p]
                 PROVE  cells'[b] = src[p].w[b]
      BY <2>5
    <3>1. b \in Addr(MaxBackends) BY AddrMonotone, ViewAssumption DEF TypeOK
    <3>2. CASE b = a BY <2>6, <3>2 DEF TypeOK, Cells
    <3>3. CASE b # a
      <4>1. b \notin todo[p] BY <3>3 DEF TypeOK
      <4>2. cells[b] = src[p].w[b] BY <2>1, <4>1 DEF WriterInv
      <4> QED BY <3>1, <3>3, <4>2 DEF TypeOK, Cells
    <3> QED BY <3>2, <3>3
  <2>8. WriterInv' BY <2>1, <2>2, <2>3, <2>4, <2>5, <2>7 DEF WriterInv
  <2>9. rpc' = "copy" => seq' # seq_before'
    BY <1>0, <1>4, <2>4, <2>5 DEF StoreWord, ReaderInv
  <2>10. ReaderInv' BY <1>4, <2>9 DEF StoreWord, ReaderInv
  <2> QED BY <2>8, <2>10
<1>5. CASE StoreEven(p)
  <2> DEFINE new == View(Lesser(src[p].n, MaxBackends), src[p].w)
  <2>1. /\ wpc[p] = "copy" /\ wpc' = [wpc EXCEPT ![p] = "idle"] /\ todo[p] = {}
        /\ seq' = start[p] + 2 /\ published' = Append(published, new)
    BY <1>5 DEF StoreEven
  <2>2. \A q \in Writers : wpc'[q] = "idle" BY <2>1 DEF WriterInv, TypeOK
  <2>3. Quiet' BY <2>2 DEF Quiet
  <2>4. /\ count' = count /\ cells' = cells
        /\ rpc' = IF p = Dp THEN "load" ELSE rpc
    BY <1>5 DEF StoreEven
  <2>5. new \in Views BY LesserBounded, ViewTyped DEF TypeOK
  <2>6. /\ Len(published') = Len(published) + 1 /\ published' # <<>>
        /\ published'[Len(published')] = new
        /\ \A k \in 1 .. Len(published) : published'[k] = published[k]
    BY <1>0, <2>1, <2>5
  <2>7. View(count, cells) = new
    <3>1. \A a \in Addr(count) : cells[a] = src[p].w[a]
      BY <2>1 DEF WriterInv
    <3>2. View(count, cells) = View(count, src[p].w) BY <3>1, SameView
    <3> QED BY <2>1, <3>2 DEF WriterInv
  <2>8. seq' = 2 * Len(published') BY <1>0, <2>1, <2>6 DEF WriterInv
  <2> HIDE DEF new
  <2>20. wpc'[Dp] = "idle" BY <2>2 DEF Writers
  <2>21. View(count', cells') = View(count, cells) BY <2>4
  <2>9. WriterInv'
    BY <2>2, <2>20, <2>3, <2>6, <2>7, <2>8, <2>21 DEF WriterInv
  <2>10. p = Dp => rpc = "seed" BY <2>1 DEF WriterInv
  <2>11. rpc' # "seed" => published' # <<>> BY <2>6
  <2>12. /\ seq_before' = seq_before /\ rcount' = rcount /\ rtodo' = rtodo
         /\ out' = out /\ applied_seq' = applied_seq /\ pool' = pool
    BY <1>5 DEF StoreEven
  <2>13. rpc' \in {"count", "copy", "apply"} => rpc' = rpc
    BY <2>4
  <2>14. rpc' \in {"count", "copy", "apply"} =>
           \E k \in 1 .. Len(published) : seq_before = 2 * k
    BY <2>13 DEF ReaderInv
  <2>15. rpc' = "copy" => seq' # seq_before'
    BY <1>0, <2>6, <2>8, <2>12, <2>14
  <2>16. rpc' = "apply" => View(rcount, out) = published'[seq_before \div 2]
    <3> SUFFICES ASSUME rpc' = "apply"
                 PROVE  View(rcount, out) = published'[seq_before \div 2]
      OBVIOUS
    <3> PICK k \in 1 .. Len(published) : seq_before = 2 * k BY <2>14
    <3>1. seq_before \div 2 = k BY <1>0
    <3> QED BY <2>6, <2>13, <3>1 DEF ReaderInv
  <2>17. applied_seq # NoSeq => \E k \in 1 .. Len(published') :
                                  applied_seq = 2 * k /\ pool = published'[k]
    BY <1>0, <2>6 DEF ReaderInv
  <2>18. rpc' \in {"count", "copy", "apply"} =>
           \E k \in 1 .. Len(published') : seq_before = 2 * k
    BY <1>0, <2>6, <2>14
  <2>19. ReaderInv' BY <2>11, <2>12, <2>15, <2>16, <2>17, <2>18 DEF ReaderInv
  <2> QED BY <2>9, <2>19
<1> QED BY <1>1, <1>2, <1>3, <1>4, <1>5 DEF Publish

\* The steps of the main thread and of the monitor's start leave everything
\* WriterInv speaks of alone.
LEMMA WriterFrame ==
  ASSUME WriterInv,
         UNCHANGED <<seq, count, cells, wpc, start, src, todo, published>>,
         wpc[Dp] # "idle" => rpc' = "seed"
  PROVE  WriterInv'
BY DEF WriterInv, Quiet

LEMMA MainStep ==
  ASSUME TypeOK, WriterInv, ReaderInv, MainThread
  PROVE  WriterInv' /\ ReaderInv'
<1> USE DEF shared, writer, reader, history
<1>0. published \in Seq(Views) /\ Len(published) \in Nat BY DEF TypeOK
<1>w. WriterInv'
  <2>1. rpc # "seed"
    BY DEF MainThread, ReadSeq, ReadCount, ReadWord, CheckSeq, Apply, LoopHead
  <2>2. wpc[Dp] = "idle" BY <2>1 DEF WriterInv
  <2>3. UNCHANGED <<seq, count, cells, wpc, start, src, todo, published>>
    BY DEF MainThread, ReadSeq, ReadCount, ReadWord, CheckSeq, Apply, LoopHead
  <2> QED BY <2>2, <2>3, WriterFrame
<1>1. CASE ReadSeq
  <2>1. published # <<>> BY <1>1 DEF ReadSeq, ReaderInv
  <2>2. Len(published) \in 1 .. Len(published) BY <1>0, <2>1
  <2>3. seq = 2 * Len(published)
    <3>1. (2 * Len(published) + 1) % 2 = 1 BY <1>0
    <3>2. seq # 2 * Len(published) + 1 BY <1>1, <3>1 DEF ReadSeq
    <3> QED BY <3>2 DEF WriterInv
  <2>4. /\ seq_before' = 2 * Len(published) /\ rpc' = "count"
        /\ UNCHANGED <<published, applied_seq, pool>>
    BY <1>1, <2>3 DEF ReadSeq
  <2>5. ReaderInv' BY <2>1, <2>2, <2>4 DEF ReaderInv
  <2> QED BY <1>w, <2>5
<1>2. CASE ReadCount
  <2>1. rcount' = count BY <1>2, ViewAssumption DEF ReadCount, Lesser, TypeOK
  <2>2. rtodo' = Addr(rcount') BY <1>2 DEF ReadCount
  <2>3. ReaderInv' BY <1>2, <2>1, <2>2 DEF ReadCount, ReaderInv
  <2> QED BY <1>w, <2>3
<1>3. CASE ReadWord
  <2> PICK a \in rtodo : /\ out' = [out EXCEPT ![a] = cells[a]]
                         /\ rtodo' = rtodo \ {a}
    BY <1>3 DEF ReadWord
  <2>1. a \in Addr(MaxBackends) BY DEF TypeOK
  <2>2. ASSUME seq = seq_before, NEW b \in Addr(rcount), b \notin rtodo'
        PROVE  out'[b] = cells[b]
    <3>1. b \in Addr(MaxBackends) BY AddrMonotone, ViewAssumption DEF TypeOK
    <3>2. CASE b = a BY <2>1, <3>2 DEF TypeOK, Cells
    <3>3. CASE b # a
      <4>1. out[b] = cells[b] BY <1>3, <2>2, <3>3 DEF ReadWord, ReaderInv
      <4> QED BY <3>1, <3>3, <4>1 DEF TypeOK, Cells
    <3> QED BY <3>2, <3>3
  <2>3. ReaderInv' BY <1>3, <2>2 DEF ReadWord, ReaderInv
  <2> QED BY <1>w, <2>3
<1>4. CASE CheckSeq
  <2>1. CASE seq # seq_before
    <3>1. ReaderInv' BY <1>4, <2>1 DEF CheckSeq, ReaderInv
    <3> QED BY <1>w, <3>1
  <2>2. CASE seq = seq_before
    <3> PICK k \in 1 .. Len(published) : seq_before = 2 * k
      BY <1>4 DEF CheckSeq, ReaderInv
    <3>1. Quiet /\ k = Len(published) BY <1>0, <2>2 DEF WriterInv
    <3>2. published # <<>> BY <1>4 DEF CheckSeq, ReaderInv
    <3>3. View(rcount, out) = View(count, cells)
      <4>1. rcount = count /\ \A a \in Addr(count) : out[a] = cells[a]
        BY <1>4, <2>2 DEF CheckSeq, ReaderInv
      <4> QED BY <4>1, SameView
    <3>4. View(rcount, out) = published[k]
      BY <3>1, <3>2, <3>3 DEF WriterInv
    <3>5. seq_before \div 2 = k BY <1>0
    <3>6. View(rcount', out') = View(rcount, out) BY <1>4 DEF CheckSeq
    <3>7. ReaderInv' BY <1>4, <2>2, <3>4, <3>5, <3>6 DEF CheckSeq, ReaderInv
    <3> QED BY <1>w, <3>7
  <2> QED BY <2>1, <2>2
<1>5. CASE Apply
  <2> PICK k \in 1 .. Len(published) : seq_before = 2 * k
    BY <1>5 DEF Apply, ReaderInv
  <2>1. seq_before \div 2 = k BY <1>0
  <2>2. View(rcount, out) = published[k] BY <1>5, <2>1 DEF Apply, ReaderInv
  <2>3. CASE applied_seq = seq_before
    <3>1. applied_seq # NoSeq BY <1>0, <2>3 DEF NoSeq
    <3>2. pool = published[k] BY <1>0, <2>3, <3>1 DEF ReaderInv
    <3>3. applied_seq' = 2 * k /\ pool' = published[k]
      BY <1>5, <2>3, <3>2 DEF Apply
    <3>4. ReaderInv' BY <1>5, <3>3 DEF Apply, ReaderInv
    <3> QED BY <1>w, <3>4
  <2>4. CASE applied_seq # seq_before
    <3>1. applied_seq' = 2 * k /\ pool' = published[k]
      BY <1>5, <2>2, <2>4 DEF Apply
    <3>2. ReaderInv' BY <1>5, <3>1 DEF Apply, ReaderInv
    <3> QED BY <1>w, <3>2
  <2> QED BY <2>3, <2>4
<1>6. CASE LoopHead
  <2>1. ReaderInv' BY <1>6 DEF LoopHead, ReaderInv
  <2> QED BY <1>w, <2>1
<1> QED BY <1>1, <1>2, <1>3, <1>4, <1>5, <1>6 DEF MainThread

\* The invariant is kept by every step; a kill that cuts a publication off,
\* or a publication that overlaps another, ends what it claims.
LEMMA SeqlockStep == TypeOK /\ SeqlockInv /\ [Next]_vars => SeqlockInv'
<1> SUFFICES ASSUME TypeOK, SeqlockInv, [Next]_vars, clean'
             PROVE  WriterInv' /\ ReaderInv'
  BY DEF SeqlockInv
<1> USE DEF shared, writer, reader, history
<1>0. clean
  <2>1. ASSUME NEW p \in Writers, Publish(p) PROVE clean
    BY <2>1, Zenon DEF Publish, LoadSeq, StoreOdd, StoreCount, StoreWord, StoreEven
  <2>2. CASE MainThread
    BY <2>2 DEF MainThread, ReadSeq, ReadCount, ReadWord, CheckSeq, Apply, LoopHead
  <2>3. CASE Attach \/ OnSignal BY <2>3 DEF Attach, OnSignal
  <2>4. CASE KillControlplane BY <2>4, Zenon DEF KillControlplane
  <2>5. CASE KillDataplane BY <2>5, Zenon DEF KillDataplane
  <2>6. CASE UNCHANGED vars BY <2>6 DEF vars
  <2> QED BY <2>1, <2>2, <2>3, <2>4, <2>5, <2>6 DEF Next
<1>1. WriterInv /\ ReaderInv BY <1>0 DEF SeqlockInv
<1>2. ASSUME NEW p \in Writers, Publish(p) PROVE WriterInv' /\ ReaderInv'
  BY <1>1, <1>2, PublishStep
<1>3. CASE MainThread BY <1>1, <1>3, MainStep
<1>4. CASE Attach \/ OnSignal
  <2>1. /\ UNCHANGED <<seq, count, cells, wpc, start, src, todo, published>>
        /\ UNCHANGED <<reader, published>>
    BY <1>4 DEF Attach, OnSignal
  <2>2. WriterInv' BY <1>1, <2>1, WriterFrame DEF WriterInv
  <2>3. ReaderInv' BY <1>1, <2>1 DEF ReaderInv
  <2> QED BY <2>2, <2>3
<1>5. CASE KillControlplane
  <2>1. wpc[Cp] = "idle" BY <1>5, Zenon DEF KillControlplane
  <2>2. wpc' = [wpc EXCEPT ![Cp] = "idle"] BY <1>5, Zenon DEF KillControlplane
  <2>3. wpc' = wpc BY <2>1, <2>2 DEF TypeOK
  <2>4. UNCHANGED <<shared, start, src, todo, running, reader, published, npub>>
    BY <1>5, Zenon DEF KillControlplane
  <2>5. WriterInv' BY <1>1, <2>3, <2>4, WriterFrame DEF WriterInv
  <2>6. ReaderInv' BY <1>1, <2>4 DEF ReaderInv
  <2> QED BY <2>5, <2>6
<1>6. CASE KillDataplane
  <2>1. wpc[Dp] = "idle" BY <1>6, Zenon DEF KillDataplane
  <2>2. wpc' = [wpc EXCEPT ![Dp] = "idle"] BY <1>6, Zenon DEF KillDataplane
  <2>3. wpc' = wpc BY <2>1, <2>2 DEF TypeOK
  <2>4. /\ rpc' = "seed" /\ applied_seq' = NoSeq
        /\ UNCHANGED <<shared, start, src, todo, published>>
    BY <1>6, Zenon DEF KillDataplane
  <2>5. WriterInv' BY <1>1, <2>1, <2>3, <2>4, WriterFrame
  <2>6. ReaderInv' BY <1>1, <2>4 DEF ReaderInv
  <2> QED BY <2>5, <2>6
<1>7. CASE UNCHANGED vars
  <2>1. WriterInv' BY <1>1, <1>7, WriterFrame DEF WriterInv, vars
  <2>2. ReaderInv' BY <1>1, <1>7 DEF ReaderInv, vars
  <2> QED BY <2>1, <2>2
<1> QED BY <1>2, <1>3, <1>4, <1>5, <1>6, <1>7 DEF Next

\* While publications do not overlap and none is cut off, the pool that
\* RunControlLoop stores is one that was published as a whole, for any number
\* of entries, words, publications and restarts.
THEOREM NeverTorn == Spec => []NoTornPool
<1>1. TypeOK /\ SeqlockInv => NoTornPool
  BY DEF SeqlockInv, ReaderInv, NoTornPool, PoolPublished
<1> QED BY <1>1, TypeInit, TypeStep, SeqlockInit, SeqlockStep, PTL DEF Spec

-----------------------------------------------------------------------------
(* The segment implements the register when the monitor attaches after     *)
(* SeedControl and nobody is killed.                                       *)

Gentle == ~EarlyAttach /\ MaxCrash = 0

CleanInv ==
  /\ clean /\ ncrash = 0
  /\ attached => rpc # "seed"
  /\ wpc[Cp] # "idle" => attached
  /\ wpc[Dp] # "idle" => rpc = "seed"

LEMMA CleanStep ==
  ASSUME Gentle, TypeOK, CleanInv, [Next]_vars
  PROVE  CleanInv'
<1> USE DEF shared, writer, reader, history
<1>0. Dp \in Writers /\ Cp \in Writers /\ Dp # Cp BY DEF Writers, Dp, Cp
<1>1. ASSUME NEW p \in Writers, LoadSeq(p) PROVE CleanInv'
  <2>1. wpc[p] = "idle" /\ MayPublish(p) BY <1>1 DEF LoadSeq
  <2>2. CASE p = Dp
    <3>1. rpc = "seed" BY <1>0, <2>1, <2>2 DEF MayPublish
    <3>2. wpc[Cp] = "idle" BY <3>1 DEF CleanInv
    <3>3. \A q \in Writers : wpc[q] = "idle" BY <2>1, <2>2, <3>2 DEF Writers
    <3>4. clean' BY <1>1, <3>3, Zenon DEF LoadSeq, CleanInv
    <3>5. wpc'[Cp] = "idle" BY <1>0, <1>1, <2>2, <3>2 DEF LoadSeq, TypeOK
    <3>6. UNCHANGED <<ncrash, attached, rpc>> BY <1>1 DEF LoadSeq
    <3> QED BY <3>1, <3>4, <3>5, <3>6 DEF CleanInv
  <2>3. CASE p = Cp
    <3>1. attached BY <1>0, <2>1, <2>3 DEF MayPublish
    <3>2. wpc[Dp] = "idle" BY <3>1 DEF CleanInv
    <3>3. \A q \in Writers : wpc[q] = "idle" BY <2>1, <2>3, <3>2 DEF Writers
    <3>4. clean' BY <1>1, <3>3, Zenon DEF LoadSeq, CleanInv
    <3>5. wpc'[Dp] = "idle" BY <1>0, <1>1, <2>3, <3>2 DEF LoadSeq, TypeOK
    <3>6. UNCHANGED <<ncrash, attached, rpc>> BY <1>1 DEF LoadSeq
    <3> QED BY <3>1, <3>4, <3>5, <3>6 DEF CleanInv
  <2> QED BY <2>2, <2>3 DEF Writers
<1>2. ASSUME NEW p \in Writers,
             StoreOdd(p) \/ StoreCount(p) \/ StoreWord(p)
      PROVE  CleanInv'
  <2>1. UNCHANGED <<clean, ncrash, attached, rpc>> /\ wpc[p] # "idle"
    BY <1>2 DEF StoreOdd, StoreCount, StoreWord
  <2>2. \A q \in Writers : wpc'[q] # "idle" => wpc[q] # "idle"
    BY <1>2 DEF StoreOdd, StoreCount, StoreWord, TypeOK
  <2> QED BY <1>0, <2>1, <2>2 DEF CleanInv
<1>3. ASSUME NEW p \in Writers, StoreEven(p) PROVE CleanInv'
  <2>1. UNCHANGED <<clean, ncrash, attached>> /\ wpc[p] # "idle" /\ wpc'[p] = "idle"
    BY <1>3 DEF StoreEven, TypeOK
  <2>2. \A q \in Writers : wpc'[q] # "idle" => wpc[q] # "idle" /\ q # p
    BY <1>3 DEF StoreEven, TypeOK
  <2>3. rpc' = IF p = Dp THEN "load" ELSE rpc BY <1>3 DEF StoreEven
  <2> QED BY <1>0, <2>1, <2>2, <2>3 DEF CleanInv
<1>4. CASE Attach BY <1>4 DEF Attach, Gentle, CleanInv
<1>5. CASE MainThread
  <2>1. UNCHANGED <<clean, ncrash, attached, wpc>> /\ rpc # "seed" /\ rpc' # "seed"
    BY <1>5
    DEF MainThread, ReadSeq, ReadCount, ReadWord, CheckSeq, Apply, LoopHead
  <2> QED BY <2>1 DEF CleanInv
<1>6. CASE OnSignal BY <1>6 DEF OnSignal, CleanInv
<1>7. ~KillControlplane /\ ~KillDataplane
  <2>1. ~(ncrash < MaxCrash) BY DEF Gentle, CleanInv
  <2> QED BY <2>1, Zenon DEF KillControlplane, KillDataplane
<1>8. CASE UNCHANGED vars BY <1>8 DEF CleanInv, vars
<1> QED BY <1>1, <1>2, <1>3, <1>4, <1>5, <1>6, <1>7, <1>8 DEF Next, Publish

LEMMA RegisterStep ==
  ASSUME Gentle, TypeOK, CleanInv, SeqlockInv, [Next]_vars
  PROVE  [Register!Next]_(Register!regVars)
<1> USE DEF shared, writer, reader, history, Register!regVars, Register!Next
<1>0. WriterInv /\ ReaderInv BY DEF SeqlockInv, CleanInv
<1>1. published \in Seq(Views) /\ Len(published) \in Nat BY DEF TypeOK
<1>2. ASSUME NEW p \in Writers,
             LoadSeq(p) \/ StoreOdd(p) \/ StoreCount(p) \/ StoreWord(p)
      PROVE  UNCHANGED Register!regVars
  BY <1>2 DEF LoadSeq, StoreOdd, StoreCount, StoreWord, Fetched
<1>3. ASSUME NEW p \in Writers, StoreEven(p) PROVE Register!Next
  <2> DEFINE new == View(Lesser(src[p].n, MaxBackends), src[p].w)
  <2>1. new \in Views BY LesserBounded, ViewTyped DEF TypeOK
  <2>2. published' = Append(published, new)
        /\ UNCHANGED <<seq_before, applied_seq, pool>>
        /\ rpc' = IF p = Dp THEN "load" ELSE rpc
    BY <1>3 DEF StoreEven
  <2>3. p = Dp => rpc = "seed" BY <1>0, <1>3 DEF StoreEven, WriterInv
  <2>4. Fetched' = Fetched BY <2>2, <2>3 DEF Fetched
  <2> HIDE DEF new
  <2>5. Register!Publish BY <2>1, <2>2, <2>4 DEF Register!Publish
  <2> QED BY <2>5
<1>4. CASE Attach \/ OnSignal \/ ReadSeq \/ ReadCount \/ ReadWord \/ LoopHead
  BY <1>4 DEF Attach, OnSignal, ReadSeq, ReadCount, ReadWord, LoopHead, Fetched
<1>5. CASE CheckSeq
  <2>1. UNCHANGED <<published, pool, applied_seq, seq_before>> /\ rpc = "copy"
    BY <1>5 DEF CheckSeq
  <2>2. CASE seq # seq_before
    <3>1. rpc' = "load" BY <1>5, <2>2 DEF CheckSeq
    <3> QED BY <2>1, <3>1 DEF Fetched
  <2>3. CASE seq = seq_before
    <3>1. rpc' = "apply" BY <1>5, <2>3 DEF CheckSeq
    <3> PICK k \in 1 .. Len(published) : seq_before = 2 * k
      BY <1>0, <2>1 DEF ReaderInv
    <3>2. k = Len(published) BY <1>0, <1>1, <2>3 DEF WriterInv
    <3>3. seq_before \div 2 = k BY <1>1
    <3>4. Fetched' = Len(published) BY <2>1, <3>1, <3>2, <3>3 DEF Fetched
    <3>5. published # <<>> BY <1>0, <2>1 DEF ReaderInv
    <3>6. Register!Read BY <2>1, <3>4, <3>5 DEF Register!Read
    <3> QED BY <3>6
  <2> QED BY <2>2, <2>3
<1>6. CASE Apply
  <2>1. UNCHANGED <<published, seq_before>> /\ rpc = "apply" /\ rpc' = "head"
        /\ applied_seq' = seq_before
        /\ pool' = IF applied_seq = seq_before THEN pool ELSE View(rcount, out)
    BY <1>6 DEF Apply
  <2> PICK k \in 1 .. Len(published) : seq_before = 2 * k
    BY <1>0, <2>1 DEF ReaderInv
  <2>2. seq_before \div 2 = k /\ seq_before # NoSeq BY <1>1 DEF NoSeq
  <2>3. Fetched = k /\ Fetched' = k BY <2>1, <2>2 DEF Fetched
  <2>4. View(rcount, out) = published[k] BY <1>0, <2>1, <2>2 DEF ReaderInv
  <2>5. applied_seq = seq_before => pool = published[k]
    BY <1>0, <1>1, <2>2 DEF ReaderInv
  <2>6. pool' = published[k] BY <2>1, <2>4, <2>5
  <2>7. Register!Apply BY <1>1, <2>1, <2>3, <2>6 DEF Register!Apply
  <2> QED BY <2>7
<1>7. ~KillControlplane /\ ~KillDataplane
  <2>1. ~(ncrash < MaxCrash) BY DEF Gentle, CleanInv
  <2> QED BY <2>1, Zenon DEF KillControlplane, KillDataplane
<1>8. CASE UNCHANGED vars BY <1>8 DEF vars, Fetched
<1> QED BY <1>2, <1>3, <1>4, <1>5, <1>6, <1>7, <1>8 DEF Next, Publish, MainThread

\* As long as the monitor attaches after SeedControl and no process is
\* killed, PublishControl and ReadControl implement an atomic register: the
\* two loads of seq make the whole copy look like one step.
THEOREM SegmentIsRegister == Gentle => (Spec => RegisterSpec)
<1> SUFFICES ASSUME Gentle PROVE Spec => RegisterSpec OBVIOUS
<1>1. Init => CleanInv
  BY DEF Init, CleanInv, Writers, Dp, Cp
<1>2. Init => Register!Init
  BY DEF Init, Register!Init, Fetched
<1>3. TypeOK /\ CleanInv /\ [Next]_vars => CleanInv' BY CleanStep
<1>4. TypeOK /\ CleanInv /\ SeqlockInv /\ [Next]_vars
        => [Register!Next]_(Register!regVars)
  BY RegisterStep
<1> QED BY <1>1, <1>2, <1>3, <1>4, TypeInit, TypeStep, SeqlockInit, SeqlockStep,
           PTL DEF Spec, RegisterSpec, Register!Spec
=============================================================================
