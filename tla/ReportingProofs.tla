-------------------------- MODULE ReportingProofs ---------------------------
(***************************************************************************)
(* What the control plane reports is true, for any number of lcores, of    *)
(* objects and of packets below the wrap of a counter.                     *)
(***************************************************************************)
EXTENDS Reporting, FiniteSetTheorems, TLAPS

-----------------------------------------------------------------------------
(* Types and the clock.                                                    *)

\* An attached monitor has an object; only objects that were made are named or
\* mapped; no time is read before it has come.
Attached == cp = "connected" => view \in Objects
Made == name <= made /\ seg <= made
ClockRuns == last_check <= now /\ h_now <= now

TypeInv == TypeOK /\ Attached /\ Made /\ ClockRuns

LEMMA Widths ==
  /\ NLcores \in Nat \ {0} /\ MaxObjects \in Nat \ {0} /\ MaxTime \in Nat \ {0}
  /\ MaxCount \in Nat /\ CountMod \in Nat /\ MaxCount < CountMod
  /\ 0 \in Counts
BY ReportingAssumption DEF Counts

LEMMA Wraps == \A x \in Int : x % CountMod \in Counts
<1>1. \A x \in Int, m \in Nat \ {0} : x % m \in 0 .. m - 1
  OBVIOUS
<1>2. QED BY <1>1, Widths DEF Counts

LEMMA LoadType ==
  ASSUME TypeInv, NEW l \in Lcores
  PROVE  Load(l) \in Counts
BY Widths DEF TypeInv, TypeOK, Attached, Load

LEMMA TypeInit == Init => TypeInv
<1> SUFFICES ASSUME Init PROVE TypeInv
  OBVIOUS
<1>1. rx \in [Objects -> [Lcores -> Counts]]
  BY Widths DEF Init
<1>2. QED BY <1>1, Widths
  DEF Init, TypeInv, TypeOK, Attached, Made, ClockRuns, Objects, None

LEMMA TypeStep == TypeInv /\ [Next]_vars => TypeInv'
<1> SUFFICES ASSUME TypeInv, [Next]_vars PROVE TypeInv'
  OBVIOUS
<1> USE Widths
<1> USE DEF TypeInv, TypeOK, Attached, Made, ClockRuns, segment, dataplane, tick,
            monitor, clock
<1>0. name \in Nat /\ seg \in Nat /\ made \in Nat
  BY DEF Objects, None
<1>1. CASE DpCreate
  BY <1>1 DEF DpCreate, Objects, None
<1>2. CASE DpHeader
  <2>1. seg \in 1 .. made
    BY <1>2 DEF DpHeader, Objects, None
  <2>2. QED BY <1>2, <2>1 DEF DpHeader
<1>3. ASSUME NEW l \in Lcores, Count(l) PROVE TypeInv'
  <2>1. seg \in Objects
    BY <1>3 DEF Count, Objects, None
  <2>2. (rx[seg][l] + 1) % CountMod \in Counts
    BY <2>1, Wraps DEF Counts
  <2>3. rx' \in [Objects -> [Lcores -> Counts]]
    BY <1>3, <2>1, <2>2 DEF Count
  <2>4. QED BY <1>3, <2>3 DEF Count
<1>4. CASE DpStop
  BY <1>0, <1>4 DEF DpStop, None
<1>5. CASE DpKill
  BY <1>0, <1>5 DEF DpKill, None
<1>6. CASE CpStart
  BY <1>6 DEF CpStart, None, Objects
<1>7. CASE CpStop
  BY <1>0, <1>7 DEF CpStop, None
<1>8. CASE TickBegin
  BY <1>0, <1>8 DEF TickBegin, None
<1>9. CASE TickLcore
  <2>1. at \in Lcores /\ at' \in 0 .. NLcores
    BY <1>9 DEF TickLcore, Lcores
  <2>2. Load(at) \in Counts
    BY <2>1, LoadType
  <2>3. current' \in Counts
    BY <1>9, <2>2, Wraps DEF TickLcore, Counts
  <2>4. (current' - prev) % CountMod \in Counts
    BY <2>3, Wraps DEF Counts
  <2>5. {prev', latest'} \subseteq Counts /\ seen' \in Nat
    BY <1>9, <2>3, <2>4 DEF TickLcore, TickEnd, Counts
  <2>6. QED BY <1>9, <2>1, <2>3, <2>5 DEF TickLcore
<1>10. CASE Elapse
  BY <1>10 DEF Elapse
<1>11. CASE Checked
  BY <1>11 DEF Checked
<1>12. CASE Request
  BY <1>12 DEF Request
<1>13. CASE Answer
  BY <1>13 DEF Answer, None
<1>14. CASE UNCHANGED vars
  BY <1>14 DEF vars
<1>15. QED
  BY <1>1, <1>2, <1>3, <1>4, <1>5, <1>6, <1>7, <1>8, <1>9, <1>10, <1>11, <1>12,
     <1>13, <1>14 DEF Next, Tick

\* Whatever stops, dies and starts again, every variable keeps its type.
THEOREM ReportTypes == Spec => []TypeOK
<1>1. TypeInv => TypeOK
  BY DEF TypeInv
<1>2. QED BY <1>1, TypeInit, TypeStep, PTL DEF Spec

\* BackendsHandler never makes a probe older than it is: its guarded
\* difference is right although the clock it read may be behind the probe's.
THEOREM AgesHonest == Spec => []AgeHonest
<1>1. TypeInv => AgeHonest
  <2> SUFFICES ASSUME TypeInv, h_now # None
               PROVE  AgeMs(h_now, last_check) <= now - last_check
    BY DEF AgeHonest, BackendsReply
  <2>1. /\ now \in Nat /\ last_check \in Nat /\ h_now \in Nat
        /\ last_check <= now /\ h_now <= now
    BY Widths DEF TypeInv, TypeOK, ClockRuns
  <2>2. \A x \in Nat, m \in Nat \ {0} : x % m <= x
    OBVIOUS
  <2>3. CASE h_now > last_check
    <3>1. (h_now - last_check) % CountMod <= h_now - last_check
      BY <2>1, <2>2, <2>3, Widths
    <3>2. (h_now - last_check) % CountMod \in Int
      BY <2>1, Wraps DEF Counts
    <3>3. QED BY <2>1, <2>3, <3>1, <3>2 DEF AgeMs
  <2>4. CASE ~(h_now > last_check)
    BY <2>1, <2>4 DEF AgeMs
  <2>5. QED BY <2>3, <2>4
<1>2. QED BY <1>1, TypeInit, TypeStep, PTL DEF Spec

-----------------------------------------------------------------------------
(* Sums of counters, as cardinalities: Slice(r, a, b) holds one element    *)
(* for every packet that the counters r have of the lcores from a to below *)
(* b, so that a round of Tick moves through it lcore by lcore.             *)

Slice(r, a, b) ==
  {c \in Lcores \X (1 .. CountMod) : a <= c[1] /\ c[1] < b /\ c[2] <= r[c[1]]}

Sum(r, a, b) == Cardinality(Slice(r, a, b))

LEMMA SliceFinite ==
  ASSUME NEW r, NEW a, NEW b
  PROVE  IsFiniteSet(Slice(r, a, b)) /\ Sum(r, a, b) \in Nat
<1>1. IsFiniteSet(Lcores) /\ IsFiniteSet(1 .. CountMod)
  BY Widths, FS_Interval DEF Lcores
<1>2. IsFiniteSet(Lcores \X (1 .. CountMod))
  BY <1>1, FS_Product
<1>3. IsFiniteSet(Slice(r, a, b))
  BY <1>2, FS_Subset DEF Slice
<1>4. QED BY <1>3, FS_CardinalityType DEF Sum

\* A sum splits anywhere.
LEMMA SumSplit ==
  ASSUME NEW r, NEW a \in Int, NEW m \in Int, NEW b \in Int, a <= m, m <= b
  PROVE  Sum(r, a, b) = Sum(r, a, m) + Sum(r, m, b)
<1>1. \A c \in Lcores \X (1 .. CountMod) : c[1] \in Int
  BY Widths DEF Lcores
<1>2. Slice(r, a, b) = Slice(r, a, m) \cup Slice(r, m, b)
  BY <1>1 DEF Slice
<1>3. Slice(r, a, m) \cap Slice(r, m, b) = {}
  BY <1>1 DEF Slice
<1>4. IsFiniteSet(Slice(r, a, m)) /\ IsFiniteSet(Slice(r, m, b))
  BY SliceFinite
<1>5. Cardinality(Slice(r, a, m) \cup Slice(r, m, b)) =
        Cardinality(Slice(r, a, m)) + Cardinality(Slice(r, m, b))
          - Cardinality(Slice(r, a, m) \cap Slice(r, m, b))
  BY <1>4, FS_Union
<1>6. Sum(r, a, m) \in Nat /\ Sum(r, m, b) \in Nat
  BY SliceFinite
<1>7. Sum(r, a, b) = Sum(r, a, m) + Sum(r, m, b) - 0
  BY <1>2, <1>3, <1>5, FS_EmptySet, Zenon DEF Sum
<1>8. QED BY <1>6, <1>7

\* One lcore contributes what it has counted.
LEMMA SumOne ==
  ASSUME NEW r \in [Lcores -> Counts], NEW n \in Lcores
  PROVE  Sum(r, n, n + 1) = r[n]
<1> DEFINE f == [i \in 1 .. r[n] |-> <<n, i>>]
<1>1. n \in Int /\ r[n] \in Nat /\ r[n] <= CountMod
  BY Widths DEF Lcores, Counts
<1>2. \A c \in Slice(r, n, n + 1) : c[1] = n /\ c[2] \in 1 .. r[n] /\ c = <<n, c[2]>>
  BY <1>1, Widths DEF Slice, Lcores
<1>3. \A i \in 1 .. r[n] : <<n, i>> \in Slice(r, n, n + 1)
  BY <1>1, Widths DEF Slice
<1>4. f \in Surjection(1 .. r[n], Slice(r, n, n + 1))
  BY <1>2, <1>3 DEF Surjection
<1>5. f \in Injection(1 .. r[n], Slice(r, n, n + 1))
  BY <1>3 DEF Injection, IsInjective
<1>6. IsFiniteSet(1 .. r[n]) /\ Cardinality(1 .. r[n]) = r[n]
  BY <1>1, FS_Interval
<1>7. QED BY <1>4, <1>5, <1>6, FS_Surjection DEF Sum

LEMMA SumNone ==
  ASSUME NEW r, NEW n \in Int
  PROVE  Sum(r, n, n) = 0
<1>1. \A c \in Lcores \X (1 .. CountMod) : c[1] \in Int
  BY Widths DEF Lcores
<1>2. Slice(r, n, n) = {}
  BY <1>1 DEF Slice
<1>3. QED BY <1>2, FS_EmptySet DEF Sum

\* The step of Tick: the next lcore moves from what is left to what is read.
LEMMA SumNext ==
  ASSUME NEW r \in [Lcores -> Counts], NEW n \in Lcores
  PROVE  /\ Sum(r, 0, n + 1) = Sum(r, 0, n) + r[n]
         /\ Sum(r, n, NLcores) = r[n] + Sum(r, n + 1, NLcores)
<1>1. n \in Int /\ 0 \in Int /\ NLcores \in Int /\ 0 <= n /\ n <= n + 1
      /\ n + 1 <= NLcores /\ n + 1 \in Int
  BY Widths DEF Lcores
<1>2. Sum(r, 0, n + 1) = Sum(r, 0, n) + Sum(r, n, n + 1)
  BY <1>1, SumSplit
<1>3. Sum(r, n, NLcores) = Sum(r, n, n + 1) + Sum(r, n + 1, NLcores)
  BY <1>1, SumSplit
<1>4. QED BY <1>2, <1>3, SumOne

\* The step of Count: sums never shrink, and the whole grows by one.
LEMMA SumCount ==
  ASSUME NEW r \in [Lcores -> Counts], NEW l \in Lcores, r[l] + 1 \in Counts
  PROVE  LET q == [r EXCEPT ![l] = r[l] + 1]
         IN  /\ \A a, b \in Int : Sum(r, a, b) <= Sum(q, a, b)
             /\ Sum(q, 0, NLcores) = Sum(r, 0, NLcores) + 1
<1> DEFINE q == [r EXCEPT ![l] = r[l] + 1]
<1>1. \A k \in Lcores : r[k] \in Nat /\ q[k] \in Nat /\ r[k] <= q[k]
  BY DEF Counts
<1>2. q[l] = r[l] + 1 /\ \A k \in Lcores : k # l => q[k] = r[k]
  OBVIOUS
<1> HIDE DEF q
<1>3. ASSUME NEW a \in Int, NEW b \in Int PROVE Sum(r, a, b) <= Sum(q, a, b)
  <2>1. \A c \in Lcores \X (1 .. CountMod) : c[2] <= r[c[1]] => c[2] <= q[c[1]]
    BY <1>1, Widths
  <2>2. Slice(r, a, b) \subseteq Slice(q, a, b)
    BY <2>1 DEF Slice
  <2>3. QED BY <2>2, SliceFinite, FS_Subset DEF Sum
<1>4. Sum(q, 0, NLcores) = Sum(r, 0, NLcores) + 1
  <2> DEFINE new == <<l, r[l] + 1>>
  <2>1. new \in Lcores \X (1 .. CountMod) /\ new[1] = l /\ new[2] = r[l] + 1
    BY Widths DEF Counts
  <2>2. 0 <= l /\ l < NLcores
    BY Widths DEF Lcores
  <2>3. new \in Slice(q, 0, NLcores)
    BY <1>1, <1>2, <2>1, <2>2 DEF Slice
  <2>4. new \notin Slice(r, 0, NLcores)
    BY <1>1, <2>1 DEF Slice
  <2>5. ASSUME NEW c \in Lcores \X (1 .. CountMod), c # new
        PROVE  c[2] <= q[c[1]] <=> c[2] <= r[c[1]]
    <3>1. c[1] = l => c[2] # r[l] + 1
      BY <2>5
    <3>2. QED BY <1>1, <1>2, <3>1, Widths
  <2>6. Slice(q, 0, NLcores) = Slice(r, 0, NLcores) \cup {new}
    <3> HIDE DEF new
    <3>1. ASSUME NEW c \in Slice(q, 0, NLcores), c # new
          PROVE  c \in Slice(r, 0, NLcores)
      BY <2>5, <3>1 DEF Slice
    <3>2. ASSUME NEW c \in Slice(r, 0, NLcores)
          PROVE  c \in Slice(q, 0, NLcores)
      BY <2>5, <2>4, <3>2 DEF Slice
    <3>3. QED BY <2>3, <3>1, <3>2
  <2>7. QED BY <2>4, <2>6, SliceFinite, FS_AddElement DEF Sum
<1>5. QED BY <1>3, <1>4 DEF q

-----------------------------------------------------------------------------
(* No phantom traffic.  What a round has read so far is at most what those *)
(* lcores have counted; what the last round has read is at most that plus  *)
(* what the lcores still to be read have: so the difference at the end of  *)
(* a round is never negative, and the rates add up to the last sum read.   *)

TotalsFit == \A o \in Objects : Total(o) <= MaxCount

Reading ==
  cp = "connected" =>
    /\ current <= Sum(rx[view], 0, at)
    /\ prev <= current + Sum(rx[view], at, NLcores)
    /\ seen = prev

Silent == cp # "connected" => current = 0 /\ prev = 0 /\ latest = 0 /\ seen = 0

ReportInv == TypeInv /\ TotalsFit /\ Reading /\ Silent

LEMMA TotalIsSum == \A o \in Objects : Total(o) = Sum(rx[o], 0, NLcores)
<1> SUFFICES ASSUME NEW o \in Objects PROVE Counted(o) = Slice(rx[o], 0, NLcores)
  BY DEF Total, Sum
<1>1. \A c \in Lcores \X (1 .. CountMod) : 0 <= c[1] /\ c[1] < NLcores
  BY Widths DEF Lcores
<1>2. QED BY <1>1 DEF Counted, Slice

\* What a round can read of an object is below the wrap of a counter.
LEMMA ReadFits ==
  ASSUME TypeInv, TotalsFit, NEW o \in Objects, NEW n \in 0 .. NLcores
  PROVE  /\ Sum(rx[o], 0, n) + Sum(rx[o], n, NLcores) = Total(o)
         /\ Sum(rx[o], 0, n) \in Nat /\ Sum(rx[o], n, NLcores) \in Nat
         /\ Total(o) \in Nat /\ Total(o) <= MaxCount
<1>1. n \in Int /\ 0 \in Int /\ NLcores \in Int /\ 0 <= n /\ n <= NLcores
  BY Widths
<1>2. Sum(rx[o], 0, NLcores) = Sum(rx[o], 0, n) + Sum(rx[o], n, NLcores)
  BY <1>1, SumSplit
<1>3. QED BY <1>2, TotalIsSum, SliceFinite DEF TotalsFit

LEMMA ReportInit == Init => ReportInv
<1> SUFFICES ASSUME Init PROVE ReportInv
  OBVIOUS
<1>1. ASSUME NEW o \in Objects PROVE Total(o) <= MaxCount
  <2>1. \A l \in Lcores : rx[o][l] = 0
    BY <1>1 DEF Init
  <2>2. Counted(o) = {}
    BY <2>1, Widths DEF Counted
  <2>3. QED BY <2>2, Widths, FS_EmptySet DEF Total
<1>2. QED BY <1>1, TypeInit DEF Init, ReportInv, TotalsFit, Reading, Silent

\* A packet is counted, perhaps in the object a round is reading.
LEMMA CountStep ==
  ASSUME ReportInv, NEW l \in Lcores, Count(l), TypeInv'
  PROVE  ReportInv'
<1>1. /\ seg \in Objects /\ rx \in [Objects -> [Lcores -> Counts]]
      /\ rx[seg] \in [Lcores -> Counts]
  BY DEF Count, ReportInv, TypeInv, TypeOK, None
<1>2. Total(seg) < MaxCount /\ Total(seg) \in Nat
  BY <1>1, TotalIsSum, SliceFinite DEF Count
<1>3. rx[seg][l] <= Total(seg)
  <2>1. l \in 0 .. NLcores /\ l + 1 \in 0 .. NLcores
    BY Widths DEF Lcores
  <2>2. /\ Sum(rx[seg], 0, l + 1) = Sum(rx[seg], 0, l) + rx[seg][l]
        /\ Sum(rx[seg], 0, l) \in Nat
        /\ Sum(rx[seg], 0, l + 1) + Sum(rx[seg], l + 1, NLcores) = Total(seg)
        /\ Sum(rx[seg], l + 1, NLcores) \in Nat
    BY <1>1, <2>1, SumNext, SliceFinite, ReadFits DEF ReportInv
  <2>3. rx[seg][l] \in Nat
    BY <1>1 DEF Counts
  <2>4. QED BY <2>2, <2>3, <1>2
<1>4. rx[seg][l] + 1 \in Counts /\ (rx[seg][l] + 1) % CountMod = rx[seg][l] + 1
  <2>1. rx[seg][l] \in Nat /\ rx[seg][l] + 1 < CountMod
    BY <1>1, <1>2, <1>3, Widths DEF Counts
  <2>2. \A x \in Nat, m \in Nat : x < m => x % m = x
    OBVIOUS
  <2>3. QED BY <2>1, <2>2, Widths DEF Counts
<1>5. rx'[seg] = [rx[seg] EXCEPT ![l] = rx[seg][l] + 1]
  BY <1>1, <1>4 DEF Count
<1>6. \A o \in Objects : o # seg => rx'[o] = rx[o]
  BY <1>1 DEF Count
<1>7. /\ \A a, b \in Int : Sum(rx[seg], a, b) <= Sum(rx'[seg], a, b)
      /\ Sum(rx'[seg], 0, NLcores) = Sum(rx[seg], 0, NLcores) + 1
  BY <1>1, <1>4, <1>5, SumCount
<1>8. \A o \in Objects, a, b \in Int : Sum(rx[o], a, b) <= Sum(rx'[o], a, b)
  <2>1. \A o \in Objects, a, b \in Int : Sum(rx[o], a, b) <= Sum(rx[o], a, b)
    BY SliceFinite
  <2>2. QED BY <1>6, <1>7, <2>1
<1>9. \A o \in Objects : Total(o)' = Sum(rx'[o], 0, NLcores)
  <2>1. \A o \in Objects : Counted(o)' = Slice(rx'[o], 0, NLcores)
    <3>1. \A c \in Lcores \X (1 .. CountMod) : 0 <= c[1] /\ c[1] < NLcores
      BY Widths DEF Lcores
    <3>2. QED BY <3>1 DEF Counted, Slice
  <2>2. QED BY <2>1 DEF Total, Sum
<1>10. TotalsFit'
  BY <1>2, <1>6, <1>7, <1>9, TotalIsSum, Widths DEF TotalsFit, ReportInv
<1>11. Reading'
  <2> SUFFICES ASSUME cp = "connected"
               PROVE  /\ current <= Sum(rx'[view], 0, at)
                      /\ prev <= current + Sum(rx'[view], at, NLcores)
                      /\ seen = prev
    BY DEF Count, Reading, monitor, tick
  <2>1. /\ view \in Objects /\ at \in Int /\ 0 \in Int /\ NLcores \in Int
        /\ current \in Nat /\ prev \in Nat
    BY Widths DEF ReportInv, TypeInv, TypeOK, Attached, Counts
  <2>2. /\ Sum(rx[view], 0, at) <= Sum(rx'[view], 0, at)
        /\ Sum(rx[view], at, NLcores) <= Sum(rx'[view], at, NLcores)
    BY <1>8, <2>1
  <2>3. /\ Sum(rx[view], 0, at) \in Nat /\ Sum(rx'[view], 0, at) \in Nat
        /\ Sum(rx[view], at, NLcores) \in Nat /\ Sum(rx'[view], at, NLcores) \in Nat
    BY SliceFinite
  <2>4. QED BY <2>1, <2>2, <2>3 DEF ReportInv, Reading
<1>12. Silent'
  BY DEF Count, ReportInv, Silent, monitor, tick
<1>13. QED BY <1>10, <1>11, <1>12 DEF ReportInv

\* A round reads one lcore, and after the last one takes the difference.
LEMMA TickStep ==
  ASSUME ReportInv, TickLcore, TypeInv'
  PROVE  ReportInv'
<1>1. /\ at \in Lcores /\ at \in 0 .. NLcores /\ at + 1 \in 0 .. NLcores
      /\ at' = at + 1 /\ at + 1 \in Nat
  BY Widths DEF ReportInv, TypeInv, TypeOK, TickLcore, Lcores
<1>2. rx' = rx /\ cp' = cp /\ view' = view
  BY DEF TickLcore, segment
<1>3. TotalsFit'
  BY <1>2 DEF TotalsFit, ReportInv, Total, Counted
<1>4. \A x \in Nat, m \in Nat : x < m => x % m = x
  OBVIOUS
<1>5. current \in Nat /\ prev \in Nat /\ seen \in Nat
  BY DEF ReportInv, TypeInv, TypeOK, Counts
<1>6. CASE cp = "connected"
  <2>1. view \in Objects /\ rx[view] \in [Lcores -> Counts] /\ rx[view][at] \in Nat
    BY <1>1, <1>6 DEF ReportInv, TypeInv, TypeOK, Attached, Counts
  <2>2. /\ Sum(rx[view], 0, at + 1) = Sum(rx[view], 0, at) + rx[view][at]
        /\ Sum(rx[view], at, NLcores) = rx[view][at] + Sum(rx[view], at + 1, NLcores)
    BY <1>1, <2>1, SumNext
  <2>3. /\ Sum(rx[view], 0, at) \in Nat /\ Sum(rx[view], at + 1, NLcores) \in Nat
        /\ Sum(rx[view], 0, at + 1) \in Nat
        /\ Sum(rx[view], 0, at + 1) + Sum(rx[view], at + 1, NLcores) <= MaxCount
    BY <1>1, <2>1, SliceFinite, ReadFits DEF ReportInv
  <2>4. /\ current <= Sum(rx[view], 0, at) /\ seen = prev
        /\ prev <= current + Sum(rx[view], at, NLcores)
    BY <1>6 DEF ReportInv, Reading
  <2>5. current + rx[view][at] < CountMod
    BY <1>5, <2>1, <2>2, <2>3, <2>4, Widths
  <2>6. current' = current + rx[view][at]
    BY <1>4, <1>5, <1>6, <2>1, <2>5, Widths DEF TickLcore, Load
  <2>7. current' <= Sum(rx[view], 0, at + 1)
    BY <1>5, <2>1, <2>2, <2>3, <2>4, <2>6
  <2>8. prev <= current' + Sum(rx[view], at + 1, NLcores)
    BY <1>5, <2>1, <2>2, <2>3, <2>4, <2>6
  <2>9. CASE at' = NLcores
    <3>1. Sum(rx[view], at + 1, NLcores) = 0
      BY <1>1, <2>9, SumNone, Widths
    <3>2. prev <= current' /\ current' \in Nat /\ current' < CountMod
      BY <1>5, <2>1, <2>5, <2>6, <2>8, <3>1
    <3>3. (current' - prev) % CountMod = current' - prev
      BY <1>4, <1>5, <3>2, Widths
    <3>4. prev' = current' /\ seen' = seen + (current' - prev)
      BY <2>9, <3>3 DEF TickLcore, TickEnd
    <3>a. \A c, p \in Nat : p + (c - p) = c /\ c <= c + 0
      OBVIOUS
    <3>b. prev + (current' - prev) = current' /\ current' <= current' + 0
      BY <1>5, <3>2, <3>a
    <3>5. seen' = prev' /\ prev' <= current' + Sum(rx[view], at + 1, NLcores)
      BY <2>4, <3>1, <3>4, <3>b
    <3>6. QED BY <1>1, <1>2, <1>3, <1>6, <2>7, <3>5
      DEF ReportInv, Reading, Silent
  <2>10. CASE at' # NLcores
    <3>1. prev' = prev /\ seen' = seen
      BY <2>10 DEF TickLcore
    <3>2. QED BY <1>1, <1>2, <1>3, <1>6, <2>4, <2>7, <2>8, <3>1
      DEF ReportInv, Reading, Silent
  <2>11. QED BY <2>9, <2>10
<1>7. CASE cp # "connected"
  <2>1. current = 0 /\ prev = 0 /\ latest = 0 /\ seen = 0
    BY <1>7 DEF ReportInv, Silent
  <2>2. Load(at) = 0 /\ 0 % CountMod = 0
    BY <1>4, <1>7, Widths DEF Load
  <2>3. current' = 0
    BY <2>1, <2>2 DEF TickLcore
  <2>4. prev' = 0 /\ latest' = 0 /\ seen' = 0
    BY <2>1, <2>2, <2>3 DEF TickLcore, TickEnd
  <2>5. QED BY <1>2, <1>3, <1>7, <2>3, <2>4 DEF ReportInv, Reading, Silent
<1>8. QED BY <1>6, <1>7

LEMMA ReportStep == ReportInv /\ [Next]_vars => ReportInv'
<1> SUFFICES ASSUME ReportInv, [Next]_vars PROVE ReportInv'
  OBVIOUS
<1>0. TypeInv /\ TypeInv'
  BY TypeStep DEF ReportInv
<1>1. CASE UNCHANGED <<rx, monitor>>
  BY <1>0, <1>1 DEF ReportInv, TotalsFit, Total, Counted, Reading, Silent, monitor, tick
<1>2. ASSUME NEW l \in Lcores, Count(l) PROVE ReportInv'
  BY <1>0, <1>2, CountStep
<1>3. CASE TickLcore
  BY <1>0, <1>3, TickStep
<1>4. CASE TickBegin
  <2>1. rx' = rx /\ cp' = cp /\ view' = view /\ prev' = prev /\ seen' = seen
        /\ at' = 0 /\ current' = 0 /\ latest' = latest /\ at = NLcores
    BY <1>4 DEF TickBegin, segment
  <2>2. ASSUME cp = "connected"
        PROVE  /\ 0 <= Sum(rx[view], 0, 0) /\ seen = prev
               /\ prev <= 0 + Sum(rx[view], 0, NLcores)
    <3>1. view \in Objects /\ current \in Nat /\ prev \in Nat
      BY <1>0, <2>2 DEF TypeInv, TypeOK, Attached, Counts
    <3>2. Sum(rx[view], NLcores, NLcores) = 0 /\ Sum(rx[view], 0, 0) = 0
      BY SumNone, Widths
    <3>3. /\ current <= Sum(rx[view], 0, NLcores) /\ seen = prev
          /\ prev <= current + Sum(rx[view], NLcores, NLcores)
      BY <2>1, <2>2 DEF ReportInv, Reading
    <3>4. Sum(rx[view], 0, NLcores) \in Nat
      BY SliceFinite
    <3>5. QED BY <3>1, <3>2, <3>3, <3>4
  <2>3. QED BY <1>0, <2>1, <2>2
    DEF ReportInv, TotalsFit, Total, Counted, Reading, Silent
<1>5. CASE CpStart \/ CpStop
  <2>1. /\ rx' = rx /\ current' = 0 /\ prev' = 0 /\ latest' = 0 /\ seen' = 0
        /\ at' = NLcores
    BY <1>5 DEF CpStart, CpStop, segment
  <2>2. ASSUME NEW r PROVE 0 <= Sum(r, 0, NLcores) /\ 0 <= 0 + Sum(r, NLcores, NLcores)
    BY SliceFinite
  <2>3. QED BY <1>0, <2>1, <2>2
    DEF ReportInv, TotalsFit, Total, Counted, Reading, Silent
<1>6. QED
  BY <1>1, <1>2, <1>3, <1>4, <1>5
  DEF Next, Tick, vars, segment, DpCreate, DpHeader, DpStop, DpKill, Elapse,
      Checked, Request, Answer

\* StatsAggregator never reports traffic that was not there: with any number
\* of lcores counting under it, and through every stop, kill and restart, no
\* unsigned difference wraps.
THEOREM NoPhantoms == Spec => []NoPhantomTraffic
<1>1. ReportInv => NoPhantomTraffic
  <2> SUFFICES ASSUME ReportInv PROVE NoPhantomTraffic
    OBVIOUS
  <2>1. ASSUME cp = "connected" PROVE seen <= Total(view)
    <3>1. view \in Objects /\ at \in 0 .. NLcores /\ current \in Nat /\ prev \in Nat
      BY <2>1 DEF ReportInv, TypeInv, TypeOK, Attached, Counts
    <3>2. /\ Sum(rx[view], 0, at) + Sum(rx[view], at, NLcores) = Total(view)
          /\ Sum(rx[view], 0, at) \in Nat /\ Sum(rx[view], at, NLcores) \in Nat
      BY <3>1, ReadFits DEF ReportInv
    <3>3. QED BY <2>1, <3>1, <3>2 DEF ReportInv, Reading
  <2>2. QED BY <2>1 DEF NoPhantomTraffic, ReportInv, Silent, StatsReply
<1>2. QED BY <1>1, ReportInit, ReportStep, PTL DEF Spec
=============================================================================
