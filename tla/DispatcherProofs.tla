-------------------------- MODULE DispatcherProofs --------------------------
(***************************************************************************)
(* What graph::Dispatcher keeps of frames and packets on any graph that    *)
(* Graph::Wire accepts, with any burst size and any number of packets.     *)
(***************************************************************************)
EXTENDS Dispatcher, FiniteSetTheorems, SequenceTheorems, TLAPS

-----------------------------------------------------------------------------
(* Sequences without repetition, and what they hold.                       *)

Distinct(s) == \A i, j \in 1 .. Len(s) : s[i] = s[j] => i = j

LEMMA EmptyFacts ==
  ASSUME NEW S
  PROVE  /\ <<>> \in Seq(S) /\ Len(<<>>) = 0
         /\ Elements(<<>>) = {} /\ Distinct(<<>>)
BY DEF Elements, Distinct

LEMMA ElementsFacts ==
  ASSUME NEW S, NEW s \in Seq(S)
  PROVE  /\ Len(s) \in Nat /\ DOMAIN s = 1 .. Len(s)
         /\ Elements(s) \subseteq S
         /\ \A i \in 1 .. Len(s) : s[i] \in Elements(s) /\ s[i] \in S
         /\ \A x \in Elements(s) : \E i \in 1 .. Len(s) : s[i] = x
         /\ s = <<>> <=> Elements(s) = {}
         /\ s = <<>> <=> Len(s) = 0
<1>1. Len(s) \in Nat /\ DOMAIN s = 1 .. Len(s)
  OBVIOUS
<1>2. s = <<>> <=> Len(s) = 0
  OBVIOUS
<1>3. \A i \in 1 .. Len(s) : s[i] \in Elements(s) /\ s[i] \in S
  BY <1>1 DEF Elements
<1>4. \A x \in Elements(s) : \E i \in 1 .. Len(s) : s[i] = x
  BY <1>1 DEF Elements
<1>5. Elements(s) \subseteq S
  BY <1>3, <1>4
<1>6. s # <<>> => Elements(s) # {}
  <2>1. s # <<>> => 1 \in 1 .. Len(s)
    BY <1>1, <1>2
  <2>2. QED BY <1>3, <2>1
<1>7. s = <<>> => Elements(s) = {}
  BY <1>1, <1>2, <1>4
<1>8. QED BY <1>1, <1>2, <1>3, <1>4, <1>5, <1>6, <1>7

LEMMA AppendFacts ==
  ASSUME NEW S, NEW s \in Seq(S), NEW x \in S
  PROVE  /\ Append(s, x) \in Seq(S) /\ Append(s, x) # <<>>
         /\ Len(Append(s, x)) = Len(s) + 1
         /\ Elements(Append(s, x)) = Elements(s) \cup {x}
         /\ Distinct(s) /\ x \notin Elements(s) => Distinct(Append(s, x))
         /\ Last(Append(s, x)) = x
<1> DEFINE t == Append(s, x)
<1>1. /\ t \in Seq(S) /\ Len(t) = Len(s) + 1 /\ Len(s) \in Nat
      /\ t[Len(s) + 1] = x /\ \A i \in 1 .. Len(s) : t[i] = s[i]
      /\ DOMAIN t = 1 .. Len(s) + 1 /\ DOMAIN s = 1 .. Len(s)
  OBVIOUS
<1> HIDE DEF t
<1>2. \A i \in 1 .. Len(s) + 1 : i \in 1 .. Len(s) \/ i = Len(s) + 1
  BY <1>1
<1>3. \A i \in 1 .. Len(s) : i \in 1 .. Len(s) + 1
  BY <1>1
<1>4. Len(s) + 1 \in 1 .. Len(s) + 1
  BY <1>1
<1>5. Elements(t) = Elements(s) \cup {x}
  BY <1>1, <1>2, <1>3, <1>4, Zenon DEF Elements
<1>6. ASSUME Distinct(s), x \notin Elements(s) PROVE Distinct(t)
  <2>1. \A i \in 1 .. Len(s) : s[i] # x
    BY <1>1, <1>6 DEF Elements
  <2>2. QED BY <1>1, <1>2, <1>6, <2>1 DEF Distinct
<1>7. t # <<>> /\ Last(t) = x
  BY <1>1 DEF Last
<1>8. QED BY <1>1, <1>5, <1>6, <1>7 DEF t

LEMMA TailFacts ==
  ASSUME NEW S, NEW s \in Seq(S), s # <<>>
  PROVE  /\ Tail(s) \in Seq(S) /\ Len(Tail(s)) = Len(s) - 1 /\ Len(s) >= 1
         /\ Head(s) \in S /\ Head(s) \in Elements(s)
         /\ Elements(Tail(s)) \subseteq Elements(s)
         /\ Elements(s) = Elements(Tail(s)) \cup {Head(s)}
         /\ Distinct(s) => Distinct(Tail(s)) /\ Head(s) \notin Elements(Tail(s))
<1> DEFINE t == Tail(s)
<1>1. /\ t \in Seq(S) /\ Len(t) = Len(s) - 1 /\ Len(s) \in Nat /\ Len(s) >= 1
      /\ Head(s) = s[1] /\ \A i \in 1 .. Len(t) : t[i] = s[i + 1]
      /\ DOMAIN t = 1 .. Len(t) /\ DOMAIN s = 1 .. Len(s) /\ s[1] \in S
  OBVIOUS
<1> HIDE DEF t
<1>2. 1 \in 1 .. Len(s) /\ \A i \in 1 .. Len(t) : i + 1 \in 1 .. Len(s) /\ i + 1 # 1
  BY <1>1
<1>3. \A i \in 1 .. Len(s) : i # 1 => i - 1 \in 1 .. Len(t) /\ i = (i - 1) + 1
  BY <1>1
<1>4. Head(s) \in Elements(s)
  BY <1>1, <1>2 DEF Elements
<1>5. Elements(t) \subseteq Elements(s)
  BY <1>1, <1>2 DEF Elements
<1>6. Elements(s) \subseteq Elements(t) \cup {Head(s)}
  <2> SUFFICES ASSUME NEW i \in 1 .. Len(s), i # 1 PROVE s[i] \in Elements(t)
    BY <1>1 DEF Elements
  <2>1. i - 1 \in 1 .. Len(t) /\ s[i] = t[i - 1]
    BY <1>1, <1>3
  <2>2. QED BY <1>1, <2>1 DEF Elements
<1>7. ASSUME Distinct(s) PROVE Distinct(t) /\ Head(s) \notin Elements(t)
  <2>1. Distinct(t)
    <3> SUFFICES ASSUME NEW i \in 1 .. Len(t), NEW j \in 1 .. Len(t), t[i] = t[j]
                 PROVE  i = j
      BY DEF Distinct
    <3>1. i + 1 = j + 1
      BY <1>1, <1>2, <1>7 DEF Distinct
    <3>2. QED BY <3>1
  <2>2. \A i \in 1 .. Len(t) : t[i] # s[1]
    BY <1>1, <1>2, <1>7 DEF Distinct
  <2>3. QED BY <1>1, <2>1, <2>2 DEF Elements
<1>8. QED BY <1>1, <1>4, <1>5, <1>6, <1>7 DEF t

LEMMA FrontFacts ==
  ASSUME NEW S, NEW s \in Seq(S), s # <<>>
  PROVE  /\ Front(s) \in Seq(S)
         /\ Last(s) \in S /\ Last(s) \in Elements(s)
         /\ Elements(s) = Elements(Front(s)) \cup {Last(s)}
         /\ Distinct(s) => Distinct(Front(s)) /\ Last(s) \notin Elements(Front(s))
<1> DEFINE t == Front(s)
<1>1. Len(s) \in Nat /\ Len(s) >= 1 /\ Len(s) \in 1 .. Len(s) /\ Last(s) = s[Len(s)]
      /\ DOMAIN s = 1 .. Len(s)
  BY DEF Last
<1>2. /\ t \in Seq(S) /\ Len(t) = Len(s) - 1
      /\ \A i \in 1 .. Len(t) : t[i] = s[i]
  BY <1>1 DEF Front
<1>3. DOMAIN t = 1 .. Len(t)
  BY <1>2
<1>a. Len(t) = Len(s) - 1
  BY <1>2
<1> HIDE DEF t
<1>b. \A l \in Nat : /\ \A i \in 1 .. l : i = l \/ i \in 1 .. l - 1
                     /\ \A i \in 1 .. l - 1 : i \in 1 .. l /\ i # l
  OBVIOUS
<1>4. \A i \in 1 .. Len(s) : i = Len(s) \/ i \in 1 .. Len(t)
  BY <1>1, <1>a, <1>b
<1>5. \A i \in 1 .. Len(t) : i \in 1 .. Len(s) /\ i # Len(s)
  BY <1>1, <1>a, <1>b
<1>6. Elements(s) = Elements(t) \cup {Last(s)}
  BY <1>1, <1>2, <1>3, <1>4, <1>5, Zenon DEF Elements
<1>7. ASSUME Distinct(s) PROVE Distinct(t) /\ Last(s) \notin Elements(t)
  BY <1>1, <1>2, <1>3, <1>5, <1>7 DEF Distinct, Elements
<1>8. QED BY <1>1, <1>2, <1>6, <1>7 DEF t

LEMMA SingleFacts ==
  ASSUME NEW S, NEW x \in S
  PROVE  /\ <<x>> \in Seq(S) /\ <<x>> # <<>> /\ Len(<<x>>) = 1
         /\ Elements(<<x>>) = {x} /\ Distinct(<<x>>)
BY DEF Elements, Distinct

-----------------------------------------------------------------------------
(* Graphs.                                                                 *)

LEMMA NodeNamesAre ==
  NodeNames = {"rx", "ringrx", "parse", "steer", "lb", "dnat", "ether", "arp",
               "tx", "ringtx", "drop"}
BY DEF NodeNames, NextCount

LEMMA NamesFinite == IsFiniteSet(NodeNames)
<1>1. \A a, b, c, d : IsFiniteSet({a, b, c, d})
  <2> SUFFICES ASSUME NEW a, NEW b, NEW c, NEW d PROVE IsFiniteSet({a, b, c, d})
    OBVIOUS
  <2>1. IsFiniteSet(({a} \cup {b}) \cup ({c} \cup {d}))
    BY FS_Singleton, FS_Union
  <2>2. {a, b, c, d} = ({a} \cup {b}) \cup ({c} \cup {d})
    OBVIOUS
  <2>3. QED BY <2>1, <2>2
<1>2. IsFiniteSet({"rx", "ringrx", "parse", "steer"} \cup
                  ({"lb", "dnat", "ether", "arp"} \cup {"tx", "ringtx", "drop", "drop"}))
  BY <1>1, FS_Union
<1>3. NodeNames = {"rx", "ringrx", "parse", "steer"} \cup
                  ({"lb", "dnat", "ether", "arp"} \cup {"tx", "ringtx", "drop", "drop"})
  BY NodeNamesAre
<1>4. QED BY <1>2, <1>3

LEMMA GraphFacts ==
  ASSUME NEW g \in Graphs
  PROVE  /\ WellFormed(g) /\ g.root \in g.nodes
         /\ kInvalid \notin g.nodes /\ "free" \notin g.nodes /\ "drain" \notin g.nodes
         /\ IsFiniteSet(g.nodes) /\ Cardinality(g.nodes) \in Nat
<1>1. WellFormed(g) /\ kInvalid \notin NodeNames
  BY DispatcherAssumption
<1>2. g.root \in g.nodes /\ g.nodes \subseteq NodeNames
  BY <1>1 DEF WellFormed
<1>3. "free" \notin NodeNames /\ "drain" \notin NodeNames
  BY NodeNamesAre
<1>4. IsFiniteSet(g.nodes)
  BY <1>2, NamesFinite, FS_Subset
<1>5. QED BY <1>1, <1>2, <1>3, <1>4, FS_CardinalityType

WireFrom(g, from, out) == {w \in g.wires : w[1] = from /\ w[2] = out}

LEMMA TargetFacts ==
  ASSUME NEW g \in Graphs, NEW from, NEW out
  PROVE  /\ WireFrom(g, from, out) = {} => Target(g, from, out) = kInvalid
         /\ WireFrom(g, from, out) # {} =>
              /\ Target(g, from, out) \in g.nodes /\ Target(g, from, out) # kInvalid
              /\ \E w \in g.wires : Target(g, from, out) = w[3]
<1>1. CASE WireFrom(g, from, out) = {}
  BY <1>1 DEF WireFrom, Target
<1>2. CASE WireFrom(g, from, out) # {}
  <2> DEFINE v == CHOOSE w \in g.wires : w[1] = from /\ w[2] = out
  <2>1. \E w \in g.wires : w[1] = from /\ w[2] = out
    BY <1>2 DEF WireFrom
  <2>2. v \in g.wires
    BY <2>1
  <2>3. Target(g, from, out) = v[3]
    BY <2>1 DEF Target
  <2>4. v[3] \in g.nodes
    BY <2>2, GraphFacts DEF WellFormed
  <2> HIDE DEF v
  <2>5. QED BY <1>2, <2>2, <2>3, <2>4, GraphFacts
<1>3. QED BY <1>1, <1>2

LEMMA VerdictFacts ==
  ASSUME NEW n, NEW c
  PROVE  \A out \in Verdicts(n, c) : out = Gone \/ out \in Outs
BY DEF Verdicts, Outs

-----------------------------------------------------------------------------
(* Frames.  Between two steps every frame of the pool is on one of the     *)
(* stacks, in one position.                                                *)

Waiting == UNION {Elements(pending[n]) : n \in graph.nodes}

FramesApart ==
  /\ Distinct(free) /\ Distinct(drain)
  /\ Elements(free) \cap Elements(drain) = {}
  /\ \A n \in graph.nodes :
       /\ Distinct(pending[n])
       /\ Elements(pending[n]) \cap (Elements(free) \cup Elements(drain)) = {}
       /\ \A m \in graph.nodes : m # n => Elements(pending[m]) \cap Elements(pending[n]) = {}
  /\ \A f \in Frames : f \in Elements(free) \/ f \in Elements(drain) \/ f \in Waiting

\* Frames on the free stack are empty.
FreeEmpty == \A f \in Elements(free) : bufs[f] = <<>>

\* What the place of RunOnce says about what it works on.
Phase ==
  /\ pc \in {"idle", "loop"} => drain = <<>>
  /\ pc \in {"process", "route"} => drain # <<>>
  /\ pc \notin {"process", "route"} => scratch = NoScratch
  /\ pc = "idle" => queue = <<>>

\* While a frame is processed, what it still has would fit behind any output.
HeadFrame ==
  /\ pc = "route" => bufs[Head(drain)] = <<>>
  /\ pc = "process" =>
       \A o \in Outs : Len(scratch[o]) + Len(bufs[Head(drain)]) <= kBurstSize

\* A node with frames is queued, or will be when the output is done.
Queued ==
  /\ \A n \in graph.nodes : scheduled[n] = 1 => n \in Elements(queue)
  /\ \A n \in graph.nodes :
       \/ pending[n] = <<>>
       \/ n \in Elements(queue)
       \/ pc = "route" /\ \E o \in Outs : scratch[o] # <<>> /\ Target(graph, node, o) = n

FrameInv == TypeOK /\ Phase /\ HeadFrame /\ FramesApart /\ FreeEmpty /\ Queued

LEMMA Sizes == kBurstSize \in Nat \ {0} /\ kMaxFanout \in Nat
BY DispatcherAssumption

LEMMA FrameInit == Init => FrameInv
<1> SUFFICES ASSUME Init PROVE FrameInv
  OBVIOUS
<1> DEFINE reserve == Cardinality(graph.nodes) + kMaxFanout
<1>1. graph \in Graphs /\ graph.root \in graph.nodes /\ reserve \in Nat
  BY GraphFacts, Sizes DEF Init
<1>2. /\ bufs = [f \in 1 .. reserve |-> <<>>] /\ free = [f \in 1 .. reserve |-> f]
  BY DEF Init
<1> HIDE DEF reserve
<1>3. \A f \in 1 .. reserve : <<>> \in Seq(Packets)
  OBVIOUS
<1>4. bufs \in Seq(Seq(Packets)) /\ Len(bufs) = reserve /\ Frames = 1 .. reserve
  BY <1>1, <1>2, <1>3 DEF Frames
<1>5. free \in Seq(Frames) /\ Len(free) = reserve
  BY <1>1, <1>2, <1>4
<1>6. \A n \in graph.nodes : pending[n] = <<>> /\ scheduled[n] = 0
  BY DEF Init
<1>7. TypeOK
  <2>1. pending \in [graph.nodes -> Seq(Frames)] /\ scheduled \in [graph.nodes -> {0, 1}]
    BY DEF Init
  <2>2. scratch \in [Outs -> Seq(Packets)] /\ \A o \in Outs : Len(scratch[o]) <= kBurstSize
    BY Sizes DEF Init, NoScratch
  <2>3. \A f \in Frames : Len(bufs[f]) <= kBurstSize
    BY <1>2, <1>4, Sizes
  <2>4. /\ queue \in Seq(graph.nodes) /\ drain \in Seq(Frames)
        /\ arrived \in Seq(Packets) /\ left \in Seq([p : Packets, at : graph.nodes])
    BY DEF Init
  <2>5. pc = "idle" /\ node \in graph.nodes
    BY <1>1 DEF Init
  <2>6. QED BY <1>1, <1>4, <1>5, <2>1, <2>2, <2>3, <2>4, <2>5 DEF TypeOK
<1>8. Phase /\ HeadFrame
  BY DEF Init, Phase, HeadFrame
<1>9. Distinct(free) /\ \A f \in Frames : f \in Elements(free)
  BY <1>1, <1>2, <1>4, <1>5 DEF Distinct, Elements
<1>10. FramesApart
  BY <1>6, <1>9, EmptyFacts DEF Init, FramesApart
<1>11. FreeEmpty
  BY <1>2, <1>4, <1>5 DEF FreeEmpty, Elements
<1>12. Queued
  BY <1>6 DEF Queued
<1>13. QED BY <1>7, <1>8, <1>10, <1>11, <1>12 DEF FrameInv

\* What FramePool::Acquire returns, and what it leaves.
LEMMA AcquireFacts ==
  ASSUME FrameInv, NEW s \in Seq(Packets)
  PROVE  /\ AfterAcquire(free) \in Seq(Frames) /\ Distinct(AfterAcquire(free))
         /\ Elements(AfterAcquire(free)) \subseteq Elements(free)
         /\ Elements(free) \subseteq Elements(AfterAcquire(free)) \cup {Acquired(free)}
         /\ Acquired(free) \notin Elements(AfterAcquire(free))
         /\ Acquired(free) \notin Elements(drain)
         /\ \A n \in graph.nodes : Acquired(free) \notin Elements(pending[n])
         /\ Acquired(free) \in Frames => bufs[Acquired(free)] = <<>>
         /\ Stored(Acquired(free), s) \in Seq(Seq(Packets))
         /\ DOMAIN Stored(Acquired(free), s) = Frames \cup {Acquired(free)}
         /\ Stored(Acquired(free), s)[Acquired(free)] = s
         /\ \A g \in Frames : g # Acquired(free) => Stored(Acquired(free), s)[g] = bufs[g]
<1> DEFINE f == Acquired(free)
           r == AfterAcquire(free)
           st == Stored(f, s)
<1>1. /\ free \in Seq(Frames) /\ drain \in Seq(Frames) /\ bufs \in Seq(Seq(Packets))
      /\ Frames = 1 .. Len(bufs) /\ Len(bufs) \in Nat
      /\ \A n \in graph.nodes : pending[n] \in Seq(Frames)
  BY DEF FrameInv, TypeOK, Frames
<1>2. Elements(free) \subseteq Frames /\ Elements(drain) \subseteq Frames
  BY <1>1, ElementsFacts
<1>3. \A n \in graph.nodes : Elements(pending[n]) \subseteq Frames
  BY <1>1, ElementsFacts
<1>4. Distinct(free)
  BY DEF FrameInv, FramesApart
<1>5. CASE free = <<>>
  <2>1. f = Len(bufs) + 1 /\ r = <<>> /\ f \notin Frames
    BY <1>1, <1>5 DEF Acquired, AfterAcquire
  <2>2. st = Append(bufs, s)
    BY <2>1 DEF Stored
  <2>3. /\ st \in Seq(Seq(Packets)) /\ DOMAIN st = 1 .. Len(bufs) + 1
        /\ st[Len(bufs) + 1] = s /\ \A g \in 1 .. Len(bufs) : st[g] = bufs[g]
    BY <1>1, <2>2
  <2>a. \A l \in Nat : 1 .. l + 1 = (1 .. l) \cup {l + 1}
    OBVIOUS
  <2>4. DOMAIN st = Frames \cup {f}
    BY <1>1, <2>1, <2>3, <2>a, Zenon
  <2>5. Elements(free) = {} /\ Elements(r) = {} /\ r \in Seq(Frames) /\ Distinct(r)
    BY <1>5, <2>1, EmptyFacts
  <2> HIDE DEF f, r, st
  <2>6. QED BY <1>1, <1>2, <1>3, <2>1, <2>3, <2>4, <2>5 DEF f, r, st
<1>6. CASE free # <<>>
  <2>1. f = Last(free) /\ r = Front(free)
    BY <1>6 DEF Acquired, AfterAcquire
  <2>2. /\ r \in Seq(Frames) /\ f \in Frames /\ f \in Elements(free)
        /\ Elements(free) = Elements(r) \cup {f} /\ Distinct(r) /\ f \notin Elements(r)
    <3> HIDE DEF f, r
    <3>1. /\ Front(free) \in Seq(Frames) /\ Last(free) \in Frames
          /\ Last(free) \in Elements(free)
          /\ Elements(free) = Elements(Front(free)) \cup {Last(free)}
          /\ Distinct(free) =>
               Distinct(Front(free)) /\ Last(free) \notin Elements(Front(free))
      BY <1>1, <1>6, FrontFacts
    <3>2. QED BY <1>4, <2>1, <3>1
  <2>3. st = [bufs EXCEPT ![f] = s]
    BY <2>2 DEF Stored
  <2>4. /\ st \in Seq(Seq(Packets)) /\ DOMAIN st = Frames /\ st[f] = s
        /\ \A g \in Frames : g # f => st[g] = bufs[g]
    <3> HIDE DEF f
    <3>1. f \in 1 .. Len(bufs)
      BY <1>1, <2>2
    <3>2. st \in Seq(Seq(Packets))
      BY <1>1, <2>3, <3>1, ExceptSeq
    <3>3. /\ DOMAIN st = Frames /\ st[f] = s /\ \A g \in Frames : g # f => st[g] = bufs[g]
      BY <1>1, <2>2, <2>3
    <3>4. QED BY <3>2, <3>3
  <2>5. f \notin Elements(drain) /\ \A n \in graph.nodes : f \notin Elements(pending[n])
    BY <2>2 DEF FrameInv, FramesApart
  <2>6. bufs[f] = <<>>
    BY <2>2 DEF FrameInv, FreeEmpty
  <2> HIDE DEF f, r, st
  <2>7. QED BY <2>2, <2>4, <2>5, <2>6 DEF f, r, st
<1>7. QED BY <1>5, <1>6

\* The frames after one was acquired for node t.
Acquires(t, s) ==
  /\ free' = AfterAcquire(free) /\ bufs' = Stored(Acquired(free), s)
  /\ pending' = [pending EXCEPT ![t] = Append(pending[t], Acquired(free))]
  /\ UNCHANGED <<graph, drain>>

LEMMA AcquireStep ==
  ASSUME FrameInv, NEW t \in graph.nodes, NEW s \in Seq(Packets),
         Len(s) <= kBurstSize, Acquires(t, s)
  PROVE  /\ bufs' \in Seq(Seq(Packets)) /\ free' \in Seq(Frames')
         /\ drain' \in Seq(Frames') /\ pending' \in [graph.nodes -> Seq(Frames')]
         /\ \A f \in Frames' : Len(bufs'[f]) <= kBurstSize
         /\ \A f \in Elements(drain) : bufs'[f] = bufs[f]
         /\ FramesApart' /\ FreeEmpty'
<1> DEFINE f == Acquired(free)
<1>1. /\ free' \in Seq(Frames) /\ Distinct(free')
      /\ Elements(free') \subseteq Elements(free)
      /\ Elements(free) \subseteq Elements(free') \cup {f}
      /\ f \notin Elements(free') /\ f \notin Elements(drain)
      /\ \A n \in graph.nodes : f \notin Elements(pending[n])
      /\ bufs' \in Seq(Seq(Packets)) /\ Frames' = Frames \cup {f} /\ bufs'[f] = s
      /\ \A g \in Frames : g # f => bufs'[g] = bufs[g]
  BY AcquireFacts DEF Acquires, Frames
<1>2. /\ free \in Seq(Frames) /\ drain \in Seq(Frames)
      /\ pending \in [graph.nodes -> Seq(Frames)]
      /\ \A g \in Frames : Len(bufs[g]) <= kBurstSize
  BY DEF FrameInv, TypeOK
<1>3. drain' = drain /\ graph' = graph
  BY DEF Acquires
<1>4. /\ pending'[t] = Append(pending[t], f)
      /\ \A n \in graph.nodes : n # t => pending'[n] = pending[n]
      /\ pending' = [n \in graph.nodes |-> IF n = t THEN Append(pending[t], f) ELSE pending[n]]
  BY <1>2 DEF Acquires
<1> HIDE DEF f
<1>5. free' \in Seq(Frames') /\ drain' \in Seq(Frames')
  BY <1>1, <1>2, <1>3, SeqMonotonic
<1>6. \A n \in graph.nodes : pending[n] \in Seq(Frames')
  BY <1>1, <1>2, SeqMonotonic
<1>7. /\ pending'[t] \in Seq(Frames') /\ Elements(pending'[t]) = Elements(pending[t]) \cup {f}
      /\ Distinct(pending[t]) => Distinct(pending'[t])
  BY <1>1, <1>4, <1>6, AppendFacts
<1>8. pending' \in [graph.nodes -> Seq(Frames')]
  BY <1>4, <1>6, <1>7
<1>9. \A g \in Frames' : Len(bufs'[g]) <= kBurstSize
  BY <1>1, <1>2
<1>10. /\ Elements(free) \subseteq Frames /\ Elements(drain) \subseteq Frames
       /\ Elements(free') \subseteq Frames
  BY <1>1, <1>2, ElementsFacts
<1>11. \A g \in Elements(drain) : bufs'[g] = bufs[g]
  BY <1>1, <1>10
<1>12. FreeEmpty'
  <2>1. \A g \in Elements(free') : bufs'[g] = <<>>
    BY <1>1, <1>10 DEF FrameInv, FreeEmpty
  <2>2. QED BY <2>1 DEF FreeEmpty, Elements
<1>13. FramesApart'
  <2>0. FramesApart
    BY DEF FrameInv
  <2>1. Elements(free') \cap Elements(drain') = {}
    BY <1>1, <1>3, <2>0 DEF FramesApart
  <2>2. Distinct(free') /\ Distinct(drain')
    BY <1>1, <1>3, <2>0 DEF FramesApart
  <2>3. \A n \in graph.nodes : Elements(pending'[n]) =
           IF n = t THEN Elements(pending[n]) \cup {f} ELSE Elements(pending[n])
    BY <1>4, <1>7
  <2>4. \A n \in graph.nodes : Distinct(pending'[n])
    BY <1>4, <1>7, <2>0 DEF FramesApart
  <2>a. ASSUME NEW n \in graph.nodes
        PROVE  /\ Elements(pending[n]) \cap (Elements(free) \cup Elements(drain)) = {}
               /\ \A m \in graph.nodes : m # n => Elements(pending[m]) \cap Elements(pending[n]) = {}
    BY <2>0 DEF FramesApart
  <2>5. ASSUME NEW n \in graph.nodes
        PROVE  Elements(pending'[n]) \cap (Elements(free') \cup Elements(drain')) = {}
    <3>1. Elements(drain') = Elements(drain)
      BY <1>3
    <3>2. Elements(pending'[n]) \subseteq Elements(pending[n]) \cup {f}
      BY <2>3
    <3>3. QED BY <1>1, <2>a, <3>1, <3>2
  <2>6. ASSUME NEW n \in graph.nodes, NEW m \in graph.nodes, m # n
        PROVE  Elements(pending'[m]) \cap Elements(pending'[n]) = {}
    <3>1. Elements(pending[m]) \cap Elements(pending[n]) = {}
      BY <2>6, <2>a
    <3>2. f \notin Elements(pending[m]) /\ f \notin Elements(pending[n])
      BY <1>1
    <3>3. QED BY <2>3, <2>6, <3>1, <3>2
  <2>7. \A g \in Frames' : g \in Elements(free') \/ g \in Elements(drain')
                             \/ \E n \in graph.nodes : g \in Elements(pending'[n])
    <3>1. ASSUME NEW g \in Frames
          PROVE  g \in Elements(free) \/ g \in Elements(drain)
                   \/ \E n \in graph.nodes : g \in Elements(pending[n])
      BY <2>0 DEF FramesApart, Waiting
    <3>2. \A n \in graph.nodes : Elements(pending[n]) \subseteq Elements(pending'[n])
      BY <2>3
    <3>3. f \in Elements(pending'[t])
      BY <2>3
    <3>4. QED BY <1>1, <1>3, <3>1, <3>2, <3>3
  <2>8. QED BY <1>3, <2>1, <2>2, <2>4, <2>5, <2>6, <2>7 DEF FramesApart, Waiting
<1>14. QED BY <1>1, <1>5, <1>8, <1>9, <1>11, <1>12, <1>13

LEMMA BufsPut ==
  ASSUME TypeOK, NEW f \in Frames, NEW s \in Seq(Packets), bufs' = [bufs EXCEPT ![f] = s]
  PROVE  /\ bufs' \in Seq(Seq(Packets)) /\ Frames' = Frames /\ bufs'[f] = s
         /\ \A g \in Frames : g # f => bufs'[g] = bufs[g]
         /\ Len(s) <= kBurstSize => \A g \in Frames : Len(bufs'[g]) <= kBurstSize
<1>1. bufs \in Seq(Seq(Packets)) /\ f \in 1 .. Len(bufs) /\ Frames = DOMAIN bufs
  BY DEF TypeOK, Frames
<1>2. bufs' \in Seq(Seq(Packets))
  BY <1>1, ExceptSeq
<1>3. DOMAIN bufs' = DOMAIN bufs /\ bufs'[f] = s /\ \A g \in DOMAIN bufs : g # f => bufs'[g] = bufs[g]
  BY <1>1
<1>4. Frames' = Frames
  BY <1>3 DEF Frames
<1>5. \A g \in Frames : Len(bufs[g]) <= kBurstSize
  BY DEF TypeOK
<1>6. QED BY <1>1, <1>2, <1>3, <1>4, <1>5

LEMMA BufsType ==
  ASSUME TypeOK
  PROVE  \A f \in Frames : bufs[f] \in Seq(Packets) /\ Len(bufs[f]) \in Nat
BY DEF TypeOK, Frames

LEMMA HeadDrain ==
  ASSUME TypeOK, drain # <<>>
  PROVE  Head(drain) \in Frames /\ Head(drain) \in Elements(drain)
BY TailFacts DEF TypeOK

LEMMA IdleEmpty ==
  ASSUME FrameInv, pc = "idle"
  PROVE  \A n \in graph.nodes : pending[n] = <<>>
<1>1. queue = <<>> /\ Elements(queue) = {}
  BY EmptyFacts DEF FrameInv, Phase
<1>2. QED BY <1>1 DEF FrameInv, Queued

\* Frames that stay where they are, with other packets.
LEMMA FramesStay ==
  ASSUME FrameInv, UNCHANGED <<graph, pending, free, drain>>, Frames' = Frames
  PROVE  FramesApart'
<1>1. FramesApart
  BY DEF FrameInv
<1>2. Waiting' = Waiting
  BY DEF Waiting
<1>3. QED BY <1>1, <1>2 DEF FramesApart

\* At the start of a run nothing is pending, so Reset gives nothing back.
LEMMA RunOnceAcquires ==
  ASSUME FrameInv, RunOnce
  PROVE  /\ Acquires(graph.root, <<>>)
         /\ \A n \in graph.nodes : n # graph.root => pending'[n] = <<>>
         /\ Len(pending'[graph.root]) = 1
<1> DEFINE t == graph.root
<1>1. graph \in Graphs /\ t \in graph.nodes /\ pc = "idle" /\ pc' = "loop"
  BY GraphFacts DEF FrameInv, TypeOK, RunOnce
<1>2. \A n \in graph.nodes : pending[n] = <<>>
  BY <1>1, IdleEmpty
<1>3. pending \in [graph.nodes -> Seq(Frames)] /\ free \in Seq(Frames)
  BY DEF FrameInv, TypeOK
<1>4. UNION {Elements(pending[n]) : n \in graph.nodes} = {}
  BY <1>2, EmptyFacts
<1>5. PICK stale \in Orders({}) :
        /\ pending' = [n \in graph.nodes |->
                         IF n = graph.root THEN <<Acquired(free \o stale)>> ELSE <<>>]
        /\ free' = AfterAcquire(free \o stale)
        /\ bufs' = Stored(Acquired(free \o stale), <<>>)
  BY <1>4 DEF RunOnce
<1>6. stale = <<>>
  <2>1. stale \in [1 .. 0 -> {}]
    BY FS_EmptySet DEF Orders
  <2>2. QED BY <2>1
<1>7. free \o stale = free
  BY <1>3, <1>6
<1>8. <<Acquired(free)>> = Append(pending[t], Acquired(free))
  BY <1>1, <1>2
<1>9. pending' = [pending EXCEPT ![t] = Append(pending[t], Acquired(free))]
  <2>1. pending' = [n \in graph.nodes |-> IF n = t THEN <<Acquired(free)>> ELSE <<>>]
    BY <1>5, <1>7
  <2>2. QED BY <1>1, <1>2, <1>3, <1>8, <2>1
<1>10. Acquires(t, <<>>)
  BY <1>5, <1>7, <1>9 DEF Acquires, RunOnce
<1>11. \A n \in graph.nodes : n # t => pending'[n] = <<>>
  BY <1>5
<1>12. pending'[t] = <<Acquired(free)>>
  BY <1>1, <1>5, <1>7
<1>13. QED BY <1>10, <1>11, <1>12

LEMMA RunOnceStep ==
  ASSUME FrameInv, RunOnce
  PROVE  FrameInv'
<1> DEFINE t == graph.root
<1>1. graph \in Graphs /\ t \in graph.nodes /\ pc = "idle" /\ pc' = "loop"
  BY GraphFacts DEF FrameInv, TypeOK, RunOnce
<1>5. \A n \in graph.nodes : n # t => pending'[n] = <<>>
  BY RunOnceAcquires
<1>10. Acquires(t, <<>>)
  BY RunOnceAcquires
<1>11. <<>> \in Seq(Packets) /\ Len(<<>>) <= kBurstSize
  BY Sizes
<1>12. /\ bufs' \in Seq(Seq(Packets)) /\ free' \in Seq(Frames')
       /\ drain' \in Seq(Frames') /\ pending' \in [graph.nodes -> Seq(Frames')]
       /\ \A f \in Frames' : Len(bufs'[f]) <= kBurstSize
       /\ FramesApart' /\ FreeEmpty'
  BY <1>1, <1>10, <1>11, AcquireStep
<1>13. /\ UNCHANGED <<graph, node, drain, scratch>> /\ queue' = <<t>>
       /\ scheduled' = [n \in graph.nodes |-> IF n = t THEN 1 ELSE 0]
       /\ arrived' = <<>> /\ left' = <<>>
  BY DEF RunOnce
<1>14. queue' \in Seq(graph.nodes) /\ Elements(queue') = {t}
  BY <1>1, <1>13, SingleFacts
<1>15. TypeOK'
  BY <1>1, <1>12, <1>13, <1>14 DEF FrameInv, TypeOK
<1>16. Phase' /\ HeadFrame'
  BY <1>1, <1>13 DEF FrameInv, Phase, HeadFrame
<1>17. Queued'
  <2>1. \A n \in graph.nodes : n # t => pending'[n] = <<>> /\ scheduled'[n] = 0
    BY <1>5, <1>13
  <2>2. t \in Elements(queue') /\ graph' = graph
    BY <1>13, <1>14
  <2> HIDE DEF t
  <2>3. \A n \in graph.nodes : scheduled'[n] = 1 => n \in Elements(queue')
    BY <2>1, <2>2
  <2>4. \A n \in graph.nodes : pending'[n] = <<>> \/ n \in Elements(queue')
    BY <2>1, <2>2
  <2>5. QED BY <2>2, <2>3, <2>4 DEF Queued
<1>18. QED BY <1>12, <1>15, <1>16, <1>17 DEF FrameInv

LEMMA PopNodeStep ==
  ASSUME FrameInv, PopNode
  PROVE  FrameInv'
<1>1. /\ pc = "loop" /\ queue # <<>> /\ node' = Last(queue) /\ queue' = Front(queue)
      /\ scheduled' = [scheduled EXCEPT ![node'] = 0]
      /\ drain' = pending[node'] /\ pending' = [pending EXCEPT ![node'] = <<>>]
      /\ pc' = "drain" /\ UNCHANGED <<graph, scratch, bufs, free, arrived, left>>
  BY DEF PopNode, pool, history
<1>2. /\ queue \in Seq(graph.nodes) /\ pending \in [graph.nodes -> Seq(Frames)]
      /\ scheduled \in [graph.nodes -> {0, 1}] /\ Frames' = Frames
  BY <1>1 DEF FrameInv, TypeOK, Frames
<1>3. /\ queue' \in Seq(graph.nodes) /\ node' \in graph.nodes
      /\ Elements(queue) = Elements(queue') \cup {node'}
  BY <1>1, <1>2, FrontFacts
<1>4. drain' \in Seq(Frames') /\ drain = <<>> /\ Elements(drain) = {}
  BY <1>1, <1>2, <1>3, EmptyFacts DEF FrameInv, Phase
<1>5. /\ pending'[node'] = <<>> /\ scheduled'[node'] = 0
      /\ \A n \in graph.nodes : n # node' => pending'[n] = pending[n] /\ scheduled'[n] = scheduled[n]
      /\ pending' \in [graph.nodes -> Seq(Frames)] /\ scheduled' \in [graph.nodes -> {0, 1}]
  BY <1>1, <1>2, <1>3
<1>6. TypeOK'
  BY <1>1, <1>2, <1>3, <1>4, <1>5 DEF FrameInv, TypeOK
<1>7. Phase' /\ HeadFrame'
  BY <1>1 DEF FrameInv, Phase, HeadFrame
<1>8. FramesApart'
  <2>0. FramesApart
    BY DEF FrameInv
  <2>1. Elements(pending'[node']) = {} /\ Distinct(pending'[node'])
    BY <1>5, EmptyFacts
  <2>2. Elements(drain') = Elements(pending[node']) /\ Distinct(drain') /\ Distinct(free')
        /\ Elements(free') = Elements(free)
    BY <1>1, <1>3, <2>0 DEF FramesApart
  <2>3. Elements(free') \cap Elements(drain') = {}
    BY <1>3, <2>0, <2>2 DEF FramesApart
  <2>4. ASSUME NEW n \in graph.nodes
        PROVE  /\ Distinct(pending'[n])
               /\ Elements(pending'[n]) \cap (Elements(free') \cup Elements(drain')) = {}
    BY <1>3, <1>5, <2>0, <2>1, <2>2 DEF FramesApart
  <2>5. ASSUME NEW n \in graph.nodes, NEW m \in graph.nodes, m # n
        PROVE  Elements(pending'[m]) \cap Elements(pending'[n]) = {}
    BY <1>5, <2>0, <2>1, <2>5 DEF FramesApart
  <2>6. ASSUME NEW f \in Frames
        PROVE  f \in Elements(free') \/ f \in Elements(drain')
                 \/ \E n \in graph.nodes : f \in Elements(pending'[n])
    <3>1. f \in Elements(free) \/ \E n \in graph.nodes : f \in Elements(pending[n])
      BY <1>4, <2>0 DEF FramesApart, Waiting
    <3>2. QED BY <1>3, <1>5, <2>2, <3>1
  <2>7. graph' = graph /\ Frames' = Frames
    BY <1>1, <1>2
  <2>8. QED BY <2>2, <2>3, <2>4, <2>5, <2>6, <2>7 DEF FramesApart, Waiting
<1>9. FreeEmpty'
  BY <1>1 DEF FrameInv, FreeEmpty
<1>10. Queued'
  BY <1>1, <1>3, <1>5 DEF FrameInv, Queued
<1>11. QED BY <1>6, <1>7, <1>8, <1>9, <1>10 DEF FrameInv

LEMMA BurstFacts ==
  ASSUME NEW b \in Bursts
  PROVE  b \in Seq(Packets) /\ Len(b) <= kBurstSize /\ Distinct(b)
<1>1. PICK n \in 0 .. kBurstSize : b \in [1 .. n -> Packets]
  BY DEF Bursts
<1>2. n \in Nat /\ n <= kBurstSize
  BY Sizes
<1>3. b \in Seq(Packets) /\ Len(b) = n
  BY <1>1, <1>2
<1>4. QED BY <1>2, <1>3 DEF Bursts, Distinct

LEMMA RunNodeStep ==
  ASSUME FrameInv, RunNode
  PROVE  FrameInv'
<1>1. /\ pc = "drain" /\ drain # <<>> /\ pc' = "process"
      /\ UNCHANGED <<graph, pending, scheduled, queue, node, drain, scratch, free, left>>
  BY DEF RunNode
<1>2. Head(drain) \in Frames /\ Head(drain) \in Elements(drain)
  BY <1>1, HeadDrain DEF FrameInv
<1>3. /\ bufs' \in Seq(Seq(Packets)) /\ arrived' \in Seq(Packets) /\ Frames' = Frames
      /\ \A f \in Frames : Len(bufs'[f]) <= kBurstSize
      /\ \A f \in Frames : f # Head(drain) => bufs'[f] = bufs[f]
  <2>1. CASE UNCHANGED <<bufs, arrived>>
    BY <2>1 DEF FrameInv, TypeOK, Frames
  <2>2. ASSUME NEW b \in Bursts, bufs' = [bufs EXCEPT ![Head(drain)] = b], arrived' = b
        PROVE  /\ bufs' \in Seq(Seq(Packets)) /\ arrived' \in Seq(Packets) /\ Frames' = Frames
               /\ \A f \in Frames : Len(bufs'[f]) <= kBurstSize
               /\ \A f \in Frames : f # Head(drain) => bufs'[f] = bufs[f]
    BY <1>2, <2>2, BurstFacts, BufsPut DEF FrameInv
  <2>3. QED BY <2>1, <2>2 DEF RunNode
<1>4. TypeOK'
  BY <1>1, <1>3 DEF FrameInv, TypeOK
<1>5. Phase'
  BY <1>1 DEF FrameInv, Phase
<1>6. HeadFrame'
  <2>1. bufs'[Head(drain)] \in Seq(Packets) /\ Len(bufs'[Head(drain)]) <= kBurstSize
    BY <1>2, <1>3 DEF Frames
  <2>2. \A o \in Outs : Len(scratch[o]) = 0
    BY <1>1 DEF FrameInv, Phase, NoScratch
  <2>3. \A o \in Outs : Len(scratch[o]) + Len(bufs'[Head(drain)]) <= kBurstSize
    <3>1. \A k, l \in Nat : l <= k => 0 + l <= k
      OBVIOUS
    <3>2. Len(bufs'[Head(drain)]) \in Nat
      BY <2>1
    <3>3. 0 + Len(bufs'[Head(drain)]) <= kBurstSize
      BY <2>1, <3>1, <3>2, Sizes
    <3>4. QED BY <2>2, <3>3
  <2>4. QED BY <1>1, <2>3 DEF HeadFrame
<1>7. FramesApart'
  BY <1>1, <1>3, FramesStay
<1>8. FreeEmpty'
  <2>1. Elements(free) \subseteq Frames /\ Head(drain) \notin Elements(free)
    BY <1>2, ElementsFacts DEF FrameInv, TypeOK, FramesApart
  <2>2. QED BY <1>1, <1>3, <2>1 DEF FrameInv, FreeEmpty
<1>9. Queued'
  BY <1>1 DEF FrameInv, Queued
<1>10. QED BY <1>4, <1>5, <1>6, <1>7, <1>8, <1>9 DEF FrameInv

LEMMA ProcessStep ==
  ASSUME FrameInv, Process
  PROVE  FrameInv'
<1> DEFINE h == Head(drain)
           p == Head(bufs[h])
<1>1. /\ pc = "process" /\ bufs[h] # <<>> /\ bufs' = [bufs EXCEPT ![h] = Tail(bufs[h])]
      /\ UNCHANGED <<graph, pc, pending, scheduled, queue, node, drain, free, arrived>>
  BY DEF Process
<1>2. drain # <<>>
  BY <1>1 DEF FrameInv, Phase
<1>3. h \in Frames /\ h \in Elements(drain)
  BY <1>2, HeadDrain DEF FrameInv
<1>4. bufs[h] \in Seq(Packets) /\ Len(bufs[h]) \in Nat /\ Len(bufs[h]) <= kBurstSize
  BY <1>3, BufsType DEF FrameInv, TypeOK
<1>5. PICK out \in Verdicts(node, Class[p]) :
        IF out = Gone
        THEN left' = Append(left, [p |-> p, at |-> node]) /\ scratch' = scratch
        ELSE scratch' = [scratch EXCEPT ![out] = Append(scratch[out], p)] /\ left' = left
  BY DEF Process
<1> HIDE DEF h, p
<1>6. /\ Tail(bufs[h]) \in Seq(Packets) /\ Len(Tail(bufs[h])) = Len(bufs[h]) - 1
      /\ Head(bufs[h]) \in Packets /\ Len(bufs[h]) >= 1
  BY <1>1, <1>4, TailFacts
<1>7. p \in Packets
  BY <1>6 DEF p
<1>8. Len(Tail(bufs[h])) \in Nat /\ Len(Tail(bufs[h])) <= kBurstSize
  BY <1>4, <1>6, Sizes
<1>9. /\ bufs' \in Seq(Seq(Packets)) /\ Frames' = Frames /\ bufs'[h] = Tail(bufs[h])
      /\ \A g \in Frames : g # h => bufs'[g] = bufs[g]
      /\ \A g \in Frames : Len(bufs'[g]) <= kBurstSize
  BY <1>1, <1>3, <1>6, <1>8, BufsPut DEF FrameInv
<1>10. /\ scratch \in [Outs -> Seq(Packets)] /\ left \in Seq([p : Packets, at : graph.nodes])
       /\ \A o \in Outs : Len(scratch[o]) \in Nat
       /\ \A o \in Outs : Len(scratch[o]) + Len(bufs[h]) <= kBurstSize
  BY <1>1 DEF FrameInv, TypeOK, HeadFrame, h
<1>11. /\ scratch' \in [Outs -> Seq(Packets)]
       /\ left' \in Seq([p : Packets, at : graph.nodes])
       /\ \A o \in Outs : Len(scratch'[o]) \in Nat /\ Len(scratch'[o]) <= Len(scratch[o]) + 1
  <2>1. CASE out = Gone
    <3>1. node \in graph.nodes
      BY DEF FrameInv, TypeOK
    <3>2. [p |-> p, at |-> node] \in [p : Packets, at : graph.nodes]
      BY <1>7, <3>1
    <3>3. left' \in Seq([p : Packets, at : graph.nodes])
      <4> DEFINE e == [p |-> p, at |-> node]
                 E == [p : Packets, at : graph.nodes]
      <4>1. left' = Append(left, e) /\ left \in Seq(E) /\ e \in E
        BY <1>5, <1>10, <2>1, <3>2
      <4> HIDE DEF e, E
      <4>2. left' \in Seq(E)
        BY <4>1
      <4>3. QED BY <4>2 DEF E
    <3>4. scratch' = scratch
      BY <1>5, <2>1
    <3>5. QED BY <1>10, <3>3, <3>4
  <2>2. CASE out # Gone
    <3>1. out \in Outs
      BY <2>2, VerdictFacts
    <3>2. /\ Append(scratch[out], p) \in Seq(Packets)
          /\ Len(Append(scratch[out], p)) = Len(scratch[out]) + 1
      BY <1>7, <1>10, <3>1
    <3>3. scratch' = [scratch EXCEPT ![out] = Append(scratch[out], p)] /\ left' = left
      BY <1>5, <2>2
    <3>4. /\ scratch' \in [Outs -> Seq(Packets)]
          /\ scratch'[out] = Append(scratch[out], p)
          /\ \A o \in Outs : o # out => scratch'[o] = scratch[o]
      BY <1>10, <3>1, <3>2, <3>3
    <3>5. \A a \in Nat : a + 1 \in Nat /\ a <= a + 1 /\ a + 1 <= a + 1
      OBVIOUS
    <3>6. \A o \in Outs : Len(scratch'[o]) = Len(scratch[o]) \/ Len(scratch'[o]) = Len(scratch[o]) + 1
      BY <3>2, <3>4
    <3>7. QED BY <1>10, <3>3, <3>4, <3>5, <3>6
  <2>3. QED BY <2>1, <2>2
<1>12. \A o \in Outs : Len(scratch'[o]) + Len(bufs'[h]) <= kBurstSize
  <2> SUFFICES ASSUME NEW o \in Outs PROVE Len(scratch'[o]) + Len(bufs'[h]) <= kBurstSize
    OBVIOUS
  <2>1. \A a, b, l, k \in Nat : (a + l <= k /\ b <= a + 1 /\ l >= 1) => b + (l - 1) <= k /\ b <= k
    OBVIOUS
  <2>2. Len(scratch'[o]) + (Len(bufs[h]) - 1) <= kBurstSize
    BY <1>4, <1>6, <1>10, <1>11, <2>1, Sizes
  <2>3. QED BY <1>6, <1>9, <2>2
<1>13. \A o \in Outs : Len(scratch'[o]) <= kBurstSize
  <2> SUFFICES ASSUME NEW o \in Outs PROVE Len(scratch'[o]) <= kBurstSize
    OBVIOUS
  <2>1. \A a, b, k \in Nat : a + b <= k => a <= k
    OBVIOUS
  <2>2. Len(bufs'[h]) \in Nat
    BY <1>8, <1>9
  <2>3. QED BY <1>11, <1>12, <2>1, <2>2, Sizes
<1>14. TypeOK'
  BY <1>1, <1>9, <1>11, <1>13 DEF FrameInv, TypeOK
<1>15. Phase' /\ HeadFrame'
  <2>1. Phase'
    BY <1>1, <1>2 DEF FrameInv, Phase
  <2>2. HeadFrame'
    BY <1>1, <1>12 DEF HeadFrame, h
  <2>3. QED BY <2>1, <2>2
<1>16. FramesApart'
  BY <1>1, <1>9, FramesStay
<1>17. FreeEmpty'
  <2>1. Elements(free) \subseteq Frames /\ h \notin Elements(free)
    BY <1>3, ElementsFacts DEF FrameInv, TypeOK, FramesApart
  <2>2. QED BY <1>1, <1>9, <2>1 DEF FrameInv, FreeEmpty
<1>18. Queued'
  BY <1>1 DEF FrameInv, Queued
<1>19. QED BY <1>14, <1>15, <1>16, <1>17, <1>18 DEF FrameInv

LEMMA FrameDoneStep ==
  ASSUME FrameInv, FrameDone
  PROVE  FrameInv'
<1> DEFINE h == Head(drain)
<1>1. /\ pc = "route" /\ scratch = NoScratch /\ free' = Append(free, h)
      /\ drain' = Tail(drain) /\ bufs' = [bufs EXCEPT ![h] = <<>>] /\ pc' = "drain"
      /\ UNCHANGED <<graph, pending, scheduled, queue, node, scratch, arrived, left>>
  BY DEF FrameDone, history
<1>2. drain # <<>> /\ free \in Seq(Frames) /\ drain \in Seq(Frames)
  BY <1>1 DEF FrameInv, Phase, TypeOK
<1>3. /\ h \in Frames /\ h \in Elements(drain) /\ drain' \in Seq(Frames)
      /\ Elements(drain) = Elements(drain') \cup {h}
      /\ Distinct(drain) => Distinct(drain') /\ h \notin Elements(drain')
  BY <1>1, <1>2, TailFacts
<1> HIDE DEF h
<1>4. FramesApart
  BY DEF FrameInv
<1>5. h \notin Elements(free)
  BY <1>3, <1>4 DEF FramesApart
<1>6. /\ free' \in Seq(Frames) /\ Elements(free') = Elements(free) \cup {h}
      /\ Distinct(free')
  BY <1>1, <1>2, <1>3, <1>4, <1>5, AppendFacts DEF FramesApart
<1>7. <<>> \in Seq(Packets) /\ Len(<<>>) <= kBurstSize
  BY Sizes
<1>8. /\ bufs' \in Seq(Seq(Packets)) /\ Frames' = Frames /\ bufs'[h] = <<>>
      /\ \A g \in Frames : g # h => bufs'[g] = bufs[g]
      /\ \A g \in Frames : Len(bufs'[g]) <= kBurstSize
  BY <1>1, <1>3, <1>7, BufsPut DEF FrameInv
<1>9. TypeOK'
  BY <1>1, <1>3, <1>6, <1>8 DEF FrameInv, TypeOK
<1>10. Phase' /\ HeadFrame'
  BY <1>1 DEF Phase, HeadFrame
<1>11. FramesApart'
  <2>1. Distinct(free') /\ Distinct(drain') /\ Elements(free') \cap Elements(drain') = {}
    BY <1>3, <1>4, <1>6 DEF FramesApart
  <2>2. Elements(free') \cup Elements(drain') = Elements(free) \cup Elements(drain)
    BY <1>3, <1>6
  <2>3. \A f \in Frames : f \in Elements(free') \/ f \in Elements(drain') \/ f \in Waiting
    BY <1>4, <2>2 DEF FramesApart
  <2>4. Waiting' = Waiting /\ graph' = graph /\ pending' = pending /\ Frames' = Frames
    BY <1>1, <1>8 DEF Waiting
  <2>5. QED BY <1>4, <2>1, <2>2, <2>3, <2>4 DEF FramesApart
<1>12. FreeEmpty'
  <2>1. Elements(free) \subseteq Frames
    BY <1>2, ElementsFacts
  <2>2. QED BY <1>6, <1>8, <2>1 DEF FrameInv, FreeEmpty
<1>13. Queued'
  BY <1>1 DEF FrameInv, Queued, NoScratch
<1>14. QED BY <1>9, <1>10, <1>11, <1>12, <1>13 DEF FrameInv

\* A packet routed into a frame that has room.
LEMMA PushStep ==
  ASSUME FrameInv, NEW t \in graph.nodes, NEW x \in Packets, pending[t] # <<>>,
         ~Full(Last(pending[t])),
         bufs' = [bufs EXCEPT ![Last(pending[t])] = Append(bufs[Last(pending[t])], x)],
         UNCHANGED <<pending, free, drain, graph>>
  PROVE  /\ bufs' \in Seq(Seq(Packets)) /\ Frames' = Frames
         /\ \A f \in Frames : Len(bufs'[f]) <= kBurstSize
         /\ \A f \in Elements(drain) : bufs'[f] = bufs[f]
         /\ FramesApart' /\ FreeEmpty'
<1> DEFINE f == Last(pending[t])
<1>1. f \in Frames /\ f \in Elements(pending[t])
  BY FrontFacts DEF FrameInv, TypeOK
<1>2. bufs[f] \in Seq(Packets) /\ Len(bufs[f]) \in Nat /\ Len(bufs[f]) <= kBurstSize
  BY <1>1, BufsType DEF FrameInv, TypeOK
<1>3. Len(bufs[f]) # kBurstSize /\ bufs' = [bufs EXCEPT ![f] = Append(bufs[f], x)]
  BY DEF Full
<1> HIDE DEF f
<1>4. Append(bufs[f], x) \in Seq(Packets) /\ Len(Append(bufs[f], x)) = Len(bufs[f]) + 1
  BY <1>2, AppendFacts
<1>5. Len(Append(bufs[f], x)) <= kBurstSize
  BY <1>2, <1>3, <1>4, Sizes
<1>6. /\ bufs' \in Seq(Seq(Packets)) /\ Frames' = Frames
      /\ \A g \in Frames : g # f => bufs'[g] = bufs[g]
      /\ \A g \in Frames : Len(bufs'[g]) <= kBurstSize
  BY <1>1, <1>3, <1>4, <1>5, BufsPut DEF FrameInv
<1>7. /\ f \notin Elements(free) /\ f \notin Elements(drain)
      /\ Elements(free) \subseteq Frames /\ Elements(drain) \subseteq Frames
  BY <1>1, ElementsFacts DEF FrameInv, FramesApart, TypeOK
<1>8. FramesApart'
  BY <1>6, FramesStay
<1>9. FreeEmpty'
  BY <1>6, <1>7 DEF FrameInv, FreeEmpty
<1>10. QED BY <1>6, <1>7, <1>8, <1>9

LEMMA RouteStep ==
  ASSUME FrameInv, NEW out \in Outs, Route(out)
  PROVE  FrameInv'
<1> DEFINE t == Target(graph, node, out)
           s == scratch[out]
<1>1. /\ pc = "route" /\ s # <<>>
      /\ UNCHANGED <<graph, pc, node, drain, arrived, left>>
  BY DEF Route, history
<1>2. /\ graph \in Graphs /\ scratch \in [Outs -> Seq(Packets)] /\ s \in Seq(Packets)
      /\ \A o \in Outs : Len(scratch[o]) <= kBurstSize
      /\ drain # <<>> /\ bufs[Head(drain)] = <<>> /\ Len(s) \in Nat
  <2>1. graph \in Graphs /\ scratch \in [Outs -> Seq(Packets)]
        /\ \A o \in Outs : Len(scratch[o]) <= kBurstSize
    BY DEF FrameInv, TypeOK
  <2>2. drain # <<>> /\ bufs[Head(drain)] = <<>>
    BY <1>1 DEF FrameInv, Phase, HeadFrame
  <2>3. s \in Seq(Packets) /\ Len(s) \in Nat
    BY <2>1
  <2>4. QED BY <2>1, <2>2, <2>3
<1>3. t \in graph.nodes \/ t = kInvalid
  BY <1>2, TargetFacts
<1>4. Head(drain) \in Elements(drain)
  BY <1>2, HeadDrain DEF FrameInv
<1>5. CASE t = kInvalid
  <2>1. /\ scratch' = [scratch EXCEPT ![out] = <<>>]
        /\ UNCHANGED <<pending, bufs, free, scheduled, queue>>
    BY <1>5 DEF Route, pool
  <2>2. /\ scratch' \in [Outs -> Seq(Packets)] /\ \A o \in Outs : Len(scratch'[o]) <= kBurstSize
        /\ \A o \in Outs : o # out => scratch'[o] = scratch[o]
    BY <1>2, <2>1, Sizes
  <2>3. TypeOK'
    BY <1>1, <2>1, <2>2 DEF FrameInv, TypeOK, Frames
  <2>4. Phase' /\ HeadFrame'
    BY <1>1, <1>2, <2>1 DEF FrameInv, Phase, HeadFrame
  <2>5. FramesApart'
    BY <1>1, <2>1, FramesStay DEF Frames
  <2>6. FreeEmpty'
    BY <1>1, <2>1 DEF FrameInv, FreeEmpty
  <2>7. Queued'
    <3>1. kInvalid \notin graph.nodes
      BY <1>2, GraphFacts
    <3>2. \A n \in graph.nodes, o \in Outs : Target(graph, node, o) = n => o # out
      BY <1>5, <3>1
    <3>3. QED BY <1>1, <2>1, <2>2, <3>2 DEF FrameInv, Queued
  <2>8. QED BY <2>3, <2>4, <2>5, <2>6, <2>7 DEF FrameInv
<1>6. CASE t \in graph.nodes
  <2>0. kInvalid \notin graph.nodes
    BY <1>2, GraphFacts
  <2>1. /\ scratch' = [scratch EXCEPT ![out] = Tail(s)] /\ RouteInto(t, Head(s))
        /\ IF Len(s) = 1 THEN Schedule(t) ELSE UNCHANGED <<scheduled, queue>>
    BY <1>6, <2>0 DEF Route
  <2>2. /\ Tail(s) \in Seq(Packets) /\ Len(Tail(s)) = Len(s) - 1 /\ Head(s) \in Packets
        /\ Len(s) >= 1 /\ Len(s) <= kBurstSize
    BY <1>1, <1>2, TailFacts
  <2> HIDE DEF t, s
  <2>3. Len(Tail(s)) <= kBurstSize /\ (Len(s) # 1 => Tail(s) # <<>>)
    <3>1. \A l, k \in Nat : l <= k => l - 1 <= k /\ (l # 1 => l - 1 # 0)
      OBVIOUS
    <3>2. Len(s) - 1 <= kBurstSize /\ (Len(s) # 1 => Len(s) - 1 # 0)
      BY <1>2, <2>2, <3>1, Sizes
    <3>3. Len(Tail(s)) # 0 => Tail(s) # <<>>
      BY <2>2, EmptyFacts
    <3>4. QED BY <2>2, <3>2, <3>3
  <2>4. /\ scratch' \in [Outs -> Seq(Packets)] /\ scratch'[out] = Tail(s)
        /\ \A o \in Outs : o # out => scratch'[o] = scratch[o]
        /\ \A o \in Outs : Len(scratch'[o]) <= kBurstSize
    BY <1>2, <2>1, <2>2, <2>3
  <2>5. /\ bufs' \in Seq(Seq(Packets)) /\ free' \in Seq(Frames')
        /\ drain' \in Seq(Frames') /\ pending' \in [graph.nodes -> Seq(Frames')]
        /\ \A f \in Frames' : Len(bufs'[f]) <= kBurstSize
        /\ \A f \in Elements(drain) : bufs'[f] = bufs[f]
        /\ FramesApart' /\ FreeEmpty'
        /\ \A n \in graph.nodes : n # t => pending'[n] = pending[n]
    <3>0. pending \in [graph.nodes -> Seq(Frames)] /\ free \in Seq(Frames) /\ drain \in Seq(Frames)
      BY DEF FrameInv, TypeOK
    <3>1. CASE pending[t] = <<>> \/ Full(Last(pending[t]))
      <4>1. Acquires(t, <<Head(s)>>)
        BY <1>1, <2>1, <3>1 DEF RouteInto, Acquires
      <4>2. <<Head(s)>> \in Seq(Packets) /\ Len(<<Head(s)>>) <= kBurstSize
        BY <2>2, Sizes, SingleFacts
      <4>3. \A n \in graph.nodes : n # t => pending'[n] = pending[n]
        BY <3>0, <4>1 DEF Acquires
      <4>4. QED BY <1>6, <4>1, <4>2, <4>3, AcquireStep
    <3>2. CASE ~(pending[t] = <<>> \/ Full(Last(pending[t])))
      <4>1. /\ bufs' = [bufs EXCEPT ![Last(pending[t])] = Append(bufs[Last(pending[t])], Head(s))]
            /\ UNCHANGED <<pending, free, drain, graph>>
        BY <1>1, <2>1, <3>2 DEF RouteInto
      <4>2. /\ bufs' \in Seq(Seq(Packets)) /\ Frames' = Frames
            /\ \A f \in Frames : Len(bufs'[f]) <= kBurstSize
            /\ \A f \in Elements(drain) : bufs'[f] = bufs[f]
            /\ FramesApart' /\ FreeEmpty'
        BY <1>6, <2>2, <3>2, <4>1, PushStep
      <4>3. QED BY <3>0, <4>1, <4>2
    <3>3. QED BY <3>1, <3>2
  <2>6. /\ scheduled' \in [graph.nodes -> {0, 1}] /\ queue' \in Seq(graph.nodes)
        /\ Elements(queue) \subseteq Elements(queue')
        /\ \A n \in graph.nodes : scheduled'[n] = 1 => n \in Elements(queue')
        /\ Len(s) = 1 => t \in Elements(queue')
    <3>0. /\ scheduled \in [graph.nodes -> {0, 1}] /\ queue \in Seq(graph.nodes)
          /\ \A n \in graph.nodes : scheduled[n] = 1 => n \in Elements(queue)
      BY DEF FrameInv, TypeOK, Queued
    <3>1. CASE Len(s) = 1 /\ scheduled[t] = 0
      <4>1. scheduled' = [scheduled EXCEPT ![t] = 1] /\ queue' = Append(queue, t)
        BY <2>1, <3>1 DEF Schedule
      <4>2. queue' \in Seq(graph.nodes) /\ Elements(queue') = Elements(queue) \cup {t}
        BY <1>6, <3>0, <4>1, AppendFacts
      <4>3. /\ scheduled' \in [graph.nodes -> {0, 1}]
            /\ \A n \in graph.nodes : n # t => scheduled'[n] = scheduled[n]
        BY <1>6, <3>0, <4>1
      <4>4. QED BY <3>0, <4>2, <4>3
    <3>2. CASE ~(Len(s) = 1 /\ scheduled[t] = 0)
      <4>1. UNCHANGED <<scheduled, queue>>
        BY <2>1, <3>2 DEF Schedule
      <4>2. Len(s) = 1 => scheduled[t] = 1
        BY <1>6, <3>0, <3>2
      <4>3. QED BY <1>6, <3>0, <4>1, <4>2
    <3>3. QED BY <3>1, <3>2
  <2>7. TypeOK'
    BY <1>1, <2>4, <2>5, <2>6 DEF FrameInv, TypeOK
  <2>8. Phase' /\ HeadFrame'
    <3>1. bufs'[Head(drain)] = <<>>
      BY <1>2, <1>4, <2>5
    <3>2. QED BY <1>1, <1>2, <3>1 DEF FrameInv, Phase, HeadFrame
  <2>9. Queued'
    <3>1. ASSUME NEW n \in graph.nodes, pending'[n] # <<>>, n \notin Elements(queue')
          PROVE  \E o \in Outs : scratch'[o] # <<>> /\ Target(graph, node, o) = n
      <4>1. CASE n = t
        <5>1. Len(s) # 1
          BY <2>6, <3>1, <4>1
        <5>2. scratch'[out] # <<>>
          BY <2>3, <2>4, <5>1
        <5>3. QED BY <4>1, <5>2 DEF t
      <4>2. CASE n # t
        <5>1. pending[n] # <<>> /\ n \notin Elements(queue)
          BY <2>5, <2>6, <3>1, <4>2
        <5>2. PICK o \in Outs : scratch[o] # <<>> /\ Target(graph, node, o) = n
          BY <5>1 DEF FrameInv, Queued
        <5>3. o # out
          BY <4>2, <5>2 DEF t
        <5>4. scratch'[o] # <<>>
          BY <2>4, <5>2, <5>3
        <5>5. QED BY <5>2, <5>4
      <4>3. QED BY <4>1, <4>2
    <3>2. QED BY <1>1, <2>6, <3>1 DEF Queued
  <2>10. QED BY <2>5, <2>7, <2>8, <2>9 DEF FrameInv
<1>7. QED BY <1>3, <1>5, <1>6

LEMMA FrameStep == FrameInv /\ [Next]_vars => FrameInv'
<1> SUFFICES ASSUME FrameInv, [Next]_vars PROVE FrameInv'
  OBVIOUS
<1> USE DEF pool, history
<1>1. ASSUME UNCHANGED <<graph, pending, scheduled, queue, node, drain, scratch, bufs,
                         free, arrived, left>>,
             Phase', HeadFrame', pc' \in {"idle", "loop", "drain", "process", "route"},
             pc # "route" \/ pc' = "route"
      PROVE  FrameInv'
  <2>1. Frames' = Frames
    BY <1>1 DEF Frames
  <2>2. TypeOK'
    BY <1>1, <2>1 DEF FrameInv, TypeOK
  <2>3. FramesApart'
    BY <1>1, <2>1, FramesStay
  <2>4. FreeEmpty' /\ Queued'
    BY <1>1 DEF FrameInv, FreeEmpty, Queued
  <2>5. QED BY <1>1, <2>2, <2>3, <2>4 DEF FrameInv
<1>2. CASE Return
  <2>1. drain = <<>>
    BY <1>2 DEF Return, FrameInv, Phase
  <2>2. Phase' /\ HeadFrame'
    BY <1>2, <2>1 DEF Return, FrameInv, Phase, HeadFrame
  <2>3. QED BY <1>1, <1>2, <2>2 DEF Return
<1>3. CASE ProcessDone
  <2>1. Phase' /\ HeadFrame'
    BY <1>3 DEF ProcessDone, FrameInv, Phase, HeadFrame
  <2>2. QED BY <1>1, <1>3, <2>1 DEF ProcessDone
<1>4. CASE NodeDone
  <2>1. Phase' /\ HeadFrame'
    BY <1>4 DEF NodeDone, FrameInv, Phase, HeadFrame
  <2>2. QED BY <1>1, <1>4, <2>1 DEF NodeDone
<1>5. CASE UNCHANGED vars
  <2>1. Phase' /\ HeadFrame'
    BY <1>5 DEF vars, FrameInv, Phase, HeadFrame
  <2>2. pc' = pc /\ pc \in {"idle", "loop", "drain", "process", "route"}
    BY <1>5 DEF vars, FrameInv, TypeOK
  <2>3. QED BY <1>1, <1>5, <2>1, <2>2 DEF vars
<1>6. QED
  BY <1>2, <1>3, <1>4, <1>5, RunOnceStep, PopNodeStep, RunNodeStep, ProcessStep,
     RouteStep, FrameDoneStep DEF Next

LEMMA FrameInvHolds == Spec => []FrameInv
<1>1. QED BY FrameInit, FrameStep, PTL DEF Spec

\* On every graph that Graph::Wire accepts, no frame is written past its
\* capacity, pending, drained and scratch frames alike.
THEOREM FramesFit == Spec => []TypeOK
<1>1. FrameInv => TypeOK
  BY DEF FrameInv
<1>2. QED BY <1>1, FrameInvHolds, PTL

\* On every graph, cyclic ones included, each frame of the pool is always in
\* one place: Acquire never hands out a frame that a node still uses.
THEOREM NoFrameLost == Spec => []FramesConserved
<1>1. FrameInv => FramesConserved
  <2> SUFFICES ASSUME FrameInv, NEW f \in Frames PROVE Cardinality(FramePlaces(f)) = 1
    BY DEF FramesConserved
  <2>1. /\ graph \in Graphs /\ free \in Seq(Frames) /\ drain \in Seq(Frames)
        /\ \A n \in graph.nodes : pending[n] \in Seq(Frames)
    BY DEF FrameInv, TypeOK
  <2>2. FramesApart
    BY DEF FrameInv
  <2>3. "free" \notin graph.nodes /\ "drain" \notin graph.nodes
    BY <2>1, GraphFacts
  <2>4. /\ Stack("free") = free /\ Stack("drain") = drain
        /\ \A n \in graph.nodes : Stack(n) = pending[n]
    BY <2>3 DEF Stack
  <2>5. \A x \in Stacks : Stack(x) \in Seq(Frames) /\ Distinct(Stack(x))
    BY <2>1, <2>2, <2>4 DEF Stacks, FramesApart
  <2>6. ASSUME NEW x \in Stacks, NEW y \in Stacks, x # y
        PROVE  Elements(Stack(x)) \cap Elements(Stack(y)) = {}
    <3>1. CASE x = "free"
      BY <2>2, <2>4, <2>6, <3>1 DEF Stacks, FramesApart
    <3>2. CASE x = "drain"
      BY <2>2, <2>4, <2>6, <3>2 DEF Stacks, FramesApart
    <3>3. CASE x \in graph.nodes
      BY <2>2, <2>4, <2>6, <3>3 DEF Stacks, FramesApart
    <3>4. QED BY <3>1, <3>2, <3>3 DEF Stacks
  <2>7. PICK x \in Stacks : f \in Elements(Stack(x))
    BY <2>2, <2>4 DEF FramesApart, Waiting, Stacks
  <2>8. PICK i \in 1 .. Len(Stack(x)) : Stack(x)[i] = f
    BY <2>5, <2>7, ElementsFacts
  <2>9. \A y \in Stacks : \A j \in DOMAIN Stack(y) : Stack(y)[j] = f => y = x /\ j = i
    <3> SUFFICES ASSUME NEW y \in Stacks, NEW j \in DOMAIN Stack(y), Stack(y)[j] = f
                 PROVE  y = x /\ j = i
      OBVIOUS
    <3>1. j \in 1 .. Len(Stack(y)) /\ f \in Elements(Stack(y))
      BY <2>5, ElementsFacts DEF Elements
    <3>2. y = x
      BY <2>6, <2>7, <3>1
    <3>3. QED BY <2>5, <2>8, <3>1, <3>2 DEF Distinct
  <2>10. i \in DOMAIN Stack(x)
    BY <2>5, <2>8, ElementsFacts
  <2>11. FramePlaces(f) = {<<x, i>>}
    <3>1. <<x, i>> \in FramePlaces(f)
      BY <2>8, <2>10 DEF FramePlaces
    <3>2. ASSUME NEW c \in FramePlaces(f) PROVE c = <<x, i>>
      <4>1. PICK y \in Stacks : c \in {y} \X {j \in DOMAIN Stack(y) : Stack(y)[j] = f}
        BY DEF FramePlaces
      <4>2. c = <<c[1], c[2]>> /\ c[1] = y /\ c[2] \in DOMAIN Stack(y) /\ Stack(y)[c[2]] = f
        BY <4>1
      <4>3. QED BY <2>9, <4>2
    <3>3. QED BY <3>1, <3>2
  <2>12. QED BY <2>11, FS_Singleton
<1>2. QED BY <1>1, FrameInvHolds, PTL

-----------------------------------------------------------------------------
(* Packets.  Frames, scratch frames and the outside of the graph share out *)
(* the packets of the burst.                                               *)

\* F shares out the packets S.
Apart(F, S) ==
  /\ \A h \in DOMAIN F :
       F[h] \in Seq(Packets) /\ Distinct(F[h]) /\ Elements(F[h]) \subseteq S
  /\ \A h, k \in DOMAIN F : h # k => Elements(F[h]) \cap Elements(F[k]) = {}
  /\ \A x \in S : \E h \in DOMAIN F : x \in Elements(F[h])

\* The first packet of a goes to the end of b, which may be new.
PacketMoves(F, G, a, b) ==
  /\ a \in DOMAIN F /\ a # b /\ F[a] # <<>>
  /\ DOMAIN G = DOMAIN F \cup {b}
  /\ G[a] = Tail(F[a])
  /\ \/ b \in DOMAIN F /\ G[b] = Append(F[b], Head(F[a]))
     \/ b \notin DOMAIN F /\ G[b] = <<Head(F[a])>>
  /\ \A h \in DOMAIN F : h \notin {a, b} => G[h] = F[h]

LEMMA MovedApart ==
  ASSUME NEW F, NEW G, NEW a, NEW b, NEW S, Apart(F, S), PacketMoves(F, G, a, b)
  PROVE  Apart(G, S)
<1> DEFINE x == Head(F[a])
<1>1. /\ a \in DOMAIN F /\ a # b /\ F[a] # <<>> /\ DOMAIN G = DOMAIN F \cup {b}
      /\ G[a] = Tail(F[a]) /\ \A h \in DOMAIN F : h \notin {a, b} => G[h] = F[h]
  BY DEF PacketMoves
<1>2. F[a] \in Seq(Packets) /\ Distinct(F[a])
  BY <1>1 DEF Apart
<1>3. /\ G[a] \in Seq(Packets) /\ Distinct(G[a]) /\ x \in Packets /\ x \in Elements(F[a])
      /\ Elements(F[a]) = Elements(G[a]) \cup {x} /\ x \notin Elements(G[a])
  BY <1>1, <1>2, TailFacts
<1>4. (b \in DOMAIN F /\ G[b] = Append(F[b], x)) \/ (b \notin DOMAIN F /\ G[b] = <<x>>)
  BY DEF PacketMoves
<1> HIDE DEF x
<1>5. \A h \in DOMAIN F : h # a => x \notin Elements(F[h])
  BY <1>1, <1>3 DEF Apart
<1>6. /\ G[b] \in Seq(Packets) /\ Distinct(G[b])
      /\ \A y : y \in Elements(G[b]) <=> y = x \/ (b \in DOMAIN F /\ y \in Elements(F[b]))
  <2>1. CASE b \in DOMAIN F /\ G[b] = Append(F[b], x)
    <3>1. F[b] \in Seq(Packets) /\ Distinct(F[b]) /\ x \notin Elements(F[b])
      BY <1>1, <1>5, <2>1 DEF Apart
    <3>2. /\ Append(F[b], x) \in Seq(Packets) /\ Distinct(Append(F[b], x))
          /\ Elements(Append(F[b], x)) = Elements(F[b]) \cup {x}
      BY <1>3, <3>1, AppendFacts
    <3>3. QED BY <2>1, <3>2
  <2>2. CASE b \notin DOMAIN F /\ G[b] = <<x>>
    BY <1>3, <2>2, SingleFacts
  <2>3. QED BY <1>4, <2>1, <2>2
<1>7. x \in S
  BY <1>1, <1>3 DEF Apart
<1>8. ASSUME NEW h \in DOMAIN G
      PROVE  G[h] \in Seq(Packets) /\ Distinct(G[h]) /\ Elements(G[h]) \subseteq S
  <2>1. CASE h = a
    BY <1>1, <1>3, <2>1 DEF Apart
  <2>2. CASE h = b
    BY <1>6, <1>7, <2>2 DEF Apart
  <2>3. CASE h \notin {a, b}
    BY <1>1, <1>8, <2>3 DEF Apart
  <2>4. QED BY <2>1, <2>2, <2>3
<1>9. ASSUME NEW h \in DOMAIN G, NEW k \in DOMAIN G, h # k, NEW y \in Elements(G[h]),
             y \in Elements(G[k])
      PROVE  FALSE
  <2>1. ASSUME NEW m \in DOMAIN G, y \in Elements(G[m])
        PROVE  \/ m # b /\ m \in DOMAIN F /\ y \in Elements(F[m]) /\ (m = a => y # x)
               \/ m = b /\ y = x
               \/ m = b /\ m \in DOMAIN F /\ y \in Elements(F[m])
    <3>1. CASE m = b
      BY <1>6, <2>1, <3>1
    <3>2. CASE m = a
      BY <1>1, <1>3, <2>1, <3>2
    <3>3. CASE m \notin {a, b}
      BY <1>1, <2>1, <3>3
    <3>4. QED BY <3>1, <3>2, <3>3
  <2>2. \A m, n \in DOMAIN F : m # n => ~(y \in Elements(F[m]) /\ y \in Elements(F[n]))
    BY DEF Apart
  <2>3. y = x => \A m \in DOMAIN F : y \in Elements(F[m]) => m = a
    BY <1>5
  <2>4. QED BY <1>9, <2>1, <2>2, <2>3
<1>10. ASSUME NEW y \in S PROVE \E h \in DOMAIN G : y \in Elements(G[h])
  <2>1. PICK h \in DOMAIN F : y \in Elements(F[h])
    BY DEF Apart
  <2>2. CASE y = x
    BY <1>1, <1>6, <2>2
  <2>3. CASE y # x
    <3>1. h \in DOMAIN G /\ y \in Elements(G[h])
      <4>1. CASE h = a
        BY <1>1, <1>3, <2>1, <2>3, <4>1
      <4>2. CASE h = b
        BY <1>1, <1>6, <2>1, <4>2
      <4>3. CASE h \notin {a, b}
        BY <1>1, <2>1, <4>3
      <4>4. QED BY <4>1, <4>2, <4>3
    <3>2. QED BY <3>1
  <2>4. QED BY <2>2, <2>3
<1>11. QED BY <1>8, <1>9, <1>10 DEF Apart

\* All packets are in b, or there are none.
LEMMA SoleApart ==
  ASSUME NEW G, NEW b \in DOMAIN G, G[b] \in Seq(Packets), Distinct(G[b]),
         \A h \in DOMAIN G : h # b => G[h] = <<>>
  PROVE  Apart(G, Elements(G[b]))
<1>1. <<>> \in Seq(Packets) /\ Distinct(<<>>) /\ Elements(<<>>) = {}
  BY EmptyFacts
<1>2. QED BY <1>1 DEF Apart

LeftPackets == [i \in DOMAIN left |-> left[i].p]
Contents == [h \in Holders |-> Held(h)]
LEFT == <<"left", 0>>

LEMMA ContentsFacts ==
  /\ DOMAIN Contents = Holders
  /\ \A f \in Frames : <<"frame", f>> \in Holders /\ Contents[<<"frame", f>>] = bufs[f]
  /\ \A o \in Outs : <<"scratch", o>> \in Holders /\ Contents[<<"scratch", o>>] = scratch[o]
  /\ LEFT \in Holders /\ Contents[LEFT] = LeftPackets
  /\ \A h \in Holders : \/ \E f \in Frames : h = <<"frame", f>>
                        \/ \E o \in Outs : h = <<"scratch", o>>
                        \/ h = LEFT
<1>1. \A f \in Frames : <<"frame", f>> \in Holders /\ Held(<<"frame", f>>) = bufs[f]
  BY DEF Holders, Held
<1>2. \A o \in Outs : <<"scratch", o>> \in Holders /\ Held(<<"scratch", o>>) = scratch[o]
  BY DEF Holders, Held
<1>3. LEFT \in Holders /\ Held(LEFT) = LeftPackets
  BY DEF Holders, Held, LEFT, LeftPackets
<1>4. \A h \in Holders : \/ \E f \in Frames : h = <<"frame", f>>
                         \/ \E o \in Outs : h = <<"scratch", o>>
                         \/ h = LEFT
  BY DEF Holders, LEFT
<1>5. QED BY <1>1, <1>2, <1>3, <1>4 DEF Contents

LEMMA ContentsFactsNext ==
  /\ DOMAIN Contents' = Holders'
  /\ \A f \in Frames' : <<"frame", f>> \in Holders' /\ Contents'[<<"frame", f>>] = bufs'[f]
  /\ \A o \in Outs : <<"scratch", o>> \in Holders' /\ Contents'[<<"scratch", o>>] = scratch'[o]
  /\ LEFT \in Holders' /\ Contents'[LEFT] = LeftPackets'
  /\ \A h \in Holders' : \/ \E f \in Frames' : h = <<"frame", f>>
                         \/ \E o \in Outs : h = <<"scratch", o>>
                         \/ h = LEFT
<1>1. \A f \in Frames' : <<"frame", f>> \in Holders' /\ Held(<<"frame", f>>)' = bufs'[f]
  BY DEF Holders, Held
<1>2. \A o \in Outs : <<"scratch", o>> \in Holders' /\ Held(<<"scratch", o>>)' = scratch'[o]
  BY DEF Holders, Held
<1>3. LEFT \in Holders' /\ Held(LEFT)' = LeftPackets'
  BY DEF Holders, Held, LEFT, LeftPackets
<1>4. \A h \in Holders' : \/ \E f \in Frames' : h = <<"frame", f>>
                          \/ \E o \in Outs : h = <<"scratch", o>>
                          \/ h = LEFT
  BY DEF Holders, LEFT
<1>5. QED BY <1>1, <1>2, <1>3, <1>4 DEF Contents

LEMMA HoldersApart ==
  /\ \A f, g : f # g => <<"frame", f>> # <<"frame", g>>
  /\ \A o, q : o # q => <<"scratch", o>> # <<"scratch", q>>
  /\ \A f, o : <<"frame", f>> # <<"scratch", o>> /\ <<"frame", f>> # LEFT
               /\ <<"scratch", o>> # LEFT
BY DEF LEFT

\* Every output a packet may be moved to is wired, the root is a source, and no
\* node feeds a source.
Complete(g) ==
  /\ \A n \in g.nodes, c \in Classes : \A out \in Verdicts(n, c) :
       out = Gone \/ WireFrom(g, n, out) # {}
  /\ g.root \in Sources /\ \A w \in g.wires : w[3] \notin Sources

AllComplete == \A g \in Graphs : Complete(g)

\* No packet is around.
Quiet ==
  /\ arrived = <<>> /\ left = <<>> /\ scratch = NoScratch
  /\ \A f \in Frames : bufs[f] = <<>>

\* A source works on the seed frame alone, and before anything else happens.
Feeding == drain # <<>> /\ node \in Sources

SourceFirst ==
  /\ \A n \in graph.nodes :
       n \in Sources /\ pending[n] # <<>> =>
         n = graph.root /\ Len(pending[n]) = 1 /\ Quiet /\ ~Feeding
  /\ Feeding => Len(drain) = 1 /\ (pc = "drain" => Quiet)

\* Only wired outputs get packets.
OutsWired == \A o \in Outs : scratch[o] # <<>> => WireFrom(graph, node, o) # {}

PacketInv == FrameInv /\ SourceFirst /\ OutsWired /\ Apart(Contents, Elements(arrived))

\* When RunOnce is called, everything is empty but the history.
LEMMA IdleQuiet ==
  ASSUME FrameInv, pc = "idle"
  PROVE  scratch = NoScratch /\ drain = <<>> /\ \A f \in Frames : bufs[f] = <<>>
<1>1. drain = <<>> /\ scratch = NoScratch
  BY DEF FrameInv, Phase
<1>2. \A n \in graph.nodes : Elements(pending[n]) = {}
  BY IdleEmpty, EmptyFacts
<1>3. \A f \in Frames : f \in Elements(free)
  BY <1>1, <1>2, EmptyFacts DEF FrameInv, FramesApart, Waiting
<1>4. QED BY <1>1, <1>3 DEF FrameInv, FreeEmpty

LEMMA QuietApart ==
  ASSUME Quiet
  PROVE  \A h \in Holders : Contents[h] = <<>>
<1>1. LeftPackets = <<>>
  BY DEF Quiet, LeftPackets
<1>2. \A o \in Outs : scratch[o] = <<>>
  BY DEF Quiet, NoScratch
<1>3. QED BY <1>1, <1>2, ContentsFacts DEF Quiet

LEMMA QuietApartNext ==
  ASSUME Quiet'
  PROVE  Apart(Contents, Elements(arrived))'
<1>1. LeftPackets' = <<>>
  BY DEF Quiet, LeftPackets
<1>2. \A o \in Outs : scratch'[o] = <<>>
  BY DEF Quiet, NoScratch
<1>3. \A h \in Holders' : Contents'[h] = <<>>
  BY <1>1, <1>2, ContentsFactsNext DEF Quiet
<1>4. LEFT \in DOMAIN Contents' /\ Contents'[LEFT] = <<>> /\ DOMAIN Contents' = Holders'
  BY <1>3, ContentsFactsNext
<1>5. <<>> \in Seq(Packets) /\ Distinct(<<>>) /\ Elements(<<>>) = {}
  BY EmptyFacts
<1>6. Apart(Contents', Elements(Contents'[LEFT]))
  BY <1>3, <1>4, <1>5, SoleApart
<1>7. Elements(arrived') = Elements(Contents'[LEFT])
  BY <1>4 DEF Quiet
<1>8. Apart(Contents', Elements(arrived'))
  BY <1>6, <1>7
<1>9. QED BY <1>8 DEF Apart, Elements

LEMMA PacketInit == Init => PacketInv
<1> SUFFICES ASSUME Init PROVE PacketInv
  OBVIOUS
<1>1. FrameInv
  BY FrameInit
<1>2. Quiet
  BY <1>1, IdleQuiet DEF Init, Quiet
<1>3. \A h \in Holders : Contents[h] = <<>>
  BY <1>2, QuietApart
<1>4. Apart(Contents, Elements(arrived))
  <2>1. LEFT \in DOMAIN Contents /\ Contents[LEFT] = <<>> /\ DOMAIN Contents = Holders
    BY <1>3, ContentsFacts
  <2>2. <<>> \in Seq(Packets) /\ Distinct(<<>>)
    BY EmptyFacts
  <2>3. Apart(Contents, Elements(Contents[LEFT]))
    BY <1>3, <2>1, <2>2, SoleApart
  <2>4. QED BY <1>2, <2>1, <2>3 DEF Quiet
<1>5. SourceFirst
  BY DEF Init, SourceFirst, Feeding
<1>6. OutsWired
  BY DEF Init, OutsWired, NoScratch
<1>7. QED BY <1>1, <1>4, <1>5, <1>6 DEF PacketInv

LEMMA PacketRunOnce ==
  ASSUME PacketInv, RunOnce, FrameInv'
  PROVE  PacketInv'
<1>1. FrameInv /\ pc = "idle" /\ graph' = graph
  BY DEF PacketInv, RunOnce
<1>2. drain = <<>> /\ scratch = NoScratch /\ \A f \in Frames : bufs[f] = <<>>
  BY <1>1, IdleQuiet
<1>3. UNCHANGED <<node, drain, scratch>> /\ arrived' = <<>> /\ left' = <<>>
  BY DEF RunOnce
<1>4. \A f \in Frames' : bufs'[f] = <<>>
  <2>1. PICK r : \E stale : /\ r = free \o stale /\ bufs' = Stored(Acquired(r), <<>>)
    BY DEF RunOnce
  <2>2. CASE Acquired(r) \in Frames
    <3>1. bufs' = [bufs EXCEPT ![Acquired(r)] = <<>>]
      BY <2>1, <2>2 DEF Stored
    <3>2. QED BY <1>2, <3>1 DEF Frames
  <2>3. CASE Acquired(r) \notin Frames
    <3>1. bufs' = Append(bufs, <<>>)
      BY <2>1, <2>3 DEF Stored
    <3>2. bufs \in Seq(Seq(Packets)) /\ <<>> \in Seq(Packets) /\ Frames = 1 .. Len(bufs)
      BY <1>1 DEF FrameInv, TypeOK, Frames
    <3>3. Frames' = 1 .. Len(bufs) + 1 /\ bufs'[Len(bufs) + 1] = <<>>
          /\ \A f \in 1 .. Len(bufs) : bufs'[f] = bufs[f]
      BY <3>1, <3>2 DEF Frames
    <3>4. QED BY <1>2, <3>2, <3>3
  <2>4. QED BY <2>2, <2>3
<1>5. Quiet'
  BY <1>2, <1>3, <1>4 DEF Quiet
<1>6. OutsWired'
  BY <1>2, <1>3 DEF OutsWired, NoScratch
<1>7. SourceFirst'
  <2>1. /\ \A n \in graph.nodes : n # graph.root => pending'[n] = <<>>
        /\ graph.root \in graph.nodes => Len(pending'[graph.root]) = 1
    BY DEF RunOnce
  <2>2. QED BY <1>1, <1>2, <1>3, <1>5, <2>1 DEF SourceFirst, Feeding
<1>8. QED BY <1>5, <1>6, <1>7, QuietApartNext DEF PacketInv

\* A step that moves frames but no packet.
LEMMA PacketsStay ==
  ASSUME PacketInv, FrameInv', UNCHANGED <<graph, bufs, scratch, arrived, left>>,
         node' = node \/ scratch = NoScratch,
         SourceFirst'
  PROVE  PacketInv'
<1>1. Contents' = Contents /\ Elements(arrived') = Elements(arrived)
  BY DEF Contents, Holders, Held, Frames
<1>2. Apart(Contents', Elements(arrived'))
  BY <1>1 DEF PacketInv
<1>3. Apart(Contents, Elements(arrived))'
  BY <1>2 DEF Apart, Elements
<1>4. OutsWired'
  BY DEF PacketInv, OutsWired, NoScratch
<1>5. QED BY <1>3, <1>4 DEF PacketInv

LEMMA QuietStays ==
  ASSUME UNCHANGED <<bufs, scratch, arrived, left>>
  PROVE  Quiet' <=> Quiet
BY DEF Quiet, Frames

LEMMA PacketPopNode ==
  ASSUME PacketInv, PopNode, FrameInv'
  PROVE  PacketInv'
<1> USE DEF pool, history
<1>1. /\ UNCHANGED <<graph, bufs, scratch, arrived, left>> /\ pc = "loop"
      /\ drain' = pending[node'] /\ pending' = [pending EXCEPT ![node'] = <<>>]
      /\ node' = Last(queue) /\ queue # <<>>
  BY DEF PopNode
<1>2. /\ scratch = NoScratch /\ drain = <<>> /\ queue \in Seq(graph.nodes)
      /\ pending \in [graph.nodes -> Seq(Frames)] /\ SourceFirst
  BY <1>1 DEF PacketInv, FrameInv, Phase, TypeOK
<1>3. node' \in graph.nodes
  BY <1>1, <1>2, FrontFacts
<1>4. Quiet' <=> Quiet
  BY <1>1, QuietStays
<1>5. /\ pending'[node'] = <<>>
      /\ \A n \in graph.nodes : n # node' => pending'[n] = pending[n]
  BY <1>1, <1>2, <1>3
<1>6. Feeding' => node' = graph.root /\ Len(drain') = 1 /\ Quiet'
  BY <1>1, <1>2, <1>3, <1>4 DEF SourceFirst, Feeding
<1>7. \A n \in graph.nodes :
        n \in Sources /\ pending'[n] # <<>> =>
          n = graph.root /\ Len(pending'[n]) = 1 /\ Quiet' /\ n # node'
  BY <1>2, <1>4, <1>5 DEF SourceFirst
<1>8. SourceFirst'
  BY <1>1, <1>6, <1>7 DEF SourceFirst
<1>9. QED BY <1>1, <1>2, <1>8, PacketsStay

LEMMA PacketFrameDone ==
  ASSUME PacketInv, FrameDone, FrameInv'
  PROVE  PacketInv'
<1> USE DEF pool, history
<1> DEFINE h == Head(drain)
<1>1. /\ pc = "route" /\ UNCHANGED <<graph, pending, node, scratch, arrived, left>>
      /\ drain' = Tail(drain) /\ bufs' = [bufs EXCEPT ![h] = <<>>] /\ pc' = "drain"
  BY DEF FrameDone
<1>2. /\ drain # <<>> /\ drain \in Seq(Frames) /\ bufs[h] = <<>>
      /\ bufs \in Seq(Seq(Packets)) /\ SourceFirst
  BY <1>1 DEF PacketInv, FrameInv, Phase, TypeOK, HeadFrame
<1> HIDE DEF h
<1>3. bufs' = bufs
  BY <1>1, <1>2
<1>4. Quiet' <=> Quiet
  BY <1>1, <1>3, QuietStays
<1>5. ~Feeding'
  <2>1. Feeding' => Feeding
    BY <1>1, <1>2 DEF Feeding
  <2>2. Len(drain') = Len(drain) - 1 /\ drain' \in Seq(Frames)
    BY <1>1, <1>2, TailFacts
  <2>3. Len(drain) = 1 => Len(drain') = 0
    BY <2>2
  <2>4. Len(drain') = 0 => drain' = <<>>
    BY <2>2, ElementsFacts
  <2>5. QED BY <1>2, <2>1, <2>3, <2>4 DEF SourceFirst, Feeding
<1>6. \A n \in graph.nodes :
        n \in Sources /\ pending[n] # <<>> => n = graph.root /\ Len(pending[n]) = 1 /\ Quiet
  BY <1>2 DEF SourceFirst
<1>7. SourceFirst'
  BY <1>1, <1>4, <1>5, <1>6 DEF SourceFirst
<1>8. QED BY <1>1, <1>3, <1>7, PacketsStay

\* The steps that only move on.
LEMMA PacketPass ==
  ASSUME PacketInv, FrameInv', Return \/ ProcessDone \/ NodeDone \/ UNCHANGED vars
  PROVE  PacketInv'
<1> USE DEF pool, history
<1>1. /\ UNCHANGED <<graph, pending, node, drain, bufs, scratch, arrived, left>>
      /\ pc' = "drain" => pc = "drain"
  BY DEF Return, ProcessDone, NodeDone, vars
<1>2. Quiet' <=> Quiet
  BY <1>1, QuietStays
<1>3. SourceFirst'
  BY <1>1, <1>2 DEF PacketInv, SourceFirst, Feeding
<1>4. QED BY <1>1, <1>3, PacketsStay

\* A source fills the one frame there is with the burst.
LEMMA PacketRunNode ==
  ASSUME PacketInv, RunNode, FrameInv'
  PROVE  PacketInv'
<1> DEFINE h == Head(drain)
<1>1. /\ pc = "drain" /\ drain # <<>> /\ pc' = "process"
      /\ UNCHANGED <<graph, pending, node, drain, scratch, left>>
  BY DEF RunNode
<1>2. FrameInv /\ SourceFirst /\ h \in Frames /\ scratch = NoScratch
  BY <1>1, HeadDrain DEF PacketInv, FrameInv, Phase
<1> HIDE DEF h
<1>3. CASE node \notin Sources
  <2>1. UNCHANGED <<bufs, arrived>>
    BY <1>3 DEF RunNode
  <2>2. Quiet' <=> Quiet
    BY <1>1, <2>1, QuietStays
  <2>3. ~Feeding' /\ ~Feeding
    BY <1>1, <1>3 DEF Feeding
  <2>4. SourceFirst'
    BY <1>1, <1>2, <2>2, <2>3 DEF SourceFirst
  <2>5. QED BY <1>1, <2>1, <2>4, PacketsStay
<1>4. CASE node \in Sources
  <2>1. Feeding /\ Quiet /\ Len(drain) = 1
    BY <1>1, <1>2, <1>4 DEF SourceFirst, Feeding
  <2>2. PICK b \in Bursts : bufs' = [bufs EXCEPT ![h] = b] /\ arrived' = b
    BY <1>4 DEF RunNode, h
  <2>3. b \in Seq(Packets) /\ Distinct(b) /\ Len(b) <= kBurstSize
    BY BurstFacts
  <2>4. Frames' = Frames /\ bufs'[h] = b /\ \A g \in Frames : g # h => bufs'[g] = bufs[g]
    BY <1>2, <2>2, <2>3, BufsPut DEF FrameInv
  <2>5. \A g \in Frames : bufs[g] = <<>>
    BY <2>1 DEF Quiet
  <2>6. LeftPackets' = <<>>
    BY <1>1, <2>1 DEF Quiet, LeftPackets
  <2>7. \A o \in Outs : scratch'[o] = <<>>
    BY <1>1, <1>2 DEF NoScratch
  <2> DEFINE k == <<"frame", h>>
  <2>8. k \in DOMAIN Contents' /\ Contents'[k] = b /\ DOMAIN Contents' = Holders'
    BY <1>2, <2>4, ContentsFactsNext
  <2>9. \A m \in Holders' : m # k => Contents'[m] = <<>>
    BY <2>4, <2>5, <2>6, <2>7, ContentsFactsNext
  <2> HIDE DEF k
  <2>10. Apart(Contents', Elements(Contents'[k]))
    BY <2>3, <2>8, <2>9, SoleApart
  <2>11. Apart(Contents', Elements(arrived'))
    BY <2>2, <2>8, <2>10
  <2>12. Apart(Contents, Elements(arrived))'
    BY <2>11 DEF Apart, Elements
  <2>13. \A n \in graph.nodes : n \in Sources => pending[n] = <<>>
    BY <1>2, <2>1 DEF SourceFirst
  <2>14. SourceFirst'
    BY <1>1, <2>1, <2>13 DEF SourceFirst
  <2>15. OutsWired'
    BY <2>7 DEF OutsWired
  <2>16. QED BY <2>12, <2>14, <2>15 DEF PacketInv
<1>5. QED BY <1>3, <1>4

\* With a packet in hand no source waits.
LEMMA NoSourceWaits ==
  ASSUME SourceFirst, ~Quiet
  PROVE  \A n \in graph.nodes : n \in Sources => pending[n] = <<>>
BY DEF SourceFirst

LEMMA SourceFirstStays ==
  ASSUME SourceFirst, ~Quiet, pc # "drain", UNCHANGED <<graph, pc, node, drain>>,
         \A n \in graph.nodes : n \in Sources => pending'[n] = pending[n]
  PROVE  SourceFirst'
<1>1. \A n \in graph.nodes : n \in Sources => pending'[n] = <<>>
  BY NoSourceWaits
<1>2. QED BY <1>1 DEF SourceFirst, Feeding

\* A packet that moves is still one of the burst.
LEMMA PacketMoved ==
  ASSUME PacketInv, FrameInv', arrived' = arrived, SourceFirst', OutsWired',
         NEW a, NEW b, PacketMoves(Contents, Contents', a, b)
  PROVE  PacketInv'
<1>1. Apart(Contents', Elements(arrived))
  BY MovedApart DEF PacketInv
<1>2. Apart(Contents', Elements(arrived'))
  BY <1>1
<1>3. Apart(Contents, Elements(arrived))'
  BY <1>2 DEF Apart, Elements
<1>4. QED BY <1>3 DEF PacketInv

LEMMA LeftAppend ==
  ASSUME NEW p \in Packets, NEW n, left \in Seq([p : Packets, at : graph.nodes]),
         n \in graph.nodes, left' = Append(left, [p |-> p, at |-> n])
  PROVE  LeftPackets' = Append(LeftPackets, p)
<1> DEFINE e == [p |-> p, at |-> n]
           E == [p : Packets, at : graph.nodes]
<1>1. e \in E /\ e.p = p /\ left \in Seq(E) /\ left' = Append(left, e)
  OBVIOUS
<1>3. \A x \in E : x.p \in Packets
  OBVIOUS
<1> HIDE DEF e, E
<1>2. \A i \in DOMAIN left : left[i] \in E
  BY <1>1
<1>4. /\ left' \in Seq(E) /\ Len(left') = Len(left) + 1 /\ Len(left) \in Nat
      /\ left'[Len(left) + 1] = e /\ \A i \in 1 .. Len(left) : left'[i] = left[i]
      /\ DOMAIN left' = 1 .. Len(left) + 1 /\ DOMAIN left = 1 .. Len(left)
  BY <1>1
<1>5. LeftPackets = [i \in 1 .. Len(left) |-> left[i].p]
  BY <1>4 DEF LeftPackets
<1>6. LeftPackets' = [i \in 1 .. Len(left) + 1 |-> left'[i].p]
  BY <1>4 DEF LeftPackets
<1>7. LeftPackets \in Seq(Packets) /\ Len(LeftPackets) = Len(left)
  BY <1>2, <1>3, <1>4, <1>5
<1>8. \A i \in 1 .. Len(left) + 1 : i = Len(left) + 1 \/ i \in 1 .. Len(left)
  BY <1>4
<1>9. \A i \in 1 .. Len(left) + 1 : LeftPackets'[i] =
        IF i = Len(left) + 1 THEN p ELSE LeftPackets[i]
  BY <1>1, <1>4, <1>5, <1>6, <1>8
<1>10. LeftPackets' \in Seq(Packets) /\ Len(LeftPackets') = Len(left) + 1
  <2>1. \A i \in 1 .. Len(left) + 1 : left'[i].p \in Packets
    BY <1>3, <1>4
  <2>2. QED BY <1>4, <1>6, <2>1
<1>11. Append(LeftPackets, p) \in Seq(Packets) /\ Len(Append(LeftPackets, p)) = Len(left) + 1
       /\ \A i \in 1 .. Len(left) + 1 : Append(LeftPackets, p)[i] =
            IF i = Len(left) + 1 THEN p ELSE LeftPackets[i]
  BY <1>4, <1>7, <1>8
<1>12. QED BY <1>9, <1>10, <1>11

LEMMA HoldersNext ==
  ASSUME NEW f, Frames' = Frames \cup {f}
  PROVE  Holders' = Holders \cup {<<"frame", f>>}
BY DEF Holders

\* The packet that the node decides on.
Current == Head(bufs[Head(drain)])

\* The node moves the first packet of its frame to an output, or out.
LEMMA ProcessMoves ==
  ASSUME PacketInv, Process
  PROVE  /\ drain # <<>> /\ Head(drain) \in Frames /\ bufs[Head(drain)] # <<>>
         /\ Current \in Packets
         /\ \E out \in Verdicts(node, Class[Current]) :
              \/ /\ out = Gone /\ scratch' = scratch
                 /\ left' = Append(left, [p |-> Current, at |-> node])
                 /\ PacketMoves(Contents, Contents', <<"frame", Head(drain)>>, LEFT)
              \/ /\ out # Gone /\ out \in Outs /\ left' = left
                 /\ scratch'[out] = Append(scratch[out], Current)
                 /\ \A o \in Outs : o # out => scratch'[o] = scratch[o]
                 /\ PacketMoves(Contents, Contents', <<"frame", Head(drain)>>, <<"scratch", out>>)
<1> DEFINE h == Head(drain)
           p == Current
           a == <<"frame", h>>
<1>1. pc = "process" /\ bufs[h] # <<>> /\ bufs' = [bufs EXCEPT ![h] = Tail(bufs[h])]
  BY DEF Process
<1>2. FrameInv /\ drain # <<>>
  BY <1>1 DEF PacketInv, FrameInv, Phase
<1>3. h \in Frames
  BY <1>2, HeadDrain DEF FrameInv
<1>4. PICK out \in Verdicts(node, Class[p]) :
        IF out = Gone
        THEN left' = Append(left, [p |-> p, at |-> node]) /\ scratch' = scratch
        ELSE scratch' = [scratch EXCEPT ![out] = Append(scratch[out], p)] /\ left' = left
  BY DEF Process, Current
<1>5. bufs[h] \in Seq(Packets)
  BY <1>2, <1>3, BufsType DEF FrameInv
<1> HIDE DEF h
<1>6. Tail(bufs[h]) \in Seq(Packets) /\ Head(bufs[h]) \in Packets
  BY <1>1, <1>5, TailFacts
<1>7. p \in Packets /\ p = Head(bufs[h])
  BY <1>6 DEF Current, h
<1> HIDE DEF p
<1>8. /\ Frames' = Frames /\ bufs'[h] = Tail(bufs[h])
      /\ \A g \in Frames : g # h => bufs'[g] = bufs[g]
  BY <1>1, <1>2, <1>3, <1>6, BufsPut DEF FrameInv
<1>9. /\ scratch \in [Outs -> Seq(Packets)] /\ left \in Seq([p : Packets, at : graph.nodes])
      /\ node \in graph.nodes
  BY <1>2 DEF FrameInv, TypeOK
<1>10. Holders' = Holders
  BY <1>8 DEF Holders
<1>11. /\ a \in Holders /\ Contents[a] = bufs[h] /\ Contents'[a] = Tail(bufs[h])
       /\ DOMAIN Contents = Holders /\ DOMAIN Contents' = Holders
  BY <1>3, <1>8, <1>10, ContentsFacts, ContentsFactsNext
<1>12. CASE out = Gone
  <2>1. left' = Append(left, [p |-> p, at |-> node]) /\ scratch' = scratch
    BY <1>4, <1>12
  <2>2. LeftPackets' = Append(LeftPackets, p)
    BY <1>7, <1>9, <2>1, LeftAppend
  <2>3. LEFT \in Holders /\ Contents'[LEFT] = Append(Contents[LEFT], p) /\ a # LEFT
    BY <2>2, ContentsFacts, ContentsFactsNext, HoldersApart
  <2>4. ASSUME NEW k \in Holders, k # a, k # LEFT PROVE Contents'[k] = Contents[k]
    <3>1. CASE \E f \in Frames : k = <<"frame", f>>
      BY <1>8, <2>4, <3>1, ContentsFacts, ContentsFactsNext
    <3>2. CASE \E o \in Outs : k = <<"scratch", o>>
      BY <2>1, <3>2, ContentsFacts, ContentsFactsNext
    <3>3. QED BY <2>4, <3>1, <3>2, ContentsFacts
  <2> HIDE DEF a
  <2>5. PacketMoves(Contents, Contents', a, LEFT)
    BY <1>1, <1>7, <1>11, <2>3, <2>4 DEF PacketMoves
  <2>6. QED BY <1>1, <1>2, <1>3, <1>7, <1>12, <2>1, <2>5 DEF a, h, p
<1>13. CASE out # Gone
  <2>1. scratch' = [scratch EXCEPT ![out] = Append(scratch[out], p)] /\ left' = left
    BY <1>4, <1>13
  <2>2. out \in Outs
    BY <1>13, VerdictFacts
  <2>3. /\ scratch'[out] = Append(scratch[out], p)
        /\ \A o \in Outs : o # out => scratch'[o] = scratch[o]
    BY <1>9, <2>1, <2>2
  <2> DEFINE b == <<"scratch", out>>
  <2>4. b \in Holders /\ Contents'[b] = Append(Contents[b], p) /\ a # b
    BY <2>2, <2>3, ContentsFacts, ContentsFactsNext, HoldersApart
  <2>5. ASSUME NEW k \in Holders, k # a, k # b PROVE Contents'[k] = Contents[k]
    <3>1. CASE \E f \in Frames : k = <<"frame", f>>
      BY <1>8, <2>5, <3>1, ContentsFacts, ContentsFactsNext
    <3>2. CASE \E o \in Outs : k = <<"scratch", o>>
      BY <2>3, <2>5, <3>2, ContentsFacts, ContentsFactsNext
    <3>3. CASE k = LEFT
      <4>1. LeftPackets' = LeftPackets
        BY <2>1 DEF LeftPackets
      <4>2. QED BY <3>3, <4>1, ContentsFacts, ContentsFactsNext
    <3>4. QED BY <3>1, <3>2, <3>3, ContentsFacts
  <2> HIDE DEF a, b
  <2>6. PacketMoves(Contents, Contents', a, b)
    BY <1>1, <1>7, <1>11, <2>4, <2>5 DEF PacketMoves
  <2>7. QED BY <1>1, <1>2, <1>3, <1>7, <1>13, <2>1, <2>2, <2>3, <2>6 DEF a, b, h, p
<1>14. QED BY <1>12, <1>13

LEMMA PacketProcess ==
  ASSUME PacketInv, AllComplete, Process, FrameInv'
  PROVE  PacketInv'
<1>1. pc = "process" /\ UNCHANGED <<graph, pc, pending, node, drain, arrived>>
  BY DEF Process
<1>2. SourceFirst /\ OutsWired /\ node \in graph.nodes /\ graph \in Graphs
  BY DEF PacketInv, FrameInv, TypeOK
<1>3. Head(drain) \in Frames /\ bufs[Head(drain)] # <<>> /\ Current \in Packets
  BY ProcessMoves
<1>4. ~Quiet
  BY <1>3 DEF Quiet
<1>5. SourceFirst'
  BY <1>1, <1>2, <1>4, SourceFirstStays
<1>6. PICK out \in Verdicts(node, Class[Current]) :
        \/ /\ out = Gone /\ scratch' = scratch
           /\ PacketMoves(Contents, Contents', <<"frame", Head(drain)>>, LEFT)
        \/ /\ out # Gone
           /\ \A o \in Outs : o # out => scratch'[o] = scratch[o]
           /\ PacketMoves(Contents, Contents', <<"frame", Head(drain)>>, <<"scratch", out>>)
  BY ProcessMoves
<1>7. Class[Current] \in Classes
  BY <1>3, DispatcherAssumption
<1>8. OutsWired'
  <2>1. out = Gone \/ WireFrom(graph, node, out) # {}
    BY <1>2, <1>7 DEF AllComplete, Complete
  <2>2. QED BY <1>1, <1>2, <1>6, <2>1 DEF OutsWired
<1>9. arrived' = arrived /\ \E a, b : PacketMoves(Contents, Contents', a, b)
  BY <1>1, <1>6
<1>10. QED BY <1>5, <1>8, <1>9, PacketMoved

\* A packet of output out goes to the end of frame f, an old one or a new one.
LEMMA RouteMoves ==
  ASSUME NEW out \in Outs, NEW f, NEW p, scratch[out] # <<>>, p = Head(scratch[out]),
         scratch'[out] = Tail(scratch[out]),
         \A o \in Outs : o # out => scratch'[o] = scratch[o],
         left' = left, Frames' = Frames \cup {f},
         \/ f \in Frames /\ bufs'[f] = Append(bufs[f], p)
         \/ f \notin Frames /\ bufs'[f] = <<p>>,
         \A g \in Frames : g # f => bufs'[g] = bufs[g]
  PROVE  PacketMoves(Contents, Contents', <<"scratch", out>>, <<"frame", f>>)
<1> DEFINE a == <<"scratch", out>>
           b == <<"frame", f>>
<1>1. DOMAIN Contents' = DOMAIN Contents \cup {b} /\ Holders' = Holders \cup {b}
  BY HoldersNext, ContentsFacts, ContentsFactsNext
<1>2. /\ a \in DOMAIN Contents /\ a # b /\ Contents[a] # <<>>
      /\ Contents'[a] = Tail(Contents[a]) /\ p = Head(Contents[a])
  BY ContentsFacts, ContentsFactsNext, HoldersApart
<1>3. \/ b \in DOMAIN Contents /\ Contents'[b] = Append(Contents[b], p)
      \/ b \notin DOMAIN Contents /\ Contents'[b] = <<p>>
  <2>1. f \in Frames' /\ Contents'[b] = bufs'[f]
    BY ContentsFactsNext
  <2>2. CASE f \in Frames
    BY <2>1, <2>2, ContentsFacts
  <2>3. CASE f \notin Frames
    <3>1. b \notin DOMAIN Contents
      BY <2>3, ContentsFacts, HoldersApart
    <3>2. QED BY <2>1, <2>3, <3>1
  <2>4. QED BY <2>2, <2>3
<1>4. ASSUME NEW k \in DOMAIN Contents, k # a, k # b PROVE Contents'[k] = Contents[k]
  <2>1. CASE \E g \in Frames : k = <<"frame", g>>
    BY <1>4, <2>1, ContentsFacts, ContentsFactsNext
  <2>2. CASE \E o \in Outs : k = <<"scratch", o>>
    BY <1>4, <2>2, ContentsFacts, ContentsFactsNext
  <2>3. CASE k = LEFT
    <3>1. LeftPackets' = LeftPackets
      BY DEF LeftPackets
    <3>2. QED BY <2>3, <3>1, ContentsFacts, ContentsFactsNext
  <2>4. QED BY <1>4, <2>1, <2>2, <2>3, ContentsFacts
<1> HIDE DEF a, b
<1>5. PacketMoves(Contents, Contents', a, b)
  BY <1>1, <1>2, <1>3, <1>4 DEF PacketMoves
<1>6. QED BY <1>5 DEF a, b

\* A packet of an output goes into a frame of the target, which no source is.
LEMMA RouteTarget ==
  ASSUME PacketInv, AllComplete, NEW out \in Outs, Route(out)
  PROVE  /\ Target(graph, node, out) \in graph.nodes
         /\ Target(graph, node, out) \notin Sources /\ graph.root \in Sources
         /\ RouteInto(Target(graph, node, out), Head(scratch[out]))
         /\ scratch' = [scratch EXCEPT ![out] = Tail(scratch[out])]
<1> DEFINE t == Target(graph, node, out)
<1>1. WireFrom(graph, node, out) # {} /\ graph \in Graphs
  BY DEF Route, PacketInv, OutsWired, FrameInv, TypeOK
<1>2. t \in graph.nodes /\ t # kInvalid /\ \E w \in graph.wires : t = w[3]
  BY <1>1, TargetFacts
<1>3. t \notin Sources /\ graph.root \in Sources
  BY <1>1, <1>2 DEF AllComplete, Complete
<1>4. scratch' = [scratch EXCEPT ![out] = Tail(scratch[out])] /\ RouteInto(t, Head(scratch[out]))
  BY <1>2 DEF Route
<1>5. QED BY <1>2, <1>3, <1>4

LEMMA RouteMoved ==
  ASSUME PacketInv, AllComplete, NEW out \in Outs, Route(out)
  PROVE  /\ \A n \in graph.nodes : n # Target(graph, node, out) => pending'[n] = pending[n]
         /\ \A o \in Outs : o # out => scratch'[o] = scratch[o]
         /\ scratch'[out] = Tail(scratch[out]) /\ Head(scratch[out]) \in Packets
         /\ Elements(pending[Target(graph, node, out)]) \subseteq
              Elements(pending'[Target(graph, node, out)])
         /\ \E f \in Elements(pending'[Target(graph, node, out)]) :
              /\ f \in Elements(pending[Target(graph, node, out)]) \/ f \notin Frames
                   \/ bufs[f] = <<>>
              /\ PacketMoves(Contents, Contents', <<"scratch", out>>, <<"frame", f>>)
<1> DEFINE t == Target(graph, node, out)
           p == Head(scratch[out])
<1>1. scratch[out] # <<>> /\ UNCHANGED <<graph, node, left>>
  BY DEF Route, history
<1>2. /\ FrameInv /\ TypeOK /\ scratch \in [Outs -> Seq(Packets)]
      /\ pending \in [graph.nodes -> Seq(Frames)]
  BY DEF PacketInv, FrameInv, TypeOK
<1>3. /\ t \in graph.nodes /\ RouteInto(t, p)
      /\ scratch' = [scratch EXCEPT ![out] = Tail(scratch[out])]
  BY RouteTarget
<1>4. p \in Packets /\ Tail(scratch[out]) \in Seq(Packets)
  BY <1>1, <1>2, TailFacts
<1> HIDE DEF t, p
<1>5. /\ scratch'[out] = Tail(scratch[out])
      /\ \A o \in Outs : o # out => scratch'[o] = scratch[o]
  BY <1>2, <1>3
<1>6. pending[t] \in Seq(Frames) /\ p = Head(scratch[out])
  BY <1>2, <1>3 DEF p
<1>7. /\ \A n \in graph.nodes : n # t => pending'[n] = pending[n]
      /\ Elements(pending[t]) \subseteq Elements(pending'[t])
      /\ \E f \in Elements(pending'[t]) :
           /\ f \in Elements(pending[t]) \/ f \notin Frames \/ bufs[f] = <<>>
           /\ PacketMoves(Contents, Contents', <<"scratch", out>>, <<"frame", f>>)
  <2>1. CASE pending[t] = <<>> \/ Full(Last(pending[t]))
    <3> DEFINE f == Acquired(free)
    <3>1. pending' = [pending EXCEPT ![t] = Append(pending[t], f)] /\ bufs' = Stored(f, <<p>>)
      BY <1>3, <2>1 DEF RouteInto
    <3>2. <<p>> \in Seq(Packets) /\ Append(<<>>, p) = <<p>>
      BY <1>4
    <3>3. /\ f \in Frames => bufs[f] = <<>>
          /\ DOMAIN bufs' = Frames \cup {f} /\ bufs'[f] = <<p>>
          /\ \A g \in Frames : g # f => bufs'[g] = bufs[g]
      BY <1>2, <3>1, <3>2, AcquireFacts
    <3> HIDE DEF f
    <3>4. Frames' = Frames \cup {f}
      BY <3>3 DEF Frames
    <3>5. \/ f \in Frames /\ bufs'[f] = Append(bufs[f], p)
          \/ f \notin Frames /\ bufs'[f] = <<p>>
      BY <3>2, <3>3
    <3>6. PacketMoves(Contents, Contents', <<"scratch", out>>, <<"frame", f>>)
      BY <1>1, <1>5, <1>6, <3>3, <3>4, <3>5, RouteMoves
    <3>7. /\ pending'[t] = Append(pending[t], f)
          /\ \A n \in graph.nodes : n # t => pending'[n] = pending[n]
      BY <1>2, <1>3, <3>1
    <3>8. Elements(Append(pending[t], f)) = Elements(pending[t]) \cup {f}
      <4>1. pending[t] \in Seq(Frames \cup {f})
        BY <1>6, SeqMonotonic
      <4>2. QED BY <4>1, AppendFacts
    <3>9. QED BY <3>3, <3>6, <3>7, <3>8
  <2>2. CASE ~(pending[t] = <<>> \/ Full(Last(pending[t])))
    <3> DEFINE f == Last(pending[t])
    <3>1. pending' = pending /\ bufs' = [bufs EXCEPT ![f] = Append(bufs[f], p)]
      BY <1>3, <2>2 DEF RouteInto
    <3>2. f \in Frames /\ f \in Elements(pending[t])
      BY <1>6, <2>2, FrontFacts
    <3> HIDE DEF f
    <3>3. Append(bufs[f], p) \in Seq(Packets)
      BY <1>2, <1>4, <3>2, BufsType, AppendFacts
    <3>4. /\ Frames' = Frames /\ bufs'[f] = Append(bufs[f], p)
          /\ \A g \in Frames : g # f => bufs'[g] = bufs[g]
      BY <1>2, <3>1, <3>2, <3>3, BufsPut
    <3>5. Frames' = Frames \cup {f}
      BY <3>2, <3>4
    <3>6. PacketMoves(Contents, Contents', <<"scratch", out>>, <<"frame", f>>)
      BY <1>1, <1>5, <1>6, <3>2, <3>4, <3>5, RouteMoves
    <3>7. QED BY <3>1, <3>2, <3>6
  <2>3. QED BY <2>1, <2>2
<1>8. QED BY <1>4, <1>5, <1>6, <1>7 DEF t

LEMMA PacketRoute ==
  ASSUME PacketInv, AllComplete, NEW out \in Outs, Route(out), FrameInv'
  PROVE  PacketInv'
<1>1. /\ pc = "route" /\ pc # "drain" /\ scratch[out] # <<>>
      /\ UNCHANGED <<graph, pc, node, drain, arrived, left>>
  BY DEF Route, history
<1>2. SourceFirst /\ OutsWired
  BY DEF PacketInv
<1>3. ~Quiet
  BY <1>1 DEF Quiet, NoScratch
<1>4. \A n \in graph.nodes : n \in Sources => pending'[n] = pending[n]
  BY RouteTarget, RouteMoved
<1>5. SourceFirst'
  BY <1>1, <1>2, <1>3, <1>4, SourceFirstStays
<1>6. OutsWired'
  <2>1. \A o \in Outs : o # out => scratch'[o] = scratch[o]
    BY RouteMoved
  <2>2. \A o \in Outs : scratch'[o] # <<>> => WireFrom(graph, node, o) # {}
    BY <1>1, <1>2, <2>1 DEF OutsWired
  <2>3. QED BY <1>1, <2>2 DEF OutsWired
<1>7. PICK f : PacketMoves(Contents, Contents', <<"scratch", out>>, <<"frame", f>>)
  BY RouteMoved
<1>8. arrived' = arrived
  BY <1>1
<1>9. QED BY <1>5, <1>6, <1>7, <1>8, PacketMoved

LEMMA PacketStep == AllComplete /\ PacketInv /\ [Next]_vars => PacketInv'
<1> SUFFICES ASSUME AllComplete, PacketInv, [Next]_vars PROVE PacketInv'
  OBVIOUS
<1>1. FrameInv'
  BY FrameStep DEF PacketInv
<1>2. QED
  BY <1>1, PacketRunOnce, PacketPopNode, PacketRunNode, PacketProcess, PacketRoute,
     PacketFrameDone, PacketPass DEF Next

LEMMA PacketInvHolds == AllComplete => (Spec => []PacketInv)
<1> SUFFICES ASSUME AllComplete PROVE Spec => []PacketInv
  OBVIOUS
<1>1. PacketInv /\ [Next]_vars => PacketInv'
  BY PacketStep
<1>2. QED BY <1>1, PacketInit, PTL DEF Spec

\* If every output a packet may be given is wired and no node feeds a source,
\* each packet of the burst is in one frame or has left the graph once, and no
\* other packet is around: none is freed or sent twice, and none leaks.
THEOREM NoPacketLost == AllComplete => (Spec => []PacketsConserved)
<1>1. PacketInv => PacketsConserved
  <2> SUFFICES ASSUME PacketInv, NEW p \in Packets
               PROVE  Cardinality(PacketPlaces(p)) = IF p \in Elements(arrived) THEN 1 ELSE 0
    BY DEF PacketsConserved
  <2>1. Apart(Contents, Elements(arrived)) /\ DOMAIN Contents = Holders
    BY ContentsFacts DEF PacketInv
  <2>2. \A h \in Holders : Held(h) = Contents[h]
    BY DEF Contents
  <2>3. \A h \in Holders : /\ Contents[h] \in Seq(Packets) /\ Distinct(Contents[h])
                           /\ Elements(Contents[h]) \subseteq Elements(arrived)
    BY <2>1 DEF Apart
  <2>4. \A h \in Holders : \A i \in DOMAIN Held(h) :
          Held(h)[i] \in Elements(Contents[h])
    BY <2>2 DEF Elements
  <2>5. ASSUME NEW c \in PacketPlaces(p)
        PROVE  /\ c = <<c[1], c[2]>> /\ c[1] \in Holders
               /\ c[2] \in DOMAIN Contents[c[1]] /\ Contents[c[1]][c[2]] = p
               /\ p \in Elements(Contents[c[1]])
    <3>1. PICK h \in Holders : c \in {h} \X {i \in DOMAIN Held(h) : Held(h)[i] = p}
      BY DEF PacketPlaces
    <3>2. c = <<c[1], c[2]>> /\ c[1] = h /\ c[2] \in DOMAIN Held(h) /\ Held(h)[c[2]] = p
      BY <3>1
    <3>3. QED BY <2>2, <2>4, <3>2
  <2>6. CASE p \notin Elements(arrived)
    <3>1. PacketPlaces(p) = {}
      BY <2>3, <2>5, <2>6
    <3>2. QED BY <2>6, <3>1, FS_EmptySet
  <2>7. CASE p \in Elements(arrived)
    <3>1. PICK h \in Holders : p \in Elements(Contents[h])
      BY <2>1, <2>7 DEF Apart
    <3>2. PICK i \in 1 .. Len(Contents[h]) : Contents[h][i] = p
      BY <2>3, <3>1, ElementsFacts
    <3>3. i \in DOMAIN Held(h) /\ Held(h)[i] = p
      BY <2>2, <2>3, <3>2, ElementsFacts
    <3>4. <<h, i>> \in PacketPlaces(p)
      BY <3>3 DEF PacketPlaces
    <3>5. ASSUME NEW c \in PacketPlaces(p) PROVE c = <<h, i>>
      <4>1. c[1] = h
        BY <2>1, <2>5, <3>1 DEF Apart
      <4>2. c[2] \in 1 .. Len(Contents[h]) /\ Contents[h][c[2]] = p
        BY <2>3, <2>5, <4>1, ElementsFacts
      <4>3. c[2] = i
        BY <2>3, <3>2, <4>2 DEF Distinct
      <4>4. QED BY <2>5, <4>1, <4>3
    <3>6. PacketPlaces(p) = {<<h, i>>}
      BY <3>4, <3>5
    <3>7. QED BY <2>7, <3>6, FS_Singleton
  <2>8. QED BY <2>6, <2>7
<1>2. QED BY <1>1, PacketInvHolds, PTL

\* On such graphs, no node with pending frames is forgotten by the queue, and
\* when RunOnce returns every packet of its burst has left the graph.
THEOREM RunsComplete == AllComplete => (Spec => []NothingForgotten)
<1>1. PacketInv => NothingForgotten
  <2> SUFFICES ASSUME PacketInv PROVE NothingForgotten
    OBVIOUS
  <2>1. FrameInv /\ Apart(Contents, Elements(arrived))
    BY DEF PacketInv
  <2>2. pc \in {"idle", "loop"} =>
          \A n \in graph.nodes : pending[n] # <<>> => n \in Elements(queue)
    BY <2>1 DEF FrameInv, Queued
  <2>3. ASSUME pc = "idle" PROVE Elements(arrived) = {left[i].p : i \in DOMAIN left}
    <3>1. scratch = NoScratch /\ \A f \in Frames : bufs[f] = <<>>
      BY <2>1, <2>3, IdleQuiet
    <3>2. \A h \in Holders : h # LEFT => Contents[h] = <<>>
      BY <3>1, ContentsFacts DEF NoScratch
    <3>3. \A h \in Holders : h # LEFT => Elements(Contents[h]) = {}
      BY <3>2, EmptyFacts
    <3>4. LEFT \in Holders /\ DOMAIN Contents = Holders /\ Contents[LEFT] = LeftPackets
      BY ContentsFacts
    <3>5. Elements(arrived) = Elements(LeftPackets)
      BY <2>1, <3>3, <3>4 DEF Apart
    <3>6. Elements(LeftPackets) = {left[i].p : i \in DOMAIN left}
      BY DEF Elements, LeftPackets
    <3>7. QED BY <3>5, <3>6
  <2>4. QED BY <2>2, <2>3 DEF NothingForgotten
<1>2. QED BY <1>1, PacketInvHolds, PTL

LEMMA NextCounts ==
  /\ NextCount["rx"] = 1 /\ NextCount["ringrx"] = 1 /\ NextCount["parse"] = 4
  /\ NextCount["steer"] = 1 /\ NextCount["lb"] = 2 /\ NextCount["dnat"] = 1
  /\ NextCount["ether"] = 1 /\ NextCount["arp"] = 2
BY DEF NextCount

\* The outputs a node may use, whatever the packet.
LEMMA VerdictsOf ==
  ASSUME NEW c
  PROVE  /\ \A n \in {"rx", "ringrx", "dnat", "ether"} : Verdicts(n, c) = {0}
         /\ Verdicts("parse", c) \subseteq {0, 1, 2, 3}
         /\ Verdicts("steer", c) \subseteq {0, Gone}
         /\ \A n \in {"lb", "arp"} : Verdicts(n, c) = {0, 1}
         /\ \A n \in {"tx", "ringtx", "drop"} : Verdicts(n, c) = {Gone}
BY DEF Verdicts

LEMMA Wired ==
  ASSUME NEW g, NEW n, NEW o, NEW m, <<n, o, m>> \in g.wires
  PROVE  WireFrom(g, n, o) # {}
<1>1. <<n, o, m>>[1] = n /\ <<n, o, m>>[2] = o
  OBVIOUS
<1>2. QED BY <1>1 DEF WireFrom

\* The four graphs the program builds are such graphs: Graph::Wire accepts them
\* and they wire every output that their nodes use.
THEOREM ProgramGraphs ==
  ASSUME NEW g \in {BuildMonolithicGraph, BuildRxGraph, BuildWorkerGraph, BuildTxGraph}
  PROVE  WellFormed(g) /\ Complete(g)
<1>1. CASE g = BuildMonolithicGraph
  <2>1. /\ g.root = "rx" /\ g.nodes = {"rx", "parse", "lb", "dnat", "ether", "tx", "drop", "arp"}
        /\ g.wires = {<<"rx", 0, "parse">>, <<"parse", 0, "lb">>, <<"parse", 1, "lb">>,
                   <<"parse", 2, "drop">>, <<"parse", 3, "arp">>, <<"arp", 0, "tx">>,
                   <<"arp", 1, "drop">>, <<"lb", 0, "dnat">>, <<"lb", 1, "drop">>,
                   <<"dnat", 0, "ether">>, <<"ether", 0, "tx">>}
    BY <1>1 DEF BuildMonolithicGraph
  <2>2. g.root \in g.nodes /\ g.nodes \subseteq NodeNames
    BY <2>1, NodeNamesAre
  <2>3. \A w \in g.wires : /\ {w[1], w[3]} \subseteq g.nodes /\ w[2] < NextCount[w[1]]
                            /\ w[3] \notin Sources
    BY <2>1, NextCounts DEF Sources
  <2>4. \A v, w \in g.wires : v[1] = w[1] /\ v[2] = w[2] => v = w
    BY <2>1
  <2>5. /\ WireFrom(g, "rx", 0) # {} /\ WireFrom(g, "parse", 0) # {}
        /\ WireFrom(g, "parse", 1) # {} /\ WireFrom(g, "parse", 2) # {}
        /\ WireFrom(g, "parse", 3) # {} /\ WireFrom(g, "arp", 0) # {}
        /\ WireFrom(g, "arp", 1) # {} /\ WireFrom(g, "lb", 0) # {}
        /\ WireFrom(g, "lb", 1) # {} /\ WireFrom(g, "dnat", 0) # {}
        /\ WireFrom(g, "ether", 0) # {}
    BY <2>1, Wired
  <2>6. \A n \in g.nodes, c \in Classes : \A out \in Verdicts(n, c) :
          out = Gone \/ WireFrom(g, n, out) # {}
    BY <2>1, <2>5, VerdictsOf
  <2>7. g.root \in Sources
    BY <2>1 DEF Sources
  <2>8. QED BY <2>2, <2>3, <2>4, <2>6, <2>7 DEF WellFormed, Complete
<1>2. CASE g = BuildRxGraph
  <2>1. /\ g.root = "rx" /\ g.nodes = {"rx", "steer", "arp", "ringtx", "drop"}
        /\ g.wires = {<<"rx", 0, "steer">>, <<"steer", 0, "arp">>, <<"arp", 0, "ringtx">>,
                   <<"arp", 1, "drop">>}
    BY <1>2 DEF BuildRxGraph
  <2>2. g.root \in g.nodes /\ g.nodes \subseteq NodeNames
    BY <2>1, NodeNamesAre
  <2>3. \A w \in g.wires : /\ {w[1], w[3]} \subseteq g.nodes /\ w[2] < NextCount[w[1]]
                            /\ w[3] \notin Sources
    BY <2>1, NextCounts DEF Sources
  <2>4. \A v, w \in g.wires : v[1] = w[1] /\ v[2] = w[2] => v = w
    BY <2>1
  <2>5. /\ WireFrom(g, "rx", 0) # {} /\ WireFrom(g, "steer", 0) # {}
        /\ WireFrom(g, "arp", 0) # {} /\ WireFrom(g, "arp", 1) # {}
    BY <2>1, Wired
  <2>6. \A n \in g.nodes, c \in Classes : \A out \in Verdicts(n, c) :
          out = Gone \/ WireFrom(g, n, out) # {}
    BY <2>1, <2>5, VerdictsOf
  <2>7. g.root \in Sources
    BY <2>1 DEF Sources
  <2>8. QED BY <2>2, <2>3, <2>4, <2>6, <2>7 DEF WellFormed, Complete
<1>3. CASE g = BuildWorkerGraph
  <2>1. /\ g.root = "ringrx" /\ g.nodes = {"ringrx", "parse", "lb", "dnat", "ether", "ringtx", "drop"}
        /\ g.wires = {<<"ringrx", 0, "parse">>, <<"parse", 0, "lb">>, <<"parse", 1, "lb">>,
                   <<"parse", 2, "drop">>, <<"parse", 3, "drop">>, <<"lb", 0, "dnat">>,
                   <<"lb", 1, "drop">>, <<"dnat", 0, "ether">>, <<"ether", 0, "ringtx">>}
    BY <1>3 DEF BuildWorkerGraph
  <2>2. g.root \in g.nodes /\ g.nodes \subseteq NodeNames
    BY <2>1, NodeNamesAre
  <2>3. \A w \in g.wires : /\ {w[1], w[3]} \subseteq g.nodes /\ w[2] < NextCount[w[1]]
                            /\ w[3] \notin Sources
    BY <2>1, NextCounts DEF Sources
  <2>4. \A v, w \in g.wires : v[1] = w[1] /\ v[2] = w[2] => v = w
    BY <2>1
  <2>5. /\ WireFrom(g, "ringrx", 0) # {} /\ WireFrom(g, "parse", 0) # {}
        /\ WireFrom(g, "parse", 1) # {} /\ WireFrom(g, "parse", 2) # {}
        /\ WireFrom(g, "parse", 3) # {} /\ WireFrom(g, "lb", 0) # {}
        /\ WireFrom(g, "lb", 1) # {} /\ WireFrom(g, "dnat", 0) # {}
        /\ WireFrom(g, "ether", 0) # {}
    BY <2>1, Wired
  <2>6. \A n \in g.nodes, c \in Classes : \A out \in Verdicts(n, c) :
          out = Gone \/ WireFrom(g, n, out) # {}
    BY <2>1, <2>5, VerdictsOf
  <2>7. g.root \in Sources
    BY <2>1 DEF Sources
  <2>8. QED BY <2>2, <2>3, <2>4, <2>6, <2>7 DEF WellFormed, Complete
<1>4. CASE g = BuildTxGraph
  <2>1. /\ g.root = "ringrx" /\ g.nodes = {"ringrx", "tx"}
        /\ g.wires = {<<"ringrx", 0, "tx">>}
    BY <1>4 DEF BuildTxGraph
  <2>2. g.root \in g.nodes /\ g.nodes \subseteq NodeNames
    BY <2>1, NodeNamesAre
  <2>3. \A w \in g.wires : /\ {w[1], w[3]} \subseteq g.nodes /\ w[2] < NextCount[w[1]]
                            /\ w[3] \notin Sources
    BY <2>1, NextCounts DEF Sources
  <2>4. \A v, w \in g.wires : v[1] = w[1] /\ v[2] = w[2] => v = w
    BY <2>1
  <2>5. /\ WireFrom(g, "ringrx", 0) # {}
    BY <2>1, Wired
  <2>6. \A n \in g.nodes, c \in Classes : \A out \in Verdicts(n, c) :
          out = Gone \/ WireFrom(g, n, out) # {}
    BY <2>1, <2>5, VerdictsOf
  <2>7. g.root \in Sources
    BY <2>1 DEF Sources
  <2>8. QED BY <2>2, <2>3, <2>4, <2>6, <2>7 DEF WellFormed, Complete
<1>5. QED BY <1>1, <1>2, <1>3, <1>4

-----------------------------------------------------------------------------
(* How many frames a run uses: the burst fits one frame, so a node never   *)
(* has two.                                                                *)

LEMMA DistinctSize ==
  ASSUME NEW S, NEW s \in Seq(S), Distinct(s)
  PROVE  IsFiniteSet(Elements(s)) /\ Cardinality(Elements(s)) = Len(s)
<1> DEFINE D == 1 .. Len(s)
           E == Elements(s)
<1>1. Len(s) \in Nat /\ DOMAIN s = D /\ s \in [D -> S]
  OBVIOUS
<1>2. /\ \A i \in D : s[i] \in E
      /\ \A x \in E : \E i \in D : s[i] = x
  BY ElementsFacts
<1>3. IsFiniteSet(D) /\ Cardinality(D) = Len(s)
  <2>1. IsFiniteSet(D) /\ Cardinality(D) = IF 1 > Len(s) THEN 0 ELSE Len(s) - 1 + 1
    BY <1>1, FS_Interval
  <2>2. \A l \in Nat : (IF 1 > l THEN 0 ELSE l - 1 + 1) = l
    OBVIOUS
  <2>3. QED BY <1>1, <2>1, <2>2
<1>4. \A i, j \in D : s[i] = s[j] => i = j
  BY DEF Distinct
<1> HIDE DEF D, E
<1>5. s \in [D -> E]
  BY <1>1, <1>2
<1>6. s \in Surjection(D, E)
  BY <1>2, <1>5 DEF Surjection
<1>7. s \in Injection(D, E)
  BY <1>4, <1>5 DEF Injection, IsInjective
<1>8. IsFiniteSet(E) /\ Cardinality(E) = Cardinality(D)
  BY <1>3, <1>6, <1>7, FS_Surjection
<1>9. QED BY <1>3, <1>8 DEF E

LEMMA OneElement ==
  ASSUME NEW S, NEW s \in Seq(S), s # <<>>, Len(s) <= 1
  PROVE  \A x \in Elements(s) : x = Head(s)
<1>1. Len(s) \in Nat /\ Len(s) # 0 /\ Head(s) = s[1]
  BY ElementsFacts
<1>2. \A i \in 1 .. Len(s) : i = 1
  BY <1>1
<1>3. QED BY <1>1, <1>2, ElementsFacts

Reserve == Cardinality(graph.nodes) + kMaxFanout

\* The burst fits one frame, no node has two, and the pool has not grown.
OneFrame ==
  /\ Distinct(arrived) /\ Len(arrived) <= kBurstSize
  /\ Len(drain) <= 1 /\ \A n \in graph.nodes : Len(pending[n]) <= 1
  /\ Len(bufs) = Reserve

AllocInv == PacketInv /\ OneFrame

\* A frame that is full holds the whole burst.
LEMMA FullFrame ==
  ASSUME AllocInv, NEW f \in Frames, Full(f), NEW o \in Outs, scratch[o] # <<>>
  PROVE  FALSE
<1> DEFINE x == Head(scratch[o])
<1>1. /\ Apart(Contents, Elements(arrived)) /\ Distinct(arrived) /\ Len(arrived) <= kBurstSize
      /\ TypeOK /\ arrived \in Seq(Packets) /\ scratch[o] \in Seq(Packets)
  BY DEF AllocInv, OneFrame, PacketInv, FrameInv, TypeOK
<1>2. x \in Elements(scratch[o])
  BY <1>1, TailFacts
<1> HIDE DEF x
<1>3. /\ Contents[<<"frame", f>>] = bufs[f] /\ <<"frame", f>> \in DOMAIN Contents
      /\ Contents[<<"scratch", o>>] = scratch[o] /\ <<"scratch", o>> \in DOMAIN Contents
      /\ <<"frame", f>> # <<"scratch", o>>
  BY ContentsFacts, HoldersApart
<1>4. /\ bufs[f] \in Seq(Packets) /\ Distinct(bufs[f])
      /\ Elements(bufs[f]) \subseteq Elements(arrived)
      /\ x \in Elements(arrived) /\ x \notin Elements(bufs[f])
  BY <1>1, <1>2, <1>3 DEF Apart
<1>5. /\ Cardinality(Elements(bufs[f])) = kBurstSize
      /\ IsFiniteSet(Elements(arrived)) /\ Cardinality(Elements(arrived)) = Len(arrived)
  BY <1>1, <1>4, DistinctSize DEF Full
<1>6. /\ Cardinality(Elements(bufs[f])) <= Cardinality(Elements(arrived))
      /\ Cardinality(Elements(bufs[f])) = Cardinality(Elements(arrived)) =>
           Elements(arrived) = Elements(bufs[f])
  BY <1>4, <1>5, FS_Subset
<1>7. Len(arrived) \in Nat /\ \A l, k \in Nat : k <= l /\ l <= k => k = l
  BY <1>1
<1>8. kBurstSize = Len(arrived)
  BY <1>1, <1>5, <1>6, <1>7, Sizes
<1>9. QED BY <1>4, <1>5, <1>6, <1>8

\* If nothing waits at the root and at t, some frame is free.
LEMMA FreeFrame ==
  ASSUME AllocInv, NEW t \in graph.nodes, t # graph.root, drain # <<>>,
         pending[t] = <<>>, pending[graph.root] = <<>>
  PROVE  free # <<>>
<1> SUFFICES ASSUME free = <<>> PROVE FALSE
  OBVIOUS
<1> DEFINE N == graph.nodes \ {t}
           place == [n \in N |-> IF pending[n] = <<>> THEN Head(drain) ELSE Head(pending[n])]
<1>1. /\ graph \in Graphs /\ drain \in Seq(Frames) /\ Len(drain) <= 1
      /\ \A n \in graph.nodes : pending[n] \in Seq(Frames) /\ Len(pending[n]) <= 1
      /\ bufs \in Seq(Seq(Packets)) /\ Len(bufs) = Reserve /\ FramesApart
  BY DEF AllocInv, PacketInv, FrameInv, TypeOK, OneFrame
<1>2. /\ IsFiniteSet(graph.nodes) /\ Cardinality(graph.nodes) \in Nat
      /\ graph.root \in N
  BY <1>1, GraphFacts
<1>3. IsFiniteSet(N) /\ Cardinality(N) = Cardinality(graph.nodes) - 1
  BY <1>2, FS_RemoveElement
<1>4. Elements(free) = {}
  BY EmptyFacts
<1>5. Head(drain) \in Frames /\ \A x \in Elements(drain) : x = Head(drain)
  BY <1>1, TailFacts, OneElement
<1>6. \A n \in graph.nodes : pending[n] # <<>> =>
        Head(pending[n]) \in Frames /\ \A x \in Elements(pending[n]) : x = Head(pending[n])
  BY <1>1, TailFacts, OneElement
<1>7. place \in [N -> Frames]
  BY <1>5, <1>6
<1>8. ASSUME NEW f \in Frames PROVE \E n \in N : place[n] = f
  <2>1. CASE f \in Elements(drain)
    BY <1>2, <1>5, <2>1
  <2>2. CASE f \in Waiting
    <3>1. PICK n \in graph.nodes : f \in Elements(pending[n])
      BY <2>2 DEF Waiting
    <3>2. pending[n] # <<>>
      BY <3>1, EmptyFacts
    <3>3. n \in N /\ f = Head(pending[n])
      BY <1>6, <3>1, <3>2
    <3>4. QED BY <3>2, <3>3
  <2>3. QED BY <1>1, <1>4, <2>1, <2>2 DEF FramesApart
<1> HIDE DEF place
<1>9. place \in Surjection(N, Frames)
  BY <1>7, <1>8 DEF Surjection
<1>10. Cardinality(Frames) <= Cardinality(N)
  BY <1>3, <1>9, FS_Surjection
<1>11. Cardinality(Frames) = Reserve
  <2>1. Reserve \in Nat /\ Frames = 1 .. Reserve
    BY <1>1, <1>2, Sizes DEF Reserve, Frames
  <2>2. Cardinality(1 .. Reserve) = IF 1 > Reserve THEN 0 ELSE Reserve - 1 + 1
    BY <2>1, FS_Interval
  <2>3. \A l \in Nat : (IF 1 > l THEN 0 ELSE l - 1 + 1) = l
    OBVIOUS
  <2>4. QED BY <2>1, <2>2, <2>3
<1>12. Cardinality(graph.nodes) + kMaxFanout <= Cardinality(graph.nodes) - 1
  BY <1>3, <1>10, <1>11 DEF Reserve
<1>13. QED BY <1>2, <1>12, Sizes

LEMMA AllocInit == Init => AllocInv
<1> SUFFICES ASSUME Init PROVE AllocInv
  OBVIOUS
<1>1. PacketInv
  BY PacketInit
<1>2. graph \in Graphs /\ Reserve \in Nat
  BY GraphFacts, Sizes DEF Init, Reserve
<1>3. bufs = [f \in 1 .. Reserve |-> <<>>]
  BY DEF Init, Reserve
<1>4. Len(bufs) = Reserve
  BY <1>2, <1>3
<1>5. Len(<<>>) = 0 /\ Distinct(<<>>) /\ 0 <= kBurstSize /\ 0 <= 1
  BY EmptyFacts, Sizes
<1>6. arrived = <<>> /\ drain = <<>> /\ \A n \in graph.nodes : pending[n] = <<>>
  BY DEF Init
<1>7. OneFrame
  BY <1>4, <1>5, <1>6 DEF OneFrame
<1>8. QED BY <1>1, <1>7 DEF AllocInv

\* A frame from the free stack is no new one.
LEMMA OldFrame ==
  ASSUME FrameInv, free # <<>>, NEW t, NEW s \in Seq(Packets), Acquires(t, s)
  PROVE  Len(bufs') = Len(bufs)
<1>1. free \in Seq(Frames) /\ bufs \in Seq(Seq(Packets)) /\ TypeOK
  BY DEF FrameInv, TypeOK
<1>2. Acquired(free) \in Frames
  BY <1>1, FrontFacts DEF Acquired
<1>3. bufs' = [bufs EXCEPT ![Acquired(free)] = s]
  BY <1>2 DEF Acquires, Stored
<1>4. Acquired(free) \in 1 .. Len(bufs)
  BY <1>1, <1>2 DEF Frames
<1> DEFINE S == Seq(Packets)
           f == Acquired(free)
<1>5. bufs \in Seq(S) /\ f \in 1 .. Len(bufs) /\ s \in S /\ bufs' = [bufs EXCEPT ![f] = s]
  BY <1>1, <1>3, <1>4
<1> HIDE DEF S, f
<1>6. QED BY <1>5, ExceptSeq

LEMMA AllocRunOnce ==
  ASSUME AllocInv, RunOnce
  PROVE  OneFrame'
<1>1. FrameInv /\ OneFrame /\ pc = "idle" /\ graph' = graph /\ graph \in Graphs
  BY DEF AllocInv, PacketInv, FrameInv, TypeOK, RunOnce
<1>2. /\ Acquires(graph.root, <<>>) /\ Len(pending'[graph.root]) = 1
      /\ \A n \in graph.nodes : n # graph.root => pending'[n] = <<>>
  BY <1>1, RunOnceAcquires
<1>3. free # <<>>
  <2>1. /\ drain = <<>> /\ \A n \in graph.nodes : pending[n] = <<>>
    BY <1>1, IdleQuiet, IdleEmpty
  <2>2. \A f \in Frames : f \in Elements(free)
    BY <1>1, <2>1, EmptyFacts DEF FrameInv, FramesApart, Waiting
  <2>3. 1 \in Frames
    <3>1. Cardinality(graph.nodes) \in Nat /\ IsFiniteSet(graph.nodes) /\ graph.root \in graph.nodes
      BY <1>1, GraphFacts
    <3>2. Cardinality(graph.nodes) # 0
      BY <3>1, FS_EmptySet
    <3>3. bufs \in Seq(Seq(Packets)) /\ Len(bufs) = Cardinality(graph.nodes) + kMaxFanout
      BY <1>1 DEF OneFrame, Reserve, FrameInv, TypeOK
    <3>4. \A a, b \in Nat : a # 0 => 1 \in 1 .. a + b
      OBVIOUS
    <3>5. 1 \in 1 .. Len(bufs)
      BY <3>1, <3>2, <3>3, <3>4, Sizes
    <3>6. QED BY <3>3, <3>5 DEF Frames
  <2>4. QED BY <2>2, <2>3, EmptyFacts
<1>4. Len(bufs') = Len(bufs)
  <2>1. <<>> \in Seq(Packets)
    BY EmptyFacts
  <2>2. QED BY <1>1, <1>2, <1>3, <2>1, OldFrame
<1>5. Reserve' = Reserve
  BY <1>1 DEF Reserve
<1>6. drain' = drain /\ arrived' = <<>>
  BY DEF RunOnce
<1>7. Len(<<>>) = 0 /\ Distinct(<<>>) /\ 0 <= kBurstSize /\ 0 <= 1 /\ 1 <= 1
  BY EmptyFacts, Sizes
<1>8. \A n \in graph.nodes : Len(pending'[n]) <= 1
  BY <1>2, <1>7
<1>9. QED BY <1>1, <1>4, <1>5, <1>6, <1>7, <1>8 DEF OneFrame

LEMMA AllocRoute ==
  ASSUME AllocInv, AllComplete, NEW out \in Outs, Route(out)
  PROVE  OneFrame'
<1> DEFINE t == Target(graph, node, out)
           p == Head(scratch[out])
<1>1. /\ pc = "route" /\ scratch[out] # <<>>
      /\ UNCHANGED <<graph, pc, node, drain, arrived, left>>
  BY DEF Route, history
<1>2. /\ FrameInv /\ SourceFirst /\ OutsWired /\ TypeOK /\ OneFrame /\ graph \in Graphs
      /\ scratch \in [Outs -> Seq(Packets)] /\ pending \in [graph.nodes -> Seq(Frames)]
  BY DEF AllocInv, PacketInv, FrameInv, TypeOK
<1>3. t \in graph.nodes /\ t \notin Sources /\ graph.root \in Sources
  BY RouteTarget DEF AllocInv
<1>4. RouteInto(t, p)
  BY RouteTarget DEF AllocInv
<1>5. p \in Packets
  BY <1>1, <1>2, TailFacts
<1> HIDE DEF t, p
<1>6. Reserve' = Reserve
  BY <1>1 DEF Reserve
<1>7. Len(bufs') = Len(bufs) /\ \A n \in graph.nodes : Len(pending'[n]) <= 1
  <2>1. pending[t] # <<>> => ~Full(Last(pending[t]))
    <3> SUFFICES ASSUME pending[t] # <<>>, Full(Last(pending[t])) PROVE FALSE
      OBVIOUS
    <3>1. pending[t] \in Seq(Frames)
      BY <1>2, <1>3
    <3>2. Last(pending[t]) \in Frames
      BY <3>1, FrontFacts
    <3>3. QED BY <1>1, <3>2, FullFrame
  <2>2. CASE pending[t] = <<>>
    <3>1. Acquires(t, <<p>>)
      BY <1>1, <1>4, <2>2 DEF RouteInto, Acquires
    <3>2. ~Quiet
      BY <1>1 DEF Quiet, NoScratch
    <3>3. graph.root \in graph.nodes /\ drain # <<>>
      BY <1>1, <1>2, GraphFacts DEF FrameInv, Phase
    <3>4. pending[graph.root] = <<>> /\ t # graph.root
      BY <1>2, <1>3, <3>2, <3>3, NoSourceWaits
    <3>5. free # <<>>
      BY <1>3, <2>2, <3>3, <3>4, FreeFrame
    <3>6. <<p>> \in Seq(Packets)
      BY <1>5
    <3>7. Len(bufs') = Len(bufs)
      BY <1>2, <3>1, <3>5, <3>6, OldFrame
    <3>8. pending' = [pending EXCEPT ![t] = Append(pending[t], Acquired(free))]
      BY <3>1 DEF Acquires
    <3>9. Append(<<>>, Acquired(free)) = <<Acquired(free)>> /\ Len(<<Acquired(free)>>) <= 1
      OBVIOUS
    <3>10. /\ pending'[t] = <<Acquired(free)>>
           /\ \A n \in graph.nodes : n # t => pending'[n] = pending[n]
      BY <1>2, <1>3, <2>2, <3>8, <3>9
    <3>11. QED BY <1>2, <3>7, <3>9, <3>10 DEF OneFrame
  <2>3. CASE pending[t] # <<>>
    <3> DEFINE f == Last(pending[t])
               S == Seq(Packets)
    <3>1. pending' = pending /\ bufs' = [bufs EXCEPT ![f] = Append(bufs[f], p)]
      BY <1>4, <2>1, <2>3 DEF RouteInto
    <3>2. pending[t] \in Seq(Frames)
      BY <1>2, <1>3
    <3>3. f \in Frames
      BY <2>3, <3>2, FrontFacts
    <3>4. Append(bufs[f], p) \in S /\ bufs \in Seq(S) /\ f \in 1 .. Len(bufs)
      BY <1>2, <1>5, <3>3, BufsType, AppendFacts DEF TypeOK, Frames
    <3> HIDE DEF f, S
    <3>5. Len(bufs') = Len(bufs)
      BY <3>1, <3>4, ExceptSeq
    <3>6. QED BY <1>2, <3>1, <3>5 DEF OneFrame
  <2>4. QED BY <2>2, <2>3
<1>8. QED BY <1>1, <1>2, <1>6, <1>7 DEF OneFrame

\* The other steps take no frame from the pool.
LEMMA AllocOther ==
  ASSUME AllocInv,
         PopNode \/ Return \/ RunNode \/ Process \/ ProcessDone \/ FrameDone \/ NodeDone
           \/ UNCHANGED vars
  PROVE  OneFrame'
<1> USE DEF pool, history
<1> DEFINE h == Head(drain)
           S == Seq(Packets)
<1>1. OneFrame /\ FrameInv /\ TypeOK /\ bufs \in Seq(S)
  BY DEF AllocInv, PacketInv, FrameInv, TypeOK
<1>2. drain # <<>> => h \in 1 .. Len(bufs)
  BY <1>1, HeadDrain DEF TypeOK, Frames
<1>3. drain \in Seq(Frames) /\ pending \in [graph.nodes -> Seq(Frames)]
  BY <1>1 DEF TypeOK
<1>4. ASSUME graph' = graph, Len(bufs') = Len(bufs), Len(drain') <= 1,
             \A n \in graph.nodes : Len(pending'[n]) <= 1,
             Distinct(arrived'), Len(arrived') <= kBurstSize
      PROVE  OneFrame'
  BY <1>1, <1>4 DEF OneFrame, Reserve
<1>5. ASSUME NEW s \in S, drain # <<>>, bufs' = [bufs EXCEPT ![h] = s]
      PROVE  Len(bufs') = Len(bufs)
  <2> HIDE DEF S, h
  <2>1. QED BY <1>1, <1>2, <1>5, ExceptSeq
<1>6. CASE PopNode
  <2>1. queue \in Seq(graph.nodes) /\ queue # <<>> /\ node' = Last(queue)
    BY <1>1, <1>6 DEF PopNode, TypeOK
  <2>2. node' \in graph.nodes
    BY <2>1, FrontFacts
  <2>3. /\ drain' = pending[node'] /\ pending' = [pending EXCEPT ![node'] = <<>>]
        /\ UNCHANGED <<graph, bufs, arrived>>
    BY <1>6 DEF PopNode
  <2>4. Len(drain') <= 1
    BY <1>1, <2>2, <2>3 DEF OneFrame
  <2>5. \A n \in graph.nodes : pending'[n] = <<>> \/ pending'[n] = pending[n]
    BY <1>3, <2>2, <2>3
  <2>6. Len(<<>>) <= 1
    BY EmptyFacts
  <2>7. \A n \in graph.nodes : Len(pending'[n]) <= 1
    BY <1>1, <2>5, <2>6 DEF OneFrame
  <2>8. QED BY <1>1, <1>4, <2>3, <2>4, <2>7 DEF OneFrame
<1>7. CASE RunNode
  <2>1. drain # <<>> /\ UNCHANGED <<graph, drain, pending>>
    BY <1>7 DEF RunNode
  <2>2. CASE UNCHANGED <<bufs, arrived>>
    BY <1>1, <2>1, <2>2 DEF OneFrame, Reserve
  <2>3. CASE ~UNCHANGED <<bufs, arrived>>
    <3>1. PICK b \in Bursts : bufs' = [bufs EXCEPT ![h] = b] /\ arrived' = b
      BY <1>7, <2>3 DEF RunNode
    <3>2. b \in S /\ Distinct(b) /\ Len(b) <= kBurstSize
      BY BurstFacts
    <3>3. Len(bufs') = Len(bufs)
      BY <1>5, <2>1, <3>1, <3>2
    <3>4. QED BY <1>1, <1>4, <2>1, <3>1, <3>2, <3>3 DEF OneFrame
  <2>4. QED BY <2>2, <2>3
<1>8. CASE Process
  <2>1. /\ pc = "process" /\ bufs[h] # <<>> /\ bufs' = [bufs EXCEPT ![h] = Tail(bufs[h])]
        /\ UNCHANGED <<graph, drain, pending, arrived>>
    BY <1>8 DEF Process
  <2>2. drain # <<>>
    BY <1>1, <2>1 DEF FrameInv, Phase
  <2>3. h \in Frames
    BY <1>1, <2>2, HeadDrain
  <2>4. Tail(bufs[h]) \in S
    BY <1>1, <2>1, <2>3, BufsType, TailFacts
  <2>5. Len(bufs') = Len(bufs)
    BY <1>5, <2>1, <2>2, <2>4
  <2>6. QED BY <1>1, <1>4, <2>1, <2>5 DEF OneFrame
<1>9. CASE FrameDone
  <2>1. /\ pc = "route" /\ bufs' = [bufs EXCEPT ![h] = <<>>] /\ drain' = Tail(drain)
        /\ UNCHANGED <<graph, pending, arrived>>
    BY <1>9 DEF FrameDone
  <2>2. drain # <<>>
    BY <1>1, <2>1 DEF FrameInv, Phase
  <2>3. <<>> \in S
    BY EmptyFacts
  <2>4. Len(bufs') = Len(bufs)
    BY <1>5, <2>1, <2>2, <2>3
  <2>5. Len(drain') = Len(drain) - 1 /\ Len(drain) \in Nat /\ Len(drain) <= 1
    BY <1>1, <1>3, <2>1, <2>2, TailFacts DEF OneFrame
  <2>6. Len(drain') <= 1
    BY <2>5
  <2>7. QED BY <1>1, <1>4, <2>1, <2>4, <2>6 DEF OneFrame
<1>10. CASE Return \/ ProcessDone \/ NodeDone \/ UNCHANGED vars
  <2>1. UNCHANGED <<graph, bufs, drain, pending, arrived>>
    BY <1>10 DEF Return, ProcessDone, NodeDone, vars
  <2>2. QED BY <1>1, <2>1 DEF OneFrame, Reserve
<1>11. QED BY <1>6, <1>7, <1>8, <1>9, <1>10

LEMMA AllocStep == AllComplete /\ AllocInv /\ [Next]_vars => AllocInv'
<1> SUFFICES ASSUME AllComplete, AllocInv, [Next]_vars PROVE AllocInv'
  OBVIOUS
<1>1. PacketInv'
  BY PacketStep DEF AllocInv
<1>2. OneFrame'
  BY AllocRunOnce, AllocRoute, AllocOther DEF Next
<1>3. QED BY <1>1, <1>2 DEF AllocInv

\* The FramePool of the constructor is enough, even without the kMaxFanout
\* frames on top, and never grows: a frame is taken only for a node that has none, and the frame of the
\* root is free by then.
THEOREM PoolSuffices == AllComplete => (Spec => []NoAllocation)
<1> SUFFICES ASSUME AllComplete PROVE Spec => []NoAllocation
  OBVIOUS
<1>1. AllocInv /\ [Next]_vars => AllocInv'
  BY AllocStep
<1>2. AllocInv => NoAllocation
  BY DEF AllocInv, OneFrame, Reserve, NoAllocation
<1>3. QED BY <1>1, <1>2, AllocInit, PTL DEF Spec

-----------------------------------------------------------------------------
(* Order.  For packets of one class the graph is a tree: a node is reached *)
(* along one path.  Then none overtakes another on its way.                *)

Precedes(s, x, y) == \E k, l \in 1 .. Len(s) : k < l /\ s[k] = x /\ s[l] = y

LEMMA PrecedesFacts ==
  ASSUME NEW S, NEW s \in Seq(S), Distinct(s), NEW x, NEW y, Precedes(s, x, y)
  PROVE  x \in Elements(s) /\ y \in Elements(s) /\ x # y /\ ~Precedes(s, y, x)
<1>1. PICK k \in 1 .. Len(s), l \in 1 .. Len(s) : k < l /\ s[k] = x /\ s[l] = y
  BY DEF Precedes
<1>2. Len(s) \in Nat /\ x \in Elements(s) /\ y \in Elements(s)
  BY <1>1, ElementsFacts
<1>3. \A i, j \in 1 .. Len(s) : s[i] = s[j] => i = j
  BY DEF Distinct
<1>4. x # y
  BY <1>1, <1>2, <1>3
<1>5. ASSUME NEW i \in 1 .. Len(s), NEW j \in 1 .. Len(s), i < j, s[i] = y, s[j] = x
      PROVE  FALSE
  <2>1. i = l /\ j = k
    BY <1>1, <1>3, <1>5
  <2>2. QED BY <1>1, <1>2, <1>5, <2>1
<1>6. QED BY <1>2, <1>4, <1>5 DEF Precedes

LEMMA PrecedesTail ==
  ASSUME NEW S, NEW s \in Seq(S), s # <<>>, Distinct(s)
  PROVE  /\ \A x : ~Precedes(s, x, Head(s))
         /\ \A x, y : Precedes(s, x, y) /\ x # Head(s) => Precedes(Tail(s), x, y)
<1> DEFINE t == Tail(s)
<1>1. /\ t \in Seq(S) /\ Len(t) = Len(s) - 1 /\ Len(s) \in Nat /\ Len(s) >= 1
      /\ Head(s) = s[1] /\ \A i \in 1 .. Len(t) : t[i] = s[i + 1]
  OBVIOUS
<1> HIDE DEF t
<1>2. 1 \in 1 .. Len(s) /\ \A i, j \in 1 .. Len(s) : s[i] = s[j] => i = j
  BY <1>1 DEF Distinct
<1>3. \A x : ~Precedes(s, x, Head(s))
  <2> SUFFICES ASSUME NEW k \in 1 .. Len(s), NEW l \in 1 .. Len(s), k < l, s[l] = s[1]
               PROVE  FALSE
    BY <1>1 DEF Precedes
  <2>1. l = 1
    BY <1>2
  <2>2. QED BY <1>1, <2>1
<1>4. ASSUME NEW x, NEW y, Precedes(s, x, y), x # Head(s) PROVE Precedes(t, x, y)
  <2>1. PICK k \in 1 .. Len(s), l \in 1 .. Len(s) : k < l /\ s[k] = x /\ s[l] = y
    BY <1>4 DEF Precedes
  <2>2. k # 1
    BY <1>1, <1>4, <2>1
  <2>3. /\ k - 1 \in 1 .. Len(t) /\ l - 1 \in 1 .. Len(t) /\ k - 1 < l - 1
        /\ (k - 1) + 1 = k /\ (l - 1) + 1 = l
    BY <1>1, <2>1, <2>2
  <2>4. t[k - 1] = x /\ t[l - 1] = y
    BY <1>1, <2>1, <2>3
  <2>5. QED BY <2>3, <2>4 DEF Precedes
<1>5. QED BY <1>3, <1>4 DEF t

LEMMA PrecedesAppend ==
  ASSUME NEW S, NEW s \in Seq(S), NEW z \in S
  PROVE  /\ \A x \in Elements(s) : Precedes(Append(s, z), x, z)
         /\ \A x, y : Precedes(s, x, y) => Precedes(Append(s, z), x, y)
<1> DEFINE t == Append(s, z)
<1>1. /\ Len(t) = Len(s) + 1 /\ Len(s) \in Nat
      /\ t[Len(s) + 1] = z /\ \A i \in 1 .. Len(s) : t[i] = s[i]
  OBVIOUS
<1> HIDE DEF t
<1>2. /\ Len(s) + 1 \in 1 .. Len(t)
      /\ \A i \in 1 .. Len(s) : i \in 1 .. Len(t) /\ i < Len(s) + 1
  BY <1>1
<1>3. ASSUME NEW x \in Elements(s) PROVE Precedes(t, x, z)
  <2>1. PICK i \in 1 .. Len(s) : s[i] = x
    BY ElementsFacts
  <2>2. QED BY <1>1, <1>2, <2>1 DEF Precedes
<1>4. ASSUME NEW x, NEW y, Precedes(s, x, y) PROVE Precedes(t, x, y)
  <2>1. PICK k \in 1 .. Len(s), l \in 1 .. Len(s) : k < l /\ s[k] = x /\ s[l] = y
    BY <1>4 DEF Precedes
  <2>2. k \in 1 .. Len(t) /\ l \in 1 .. Len(t) /\ t[k] = x /\ t[l] = y
    BY <1>1, <1>2, <2>1
  <2>3. QED BY <2>1, <2>2 DEF Precedes
<1>5. QED BY <1>3, <1>4 DEF t

\* What a move does to the order of packets, and to where they are.
LEMMA MovedOrder ==
  ASSUME NEW F, NEW G, NEW a, NEW b, NEW S, Apart(F, S), PacketMoves(F, G, a, b)
  PROVE  /\ \A h \in DOMAIN F : \A x : ~Precedes(F[h], x, Head(F[a]))
         /\ \A h \in DOMAIN F : \A x, y :
              Precedes(F[h], x, y) /\ x # Head(F[a]) => h \in DOMAIN G /\ Precedes(G[h], x, y)
         /\ b \in DOMAIN F => \A x \in Elements(F[b]) : Precedes(G[b], x, Head(F[a]))
         /\ \A h \in DOMAIN G : \A x \in Elements(G[h]) :
              (x = Head(F[a]) /\ h = b)
                \/ (x # Head(F[a]) /\ h \in DOMAIN F /\ x \in Elements(F[h]))
<1> DEFINE z == Head(F[a])
<1>1. /\ a \in DOMAIN F /\ a # b /\ F[a] # <<>> /\ DOMAIN G = DOMAIN F \cup {b}
      /\ G[a] = Tail(F[a]) /\ \A h \in DOMAIN F : h \notin {a, b} => G[h] = F[h]
  BY DEF PacketMoves
<1>2. \A h \in DOMAIN F : F[h] \in Seq(Packets) /\ Distinct(F[h])
  BY DEF Apart
<1>3. /\ z \in Packets /\ z \in Elements(F[a]) /\ z \notin Elements(G[a])
      /\ Elements(F[a]) = Elements(G[a]) \cup {z}
  BY <1>1, <1>2, TailFacts
<1>4. (b \in DOMAIN F /\ G[b] = Append(F[b], z)) \/ (b \notin DOMAIN F /\ G[b] = <<z>>)
  BY DEF PacketMoves
<1>5. /\ \A x : ~Precedes(F[a], x, z)
      /\ \A x, y : Precedes(F[a], x, y) /\ x # z => Precedes(G[a], x, y)
  <2>1. F[a] \in Seq(Packets) /\ F[a] # <<>> /\ Distinct(F[a])
    BY <1>1, <1>2
  <2>2. /\ \A x : ~Precedes(F[a], x, Head(F[a]))
        /\ \A x, y : Precedes(F[a], x, y) /\ x # Head(F[a]) => Precedes(Tail(F[a]), x, y)
    BY <2>1, PrecedesTail
  <2>3. G[a] = Tail(F[a])
    BY <1>1
  <2>4. QED BY <2>2, <2>3, Zenon
<1> HIDE DEF z
<1>6. \A h \in DOMAIN F : h # a => z \notin Elements(F[h])
  BY <1>1, <1>3 DEF Apart
<1>7. ASSUME NEW h \in DOMAIN F, NEW x PROVE ~Precedes(F[h], x, z)
  BY <1>2, <1>5, <1>6, PrecedesFacts
<1>8. ASSUME b \in DOMAIN F
      PROVE  /\ \A x \in Elements(F[b]) : Precedes(G[b], x, z)
             /\ \A x, y : Precedes(F[b], x, y) => Precedes(G[b], x, y)
             /\ Elements(G[b]) = Elements(F[b]) \cup {z}
  <2>1. F[b] \in Seq(Packets) /\ z \in Packets /\ G[b] = Append(F[b], z)
    BY <1>2, <1>3, <1>4, <1>8
  <2>2. /\ \A x \in Elements(F[b]) : Precedes(Append(F[b], z), x, z)
        /\ \A x, y : Precedes(F[b], x, y) => Precedes(Append(F[b], z), x, y)
    BY <2>1, PrecedesAppend
  <2>3. Elements(Append(F[b], z)) = Elements(F[b]) \cup {z}
    BY <2>1, AppendFacts
  <2>4. QED BY <2>1, <2>2, <2>3, Zenon
<1>9. ASSUME NEW h \in DOMAIN F, NEW x, NEW y, Precedes(F[h], x, y), x # z
      PROVE  h \in DOMAIN G /\ Precedes(G[h], x, y)
  <2>1. CASE h = a
    BY <1>1, <1>5, <1>9, <2>1
  <2>2. CASE h = b
    BY <1>1, <1>8, <1>9, <2>2, Zenon
  <2>3. CASE h \notin {a, b}
    BY <1>1, <1>9, <2>3
  <2>4. QED BY <2>1, <2>2, <2>3
<1>10. ASSUME NEW h \in DOMAIN G, NEW x \in Elements(G[h])
       PROVE  (x = z /\ h = b) \/ (x # z /\ h \in DOMAIN F /\ x \in Elements(F[h]))
  <2>1. CASE h = a
    BY <1>1, <1>3, <1>10, <2>1
  <2>2. CASE h = b /\ b \in DOMAIN F
    <3>1. x \in Elements(F[b]) \/ x = z
      BY <1>8, <1>10, <2>2
    <3>2. z \notin Elements(F[b])
      BY <1>1, <1>6, <2>2
    <3>3. QED BY <2>2, <3>1, <3>2
  <2>3. CASE h = b /\ b \notin DOMAIN F
    BY <1>3, <1>4, <1>10, <2>3, SingleFacts
  <2>4. CASE h \notin {a, b}
    BY <1>1, <1>6, <1>10, <2>4
  <2>5. QED BY <2>1, <2>2, <2>3, <2>4
<1>11. QED BY <1>7, <1>8, <1>9, <1>10 DEF z

\* P[n] are the nodes a packet of class c has passed when it comes to n:
\* every output such a packet may take leads to a node that no other does.
OneWay(g, c, P) ==
  /\ P[g.root] = {}
  /\ \A m \in g.nodes : (m = g.root \/ g.root \in P[m]) =>
       \A o \in Verdicts(m, c) \ {Gone} :
         /\ P[Target(g, m, o)] = P[m] \cup {m}
         /\ \A n \in g.nodes : Target(g, m, o) \in P[n] => m \in P[n]
         /\ \A q \in Verdicts(m, c) \ {Gone} : q # o => Target(g, m, q) # Target(g, m, o)

OnePath(g, A) == \A c \in Classes : OneWay(g, c, A[c])

AllOnePath == \A g \in Graphs : \E A : OnePath(g, A)

Passed == CHOOSE A : OnePath(graph, A)
Reached(c, n) == n = graph.root \/ graph.root \in Passed[c][n]

LEMMA PassedFacts ==
  ASSUME AllOnePath, graph \in Graphs
  PROVE  OnePath(graph, Passed)
<1>1. \E A : OnePath(graph, A)
  BY DEF AllOnePath
<1>2. QED BY <1>1, Zenon DEF Passed

\* The stages of a packet at node n: 0 on an output wired to n, 1 pending at n,
\* 2 in the frame n works on, 3 left at n.
HolderAt(h, n, s) ==
  \/ s = 0 /\ \E o \in Outs : h = <<"scratch", o>> /\ Target(graph, node, o) = n
  \/ s = 1 /\ \E f \in Elements(pending[n]) : h = <<"frame", f>>
  \/ s = 2 /\ n = node /\ \E f \in Elements(drain) : h = <<"frame", f>>

LeftAt(x, n) == \E i \in DOMAIN left : left[i].p = x /\ left[i].at = n

Loc(x, n, s) ==
  \/ \E h \in Holders : x \in Elements(Contents[h]) /\ HolderAt(h, n, s)
  \/ s = 3 /\ LeftAt(x, n)

Stages == 0 .. 3

\* A packet of class c at stage i of m may still come to stage j of n.
Upstream(c, m, i, n, j) ==
  \/ i < 3 /\ m \in Passed[c][n]
  \/ m = n /\ i < j

Earlier(x, y) == Precedes(arrived, x, y)
Ahead(x, y) == \E h \in Holders : Precedes(Contents[h], x, y)

Placed ==
  /\ \A x \in Packets, n \in graph.nodes, s \in Stages : Loc(x, n, s) => Reached(Class[x], n)
  /\ \A o \in Outs : \A x \in Elements(scratch[o]) : o \in Verdicts(node, Class[x])
  /\ Feeding => node = graph.root

NoneOvertaken ==
  \A x, y \in Packets : Class[x] = Class[y] /\ Earlier(x, y) =>
    \A m, n \in graph.nodes, i, j \in Stages : Loc(x, m, i) /\ Loc(y, n, j) =>
      /\ ~Upstream(Class[x], m, i, n, j)
      /\ m = n /\ i = j => Ahead(x, y)

OrderInv == AllocInv /\ Placed /\ NoneOvertaken

\* Packets stay where they are, or are gone.
LEMMA StayOrdered ==
  ASSUME NoneOvertaken, UNCHANGED <<graph, arrived>>,
         \A x \in Packets, n \in graph.nodes, s \in Stages : Loc(x, n, s)' => Loc(x, n, s),
         \A x, y \in Packets : Ahead(x, y) => Ahead(x, y)'
  PROVE  NoneOvertaken'
<1>1. Passed' = Passed
  BY DEF Passed
<1>2. \A x, y : Earlier(x, y)' <=> Earlier(x, y)
  BY DEF Earlier
<1>3. \A c, m, i, n, j : Upstream(c, m, i, n, j)' <=> Upstream(c, m, i, n, j)
  BY <1>1 DEF Upstream
<1> SUFFICES ASSUME NEW x \in Packets, NEW y \in Packets, Class[x] = Class[y],
                    Earlier(x, y)', NEW m \in graph.nodes, NEW n \in graph.nodes,
                    NEW i \in Stages, NEW j \in Stages, Loc(x, m, i)', Loc(y, n, j)'
             PROVE  ~Upstream(Class[x], m, i, n, j)' /\ (m = n /\ i = j => Ahead(x, y)')
  BY DEF NoneOvertaken
<1>4. Loc(x, m, i) /\ Loc(y, n, j) /\ Earlier(x, y)
  BY <1>2
<1>5. ~Upstream(Class[x], m, i, n, j) /\ (m = n /\ i = j => Ahead(x, y))
  BY <1>4 DEF NoneOvertaken
<1>6. QED BY <1>3, <1>5

\* The first packet z of a place, one of class c, goes on to the next place
\* and comes to stand behind the others there.
Advances(z, c, n0, s0, n1, s1) ==
  /\ Loc(z, n0, s0)
  /\ \A x \in Packets, n \in graph.nodes, s \in Stages :
       Loc(x, n, s)' => IF x = z THEN n = n1 /\ s = s1 ELSE Loc(x, n, s)
  /\ \A x, y \in Packets : Ahead(x, y) /\ x # z => Ahead(x, y)'
  /\ \A x \in Packets : ~Ahead(x, z)
  /\ \A x \in Packets : Class[x] = c /\ x # z /\ Loc(x, n1, s1) => Ahead(x, z)'

\* The next place is reached from the first one, and from what it is reached.
Onward(c, n0, s0, n1, s1) ==
  /\ \A m \in graph.nodes, i \in Stages :
       Upstream(c, m, i, n1, s1) => Upstream(c, m, i, n0, s0) \/ (m = n0 /\ i = s0)
  /\ \A n \in graph.nodes, j \in Stages :
       Upstream(c, n1, s1, n, j) \/ (n = n1 /\ j = s1) => Upstream(c, n0, s0, n, j)

LEMMA MoveOrdered ==
  ASSUME NoneOvertaken, UNCHANGED <<graph, arrived>>, NEW z \in Packets, NEW c, c = Class[z],
         NEW n0 \in graph.nodes, NEW s0 \in Stages, NEW n1 \in graph.nodes, NEW s1 \in Stages,
         Advances(z, c, n0, s0, n1, s1), Onward(c, n0, s0, n1, s1),
         \A x : ~Earlier(x, x)
  PROVE  NoneOvertaken'
<1>1. Passed' = Passed
  BY DEF Passed
<1>2. \A x, y : Earlier(x, y)' <=> Earlier(x, y)
  BY DEF Earlier
<1>3. \A d, m, i, n, j : Upstream(d, m, i, n, j)' <=> Upstream(d, m, i, n, j)
  BY <1>1 DEF Upstream
<1> SUFFICES ASSUME NEW x \in Packets, NEW y \in Packets, Class[x] = Class[y],
                    Earlier(x, y)', NEW m \in graph.nodes, NEW n \in graph.nodes,
                    NEW i \in Stages, NEW j \in Stages, Loc(x, m, i)', Loc(y, n, j)'
             PROVE  ~Upstream(Class[x], m, i, n, j)' /\ (m = n /\ i = j => Ahead(x, y)')
  BY DEF NoneOvertaken
<1>4. Earlier(x, y) /\ x # y
  BY <1>2
<1> USE DEF Advances, Onward
<1>5. CASE x # z /\ y # z
  <2>1. Loc(x, m, i) /\ Loc(y, n, j)
    BY <1>5
  <2>2. ~Upstream(Class[x], m, i, n, j) /\ (m = n /\ i = j => Ahead(x, y))
    BY <1>4, <2>1 DEF NoneOvertaken
  <2>3. QED BY <1>3, <1>5, <2>2
<1>6. CASE y = z
  <2>1. Loc(x, m, i) /\ n = n1 /\ j = s1
    BY <1>4, <1>6
  <2>2. ~Upstream(Class[z], m, i, n0, s0) /\ (m = n0 /\ i = s0 => Ahead(x, z))
    BY <1>4, <1>6, <2>1 DEF NoneOvertaken
  <2>3. ~Upstream(Class[z], m, i, n1, s1)
    BY <2>2
  <2>4. m = n1 /\ i = s1 => Ahead(x, z)'
    BY <1>4, <1>6, <2>1
  <2>5. QED BY <1>3, <1>6, <2>1, <2>3, <2>4
<1>7. CASE x = z
  <2>1. Loc(y, n, j) /\ m = n1 /\ i = s1
    BY <1>4, <1>7
  <2>2. ~Upstream(Class[z], n0, s0, n, j)
    BY <1>4, <1>7, <2>1 DEF NoneOvertaken
  <2>3. ~Upstream(Class[z], n1, s1, n, j) /\ ~(n = n1 /\ j = s1)
    BY <2>2
  <2>4. QED BY <1>3, <1>7, <2>1, <2>3
<1>8. QED BY <1>5, <1>6, <1>7

LEMMA HolderAtFacts ==
  /\ \A o, n, s : HolderAt(<<"scratch", o>>, n, s) =>
       s = 0 /\ o \in Outs /\ Target(graph, node, o) = n
  /\ \A f, n, s : HolderAt(<<"frame", f>>, n, s) =>
       \/ s = 1 /\ f \in Elements(pending[n])
       \/ s = 2 /\ n = node /\ f \in Elements(drain)
  /\ \A n, s : ~HolderAt(LEFT, n, s)
  /\ \A h, n, s : HolderAt(h, n, s) =>
       \/ s = 0 /\ \E o \in Outs : h = <<"scratch", o>>
       \/ s = 1 /\ \E f \in Elements(pending[n]) : h = <<"frame", f>>
       \/ s = 2 /\ n = node /\ \E f \in Elements(drain) : h = <<"frame", f>>
  /\ \A o \in Outs : HolderAt(<<"scratch", o>>, Target(graph, node, o), 0)
  /\ \A n : \A f \in Elements(pending[n]) : HolderAt(<<"frame", f>>, n, 1)
  /\ \A f \in Elements(drain) : HolderAt(<<"frame", f>>, node, 2)
<1>1. \A o, n, s : HolderAt(<<"scratch", o>>, n, s) =>
        s = 0 /\ o \in Outs /\ Target(graph, node, o) = n
  BY DEF HolderAt
<1>2. \A f, n, s : HolderAt(<<"frame", f>>, n, s) =>
        (s = 1 /\ f \in Elements(pending[n])) \/ (s = 2 /\ n = node /\ f \in Elements(drain))
  BY DEF HolderAt
<1>3. \A n, s : ~HolderAt(LEFT, n, s)
  BY HoldersApart DEF HolderAt
<1>4. /\ \A o \in Outs : HolderAt(<<"scratch", o>>, Target(graph, node, o), 0)
      /\ \A n : \A f \in Elements(pending[n]) : HolderAt(<<"frame", f>>, n, 1)
      /\ \A f \in Elements(drain) : HolderAt(<<"frame", f>>, node, 2)
  BY DEF HolderAt
<1>5. \A h, n, s : HolderAt(h, n, s) =>
        \/ s = 0 /\ \E o \in Outs : h = <<"scratch", o>>
        \/ s = 1 /\ \E f \in Elements(pending[n]) : h = <<"frame", f>>
        \/ s = 2 /\ n = node /\ \E f \in Elements(drain) : h = <<"frame", f>>
  BY DEF HolderAt
<1>6. QED BY <1>1, <1>2, <1>3, <1>4, <1>5

LEMMA HolderAtNext ==
  /\ \A o, n, s : HolderAt(<<"scratch", o>>, n, s)' =>
       s = 0 /\ o \in Outs /\ Target(graph', node', o) = n
  /\ \A f, n, s : HolderAt(<<"frame", f>>, n, s)' =>
       \/ s = 1 /\ f \in Elements(pending'[n])
       \/ s = 2 /\ n = node' /\ f \in Elements(drain')
  /\ \A n, s : ~HolderAt(LEFT, n, s)'
  /\ \A h, n, s : HolderAt(h, n, s)' =>
       \/ s = 0 /\ \E o \in Outs : h = <<"scratch", o>>
       \/ s = 1 /\ \E f \in Elements(pending'[n]) : h = <<"frame", f>>
       \/ s = 2 /\ n = node' /\ \E f \in Elements(drain') : h = <<"frame", f>>
<1>1. \A o, n, s : HolderAt(<<"scratch", o>>, n, s)' =>
        s = 0 /\ o \in Outs /\ Target(graph', node', o) = n
  BY DEF HolderAt, Target
<1>2. \A f, n, s : HolderAt(<<"frame", f>>, n, s)' =>
        (s = 1 /\ f \in Elements(pending'[n])) \/ (s = 2 /\ n = node' /\ f \in Elements(drain'))
  BY DEF HolderAt, Elements
<1>3. \A n, s : ~HolderAt(LEFT, n, s)'
  BY HoldersApart DEF HolderAt
<1>4. \A h, n, s : HolderAt(h, n, s)' =>
        \/ s = 0 /\ \E o \in Outs : h = <<"scratch", o>>
        \/ s = 1 /\ \E f \in Elements(pending'[n]) : h = <<"frame", f>>
        \/ s = 2 /\ n = node' /\ \E f \in Elements(drain') : h = <<"frame", f>>
  BY DEF HolderAt, Elements
<1>5. QED BY <1>1, <1>2, <1>3, <1>4

LEMMA LocMoved ==
  ASSUME PacketInv, NEW a, NEW b, PacketMoves(Contents, Contents', a, b), NEW z,
         z = Head(Contents[a])
  PROVE  /\ a \in Holders /\ z \in Elements(Contents[a])
         /\ \A h \in Holders : h # a => z \notin Elements(Contents[h])
         /\ \A x, y : Ahead(x, y) /\ x # z => Ahead(x, y)'
         /\ \A x : ~Ahead(x, z)
         /\ b \in Holders => \A x \in Elements(Contents[b]) : Ahead(x, z)'
         /\ \A h \in Holders' : \A x \in Elements(Contents'[h]) :
              (x = z /\ h = b) \/ (x # z /\ h \in Holders /\ x \in Elements(Contents[h]))
<1>1. /\ Apart(Contents, Elements(arrived)) /\ DOMAIN Contents = Holders
      /\ DOMAIN Contents' = Holders' /\ a \in Holders /\ Contents[a] # <<>>
      /\ Holders' = Holders \cup {b}
  BY ContentsFacts, ContentsFactsNext DEF PacketInv, PacketMoves
<1>2. z \in Elements(Contents[a])
  <2>1. Contents[a] \in Seq(Packets)
    BY <1>1 DEF Apart
  <2>2. QED BY <1>1, <2>1, TailFacts
<1>3. \A h \in Holders : h # a => z \notin Elements(Contents[h])
  BY <1>1, <1>2 DEF Apart
<1>4. /\ \A h \in Holders : \A x : ~Precedes(Contents[h], x, z)
      /\ \A h \in Holders : \A x, y :
           Precedes(Contents[h], x, y) /\ x # z => h \in Holders' /\ Precedes(Contents'[h], x, y)
      /\ b \in Holders => \A x \in Elements(Contents[b]) : Precedes(Contents'[b], x, z)
      /\ \A h \in Holders' : \A x \in Elements(Contents'[h]) :
           (x = z /\ h = b) \/ (x # z /\ h \in Holders /\ x \in Elements(Contents[h]))
  BY <1>1, MovedOrder
<1>5. \A x, y : (\E h \in Holders' : Precedes(Contents'[h], x, y)) => Ahead(x, y)'
  BY DEF Ahead, Precedes
<1>6. \A x, y : Ahead(x, y) /\ x # z => Ahead(x, y)'
  BY <1>4, <1>5, Zenon DEF Ahead
<1>7. \A x : ~Ahead(x, z)
  BY <1>4, Zenon DEF Ahead
<1>8. b \in Holders => \A x \in Elements(Contents[b]) : Ahead(x, z)'
  BY <1>1, <1>4, <1>5, Zenon
<1>9. QED BY <1>1, <1>2, <1>3, <1>4, <1>6, <1>7, <1>8

LEMMA LeftHeld == \A x, n : LeftAt(x, n) => x \in Elements(Contents[LEFT])
<1>1. \A i \in DOMAIN left : left[i].p \in Elements(LeftPackets)
  BY DEF Elements, LeftPackets
<1>2. QED BY <1>1, ContentsFacts DEF LeftAt

LEMMA NotEarlierSelf ==
  ASSUME OneFrame, TypeOK
  PROVE  \A x : ~Earlier(x, x)
<1>1. arrived \in Seq(Packets) /\ Distinct(arrived)
  BY DEF OneFrame, TypeOK
<1>2. QED BY <1>1, PrecedesFacts DEF Earlier

LEMMA StageFacts ==
  /\ \A i \in Stages : i \in {0, 1, 2, 3} /\ ~(i < 0) /\ ~(3 < i) /\ (i < 1 <=> i = 0)
                       /\ (i < 2 <=> i \in {0, 1}) /\ (i < 3 <=> i \in {0, 1, 2})
                       /\ (2 < i <=> i = 3) /\ (1 < i <=> i \in {2, 3})
                       /\ (0 < i <=> i \in {1, 2, 3})
  /\ 0 \in Stages /\ 1 \in Stages /\ 2 \in Stages /\ 3 \in Stages
BY DEF Stages

\* Where packets are depends on these alone.
LEMMA HolderAtStays ==
  ASSUME UNCHANGED <<graph, node, pending, drain>>
  PROVE  \A h, n, s : HolderAt(h, n, s)' <=> HolderAt(h, n, s)
BY DEF HolderAt

LEMMA ReachedStays ==
  ASSUME graph' = graph
  PROVE  \A c, n : Reached(c, n)' <=> Reached(c, n)
BY DEF Reached, Passed

\* What is placed stays so if packets move from a reached node to a reached one.
LEMMA PlacedStays ==
  ASSUME Placed, graph' = graph, NEW z \in Packets, NEW c, c = Class[z], NEW n1,
         \A x \in Packets, n \in graph.nodes, s \in Stages :
           Loc(x, n, s)' => IF x = z THEN n = n1 ELSE Loc(x, n, s),
         Reached(c, n1),
         \A o \in Outs : \A x \in Elements(scratch'[o]) : o \in Verdicts(node', Class[x]),
         Feeding' => node' = graph.root
  PROVE  Placed'
<1>1. \A x \in Packets, n \in graph.nodes, s \in Stages :
        Loc(x, n, s)' => Reached(Class[x], n)
  BY DEF Placed
<1>2. \A x \in Packets, n \in graph.nodes, s \in Stages :
        Loc(x, n, s)' => Reached(Class[x], n)'
  BY <1>1, ReachedStays
<1>3. QED BY <1>2 DEF Placed, Elements

\* An output of a node that a packet has reached.
LEMMA OnwardFacts ==
  ASSUME AllComplete, AllOnePath, graph \in Graphs, NEW c \in Classes, NEW m \in graph.nodes,
         Reached(c, m), NEW o \in Verdicts(m, c), o # Gone
  PROVE  /\ Target(graph, m, o) \in graph.nodes
         /\ Passed[c][Target(graph, m, o)] = Passed[c][m] \cup {m}
         /\ \A n \in graph.nodes : Target(graph, m, o) \in Passed[c][n] => m \in Passed[c][n]
         /\ \A q \in Verdicts(m, c) : q # Gone /\ q # o =>
              Target(graph, m, q) # Target(graph, m, o)
         /\ Reached(c, Target(graph, m, o))
<1>1. WireFrom(graph, m, o) # {}
  BY DEF AllComplete, Complete
<1>2. Target(graph, m, o) \in graph.nodes
  BY <1>1, TargetFacts
<1>3. OnePath(graph, Passed)
  BY PassedFacts
<1>4. /\ Passed[c][Target(graph, m, o)] = Passed[c][m] \cup {m}
      /\ \A n \in graph.nodes : Target(graph, m, o) \in Passed[c][n] => m \in Passed[c][n]
      /\ \A q \in Verdicts(m, c) : q # Gone /\ q # o =>
           Target(graph, m, q) # Target(graph, m, o)
  BY <1>3 DEF OnePath, OneWay, Reached
<1>5. Reached(c, Target(graph, m, o))
  BY <1>4 DEF Reached
<1>6. QED BY <1>2, <1>4, <1>5

LEMMA OrderProcess ==
  ASSUME OrderInv, AllComplete, AllOnePath, Process, AllocInv'
  PROVE  OrderInv'
<1>0. PICK z, m, h : z = Current /\ m = node /\ h = Head(drain)
  OBVIOUS
<1> DEFINE c == Class[z]
           a == <<"frame", h>>
<1>1. UNCHANGED <<graph, node, pending, drain, arrived>>
  BY DEF Process
<1>2. /\ PacketInv /\ FrameInv /\ TypeOK /\ OneFrame /\ Placed /\ NoneOvertaken
      /\ graph \in Graphs /\ m \in graph.nodes /\ drain \in Seq(Frames)
      /\ left \in Seq([p : Packets, at : graph.nodes])
      /\ scratch \in [Outs -> Seq(Packets)]
  BY <1>0 DEF OrderInv, AllocInv, PacketInv, FrameInv, TypeOK
<1>3. drain # <<>> /\ h \in Frames /\ bufs[h] # <<>> /\ z \in Packets
  BY <1>0, <1>2, ProcessMoves
<1>4. h \in Elements(drain)
  BY <1>0, <1>2, <1>3, HeadDrain
<1>5. PICK out \in Verdicts(m, c) :
        \/ /\ out = Gone /\ scratch' = scratch
           /\ left' = Append(left, [p |-> z, at |-> m])
           /\ PacketMoves(Contents, Contents', a, LEFT)
        \/ /\ out # Gone /\ out \in Outs /\ left' = left
           /\ scratch'[out] = Append(scratch[out], z)
           /\ \A o \in Outs : o # out => scratch'[o] = scratch[o]
           /\ PacketMoves(Contents, Contents', a, <<"scratch", out>>)
  BY <1>0, <1>2, ProcessMoves
<1>6. a \in Holders /\ Contents[a] = bufs[h] /\ z = Head(Contents[a])
  BY <1>0, <1>3, ContentsFacts DEF Current
<1>7. c \in Classes
  BY <1>3, DispatcherAssumption
<1>8. HolderAt(a, m, 2)
  BY <1>0, <1>4, HolderAtFacts
<1> HIDE DEF a, c
<1>9. \A k, n, s : HolderAt(k, n, s)' <=> HolderAt(k, n, s)
  BY <1>1, HolderAtStays
<1>10. \A x : ~Earlier(x, x)
  BY <1>2, NotEarlierSelf
<1>11. Loc(z, m, 2) /\ 2 \in Stages
  <2>1. z \in Elements(Contents[a])
    <3>1. PICK b : PacketMoves(Contents, Contents', a, b)
      BY <1>5
    <3>2. QED BY <1>2, <1>6, <3>1, LocMoved
  <2>2. QED BY <1>6, <1>8, <2>1, StageFacts DEF Loc
<1>12. Reached(c, m)
  BY <1>2, <1>3, <1>11 DEF Placed, c
<1>13. Feeding' => node' = graph.root
  BY <1>1, <1>2 DEF Placed, Feeding
<1>14. c = Class[z]
  BY DEF c
<1>a. PacketInv
  BY <1>2
<1>b. NoneOvertaken /\ Placed /\ m \in graph.nodes /\ UNCHANGED <<graph, arrived>>
  BY <1>1, <1>2
<1>15. CASE out = Gone
  <2>1. /\ scratch' = scratch /\ left' = Append(left, [p |-> z, at |-> m])
        /\ PacketMoves(Contents, Contents', a, LEFT)
    BY <1>5, <1>15
  <2>2. LEFT \in Holders /\ a # LEFT
    BY ContentsFacts, HoldersApart DEF a
  <2>3. /\ \A k \in Holders : k # a => z \notin Elements(Contents[k])
        /\ \A x, y : Ahead(x, y) /\ x # z => Ahead(x, y)'
        /\ \A x : ~Ahead(x, z)
        /\ \A x \in Elements(Contents[LEFT]) : Ahead(x, z)'
        /\ \A k \in Holders' : \A x \in Elements(Contents'[k]) :
             (x = z /\ k = LEFT) \/ (x # z /\ k \in Holders /\ x \in Elements(Contents[k]))
    <3>1. PacketInv
      BY <1>a
    <3>2. PacketMoves(Contents, Contents', a, LEFT)
      BY <2>1
    <3>3. z = Head(Contents[a])
      BY <1>6
    <3>4. /\ \A k \in Holders : k # a => z \notin Elements(Contents[k])
          /\ \A x, y : Ahead(x, y) /\ x # z => Ahead(x, y)'
          /\ \A x : ~Ahead(x, z)
          /\ LEFT \in Holders => \A x \in Elements(Contents[LEFT]) : Ahead(x, z)'
          /\ \A k \in Holders' : \A x \in Elements(Contents'[k]) :
             (x = z /\ k = LEFT) \/ (x # z /\ k \in Holders /\ x \in Elements(Contents[k]))
      BY <3>1, <3>2, <3>3, LocMoved
    <3>5. QED BY <2>2, <3>4, Zenon
  <2>4. \A x, n : LeftAt(x, n)' => LeftAt(x, n) \/ (x = z /\ n = m)
    <3> DEFINE e == [p |-> z, at |-> m]
               E == [p : Packets, at : graph.nodes]
    <3>1. e.p = z /\ e.at = m /\ e \in E /\ left \in Seq(E) /\ left' = Append(left, e)
      BY <1>2, <1>3, <2>1
    <3> HIDE DEF e, E
    <3>2. /\ DOMAIN left' = 1 .. Len(left) + 1 /\ DOMAIN left = 1 .. Len(left)
          /\ left'[Len(left) + 1] = e /\ \A i \in 1 .. Len(left) : left'[i] = left[i]
          /\ Len(left) \in Nat
      BY <3>1
    <3>3. \A i \in DOMAIN left' : i = Len(left) + 1 \/ i \in DOMAIN left
      BY <3>2
    <3>4. QED BY <3>1, <3>2, <3>3 DEF LeftAt
  <2>5. \A n : ~LeftAt(z, n)
    BY <2>2, <2>3, LeftHeld
  <2>6. ASSUME NEW x \in Packets, NEW n \in graph.nodes, NEW s \in Stages, Loc(x, n, s)'
        PROVE  IF x = z THEN n = m /\ s = 3 ELSE Loc(x, n, s)
    <3>1. CASE s = 3 /\ LeftAt(x, n)'
      BY <2>4, <2>5, <3>1 DEF Loc
    <3>2. ASSUME NEW k \in Holders', x \in Elements(Contents'[k]), HolderAt(k, n, s)'
          PROVE  x # z /\ Loc(x, n, s)
      <4>1. HolderAt(k, n, s)
        BY <1>9, <3>2
      <4>2. k # LEFT
        BY <4>1, HolderAtFacts
      <4>3. QED BY <2>3, <3>2, <4>1, <4>2 DEF Loc
    <3>3. QED BY <2>6, <3>1, <3>2 DEF Loc, Elements
  <2>7. \A x \in Packets : Class[x] = c /\ x # z /\ Loc(x, m, 3) => Ahead(x, z)'
    <3>1. \A k : ~HolderAt(k, m, 3)
      BY HolderAtFacts
    <3>2. QED BY <2>3, <3>1, LeftHeld DEF Loc
  <2>8. \A n \in graph.nodes, i \in Stages :
          Upstream(c, n, i, m, 3) => Upstream(c, n, i, m, 2) \/ (n = m /\ i = 2)
    BY StageFacts DEF Upstream
  <2>9. \A n \in graph.nodes, j \in Stages :
          Upstream(c, m, 3, n, j) \/ (n = m /\ j = 3) => Upstream(c, m, 2, n, j)
    BY StageFacts DEF Upstream
  <2>10. 3 \in Stages
    BY StageFacts
  <2>a. Advances(z, c, m, 2, m, 3)
    BY <1>11, <2>3, <2>6, <2>7 DEF Advances
  <2>b. Onward(c, m, 2, m, 3)
    BY <2>8, <2>9 DEF Onward
  <2>11. NoneOvertaken'
    BY <1>b, <1>3, <1>10, <1>11, <1>14, <2>10, <2>a, <2>b, MoveOrdered
  <2>12. \A o \in Outs : \A x \in Elements(scratch'[o]) : o \in Verdicts(node', Class[x])
    BY <1>1, <1>2, <2>1 DEF Placed
  <2>13. \A x \in Packets, n \in graph.nodes, s \in Stages :
           Loc(x, n, s)' => IF x = z THEN n = m ELSE Loc(x, n, s)
    BY <2>6
  <2>14. Placed'
    BY <1>b, <1>3, <1>12, <1>13, <1>14, <2>12, <2>13, PlacedStays
  <2>15. QED BY <2>11, <2>14 DEF OrderInv
<1>16. CASE out # Gone
  <2>0. PICK t : t = Target(graph, m, out)
    OBVIOUS
  <2> DEFINE b == <<"scratch", out>>
  <2>1. /\ out \in Outs /\ left' = left /\ scratch'[out] = Append(scratch[out], z)
        /\ \A o \in Outs : o # out => scratch'[o] = scratch[o]
        /\ PacketMoves(Contents, Contents', a, b)
    BY <1>5, <1>16
  <2>2. /\ t \in graph.nodes /\ Passed[c][t] = Passed[c][m] \cup {m}
        /\ \A n \in graph.nodes : t \in Passed[c][n] => m \in Passed[c][n]
        /\ \A q \in Verdicts(m, c) : q # Gone /\ q # out => Target(graph, m, q) # t
        /\ Reached(c, t)
    BY <1>2, <1>7, <1>12, <1>16, <2>0, OnwardFacts
  <2>3. b \in Holders /\ Contents[b] = scratch[out] /\ b # LEFT
        /\ LEFT \in Holders /\ a # LEFT
    BY <2>1, ContentsFacts, HoldersApart DEF a
  <2>4. \A n, s : HolderAt(b, n, s) => n = t /\ s = 0
    BY <1>0, <2>0, HolderAtFacts
  <2>5. \A k : HolderAt(k, t, 0) =>
          \E o \in Outs : k = <<"scratch", o>> /\ Target(graph, m, o) = t
    BY <1>0, HolderAtFacts
  <2> HIDE DEF b
  <2>6. /\ \A k \in Holders : k # a => z \notin Elements(Contents[k])
        /\ \A x, y : Ahead(x, y) /\ x # z => Ahead(x, y)'
        /\ \A x : ~Ahead(x, z)
        /\ \A x \in Elements(Contents[b]) : Ahead(x, z)'
        /\ \A k \in Holders' : \A x \in Elements(Contents'[k]) :
             (x = z /\ k = b) \/ (x # z /\ k \in Holders /\ x \in Elements(Contents[k]))
    <3>1. PacketInv
      BY <1>a
    <3>2. PacketMoves(Contents, Contents', a, b)
      BY <2>1
    <3>3. z = Head(Contents[a])
      BY <1>6
    <3>4. /\ \A k \in Holders : k # a => z \notin Elements(Contents[k])
          /\ \A x : ~Ahead(x, z)
      BY <3>1, <3>2, <3>3, LocMoved
    <3>5. \A x, y : Ahead(x, y) /\ x # z => Ahead(x, y)'
      BY <3>1, <3>2, <3>3, LocMoved
    <3>6. b \in Holders => \A x \in Elements(Contents[b]) : Ahead(x, z)'
      BY <3>1, <3>2, <3>3, LocMoved
    <3>7. \A k \in Holders' : \A x \in Elements(Contents'[k]) :
            (x = z /\ k = b) \/ (x # z /\ k \in Holders /\ x \in Elements(Contents[k]))
      BY <3>1, <3>2, <3>3, LocMoved
    <3>8. QED BY <2>3, <3>4, <3>5, <3>6, <3>7, Zenon
  <2>7. /\ \A x, n : LeftAt(x, n)' => LeftAt(x, n)
        /\ \A n : ~LeftAt(z, n)
    <3>1. \A x, n : LeftAt(x, n)' => LeftAt(x, n)
      BY <2>1 DEF LeftAt
    <3>2. QED BY <2>3, <2>6, <3>1, LeftHeld
  <2>8. ASSUME NEW x \in Packets, NEW n \in graph.nodes, NEW s \in Stages, Loc(x, n, s)'
        PROVE  IF x = z THEN n = t /\ s = 0 ELSE Loc(x, n, s)
    <3>1. CASE s = 3 /\ LeftAt(x, n)'
      BY <2>7, <3>1 DEF Loc
    <3>2. ASSUME NEW k \in Holders', x \in Elements(Contents'[k]), HolderAt(k, n, s)'
          PROVE  IF x = z THEN n = t /\ s = 0 ELSE Loc(x, n, s)
      <4>1. HolderAt(k, n, s)
        BY <1>9, <3>2
      <4>2. QED BY <2>4, <2>6, <3>2, <4>1 DEF Loc
    <3>3. QED BY <2>8, <3>1, <3>2 DEF Loc, Elements
  <2>9. ASSUME NEW x \in Packets, Class[x] = c, x # z, Loc(x, t, 0) PROVE Ahead(x, z)'
    <3>1. PICK k \in Holders : x \in Elements(Contents[k]) /\ HolderAt(k, t, 0)
      BY <2>9 DEF Loc
    <3>2. PICK o \in Outs : k = <<"scratch", o>> /\ Target(graph, m, o) = t
      BY <2>5, <3>1
    <3>3. x \in Elements(scratch[o])
      BY <3>1, <3>2, ContentsFacts
    <3>4. o \in Verdicts(m, c) /\ o # Gone
      <4>1. o \in Verdicts(m, c)
        BY <1>0, <1>2, <2>9, <3>3 DEF Placed
      <4>2. Gone \notin Outs
        BY DispatcherAssumption DEF Outs
      <4>3. QED BY <4>1, <4>2
    <3>5. o = out
      BY <2>2, <3>2, <3>4
    <3>6. QED BY <2>6, <3>1, <3>2, <3>5 DEF b
  <2>10. \A n \in graph.nodes, i \in Stages :
           Upstream(c, n, i, t, 0) => Upstream(c, n, i, m, 2) \/ (n = m /\ i = 2)
    BY <2>2, StageFacts DEF Upstream
  <2>11. \A n \in graph.nodes, j \in Stages :
           Upstream(c, t, 0, n, j) \/ (n = t /\ j = 0) => Upstream(c, m, 2, n, j)
    <3>1. \A n \in graph.nodes, j \in Stages : Upstream(c, t, 0, n, j) => t \in Passed[c][n] \/ n = t
      BY DEF Upstream
    <3>2. \A n \in graph.nodes : t \in Passed[c][n] \/ n = t => m \in Passed[c][n]
      BY <2>2
    <3>3. 2 < 3
      OBVIOUS
    <3>4. QED BY <3>1, <3>2, <3>3 DEF Upstream
  <2>12. 0 \in Stages
    BY StageFacts
  <2>a. Advances(z, c, m, 2, t, 0)
    BY <1>11, <2>6, <2>8, <2>9 DEF Advances
  <2>b. Onward(c, m, 2, t, 0)
    BY <2>10, <2>11 DEF Onward
  <2>13. NoneOvertaken'
    BY <1>b, <1>3, <1>10, <1>11, <1>14, <2>2, <2>12, <2>a, <2>b, MoveOrdered
  <2>14. \A o \in Outs : \A x \in Elements(scratch'[o]) : o \in Verdicts(node', Class[x])
    <3>1. Elements(scratch'[out]) = Elements(scratch[out]) \cup {z}
      BY <1>2, <1>3, <2>1, AppendFacts
    <3>2. out \in Verdicts(node, Class[z])
      BY <1>0, <1>14
    <3>3. QED BY <1>1, <1>2, <2>1, <3>1, <3>2 DEF Placed
  <2>15. \A x \in Packets, n \in graph.nodes, s \in Stages :
           Loc(x, n, s)' => IF x = z THEN n = t ELSE Loc(x, n, s)
    BY <2>8
  <2>16. Placed'
    BY <1>b, <1>3, <1>13, <1>14, <2>2, <2>14, <2>15, PlacedStays
  <2>17. QED BY <2>13, <2>16 DEF OrderInv
<1>17. QED BY <1>15, <1>16

LEMMA FrameHolder == \A f : <<"frame", f>> \in Holders => f \in Frames
BY DEF Holders

\* The frame a packet was put into is the only one of its node.
LEMMA SoleFrame ==
  ASSUME FrameInv, OneFrame, NEW t \in graph.nodes, NEW f \in Elements(pending[t])
  PROVE  /\ \A g \in Elements(pending[t]) : g = f
         /\ \A n \in graph.nodes : \A s : HolderAt(<<"frame", f>>, n, s) => n = t /\ s = 1
<1>1. pending[t] \in Seq(Frames) /\ Len(pending[t]) <= 1 /\ pending[t] # <<>>
  <2>1. pending[t] # <<>>
    BY EmptyFacts
  <2>2. QED BY <2>1 DEF FrameInv, TypeOK, OneFrame
<1>2. \A g \in Elements(pending[t]) : g = f
  BY <1>1, OneElement
<1>3. f \notin Elements(drain) /\ \A n \in graph.nodes : n # t => f \notin Elements(pending[n])
  BY DEF FrameInv, FramesApart
<1>4. QED BY <1>2, <1>3, HolderAtFacts

LEMMA SoleFrameNext ==
  ASSUME FrameInv', OneFrame', NEW t, t \in graph'.nodes, NEW f, f \in Elements(pending'[t])
  PROVE  /\ \A g \in Elements(pending'[t]) : g = f
         /\ \A n \in graph'.nodes : \A s : HolderAt(<<"frame", f>>, n, s)' => n = t /\ s = 1
<1>1. pending'[t] \in Seq(Frames') /\ Len(pending'[t]) <= 1 /\ pending'[t] # <<>>
  <2>1. pending'[t] # <<>>
    BY EmptyFacts
  <2>2. QED BY <2>1 DEF FrameInv, TypeOK, OneFrame
<1>2. \A g \in Elements(pending'[t]) : g = f
  BY <1>1, OneElement
<1>3. f \notin Elements(drain') /\ \A n \in graph'.nodes : n # t => f \notin Elements(pending'[n])
  BY DEF FrameInv, FramesApart, Elements
<1>4. QED BY <1>2, <1>3, HolderAtNext

LEMMA OrderRoute ==
  ASSUME OrderInv, AllComplete, NEW out \in Outs, Route(out), AllocInv'
  PROVE  OrderInv'
<1>0. PICK z, t : z = Head(scratch[out]) /\ t = Target(graph, node, out)
  OBVIOUS
<1>1. UNCHANGED <<graph, node, drain, arrived, left>> /\ scratch[out] # <<>>
  BY DEF Route, history
<1>2. /\ PacketInv /\ FrameInv' /\ OneFrame' /\ TypeOK /\ OneFrame
      /\ Placed /\ NoneOvertaken /\ scratch \in [Outs -> Seq(Packets)]
  BY DEF OrderInv, AllocInv, PacketInv, FrameInv, TypeOK
<1>3. t \in graph.nodes
  BY <1>0, <1>2, RouteTarget
<1>4. /\ \A n \in graph.nodes : n # t => pending'[n] = pending[n]
      /\ \A o \in Outs : o # out => scratch'[o] = scratch[o]
      /\ scratch'[out] = Tail(scratch[out]) /\ z \in Packets
      /\ Elements(pending[t]) \subseteq Elements(pending'[t])
      /\ \E f \in Elements(pending'[t]) :
           /\ f \in Elements(pending[t]) \/ f \notin Frames \/ bufs[f] = <<>>
           /\ PacketMoves(Contents, Contents', <<"scratch", out>>, <<"frame", f>>)
  BY <1>0, <1>2, RouteMoved
<1>5. PICK f \in Elements(pending'[t]) :
        /\ f \in Elements(pending[t]) \/ f \notin Frames \/ bufs[f] = <<>>
        /\ PacketMoves(Contents, Contents', <<"scratch", out>>, <<"frame", f>>)
  BY <1>4
<1>6. PICK a, b, c : a = <<"scratch", out>> /\ b = <<"frame", f>> /\ c = Class[z]
  OBVIOUS
<1>7. a \in Holders /\ z = Head(Contents[a]) /\ PacketMoves(Contents, Contents', a, b)
  BY <1>0, <1>5, <1>6, ContentsFacts
<1>8. /\ z \in Elements(Contents[a]) /\ \A k \in Holders : k # a => z \notin Elements(Contents[k])
      /\ \A x : ~Ahead(x, z)
  BY <1>2, <1>7, LocMoved
<1>9. \A x, y : Ahead(x, y) /\ x # z => Ahead(x, y)'
  BY <1>2, <1>7, LocMoved
<1>10. b \in Holders => \A x \in Elements(Contents[b]) : Ahead(x, z)'
  BY <1>2, <1>7, LocMoved
<1>11. \A k \in Holders' : \A x \in Elements(Contents'[k]) :
         (x = z /\ k = b) \/ (x # z /\ k \in Holders /\ x \in Elements(Contents[k]))
  <2>1. PacketInv
    BY <1>2
  <2>2. QED BY <1>7, <2>1, LocMoved
<1>12. Loc(z, t, 0) /\ 0 \in Stages /\ 1 \in Stages
  <2>1. HolderAt(a, t, 0)
    BY <1>0, <1>6, HolderAtFacts
  <2>2. QED BY <1>7, <1>8, <2>1, StageFacts DEF Loc
<1>13. Reached(c, t)
  BY <1>2, <1>3, <1>4, <1>6, <1>12 DEF Placed
<1>14. /\ \A g \in Elements(pending'[t]) : g = f
       /\ \A n \in graph.nodes : \A s : HolderAt(b, n, s)' => n = t /\ s = 1
  <2>1. t \in graph'.nodes /\ f \in Elements(pending'[t]) /\ graph' = graph
    BY <1>1, <1>3
  <2>2. QED BY <1>2, <1>6, <2>1, SoleFrameNext
<1>15. /\ \A x, n : LeftAt(x, n)' => LeftAt(x, n)
       /\ \A n : ~LeftAt(z, n)
  <2>1. \A x, n : LeftAt(x, n)' => LeftAt(x, n)
    BY <1>1 DEF LeftAt
  <2>2. LEFT \in Holders /\ a # LEFT
    BY <1>6, ContentsFacts, HoldersApart
  <2>3. QED BY <1>8, <2>1, <2>2, LeftHeld
<1>16. ASSUME NEW k \in Holders, NEW x \in Elements(Contents[k]), NEW n \in graph.nodes,
              NEW s, HolderAt(k, n, s)'
       PROVE  HolderAt(k, n, s)
  <2>1. CASE s = 0 \/ s = 2 \/ n # t
    BY <1>1, <1>4, <1>16, <2>1 DEF HolderAt
  <2>2. CASE s = 1 /\ n = t
    <3>1. k = b
      BY <1>6, <1>14, <1>16, <2>2, HolderAtNext
    <3>2. f \in Frames /\ Contents[k] = bufs[f]
      BY <1>6, <3>1, FrameHolder, ContentsFacts
    <3>3. bufs[f] # <<>>
      BY <3>2, EmptyFacts
    <3>4. f \in Elements(pending[t])
      BY <1>5, <3>2, <3>3
    <3>5. QED BY <1>6, <2>2, <3>1, <3>4, HolderAtFacts
  <2>3. s = 0 \/ s = 1 \/ s = 2
    BY <1>16 DEF HolderAt
  <2>4. QED BY <2>1, <2>2, <2>3
<1>17. ASSUME NEW x \in Packets, NEW n \in graph.nodes, NEW s \in Stages, Loc(x, n, s)'
       PROVE  IF x = z THEN n = t /\ s = 1 ELSE Loc(x, n, s)
  <2>1. CASE s = 3 /\ LeftAt(x, n)'
    BY <1>15, <2>1 DEF Loc
  <2>2. ASSUME NEW k \in Holders', x \in Elements(Contents'[k]), HolderAt(k, n, s)'
        PROVE  IF x = z THEN n = t /\ s = 1 ELSE Loc(x, n, s)
    <3>1. CASE x = z
      BY <1>11, <1>14, <2>2, <3>1
    <3>2. CASE x # z
      <4>1. k \in Holders /\ x \in Elements(Contents[k])
        BY <1>11, <2>2, <3>2
      <4>2. HolderAt(k, n, s)
        BY <1>16, <2>2, <4>1
      <4>3. QED BY <3>2, <4>1, <4>2 DEF Loc
    <3>3. QED BY <3>1, <3>2
  <2>3. QED BY <1>17, <2>1, <2>2 DEF Loc, Elements
<1>18. ASSUME NEW x \in Packets, Class[x] = c, x # z, Loc(x, t, 1) PROVE Ahead(x, z)'
  <2>1. PICK k \in Holders : x \in Elements(Contents[k]) /\ HolderAt(k, t, 1)
    BY <1>18 DEF Loc
  <2>2. PICK g \in Elements(pending[t]) : k = <<"frame", g>>
    BY <2>1, HolderAtFacts
  <2>3. k = b
    BY <1>4, <1>6, <1>14, <2>2
  <2>4. QED BY <1>10, <2>1, <2>3
<1>19. Advances(z, c, t, 0, t, 1)
  BY <1>8, <1>9, <1>12, <1>17, <1>18 DEF Advances
<1>20. Onward(c, t, 0, t, 1)
  <2>1. \A n \in graph.nodes, i \in Stages :
          Upstream(c, n, i, t, 1) => Upstream(c, n, i, t, 0) \/ (n = t /\ i = 0)
    BY StageFacts DEF Upstream
  <2>2. \A n \in graph.nodes, j \in Stages :
          Upstream(c, t, 1, n, j) \/ (n = t /\ j = 1) => Upstream(c, t, 0, n, j)
    BY StageFacts DEF Upstream
  <2>3. QED BY <2>1, <2>2 DEF Onward
<1>21. UNCHANGED <<graph, arrived>> /\ NoneOvertaken /\ Placed /\ z \in Packets /\ c = Class[z]
  BY <1>1, <1>2, <1>4, <1>6
<1>22. \A x : ~Earlier(x, x)
  BY <1>2, NotEarlierSelf
<1>23. NoneOvertaken'
  BY <1>3, <1>12, <1>19, <1>20, <1>21, <1>22, MoveOrdered
<1>24. \A o \in Outs : \A x \in Elements(scratch'[o]) : o \in Verdicts(node', Class[x])
  <2>1. Elements(scratch'[out]) \subseteq Elements(scratch[out])
    BY <1>1, <1>2, <1>4, TailFacts
  <2>2. QED BY <1>1, <1>2, <1>4, <2>1 DEF Placed
<1>25. \A x \in Packets, n \in graph.nodes, s \in Stages :
         Loc(x, n, s)' => IF x = z THEN n = t ELSE Loc(x, n, s)
  BY <1>17
<1>26. Feeding' => node' = graph.root
  BY <1>1, <1>2 DEF Placed, Feeding
<1>27. Placed'
  BY <1>13, <1>21, <1>24, <1>25, <1>26, PlacedStays
<1>28. QED BY <1>23, <1>27 DEF OrderInv

NoPackets == Quiet /\ drain = <<>>
Ordered == Placed /\ NoneOvertaken

\* Without packets there is nothing to be ordered.
LEMMA QuietOrdered == NoPackets => Ordered
<1> SUFFICES ASSUME Quiet, drain = <<>> PROVE Placed /\ NoneOvertaken
  BY DEF NoPackets, Ordered
<1>1. \A x, n, s : ~Loc(x, n, s)
  <2>1. \A h \in Holders : Elements(Contents[h]) = {}
    BY QuietApart, EmptyFacts
  <2>2. \A x, n : ~LeftAt(x, n)
    BY DEF LeftAt, Quiet
  <2>3. QED BY <2>1, <2>2 DEF Loc
<1>2. \A o \in Outs : Elements(scratch[o]) = {}
  BY EmptyFacts DEF Quiet, NoScratch
<1>3. QED BY <1>1, <1>2 DEF Placed, NoneOvertaken, Feeding

LEMMA QuietOrderedNext == NoPackets' => Ordered'
BY QuietOrdered, PTL

LEMMA OrderInit == Init => OrderInv
<1> SUFFICES ASSUME Init PROVE OrderInv
  OBVIOUS
<1>1. AllocInv
  BY AllocInit
<1>2. pc = "idle" /\ arrived = <<>> /\ left = <<>> /\ FrameInv
  BY <1>1 DEF Init, AllocInv, PacketInv
<1>3. Quiet /\ drain = <<>>
  BY <1>2, IdleQuiet DEF Quiet
<1>4. QED BY <1>1, <1>3, QuietOrdered DEF OrderInv, NoPackets, Ordered

LEMMA OrderRunOnce ==
  ASSUME OrderInv, AllComplete, RunOnce, AllocInv'
  PROVE  OrderInv'
<1>1. FrameInv /\ graph \in Graphs /\ pc = "idle" /\ UNCHANGED <<graph, drain>>
  BY DEF OrderInv, AllocInv, PacketInv, FrameInv, TypeOK, RunOnce
<1>2. graph.root \in graph.nodes /\ graph.root \in Sources
  BY <1>1, GraphFacts DEF AllComplete, Complete
<1>3. pending'[graph.root] # <<>>
  BY <1>1, RunOnceAcquires, EmptyFacts
<1>4. Quiet'
  BY <1>1, <1>2, <1>3 DEF AllocInv, PacketInv, SourceFirst
<1>5. drain' = <<>>
  BY <1>1, IdleQuiet
<1>6. QED BY <1>4, <1>5, QuietOrderedNext DEF OrderInv, NoPackets, Ordered

\* Packets stay in the same places.
LEMMA OrderStays ==
  ASSUME OrderInv, AllocInv',
         UNCHANGED <<graph, node, pending, scratch, left, arrived>>, Contents' = Contents,
         Elements(drain') \subseteq Elements(drain), Feeding' => Feeding
  PROVE  OrderInv'
<1>1. /\ Holders' = Holders /\ \A h \in Holders : Contents'[h] = Contents[h]
  BY ContentsFacts, ContentsFactsNext
<1>2. \A h, n, s : HolderAt(h, n, s)' => HolderAt(h, n, s)
  BY DEF HolderAt
<1>3. \A x \in Packets, n \in graph.nodes, s \in Stages : Loc(x, n, s)' => Loc(x, n, s)
  BY <1>1, <1>2 DEF Loc, LeftAt
<1>4. \A x, y \in Packets : Ahead(x, y) => Ahead(x, y)'
  BY <1>1 DEF Ahead, Precedes
<1>5. Placed /\ NoneOvertaken
  BY DEF OrderInv
<1>6. NoneOvertaken'
  BY <1>3, <1>4, <1>5, StayOrdered
<1>7. \A x \in Packets, n \in graph.nodes, s \in Stages :
        Loc(x, n, s)' => Reached(Class[x], n)'
  BY <1>3, <1>5, ReachedStays DEF Placed
<1>8. Placed'
  BY <1>5, <1>7 DEF Placed
<1>9. QED BY <1>6, <1>8 DEF OrderInv

LEMMA OrderPass ==
  ASSUME OrderInv, AllocInv', Return \/ ProcessDone \/ NodeDone \/ UNCHANGED vars
  PROVE  OrderInv'
<1> USE DEF pool, history
<1>1. UNCHANGED <<graph, node, pending, scratch, left, arrived, bufs, drain>>
  BY DEF Return, ProcessDone, NodeDone, vars
<1>2. Contents' = Contents /\ Elements(drain') \subseteq Elements(drain) /\ (Feeding' => Feeding)
  BY <1>1 DEF Contents, Holders, Held, Frames, Feeding
<1>3. QED BY <1>1, <1>2, OrderStays

LEMMA OrderFrameDone ==
  ASSUME OrderInv, AllocInv', FrameDone
  PROVE  OrderInv'
<1> USE DEF pool, history
<1>1. /\ FrameInv /\ TypeOK /\ pc = "route" /\ drain \in Seq(Frames)
      /\ drain # <<>> /\ bufs[Head(drain)] = <<>>
  BY DEF OrderInv, AllocInv, PacketInv, FrameInv, Phase, HeadFrame, TypeOK, FrameDone
<1>2. /\ UNCHANGED <<graph, node, pending, scratch, left, arrived>> /\ drain' = Tail(drain)
      /\ bufs' = [bufs EXCEPT ![Head(drain)] = <<>>]
  BY DEF FrameDone
<1>3. bufs' = bufs
  <2>1. \A F, h : F[h] = <<>> /\ (\E D, S : F \in [D -> S]) => [F EXCEPT ![h] = <<>>] = F
    OBVIOUS
  <2>2. bufs \in [1 .. Len(bufs) -> Seq(Packets)]
    BY <1>1 DEF TypeOK
  <2>3. QED BY <1>1, <1>2, <2>1, <2>2, Zenon
<1>4. Contents' = Contents
  BY <1>2, <1>3 DEF Contents, Holders, Held, Frames
<1>5. Elements(drain') \subseteq Elements(drain) /\ (Feeding' => Feeding)
  BY <1>1, <1>2, TailFacts DEF Feeding
<1>6. QED BY <1>2, <1>4, <1>5, OrderStays

\* The packets that wait at a node are the ones it works on next.
LEMMA OrderPopNode ==
  ASSUME OrderInv, AllocInv', PopNode
  PROVE  OrderInv'
<1> USE DEF pool, history
<1>0. PICK m : m = Last(queue)
  OBVIOUS
<1>1. /\ FrameInv /\ SourceFirst /\ pc = "loop" /\ scratch = NoScratch /\ drain = <<>>
      /\ queue \in Seq(graph.nodes) /\ queue # <<>> /\ Placed /\ NoneOvertaken
      /\ pending \in [graph.nodes -> Seq(Frames)]
  BY DEF OrderInv, AllocInv, PacketInv, FrameInv, Phase, TypeOK, PopNode
<1>2. m \in graph.nodes
  BY <1>0, <1>1, FrontFacts
<1>3. /\ node' = m /\ drain' = pending[m] /\ pending' = [pending EXCEPT ![m] = <<>>]
      /\ UNCHANGED <<graph, scratch, bufs, arrived, left>>
  BY <1>0 DEF PopNode
<1>4. /\ Elements(pending'[m]) = {} /\ \A n \in graph.nodes : n # m => pending'[n] = pending[n]
  BY <1>1, <1>2, <1>3, EmptyFacts
<1>5. Contents' = Contents /\ Holders' = Holders
  BY <1>3 DEF Contents, Holders, Held, Frames
<1>6. \A o \in Outs : Elements(scratch[o]) = {} /\ Elements(Contents[<<"scratch", o>>]) = {}
  BY <1>1, ContentsFacts, EmptyFacts DEF NoScratch
<1>7. ASSUME NEW x \in Packets, NEW n \in graph.nodes, NEW s \in Stages, Loc(x, n, s)'
      PROVE  \/ n # m /\ s \in {1, 3} /\ Loc(x, n, s)
             \/ n = m /\ s = 2 /\ Loc(x, n, 1)
             \/ n = m /\ s = 3 /\ Loc(x, n, 3)
  <2>1. CASE s = 3 /\ LeftAt(x, n)'
    <3>1. LeftAt(x, n)
      BY <1>3, <2>1 DEF LeftAt
    <3>2. QED BY <2>1, <3>1 DEF Loc
  <2>2. ASSUME NEW k \in Holders', x \in Elements(Contents'[k]), HolderAt(k, n, s)'
        PROVE  \/ n # m /\ s \in {1, 3} /\ Loc(x, n, s)
               \/ n = m /\ s = 2 /\ Loc(x, n, 1)
               \/ n = m /\ s = 3 /\ Loc(x, n, 3)
    <3>1. k \in Holders /\ x \in Elements(Contents[k])
      BY <1>5, <2>2
    <3>2. \A o \in Outs : k # <<"scratch", o>>
      BY <1>6, <3>1
    <3>3. \/ s = 1 /\ \E f \in Elements(pending'[n]) : k = <<"frame", f>>
          \/ s = 2 /\ n = m /\ \E f \in Elements(pending[m]) : k = <<"frame", f>>
      BY <1>3, <2>2, <3>2, HolderAtNext
    <3>4. CASE s = 1 /\ \E f \in Elements(pending'[n]) : k = <<"frame", f>>
      <4>1. n # m /\ \E f \in Elements(pending[n]) : k = <<"frame", f>>
        BY <1>4, <3>4
      <4>2. HolderAt(k, n, 1)
        BY <4>1, HolderAtFacts
      <4>3. QED BY <3>1, <3>4, <4>1, <4>2 DEF Loc
    <3>5. CASE s = 2 /\ n = m /\ \E f \in Elements(pending[m]) : k = <<"frame", f>>
      <4>1. HolderAt(k, n, 1)
        BY <3>5, HolderAtFacts
      <4>2. QED BY <3>1, <3>5, <4>1 DEF Loc
    <3>6. QED BY <3>3, <3>4, <3>5
  <2>3. QED BY <1>7, <2>1, <2>2 DEF Loc, Elements
<1>8. \A x \in Packets, n \in graph.nodes, s \in Stages : Loc(x, n, s)' =>
        \E r \in Stages : /\ Loc(x, n, r)
                          /\ \/ n # m /\ s \in {1, 3} /\ r = s
                             \/ n = m /\ s = 2 /\ r = 1
                             \/ n = m /\ s = 3 /\ r = 3
  BY <1>7, StageFacts
<1>9. /\ Passed' = Passed
      /\ \A x, y : Earlier(x, y)' <=> Earlier(x, y)
      /\ \A x, y : Ahead(x, y) => Ahead(x, y)'
  <2>1. \A x, y : Ahead(x, y) => Ahead(x, y)'
    BY <1>5 DEF Ahead, Precedes
  <2>2. QED BY <1>3, <2>1 DEF Passed, Earlier
<1>10. NoneOvertaken'
  <2> SUFFICES ASSUME NEW x \in Packets, NEW y \in Packets, Class[x] = Class[y],
                      Earlier(x, y)', NEW n \in graph.nodes, NEW q \in graph.nodes,
                      NEW i \in Stages, NEW j \in Stages, Loc(x, n, i)', Loc(y, q, j)'
               PROVE  ~Upstream(Class[x], n, i, q, j)' /\ (n = q /\ i = j => Ahead(x, y)')
    BY <1>3 DEF NoneOvertaken
  <2>1. PICK r \in Stages : /\ Loc(x, n, r)
                            /\ \/ n # m /\ i \in {1, 3} /\ r = i
                               \/ n = m /\ i = 2 /\ r = 1
                               \/ n = m /\ i = 3 /\ r = 3
    BY <1>8
  <2>2. PICK t \in Stages : /\ Loc(y, q, t)
                            /\ \/ q # m /\ j \in {1, 3} /\ t = j
                               \/ q = m /\ j = 2 /\ t = 1
                               \/ q = m /\ j = 3 /\ t = 3
    BY <1>8
  <2>3. ~Upstream(Class[x], n, r, q, t) /\ (n = q /\ r = t => Ahead(x, y))
    BY <1>1, <1>9, <2>1, <2>2 DEF NoneOvertaken
  <2>4. (i < 3 => r < 3) /\ (n = q /\ i < j => r < t) /\ (n = q /\ i = j => r = t)
    BY <2>1, <2>2
  <2>5. ~Upstream(Class[x], n, i, q, j)'
    BY <1>9, <2>3, <2>4 DEF Upstream
  <2>6. QED BY <1>9, <2>3, <2>4, <2>5
<1>11. \A x \in Packets, n \in graph.nodes, s \in Stages :
         Loc(x, n, s)' => Reached(Class[x], n)'
  BY <1>1, <1>3, <1>8, ReachedStays DEF Placed
<1>12. Feeding' => node' = graph.root
  BY <1>1, <1>2, <1>3 DEF Feeding, SourceFirst
<1>13. \A o \in Outs : Elements(scratch'[o]) = {}
  BY <1>3, <1>6
<1>14. Placed'
  BY <1>3, <1>11, <1>12, <1>13 DEF Placed
<1>15. QED BY <1>10, <1>14 DEF OrderInv

\* A burst comes in order.
LEMMA OrderRunNode ==
  ASSUME OrderInv, AllOnePath, AllocInv', RunNode
  PROVE  OrderInv'
<1> USE DEF pool, history
<1>0. PICK h : h = Head(drain)
  OBVIOUS
<1>1. /\ FrameInv /\ TypeOK /\ SourceFirst /\ pc = "drain" /\ scratch = NoScratch
      /\ drain # <<>> /\ Placed /\ graph \in Graphs /\ FramesApart
      /\ UNCHANGED <<graph, node, pending, drain, scratch, left>>
  BY DEF OrderInv, AllocInv, PacketInv, FrameInv, Phase, TypeOK, RunNode
<1>2. h \in Frames /\ h \in Elements(drain)
  BY <1>0, <1>1, HeadDrain
<1>3. CASE node \notin Sources
  <2>1. UNCHANGED <<bufs, arrived>>
    BY <1>3 DEF RunNode
  <2>2. Contents' = Contents /\ Elements(drain') \subseteq Elements(drain) /\ (Feeding' => Feeding)
    BY <1>1, <2>1 DEF Contents, Holders, Held, Frames, Feeding
  <2>3. QED BY <1>1, <2>1, <2>2, OrderStays
<1>4. CASE node \in Sources
  <2>1. node = graph.root /\ Quiet
    BY <1>1, <1>4 DEF Feeding, Placed, SourceFirst
  <2>2. PICK b \in Bursts : bufs' = [bufs EXCEPT ![h] = b] /\ arrived' = b
    BY <1>0, <1>4 DEF RunNode
  <2>3. /\ Frames' = Frames /\ bufs'[h] = b /\ \A g \in Frames : g # h => bufs'[g] = bufs[g]
    BY <1>1, <1>2, <2>2, BurstFacts, BufsPut
  <2>4. PICK a : a = <<"frame", h>>
    OBVIOUS
  <2>5. a \in Holders' /\ Contents'[a] = b
    BY <1>2, <2>3, <2>4, ContentsFactsNext
  <2>6. \A k \in Holders' : k # a => Elements(Contents'[k]) = {}
    <3>1. \A g \in Frames' : g # h => bufs'[g] = <<>>
      BY <2>1, <2>3 DEF Quiet
    <3>2. \A o \in Outs : scratch'[o] = <<>>
      BY <1>1 DEF NoScratch
    <3>3. LeftPackets' = <<>>
      <4>1. left' = <<>>
        BY <1>1, <2>1 DEF Quiet
      <4>2. QED BY <4>1 DEF LeftPackets
    <3>4. QED BY <2>4, <3>1, <3>2, <3>3, ContentsFactsNext, EmptyFacts
  <2>7. \A n \in graph.nodes : h \notin Elements(pending'[n])
    BY <1>1, <1>2 DEF FramesApart
  <2>8. ASSUME NEW x, NEW n \in graph.nodes, NEW s, Loc(x, n, s)'
        PROVE  n = graph.root /\ s = 2
    <3>1. ~LeftAt(x, n)'
      BY <1>1, <2>1 DEF LeftAt, Quiet
    <3>2. HolderAt(a, n, s)'
      BY <2>6, <2>8, <3>1 DEF Loc, Elements
    <3>3. n = node' /\ s = 2
      BY <2>4, <2>7, <3>2, HolderAtNext
    <3>4. QED BY <1>1, <2>1, <3>3
  <2>9. \A x, y : Earlier(x, y)' => Ahead(x, y)'
    <3>1. \A x, y : Earlier(x, y)' => Precedes(Contents'[a], x, y)
      BY <2>2, <2>5 DEF Earlier, Precedes
    <3>2. QED BY <2>5, <3>1 DEF Ahead, Precedes
  <2>10. \A c \in Classes : Passed'[c][graph.root] = {}
    <3>1. OnePath(graph, Passed)
      BY <1>1, PassedFacts
    <3>2. Passed' = Passed
      BY <1>1 DEF Passed
    <3>3. QED BY <3>1, <3>2 DEF OnePath, OneWay
  <2>11. NoneOvertaken'
    <3> SUFFICES ASSUME NEW x \in Packets, NEW y \in Packets, Class[x] = Class[y],
                        Earlier(x, y)', NEW n \in graph.nodes, NEW q \in graph.nodes,
                        NEW i \in Stages, NEW j \in Stages, Loc(x, n, i)', Loc(y, q, j)'
                 PROVE  ~Upstream(Class[x], n, i, q, j)' /\ Ahead(x, y)'
      BY <1>1 DEF NoneOvertaken
    <3>1. n = graph.root /\ q = graph.root /\ i = 2 /\ j = 2
      BY <2>8
    <3>2. Class[x] \in Classes
      BY DispatcherAssumption
    <3>3. ~Upstream(Class[x], n, i, q, j)'
      BY <2>10, <3>1, <3>2 DEF Upstream
    <3>4. QED BY <2>9, <3>3
  <2>12. \A x \in Packets, n \in graph.nodes, s \in Stages :
           Loc(x, n, s)' => Reached(Class[x], n)'
    BY <1>1, <2>8 DEF Reached
  <2>13. \A o \in Outs : Elements(scratch'[o]) = {}
    BY <1>1, EmptyFacts DEF NoScratch
  <2>14. Placed'
    BY <1>1, <2>1, <2>12, <2>13 DEF Placed
  <2>15. QED BY <2>11, <2>14 DEF OrderInv
<1>5. QED BY <1>3, <1>4

LEMMA OrderStep == AllComplete /\ AllOnePath /\ OrderInv /\ [Next]_vars => OrderInv'
<1> SUFFICES ASSUME AllComplete, AllOnePath, OrderInv, [Next]_vars PROVE OrderInv'
  OBVIOUS
<1>1. AllocInv'
  BY AllocStep DEF OrderInv
<1>2. CASE RunOnce \/ PopNode \/ RunNode \/ Process \/ FrameDone
  BY <1>1, <1>2, OrderRunOnce, OrderPopNode, OrderRunNode, OrderProcess, OrderFrameDone
<1>3. CASE \E out \in Outs : Route(out)
  BY <1>1, <1>3, OrderRoute
<1>4. CASE Return \/ ProcessDone \/ NodeDone \/ UNCHANGED vars
  BY <1>1, <1>4, OrderPass
<1>5. QED BY <1>2, <1>3, <1>4 DEF Next

\* Packets of one class that leave the graph at the same node do so in the
\* order in which they came (OrderKept), although Dispatcher runs the nodes last
\* in, first out: every packet of the class takes the same way to that node,
\* through frames and scratch frames that keep the order.
THEOREM OrderPreserved == AllComplete /\ AllOnePath => (Spec => []OrderKept)
<1>1. OrderInv => OrderKept
  <2> SUFFICES ASSUME OrderInv, NEW i \in DOMAIN left, NEW j \in DOMAIN left, i < j,
                      left[i].at = left[j].at, Class[left[i].p] = Class[left[j].p]
               PROVE  \E k, l \in DOMAIN arrived : k < l /\ arrived[k] = left[i].p
                                                         /\ arrived[l] = left[j].p
    BY DEF OrderKept
  <2>0. PICK x, y, n : x = left[i].p /\ y = left[j].p /\ n = left[i].at
    OBVIOUS
  <2>1. /\ NoneOvertaken /\ Apart(Contents, Elements(arrived)) /\ Distinct(arrived)
        /\ arrived \in Seq(Packets) /\ left \in Seq([p : Packets, at : graph.nodes])
    BY DEF OrderInv, AllocInv, OneFrame, PacketInv, FrameInv, TypeOK
  <2>2. x \in Packets /\ y \in Packets /\ n \in graph.nodes /\ LeftAt(x, n) /\ LeftAt(y, n)
    <3> DEFINE E == [p : Packets, at : graph.nodes]
    <3>1. left[i] \in E /\ left[j] \in E
      <4>1. left \in Seq(E)
        BY <2>1
      <4> HIDE DEF E
      <4>2. QED BY <4>1
    <3>2. LeftAt(x, n) /\ LeftAt(y, n)
      BY <2>0 DEF LeftAt
    <3>3. QED BY <2>0, <3>1, <3>2
  <2>3. Loc(x, n, 3) /\ Loc(y, n, 3) /\ 3 \in Stages
    BY <2>2, StageFacts DEF Loc
  <2>4. /\ DOMAIN Contents = Holders /\ LEFT \in Holders /\ Contents[LEFT] = LeftPackets
        /\ Contents[LEFT] \in Seq(Packets) /\ Distinct(Contents[LEFT])
        /\ Elements(Contents[LEFT]) \subseteq Elements(arrived)
    <3>1. DOMAIN Contents = Holders /\ LEFT \in Holders /\ Contents[LEFT] = LeftPackets
      BY ContentsFacts
    <3>2. QED BY <2>1, <3>1 DEF Apart
  <2>5. Precedes(LeftPackets, x, y)
    <3>1. Len(LeftPackets) = Len(left) /\ i \in 1 .. Len(left) /\ j \in 1 .. Len(left)
      <4>1. DOMAIN LeftPackets = DOMAIN left /\ DOMAIN left = 1 .. Len(left) /\ Len(left) \in Nat
        BY <2>1 DEF LeftPackets
      <4>2. LeftPackets \in Seq(Packets)
        BY <2>4
      <4>3. DOMAIN LeftPackets = 1 .. Len(LeftPackets) /\ Len(LeftPackets) \in Nat
        BY <4>2
      <4>4. \A k, l \in Nat : 1 .. k = 1 .. l => k = l
        OBVIOUS
      <4>5. QED BY <4>1, <4>3, <4>4
    <3>2. LeftPackets[i] = x /\ LeftPackets[j] = y
      BY <2>0 DEF LeftPackets
    <3>3. QED BY <3>1, <3>2 DEF Precedes
  <2>6. /\ x \in Elements(arrived) /\ y \in Elements(arrived) /\ x # y
        /\ ~Precedes(LeftPackets, y, x)
    BY <2>4, <2>5, PrecedesFacts
  <2>7. ~Ahead(y, x)
    <3> SUFFICES ASSUME NEW h \in Holders, Precedes(Contents[h], y, x) PROVE FALSE
      BY DEF Ahead
    <3>1. Contents[h] \in Seq(Packets) /\ Distinct(Contents[h])
      BY <2>1, <2>4 DEF Apart
    <3>2. x \in Elements(Contents[h]) /\ x \in Elements(Contents[LEFT])
      BY <2>4, <2>5, <3>1, PrecedesFacts
    <3>3. h = LEFT
      BY <2>1, <2>4, <3>2 DEF Apart
    <3>4. QED BY <2>4, <2>6, <3>3
  <2>8. ~Earlier(y, x)
    BY <2>0, <2>1, <2>2, <2>3, <2>7 DEF NoneOvertaken
  <2>9. PICK k \in 1 .. Len(arrived), l \in 1 .. Len(arrived) : arrived[k] = x /\ arrived[l] = y
    BY <2>1, <2>6, ElementsFacts
  <2>10. ~(l < k) /\ k # l
    BY <2>6, <2>8, <2>9 DEF Earlier, Precedes
  <2>11. k < l /\ k \in DOMAIN arrived /\ l \in DOMAIN arrived
    BY <2>1, <2>9, <2>10
  <2>12. QED BY <2>0, <2>9, <2>11
<1> SUFFICES ASSUME AllComplete, AllOnePath PROVE Spec => []OrderKept
  OBVIOUS
<1>2. OrderInv /\ [Next]_vars => OrderInv'
  BY OrderStep
<1>3. QED BY <1>1, <1>2, OrderInit, PTL DEF Spec

LEMMA WiredTo ==
  ASSUME NEW g, WellFormed(g), NEW n, NEW o, NEW m, <<n, o, m>> \in g.wires
  PROVE  Target(g, n, o) = m
<1> DEFINE v == <<n, o, m>>
<1>1. v[1] = n /\ v[2] = o /\ v[3] = m /\ v \in g.wires
  OBVIOUS
<1> HIDE DEF v
<1>2. \A w \in g.wires : w[1] = n /\ w[2] = o => w = v
  BY <1>1 DEF WellFormed
<1>3. (CHOOSE w \in g.wires : w[1] = n /\ w[2] = o) = v
  BY <1>1, <1>2
<1>4. QED BY <1>1, <1>3 DEF Target

\* Ip4ParseNode and SteerNode, by class.
LEMMA VerdictsByClass ==
  /\ Verdicts("parse", "forward") = {0} /\ Verdicts("parse", "reverse") = {1}
  /\ Verdicts("parse", "other") = {2} /\ Verdicts("parse", "arp") = {3}
  /\ Verdicts("steer", "arp") = {0}
  /\ \A c \in {"forward", "reverse", "other"} : Verdicts("steer", c) = {Gone}
BY DEF Verdicts

LEMMA MonolithicWays ==
  /\ \E P : OneWay(BuildMonolithicGraph, "forward", P)
  /\ \E P : OneWay(BuildMonolithicGraph, "reverse", P)
  /\ \E P : OneWay(BuildMonolithicGraph, "arp", P)
  /\ \E P : OneWay(BuildMonolithicGraph, "other", P)
<1> DEFINE g == BuildMonolithicGraph
           N == {"rx", "parse", "lb", "dnat", "ether", "tx", "drop", "arp"}
<1>1. g.root = "rx" /\ g.nodes = N
  BY DEF BuildMonolithicGraph
<1>2. /\ Target(g, "rx", 0) = "parse" /\ Target(g, "parse", 0) = "lb"
      /\ Target(g, "parse", 1) = "lb" /\ Target(g, "parse", 2) = "drop"
      /\ Target(g, "parse", 3) = "arp" /\ Target(g, "arp", 0) = "tx"
      /\ Target(g, "arp", 1) = "drop" /\ Target(g, "lb", 0) = "dnat"
      /\ Target(g, "lb", 1) = "drop" /\ Target(g, "dnat", 0) = "ether"
      /\ Target(g, "ether", 0) = "tx"
  <2>1. WellFormed(g)
    BY ProgramGraphs
  <2>2. /\ <<"rx", 0, "parse">> \in g.wires /\ <<"parse", 0, "lb">> \in g.wires
        /\ <<"parse", 1, "lb">> \in g.wires /\ <<"parse", 2, "drop">> \in g.wires
        /\ <<"parse", 3, "arp">> \in g.wires /\ <<"arp", 0, "tx">> \in g.wires
        /\ <<"arp", 1, "drop">> \in g.wires /\ <<"lb", 0, "dnat">> \in g.wires
        /\ <<"lb", 1, "drop">> \in g.wires /\ <<"dnat", 0, "ether">> \in g.wires
        /\ <<"ether", 0, "tx">> \in g.wires
    BY DEF BuildMonolithicGraph
  <2> HIDE DEF g
  <2>3. QED BY <2>1, <2>2, WiredTo
<1> HIDE DEF g
<1>3. ASSUME NEW c \in {"forward", "reverse"} PROVE \E P : OneWay(g, c, P)
  <2> DEFINE P == [n \in N |->
        IF n = "parse" THEN {"rx"}
        ELSE IF n = "lb" THEN {"rx", "parse"}
        ELSE IF n \in {"dnat", "drop"} THEN {"rx", "parse", "lb"}
        ELSE IF n = "ether" THEN {"rx", "parse", "lb", "dnat"}
        ELSE IF n = "tx" THEN {"rx", "parse", "lb", "dnat", "ether"} ELSE {}]
  <2>1. /\ P["rx"] = {} /\ P["parse"] = {"rx"} /\ P["lb"] = {"rx", "parse"}
        /\ P["dnat"] = {"rx", "parse", "lb"} /\ P["drop"] = {"rx", "parse", "lb"}
        /\ P["ether"] = {"rx", "parse", "lb", "dnat"}
        /\ P["tx"] = {"rx", "parse", "lb", "dnat", "ether"} /\ P["arp"] = {}
    OBVIOUS
  <2>2. PICK k : Verdicts("parse", c) = {k} /\ Target(g, "parse", k) = "lb"
    BY <1>2, VerdictsByClass
  <2> HIDE DEF P
  <2>3. OneWay(g, c, P)
    BY <1>1, <1>2, <2>1, <2>2, VerdictsOf DEF OneWay
  <2>4. QED BY <2>3
<1>4. \E P : OneWay(g, "arp", P)
  <2> DEFINE P == [n \in N |->
        IF n = "parse" THEN {"rx"}
        ELSE IF n = "arp" THEN {"rx", "parse"}
        ELSE IF n \in {"tx", "drop"} THEN {"rx", "parse", "arp"} ELSE {}]
  <2>1. /\ P["rx"] = {} /\ P["parse"] = {"rx"} /\ P["lb"] = {} /\ P["dnat"] = {}
        /\ P["ether"] = {} /\ P["arp"] = {"rx", "parse"}
        /\ P["tx"] = {"rx", "parse", "arp"} /\ P["drop"] = {"rx", "parse", "arp"}
    OBVIOUS
  <2> HIDE DEF P
  <2>2. OneWay(g, "arp", P)
    BY <1>1, <1>2, <2>1, VerdictsOf, VerdictsByClass DEF OneWay
  <2>3. QED BY <2>2
<1>5. \E P : OneWay(g, "other", P)
  <2> DEFINE P == [n \in N |->
        IF n = "parse" THEN {"rx"} ELSE IF n = "drop" THEN {"rx", "parse"} ELSE {}]
  <2>1. /\ P["rx"] = {} /\ P["parse"] = {"rx"} /\ P["lb"] = {} /\ P["dnat"] = {}
        /\ P["ether"] = {} /\ P["arp"] = {} /\ P["tx"] = {} /\ P["drop"] = {"rx", "parse"}
    OBVIOUS
  <2> HIDE DEF P
  <2>2. OneWay(g, "other", P)
    BY <1>1, <1>2, <2>1, VerdictsOf, VerdictsByClass DEF OneWay
  <2>3. QED BY <2>2
<1>6. QED BY <1>3, <1>4, <1>5 DEF g

LEMMA RxWays ==
  /\ \E P : OneWay(BuildRxGraph, "arp", P)
  /\ \A c \in {"forward", "reverse", "other"} : \E P : OneWay(BuildRxGraph, c, P)
<1> DEFINE g == BuildRxGraph
           N == {"rx", "steer", "arp", "ringtx", "drop"}
<1>1. g.root = "rx" /\ g.nodes = N
  BY DEF BuildRxGraph
<1>2. /\ Target(g, "rx", 0) = "steer" /\ Target(g, "steer", 0) = "arp"
      /\ Target(g, "arp", 0) = "ringtx" /\ Target(g, "arp", 1) = "drop"
  <2>1. WellFormed(g)
    BY ProgramGraphs
  <2>2. /\ <<"rx", 0, "steer">> \in g.wires /\ <<"steer", 0, "arp">> \in g.wires
        /\ <<"arp", 0, "ringtx">> \in g.wires /\ <<"arp", 1, "drop">> \in g.wires
    BY DEF BuildRxGraph
  <2> HIDE DEF g
  <2>3. QED BY <2>1, <2>2, WiredTo
<1> HIDE DEF g
<1>3. \E P : OneWay(g, "arp", P)
  <2> DEFINE P == [n \in N |->
        IF n = "steer" THEN {"rx"} ELSE IF n = "arp" THEN {"rx", "steer"}
        ELSE IF n \in {"ringtx", "drop"} THEN {"rx", "steer", "arp"} ELSE {}]
  <2>1. /\ P["rx"] = {} /\ P["steer"] = {"rx"} /\ P["arp"] = {"rx", "steer"}
        /\ P["ringtx"] = {"rx", "steer", "arp"} /\ P["drop"] = {"rx", "steer", "arp"}
    OBVIOUS
  <2> HIDE DEF P
  <2>2. OneWay(g, "arp", P)
    BY <1>1, <1>2, <2>1, VerdictsOf, VerdictsByClass DEF OneWay
  <2>3. QED BY <2>2
<1>4. ASSUME NEW c \in {"forward", "reverse", "other"} PROVE \E P : OneWay(g, c, P)
  <2> DEFINE P == [n \in N |-> IF n = "steer" THEN {"rx"} ELSE {}]
  <2>1. /\ P["rx"] = {} /\ P["steer"] = {"rx"} /\ P["arp"] = {} /\ P["ringtx"] = {}
        /\ P["drop"] = {}
    OBVIOUS
  <2> HIDE DEF P
  <2>2. OneWay(g, c, P)
    BY <1>1, <1>2, <2>1, VerdictsOf, VerdictsByClass DEF OneWay
  <2>3. QED BY <2>2
<1>5. QED BY <1>3, <1>4 DEF g

LEMMA WorkerWays ==
  /\ \A c \in {"forward", "reverse"} : \E P : OneWay(BuildWorkerGraph, c, P)
  /\ \A c \in {"arp", "other"} : \E P : OneWay(BuildWorkerGraph, c, P)
<1> DEFINE g == BuildWorkerGraph
           N == {"ringrx", "parse", "lb", "dnat", "ether", "ringtx", "drop"}
<1>1. g.root = "ringrx" /\ g.nodes = N
  BY DEF BuildWorkerGraph
<1>2. /\ Target(g, "ringrx", 0) = "parse" /\ Target(g, "parse", 0) = "lb"
      /\ Target(g, "parse", 1) = "lb" /\ Target(g, "parse", 2) = "drop"
      /\ Target(g, "parse", 3) = "drop" /\ Target(g, "lb", 0) = "dnat"
      /\ Target(g, "lb", 1) = "drop" /\ Target(g, "dnat", 0) = "ether"
      /\ Target(g, "ether", 0) = "ringtx"
  <2>1. WellFormed(g)
    BY ProgramGraphs
  <2>2. /\ <<"ringrx", 0, "parse">> \in g.wires /\ <<"parse", 0, "lb">> \in g.wires
        /\ <<"parse", 1, "lb">> \in g.wires /\ <<"parse", 2, "drop">> \in g.wires
        /\ <<"parse", 3, "drop">> \in g.wires /\ <<"lb", 0, "dnat">> \in g.wires
        /\ <<"lb", 1, "drop">> \in g.wires /\ <<"dnat", 0, "ether">> \in g.wires
        /\ <<"ether", 0, "ringtx">> \in g.wires
    BY DEF BuildWorkerGraph
  <2> HIDE DEF g
  <2>3. QED BY <2>1, <2>2, WiredTo
<1> HIDE DEF g
<1>3. ASSUME NEW c \in {"forward", "reverse"} PROVE \E P : OneWay(g, c, P)
  <2> DEFINE P == [n \in N |->
        IF n = "parse" THEN {"ringrx"}
        ELSE IF n = "lb" THEN {"ringrx", "parse"}
        ELSE IF n \in {"dnat", "drop"} THEN {"ringrx", "parse", "lb"}
        ELSE IF n = "ether" THEN {"ringrx", "parse", "lb", "dnat"}
        ELSE IF n = "ringtx" THEN {"ringrx", "parse", "lb", "dnat", "ether"} ELSE {}]
  <2>1. /\ P["ringrx"] = {} /\ P["parse"] = {"ringrx"} /\ P["lb"] = {"ringrx", "parse"}
        /\ P["dnat"] = {"ringrx", "parse", "lb"} /\ P["drop"] = {"ringrx", "parse", "lb"}
        /\ P["ether"] = {"ringrx", "parse", "lb", "dnat"}
        /\ P["ringtx"] = {"ringrx", "parse", "lb", "dnat", "ether"}
    OBVIOUS
  <2>2. PICK k : Verdicts("parse", c) = {k} /\ Target(g, "parse", k) = "lb"
    BY <1>2, VerdictsByClass
  <2> HIDE DEF P
  <2>3. OneWay(g, c, P)
    BY <1>1, <1>2, <2>1, <2>2, VerdictsOf DEF OneWay
  <2>4. QED BY <2>3
<1>4. ASSUME NEW c \in {"arp", "other"} PROVE \E P : OneWay(g, c, P)
  <2> DEFINE P == [n \in N |->
        IF n = "parse" THEN {"ringrx"} ELSE IF n = "drop" THEN {"ringrx", "parse"} ELSE {}]
  <2>1. /\ P["ringrx"] = {} /\ P["parse"] = {"ringrx"} /\ P["lb"] = {} /\ P["dnat"] = {}
        /\ P["ether"] = {} /\ P["ringtx"] = {} /\ P["drop"] = {"ringrx", "parse"}
    OBVIOUS
  <2>2. PICK k : Verdicts("parse", c) = {k} /\ Target(g, "parse", k) = "drop"
    BY <1>2, VerdictsByClass
  <2> HIDE DEF P
  <2>3. OneWay(g, c, P)
    BY <1>1, <1>2, <2>1, <2>2, VerdictsOf DEF OneWay
  <2>4. QED BY <2>3
<1>5. QED BY <1>3, <1>4 DEF g

LEMMA TxWays == \A c \in Classes : \E P : OneWay(BuildTxGraph, c, P)
<1> DEFINE g == BuildTxGraph
<1>1. g.root = "ringrx" /\ g.nodes = {"ringrx", "tx"}
  BY DEF BuildTxGraph
<1>2. Target(g, "ringrx", 0) = "tx"
  <2>1. WellFormed(g) /\ <<"ringrx", 0, "tx">> \in g.wires
    BY ProgramGraphs DEF BuildTxGraph
  <2> HIDE DEF g
  <2>2. QED BY <2>1, WiredTo
<1> HIDE DEF g
<1>3. ASSUME NEW c \in Classes PROVE \E P : OneWay(g, c, P)
  <2> DEFINE P == [n \in {"ringrx", "tx"} |-> IF n = "tx" THEN {"ringrx"} ELSE {}]
  <2>1. P["ringrx"] = {} /\ P["tx"] = {"ringrx"}
    OBVIOUS
  <2> HIDE DEF P
  <2>2. OneWay(g, c, P)
    BY <1>1, <1>2, <2>1, VerdictsOf DEF OneWay
  <2>3. QED BY <2>2
<1>4. QED BY <1>3 DEF g

\* In the four graphs the program builds, the packets of a class take one way to
\* each node, so that OrderPreserved is about them.
THEOREM ProgramWays ==
  ASSUME NEW g \in {BuildMonolithicGraph, BuildRxGraph, BuildWorkerGraph, BuildTxGraph}
  PROVE  \E A : OnePath(g, A)
<1>1. ASSUME NEW c \in Classes PROVE \E P : OneWay(g, c, P)
  BY MonolithicWays, RxWays, WorkerWays, TxWays DEF Classes
<1> DEFINE A == [c \in Classes |-> CHOOSE P : OneWay(g, c, P)]
<1>2. ASSUME NEW c \in Classes PROVE OneWay(g, c, A[c])
  <2>1. OneWay(g, c, CHOOSE P : OneWay(g, c, P))
    BY <1>1, Zenon
  <2>2. QED BY <2>1
<1>3. QED BY <1>2 DEF OnePath

\* What NoPacketLost, RunsComplete, PoolSuffices and OrderPreserved assume of
\* the graphs holds when an lcore is given one of the four.
THEOREM ProgramAssumptions ==
  ASSUME Graphs \subseteq {BuildMonolithicGraph, BuildRxGraph, BuildWorkerGraph, BuildTxGraph}
  PROVE  AllComplete /\ AllOnePath
BY ProgramGraphs, ProgramWays DEF AllComplete, AllOnePath
=============================================================================
