----------------------------- MODULE Dispatcher -----------------------------
(***************************************************************************)
(* graph::Dispatcher with its FramePool: one lcore running bursts of       *)
(* packets through a graph.  RunOnce seeds the root, then drains scheduled *)
(* nodes, last in first out, until none is left; each frame of a node is   *)
(* processed packet by packet into scratch frames, whose packets are then  *)
(* appended to the pending frames of the targets.                          *)
(***************************************************************************)
EXTENDS PacketGraphs, Sequences, FiniteSets

CONSTANTS Graphs,     \* the graphs an lcore may be given
          Packets,    \* mbufs
          Class,      \* what the headers of a packet make it
          kBurstSize, \* capacity of a Frame
          kMaxFanout  \* extra frames reserved in the pool

ASSUME DispatcherAssumption ==
  /\ Graphs # {} /\ kBurstSize \in Nat \ {0} /\ kMaxFanout \in Nat
  /\ Class \in [Packets -> Classes]
  /\ kInvalid \notin NodeNames /\ Gone \notin Nat
  /\ \A g \in Graphs : WellFormed(g)

VARIABLES graph,      \* graph_ and root_
          pc,         \* where RunOnce is
          pending,    \* pending_: the frames that wait at each node
          scheduled,  \* scheduled_
          queue,      \* queue_; the last element is popped first
          node, drain,\* DrainNode: the node, what is left of drain_scratch_
          scratch,    \* scratch_: the packets of each output
          bufs,       \* the packets of each Frame that was ever allocated
          free,       \* pool_.free_; the last element is on top
          arrived,    \* history: the burst of this run, in order
          left        \* history: where its packets were left, in order

pool == <<bufs, free>>
history == <<arrived, left>>
vars == <<graph, pc, pending, scheduled, queue, node, drain, scratch, pool, history>>

Outs == 0 .. 3
Frames == DOMAIN bufs       \* storage_, by index
NoScratch == [o \in Outs |-> <<>>]
Elements(s) == {s[i] : i \in DOMAIN s}
Last(s) == s[Len(s)]
Front(s) == SubSeq(s, 1, Len(s) - 1)
Orders(S) == {s \in [1 .. Cardinality(S) -> S] : Elements(s) = S}

\* Bursts a device or a ring can hand out.
Bursts ==
  {b \in UNION {[1 .. n -> Packets] : n \in 0 .. kBurstSize} :
     \A i, j \in DOMAIN b : b[i] = b[j] => i = j}

\* FramePool::Acquire from the stack fr: the top, or a new frame.
Acquired(fr) == IF fr = <<>> THEN Len(bufs) + 1 ELSE Last(fr)
AfterAcquire(fr) == IF fr = <<>> THEN fr ELSE Front(fr)
\* storage_ once frame f holds s: f is a frame of it or the next one.
Stored(f, s) == IF f \in Frames THEN [bufs EXCEPT ![f] = s] ELSE Append(bufs, s)

Init ==
  /\ graph \in Graphs
  /\ LET reserve == Cardinality(graph.nodes) + kMaxFanout
     IN  /\ bufs = [f \in 1 .. reserve |-> <<>>]
         /\ free = [f \in 1 .. reserve |-> f]
  /\ pc = "idle"
  /\ pending = [n \in graph.nodes |-> <<>>]
  /\ scheduled = [n \in graph.nodes |-> 0]
  /\ queue = <<>> /\ node = graph.root /\ drain = <<>> /\ scratch = NoScratch
  /\ arrived = <<>> /\ left = <<>>

\* Reset releases what is still pending, then the seed frame goes to the
\* root.  Every caller passes an empty root_frame.
RunOnce ==
  /\ pc = "idle"
  /\ \E stale \in Orders(UNION {Elements(pending[n]) : n \in graph.nodes}) :
       LET freed == free \o stale
       IN  /\ pending' = [n \in graph.nodes |->
                            IF n = graph.root THEN <<Acquired(freed)>> ELSE <<>>]
           /\ free' = AfterAcquire(freed)
           /\ bufs' = Stored(Acquired(freed), <<>>)
  /\ queue' = <<graph.root>>
  /\ scheduled' = [n \in graph.nodes |-> IF n = graph.root THEN 1 ELSE 0]
  /\ pc' = "loop"
  /\ arrived' = <<>> /\ left' = <<>>
  /\ UNCHANGED <<graph, node, drain, scratch>>

\* Mutant of PopNode: pending_ is copied instead of swapped.
PopNodeCopies ==
  /\ pc = "loop" /\ queue # <<>>
  /\ node' = Last(queue) /\ queue' = Front(queue)
  /\ scheduled' = [scheduled EXCEPT ![node'] = 0]
  /\ drain' = pending[node']
  /\ pc' = "drain"
  /\ UNCHANGED <<graph, pending, scratch, pool, history>>

\* The loop of RunOnce takes a node, and DrainNode its frames.
PopNode ==
  /\ pc = "loop" /\ queue # <<>>
  /\ node' = Last(queue) /\ queue' = Front(queue)
  /\ scheduled' = [scheduled EXCEPT ![node'] = 0]
  /\ drain' = pending[node'] /\ pending' = [pending EXCEPT ![node'] = <<>>]
  /\ pc' = "drain"
  /\ UNCHANGED <<graph, scratch, pool, history>>

Return ==
  /\ pc = "loop" /\ queue = <<>>
  /\ pc' = "idle"
  /\ UNCHANGED <<graph, pending, scheduled, queue, node, drain, scratch, pool, history>>

\* RunNode on the next frame; RxNode and RingRxNode overwrite it with a burst.
RunNode ==
  /\ pc = "drain" /\ drain # <<>>
  /\ pc' = "process"
  /\ \/ node \notin Sources /\ UNCHANGED <<bufs, arrived>>
     \/ /\ node \in Sources
        /\ \E b \in Bursts : /\ bufs' = [bufs EXCEPT ![Head(drain)] = b]
                             /\ arrived' = b
  /\ UNCHANGED <<graph, pending, scheduled, queue, node, drain, scratch, free, left>>

\* One round of the packet loop of the node's Process: MoveTo an output, or
\* the packet is sent, handed on or freed.
Process ==
  /\ pc = "process" /\ bufs[Head(drain)] # <<>>
  /\ LET p == Head(bufs[Head(drain)])
     IN  /\ bufs' = [bufs EXCEPT ![Head(drain)] = Tail(@)]
         /\ \E out \in Verdicts(node, Class[p]) :
              IF out = Gone
              THEN /\ left' = Append(left, [p |-> p, at |-> node])
                   /\ UNCHANGED scratch
              ELSE /\ scratch' = [scratch EXCEPT ![out] = Append(@, p)]
                   /\ UNCHANGED left
  /\ UNCHANGED <<graph, pc, pending, scheduled, queue, node, drain, free, arrived>>

ProcessDone ==
  /\ pc = "process" /\ bufs[Head(drain)] = <<>>
  /\ pc' = "route"
  /\ UNCHANGED <<graph, pending, scheduled, queue, node, drain, scratch, pool, history>>

Full(f) == Len(bufs[f]) = kBurstSize

\* Mutant of RouteInto: the packet is put before the others.
RouteIntoFront(target, p) ==
  IF pending[target] = <<>> \/ Full(Last(pending[target]))
  THEN /\ pending' = [pending EXCEPT ![target] = Append(@, Acquired(free))]
       /\ free' = AfterAcquire(free)
       /\ bufs' = Stored(Acquired(free), <<p>>)
  ELSE /\ bufs' = [bufs EXCEPT ![Last(pending[target])] = <<p>> \o @]
       /\ UNCHANGED <<pending, free>>

\* One packet of RouteInto: into the last pending frame, or into a new one if
\* there is none or it is full.
RouteInto(target, p) ==
  IF pending[target] = <<>> \/ Full(Last(pending[target]))
  THEN /\ pending' = [pending EXCEPT ![target] = Append(@, Acquired(free))]
       /\ free' = AfterAcquire(free)
       /\ bufs' = Stored(Acquired(free), <<p>>)
  ELSE /\ bufs' = [bufs EXCEPT ![Last(pending[target])] = Append(@, p)]
       /\ UNCHANGED <<pending, free>>

\* Mutant of Schedule: a node is queued again for every output wired to it.
ScheduleAgain(target) ==
  /\ scheduled' = [scheduled EXCEPT ![target] = @ + 1]
  /\ queue' = Append(queue, target)

\* Mutant of Schedule: a node is queued only when nothing else is.
ScheduleIfIdle(target) ==
  IF scheduled[target] = 0 /\ queue = <<>>
  THEN /\ scheduled' = [scheduled EXCEPT ![target] = 1]
       /\ queue' = Append(queue, target)
  ELSE UNCHANGED <<scheduled, queue>>

Schedule(target) ==
  IF scheduled[target] = 0
  THEN /\ scheduled' = [scheduled EXCEPT ![target] = 1]
       /\ queue' = Append(queue, target)
  ELSE UNCHANGED <<scheduled, queue>>

\* RunNode's loop over the outputs: the first that still has packets.  After
\* its last packet the target is scheduled; without a target all are lost.
Route(out) ==
  /\ pc = "route" /\ scratch[out] # <<>>
  /\ \A o \in Outs : o < out => scratch[o] = <<>>
  /\ LET target == Target(graph, node, out)
     IN  IF target = kInvalid
         THEN /\ scratch' = [scratch EXCEPT ![out] = <<>>]
              /\ UNCHANGED <<pending, pool, scheduled, queue>>
         ELSE /\ scratch' = [scratch EXCEPT ![out] = Tail(@)]
              /\ RouteInto(target, Head(scratch[out]))
              /\ IF Len(scratch[out]) = 1 THEN Schedule(target)
                                          ELSE UNCHANGED <<scheduled, queue>>
  /\ UNCHANGED <<graph, pc, node, drain, history>>

\* Mutant of FrameDone: the frame is not given back.
FrameDoneKept ==
  /\ pc = "route" /\ scratch = NoScratch
  /\ drain' = Tail(drain)
  /\ pc' = "drain"
  /\ UNCHANGED <<graph, pending, scheduled, queue, node, scratch, pool, history>>

\* DrainNode releases the frame it is done with.
FrameDone ==
  /\ pc = "route" /\ scratch = NoScratch
  /\ free' = Append(free, Head(drain)) /\ drain' = Tail(drain)
  /\ bufs' = [bufs EXCEPT ![Head(drain)] = <<>>]
  /\ pc' = "drain"
  /\ UNCHANGED <<graph, pending, scheduled, queue, node, scratch, history>>

NodeDone ==
  /\ pc = "drain" /\ drain = <<>>
  /\ pc' = "loop"
  /\ UNCHANGED <<graph, pending, scheduled, queue, node, drain, scratch, pool, history>>

Next ==
  \/ RunOnce \/ PopNode \/ Return
  \/ RunNode \/ Process \/ ProcessDone
  \/ \E out \in Outs : Route(out)
  \/ FrameDone \/ NodeDone

Spec == Init /\ [][Next]_vars

\* An lcore runs its dispatcher without pause.
FairSpec == Spec /\ WF_vars(Next)

-----------------------------------------------------------------------------
TypeOK ==
  /\ graph \in Graphs /\ node \in graph.nodes
  /\ pc \in {"idle", "loop", "drain", "process", "route"}
  /\ bufs \in Seq(Seq(Packets)) /\ free \in Seq(Frames) /\ drain \in Seq(Frames)
  /\ pending \in [graph.nodes -> Seq(Frames)]
  /\ scheduled \in [graph.nodes -> {0, 1}] /\ queue \in Seq(graph.nodes)
  /\ scratch \in [Outs -> Seq(Packets)]
  /\ arrived \in Seq(Packets) /\ left \in Seq([p : Packets, at : graph.nodes])
  /\ \A f \in Frames : Len(bufs[f]) <= kBurstSize
  /\ \A o \in Outs : Len(scratch[o]) <= kBurstSize

\* Where a frame is: on the free stack, being drained, or pending at a node.
Stacks == {"free", "drain"} \cup graph.nodes
Stack(x) == IF x = "free" THEN free ELSE IF x = "drain" THEN drain ELSE pending[x]
FramePlaces(f) ==
  UNION {{x} \X {i \in DOMAIN Stack(x) : Stack(x)[i] = f} : x \in Stacks}

\* A frame is never in two places, so no two nodes ever write the same one,
\* and none leaks: RouteInto, DrainNode and Reset trade them one for one.
FramesConserved == \A f \in Frames : Cardinality(FramePlaces(f)) = 1

\* Where a packet is: in a frame, in a scratch frame, or out of the graph.
Holders == ({"frame"} \X Frames) \cup ({"scratch"} \X Outs) \cup {<<"left", 0>>}
Held(h) ==
  IF h[1] = "frame" THEN bufs[h[2]]
  ELSE IF h[1] = "scratch" THEN scratch[h[2]]
  ELSE [i \in DOMAIN left |-> left[i].p]
PacketPlaces(p) ==
  UNION {{h} \X {i \in DOMAIN Held(h) : Held(h)[i] = p} : h \in Holders}

\* Every packet of the burst is in one place, never freed or sent twice and
\* never leaked, and no packet of another burst is around.
PacketsConserved ==
  \A p \in Packets :
    Cardinality(PacketPlaces(p)) = IF p \in Elements(arrived) THEN 1 ELSE 0

\* No node with pending frames is forgotten by the queue; so when RunOnce
\* returns, every packet of its burst has left the graph.
NothingForgotten ==
  /\ pc \in {"idle", "loop"} =>
       \A n \in graph.nodes : pending[n] # <<>> => n \in Elements(queue)
  /\ pc = "idle" => Elements(arrived) = {left[i].p : i \in DOMAIN left}

\* The frames reserved by the constructor are enough: RunOnce never makes the
\* FramePool grow.  (The vectors queue_ and pending_ may grow; they only hold
\* indices and pointers.)
NoAllocation == Len(bufs) = Cardinality(graph.nodes) + kMaxFanout

\* Packets of one class that leave the graph at the same node do so in the
\* order in which they came, although nodes are run last in, first out.
OrderKept ==
  \A i, j \in DOMAIN left :
    (i < j /\ left[i].at = left[j].at /\ Class[left[i].p] = Class[left[j].p]) =>
      \E k, l \in DOMAIN arrived : k < l /\ arrived[k] = left[i].p
                                         /\ arrived[l] = left[j].p

\* Every run ends, so that the lcore gets to look at g_running.
RunEnds == []<>(pc = "idle")
=============================================================================
