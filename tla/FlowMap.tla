------------------------------ MODULE FlowMap -------------------------------
(***************************************************************************)
(* What a worker's LbNode promises to the rest of the dataplane, without   *)
(* slots, probing, clocks and stacks: a one-to-one map between client      *)
(* 5-tuples and pairs of a backend and a SNAT port.                        *)
(*                                                                         *)
(* A map has the entries that translate packets (bound) and those of       *)
(* reaped flows, which translate nothing but keep their port until their   *)
(* slot is used again (parked).                                            *)
(***************************************************************************)
CONSTANTS Keys, Backends, Ports

VARIABLE flows

Entry == [key : Keys, b : Backends, port : Ports]
NoFlows == [bound |-> {}, parked |-> {}]

\* Entry e has its tuple for itself.
Fresh(m, e) ==
  \A d \in m.bound \cup m.parked : ~(d.b = e.b /\ d.port = e.port)

\* A lookup may come across flows that have timed out, and reap them.
Reaped(m) ==
  {[bound |-> m.bound \ R, parked |-> m.parked \cup R] : R \in SUBSET m.bound}

\* A packet of flow e is translated, and may close the flow.
Hit(m, e) == {m, [bound |-> m.bound \ {e}, parked |-> m.parked]}

\* A new flow takes an empty slot, or the slot of a flow that has timed out.
AtMostOne(S) == {{}} \cup {{d} : d \in S}

Evicted(m) ==
  {[bound |-> m.bound \ V, parked |-> m.parked \ V] :
     V \in AtMostOne(m.bound \cup m.parked)}

\* A packet opens flow e, and may close it at once.
Opened(m, e) == {m, [bound |-> m.bound \cup {e}, parked |-> m.parked]}

Init == flows = NoFlows

Lookup == flows' \in Reaped(flows)

Translate ==
  \E m \in Reaped(flows) : \E e \in m.bound : flows' \in Hit(m, e)

Open ==
  \E m \in Reaped(flows) : \E e \in Entry :
    /\ \A d \in m.bound : d.key # e.key
    /\ Fresh(m, e)
    /\ \E v \in Evicted(m) : flows' \in Opened(v, e)

Next == Lookup \/ Translate \/ Open

Spec == Init /\ [][Next]_flows
=============================================================================
