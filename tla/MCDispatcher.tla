---------------------------- MODULE MCDispatcher ----------------------------
(* All graphs of the dataplane, and packets of every class.                *)
EXTENDS Dispatcher

CONSTANTS f1, f2, r1, a1, o1

MCGraphs == {BuildMonolithicGraph, BuildRxGraph, BuildWorkerGraph, BuildTxGraph}
MCClass ==
  [p \in Packets |-> CASE p \in {f1, f2} -> "forward" [] p = r1 -> "reverse"
                       [] p = a1 -> "arp" [] OTHER -> "other"]
=============================================================================
