---------------------------- MODULE PacketGraphs ----------------------------
(***************************************************************************)
(* The packet graphs of the lcores: the four Build...Graph functions of    *)
(* main.cpp, and what each node may do with a packet.  A node stands for   *)
(* itself by its Name(), as no graph has two of a kind; a graph is the     *)
(* nodes that were added, the wires, and the root.                         *)
(***************************************************************************)
EXTENDS Naturals

CONSTANTS kInvalid, \* the target of an output that was never wired
          Gone      \* the verdict on a packet that a node keeps or frees

\* What Ip4ParseNode and ClassifyForSteer tell apart.
Classes == {"forward", "reverse", "arp", "other"}

\* Node::NextCount of every node.
NextCount ==
  [rx |-> 1, ringrx |-> 1, parse |-> 4, steer |-> 1, lb |-> 2, dnat |-> 1,
   ether |-> 1, arp |-> 2, tx |-> 0, ringtx |-> 0, drop |-> 0]
NodeNames == DOMAIN NextCount

\* The nodes that fill the frame they are given.
Sources == {"rx", "ringrx"}

\* The output a node moves a packet of class c to.  SteerNode hands packets
\* to a ring or frees them, TxNode, RingTxNode and DropNode do so with all;
\* LbNode and ArpNode decide by what they find.
Verdicts(node, c) ==
  IF node = "parse" THEN {IF c = "forward" THEN 0 ELSE IF c = "reverse" THEN 1
                          ELSE IF c = "other" THEN 2 ELSE 3}
  ELSE IF node = "steer" THEN (IF c = "arp" THEN {0} ELSE {Gone})
  ELSE IF node \in {"lb", "arp"} THEN {0, 1}
  ELSE IF node \in {"tx", "ringtx", "drop"} THEN {Gone}
  ELSE {0}

\* Mutant of BuildMonolithicGraph: ether is wired back to dnat.
BuildMonolithicGraphLoop ==
  [root |-> "rx",
   nodes |-> {"rx", "parse", "lb", "dnat", "ether", "tx", "drop", "arp"},
   wires |-> {<<"rx", 0, "parse">>, <<"parse", 0, "lb">>, <<"parse", 1, "lb">>,
              <<"parse", 2, "drop">>, <<"parse", 3, "arp">>, <<"arp", 0, "tx">>,
              <<"arp", 1, "drop">>, <<"lb", 0, "dnat">>, <<"lb", 1, "drop">>,
              <<"dnat", 0, "ether">>, <<"ether", 0, "dnat">>}]

BuildMonolithicGraph ==
  [root |-> "rx",
   nodes |-> {"rx", "parse", "lb", "dnat", "ether", "tx", "drop", "arp"},
   wires |-> {<<"rx", 0, "parse">>, <<"parse", 0, "lb">>, <<"parse", 1, "lb">>,
              <<"parse", 2, "drop">>, <<"parse", 3, "arp">>, <<"arp", 0, "tx">>,
              <<"arp", 1, "drop">>, <<"lb", 0, "dnat">>, <<"lb", 1, "drop">>,
              <<"dnat", 0, "ether">>, <<"ether", 0, "tx">>}]

\* Mutant of BuildRxGraph: the last wire is missing.
BuildRxGraphUnwired ==
  [root |-> "rx",
   nodes |-> {"rx", "steer", "arp", "ringtx", "drop"},
   wires |-> {<<"rx", 0, "steer">>, <<"steer", 0, "arp">>, <<"arp", 0, "ringtx">>}]

BuildRxGraph ==
  [root |-> "rx",
   nodes |-> {"rx", "steer", "arp", "ringtx", "drop"},
   wires |-> {<<"rx", 0, "steer">>, <<"steer", 0, "arp">>, <<"arp", 0, "ringtx">>,
              <<"arp", 1, "drop">>}]

BuildWorkerGraph ==
  [root |-> "ringrx",
   nodes |-> {"ringrx", "parse", "lb", "dnat", "ether", "ringtx", "drop"},
   wires |-> {<<"ringrx", 0, "parse">>, <<"parse", 0, "lb">>, <<"parse", 1, "lb">>,
              <<"parse", 2, "drop">>, <<"parse", 3, "drop">>, <<"lb", 0, "dnat">>,
              <<"lb", 1, "drop">>, <<"dnat", 0, "ether">>, <<"ether", 0, "ringtx">>}]

BuildTxGraph ==
  [root |-> "ringrx", nodes |-> {"ringrx", "tx"}, wires |-> {<<"ringrx", 0, "tx">>}]

\* What Graph::Wire checks.
WellFormed(g) ==
  /\ g.root \in g.nodes /\ g.nodes \subseteq NodeNames
  /\ \A w \in g.wires : {w[1], w[3]} \subseteq g.nodes /\ w[2] < NextCount[w[1]]
  /\ \A v, w \in g.wires : v[1] = w[1] /\ v[2] = w[2] => v = w

\* Graph::Target.
Target(g, from, out) ==
  IF \E w \in g.wires : w[1] = from /\ w[2] = out
  THEN (CHOOSE w \in g.wires : w[1] = from /\ w[2] = out)[3]
  ELSE kInvalid
=============================================================================
