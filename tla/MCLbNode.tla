------------------------------ MODULE MCLbNode ------------------------------
(* Values for the constants of LbNode.                                     *)
EXTENDS LbNode, PortPool

CONSTANTS k1, k2, k3

MCFlags == {{"kTcpSyn"}, {"kTcpFin"}, {"kTcpSyn", "kTcpRst"}}
MCSynRst == {{"kTcpSyn"}, {"kTcpRst"}}
MCProtos == {6, 17}
MCProto == [k \in Keys |-> IF k = k1 THEN 6 ELSE 17]
MCHash == [k \in Keys |-> CASE k = k1 -> 0 [] k = k2 -> 1 [] OTHER -> 2]
CONSTANT NPorts
MCPorts == 1 .. NPorts
MCRevHash == [t \in Backends \X MCPorts \X MCProtos |-> t[1] + t[2] + t[3]]
MCPoolPorts == ForWorker(0, 1, 1, NPorts)

\* No action reads meta and the properties read only meta', so states that
\* differ in it alone have the same futures.  Of a time only its age matters,
\* and of a slot that is empty or reaped not even that.
MCAge(f) == IF f.occupied /\ ~f.reaped THEN Age(f, now_ms) ELSE 0
MCView ==
  <<[s \in Slots |-> [slots[s] EXCEPT !.last_seen_ms = MCAge(slots[s])]],
    rev, size, free, burst, pool, IF burst THEN 0 ELSE active_flows>>
=============================================================================
