--------------------------- MODULE MCControlView ---------------------------
(* Values for the constants of ControlView: the list that SeedControl       *)
(* passes and others with fewer, other and too many entries.                *)
EXTENDS ControlView

MCConst(x) == [a \in Addr(MaxBackends) |-> x]
MCSources == {[n |-> 1, w |-> MCConst(1)], [n |-> MaxBackends + 1, w |-> MCConst(2)]}
=============================================================================
