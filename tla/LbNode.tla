------------------------------- MODULE LbNode -------------------------------
(***************************************************************************)
(* The load-balancing node of one worker (nodes::LbNode) with what it      *)
(* owns: the NAT table, one SNAT-port pool per backend, and the active     *)
(* flow gauge.  Process handles a burst: it loads the current backend pool *)
(* and the clock once, handles the packets one after the other, and stores *)
(* the gauge.  Each outcome of HandlePacket is an action.  The backend     *)
(* pool is whatever the control loop stored last: any set of enabled       *)
(* backends.                                                               *)
(***************************************************************************)
EXTENDS NatTable, Sequences

CONSTANTS TcpProto,   \* kProtoTcp
          TcpFlagSets,\* the combinations of TCP flags packets carry
          PoolPorts   \* PortPool::ForWorker of this worker, as a stack

TcpFlags == {"kTcpSyn", "kTcpFin", "kTcpRst"}

ASSUME FlagAssumption == TcpFlagSets \subseteq SUBSET TcpFlags

ASSUME PoolAssumption ==
  /\ PoolPorts \in Seq(Ports)
  /\ \A i, j \in 1 .. Len(PoolPorts) : PoolPorts[i] = PoolPorts[j] => i = j
  /\ \A p \in Ports : \E i \in 1 .. Len(PoolPorts) : PoolPorts[i] = p

VARIABLES slots,         \* nat_.slots_
          rev,           \* nat_.rev_
          size,          \* nat_.size_
          free,          \* port_pools_[b].free_; the last element is on top
          now_ms,        \* NowMs() of the current or the latest burst
          burst,         \* TRUE while Process is in its packet loop
          pool,          \* active_ of the BackendPool the burst loaded
          active_flows,  \* stats_.active_flows
          meta           \* the packet handled last, and where it was sent

vars == <<slots, rev, size, free, now_ms, burst, pool, active_flows, meta>>
table == <<slots, rev, size>>

\* ReadTcpFlags: a UDP packet has none.
Flags(proto) == IF proto = TcpProto THEN TcpFlagSets ELSE {{}}
Directions == {"kForward", "kReverse"}
Verdicts == {"kNextDnat", "kNextDrop"}

\* The active_ vectors a BackendPool can hold: enabled indices, ascending.
ActiveLists ==
  {a \in UNION {[1 .. n -> Backends] : n \in 0 .. Cardinality(Backends)} :
     \A i, j \in DOMAIN a : i < j => a[i] < a[j]}

\* BackendPool::Select.
Select(active, k) == active[(Hash[k] % Len(active)) + 1]

\* PortPool::Acquire when the pool is not empty.
Top(stack) == stack[Len(stack)]
Pop(stack) == SubSeq(stack, 1, Len(stack) - 1)

\* Mutant of Release: the callers do not test for port 0.
ReleaseUnchecked(fr, b, p) == [fr EXCEPT ![b] = Append(@, p)]

\* PortPool::Release, which the callers skip for port 0.
Release(fr, b, p) == IF p = 0 THEN fr ELSE [fr EXCEPT ![b] = Append(@, p)]

-----------------------------------------------------------------------------
(* MaybeTeardown on a flow, for a packet of direction dir.                 *)

Fin(dir) == IF dir = "kForward" THEN "kFinForward" ELSE "kFinReverse"

NoteFin(f, dir, flags) ==
  IF "kTcpFin" \in flags THEN [f EXCEPT !.fin_seen = @ \cup {Fin(dir)}] ELSE f

\* Mutant of Closes: one FIN is enough.
ClosesOnAnyFin(f, dir, flags) ==
  ("kTcpRst" \in flags \/ "kTcpFin" \in flags) /\ f.occupied /\ ~f.reaped

\* The packet closes the flow: Close has something to reap.
Closes(f, dir, flags) ==
  /\ \/ "kTcpRst" \in flags
     \/ "kTcpFin" \in flags /\ NoteFin(f, dir, flags).fin_seen = FinBits
  /\ f.occupied /\ ~f.reaped

TornFlow(f, dir, flags) ==
  IF Closes(f, dir, flags) THEN Closed(NoteFin(f, dir, flags))
                           ELSE NoteFin(f, dir, flags)
TornSize(n, f, dir, flags) == IF Closes(f, dir, flags) THEN Less(n, 1) ELSE n
TornFree(fr, f, dir, flags) ==
  IF Closes(f, dir, flags) THEN Release(fr, f.backend_idx, f.snat_port) ELSE fr

\* MaybeTeardown of slot s, given slots_ (sl), size_ (n) and the pools (fr) as
\* the packet has left them so far.
MaybeTeardown(sl, n, fr, s, dir, flags) ==
  /\ slots' = [sl EXCEPT ![s] = TornFlow(sl[s], dir, flags)]
  /\ size' = TornSize(n, sl[s], dir, flags)
  /\ free' = TornFree(fr, sl[s], dir, flags)

-----------------------------------------------------------------------------

Init ==
  /\ slots = [s \in Slots |-> EmptyFlow]
  /\ rev = [c \in Slots |-> 0]
  /\ size = 0
  /\ free = [b \in Backends |-> PoolPorts]
  /\ now_ms \in Clock
  /\ burst = FALSE
  /\ pool = <<>>
  /\ active_flows = 0
  /\ meta = [dir |-> "kForward", key |-> NoKey, backend_idx |-> 0,
             snat_port |-> 0, tcp_flags |-> {}, verdict |-> "kNextDrop"]

\* What a packet leaves in its PacketMeta; snat_port and backend_idx are 0
\* for a packet that found no flow.
Emit(dir, k, b, p, flags, verdict) ==
  meta' = [dir |-> dir, key |-> k, backend_idx |-> b, snat_port |-> p,
           tcp_flags |-> flags, verdict |-> verdict]

\* Process with a backend pool: time has moved on by any amount.
ProcessBegin ==
  /\ ~burst
  /\ burst' = TRUE
  /\ pool' \in ActiveLists \ {<<>>}
  /\ now_ms' \in Clock
  /\ UNCHANGED <<table, free, active_flows, meta>>

\* Process without an active backend: every packet is dropped, and neither
\* the clock nor the table is looked at.
ProcessNoBackends(k, flags) ==
  /\ ~burst
  /\ Emit("kForward", k, 0, 0, flags, "kNextDrop")
  /\ UNCHANGED <<table, free, now_ms, burst, pool, active_flows>>

ProcessNoBackendsReverse(b, p, flags) ==
  /\ ~burst
  /\ Emit("kReverse", NoKey, b, p, flags, "kNextDrop")
  /\ UNCHANGED <<table, free, now_ms, burst, pool, active_flows>>

\* The end of Process: the gauge is stored.
ProcessEnd ==
  /\ burst
  /\ burst' = FALSE
  /\ pool' = <<>>
  /\ active_flows' = size
  /\ UNCHANGED <<table, free, now_ms, meta>>

\* slots_ and size_ after LookupForward has walked over its expired slots.
Walked(k) == ReapAll(slots, ForwardPassed(slots, k, now_ms), now_ms)
WalkedSize(k) == SizeReaped(slots, size, ForwardPassed(slots, k, now_ms), now_ms)

ForwardHit(k, flags, s) ==
  /\ burst
  /\ ForwardFinds(slots, k, now_ms, s)
  /\ MaybeTeardown(Touch(Walked(k), s, now_ms), WalkedSize(k), free, s,
                   "kForward", flags)
  /\ Emit("kForward", k, slots[s].backend_idx, slots[s].snat_port, flags,
          "kNextDnat")
  /\ UNCHANGED <<rev, now_ms, burst, pool, active_flows>>

\* A TCP packet without SYN does not open a flow.
OpensFlow(k, flags) == Proto[k] # TcpProto \/ "kTcpSyn" \in flags

ForwardNoSyn(k, flags) ==
  /\ burst
  /\ ForwardMisses(slots, k, now_ms)
  /\ ~OpensFlow(k, flags)
  /\ slots' = Walked(k)
  /\ size' = WalkedSize(k)
  /\ Emit("kForward", k, 0, 0, flags, "kNextDrop")
  /\ UNCHANGED <<rev, free, now_ms, burst, pool, active_flows>>

\* CreateFlow finds the port pool of the selected backend empty.
ForwardNoPort(k, flags) ==
  /\ burst
  /\ ForwardMisses(slots, k, now_ms)
  /\ OpensFlow(k, flags)
  /\ free[Select(pool, k)] = <<>>
  /\ slots' = Walked(k)
  /\ size' = WalkedSize(k)
  /\ Emit("kForward", k, 0, 0, flags, "kNextDrop")
  /\ UNCHANGED <<rev, free, now_ms, burst, pool, active_flows>>

\* Mutant of ReturnPort: the port is not released.
ReturnPortForgotten(b, p) == free' = [free EXCEPT ![b] = Pop(@)]

\* CreateFlow acquires a port, Insert finds no slot, the port is released.
ReturnPort(b, p) == free' = Release([free EXCEPT ![b] = Pop(@)], b, p)

ForwardTableFull(k, flags) ==
  LET b == Select(pool, k) IN
  /\ burst
  /\ ForwardMisses(slots, k, now_ms)
  /\ OpensFlow(k, flags)
  /\ free[b] # <<>>
  /\ InsertStops(Walked(k), now_ms) = {}
  /\ slots' = Walked(k)
  /\ size' = WalkedSize(k)
  /\ ReturnPort(b, Top(free[b]))
  /\ Emit("kForward", k, 0, 0, flags, "kNextDrop")
  /\ UNCHANGED <<rev, now_ms, burst, pool, active_flows>>

\* CreateFlow stores the flow in slot s, releases the port of the flow it
\* evicts there, and the packet that opened the flow may already close it.
Stored(k, b, p, s) == [Walked(k) EXCEPT ![s] = NewFlow(k, b, p, now_ms)]
Traded(k, b, s) == Release([free EXCEPT ![b] = Pop(@)],
                           Walked(k)[s].backend_idx, EvictedPort(Walked(k), s))

ForwardCreate(k, flags, s) ==
  LET b == Select(pool, k)
      p == Top(free[b])
  IN
  /\ burst
  /\ ForwardMisses(slots, k, now_ms)
  /\ OpensFlow(k, flags)
  /\ free[b] # <<>>
  /\ InsertsAt(Walked(k), k, now_ms, s)
  /\ rev' = IndexReverse(Stored(k, b, p, s), rev, s, now_ms)
  /\ MaybeTeardown(Stored(k, b, p, s),
                   SizeInserted(Walked(k), WalkedSize(k), s),
                   Traded(k, b, s), s, "kForward", flags)
  /\ Emit("kForward", k, b, p, flags, "kNextDnat")
  /\ UNCHANGED <<now_ms, burst, pool, active_flows>>

\* slots_ and size_ after LookupReverse has come across expired slots.
WalkedRev(b, p, proto) ==
  ReapAll(slots, ReversePassed(slots, rev, b, p, proto, now_ms), now_ms)
WalkedRevSize(b, p, proto) ==
  SizeReaped(slots, size, ReversePassed(slots, rev, b, p, proto, now_ms), now_ms)

ReverseHit(b, p, proto, flags, s) ==
  /\ burst
  /\ ReverseFinds(slots, rev, b, p, proto, now_ms, s)
  /\ MaybeTeardown(Touch(WalkedRev(b, p, proto), s, now_ms),
                   WalkedRevSize(b, p, proto), free, s, "kReverse", flags)
  /\ Emit("kReverse", slots[s].fwd_key, b, p, flags, "kNextDnat")
  /\ UNCHANGED <<rev, now_ms, burst, pool, active_flows>>

ReverseMiss(b, p, proto, flags) ==
  /\ burst
  /\ ReverseMisses(slots, rev, b, p, proto, now_ms)
  /\ slots' = WalkedRev(b, p, proto)
  /\ size' = WalkedRevSize(b, p, proto)
  /\ Emit("kReverse", NoKey, b, p, flags, "kNextDrop")
  /\ UNCHANGED <<rev, free, now_ms, burst, pool, active_flows>>

ForwardPacket(k, flags) ==
  \/ ForwardNoSyn(k, flags)
  \/ ForwardNoPort(k, flags)
  \/ ForwardTableFull(k, flags)
  \/ \E s \in Slots : ForwardHit(k, flags, s)
  \/ \E s \in Slots : ForwardCreate(k, flags, s)

ReversePacket(b, p, proto, flags) ==
  \/ ReverseMiss(b, p, proto, flags)
  \/ \E s \in Slots : ReverseHit(b, p, proto, flags, s)

Next ==
  \/ ProcessBegin
  \/ ProcessEnd
  \/ \E k \in Keys : \E flags \in Flags(Proto[k]) :
       ForwardPacket(k, flags) \/ ProcessNoBackends(k, flags)
  \/ \E b \in Backends, p \in Ports, proto \in Protos :
       \E flags \in Flags(proto) :
         \/ ReversePacket(b, p, proto, flags)
         \/ ProcessNoBackendsReverse(b, p, flags)

Spec == Init /\ [][Next]_vars

\* The worker polls for ever, so bursts begin and end; and clients retry, so
\* that a flow-opening packet of every client is handled again and again.
Fairness ==
  /\ WF_vars(ProcessBegin) /\ WF_vars(ProcessEnd)
  /\ \A k \in Keys : SF_vars(\E flags \in Flags(Proto[k]) :
                              OpensFlow(k, flags) /\ ForwardPacket(k, flags))

FairSpec == Spec /\ Fairness

-----------------------------------------------------------------------------
(* Properties.                                                             *)

\* Every variable keeps its type; a used slot holds the key of a client, and
\* a pool's stack holds ports of the worker, never 0.
TypeOK ==
  /\ slots \in [Slots -> Flow]
  /\ \A s \in Slots : slots[s].occupied => slots[s].fwd_key \in Keys
  /\ rev \in [Slots -> 0 .. Cap]
  /\ size \in Nat
  /\ free \in [Backends -> Seq(Ports)]
  /\ now_ms \in Clock
  /\ burst \in BOOLEAN
  /\ pool \in ActiveLists
  /\ burst => pool # <<>>
  /\ active_flows \in Nat
  /\ meta \in [dir : Directions, key : Keys \cup {NoKey},
               backend_idx : Backends, snat_port : Ports \cup {0},
               tcp_flags : SUBSET TcpFlags, verdict : Verdicts]

\* Slot s of sl owns SNAT port p of backend b.
Owns(sl, s, b, p) ==
  sl[s].occupied /\ sl[s].backend_idx = b /\ sl[s].snat_port = p

\* Port p is on the stack of backend b.
Pooled(fr, b, p) == \E i \in 1 .. Len(fr[b]) : fr[b][i] = p

\* No port is on a stack twice, on a stack and in a slot, or in two slots.
NeverTwice(sl, fr) ==
  \A b \in Backends :
    /\ \A i, j \in 1 .. Len(fr[b]) : fr[b][i] = fr[b][j] => i = j
    /\ \A s \in Slots, p \in Ports : Owns(sl, s, b, p) => ~Pooled(fr, b, p)
    /\ \A s, t \in Slots, p \in Ports :
         Owns(sl, s, b, p) /\ Owns(sl, t, b, p) => s = t

\* Every port is on its stack or in a slot.
NeverLost(sl, fr) ==
  \A b \in Backends, p \in Ports :
    Pooled(fr, b, p) \/ \E s \in Slots : Owns(sl, s, b, p)

\* CreateFlow, Insert's eviction, Close and the release on a full table move
\* ports between the pools and the slots: between packets each SNAT port of
\* each backend is in exactly one place, so no two connections to a backend
\* ever share a translated source port and none leaks.
PortConservation == NeverTwice(slots, free) /\ NeverLost(slots, free)

\* The slots size_ is meant to count.
Counted(sl) == {s \in Slots : sl[s].occupied /\ ~sl[s].reaped}

\* size_, kept by increments and decrements scattered over Insert, Reap and
\* Close, is the number of slots not reaped, and the gauge that Process
\* publishes is that number whenever no burst is running.
SizeHonest ==
  /\ size = Cardinality(Counted(slots))
  /\ ~burst => active_flows = Cardinality(Counted(slots))

\* Every slot from a flow's home up to the flow is occupied, so that a lookup
\* does not stop before it.
ChainTo(sl, s) ==
  \A t \in Slots : Dist(Home(sl[s].fwd_key), t) < Dist(Home(sl[s].fwd_key), s)
                     => sl[t].occupied

\* Open addressing without tombstones works only if no slot on the way to an
\* occupied one is ever emptied.
ProbeChain == \A s \in Slots : slots[s].occupied => ChainTo(slots, s)

\* At most one slot that is not reaped per 5-tuple: a connection never has
\* two translations.
KeyUnique ==
  \A s, t \in Counted(slots) : slots[s].fwd_key = slots[t].fwd_key => s = t

\* The packet handled in this step told the flow in slot s to close.
ClosedByPacket(s) ==
  /\ meta'.verdict = "kNextDnat"
  /\ meta'.key = slots[s].fwd_key
  /\ \/ "kTcpRst" \in meta'.tcp_flags
     \/ "kTcpFin" \in meta'.tcp_flags /\ slots'[s].fin_seen = FinBits

\* A flow that has not timed out keeps its client, backend and SNAT port
\* until one of its own packets closes it: neither a change of the enabled
\* backends, nor other flows, nor a full table moves or evicts it.
BindingStable ==
  [][\A s \in Slots : Live(slots[s], now_ms') =>
       /\ slots'[s].fwd_key = slots[s].fwd_key
       /\ slots'[s].backend_idx = slots[s].backend_idx
       /\ slots'[s].reaped \/ slots'[s].snat_port = slots[s].snat_port
       /\ slots'[s].reaped => ClosedByPacket(s)]_vars

\* LookupForward finds every live flow, whatever was inserted, closed and
\* reaped around it: while a backend is active none of its packets is dropped
\* and none opens a second flow.
ForwardReachable ==
  \A s \in Slots : Live(slots[s], now_ms) =>
    ForwardFinds(slots, slots[s].fwd_key, now_ms, s)

\* The entries of the flows in the slots S that hold a port.
EntriesOf(S) ==
  {[key |-> slots[s].fwd_key, b |-> slots[s].backend_idx, port |-> slots[s].snat_port] :
     s \in {s \in S : slots[s].occupied /\ slots[s].snat_port # 0}}

Promise == INSTANCE FlowMap WITH
  flows <- [bound |-> EntriesOf(Counted(slots)),
            parked |-> EntriesOf(Slots \ Counted(slots))]

\* LbNode with its table, index and stacks implements a one-to-one map: no
\* step gives a 5-tuple a second translation, gives out a backend and port
\* that another flow still has, or revives a flow it has reaped.
FlowMapSpec == Promise!Spec

\* LookupReverse would find slot s for the tuple of the flow in it.
Reachable(sl, rv, s, now) ==
  ReverseFinds(sl, rv, sl[s].backend_idx, sl[s].snat_port,
               Proto[sl[s].fwd_key], now, s)

\* A live flow that answers for its replies keeps answering for them while it
\* lives: IndexReverse reuses only cells that no live flow depends on.
ReverseStable ==
  [][\A s \in Slots :
       /\ Live(slots[s], now_ms) /\ Live(slots[s], now_ms')
       /\ Reachable(slots, rev, s, now_ms)
       /\ ~slots'[s].reaped
       => Reachable(slots', rev', s, now_ms')]_vars

\* "A bidirectional connection-tracking table links the forward and reverse
\* 5-tuples" (docs/index.md): every live flow is found from its replies.
ReverseReachable ==
  \A s \in Slots : Live(slots[s], now_ms) => Reachable(slots, rev, s, now_ms)

\* Backend b has no free port and none of its ports serves a live flow.
Starved(b) ==
  /\ free[b] = <<>>
  /\ \A s \in Slots, p \in Ports :
       Owns(slots, s, b, p) => ~Live(slots[s], now_ms)

\* "expiry frees and recycles the port" (dataplane/tests/test_nat_table.cpp):
\* a backend whose flows have all timed out can serve new ones again.
StarvationEnds == \A b \in Backends : Starved(b) ~> ~Starved(b)
=============================================================================
