------------------------------ MODULE NatTable ------------------------------
(***************************************************************************)
(* The connection-tracking table of one worker (lb::NatTable): an open-    *)
(* addressing hash table slots_ of NAT flows, a second open-addressing     *)
(* array rev_ that indexes the same slots by the translated tuple, and the *)
(* count size_.  The operators take the arrays they read as arguments and  *)
(* say what a call returns or leaves behind; the module has no state.      *)
(*                                                                         *)
(* A probe loop "for i in 0..kCapacity-1, at (start + i) & kMask" is       *)
(* described by the set of places where it stops: it stops at the first of *)
(* them and passes over everything nearer to start.                        *)
(***************************************************************************)
EXTENDS Integers, FiniteSets

CONSTANTS Cap,        \* kCapacity
          TimeoutMs,  \* timeout_ms_
          ClockMod,   \* width of the uint32_t millisecond clock (2^32)
          Keys,       \* forward 5-tuples (net::FlowKey) clients send from
          NoKey,      \* the value-initialised FlowKey of a slot never used
          Proto,      \* [Keys -> Protos]: FlowKey::proto
          Protos,
          Hash,       \* [Keys -> Nat]: net::Hash of the forward tuple
          Backends,   \* backend indices; distinct (ip, port) per index
          Ports,      \* SNAT ports; 0 means "no port"
          RevHash     \* [Backends \X Ports \X Protos -> Nat]

ASSUME TableAssumption ==
  /\ Cap \in Nat \ {0}
  /\ TimeoutMs \in Nat
  /\ ClockMod \in Nat \ {0}
  /\ NoKey \notin Keys
  /\ Proto \in [Keys -> Protos]
  /\ Hash \in [Keys -> Nat]
  /\ Backends \subseteq Nat /\ IsFiniteSet(Backends)
  /\ 0 \in Backends
  /\ Ports \subseteq Nat \ {0}
  /\ RevHash \in [Backends \X Ports \X Protos -> Nat]

Slots == 0 .. Cap - 1
Clock == 0 .. ClockMod - 1
FinBits == {"kFinForward", "kFinReverse"}

Flow == [occupied : BOOLEAN, reaped : BOOLEAN, fwd_key : Keys \cup {NoKey},
         backend_idx : Backends, snat_port : Ports \cup {0},
         last_seen_ms : Clock, fin_seen : SUBSET FinBits]

\* NatFlow{}: what slots_ is filled with before its first use.
EmptyFlow == [occupied |-> FALSE, reaped |-> FALSE, fwd_key |-> NoKey,
              backend_idx |-> 0, snat_port |-> 0, last_seen_ms |-> 0,
              fin_seen |-> {}]

-----------------------------------------------------------------------------
(* Probing.                                                                *)

\* How many probes after start the loop looks at place s.
Dist(start, s) == IF s >= start THEN s - start ELSE s - start + Cap

\* s is where a probe from start stops when the places in S stop it.
IsFirst(start, S, s) ==
  s \in S /\ \A t \in S : Dist(start, s) <= Dist(start, t)

First(start, S) == CHOOSE s \in S : IsFirst(start, S, s)

\* The places a probe from start passes over when the places in S stop it.
Passed(start, S) == {s \in Slots : \A t \in S : Dist(start, s) < Dist(start, t)}

Home(k) == Hash[k] % Cap
RevHome(b, p, proto) == RevHash[<<b, p, proto>>] % Cap

-----------------------------------------------------------------------------
(* Expiry and reaping.  The subtraction is unsigned: ages are modulo the   *)
(* clock, so a flow left alone for a whole turn of it looks fresh again.   *)

Age(f, now) == (now - f.last_seen_ms) % ClockMod

Expired(f, now) == f.occupied /\ (f.reaped \/ Age(f, now) > TimeoutMs)

\* A flow the table still answers for at time now.
Live(f, now) == f.occupied /\ ~Expired(f, now)

\* The slots of S that Reap changes at time now.
Lapsed(sl, S, now) == {s \in S : Expired(sl[s], now) /\ ~sl[s].reaped}

\* slots_ after Reap on every expired slot of S.
ReapAll(sl, S, now) ==
  [s \in Slots |-> IF s \in Lapsed(sl, S, now)
                   THEN [sl[s] EXCEPT !.reaped = TRUE] ELSE sl[s]]

\* size_ after n decrements that stop at zero.
Less(size, n) == IF size >= n THEN size - n ELSE 0

\* Mutant of SizeReaped: a slot already reaped is counted down again.
SizeReapedTwice(sl, size, S, now) ==
  Less(size, Cardinality({s \in S : Expired(sl[s], now)}))

\* size_ after Reap on every expired slot of S.
SizeReaped(sl, size, S, now) == Less(size, Cardinality(Lapsed(sl, S, now)))

-----------------------------------------------------------------------------
(* LookupForward.                                                          *)

ForwardHits(sl, k, now) == {s \in Slots : Live(sl[s], now) /\ sl[s].fwd_key = k}

\* LookupForward ends at a hit or at a slot never used.
ForwardStops(sl, k, now) ==
  ForwardHits(sl, k, now) \cup {s \in Slots : ~sl[s].occupied}

\* Mutant of ForwardPassed: expired slots are walked over without Reap.
ForwardPassedUnreaped(sl, k, now) == {}

\* The slots LookupForward walks over (and reaps where they have expired).
ForwardPassed(sl, k, now) == Passed(Home(k), ForwardStops(sl, k, now))

\* LookupForward returns slot s.
ForwardFinds(sl, k, now, s) ==
  s \in ForwardHits(sl, k, now) /\ IsFirst(Home(k), ForwardStops(sl, k, now), s)

\* LookupForward returns nullptr.
ForwardMisses(sl, k, now) ==
  \A s \in Slots : ~ForwardFinds(sl, k, now, s)

\* The hit refreshes the flow.
Touch(sl, s, now) == [sl EXCEPT ![s].last_seen_ms = now]

-----------------------------------------------------------------------------
(* Insert.                                                                 *)

InsertStops(sl, now) ==
  {s \in Slots : ~sl[s].occupied \/ Expired(sl[s], now)}

\* Mutant of InsertsAt: any slot that can be taken, not the first.
InsertsAtAny(sl, k, now, s) == s \in InsertStops(sl, now)

\* Insert of key k stores the flow in slot s; it fails when no s satisfies it.
InsertsAt(sl, k, now, s) == IsFirst(Home(k), InsertStops(sl, now), s)

NewFlow(k, b, p, now) ==
  [occupied |-> TRUE, reaped |-> FALSE, fwd_key |-> k, backend_idx |-> b,
   snat_port |-> p, last_seen_ms |-> now, fin_seen |-> {}]

\* evicted_port: 0 for a slot never used and for a flow that was closed.
EvictedPort(sl, s) == IF sl[s].occupied THEN sl[s].snat_port ELSE 0

SizeInserted(sl, size, s) ==
  IF ~sl[s].occupied \/ sl[s].reaped THEN size + 1 ELSE size

-----------------------------------------------------------------------------
(* The reverse index.  rv[c] is 0 for a cell never used, else slot + 1.    *)

\* Mutant of IndexStops: the first cell is taken whatever it points at.
IndexStopsAnyUsed(sl, rv, now) == Slots

\* Cells IndexReverse may take: never used, or pointing at a dead slot.
\* The new flow is already in its slot when IndexReverse looks.
IndexStops(sl, rv, now) ==
  {c \in Slots : \/ rv[c] = 0
                 \/ ~sl[rv[c] - 1].occupied
                 \/ Expired(sl[rv[c] - 1], now)}

\* rev_ after IndexReverse(s): unchanged when no cell can be taken.
IndexReverse(sl, rv, s, now) ==
  LET f == sl[s]
      stops == IndexStops(sl, rv, now)
      start == RevHome(f.backend_idx, f.snat_port, Proto[f.fwd_key])
  IN  IF stops = {} THEN rv
      ELSE [rv EXCEPT ![First(start, stops)] = s + 1]

\* Slot s answers for packets from backend b to SNAT port p.
ReverseMatch(f, b, p, proto, now) ==
  /\ Live(f, now)
  /\ f.backend_idx = b
  /\ f.snat_port = p
  /\ Proto[f.fwd_key] = proto

ReverseHits(sl, rv, b, p, proto, now) ==
  {c \in Slots : rv[c] # 0 /\ ReverseMatch(sl[rv[c] - 1], b, p, proto, now)}

ReverseStops(sl, rv, b, p, proto, now) ==
  ReverseHits(sl, rv, b, p, proto, now) \cup {c \in Slots : rv[c] = 0}

\* The slots LookupReverse comes across (and reaps where they have expired).
ReversePassed(sl, rv, b, p, proto, now) ==
  {rv[c] - 1 : c \in Passed(RevHome(b, p, proto),
                            ReverseStops(sl, rv, b, p, proto, now))}

\* LookupReverse returns slot s.
ReverseFinds(sl, rv, b, p, proto, now, s) ==
  \E c \in ReverseHits(sl, rv, b, p, proto, now) :
    /\ IsFirst(RevHome(b, p, proto), ReverseStops(sl, rv, b, p, proto, now), c)
    /\ s = rv[c] - 1

\* LookupReverse returns nullptr.
ReverseMisses(sl, rv, b, p, proto, now) ==
  \A s \in Slots : ~ReverseFinds(sl, rv, b, p, proto, now, s)

-----------------------------------------------------------------------------
(* Close.                                                                  *)

\* Mutant of Closed: the flow keeps the port that Close hands back.
ClosedKeepsPort(f) == [f EXCEPT !.reaped = TRUE]

\* The flow as Close leaves it when it is occupied and not reaped.
Closed(f) == [f EXCEPT !.reaped = TRUE, !.snat_port = 0]
=============================================================================
