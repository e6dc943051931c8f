----------------------------- MODULE Reporting ------------------------------
(***************************************************************************)
(* What the control plane reports: the statistics segment, written by the  *)
(* lcores and read by StatsAggregator::Tick one lcore after the other,     *)
(* through stops, kills and restarts of both processes, and the two REST   *)
(* handlers.  rx_packets stands for every counter of LcoreStats; the       *)
(* gauge active_flows and the export to the time-series database are left  *)
(* out.                                                                    *)
(***************************************************************************)
EXTENDS Integers, FiniteSets

CONSTANTS NLcores,    \* kMaxLcores
          CountMod,   \* a counter wraps here: 2^64
          MaxObjects, \* bound on shared-memory objects
          MaxCount,   \* bound on the packets counted in one of them
          MaxTime     \* bound on the wall clock

ASSUME ReportingAssumption ==
  /\ {NLcores, MaxObjects, MaxTime} \subseteq Nat \ {0}
  /\ MaxCount \in Nat /\ CountMod \in Nat /\ MaxCount < CountMod

Objects == 1 .. MaxObjects
None == 0 \* no object, and no time
Lcores == 0 .. NLcores - 1

VARIABLES name,    \* the object behind "/cerebellum_stats"
          made,    \* objects made so far
          ready,   \* objects with a valid ShmHeader
          dp, seg, \* the dataplane, and the object it has mapped
          rx,      \* rx_packets of every lcore in every object
          cp, view,\* the monitor, and the object of its aggregator
          at, current, prev, \* Tick: next lcore, what it read, prev_
          latest,  \* latest_: rx_pps
          seen,    \* history: the sum of the rates of this monitor
          now, last_check, \* the wall clock; last_check_ns of a backend
          h_now    \* BackendsHandler: the time it read, or None

segment == <<name, made, ready, rx>>
dataplane == <<dp, seg>>
tick == <<at, current, prev, latest, seen>>
monitor == <<cp, view, tick>>
clock == <<now, last_check, h_now>>
vars == <<segment, dataplane, monitor, clock>>

Init ==
  /\ name = None /\ made = 0 /\ ready = {}
  /\ dp = "down" /\ seg = None
  /\ rx = [o \in Objects |-> [l \in Lcores |-> 0]]
  /\ cp = "down" /\ view = None
  /\ at = NLcores /\ current = 0 /\ prev = 0 /\ latest = 0 /\ seen = 0
  /\ now = 1 /\ last_check = None /\ h_now = None

-----------------------------------------------------------------------------
(* The dataplane.                                                          *)

\* Mutant of DpCreate: an object that survived is cleared.
DpCreateCleared ==
  /\ dp = "down"
  /\ dp' = "created"
  /\ IF name # None
     THEN /\ seg' = name /\ rx' = [rx EXCEPT ![name] = [l \in Lcores |-> 0]]
          /\ UNCHANGED <<name, made>>
     ELSE /\ made < MaxObjects
          /\ made' = made + 1 /\ name' = made' /\ seg' = made'
          /\ UNCHANGED rx
  /\ UNCHANGED <<ready, monitor, clock>>

\* shm_open with O_CREAT and ftruncate: an object that is still there is
\* taken over with its contents, a new one is all zeros.
DpCreate ==
  /\ dp = "down"
  /\ dp' = "created"
  /\ IF name # None
     THEN seg' = name /\ UNCHANGED <<name, made>>
     ELSE /\ made < MaxObjects
          /\ made' = made + 1 /\ name' = made' /\ seg' = made'
  /\ UNCHANGED <<ready, rx, monitor, clock>>

\* InitShmHeader; then RunDataplane launches the lcores.
DpHeader ==
  /\ dp = "created"
  /\ dp' = "up" /\ ready' = ready \cup {seg}
  /\ UNCHANGED <<name, made, rx, seg, monitor, clock>>

\* What the counters of object o stand for: <<l, i>> is the i-th packet of l.
Counted(o) == {c \in Lcores \X (1 .. CountMod) : c[2] <= rx[o][c[1]]}
Total(o) == Cardinality(Counted(o))

\* fetch_add on lcore l.
Count(l) ==
  /\ dp = "up" /\ Total(seg) < MaxCount
  /\ rx' = [rx EXCEPT ![seg][l] = (@ + 1) % CountMod]
  /\ UNCHANGED <<name, made, ready, dataplane, monitor, clock>>

\* Mutant of DpStop: the mapping outlives the process.
DpStopMapped ==
  /\ dp # "down"
  /\ dp' = "down" /\ name' = None
  /\ UNCHANGED <<seg, made, ready, rx, monitor, clock>>

\* ~ShmProvider unlinks the name; who has the object mapped keeps it.
DpStop ==
  /\ dp # "down"
  /\ dp' = "down" /\ seg' = None /\ name' = None
  /\ UNCHANGED <<made, ready, rx, monitor, clock>>

\* A kill leaves the name and the object.
DpKill ==
  /\ dp # "down"
  /\ dp' = "down" /\ seg' = None
  /\ UNCHANGED <<segment, monitor, clock>>

-----------------------------------------------------------------------------
(* The monitor.                                                            *)

\* The constructor attaches, or falls back to a StatsView of its own for good.
CpStart ==
  /\ cp = "down"
  /\ \/ name \in ready /\ cp' = "connected" /\ view' = name
     \/ name \notin ready /\ cp' = "detached" /\ view' = None
  /\ at' = NLcores /\ current' = 0 /\ prev' = 0 /\ latest' = 0 /\ seen' = 0
  /\ last_check' = None /\ h_now' = None
  /\ UNCHANGED <<segment, dataplane, now>>

CpStop ==
  /\ cp # "down"
  /\ cp' = "down" /\ view' = None
  /\ at' = NLcores /\ current' = 0 /\ prev' = 0 /\ latest' = 0 /\ seen' = 0
  /\ last_check' = None /\ h_now' = None
  /\ UNCHANGED <<segment, dataplane, now>>

TickBegin ==
  /\ cp # "down" /\ at = NLcores
  /\ at' = 0 /\ current' = 0
  /\ UNCHANGED <<segment, dataplane, cp, view, prev, latest, seen, clock>>

\* What a load from lcore l returns; fallback_ is all zeros.
Load(l) == IF cp = "connected" THEN rx[view][l] ELSE 0

\* The unsigned difference to the last round; latest_.Assign.
TickEnd(cur) ==
  /\ latest' = (cur - prev) % CountMod
  /\ seen' = seen + latest'
  /\ prev' = cur

\* Mutant of TickLcore: the last lcore is left out.
TickLcoreShort ==
  /\ cp # "down" /\ at < NLcores
  /\ at' = at + 1
  /\ current' = IF at' = NLcores THEN current ELSE (current + Load(at)) % CountMod
  /\ IF at' = NLcores THEN TickEnd(current') ELSE UNCHANGED <<prev, latest, seen>>
  /\ UNCHANGED <<segment, dataplane, cp, view, clock>>

\* The loop of Tick, and its end after the last lcore.
TickLcore ==
  /\ cp # "down" /\ at < NLcores
  /\ at' = at + 1
  /\ current' = (current + Load(at)) % CountMod
  /\ IF at' = NLcores THEN TickEnd(current') ELSE UNCHANGED <<prev, latest, seen>>
  /\ UNCHANGED <<segment, dataplane, cp, view, clock>>

\* StatsHandler.
StatsReply == [dataplane |-> cp, rx_pps |-> latest]

-----------------------------------------------------------------------------
(* BackendsHandler and the health checker it races with.                   *)

\* The wall clock moves on.  The code reads system_clock; that nobody sets it
\* back is assumed.
Elapse ==
  /\ now < MaxTime
  /\ now' = now + 1
  /\ UNCHANGED <<segment, dataplane, monitor, last_check, h_now>>

\* HealthChecker::RunLoop stores a round of results.
Checked ==
  /\ cp # "down"
  /\ last_check' = now
  /\ UNCHANGED <<segment, dataplane, monitor, now, h_now>>

\* A request takes the time first, then LatestStats and States.
Request ==
  /\ cp # "down" /\ h_now = None
  /\ h_now' = now
  /\ UNCHANGED <<segment, dataplane, monitor, now, last_check>>

Answer ==
  /\ h_now # None
  /\ h_now' = None
  /\ UNCHANGED <<segment, dataplane, monitor, now, last_check>>

\* Mutant of AgeMs: the difference is not guarded.
AgeMsUnguarded(t, last) == (t - last) % CountMod

AgeMs(t, last) == IF t > last THEN (t - last) % CountMod ELSE 0

\* What the handler answers if it takes States now.
BackendsReply == [last_check_ms |-> AgeMs(h_now, last_check), flows |-> latest]

Tick == TickBegin \/ TickLcore
Next ==
  \/ DpCreate \/ DpHeader \/ (\E l \in Lcores : Count(l)) \/ DpStop \/ DpKill
  \/ CpStart \/ CpStop \/ Tick
  \/ Elapse \/ Checked \/ Request \/ Answer

Spec == Init /\ [][Next]_vars

\* The poller is a periodic task.
FairSpec == Spec /\ WF_vars(Tick)

-----------------------------------------------------------------------------
(* Properties.                                                             *)

Counts == 0 .. CountMod - 1

\* Every variable keeps its type.
TypeOK ==
  /\ name \in Objects \cup {None} /\ seg \in Objects \cup {None}
  /\ view \in Objects \cup {None} /\ made \in 0 .. MaxObjects
  /\ ready \subseteq 1 .. made
  /\ dp \in {"down", "created", "up"} /\ cp \in {"down", "connected", "detached"}
  /\ dp # "down" <=> seg # None
  /\ rx \in [Objects -> [Lcores -> Counts]]
  /\ at \in 0 .. NLcores /\ {current, prev, latest} \subseteq Counts /\ seen \in Nat
  /\ {now, last_check, h_now} \subseteq 0 .. MaxTime

\* The rates a monitor has reported add up to no more than what the lcores
\* have counted in its object: no difference ever wraps, although counters
\* move while they are summed up, and dataplanes stop, die and start again
\* between two rounds.  A detached monitor reports zeros.
NoPhantomTraffic ==
  /\ cp = "connected" => seen <= Total(view)
  /\ cp = "detached" => StatsReply.rx_pps = 0 /\ seen = 0

\* What was counted is reported, sooner or later, while the monitor stays
\* attached.  (That nothing is reported twice is NoPhantomTraffic.)
EveryPacketReported ==
  \A n \in 1 .. MaxCount, o \in Objects :
    cp = "connected" /\ view = o /\ Total(o) >= n ~> cp # "connected" \/ seen >= n

\* The age of a probe is never more than the time since that probe, also
\* when its result is stored after the handler has read the clock.
AgeHonest == h_now # None => BackendsReply.last_check_ms <= now - last_check
=============================================================================
