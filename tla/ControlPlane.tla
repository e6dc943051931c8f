---------------------------- MODULE ControlPlane ----------------------------
(***************************************************************************)
(* How a backend's health reaches the workers: the health checker's thread *)
(* probes the backends, the monitor's poller publishes what changed into   *)
(* the control segment it attached to, and the dataplane's control loop    *)
(* builds a new pool from it.  Both processes are started, stopped and     *)
(* killed; the segment is a POSIX shared-memory object that outlives a     *)
(* kill and whose name a stopping dataplane removes.                       *)
(*                                                                         *)
(* Both processes publish, SeedControl in a dataplane that starts and the  *)
(* monitor, and nothing makes them exclude each other; a kill may also cut *)
(* off a publication.  ipc::PublishControl and ReadControl are therefore   *)
(* taken apart into their accesses of the shared memory, entry by entry    *)
(* (module ControlView goes on to single words).  The history variable     *)
(* damaged names the objects in which publications met or one was cut off. *)
(***************************************************************************)
EXTENDS Naturals, FiniteSets

CONSTANTS Backends,  \* the indices of config.yaml's backends, which both read
          MaxEnd,    \* bound on the stops and kills of both planes together
          Flaky,     \* the backends whose reachability changes
          MaxFlip    \* bound on these changes

ASSUME ControlAssumption ==
  /\ Backends # {} /\ IsFiniteSet(Backends) /\ Backends \subseteq Nat
  /\ {MaxEnd, MaxFlip} \subseteq Nat /\ Flaky \subseteq Backends

Status == {"kUnknown", "kUp", "kDown"}
Segments == 1 .. MaxEnd + 1 \* shared-memory objects; 0 is none
Dp == "dataplane"
Cp == "controlplane"
Writers == {Dp, Cp}
NoSeq == 1              \* no pool yet: ReadControl never returns an odd seq

VARIABLES reachable, \* the backends whose probe port accepts a connection
          linked,    \* the object the name /cerebellum_control stands for
          header,    \* the objects whose ShmHeader is initialised
          seq, list, \* ControlView of each object; list holds the enabled ones
          wpc, start, src, left, \* of each publisher: PublishControl
          dpc, dseg, \* dataplane: where its main thread is, the object it mapped
          seq_before, rtodo, out, \* ReadControl
          applied_seq, pool, \* RunControlLoop, AtomicRcu<BackendPool>
          cpc, cseg, \* control plane: up or down, control_
          states,    \* HealthChecker::states_
          snapshot, todo, \* RunLoop: the copy, the backends yet to probe
          published_enabled, \* the monitor's: {} is the empty vector
          nend, nflip,       \* bounded counters
          found, rounds,     \* history: what the round of probes found so far,
                             \* what the finished rounds found
          joined,    \* history: the control plane was started after SeedControl
                     \* of the dataplane, and both have stayed up since
          damaged    \* history: the objects with publications that overlapped
                     \* or with one that was cut off

shm == <<linked, header, seq, list>>
publishers == <<wpc, start, src, left>>
reader == <<seq_before, rtodo, out>>
dataplane == <<dpc, dseg, reader, applied_seq, pool>>
checker == <<states, snapshot, todo>>
monitor == <<cpc, cseg, published_enabled>>
counters == <<nend, nflip>>
outcomes == <<found, rounds>>
history == <<outcomes, joined, damaged>>
vars == <<reachable, shm, publishers, dataplane, checker, monitor, counters,
          history>>

Unprobed == [b \in Backends |-> "kUnknown"]

Init ==
  /\ reachable = Backends
  /\ linked = 0 /\ header = {}
  /\ seq = [s \in Segments |-> 0] /\ list = [s \in Segments |-> {}]
  /\ wpc = [p \in Writers |-> "idle"] /\ start = [p \in Writers |-> 0]
  /\ src = [p \in Writers |-> {}] /\ left = [p \in Writers |-> {}]
  /\ dpc = "down" /\ dseg = 0 /\ applied_seq = NoSeq /\ pool = {}
  /\ seq_before = 0 /\ rtodo = {} /\ out = {}
  /\ cpc = "down" /\ cseg = 0 /\ published_enabled = {}
  /\ states = Unprobed /\ snapshot = Unprobed /\ todo = {}
  /\ nend = 0 /\ nflip = 0
  /\ found = {} /\ rounds = {} /\ joined = FALSE /\ damaged = {}

\* The object publisher p works on, and who is inside of PublishControl there.
Seg(p) == IF p = Dp THEN dseg ELSE cseg
Inside(p, s) == Seg(p) = s /\ wpc[p] \in {"odd", "copy"}

-----------------------------------------------------------------------------
(* ipc::PublishControl, by either publisher.                               *)

LoadSeq(p) ==
  /\ wpc[p] = "load"
  /\ start' = [start EXCEPT ![p] = seq[Seg(p)]]
  /\ wpc' = [wpc EXCEPT ![p] = "odd"]
  /\ damaged' = IF \E q \in Writers : Inside(q, Seg(p))
                THEN damaged \cup {Seg(p)} ELSE damaged
  /\ UNCHANGED <<reachable, shm, src, left, dataplane, checker, monitor, counters,
                 outcomes, joined>>

\* The count, the same in both planes, is left out.
StoreOdd(p) ==
  /\ wpc[p] = "odd"
  /\ seq' = [seq EXCEPT ![Seg(p)] = start[p] + 1]
  /\ left' = [left EXCEPT ![p] = Backends]
  /\ wpc' = [wpc EXCEPT ![p] = "copy"]
  /\ UNCHANGED <<reachable, linked, header, list, start, src, dataplane, checker,
                 monitor, counters, history>>

\* Nothing orders the copies between the fences.
StoreEntry(p, b) ==
  /\ wpc[p] = "copy" /\ b \in left[p]
  /\ list' = [list EXCEPT ![Seg(p)] = IF b \in src[p] THEN @ \cup {b} ELSE @ \ {b}]
  /\ left' = [left EXCEPT ![p] = @ \ {b}]
  /\ UNCHANGED <<reachable, linked, header, seq, wpc, start, src, dataplane,
                 checker, monitor, counters, history>>

\* Mutant of StoreEven: the publication ends on the number it began with.
StoreEvenSame(p) ==
  /\ wpc[p] = "copy" /\ left[p] = {}
  /\ seq' = [seq EXCEPT ![Seg(p)] = start[p]]
  /\ wpc' = [wpc EXCEPT ![p] = "idle"]
  /\ start' = [start EXCEPT ![p] = 0] /\ src' = [src EXCEPT ![p] = {}]
  /\ dpc' = IF p = Dp THEN "loop" ELSE dpc
  /\ published_enabled' = IF p = Cp THEN {src[Cp]} ELSE published_enabled
  /\ UNCHANGED <<reachable, linked, header, list, left, dseg, reader, applied_seq,
                 pool, checker, cpc, cseg, counters, history>>

\* The last store.  SeedControl returns to the main thread, which goes on to
\* read; the monitor remembers what it published.
StoreEven(p) ==
  /\ wpc[p] = "copy" /\ left[p] = {}
  /\ seq' = [seq EXCEPT ![Seg(p)] = start[p] + 2]
  /\ wpc' = [wpc EXCEPT ![p] = "idle"]
  /\ start' = [start EXCEPT ![p] = 0] /\ src' = [src EXCEPT ![p] = {}]
  /\ dpc' = IF p = Dp THEN "loop" ELSE dpc
  /\ published_enabled' = IF p = Cp THEN {src[Cp]} ELSE published_enabled
  /\ UNCHANGED <<reachable, linked, header, list, left, dseg, reader, applied_seq,
                 pool, checker, cpc, cseg, counters, history>>

Publish(p) ==
  LoadSeq(p) \/ StoreOdd(p) \/ StoreEven(p) \/ \E b \in Backends : StoreEntry(p, b)

\* A publisher that is gone, or killed wherever it was.
Silent(p) ==
  /\ wpc' = [wpc EXCEPT ![p] = "idle"] /\ start' = [start EXCEPT ![p] = 0]
  /\ src' = [src EXCEPT ![p] = {}] /\ left' = [left EXCEPT ![p] = {}]
CutOff(p) == IF wpc[p] = "copy" THEN damaged \cup {Seg(p)} ELSE damaged

-----------------------------------------------------------------------------
(* The dataplane.                                                          *)

\* ShmProvider in mode kCreate opens the object of that name, or makes a new
\* one of zeros.  Every object is made after another number of ends.
DpCreate ==
  /\ dpc = "down"
  /\ dseg' = IF linked = 0 THEN nend + 1 ELSE linked
  /\ linked' = dseg'
  /\ dpc' = "created"
  /\ UNCHANGED <<reachable, header, seq, list, publishers, reader, applied_seq,
                 pool, checker, monitor, counters, history>>

\* Mutant of DpHeader: the main thread does not wait for SeedControl.
DpHeaderAsync ==
  /\ dpc = "created"
  /\ header' = header \cup {dseg}
  /\ dpc' = "loop"
  /\ wpc' = [wpc EXCEPT ![Dp] = "load"] /\ src' = [src EXCEPT ![Dp] = Backends]
  /\ UNCHANGED <<reachable, linked, seq, list, start, left, dseg, reader,
                 applied_seq, pool, checker, monitor, counters, history>>

\* ApplyHeader: from now on others can attach.  SeedControl is about to
\* publish every backend as enabled.
DpHeader ==
  /\ dpc = "created"
  /\ header' = header \cup {dseg}
  /\ dpc' = "seed"
  /\ wpc' = [wpc EXCEPT ![Dp] = "load"] /\ src' = [src EXCEPT ![Dp] = Backends]
  /\ UNCHANGED <<reachable, linked, seq, list, start, left, dseg, reader,
                 applied_seq, pool, checker, monitor, counters, history>>

\* ReadControl loads an even seq (it spins on an odd one).  A round of
\* RunControlLoop that loads the number it applied last ends without effect.
ReadSeq ==
  /\ dpc = "loop" /\ seq[dseg] % 2 = 0 /\ seq[dseg] # applied_seq
  /\ seq_before' = seq[dseg] /\ rtodo' = Backends /\ out' = {}
  /\ dpc' = "copy"
  /\ UNCHANGED <<reachable, shm, publishers, dseg, applied_seq, pool, checker,
                 monitor, counters, history>>

ReadEntry(b) ==
  /\ dpc = "copy" /\ b \in rtodo
  /\ out' = IF b \in list[dseg] THEN out \cup {b} ELSE out
  /\ rtodo' = rtodo \ {b}
  /\ UNCHANGED <<reachable, shm, publishers, dpc, dseg, seq_before, applied_seq,
                 pool, checker, monitor, counters, history>>

\* Mutant of CheckSeq: the copy is taken without the second load of seq.
CheckSeqSkipped ==
  /\ dpc = "copy" /\ rtodo = {}
  /\ applied_seq' = seq_before /\ pool' = out
  /\ dpc' = "loop"
  /\ seq_before' = 0 /\ out' = {}
  /\ UNCHANGED <<reachable, shm, publishers, dseg, rtodo, checker, monitor,
                 counters, history>>

\* The second load: a copy that counts becomes the pool, the first one in
\* RunDataplane, the others in RunControlLoop; another one is thrown away.
CheckSeq ==
  /\ dpc = "copy" /\ rtodo = {}
  /\ IF seq[dseg] = seq_before
     THEN applied_seq' = seq_before /\ pool' = out
     ELSE UNCHANGED <<applied_seq, pool>>
  /\ dpc' = "loop"
  /\ seq_before' = 0 /\ out' = {}
  /\ UNCHANGED <<reachable, shm, publishers, dseg, rtodo, checker, monitor,
                 counters, history>>

DpGone ==
  /\ nend < MaxEnd /\ nend' = nend + 1
  /\ dpc' = "down" /\ dseg' = 0 /\ applied_seq' = NoSeq /\ pool' = {}
  /\ seq_before' = 0 /\ rtodo' = {} /\ out' = {} /\ joined' = FALSE

\* SIGTERM, which RunControlLoop looks at between its rounds: the destructor
\* of ShmProvider removes the name.  Who has mapped the object keeps it.  A
\* round that waits for an even seq is not told from one that has not begun:
\* whether the signal is obeyed then is ControlView!Stops.
DpStop ==
  /\ dpc = "loop" /\ applied_seq # NoSeq
  /\ DpGone /\ linked' = 0
  /\ UNCHANGED <<reachable, header, seq, list, publishers, checker, monitor,
                 nflip, outcomes, damaged>>

\* Killed, SeedControl included: no destructor runs.
DpKill ==
  /\ dpc # "down"
  /\ DpGone /\ Silent(Dp) /\ damaged' = CutOff(Dp)
  /\ UNCHANGED <<reachable, shm, checker, monitor, nflip, outcomes>>

-----------------------------------------------------------------------------
(* The control plane.                                                      *)

\* Mutant of CpStart: states_ is left empty.
CpStartNoStates ==
  /\ cpc = "down"
  /\ cpc' = "up"
  /\ cseg' = IF linked \in header THEN linked ELSE 0
  /\ states' = <<>>
  /\ joined' = (dpc \in {"loop", "copy"})
  /\ UNCHANGED <<reachable, shm, publishers, dataplane, published_enabled,
                 snapshot, todo, counters, outcomes, damaged>>

\* The constructor of MonitorComponent tries once to attach: without an
\* object, or with one whose header is not valid yet, control_ stays null.
\* HealthChecker starts out with nothing known.
CpStart ==
  /\ cpc = "down"
  /\ cpc' = "up"
  /\ cseg' = IF linked \in header THEN linked ELSE 0
  /\ states' = Unprobed
  /\ joined' = (dpc \in {"loop", "copy"})
  /\ UNCHANGED <<reachable, shm, publishers, dataplane, published_enabled,
                 snapshot, todo, counters, outcomes, damaged>>

\* An attached ShmProvider leaves the name alone.
CpGone ==
  /\ nend < MaxEnd /\ nend' = nend + 1
  /\ cpc' = "down" /\ cseg' = 0 /\ published_enabled' = {} /\ joined' = FALSE
  /\ states' = Unprobed /\ snapshot' = Unprobed /\ todo' = {} /\ found' = {}
  /\ UNCHANGED <<reachable, shm, dataplane, nflip, rounds>>

\* The destructor stops the poller first, which waits for its round to end.
CpStop ==
  /\ cpc = "up" /\ wpc[Cp] = "idle"
  /\ CpGone
  /\ UNCHANGED <<publishers, damaged>>

\* Killed, PublishControl included.
CpKill ==
  /\ cpc = "up"
  /\ CpGone /\ Silent(Cp) /\ damaged' = CutOff(Cp)

\* RunLoop copies states_ under the lock.
CheckerCopy ==
  /\ cpc = "up" /\ todo = {}
  /\ snapshot' = states
  /\ todo' = Backends
  /\ UNCHANGED <<reachable, shm, publishers, dataplane, monitor, states, counters,
                 history>>

\* Mutant of Probe: the result is stored at once, without the copy.
ProbeInPlace(b) ==
  LET up == IF b \in reachable THEN found \cup {b} ELSE found
  IN  /\ cpc = "up" /\ b \in todo /\ \A c \in todo : b <= c
      /\ states' = [states EXCEPT ![b] = IF b \in reachable THEN "kUp" ELSE "kDown"]
      /\ todo' = todo \ {b}
      /\ found' = IF todo' = {} THEN {} ELSE up
      /\ rounds' = IF todo' = {} THEN rounds \cup {up} ELSE rounds
      /\ UNCHANGED <<reachable, shm, publishers, dataplane, monitor, snapshot,
                     counters, joined, damaged>>

\* Probe of the next backend, which takes up to kProbeTimeoutSec; when the last
\* one is done the copy replaces states_.
Probe(b) ==
  LET up == IF b \in reachable THEN found \cup {b} ELSE found
  IN  /\ cpc = "up" /\ b \in todo /\ \A c \in todo : b <= c
      /\ snapshot' = [snapshot EXCEPT ![b] = IF b \in reachable THEN "kUp" ELSE "kDown"]
      /\ todo' = todo \ {b}
      /\ states' = IF todo' = {} THEN snapshot' ELSE states
      /\ found' = IF todo' = {} THEN {} ELSE up
      /\ rounds' = IF todo' = {} THEN rounds \cup {up} ELSE rounds
      /\ UNCHANGED <<reachable, shm, publishers, dataplane, monitor, counters,
                     joined, damaged>>

Enabled(st) == {b \in Backends : st[b] = "kUp"}

\* Mutant of PublishControl: only the first list is ever published.
PublishControlOnce ==
  LET enabled == Enabled(states)
  IN  /\ cpc = "up" /\ cseg # 0 /\ wpc[Cp] = "idle"
      /\ published_enabled = {}
      /\ src' = [src EXCEPT ![Cp] = enabled] /\ wpc' = [wpc EXCEPT ![Cp] = "load"]
      /\ UNCHANGED <<reachable, shm, start, left, dataplane, checker, monitor,
                     counters, history>>

\* A round of the poller: MonitorComponent::PublishControl copies the states
\* and calls ipc::PublishControl if the list is not the one it published last.
PublishControl ==
  LET enabled == Enabled(states)
  IN  /\ cpc = "up" /\ cseg # 0 /\ wpc[Cp] = "idle"
      /\ published_enabled # {enabled}
      /\ src' = [src EXCEPT ![Cp] = enabled] /\ wpc' = [wpc EXCEPT ![Cp] = "load"]
      /\ UNCHANGED <<reachable, shm, start, left, dataplane, checker, monitor,
                     counters, history>>

\* A backend goes away or comes back.
Flip(b) ==
  /\ nflip < MaxFlip
  /\ nflip' = nflip + 1
  /\ reachable' = IF b \in reachable THEN reachable \ {b} ELSE reachable \cup {b}
  /\ UNCHANGED <<shm, publishers, dataplane, checker, monitor, nend, history>>

ReadControl == ReadSeq \/ CheckSeq \/ \E b \in Backends : ReadEntry(b)

DpRun == DpCreate \/ DpHeader \/ Publish(Dp) \/ ReadControl
CpRun == CpStart \/ CheckerCopy \/ \E b \in Backends : Probe(b)
Poller == PublishControl \/ Publish(Cp)

Next ==
  \/ DpRun \/ DpStop \/ DpKill
  \/ CpRun \/ Poller \/ CpStop \/ CpKill
  \/ \E b \in Flaky : Flip(b)

Spec == Init /\ [][Next]_vars

\* Both are services that are started again when they end, and their threads
\* keep running: the main thread, the checker's thread and the poller.
FairSpec == Spec /\ WF_vars(DpRun) /\ WF_vars(CpRun) /\ WF_vars(Poller)

-----------------------------------------------------------------------------
TypeOK ==
  /\ reachable \subseteq Backends /\ found \subseteq Backends
  /\ rounds \subseteq SUBSET Backends
  /\ linked \in Segments \cup {0} /\ header \subseteq Segments
  /\ seq \in [Segments -> Nat] /\ list \in [Segments -> SUBSET Backends]
  /\ wpc \in [Writers -> {"idle", "load", "odd", "copy"}]
  /\ start \in [Writers -> Nat] /\ src \in [Writers -> SUBSET Backends]
  /\ left \in [Writers -> SUBSET Backends]
  /\ dpc \in {"down", "created", "seed", "loop", "copy"}
  /\ dseg \in Segments \cup {0}
  /\ seq_before \in Nat /\ rtodo \subseteq Backends /\ out \subseteq Backends
  /\ applied_seq \in Nat /\ pool \subseteq Backends
  /\ cpc \in {"down", "up"} /\ cseg \in Segments \cup {0}
  /\ states \in [Backends -> Status] /\ snapshot \in [Backends -> Status]
  /\ todo \subseteq Backends /\ published_enabled \subseteq SUBSET Backends
  /\ joined \in BOOLEAN /\ damaged \subseteq Segments
  /\ nend \in 0 .. MaxEnd /\ nflip \in 0 .. MaxFlip

\* The workers have a pool, from an object in which no two publications met
\* and none was cut off.
Serving == applied_seq # NoSeq
Sound == Serving /\ dseg \notin damaged

\* The pool is the seed, or nothing (a monitor that has not probed yet), or
\* what a whole round of probes found: a backend is never left out because
\* the checker had not got to it yet or because the control loop read while
\* the list was written, whoever is restarted or killed meanwhile.
HonestPool ==
  Sound => pool \in {Backends, {}} \cup rounds

\* RunControlLoop decides by seq alone whether the list is new.  When it finds
\* the number it applied last, the workers balance over the list in the
\* dataplane's object, after any sequence of restarts on old and new objects.
AppliedIsCurrent ==
  Sound /\ applied_seq = seq[dseg] => pool = list[dseg]

\* The two publishers meet, or one is cut off, only while a dataplane is in
\* SeedControl or when the control plane is killed: whatever else is stopped,
\* killed or started again, a control plane that came after SeedControl has
\* the object to itself.
DamageWindow ==
  [][damaged' # damaged => dpc = "seed" \/ cpc' = "down"]_vars

\* Failures and recoveries that last reach the workers through the checker,
\* the monitor and the control loop, if the control plane was started (for the
\* first or a later time) after SeedControl of the dataplane it works with and
\* the object they share was not damaged before.
HealthReaches ==
  \A b \in Backends :
    /\ <>[](joined /\ dseg \notin damaged /\ b \notin reachable) => <>[](b \notin pool)
    /\ <>[](joined /\ dseg \notin damaged /\ b \in reachable) => <>[](b \in pool)

\* A backend that stays unreachable while both planes stay up and the monitor
\* has a segment ends up outside of the workers' pool, whoever started first.
FailedDisabled ==
  \A b \in Backends :
    <>[](Sound /\ cpc = "up" /\ cseg # 0 /\ b \notin reachable)
      => <>[](b \notin pool)

\* A backend is disabled because it failed its probe.
DisabledMeansFailed == 
  Sound => \A b \in Backends \ pool : \E r \in rounds : b \notin r
=============================================================================
