---------------------------- MODULE ControlView ----------------------------
(***************************************************************************)
(* The control segment (ipc::ControlView), a sequence lock in memory that  *)
(* two processes share.  Both publish into it with PublishControl: the     *)
(* dataplane's main thread when it starts (SeedControl) and the control    *)
(* plane's monitor from then on.  The dataplane's main thread reads it     *)
(* with ReadControl, first while it starts and then in RunControlLoop, and *)
(* stores the backend pool it builds for the workers.                      *)
(*                                                                         *)
(* The fields of an entry are not atomic: a ControlBackend is copied in    *)
(* Parts, and because nothing between the fences orders the copies, each   *)
(* step copies any part that is left.  Nothing in the code makes the two   *)
(* publishers exclude each other, and either process may be killed; the    *)
(* history variable clean says that neither has hurt a publication so far. *)
(***************************************************************************)
EXTENDS Naturals, Sequences

CONSTANTS MaxBackends, \* kMaxBackends
          Parts,       \* the words a ControlBackend is copied in
          Words,       \* the contents of a word; the segment starts zeroed
          ZeroWord,
          Sources,     \* what the callers pass: n entries, and their words
          EarlyAttach, \* the monitor may attach before SeedControl is done
          MaxPublish,  \* bound on the publications of the monitor
          MaxCrash     \* bound on the kills of either process

\* The words of the first n entries, and an entry array of the segment.
Addr(n) == (1 .. n) \X Parts
Cells == [Addr(MaxBackends) -> Words]

ASSUME ViewAssumption ==
  /\ MaxBackends \in Nat /\ MaxPublish \in Nat /\ MaxCrash \in Nat
  /\ ZeroWord \in Words
  /\ Sources \subseteq [n : Nat, w : Cells]
  /\ EarlyAttach \in BOOLEAN

Dp == "dataplane"
Cp == "controlplane"
Writers == {Dp, Cp}

VARIABLES seq, count, cells,  \* ControlView::seq, count, backends
          wpc, start, src, todo, \* of each publisher: PublishControl
          attached,           \* the monitor has mapped the segment
          rpc, running,       \* the dataplane's main thread, g_running
          seq_before, rcount, rtodo, out, \* ReadControl
          applied_seq, pool,  \* RunControlLoop, AtomicRcu<BackendPool>
          published,          \* history: the completed publications
          clean,              \* history: publications did not overlap, and
                              \* none was cut off by a kill
          npub, ncrash        \* bounded counters

shared == <<seq, count, cells>>
writer == <<wpc, start, src, todo, attached>>
reader == <<rpc, seq_before, rcount, rtodo, out, applied_seq, pool>>
history == <<published, clean, npub, ncrash>>
vars == <<seq, count, cells, wpc, start, src, todo, attached, rpc, running,
          seq_before, rcount, rtodo, out, applied_seq, pool,
          published, clean, npub, ncrash>>

Lesser(a, b) == IF a < b THEN a ELSE b

\* The first n entries of an array, which is all a reader looks at.
View(n, w) == [a \in Addr(n) |-> w[a]]
Views == UNION {[Addr(n) -> Words] : n \in 0 .. MaxBackends}

\* The main thread has not stored a pool yet; ReadControl never returns an
\* odd number.
NoSeq == 1
ZeroCells == [a \in Addr(MaxBackends) |-> ZeroWord]
NoSource == [n |-> 0, w |-> ZeroCells]

\* The dataplane has created the segment, which ftruncate filled with zeros,
\* and written its header; SeedControl is about to run.
Init ==
  /\ seq = 0 /\ count = 0 /\ cells = ZeroCells
  /\ wpc = [p \in Writers |-> "idle"]
  /\ start = [p \in Writers |-> 0]
  /\ src = [p \in Writers |-> NoSource]
  /\ todo = [p \in Writers |-> {}]
  /\ attached = FALSE
  /\ rpc = "seed" /\ running = TRUE
  /\ seq_before = 0 /\ rcount = 0 /\ rtodo = {} /\ out = ZeroCells
  /\ applied_seq = NoSeq /\ pool = <<>>
  /\ published = <<>> /\ clean = TRUE /\ npub = 0 /\ ncrash = 0

-----------------------------------------------------------------------------
(* PublishControl, by either publisher.                                    *)

\* The dataplane publishes once, before it reads; the monitor whenever its
\* poller runs.
MayPublish(p) ==
  \/ p = Dp /\ rpc = "seed"
  \/ p = Cp /\ attached /\ npub < MaxPublish

LoadSeq(p) ==
  /\ wpc[p] = "idle" /\ MayPublish(p)
  /\ \E s \in Sources : src' = [src EXCEPT ![p] = s]
  /\ start' = [start EXCEPT ![p] = seq]
  /\ npub' = IF p = Cp THEN npub + 1 ELSE npub
  /\ clean' = (clean /\ \A q \in Writers : wpc[q] = "idle")
  /\ wpc' = [wpc EXCEPT ![p] = "odd"]
  /\ UNCHANGED <<shared, todo, attached, running, reader, published, ncrash>>

\* Mutant of StoreOdd: the first store of seq is left out.
StoreOddSkipped(p) ==
  /\ wpc[p] = "odd"
  /\ wpc' = [wpc EXCEPT ![p] = "count"]
  /\ UNCHANGED <<shared, start, src, todo, attached, running, reader, history>>

StoreOdd(p) ==
  /\ wpc[p] = "odd"
  /\ seq' = start[p] + 1
  /\ wpc' = [wpc EXCEPT ![p] = "count"]
  /\ UNCHANGED <<count, cells, start, src, todo, attached, running, reader,
                 history>>

\* Mutant of StoreCount: the count is not limited to kMaxBackends.
StoreCountUnclamped(p) ==
  /\ wpc[p] = "count"
  /\ count' = src[p].n
  /\ todo' = [todo EXCEPT ![p] = Addr(count')]
  /\ wpc' = [wpc EXCEPT ![p] = "copy"]
  /\ UNCHANGED <<seq, cells, start, src, attached, running, reader, history>>

StoreCount(p) ==
  /\ wpc[p] = "count"
  /\ count' = Lesser(src[p].n, MaxBackends)
  /\ todo' = [todo EXCEPT ![p] = Addr(count')]
  /\ wpc' = [wpc EXCEPT ![p] = "copy"]
  /\ UNCHANGED <<seq, cells, start, src, attached, running, reader, history>>

StoreWord(p) ==
  /\ wpc[p] = "copy"
  /\ \E a \in todo[p] : /\ cells' = [cells EXCEPT ![a] = src[p].w[a]]
                        /\ todo' = [todo EXCEPT ![p] = @ \ {a}]
  /\ UNCHANGED <<seq, count, wpc, start, src, attached, running, reader,
                 history>>

\* Mutant of StoreEven: the second store repeats the first.
StoreEvenStuck(p) ==
  /\ wpc[p] = "copy" /\ todo[p] = {}
  /\ seq' = start[p] + 1
  /\ published' = Append(published, View(Lesser(src[p].n, MaxBackends), src[p].w))
  /\ wpc' = [wpc EXCEPT ![p] = "idle"]
  /\ rpc' = IF p = Dp THEN "load" ELSE rpc
  /\ UNCHANGED <<count, cells, start, src, todo, attached, running, seq_before,
                 rcount, rtodo, out, applied_seq, pool, clean, npub, ncrash>>

\* The last store ends the publication; the main thread goes on to read.
StoreEven(p) ==
  /\ wpc[p] = "copy" /\ todo[p] = {}
  /\ seq' = start[p] + 2
  /\ published' = Append(published, View(Lesser(src[p].n, MaxBackends), src[p].w))
  /\ wpc' = [wpc EXCEPT ![p] = "idle"]
  /\ rpc' = IF p = Dp THEN "load" ELSE rpc
  /\ UNCHANGED <<count, cells, start, src, todo, attached, running, seq_before,
                 rcount, rtodo, out, applied_seq, pool, clean, npub, ncrash>>

\* MonitorComponent maps the segment.  The header it checks is written when
\* the segment is created, before SeedControl runs.
Attach ==
  /\ ~attached
  /\ EarlyAttach \/ rpc # "seed"
  /\ attached' = TRUE
  /\ UNCHANGED <<shared, wpc, start, src, todo, running, reader, history>>

Publish(p) ==
  LoadSeq(p) \/ StoreOdd(p) \/ StoreCount(p) \/ StoreWord(p) \/ StoreEven(p)

-----------------------------------------------------------------------------
(* ReadControl and RunControlLoop, in the dataplane's main thread.         *)

\* While seq is odd the thread spins here, and does not look at g_running.
ReadSeq ==
  /\ rpc = "load" /\ seq % 2 = 0
  /\ seq_before' = seq
  /\ rpc' = "count"
  /\ UNCHANGED <<shared, writer, running, rcount, rtodo, out, applied_seq, pool,
                 history>>

ReadCount ==
  /\ rpc = "count"
  /\ rcount' = Lesser(count, MaxBackends)
  /\ rtodo' = Addr(rcount')
  /\ rpc' = "copy"
  /\ UNCHANGED <<shared, writer, running, seq_before, out, applied_seq, pool,
                 history>>

ReadWord ==
  /\ rpc = "copy"
  /\ \E a \in rtodo : /\ out' = [out EXCEPT ![a] = cells[a]]
                      /\ rtodo' = rtodo \ {a}
  /\ UNCHANGED <<shared, writer, rpc, running, seq_before, rcount, applied_seq,
                 pool, history>>

\* Mutant of CheckSeq: the copy is accepted without the second load.
CheckSeqSkipped ==
  /\ rpc = "copy" /\ rtodo = {}
  /\ rpc' = "apply"
  /\ UNCHANGED <<shared, writer, running, seq_before, rcount, rtodo, out,
                 applied_seq, pool, history>>

\* The copy counts only when seq is what it was; otherwise it starts again.
CheckSeq ==
  /\ rpc = "copy" /\ rtodo = {}
  /\ rpc' = IF seq = seq_before THEN "apply" ELSE "load"
  /\ UNCHANGED <<shared, writer, running, seq_before, rcount, rtodo, out,
                 applied_seq, pool, history>>

\* Mutant of Apply: a pool is built only once.
ApplyOnce ==
  /\ rpc = "apply"
  /\ applied_seq' = IF applied_seq = NoSeq THEN seq_before ELSE applied_seq
  /\ pool' = IF applied_seq = NoSeq THEN View(rcount, out) ELSE pool
  /\ rpc' = "head"
  /\ UNCHANGED <<shared, writer, running, seq_before, rcount, rtodo, out, history>>

\* A new pool is stored when the snapshot is another one than last time.
Apply ==
  /\ rpc = "apply"
  /\ pool' = IF applied_seq = seq_before THEN pool ELSE View(rcount, out)
  /\ applied_seq' = seq_before
  /\ rpc' = "head"
  /\ UNCHANGED <<shared, writer, running, seq_before, rcount, rtodo, out, history>>

\* Mutant of LoopHead: the loop does not look at g_running.
LoopHeadBlind ==
  /\ rpc = "head"
  /\ rpc' = "load"
  /\ UNCHANGED <<shared, writer, running, seq_before, rcount, rtodo, out,
                 applied_seq, pool, history>>

\* The sleep of the loop, and its condition.
LoopHead ==
  /\ rpc = "head"
  /\ rpc' = IF running THEN "load" ELSE "done"
  /\ UNCHANGED <<shared, writer, running, seq_before, rcount, rtodo, out,
                 applied_seq, pool, history>>

\* SIGINT or SIGTERM.
OnSignal ==
  /\ running
  /\ running' = FALSE
  /\ UNCHANGED <<shared, writer, reader, history>>

MainThread == ReadSeq \/ ReadCount \/ ReadWord \/ CheckSeq \/ Apply \/ LoopHead

-----------------------------------------------------------------------------
(* A process is killed wherever it is; the segment stays.                  *)

\* The control plane is started anew and attaches again.
KillControlplane ==
  /\ ncrash < MaxCrash /\ attached
  /\ attached' = FALSE
  /\ clean' = (clean /\ wpc[Cp] = "idle")
  /\ wpc' = [wpc EXCEPT ![Cp] = "idle"]
  /\ ncrash' = ncrash + 1
  /\ UNCHANGED <<shared, start, src, todo, running, reader, published, npub>>

\* The dataplane is started anew.  It opens the existing segment, without
\* clearing it, and seeds it again.
KillDataplane ==
  /\ ncrash < MaxCrash /\ rpc # "done"
  /\ clean' = (clean /\ wpc[Dp] = "idle")
  /\ wpc' = [wpc EXCEPT ![Dp] = "idle"]
  /\ rpc' = "seed" /\ running' = TRUE
  /\ applied_seq' = NoSeq /\ pool' = <<>>
  /\ ncrash' = ncrash + 1
  /\ UNCHANGED <<shared, start, src, todo, attached, seq_before, rcount, rtodo,
                 out, published, npub>>

Next ==
  \/ \E p \in Writers : Publish(p)
  \/ Attach
  \/ MainThread
  \/ OnSignal
  \/ KillControlplane
  \/ KillDataplane

Spec == Init /\ [][Next]_vars

\* Both threads keep running: the main thread, and a publisher that is in
\* PublishControl.  When the monitor publishes again is left open.
FairSpec ==
  /\ Spec
  /\ WF_vars(MainThread)
  /\ WF_vars(Publish(Dp))
  /\ WF_vars(Publish(Cp) /\ wpc[Cp] # "idle")

-----------------------------------------------------------------------------
TypeOK ==
  /\ seq \in Nat /\ count \in 0 .. MaxBackends /\ cells \in Cells
  /\ wpc \in [Writers -> {"idle", "odd", "count", "copy"}]
  /\ start \in [Writers -> Nat]
  /\ src \in [Writers -> [n : Nat, w : Cells]]
  /\ todo \in [Writers -> SUBSET Addr(MaxBackends)]
  /\ attached \in BOOLEAN /\ running \in BOOLEAN
  /\ rpc \in {"seed", "load", "count", "copy", "apply", "head", "done"}
  /\ seq_before \in Nat /\ rcount \in 0 .. MaxBackends
  /\ rtodo \in SUBSET Addr(MaxBackends) /\ out \in Cells
  /\ applied_seq \in Nat
  /\ pool \in Views /\ published \in Seq(Views)
  /\ clean \in BOOLEAN /\ npub \in Nat /\ ncrash \in Nat

\* The pool the workers balance over is a list somebody published, as a
\* whole: RunControlLoop never builds one from a copy that PublishControl
\* was changing.
PoolPublished ==
  applied_seq # NoSeq => \E k \in 1 .. Len(published) : pool = published[k]

\* ReadControl and PublishControl guarantee it, in whatever order the words
\* are copied on both sides and with kills and restarts in between, while
\* publications do not overlap and none is cut off.
NoTornPool == clean => PoolPublished

\* ReadControl returns: the thread does not spin for ever.
ReadReturns == rpc = "load" ~> rpc \in {"head", "seed"}

\* The same while no publication was cut off or overlapped.
CleanReadReturns == rpc = "load" ~> rpc \in {"head", "seed"} \/ ~clean

\* A dataplane that was told to stop leaves RunControlLoop.
Stops == ~running ~> rpc = "done" \/ running \/ ~clean

\* The workers end up with the list that was published last, whoever was
\* restarted meanwhile: no publication is lost between the processes.
Converges ==
  <>[](\/ ~running \/ ~clean
       \/ published # <<>> /\ pool = published[Len(published)])

-----------------------------------------------------------------------------
\* As long as the publishers exclude each other and nobody is killed, the
\* segment is an atomic register: a publication takes effect when seq becomes
\* even, a read when its second load of seq succeeds.
Fetched == IF rpc = "apply" THEN seq_before \div 2
           ELSE IF applied_seq = NoSeq THEN 0 ELSE applied_seq \div 2
Register == INSTANCE ControlRegister WITH fetched <- Fetched
RegisterSpec == Register!Spec
=============================================================================
