---------------------------- MODULE DecisionTrace ----------------------------
(***************************************************************************)
(* The 24-hour archive of decision rows (app/decision_trace_store.py) and  *)
(* its downloads (app/routers/api.py).                                     *)
(*                                                                         *)
(* Every cycle of the optimizer leaves a row in a bounded live deque.  A   *)
(* periodic pass captures the deque on the event loop and hands it to a    *)
(* worker thread, which recovers, writes and prunes hourly segments under  *)
(* the store's lock.  Downloads pin segments under that lock and read them *)
(* without it; they and the archive's stop are jobs of the same workers.   *)
(*                                                                         *)
(* Time is in half hours, so that two units make a segment.  The wall      *)
(* clock is t + offset, the monotonic one t.  A row is known by its index  *)
(* in rows, a segment by its hour.  An anchor of the clock is the set of   *)
(* at most one offset it was taken at.                                     *)
(***************************************************************************)
EXTENDS Integers, Sequences, FiniteSets, SequencesExt

CONSTANTS
  Downloads,      \* the download slots (MAX_DOWNLOADS)
  Deque,          \* rows the live deque holds
  Retention,      \* half hours a row is kept
  Unserializable, \* rows that cannot be written
  Jump,           \* how far the wall clock may be ahead
  MaxTime,        \* bound: half hours
  MaxRows,        \* bound: cycles of the optimizer
  Adversity,      \* what may go wrong
  FaultLimit      \* and how often

Faults == {"io", "crash", "reboot", "status", "jump", "unproved"}

ASSUME DecisionTraceAssumption ==
  /\ Downloads # {} /\ {Deque, Retention, Jump, MaxTime, MaxRows} \subseteq Nat \ {0}
  /\ Unserializable \subseteq Nat
  /\ Adversity \subseteq Faults /\ FaultLimit \in Nat

VARIABLES
  t, offset,
  rows,      \* every row of the optimizer: its birth and its timestamp
  first,     \* the first row of this session
  disk,      \* the segments: their rows, how many are durable, whether the tail is torn
  status,    \* the status file: {} or {its clock}
  copied,    \* the rows in preserved clock histories
  observed,  \* self._observed
  committed, \* self._committed, and by segment self._ids
  lengths,   \* self._lengths, in rows
  anchor,    \* self._wall_reference and self._monotonic_reference
  flags,     \* the Boolean attributes of the store that are set
  worker,    \* the pass of the writer: its step, its rows, the segments it has left
  phase,     \* of each download
  pins,      \* the segments each download has open
  faults

durable   == <<rows, disk, status, copied>>
session   == <<first, observed, committed, lengths, anchor>>
world     == <<t, offset>>
traceVars == <<t, offset, rows, first, disk, status, copied, observed, committed,
               lengths, anchor, flags, worker, phase, pins, faults>>

Flags  == {"loaded", "ready", "recovery", "deferred", "uncertain", "attest", "gap",
           "lease", "stopping", "scheduled", "closed"}
Phases == {"idle", "opening", "open", "closing"}
Steps  == {"idle", "queued", "recover", "time", "prove", "select", "write", "prune"}

Idle      == [step |-> "idle", rows |-> {}, left |-> {}, then |-> "idle"]
Flush(rs) == [Idle EXCEPT !.step = "queued", !.rows = rs]

Hour(i)      == rows[i].ts \div 2
Wall         == t + offset
Cutoff(now)  == now - Retention
RowsOf(h)    == ToSet(disk[h].rows)
OnDisk       == UNION {RowsOf(h) : h \in DOMAIN disk}
Durable      == UNION {ToSet(SubSeq(disk[h].rows, 1, disk[h].synced)) : h \in DOMAIN disk}
Live         == {i \in first..Len(rows) : i > Len(rows) - Deque}

\* The members of a set of numbers in their order, and the elements of a
\* sequence at a set of positions, in the order of the sequence.
InOrder(S)    == CHOOSE s \in SetToSeqs(S) : \A m, n \in DOMAIN s : m < n => s[m] < s[n]
Picked(s, at) == [k \in DOMAIN InOrder(at) |-> s[InOrder(at)[k]]]

Active(ph)   == {d \in Downloads : ph[d] # "idle"}
Pinned       == UNION {pins[d] : d \in Downloads}

\* Nothing but a pass of the writer holds the lock for more than a step.
LockFree == worker.step \in {"idle", "queued"}

NoFault     == UNCHANGED faults
Fault(kind) == kind \in Adversity /\ faults < FaultLimit /\ faults' = faults + 1

\* _schedule_stop, once the archive stops and no download is admitted.
ScheduleStop(fl, ph) ==
  IF "stopping" \in fl /\ Active(ph) = {} /\ "closed" \notin fl
  THEN fl \cup {"scheduled"} ELSE fl

\* The clock and its doubts, as the status file keeps them.
Saved(a, fl) == {[anchor |-> a, boot |-> TRUE, doubts |-> fl \cap {"uncertain", "attest"}]}

TraceInit ==
  /\ t = 0 /\ offset = 0 /\ rows = <<>> /\ first = 1
  /\ disk = <<>> /\ status = {} /\ copied = {}
  /\ observed = {} /\ committed = {} /\ lengths = <<>> /\ anchor = {}
  /\ flags = {"recovery"} /\ worker = Flush({})
  /\ phase = [d \in Downloads |-> "idle"] /\ pins = [d \in Downloads |-> {}]
  /\ faults = 0

-----------------------------------------------------------------------------
(* The world: time, the optimizer and the wall clock.  None of them matters *)
(* to a pass that has begun, which reads the clock once.                     *)

Tick ==
  /\ t < MaxTime /\ LockFree /\ t' = t + 1
  /\ UNCHANGED <<offset, durable, session, flags, worker, phase, pins, faults>>

Cycle ==
  /\ Len(rows) < MaxRows /\ LockFree
  /\ rows' = Append(rows, [born |-> t, ts |-> Wall])
  /\ UNCHANGED <<world, disk, status, copied, session, flags, worker, phase, pins, faults>>

\* The first clock the archive sees has nothing to be compared with, so a wrong
\* one is wrong before the first row or after the anchor of another was saved.
ClockMoves ==
  /\ LockFree
  /\ \/ /\ offset = 0 /\ offset' = Jump
        /\ rows = <<>> \/ \E s \in status : s.anchor \notin {{}, {Jump}}
        /\ Fault("jump")
     \/ offset # 0 /\ offset' = 0 /\ NoFault
  /\ UNCHANGED <<t, durable, session, flags, worker, phase, pins>>

-----------------------------------------------------------------------------
(* The periodic pass: capture on the event loop, the rest on a worker.      *)

\* Mutant: the overlap with the last capture is not looked at.
MissedUnconfirmed ==
  \/ observed \ (Live \cup committed) # {}
  \/ observed = {} /\ Cardinality(Live) = Deque

\* Cycles may have left the deque before any pass saw or confirmed them.
Missed ==
  \/ observed \ (Live \cup committed) # {}
  \/ observed # {} /\ Live # {} /\ Max(observed) \notin Live
  \/ observed = {} /\ Cardinality(Live) = Deque

Capture ==
  /\ worker.step = "idle" /\ "stopping" \notin flags
  /\ IF "uncertain" \in flags
     THEN worker' = Flush({}) /\ UNCHANGED <<observed, flags>>
     ELSE /\ flags' = IF Missed THEN flags \cup {"gap"} ELSE flags
          /\ observed' = Live
          /\ worker' = Flush(Live \ committed)
  /\ UNCHANGED <<world, durable, first, committed, lengths, anchor, phase, pins, faults>>

EndPass(fl) == worker' = Idle /\ flags' = ScheduleStop(fl, phase)

\* _recover begins with the status file, once in a session.
Recovering(then) ==
  worker' = [worker EXCEPT !.step = "recover", !.left = DOMAIN disk, !.then = then]

\* What a session makes of the status its predecessor left: its own session
\* is another one, and time stopped on another boot cannot be proved.
Load(fl) ==
  LET archive == DOMAIN disk # {}
      unknown == archive /\ (status = {} \/ \E s \in status : s.anchor = {})
      reboot  == \E s \in status : s.anchor # {} /\ ~ s.boot
      doubts  == (UNION {s.doubts : s \in status})
                 \cup (IF unknown \/ reboot THEN {"uncertain", "attest"} ELSE {})
  IN  fl \cup {"loaded"} \cup doubts
         \cup (IF status # {} \/ archive THEN {"gap"} ELSE {})

\* The persisted clock misses the time another boot was away.
Loaded(s) == IF s.boot \/ s.anchor = {} THEN {s.anchor} ELSE {{a} : a \in -t..Max(s.anchor)}

Begin ==
  /\ worker.step = "queued"
  /\ IF "stopping" \in flags
     THEN EndPass(flags) /\ UNCHANGED <<anchor, status>>
     ELSE IF "recovery" \in flags
     THEN /\ Recovering("time")
          /\ IF "loaded" \in flags
             THEN flags' = (flags \cup {"lease"}) \ {"deferred"} /\ UNCHANGED anchor
             ELSE /\ flags' = Load(flags \cup {"lease"})
                  /\ anchor' \in (IF status = {} THEN {{}}
                                  ELSE UNION {Loaded(s) : s \in status})
          /\ UNCHANGED status
     ELSE /\ worker' = [worker EXCEPT !.step = "time"]
          /\ flags' = flags \cup {"lease"}
          /\ UNCHANGED <<anchor, status>>
  /\ UNCHANGED <<world, rows, disk, copied, first, observed, committed, lengths, phase, pins, faults>>

\* One segment of a recovery.  What cannot be parsed is noted as a gap before
\* it is removed; it is kept while the clock is uncertain.  Every row that is
\* left is made durable before it counts as committed.
Synced(seg)   == [seg EXCEPT !.synced = Len(seg.rows)]
Rewritten(seg, at) == Synced([seg EXCEPT !.rows = Picked(@, at), !.torn = FALSE])
FirstSeen(rs) == {n \in DOMAIN rs : \A m \in 1..(n - 1) : rs[m] # rs[n]}
Intact(seg)   == ~ seg.torn /\ FirstSeen(seg.rows) = DOMAIN seg.rows
Repair(seg)   == Rewritten(seg, FirstSeen(seg.rows))

Recover(h) ==
  /\ worker.step = "recover" /\ h \in worker.left /\ NoFault
  /\ LET keep == Intact(disk[h]) \/ "uncertain" \in flags
     IN  /\ flags' = flags \cup (IF Intact(disk[h]) THEN {}
                                 ELSE {"gap"} \cup (IF keep THEN {"deferred"} ELSE {}))
         /\ keep \/ h \notin Pinned
         /\ disk' = [disk EXCEPT ![h] = IF keep THEN Synced(@) ELSE Repair(@)]
  /\ worker' = [worker EXCEPT !.left = @ \ {h}]
  /\ UNCHANGED <<world, rows, status, copied, session, phase, pins>>

\* A torn segment that a download has open cannot be replaced.
RecoveryPinned ==
  /\ worker.step = "recover" /\ "uncertain" \notin flags
  /\ \E h \in worker.left \cap Pinned : ~ Intact(disk[h])
  /\ EndPass(flags \cup {"recovery", "gap"})
  /\ UNCHANGED <<world, durable, session, phase, pins, faults>>

Recovered ==
  /\ worker.step = "recover" /\ worker.left = {} /\ NoFault
  /\ lengths' = [h \in DOMAIN disk |-> Len(disk[h].rows)]
  /\ committed' = OnDisk
  /\ status' = Saved(anchor, flags)
  /\ flags' = (flags \ {"recovery"}) \cup {"ready"}
  /\ worker' = [worker EXCEPT !.step = worker.then]
  /\ UNCHANGED <<world, rows, disk, copied, first, observed, anchor, phase, pins>>

-----------------------------------------------------------------------------
(* The clock.                                                               *)

\* Mutant: only a clock in doubt is compared.
SaneUnlessDoubted == "attest" \notin flags

\* _checked_time: the wall clock agrees with the anchor and the time since.
Sane ==
  /\ "attest" \notin flags
  /\ anchor = {offset} \/ (anchor = {} /\ "uncertain" \notin flags)

Checked(fl) == IF Sane THEN fl \ {"uncertain"} ELSE fl \cup {"uncertain", "gap"}
Anchored    == IF Sane THEN {offset} ELSE anchor

CheckTime ==
  /\ worker.step = "time" /\ NoFault
  /\ anchor' = Anchored /\ flags' = Checked(flags) \ (IF Sane THEN {"deferred"} ELSE {})
  /\ status' = Saved(anchor', flags')
  /\ IF ~ Sane THEN worker' = [worker EXCEPT !.step = "prove"]
     ELSE IF "deferred" \in flags THEN Recovering("select")
     ELSE worker' = [worker EXCEPT !.step = "select"]
  /\ UNCHANGED <<world, rows, disk, copied, first, observed, committed, lengths, phase, pins>>

\* Two independent sources agree with the wall clock and with each other.
Vouched == offset = 0

\* _try_clock_recovery: two independent sources vouch for the wall clock, and
\* the segments are copied whole before the new clock may expire a row.
Prove ==
  /\ worker.step = "prove" /\ Vouched /\ NoFault
  /\ copied' = copied \cup UNION {RowsOf(h) : h \in DOMAIN lengths}
  /\ anchor' = {offset}
  /\ flags' = flags \ {"uncertain", "attest", "deferred"}
  /\ status' = Saved(anchor', flags')
  /\ Recovering("select")
  /\ UNCHANGED <<world, rows, disk, first, observed, committed, lengths, phase, pins>>

\* A wrong clock is never vouched for; a right one may find no source.
Unproved ==
  /\ worker.step = "prove" /\ EndPass(flags)
  /\ \/ ~ Vouched /\ NoFault
     \/ Vouched /\ Fault("unproved")
  /\ UNCHANGED <<world, durable, session, phase, pins>>

-----------------------------------------------------------------------------
(* Writing and pruning.                                                     *)

\* A row from the future is left out and noted; an expired one is left out.
Select ==
  /\ worker.step = "select"
  /\ LET early == {i \in worker.rows : rows[i].ts > Wall}
         fresh == {i \in worker.rows \ (early \cup committed \cup Unserializable) :
                     rows[i].ts >= Cutoff(Wall)}
     IN  /\ flags' = IF early = {} THEN flags ELSE flags \cup {"gap"}
         /\ worker' = [worker EXCEPT !.step = "write", !.rows = fresh]
  /\ UNCHANGED <<world, durable, session, phase, pins, faults>>

\* The rows of the segment that comes first, in their order.
Batch == {i \in worker.rows : Hour(i) = Hour(Min(worker.rows))}

\* The segment with the first rows of the batch at its end.
Extended(h, n) ==
  LET seg == IF h \in DOMAIN disk THEN disk[h] ELSE [rows |-> <<>>, torn |-> FALSE, synced |-> 0]
  IN  [seg EXCEPT !.rows = @ \o SubSeq(InOrder(Batch), 1, n)]

With(f, h, x) == [g \in DOMAIN f \cup {h} |-> IF g = h THEN x ELSE f[g]]
Without(f, h) == [g \in DOMAIN f \ {h} |-> f[g]]

Write ==
  /\ worker.step = "write" /\ worker.rows # {} /\ "stopping" \notin flags /\ NoFault
  /\ LET h == Hour(Min(worker.rows))
     IN  /\ disk' = With(disk, h, Synced(Extended(h, Cardinality(Batch))))
         /\ lengths' = With(lengths, h, Len(disk'[h].rows))
  /\ committed' = committed \cup Batch
  /\ worker' = [worker EXCEPT !.rows = @ \ Batch]
  /\ UNCHANGED <<world, rows, status, copied, first, observed, anchor, flags, phase, pins>>

\* Mutant: a failed append is simply tried again.
Retrying(fl) == EndPass(fl)

\* An append fails, anywhere between its first byte and its last sync.
Failing(fl) == EndPass(fl \cup {"recovery"})

WriteFails ==
  /\ worker.step = "write" /\ worker.rows # {} /\ Fault("io")
  /\ \E n \in 0..Cardinality(Batch), torn \in BOOLEAN :
       LET h == Hour(Min(worker.rows))
       IN  /\ torn => n < Cardinality(Batch)
           /\ disk' = With(disk, h, [Extended(h, n) EXCEPT !.torn = torn])
  /\ Failing(flags)
  /\ UNCHANGED <<world, rows, status, copied, session, phase, pins>>

Halt ==
  /\ worker.step = "write" /\ worker.rows # {} /\ "stopping" \in flags
  /\ EndPass(flags)
  /\ UNCHANGED <<world, durable, session, phase, pins, faults>>

Written ==
  /\ worker.step = "write" /\ worker.rows = {}
  /\ worker' = [worker EXCEPT !.step = "prune", !.left = DOMAIN lengths]
  /\ UNCHANGED <<world, durable, session, flags, phase, pins, faults>>

\* Mutant: a segment is spared only while it has unexpired rows.
SparedUnexpired(h) == 2 * h >= Cutoff(Wall)

\* A segment that a download has open is left for a later pass.
Spared(h) == h \in Pinned \/ 2 * h >= Cutoff(Wall)

KeptAt(h) == {n \in DOMAIN disk[h].rows : rows[disk[h].rows[n]].ts >= Cutoff(Wall)}
Kept(h)   == {i \in RowsOf(h) : rows[i].ts >= Cutoff(Wall)}

\* The disk with the expired rows of a segment gone, with or without its file.
Expire(h) ==
  IF 2 * h + 2 <= Cutoff(Wall)
  THEN disk' = Without(disk, h)
  ELSE disk' = [disk EXCEPT ![h] = Rewritten(@, KeptAt(h))]

Prune(h) ==
  /\ worker.step = "prune" /\ h \in worker.left /\ "stopping" \notin flags
  /\ worker' = [worker EXCEPT !.left = @ \ {h}]
  /\ \/ /\ Spared(h)
        /\ UNCHANGED <<disk, lengths, committed, flags, faults>>
     \/ /\ ~ Spared(h) /\ h \in DOMAIN disk /\ Expire(h) /\ NoFault
        /\ lengths' = IF h \in DOMAIN disk' THEN [lengths EXCEPT ![h] = Len(disk'[h].rows)]
                      ELSE Without(lengths, h)
        /\ committed' = committed \ (RowsOf(h) \ Kept(h))
        /\ UNCHANGED flags
     \/ /\ ~ Spared(h) /\ h \in DOMAIN disk /\ Fault("io")
        /\ Expire(h) \/ UNCHANGED disk
        /\ flags' = flags \cup {"recovery"}
        /\ UNCHANGED <<lengths, committed>>
  /\ UNCHANGED <<world, rows, status, copied, first, observed, anchor, phase, pins>>

Pruned ==
  /\ worker.step = "prune" /\ (worker.left = {} \/ "stopping" \in flags)
  /\ EndPass(flags)
  /\ UNCHANGED <<world, durable, session, phase, pins, faults>>

\* A read, a copy or the status file fails: the next pass recovers first.
PassFails ==
  /\ worker.step \in {"recover", "time", "prove"} /\ Fault("io")
  /\ Failing(flags)
  /\ UNCHANGED <<world, durable, session, phase, pins>>

-----------------------------------------------------------------------------
(* Downloads: admitted on the event loop, opened and closed by jobs that    *)
(* take the lock, read without it.                                          *)

Reserve(d) ==
  /\ phase[d] = "idle" /\ "ready" \in flags /\ "stopping" \notin flags
  /\ phase' = [phase EXCEPT ![d] = "opening"]
  /\ UNCHANGED <<world, durable, session, flags, worker, pins, faults>>

\* The time a view ends: an unproved wall clock gives way to the anchor.
SafeNow == IF Sane THEN Wall ELSE t + (CHOOSE a \in anchor : TRUE)

View == {h \in DOMAIN lengths : 2 * h + 2 > Cutoff(SafeNow) /\ 2 * h <= SafeNow}

Viewable == (Sane \/ anchor # {}) /\ View \subseteq DOMAIN disk

\* Mutant: a job that opens in vain keeps its reservation.
UnopenedHeld(d, fl) ==
  /\ flags' = ScheduleStop(fl, phase)
  /\ UNCHANGED <<phase, pins>>

Unopened(d, fl) ==
  /\ phase' = [phase EXCEPT ![d] = "idle"]
  /\ flags' = ScheduleStop(fl, phase')
  /\ UNCHANGED pins

\* A job that opens in vain, and one whose client has gone, release what they hold.
Open(d) ==
  /\ phase[d] = "opening" /\ LockFree
  /\ IF "stopping" \in flags
     THEN Unopened(d, flags) /\ NoFault /\ UNCHANGED <<status, anchor>>
     ELSE /\ anchor' = Anchored
          /\ \/ /\ Viewable /\ NoFault /\ status' = Saved(anchor', Checked(flags))
                /\ \E p \in {"open", "closing"} : phase' = [phase EXCEPT ![d] = p]
                /\ pins' = [pins EXCEPT ![d] = View]
                /\ flags' = Checked(flags)
             \/ /\ ~ Viewable /\ NoFault /\ status' = Saved(anchor', Checked(flags))
                /\ Unopened(d, Checked(flags))
             \/ /\ Fault("io") /\ status' \in {status, Saved(anchor', Checked(flags))}
                /\ Unopened(d, Checked(flags))
  /\ UNCHANGED <<world, rows, disk, copied, first, observed, committed, lengths, worker>>

\* The stream is read to its end, fails, or loses its client or its time.
FinishDownload(d) ==
  /\ phase[d] = "open"
  /\ phase' = [phase EXCEPT ![d] = "closing"]
  /\ UNCHANGED <<world, durable, session, flags, worker, pins, faults>>

\* Mutant: the pins outlive the view.
CloseUnpinned(d) ==
  /\ phase[d] = "closing" /\ LockFree
  /\ phase' = [phase EXCEPT ![d] = "idle"]
  /\ flags' = ScheduleStop(flags, phase')
  /\ UNCHANGED <<world, durable, session, worker, pins, faults>>

CloseDownload(d) ==
  /\ phase[d] = "closing" /\ LockFree
  /\ pins' = [pins EXCEPT ![d] = {}]
  /\ phase' = [phase EXCEPT ![d] = "idle"]
  /\ flags' = ScheduleStop(flags, phase')
  /\ UNCHANGED <<world, durable, session, worker, faults>>

-----------------------------------------------------------------------------
(* The end of a session.                                                    *)

Stop ==
  /\ "stopping" \notin flags
  /\ flags' = ScheduleStop(flags \cup {"stopping"}, phase)
  /\ UNCHANGED <<world, durable, session, worker, phase, pins, faults>>

FinishStop ==
  /\ "scheduled" \in flags /\ "closed" \notin flags /\ LockFree
  /\ flags' = (flags \ {"lease"}) \cup {"closed"}
  /\ UNCHANGED <<world, durable, session, worker, phase, pins, faults>>

\* What a crash may leave of a segment: its durable rows, a part of the others.
Survivors(seg) ==
  {[rows |-> SubSeq(seg.rows, 1, n), torn |-> torn, synced |-> n] :
     n \in seg.synced..Len(seg.rows), torn \in BOOLEAN}
  \ {[seg EXCEPT !.synced = Len(seg.rows), !.torn = TRUE] :
       x \in IF seg.torn THEN {} ELSE {TRUE}}

\* The process dies and another takes over: on the same boot, on another, or
\* without the status file.
Crash ==
  /\ \/ status' = status /\ Fault("crash")
     \/ status' = {[s EXCEPT !.boot = FALSE] : s \in status} /\ Fault("reboot")
     \/ status # {} /\ status' = {} /\ Fault("status")
  /\ disk' \in {f \in [DOMAIN disk -> UNION {Survivors(disk[h]) : h \in DOMAIN disk}] :
                  \A h \in DOMAIN disk : f[h] \in Survivors(disk[h])}
  /\ first' = Len(rows) + 1
  /\ observed' = {} /\ committed' = {} /\ lengths' = <<>> /\ anchor' = {}
  /\ flags' = {"recovery"} /\ worker' = Flush({})
  /\ phase' = [d \in Downloads |-> "idle"] /\ pins' = [d \in Downloads |-> {}]
  /\ UNCHANGED <<world, rows, copied>>

Writer ==
  \/ Begin \/ Recovered \/ RecoveryPinned \/ CheckTime \/ Prove \/ Unproved
  \/ Select \/ Write \/ Halt \/ Written \/ Pruned
  \/ \E h \in DOMAIN disk : Recover(h)
  \/ \E h \in DOMAIN lengths : Prune(h)

TraceNext ==
  \/ Tick \/ Cycle \/ ClockMoves \/ Capture
  \/ Writer \/ WriteFails \/ PassFails
  \/ \E d \in Downloads : Reserve(d) \/ Open(d) \/ FinishDownload(d) \/ CloseDownload(d)
  \/ Stop \/ FinishStop \/ Crash

TraceSpec == TraceInit /\ [][TraceNext]_traceVars

\* The workers run their jobs, and deadlines end every download.
TraceFairness ==
  /\ WF_traceVars(Writer)
  /\ \A d \in Downloads : WF_traceVars(Open(d)) /\ WF_traceVars(FinishDownload(d)) /\ WF_traceVars(CloseDownload(d))
  /\ WF_traceVars(FinishStop)

FairTraceSpec == TraceSpec /\ TraceFairness

-----------------------------------------------------------------------------
Segment == [rows : Seq(1..MaxRows), torn : BOOLEAN, synced : 0..MaxRows]
Anchors == {{}} \cup {{a} : a \in -MaxTime..Jump}

\* The shape of the state: the index lists segments, a download pins segments
\* only while it has them open, and the lease is held once a pass has begun.
TraceTypeOK ==
  /\ t \in 0..MaxTime /\ offset \in {0, Jump}
  /\ rows \in Seq([born : 0..MaxTime, ts : 0..(MaxTime + Jump)])
  /\ Len(rows) <= MaxRows /\ first \in 1..(MaxRows + 1)
  /\ \A h \in DOMAIN disk : disk[h] \in Segment /\ disk[h].synced <= Len(disk[h].rows)
  /\ DOMAIN disk \cup DOMAIN lengths \subseteq 0..(MaxTime + Jump)
  /\ \A h \in DOMAIN lengths : lengths[h] \in 0..MaxRows
  /\ observed \cup committed \cup copied \subseteq DOMAIN rows
  /\ anchor \in Anchors /\ Cardinality(status) <= 1
  /\ \A s \in status : s.anchor \in Anchors /\ s.doubts \subseteq {"uncertain", "attest"}
  /\ flags \subseteq Flags /\ ("attest" \in flags => "uncertain" \in flags)
  /\ worker.step \in Steps /\ (LockFree \/ "lease" \in flags)
  /\ phase \in [Downloads -> Phases]
  /\ \A d \in Downloads : pins[d] = {} \/ phase[d] \in {"open", "closing"}
  /\ faults \in 0..FaultLimit

\* What the archive has acknowledged or made durable stays durable, once, until
\* it is older than the retention in true time or a copy of it is preserved:
\* through failed appends, crashes, wrong clocks and pruning.
KeptOnce ==
  [][/\ \A i \in committed \cup Durable :
          i \in Durable' \/ i \in copied \/ t - rows[i].born > Retention
     /\ \A h \in DOMAIN disk' : Cardinality(ToSet(disk'[h].rows)) = Len(disk'[h].rows)]_traceVars

\* While a download has a segment open its bytes only grow, and the archive
\* stays ours, even after the stop of the program.
ViewsStable ==
  [][/\ \A h \in Pinned \cap Pinned' : h \in DOMAIN disk' /\ IsPrefix(disk[h].rows, disk'[h].rows)
     /\ Pinned' # {} => "lease" \in flags']_traceVars

\* What a download that says "no possible gaps" shows is one session without a
\* hole: a row missing before a later one has expired, or cannot be written
\* and may yet be in the deque.
Shown(hs) == UNION {{disk[h].rows[n] : n \in (1..lengths[h]) \cap DOMAIN disk[h].rows} : h \in hs}
Whole(seen, cutoff) ==
  /\ seen \subseteq first..Len(rows)
  /\ \A i \in first..Len(rows) : \A k \in seen :
       i < k /\ rows[i].ts >= cutoff => i \in seen \/ i \in Unserializable \cap observed
GapsTold ==
  [][\A d \in Downloads :
       phase[d] # "open" /\ phase'[d] = "open" /\ "gap" \notin flags'
         => Whole(Shown(pins'[d]), Cutoff(SafeNow))]_traceVars

\* A stop is carried through whatever the downloads and the writer are doing.
Stops == "stopping" \in flags ~> "closed" \in flags \/ "stopping" \notin flags
=============================================================================
