---------------------------- MODULE ImportLedger ----------------------------
(***************************************************************************)
(* The import-cost ledger of app/import_topup_ledger.py between the tick,  *)
(* which measures grid import and learns which permission was applied, and *)
(* the database, which the storage worker updates for it.  Whether today's *)
(* import history is complete decides which prices the optimizer may trust.*)
(*                                                                         *)
(* The ledger runs on the event loop and only hands immutable events to    *)
(* the worker, which may fail before or after a commit.  Memory is lost    *)
(* with the process.  An interval is the time between two measurements;    *)
(* its energy is whether the meter shows any.  A daily meter that went     *)
(* backwards counts as unavailable.                                        *)
(***************************************************************************)
EXTENDS Naturals, Sequences, FiniteSets

CONSTANTS
  LastDay,   \* bound: days 1..LastDay
  MaxEvents, \* bound: events of one session
  Sessions,  \* bound: processes, one after another
  Limit,     \* pending_limit
  Batch,     \* events of one reconciliation
  Adversity, \* what may go wrong
  FaultLimit \* and how often

Faults == {"gap", "meter", "unobserved", "capture", "unconfirmed", "operator",
           "cancel", "refused", "database", "crash"}

ASSUME ImportLedgerAssumption ==
  /\ LastDay \in Nat \ {0} /\ MaxEvents \in Nat /\ Sessions \in Nat
  /\ Limit \in Nat \ {0} /\ Batch \in Nat \ {0}
  /\ Adversity \subseteq Faults /\ FaultLimit \in Nat

VARIABLES
  today,      \* external: the local date
  open,       \* external: the inverter imports
  flowed,     \* external: the days of import since the last measurement
  source,     \* the configured measurement source
  session, seq, last, applied, tail,  \* of the ledger, as in the code
  pending,    \* _pending
  unknown,    \* _unknown_days
  queued,     \* those of the last event queued: _queued_unknown_revision
  loaded,     \* _checkpoint_loaded
  cache,      \* _summary_cache
  phase,      \* of the tick: idle, reconciling or applying its decision
  job,        \* _ledger_job
  rows, counted, coverage, checkpoint, \* the database
  due,        \* history: measured intervals with energy, per day
  blind,      \* history: days with energy nobody measured in time
  unproven,   \* history: days entered with an open or unproven permission
  faults

world  == <<today, open, flowed, source>>
memory == <<session, seq, last, applied, tail, pending, unknown, queued, loaded>>
store  == <<rows, counted, coverage, checkpoint>>
ghost  == <<due, blind, unproven>>
vars   == <<world, memory, cache, phase, job, store, ghost, faults>>

Days == 1..LastDay
Sources == {1, 2}

NoSample == [day |-> 0, active |-> FALSE, known |-> FALSE, meter |-> FALSE, source |-> 0]
NoCache  == [day |-> 0, source |-> 0, complete |-> FALSE, sum |-> 0]
NoJob == [stage |-> "none", todo |-> <<>>, acked |-> <<>>, read |-> FALSE, previous |-> 0,
          fresh |-> FALSE, day |-> 0, source |-> 0, complete |-> FALSE, sum |-> 0]
NoCheckpoint == [session |-> 0, seq |-> 0, day |-> 0]

Fault(kind) == kind \in Adversity /\ faults < FaultLimit /\ faults' = faults + 1
NoFault == UNCHANGED faults

-----------------------------------------------------------------------------
(* Memory                                                                  *)

\* begin_capture: a summary computed before no longer describes the ledger.
BeginCapture == cache' = NoCache /\ job' = [job EXCEPT !.fresh = FALSE]

\* _mark_unknown; a new mark retires the summary too.
MarkUnknown(days) ==
  /\ unknown' = unknown \cup days
  /\ IF days \subseteq unknown THEN UNCHANGED <<cache, job>> ELSE BeginCapture

LastDays == IF last = NoSample THEN {} ELSE {last.day}

\* _check_source
SourceMarks == IF last # NoSample /\ last.source # source THEN {today, last.day} ELSE {}

Event(day, energy, complete, marks) ==
  [session |-> session, seq |-> seq + 1, day |-> day, energy |-> energy,
   unknown |-> unknown \cup marks, complete |-> complete]

\* Mutant: the queue is not bounded.
QueueUnbounded(e) ==
  seq' = e.seq /\ pending' = Append(pending, e) /\ unknown' = e.unknown /\ queued' = e.unknown

\* _persist_interval: a full queue loses the event, and its day is unknown.
Queue(e) ==
  /\ seq' = e.seq
  /\ IF Len(pending) < Limit
       THEN pending' = Append(pending, e) /\ unknown' = e.unknown /\ queued' = e.unknown
       ELSE unknown' = e.unknown \cup {e.day, today} /\ UNCHANGED <<pending, queued>>

-----------------------------------------------------------------------------
(* The tick                                                                *)

\* Mutant: the ledger trusts a new day after any known permission.
BoundaryAfterKnown(active, gap, meter) ==
  /\ last # NoSample /\ last.source = source /\ last.day # today /\ ~gap
  /\ last.known /\ meter

\* A new day is covered from midnight on if nothing was or is imported.
Boundary(active, gap, meter) ==
  /\ last # NoSample /\ last.source = source /\ last.day # today /\ ~gap
  /\ last.known /\ ~last.active /\ ~active /\ meter

SameDay == last.day = today /\ last.source = source

RecordMarks(active, gap, meter) ==
  SourceMarks
  \cup (IF last = NoSample \/ ~last.known \/ ~meter \/ (SameDay /\ ~last.meter)
          THEN {today} ELSE {})
  \cup (IF last # NoSample /\ (gap \/ ~(SameDay \/ Boundary(active, gap, meter)))
          THEN {today, last.day} ELSE {})

\* record, before the decision: the interval is measured under the permission
\* that was applied before, or observed now.
Record(gap, meter, seen) ==
  LET active == applied \/ tail \/ (open /\ seen)
      measured == active \/ last.active
      energy == measured /\ SameDay /\ meter /\ last.meter /\ today \in flowed
      marks == RecordMarks(active, gap, meter)
      complete == IF Boundary(active, gap, meter) THEN {today} ELSE {}
  IN /\ phase = "idle" /\ seq < MaxEvents
     /\ \/ ~gap /\ meter /\ seen /\ NoFault
        \/ gap /\ meter /\ seen /\ Fault("gap")
        \/ ~gap /\ ~meter /\ seen /\ Fault("meter")
        \/ ~gap /\ meter /\ ~seen /\ Fault("unobserved")
     /\ phase' = "reconciling"
     /\ BeginCapture
     /\ last' = [day |-> today, active |-> IF tail THEN applied ELSE active,
                 known |-> last.known, meter |-> meter, source |-> source]
     /\ applied' = IF tail THEN applied ELSE active
     /\ tail' = FALSE
     /\ IF measured \/ ~SameDay \/ unknown \cup marks # queued
          THEN Queue(Event(today, energy, complete, marks))
          ELSE UNCHANGED <<seq, pending, unknown, queued>>
     /\ due' = IF energy THEN [due EXCEPT ![today] = @ + 1] ELSE due
     /\ blind' = IF energy /\ ~gap THEN blind ELSE blind \cup flowed
     /\ flowed' = IF open THEN {today} ELSE {}
     /\ UNCHANGED <<today, open, source, session, loaded, store, unproven>>

\* The capture raises before it has a sample.
CaptureFails ==
  /\ phase = "idle" /\ Fault("capture")
  /\ phase' = "reconciling"
  /\ unknown' = unknown \cup {today} \cup LastDays
  /\ BeginCapture
  /\ UNCHANGED <<world, session, seq, last, applied, tail, pending, queued, loaded,
                 store, ghost>>

Import(target) ==
  /\ open' = target
  /\ flowed' = IF target THEN flowed \cup {today} ELSE flowed
  /\ UNCHANGED <<today, source>>

\* A completed application: set_permission with what it applied.
Confirm(target) ==
  /\ phase = "applying" /\ phase' = "idle" /\ seq < MaxEvents
  /\ Import(target)
  /\ BeginCapture
  /\ IF last = NoSample
       THEN /\ unknown' = unknown \cup {today}
            /\ UNCHANGED <<seq, last, applied, tail, pending, queued>>
     ELSE IF last.active = target /\ last.known /\ unknown \cup SourceMarks = queued
       THEN UNCHANGED <<seq, last, applied, tail, pending, unknown, queued>>
     ELSE /\ tail' = (tail \/ (applied /\ ~target))
          /\ applied' = target
          /\ last' = [last EXCEPT !.active = target, !.known = TRUE]
          /\ Queue(Event(last.day, FALSE, {}, SourceMarks))
  /\ UNCHANGED <<session, loaded, store, ghost, faults>>

\* invalidate, with the permission unknown.
Invalidate ==
  /\ last' = [last EXCEPT !.known = FALSE]
  /\ unknown' = unknown \cup {today} \cup LastDays
  /\ BeginCapture
  /\ UNCHANGED <<session, seq, applied, tail, pending, queued, loaded>>

\* A failed, pending or cancelled application may have changed the permission.
Unconfirmed(target) ==
  /\ phase = "applying" /\ phase' = "idle" /\ Fault("unconfirmed")
  /\ Import(target)
  /\ Invalidate
  /\ UNCHANGED <<store, ghost>>

\* A tick that fails, or is cancelled, before it applies anything.
Abort ==
  /\ \/ phase = "applying" /\ NoFault
     \/ phase = "reconciling" /\ Fault("cancel")
  /\ phase' = "idle"
  /\ UNCHANGED <<world, memory, cache, job, store, ghost>>

\* invalidate_import_accounting: the operator selects a manual mode, which may
\* change the permission at once, or other measurements.
Operate(target, other) ==
  /\ phase = "idle" /\ Fault("operator")
  /\ open' = target /\ source' = other
  /\ flowed' = IF target THEN flowed \cup {today} ELSE flowed
  /\ Invalidate
  /\ UNCHANGED <<today, phase, store, ghost>>

\* summary: deciding reads it and may find that the last measurement is too old.
Look(gap) ==
  /\ phase = "applying"
  /\ IF gap THEN Fault("gap") ELSE NoFault
  /\ MarkUnknown(SourceMarks \cup (IF last = NoSample THEN {today} ELSE {})
                 \cup (IF gap THEN {today} \cup LastDays ELSE {}))
  /\ UNCHANGED <<world, session, seq, last, applied, tail, pending, queued, loaded,
                 phase, store, ghost>>

-----------------------------------------------------------------------------
(* Reconciliation with the database                                        *)

\* reconciliation_snapshot
Snapshot ==
  [NoJob EXCEPT !.stage = IF loaded THEN "commit" ELSE "read",
     !.todo = SubSeq(pending, 1, IF Len(pending) < Batch THEN Len(pending) ELSE Batch),
     !.read = loaded, !.fresh = TRUE, !.day = today, !.source = source]

\* _reconcile_import_storage: the tick hands over a snapshot, unless one is still
\* outstanding or the worker refuses it, and waits a little for the answer.
Reconcile ==
  /\ phase = "reconciling" /\ phase' = "applying"
  /\ \/ job.stage = "none" /\ job' = Snapshot /\ NoFault
     \/ job.stage = "none" /\ UNCHANGED job /\ Fault("refused")
     \/ job.stage # "none" /\ UNCHANGED job /\ NoFault
  /\ UNCHANGED <<world, memory, cache, store, ghost>>

\* Beyond the bound on events a tick only reconciles.
LaterTick ==
  /\ phase = "idle" /\ seq = MaxEvents /\ phase' = "reconciling"
  /\ UNCHANGED <<world, memory, cache, job, store, ghost, faults>>

Failed == Fault("database") /\ job' = [job EXCEPT !.stage = "failed"]

ReadCheckpoint ==
  /\ job.stage = "read"
  /\ \/ NoFault /\ job' = [job EXCEPT !.stage = "commit", !.read = TRUE,
                                      !.previous = checkpoint.day]
     \/ Failed
  /\ UNCHANGED <<world, memory, cache, phase, store, ghost>>

Id(e) == <<e.session, e.seq>>

\* A day once unknown stays so; only a midnight boundary covers a new one.
Covered(e, d) ==
  CASE d \in e.unknown        -> "unknown"
    [] d \notin e.unknown /\ coverage[d] # "none" -> coverage[d]
    [] d \notin e.unknown /\ coverage[d] = "none" ->
         IF d \in e.complete THEN "complete" ELSE IF d = e.day THEN "unknown" ELSE "none"

Insert(e) ==
  /\ rows' = rows \cup {Id(e)}
  /\ counted' = IF e.energy THEN [counted EXCEPT ![e.day] = @ + 1] ELSE counted
  /\ checkpoint' = [session |-> e.session, seq |-> e.seq, day |-> e.day]
  /\ coverage' = [d \in Days |-> Covered(e, d)]

\* Mutant: the identity of the event is not looked up.
CommitBlindly(e) == Insert(e)

\* record_optimizer_import_interval: one transaction, idempotent by event.
Commit(e) == IF Id(e) \in rows THEN UNCHANGED store ELSE Insert(e)

\* The operation may raise before or after its commit.
CommitNext ==
  /\ job.stage = "commit" /\ job.todo # <<>>
  /\ LET e == Head(job.todo)
     IN \/ /\ Commit(e) /\ NoFault
           /\ job' = [job EXCEPT !.todo = Tail(@), !.acked = Append(@, Id(e))]
        \/ (Commit(e) \/ UNCHANGED store) /\ Failed
  /\ UNCHANGED <<world, memory, cache, phase, ghost>>

Summarise ==
  /\ job.stage = "commit" /\ job.todo = <<>>
  /\ \/ NoFault /\ job' = [job EXCEPT !.stage = "done", !.sum = counted[job.day],
                                      !.complete = coverage[job.day] = "complete"]
     \/ Failed
  /\ UNCHANGED <<world, memory, cache, phase, store, ghost>>

\* Mutant: the whole snapshot is retired, whatever of it was committed.
RetireSnapshot == Len(job.acked) + Len(job.todo)

\* How many heads of the queue the acknowledgements name, in their order.
Acknowledged ==
  CHOOSE n \in 0..Len(job.acked) :
    /\ n <= Len(pending) /\ \A i \in 1..n : Id(pending[i]) = job.acked[i]
    /\ n < Len(job.acked) /\ n < Len(pending) => Id(pending[n + 1]) # job.acked[n + 1]

\* What the previous process left unfinished nobody can recover.
RestartMarks == IF job.read /\ ~loaded /\ job.previous # 0 THEN {job.previous} ELSE {}

\* Mutant: only a successful job is cleared.
CompletedOnly == job.stage = "done"
Completed == job.stage \in {"done", "failed"}

\* accept_reconciliation: the summary is kept if the ledger is still the one it
\* was computed for.
Deliver ==
  /\ Completed
  /\ LET rest == SubSeq(pending, Acknowledged + 1, Len(pending))
         kept == job.stage = "done" /\ rest = <<>> /\ ~tail /\ job.fresh
     IN /\ pending' = rest
        /\ unknown' = unknown \cup RestartMarks
        /\ loaded' = (loaded \/ job.read)
        /\ cache' = IF job.stage = "failed" \/ ~(RestartMarks \subseteq unknown) THEN NoCache
                    ELSE IF kept THEN [day |-> job.day, source |-> job.source,
                                       complete |-> job.complete, sum |-> job.sum]
                    ELSE cache
  /\ job' = NoJob
  /\ UNCHANGED <<world, session, seq, last, applied, tail, queued, phase, store, ghost, faults>>

-----------------------------------------------------------------------------
(* Time and crashes                                                        *)

Midnight ==
  /\ today < LastDay
  /\ today' = today + 1
  /\ flowed' = IF open THEN flowed \cup {today'} ELSE flowed
  /\ unproven' = IF last.known /\ ~last.active /\ ~applied /\ ~tail
                   THEN unproven ELSE unproven \cup {today'}
  /\ UNCHANGED <<open, source, memory, cache, phase, job, store, due, blind, faults>>

Fresh(day) ==
  /\ seq' = 0 /\ last' = NoSample /\ applied' = FALSE /\ tail' = FALSE
  /\ pending' = <<>> /\ unknown' = {day} /\ queued' = {} /\ loaded' = FALSE
  /\ cache' = NoCache /\ phase' = "idle" /\ job' = NoJob

\* The process ends, whatever its worker is doing, and starts again.
Restart ==
  /\ session < Sessions /\ Fault("crash")
  /\ session' = session + 1
  /\ Fresh(today)
  /\ UNCHANGED <<world, store, ghost>>

-----------------------------------------------------------------------------
(* Specification                                                           *)

Init ==
  /\ today = 1 /\ open \in BOOLEAN /\ flowed = IF open THEN {1} ELSE {}
  /\ source = 1 /\ session = 1
  /\ seq = 0 /\ last = NoSample /\ applied = FALSE /\ tail = FALSE
  /\ pending = <<>> /\ unknown = {1} /\ queued = {} /\ loaded = FALSE
  /\ cache = NoCache /\ phase = "idle" /\ job = NoJob
  /\ rows = {} /\ counted = [d \in Days |-> 0] /\ coverage = [d \in Days |-> "none"]
  /\ checkpoint = NoCheckpoint
  /\ due = [d \in Days |-> 0] /\ blind = {} /\ unproven = {}
  /\ faults = 0

Worker == ReadCheckpoint \/ CommitNext \/ Summarise

Next ==
  \/ \E gap, meter, seen \in BOOLEAN : Record(gap, meter, seen)
  \/ \E target \in BOOLEAN : Confirm(target) \/ Unconfirmed(target)
  \/ \E gap \in BOOLEAN : Look(gap)
  \/ \E target \in BOOLEAN, other \in Sources : Operate(target, other)
  \/ CaptureFails \/ Abort \/ LaterTick
  \/ Reconcile \/ Worker \/ Deliver
  \/ Midnight \/ Restart

Spec == Init /\ [][Next]_vars

Tick == (\E gap, meter, seen \in BOOLEAN : Record(gap, meter, seen)) \/ LaterTick
Application == Abort \/ \E target \in BOOLEAN : Confirm(target)

\* Ticks keep coming and end, database operations return, the loop runs its
\* callbacks.
Fairness ==
  /\ WF_vars(Tick) /\ WF_vars(Reconcile) /\ WF_vars(Application)
  /\ WF_vars(Worker) /\ WF_vars(Deliver)
FairSpec == Spec /\ Fairness

-----------------------------------------------------------------------------
(* Properties                                                              *)

Events == [session : Nat, seq : 1..MaxEvents, day : Days, energy : BOOLEAN,
           unknown : SUBSET Days, complete : SUBSET Days]

TypeOK ==
  /\ today \in Days /\ open \in BOOLEAN /\ flowed \subseteq Days /\ source \in Sources
  /\ session \in Nat /\ seq \in 0..MaxEvents
  /\ last \in [day : Days, active : BOOLEAN, known : BOOLEAN, meter : BOOLEAN,
               source : Sources] \cup {NoSample}
  /\ applied \in BOOLEAN /\ tail \in BOOLEAN
  /\ pending \in Seq(Events) /\ Len(pending) <= Limit
  /\ unknown \subseteq Days /\ queued \subseteq Days /\ loaded \in BOOLEAN
  /\ phase \in {"idle", "reconciling", "applying"}
  /\ job.stage \in {"none", "read", "commit", "done", "failed"}
  /\ coverage \in [Days -> {"none", "complete", "unknown"}]
  /\ counted \in [Days -> Nat] /\ due \in [Days -> Nat]
  /\ blind \subseteq Days /\ unproven \subseteq Days

\* What summary returns for today, and what the optimizer then trusts.
TrustedToday ==
  /\ cache # NoCache /\ cache.day = today /\ cache.source = source /\ cache.complete
  /\ today \notin unknown /\ ~tail /\ last # NoSample
  /\ \A i \in DOMAIN pending : pending[i].day # today

\* When today's history is trusted, and the day began with a permission known to
\* be closed, every interval with import today was measured in time, and the
\* totals hold each of them once, whatever was replayed, dropped, delayed or lost
\* with a process.
TodayTrusted ==
  TrustedToday /\ today \notin unproven => today \notin blind /\ cache.sum = due[today]

\* An interval reaches the totals once: nothing the worker replays, after a failure
\* or an acknowledgement that was lost, is counted again.
Owed(d) == Cardinality({i \in DOMAIN pending : pending[i].energy /\ pending[i].day = d
                                                /\ Id(pending[i]) \notin rows})
CountedOnce == \A d \in Days : counted[d] + Owed(d) <= due[d]

\* The queue lets go of an event once it is durable, whatever of its batch failed:
\* only the end of the process loses one.
Retained ==
  [][session' = session =>
       \A i \in DOMAIN pending : Id(pending[i]) \in rows
                                 \/ \E j \in DOMAIN pending' : pending'[j] = pending[i]]_vars

\* Whatever is queued becomes durable, or is lost with its process.
Queued(n) == \E i \in DOMAIN pending : pending[i].seq = n
Drains == \A n \in 1..MaxEvents : Queued(n) ~> ~Queued(n)
=============================================================================
