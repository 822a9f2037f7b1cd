------------------------ MODULE ImportLedger_proofs ------------------------
(***************************************************************************)
(* Proofs about ImportLedger, for any horizon, queue, batch and faults: an *)
(* interval with import reaches the daily totals at most once, whatever is *)
(* replayed, dropped or lost between commit and acknowledgement, no event  *)
(* leaves the queue of a live process before it is durable, and a day that *)
(* is trusted is complete.                                                 *)
(***************************************************************************)
EXTENDS ImportLedger, FiniteSetTheorems, SequenceTheorems, TLAPS

USE DEF world, memory, store, ghost

-----------------------------------------------------------------------------
(* The inductive invariant                                                 *)

Samples == [day : Days, active : BOOLEAN, known : BOOLEAN, meter : BOOLEAN, source : Sources]
Ids == Nat \X Nat
SomeDay == 0..LastDay
Jobs == [stage : {"none", "read", "commit", "done", "failed"}, todo : Seq(Events),
         acked : Seq(Ids), read : BOOLEAN, previous : SomeDay, fresh : BOOLEAN,
         day : SomeDay, source : Sources \cup {0}, complete : BOOLEAN, sum : Nat]

Shape ==
  /\ TypeOK
  /\ job \in Jobs /\ (job.stage # "none" => job.day \in Days)
  /\ checkpoint.day \in SomeDay

\* The job works on the head of the queue, of which it acknowledges what is durable.
HeadOfQueue ==
  /\ Len(job.acked) + Len(job.todo) <= Len(pending)
  /\ \A i \in 1..Len(job.acked) : job.acked[i] = Id(pending[i]) /\ job.acked[i] \in rows
  /\ \A i \in 1..Len(job.todo) : job.todo[i] = pending[Len(job.acked) + i]

Inv == Shape /\ HeadOfQueue

LEMMA InitInv == Init => Inv
<1> SUFFICES ASSUME Init PROVE Inv
  OBVIOUS
<1> USE ImportLedgerAssumption DEF Init
<1>1. TypeOK
  <2>1. coverage \in [Days -> {"none", "complete", "unknown"}] /\ counted \in [Days -> Nat]
        /\ due \in [Days -> Nat]
    OBVIOUS
  <2>2. pending \in Seq(Events) /\ Len(pending) <= Limit
    OBVIOUS
  <2>3. {today} \subseteq Days /\ flowed \subseteq Days /\ source \in Sources
        /\ unknown \subseteq Days
    BY DEF Days, Sources
  <2>4. job.stage = "none" /\ session \in Nat /\ seq \in 0..MaxEvents
    BY DEF NoJob
  <2>5. {open, applied, tail, loaded} \subseteq BOOLEAN
    OBVIOUS
  <2>6. queued \subseteq Days /\ blind \subseteq Days /\ unproven \subseteq Days
        /\ last = NoSample /\ phase = "idle"
    OBVIOUS
  <2> HIDE DEF Init
  <2> QED BY <2>1, <2>2, <2>3, <2>4, <2>5, <2>6 DEF TypeOK
<1>2. job \in Jobs /\ checkpoint.day \in SomeDay
  BY DEF Jobs, NoJob, NoCheckpoint, SomeDay
<1>3. Shape
  BY <1>1, <1>2 DEF Shape, NoJob
<1>4. HeadOfQueue
  BY DEF HeadOfQueue, NoJob
<1> QED BY <1>3, <1>4 DEF Inv

-----------------------------------------------------------------------------
(* The queue grows                                                         *)

\* The ledger as its marks and its job leave it: nothing queued, nothing durable.
LEMMA QuietQueue ==
  ASSUME Inv, UNCHANGED <<pending, session, rows>>, seq' = seq,
         job'.acked = job.acked, job'.todo = job.todo
  PROVE  HeadOfQueue'
BY DEF Inv, HeadOfQueue, Id

LEMMA QueueInv ==
  ASSUME Inv, NEW e \in Events, Queue(e), e.session = session, e.seq = seq + 1,
         UNCHANGED <<session, rows>>, job'.acked = job.acked, job'.todo = job.todo
  PROVE  /\ HeadOfQueue'
         /\ pending' \in Seq(Events) /\ Len(pending') <= Limit
<1>1. /\ pending \in Seq(Events) /\ Len(pending) <= Limit /\ seq \in Nat /\ Limit \in Nat
      /\ seq' = seq + 1 /\ job \in Jobs
      /\ \A i \in DOMAIN pending : pending[i].seq \in Nat
  <2>1. pending \in Seq(Events) /\ Len(pending) <= Limit /\ job \in Jobs /\ seq \in Nat
    BY ImportLedgerAssumption DEF Inv, Shape, TypeOK
  <2>2. \A i \in DOMAIN pending : pending[i] \in Events
    BY <2>1
  <2>3. \A x \in Events : x.seq \in Nat
    BY ImportLedgerAssumption DEF Events
  <2> QED BY <2>1, <2>2, <2>3, ImportLedgerAssumption DEF Queue
<1>2. CASE pending' = pending
  <2>1. HeadOfQueue'
    BY <1>2 DEF Inv, HeadOfQueue, Id
  <2> QED BY <1>1, <1>2, <2>1
<1>3. CASE pending' = Append(pending, e) /\ Len(pending) < Limit
  <2>1. /\ pending' \in Seq(Events) /\ Len(pending') = Len(pending) + 1
        /\ \A i \in 1..Len(pending) : pending'[i] = pending[i]
        /\ pending'[Len(pending) + 1] = e
    BY <1>1, <1>3, AppendProperties
  <2>2. DOMAIN pending' = 1..(Len(pending) + 1) /\ DOMAIN pending = 1..Len(pending)
    BY <1>1, <2>1
  <2>4. HeadOfQueue'
    <3>1. /\ Len(job.acked) \in Nat /\ Len(job.todo) \in Nat /\ Len(pending) \in Nat
          /\ Len(job.acked) + Len(job.todo) <= Len(pending)
      <4>1. pending \in Seq(Events) /\ job.acked \in Seq(Ids) /\ job.todo \in Seq(Events)
        BY <1>1 DEF Jobs
      <4>2. Len(job.acked) + Len(job.todo) <= Len(pending)
        BY DEF Inv, HeadOfQueue
      <4> QED BY <4>1, <4>2, LenProperties
    <3>2. /\ \A i \in 1..Len(job.acked) :
               job.acked[i] = Id(pending[i]) /\ job.acked[i] \in rows
          /\ \A i \in 1..Len(job.todo) : job.todo[i] = pending[Len(job.acked) + i]
      BY DEF Inv, HeadOfQueue
    <3> DEFINE a == Len(job.acked)  b == Len(job.todo)  n == Len(pending)
    <3>3. \A i \in 1..a : pending'[i] = pending[i]
      <4>1. a \in Nat /\ b \in Nat /\ n \in Nat /\ a + b <= n
        BY <3>1
      <4>2. \A i \in 1..n : pending'[i] = pending[i]
        BY <2>1
      <4> HIDE DEF a, b, n
      <4> QED BY <4>1, <4>2
    <3>4. \A i \in 1..b : pending'[a + i] = pending[a + i]
      <4>1. a \in Nat /\ b \in Nat /\ n \in Nat /\ a + b <= n
        BY <3>1
      <4>2. \A i \in 1..n : pending'[i] = pending[i]
        BY <2>1
      <4> HIDE DEF a, b, n
      <4> QED BY <4>1, <4>2
    <3>5. Len(job'.acked) + Len(job'.todo) <= Len(pending')
      <4>1. Len(job'.acked) = a /\ Len(job'.todo) = b /\ Len(pending') = n + 1
        BY <2>1
      <4>2. a \in Nat /\ b \in Nat /\ n \in Nat /\ a + b <= n
        BY <3>1
      <4> HIDE DEF a, b, n
      <4> QED BY <4>1, <4>2
    <3> QED BY <3>2, <3>3, <3>4, <3>5 DEF HeadOfQueue, Id
  <2> QED BY <1>1, <1>3, <2>1, <2>4
<1> QED BY <1>2, <1>3 DEF Queue

\* What the days and the sample of the ledger may become.
WorldShape ==
  /\ today \in Days /\ open \in BOOLEAN /\ flowed \subseteq Days /\ source \in Sources
  /\ last \in Samples \cup {NoSample}
  /\ applied \in BOOLEAN /\ tail \in BOOLEAN
  /\ unknown \subseteq Days /\ queued \subseteq Days /\ loaded \in BOOLEAN
  /\ phase \in {"idle", "reconciling", "applying"}
  /\ blind \subseteq Days /\ unproven \subseteq Days
JobShape == job \in Jobs /\ (job.stage # "none" => job.day \in Days)
StoreShape == /\ coverage \in [Days -> {"none", "complete", "unknown"}]
              /\ counted \in [Days -> Nat] /\ checkpoint.day \in SomeDay
              /\ due \in [Days -> Nat]
QueueShape == /\ session \in Nat /\ seq \in 0..MaxEvents
              /\ pending \in Seq(Events) /\ Len(pending) <= Limit

LEMMA ShapeParts == Shape <=> WorldShape /\ JobShape /\ StoreShape /\ QueueShape
<1>1. Shape => WorldShape /\ JobShape /\ StoreShape /\ QueueShape
  BY DEF Shape, TypeOK, WorldShape, JobShape, StoreShape, QueueShape, Samples
<1>2. ASSUME WorldShape, JobShape, StoreShape, QueueShape
      PROVE  Shape
  <2>1. job.stage \in {"none", "read", "commit", "done", "failed"}
    BY <1>2 DEF JobShape, Jobs
  <2> QED
    BY <1>2, <2>1 DEF Shape, TypeOK, WorldShape, JobShape, StoreShape, QueueShape, Samples
<1> QED BY <1>1, <1>2

LEMMA MarksAreDays ==
  ASSUME WorldShape PROVE SourceMarks \subseteq Days /\ LastDays \subseteq Days
BY DEF WorldShape, Samples, SourceMarks, LastDays

\* A summary that is retired leaves the job its work.
LEMMA SameWork ==
  ASSUME JobShape, job' = [job EXCEPT !.fresh = FALSE] \/ job' = job
  PROVE  JobShape' /\ job'.acked = job.acked /\ job'.todo = job.todo
BY DEF JobShape, Jobs

\* A step that neither queues nor commits.
LEMMA QuietInv ==
  ASSUME Inv, WorldShape', job' = [job EXCEPT !.fresh = FALSE] \/ job' = job,
         UNCHANGED <<session, seq, pending, store>>, due' \in [Days -> Nat]
  PROVE  Inv'
<1>1. JobShape' /\ job'.acked = job.acked /\ job'.todo = job.todo
  BY SameWork, ShapeParts DEF Inv
<1>2. StoreShape' /\ QueueShape'
  BY ShapeParts DEF Inv, StoreShape, QueueShape
<1>3. Shape'
  BY <1>1, <1>2, ShapeParts, PTL
<1>4. HeadOfQueue'
  BY <1>1, QuietQueue
<1> QED BY <1>3, <1>4 DEF Inv

LEMMA InvalidateShape ==
  ASSUME WorldShape, Invalidate
  PROVE  /\ last' \in Samples \cup {NoSample} /\ unknown' \subseteq Days
         /\ job' = [job EXCEPT !.fresh = FALSE]
<1>1. last' \in Samples \cup {NoSample}
  <2>1. CASE last = NoSample
    BY <2>1 DEF Invalidate, NoSample
  <2>2. CASE last \in Samples
    BY <2>2 DEF Invalidate, Samples
  <2> QED BY <2>1, <2>2 DEF WorldShape
<1> QED BY <1>1, MarksAreDays DEF WorldShape, Invalidate, BeginCapture

LEMMA QuietSteps ==
  ASSUME Inv,
         \/ CaptureFails \/ Abort \/ LaterTick \/ Midnight
         \/ \E target \in BOOLEAN : Unconfirmed(target)
         \/ \E gap \in BOOLEAN : Look(gap)
         \/ \E target \in BOOLEAN, other \in Sources : Operate(target, other)
  PROVE  Inv'
<1>1. WorldShape /\ due \in [Days -> Nat]
  BY ShapeParts DEF Inv, StoreShape
<1>2. CASE CaptureFails \/ Abort \/ LaterTick
  <2>1. WorldShape' /\ (job' = [job EXCEPT !.fresh = FALSE] \/ job' = job)
    BY <1>1, <1>2, MarksAreDays DEF WorldShape, CaptureFails, Abort, LaterTick, BeginCapture
  <2> QED BY <1>1, <1>2, <2>1, QuietInv DEF CaptureFails, Abort, LaterTick
<1>3. CASE Midnight
  <2>1. today' \in Days
    BY <1>1, <1>3, ImportLedgerAssumption DEF Midnight, WorldShape, Days
  <2>2. WorldShape'
    BY <1>1, <1>3, <2>1 DEF Midnight, WorldShape
  <2> QED BY <1>1, <1>3, <2>2, QuietInv DEF Midnight
<1>4. ASSUME NEW target \in BOOLEAN, Unconfirmed(target) PROVE Inv'
  <2>1. WorldShape' /\ job' = [job EXCEPT !.fresh = FALSE]
    BY <1>1, <1>4, InvalidateShape DEF Unconfirmed, Import, WorldShape, Invalidate
  <2> QED BY <1>1, <1>4, <2>1, QuietInv DEF Unconfirmed, Import, Invalidate
<1>5. ASSUME NEW target \in BOOLEAN, NEW other \in Sources, Operate(target, other) PROVE Inv'
  <2>1. WorldShape' /\ job' = [job EXCEPT !.fresh = FALSE]
    BY <1>1, <1>5, InvalidateShape DEF Operate, WorldShape, Invalidate
  <2> QED BY <1>1, <1>5, <2>1, QuietInv DEF Operate, Invalidate
<1>6. ASSUME NEW gap \in BOOLEAN, Look(gap) PROVE Inv'
  <2>1. WorldShape' /\ (job' = [job EXCEPT !.fresh = FALSE] \/ job' = job)
    BY <1>1, <1>6, MarksAreDays DEF Look, MarkUnknown, BeginCapture, WorldShape
  <2> QED BY <1>1, <1>6, <2>1, QuietInv DEF Look
<1> QED BY <1>2, <1>3, <1>4, <1>5, <1>6

\* An event of this process, with marks on days.
LEMMA EventType ==
  ASSUME Inv, seq < MaxEvents, NEW day \in Days, NEW energy \in BOOLEAN,
         NEW complete \in SUBSET Days, NEW marks \in SUBSET Days
  PROVE  /\ Event(day, energy, complete, marks) \in Events
         /\ Event(day, energy, complete, marks).session = session
         /\ Event(day, energy, complete, marks).seq = seq + 1
         /\ Event(day, energy, complete, marks).day = day
         /\ Event(day, energy, complete, marks).unknown \subseteq Days
<1>1. session \in Nat /\ seq + 1 \in 1..MaxEvents /\ unknown \cup marks \subseteq Days
  BY ImportLedgerAssumption DEF Inv, Shape, TypeOK
<1> QED BY <1>1 DEF Event, Events

\* A step that may queue one event.
LEMMA QueuedInv ==
  ASSUME Inv, NEW e \in Events, Queue(e), e.session = session, e.seq = seq + 1,
         seq < MaxEvents, job' = [job EXCEPT !.fresh = FALSE] \/ job' = job,
         UNCHANGED <<session, store>>, due' \in [Days -> Nat], WorldShape'
  PROVE  Inv'
<1>1. JobShape' /\ job'.acked = job.acked /\ job'.todo = job.todo
  BY SameWork, ShapeParts DEF Inv
<1>2. /\ HeadOfQueue'
      /\ pending' \in Seq(Events) /\ Len(pending') <= Limit
  BY <1>1, QueueInv
<1>3. QueueShape'
  BY <1>2, ShapeParts, ImportLedgerAssumption DEF Inv, QueueShape, Queue
<1>4. StoreShape'
  BY ShapeParts DEF Inv, StoreShape
<1>5. Shape'
  BY <1>1, <1>3, <1>4, ShapeParts, PTL
<1> QED BY <1>2, <1>5 DEF Inv

\* What queueing leaves of the marks.
LEMMA QueueMarks ==
  ASSUME NEW e \in Events, e.unknown \subseteq Days, e.day \in Days, Queue(e), WorldShape
  PROVE  unknown' \subseteq Days /\ queued' \subseteq Days
BY DEF Queue, WorldShape

LEMMA RecordInv ==
  ASSUME Inv, NEW gap \in BOOLEAN, NEW meter \in BOOLEAN, NEW seen \in BOOLEAN,
         Record(gap, meter, seen)
  PROVE  Inv'
<1> DEFINE active == applied \/ tail \/ (open /\ seen)
           measured == active \/ last.active
           energy == measured /\ SameDay /\ meter /\ last.meter /\ today \in flowed
           marks == RecordMarks(active, gap, meter)
           complete == IF Boundary(active, gap, meter) THEN {today} ELSE {}
           e == Event(today, energy, complete, marks)
<1>1. WorldShape /\ seq < MaxEvents /\ due \in [Days -> Nat]
  BY ShapeParts, ImportLedgerAssumption DEF Inv, Record, QueueShape, StoreShape
<1>2. today \in Days /\ complete \subseteq Days /\ energy \in BOOLEAN
  BY <1>1 DEF WorldShape
<1>3. marks \subseteq Days
  BY <1>1, MarksAreDays DEF RecordMarks, WorldShape, Samples
<1>4. /\ e \in Events /\ e.session = session /\ e.seq = seq + 1 /\ e.day = today
      /\ e.unknown \subseteq Days
  <2> HIDE DEF energy, complete, marks
  <2> QED BY <1>1, <1>2, <1>3, EventType
<1>5. /\ Queue(e) \/ UNCHANGED <<seq, pending, unknown, queued>>
      /\ UNCHANGED <<today, open, source, session, loaded, store, unproven>>
      /\ job' = [job EXCEPT !.fresh = FALSE] /\ phase' = "reconciling"
  BY DEF Record, BeginCapture
<1>6. due' \in [Days -> Nat]
  <2>1. due' = due \/ due' = [due EXCEPT ![today] = @ + 1]
    BY DEF Record
  <2> QED BY <1>1, <1>2, <2>1
<1>7. /\ last' \in Samples \cup {NoSample} /\ applied' \in BOOLEAN /\ tail' \in BOOLEAN
      /\ flowed' \subseteq Days /\ blind' \subseteq Days
  <2>1. last' = [day |-> today, active |-> IF tail THEN applied ELSE active,
                 known |-> last.known, meter |-> meter, source |-> source]
        /\ applied' = (IF tail THEN applied ELSE active) /\ tail' = FALSE
    BY DEF Record
  <2>2. last.known \in BOOLEAN /\ applied \in BOOLEAN
    <3>1. CASE last = NoSample
      BY <1>1, <3>1 DEF WorldShape, NoSample
    <3>2. CASE last \in Samples
      BY <1>1, <3>2 DEF WorldShape, Samples
    <3> QED BY <1>1, <3>1, <3>2 DEF WorldShape
  <2>3. flowed' \subseteq Days /\ blind' \subseteq Days
    BY <1>1, <1>2 DEF Record, WorldShape
  <2>4. active \in BOOLEAN
    OBVIOUS
  <2> HIDE DEF active
  <2> QED BY <1>1, <1>2, <2>1, <2>2, <2>3, <2>4 DEF Samples, WorldShape
<1> HIDE DEF active, measured, energy, marks, complete, e
<1>8. unknown' \subseteq Days /\ queued' \subseteq Days
  BY <1>1, <1>2, <1>4, <1>5, QueueMarks DEF WorldShape
<1>9. WorldShape'
  BY <1>1, <1>5, <1>7, <1>8 DEF WorldShape
<1>10. CASE Queue(e)
  BY <1>1, <1>4, <1>5, <1>6, <1>9, <1>10, QueuedInv
<1>11. CASE UNCHANGED <<seq, pending, unknown, queued>>
  BY <1>5, <1>6, <1>9, <1>11, QuietInv
<1> QED BY <1>5, <1>10, <1>11

LEMMA ConfirmInv == ASSUME Inv, NEW target \in BOOLEAN, Confirm(target) PROVE Inv'
<1>1. /\ WorldShape /\ seq < MaxEvents /\ due \in [Days -> Nat]
      /\ job' = [job EXCEPT !.fresh = FALSE]
      /\ UNCHANGED <<session, loaded, store, ghost, today, source>> /\ phase' = "idle"
  BY ShapeParts, ImportLedgerAssumption DEF Inv, Confirm, QueueShape, StoreShape, Import, BeginCapture
<1>2. open' \in BOOLEAN /\ flowed' \subseteq Days
  BY <1>1 DEF Confirm, Import, WorldShape
<1>3. CASE last = NoSample
  <2>1. WorldShape' /\ UNCHANGED <<seq, pending>>
    BY <1>1, <1>2, <1>3 DEF Confirm, WorldShape
  <2> QED BY <1>1, <2>1, QuietInv
<1>4. CASE last # NoSample /\ last.active = target /\ last.known /\ unknown \cup SourceMarks = queued
  <2>1. WorldShape' /\ UNCHANGED <<seq, pending>>
    BY <1>1, <1>2, <1>4 DEF Confirm, WorldShape
  <2> QED BY <1>1, <2>1, QuietInv
<1>5. CASE last # NoSample /\ ~(last.active = target /\ last.known /\ unknown \cup SourceMarks = queued)
  <2> DEFINE e == Event(last.day, FALSE, {}, SourceMarks)
  <2>1. /\ tail' = (tail \/ (applied /\ ~target)) /\ applied' = target
        /\ last' = [last EXCEPT !.active = target, !.known = TRUE] /\ Queue(e)
    BY <1>5 DEF Confirm
  <2>2. last' \in Samples /\ last.day \in Days
    BY <1>1, <1>5, <2>1 DEF WorldShape, Samples
  <2>3. /\ e \in Events /\ e.session = session /\ e.seq = seq + 1 /\ e.day \in Days
        /\ e.unknown \subseteq Days
    <3>1. {} \in SUBSET Days /\ SourceMarks \in SUBSET Days /\ FALSE \in BOOLEAN
      BY <1>1, MarksAreDays
    <3>2. ASSUME NEW energy \in BOOLEAN, NEW complete \in SUBSET Days, NEW marks \in SUBSET Days
          PROVE  LET x == Event(last.day, energy, complete, marks)
                 IN /\ x \in Events /\ x.session = session /\ x.seq = seq + 1
                    /\ x.day = last.day /\ x.unknown \subseteq Days
      BY <1>1, <2>2, EventType
    <3> QED BY <2>2, <3>1, <3>2
  <2> HIDE DEF e
  <2>4. unknown' \subseteq Days /\ queued' \subseteq Days
    BY <1>1, <2>1, <2>3, QueueMarks
  <2>5. tail' \in BOOLEAN
    BY <2>1
  <2>6. WorldShape'
    BY <1>1, <1>2, <2>1, <2>2, <2>4, <2>5 DEF WorldShape
  <2> QED BY <1>1, <2>1, <2>3, <2>6, QueuedInv DEF Event
<1> QED BY <1>3, <1>4, <1>5

-----------------------------------------------------------------------------
(* Reconciliation                                                          *)

LEMMA EmptyJob == NoJob \in Jobs /\ NoJob.stage = "none" /\ NoJob.acked = <<>> /\ NoJob.todo = <<>>
BY ImportLedgerAssumption DEF NoJob, Jobs, SomeDay

LEMMA ReconcileInv == ASSUME Inv, Reconcile PROVE Inv'
<1>1. /\ WorldShape /\ JobShape /\ StoreShape /\ QueueShape
      /\ UNCHANGED <<world, memory, cache, store, ghost>> /\ phase' = "applying"
  BY ShapeParts DEF Inv, Reconcile
<1>2. WorldShape' /\ StoreShape' /\ QueueShape'
  BY <1>1 DEF WorldShape, StoreShape, QueueShape
<1>4. CASE job' = job
  <2>1. JobShape' /\ HeadOfQueue'
    BY <1>1, <1>4 DEF Inv, JobShape, HeadOfQueue, Id
  <2> QED BY <1>2, <2>1, ShapeParts, PTL DEF Inv
<1>5. CASE job' = Snapshot
  <2> DEFINE n == IF Len(pending) < Batch THEN Len(pending) ELSE Batch
             todo == SubSeq(pending, 1, n)
  <2>1. n \in 0..Len(pending) /\ pending \in Seq(Events) /\ Len(pending) \in Nat
    BY <1>1, ImportLedgerAssumption DEF QueueShape
  <2>2. /\ todo \in Seq(Events) /\ Len(todo) = n
        /\ \A i \in 1..n : todo[i] = pending[i]
    <3>1. \A i \in 1..n : pending[i] \in Events
      BY <2>1
    <3>2. /\ todo \in Seq(Events)
          /\ Len(todo) = IF 1 <= n THEN n - 1 + 1 ELSE 0
          /\ \A i \in 1..(n - 1 + 1) : todo[i] = pending[1 + i - 1]
      BY <2>1, <3>1, SubSeqProperties
    <3> HIDE DEF todo, n
    <3> QED BY <2>1, <3>2
  <2>3. job' = [NoJob EXCEPT !.stage = IF loaded THEN "commit" ELSE "read", !.todo = todo,
                  !.read = loaded, !.fresh = TRUE, !.day = today, !.source = source]
    BY <1>5 DEF Snapshot
  <2> HIDE DEF todo, n
  <2>4. loaded \in BOOLEAN /\ today \in SomeDay /\ today \in Days /\ source \in Sources
    BY <1>1, ImportLedgerAssumption DEF WorldShape, Days, SomeDay
  <2>5. job' \in Jobs
    BY <2>2, <2>3, <2>4, EmptyJob DEF Jobs
  <2>6. job'.day = today /\ job'.acked = <<>> /\ job'.todo = todo
    BY <2>3 DEF NoJob
  <2>7. JobShape'
    BY <1>1, <2>4, <2>5, <2>6 DEF JobShape, Days
  <2>8. HeadOfQueue'
    <3>1. Len(job'.acked) = 0 /\ Len(job'.todo) = n /\ pending' = pending
      BY <1>1, <2>2, <2>6
    <3> QED BY <2>1, <2>2, <2>6, <3>1 DEF HeadOfQueue
  <2> QED BY <1>2, <2>7, <2>8, ShapeParts, PTL DEF Inv
<1> QED BY <1>4, <1>5 DEF Reconcile

\* The database keeps its shape under a transaction, and every row it has.
LEMMA CommitStore ==
  ASSUME StoreShape, NEW e \in Events, Commit(e), due' = due
  PROVE  StoreShape' /\ rows \subseteq rows' /\ Id(e) \in rows'
<1>1. CASE Id(e) \in rows
  BY <1>1 DEF Commit, StoreShape
<1>2. CASE Id(e) \notin rows
  <2>1. Insert(e) /\ e.day \in Days
    BY <1>2 DEF Commit, Events
  <2>2. \A d \in Days : Covered(e, d) \in {"none", "complete", "unknown"}
    <3> SUFFICES ASSUME NEW d \in Days PROVE Covered(e, d) \in {"none", "complete", "unknown"}
      OBVIOUS
    <3>1. coverage[d] \in {"none", "complete", "unknown"}
      BY DEF StoreShape
    <3>2. CASE d \in e.unknown
      BY <3>2 DEF Covered
    <3>3. CASE d \notin e.unknown /\ coverage[d] # "none"
      BY <3>1, <3>3 DEF Covered
    <3>4. CASE d \notin e.unknown /\ coverage[d] = "none"
      BY <3>4 DEF Covered
    <3> QED BY <3>2, <3>3, <3>4
  <2>3. coverage' \in [Days -> {"none", "complete", "unknown"}]
    BY <2>1, <2>2 DEF Insert
  <2>4. counted' \in [Days -> Nat]
    BY <2>1 DEF Insert, StoreShape
  <2>5. checkpoint'.day \in SomeDay
    BY <2>1, ImportLedgerAssumption DEF Insert, Days, SomeDay
  <2> QED BY <2>1, <2>3, <2>4, <2>5 DEF Insert, StoreShape
<1> QED BY <1>1, <1>2

\* A step of the job that leaves its work as it is.
LEMMA WorksOn ==
  ASSUME Inv, StoreShape', JobShape', rows \subseteq rows',
         UNCHANGED <<world, memory, phase, ghost>>,
         job'.acked = job.acked, job'.todo = job.todo
  PROVE  Inv'
<1>1. WorldShape' /\ QueueShape'
  BY ShapeParts DEF Inv, WorldShape, QueueShape
<1>2. HeadOfQueue'
  BY DEF Inv, HeadOfQueue, Id
<1> QED BY <1>1, <1>2, ShapeParts, PTL DEF Inv

LEMMA FailedJob ==
  ASSUME JobShape, Failed, job.stage # "none"
  PROVE  JobShape' /\ job'.acked = job.acked /\ job'.todo = job.todo
BY DEF JobShape, Jobs, Failed

LEMMA WorkerInv == ASSUME Inv, ReadCheckpoint \/ Summarise PROVE Inv'
<1>1. /\ JobShape /\ StoreShape /\ StoreShape' /\ rows' = rows
      /\ UNCHANGED <<world, memory, phase, ghost>>
  BY ShapeParts DEF Inv, ReadCheckpoint, Summarise, StoreShape
<1>2. CASE Failed
  <2>1. job.stage # "none"
    BY DEF ReadCheckpoint, Summarise
  <2> QED BY <1>1, <1>2, <2>1, FailedJob, WorksOn
<1>3. CASE ReadCheckpoint /\ ~Failed
  <2>1. JobShape' /\ job'.acked = job.acked /\ job'.todo = job.todo
    BY <1>1, <1>3 DEF JobShape, Jobs, ReadCheckpoint, StoreShape
  <2> QED BY <1>1, <2>1, WorksOn
<1>4. CASE Summarise /\ ~Failed
  <2>1. /\ job' = [job EXCEPT !.stage = "done", !.sum = counted[job.day],
                              !.complete = coverage[job.day] = "complete"]
        /\ job.stage = "commit"
    BY <1>4 DEF Summarise
  <2>2. counted[job.day] \in Nat /\ (coverage[job.day] = "complete") \in BOOLEAN
    BY <1>1, <2>1 DEF JobShape, StoreShape
  <2>3. JobShape' /\ job'.acked = job.acked /\ job'.todo = job.todo
    BY <1>1, <2>1, <2>2 DEF JobShape, Jobs
  <2> QED BY <1>1, <2>3, WorksOn
<1> QED BY <1>2, <1>3, <1>4

\* The next event of the work is the first of the queue that is not acknowledged.
LEMMA NextOfWork ==
  ASSUME Inv, job.todo # <<>>
  PROVE  /\ Head(job.todo) \in Events
         /\ Len(job.acked) + 1 \in DOMAIN pending
         /\ Head(job.todo) = pending[Len(job.acked) + 1]
<1>1. /\ pending \in Seq(Events) /\ job.acked \in Seq(Ids) /\ job.todo \in Seq(Events)
      /\ Len(job.acked) + Len(job.todo) <= Len(pending)
      /\ \A i \in 1..Len(job.todo) : job.todo[i] = pending[Len(job.acked) + i]
  BY ShapeParts DEF Inv, JobShape, QueueShape, Jobs, HeadOfQueue
<1>2. 1 \in 1..Len(job.todo) /\ Head(job.todo) = job.todo[1] /\ Head(job.todo) \in Events
  BY <1>1
<1> DEFINE a == Len(job.acked)  b == Len(job.todo)  n == Len(pending)
<1>3. a \in Nat /\ b \in Nat /\ n \in Nat /\ a + b <= n /\ 1 \in 1..b /\ DOMAIN pending = 1..n
  <2>1. a \in Nat /\ b \in Nat /\ n \in Nat /\ DOMAIN pending = 1..n
    BY <1>1, LenProperties
  <2>2. a + b <= n
    BY <1>1
  <2> QED BY <1>2, <2>1, <2>2
<1>4. Head(job.todo) = pending[a + 1]
  BY <1>1, <1>2
<1>5. a + 1 \in DOMAIN pending
  <2> HIDE DEF a, b, n
  <2> QED BY <1>3
<1> QED BY <1>2, <1>4, <1>5

LEMMA CommitNextInv == ASSUME Inv, CommitNext PROVE Inv'
<1> DEFINE e == Head(job.todo)
<1>1. /\ JobShape /\ StoreShape /\ QueueShape /\ job.stage = "commit" /\ job.todo # <<>>
      /\ UNCHANGED <<world, memory, phase, ghost>>
  BY ShapeParts DEF Inv, CommitNext
<1>2. e \in Events /\ e = pending[Len(job.acked) + 1] /\ Len(job.acked) + 1 \in DOMAIN pending
  BY <1>1, NextOfWork
<1>3. CASE Failed
  <2>1. Commit(e) \/ UNCHANGED store
    BY <1>3 DEF CommitNext, Commit
  <2>2. StoreShape' /\ rows \subseteq rows'
    BY <1>1, <1>2, <2>1, CommitStore DEF StoreShape
  <2> QED BY <1>1, <1>3, <2>2, FailedJob, WorksOn
<1>4. CASE Commit(e) /\ job' = [job EXCEPT !.todo = Tail(@), !.acked = Append(@, Id(e))]
  <2>1. StoreShape' /\ rows \subseteq rows' /\ Id(e) \in rows'
    BY <1>1, <1>2, <1>4, CommitStore
  <2>2. Id(e) \in Ids
    BY <1>2, ImportLedgerAssumption DEF Id, Ids, Events
  <2> DEFINE acked == job.acked  todo == job.todo  a == Len(job.acked)  b == Len(job.todo)
  <2>3. /\ acked \in Seq(Ids) /\ todo \in Seq(Events) /\ pending \in Seq(Events)
        /\ a \in Nat /\ b \in Nat /\ Len(pending) \in Nat /\ a + b <= Len(pending)
    BY <1>1 DEF JobShape, Jobs, QueueShape, Inv, HeadOfQueue
  <2>4. /\ \A i \in 1..a : acked[i] = Id(pending[i]) /\ acked[i] \in rows
        /\ \A i \in 1..b : todo[i] = pending[a + i]
    BY DEF Inv, HeadOfQueue
  <2>5. /\ job'.todo = Tail(todo) /\ job'.acked = Append(acked, Id(e)) /\ job'.stage = "commit"
        /\ job'.day = job.day
    BY <1>1, <1>4 DEF JobShape, Jobs
  <2>6. /\ Tail(todo) \in Seq(Events) /\ Len(Tail(todo)) = b - 1
        /\ \A i \in 1..Len(Tail(todo)) : Tail(todo)[i] = todo[i + 1]
    BY <1>1, <2>3, HeadTailProperties
  <2>7. /\ Append(acked, Id(e)) \in Seq(Ids) /\ Len(Append(acked, Id(e))) = a + 1
        /\ \A i \in 1..a : Append(acked, Id(e))[i] = acked[i]
        /\ Append(acked, Id(e))[a + 1] = Id(e)
    BY <2>2, <2>3, AppendProperties
  <2>8. JobShape'
    BY <1>1, <1>4, <2>5, <2>6, <2>7 DEF JobShape, Jobs
  <2>9. HeadOfQueue'
    <3>1. Len(job'.acked) = a + 1 /\ Len(job'.todo) = b - 1 /\ pending' = pending
      BY <1>1, <2>5, <2>6, <2>7
    <3>2. \A i \in 1..(a + 1) : job'.acked[i] = Id(pending[i]) /\ job'.acked[i] \in rows'
      <4> SUFFICES ASSUME NEW i \in 1..(a + 1)
                   PROVE  job'.acked[i] = Id(pending[i]) /\ job'.acked[i] \in rows'
        OBVIOUS
      <4>1. CASE i = a + 1
        BY <1>2, <2>1, <2>5, <2>7, <4>1
      <4>2. CASE i \in 1..a
        BY <2>1, <2>4, <2>5, <2>7, <4>2
      <4> QED BY <2>3, <4>1, <4>2
    <3>5. a \in Nat /\ b \in Nat /\ Len(pending) \in Nat /\ a + b <= Len(pending)
      BY <2>3
    <3>3. \A i \in 1..(b - 1) : job'.todo[i] = pending[(a + 1) + i]
      <4> SUFFICES ASSUME NEW i \in 1..(b - 1) PROVE job'.todo[i] = pending[(a + 1) + i]
        OBVIOUS
      <4>1. i + 1 \in 1..b /\ a + (i + 1) = (a + 1) + i
        <5> HIDE DEF a, b
        <5> QED BY <3>5
      <4>2. Tail(todo)[i] = todo[i + 1]
        BY <2>6
      <4> QED BY <2>4, <2>5, <4>1, <4>2
    <3>4. (a + 1) + (b - 1) <= Len(pending)
      <4> HIDE DEF a, b
      <4> QED BY <3>5
    <3> HIDE DEF a, b, acked, todo, e
    <3> QED BY <3>1, <3>2, <3>3, <3>4 DEF HeadOfQueue, Id
  <2>11. WorldShape' /\ QueueShape'
    BY <1>1, ShapeParts DEF Inv, WorldShape, QueueShape
  <2> QED BY <2>1, <2>8, <2>9, <2>11, ShapeParts, PTL DEF Inv
<1> QED BY <1>3, <1>4 DEF CommitNext

\* What an answer retires are heads of the queue that are durable.
LEMMA RetiredDurable ==
  ASSUME Inv
  PROVE  /\ Acknowledged \in Nat /\ Acknowledged <= Len(pending)
         /\ \A i \in 1..Acknowledged : Id(pending[i]) \in rows
<1>1. /\ pending \in Seq(Events) /\ job.acked \in Seq(Ids) /\ job.todo \in Seq(Events)
      /\ Len(job.acked) + Len(job.todo) <= Len(pending)
      /\ \A i \in 1..Len(job.acked) : job.acked[i] = Id(pending[i]) /\ job.acked[i] \in rows
  BY ShapeParts DEF Inv, JobShape, QueueShape, Jobs, HeadOfQueue
<1> DEFINE a == Len(job.acked)  b == Len(job.todo)
           Heads(n) == /\ n <= Len(pending) /\ \A i \in 1..n : Id(pending[i]) = job.acked[i]
                       /\ n < a /\ n < Len(pending) => Id(pending[n + 1]) # job.acked[n + 1]
<1>2. a \in Nat /\ b \in Nat /\ Len(pending) \in Nat
  BY <1>1, LenProperties
<1>3. a <= Len(pending)
  <2>1. a + b <= Len(pending)
    BY <1>1
  <2> HIDE DEF a, b
  <2> QED BY <1>2, <2>1
<1>4. a \in 0..a /\ Heads(a)
  <2>1. \A i \in 1..a : Id(pending[i]) = job.acked[i]
    BY <1>1
  <2> HIDE DEF a, b
  <2> QED BY <1>2, <1>3, <2>1
<1>5. Acknowledged = CHOOSE n \in 0..a : Heads(n)
  BY DEF Acknowledged
<1>6. Acknowledged \in 0..a /\ Heads(Acknowledged)
  <2> HIDE DEF a, Heads
  <2> QED BY <1>4, <1>5
<1>7. \A i \in 1..Acknowledged : Id(pending[i]) = job.acked[i]
  BY <1>6
<1>8. \A i \in 1..Acknowledged : i \in 1..a
  <2> HIDE DEF a, Heads
  <2> QED BY <1>2, <1>6
<1>9. Acknowledged \in Nat /\ Acknowledged <= Len(pending)
  <2>1. Acknowledged \in 0..a
    BY <1>6
  <2> HIDE DEF a, Heads
  <2> QED BY <1>2, <1>3, <2>1
<1> QED BY <1>1, <1>7, <1>8, <1>9

\* What an answer leaves of the queue, event by event.
LEMMA DeliverQueue ==
  ASSUME Inv, Deliver
  PROVE  /\ pending' \in Seq(Events) /\ Acknowledged \in Nat /\ Len(pending) \in Nat
         /\ Acknowledged <= Len(pending) /\ Len(pending') = Len(pending) - Acknowledged
         /\ \A i \in 1..Len(pending') : pending'[i] = pending[i + Acknowledged]
<1> DEFINE k == Acknowledged  n == Len(pending)
<1>1. pending \in Seq(Events) /\ n \in Nat /\ k \in Nat /\ k <= n
  BY ShapeParts, RetiredDurable DEF Inv, QueueShape
<1>2. pending' = SubSeq(pending, k + 1, n)
  BY DEF Deliver
<1>3. \A i \in (k + 1)..n : pending[i] \in Events
  <2> HIDE DEF k
  <2> QED BY <1>1
<1>4. /\ pending' \in Seq(Events)
      /\ Len(pending') = IF k + 1 <= n THEN n - (k + 1) + 1 ELSE 0
      /\ \A i \in 1..(n - (k + 1) + 1) : pending'[i] = pending[(k + 1) + i - 1]
  <2> HIDE DEF k, n
  <2>1. k + 1 \in Int /\ n \in Int
    BY <1>1
  <2>2. n = Len(pending)
    BY DEF n
  <2> QED BY <1>1, <1>2, <1>3, <2>1, <2>2, SubSeqProperties
<1> HIDE DEF k, n
<1>5. Len(pending') = n - k
  BY <1>1, <1>4
<1>6. \A i \in 1..Len(pending') : pending'[i] = pending[i + k]
  BY <1>1, <1>4, <1>5
<1> QED BY <1>1, <1>4, <1>5, <1>6 DEF k, n

LEMMA DeliverInv == ASSUME Inv, Deliver PROVE Inv'
<1>1. /\ WorldShape /\ JobShape /\ StoreShape /\ QueueShape
      /\ UNCHANGED <<world, session, seq, last, applied, tail, queued, phase, store, ghost>>
      /\ job' = NoJob
  BY ShapeParts DEF Inv, Deliver
<1>2. pending' \in Seq(Events) /\ Len(pending') <= Limit
  <2> DEFINE k == Acknowledged  n == Len(pending)
  <2>1. pending' \in Seq(Events) /\ k \in Nat /\ n \in Nat /\ Len(pending') = n - k /\ n <= Limit
    BY <1>1, DeliverQueue DEF QueueShape
  <2> HIDE DEF k, n
  <2> QED BY <2>1, ImportLedgerAssumption
<1>3. QueueShape' /\ StoreShape'
  BY <1>1, <1>2 DEF QueueShape, StoreShape
<1>4. RestartMarks \subseteq Days
  BY <1>1, ImportLedgerAssumption DEF RestartMarks, JobShape, Jobs, SomeDay, Days
<1>5. WorldShape'
  <2>1. unknown' = unknown \cup RestartMarks /\ loaded' = (loaded \/ job.read)
    BY DEF Deliver
  <2>2. loaded' \in BOOLEAN
    BY <2>1
  <2> QED BY <1>1, <1>4, <2>1, <2>2 DEF WorldShape
<1>6. JobShape'
  BY <1>1, EmptyJob DEF JobShape
<1>7. HeadOfQueue'
  <2>1. job'.acked = <<>> /\ job'.todo = <<>>
    BY <1>1, EmptyJob
  <2> QED BY <1>3, <2>1 DEF HeadOfQueue, QueueShape
<1> QED BY <1>3, <1>5, <1>6, <1>7, ShapeParts, PTL DEF Inv

LEMMA RestartInv == ASSUME Inv, Restart PROVE Inv'
<1>1. /\ WorldShape /\ StoreShape /\ QueueShape
      /\ Fresh(today) /\ session' = session + 1 /\ UNCHANGED <<world, store, ghost>>
  BY ShapeParts DEF Inv, Restart
<1>2. WorldShape' /\ StoreShape' /\ QueueShape'
  <2>1. WorldShape'
    BY <1>1 DEF Fresh, WorldShape
  <2>2. pending' \in Seq(Events) /\ Len(pending') = 0 /\ seq' = 0
    BY <1>1 DEF Fresh
  <2> QED BY <1>1, <2>1, <2>2, ImportLedgerAssumption DEF StoreShape, QueueShape
<1>3. JobShape' /\ job'.acked = <<>> /\ job'.todo = <<>>
  BY <1>1, EmptyJob DEF Fresh, JobShape
<1>4. HeadOfQueue'
  BY <1>2, <1>3 DEF HeadOfQueue, QueueShape
<1> QED BY <1>2, <1>3, <1>4, ShapeParts, PTL DEF Inv

LEMMA NextInv == ASSUME Inv, [Next]_vars PROVE Inv'
<1>1. CASE \E gap, meter, seen \in BOOLEAN : Record(gap, meter, seen)
  BY <1>1, RecordInv
<1>2. CASE \E target \in BOOLEAN : Confirm(target)
  BY <1>2, ConfirmInv
<1>3. CASE \/ CaptureFails \/ Abort \/ LaterTick \/ Midnight
           \/ \E target \in BOOLEAN : Unconfirmed(target)
           \/ \E gap \in BOOLEAN : Look(gap)
           \/ \E target \in BOOLEAN, other \in Sources : Operate(target, other)
  BY <1>3, QuietSteps
<1>4. CASE Reconcile \/ Worker
  BY <1>4, ReconcileInv, WorkerInv, CommitNextInv DEF Worker
<1>5. CASE Deliver \/ Restart
  BY <1>5, DeliverInv, RestartInv
<1>6. CASE UNCHANGED vars
  <2>1. WorldShape' /\ job' = job /\ due' \in [Days -> Nat]
    BY <1>6, ShapeParts DEF vars, Inv, WorldShape, StoreShape
  <2> QED BY <1>6, <2>1, QuietInv DEF vars
<1> QED BY <1>1, <1>2, <1>3, <1>4, <1>5, <1>6 DEF Next

THEOREM Invariance == Spec => []Inv
<1> QED BY InitInv, NextInv, PTL DEF Spec

-----------------------------------------------------------------------------
(* Counting                                                                *)

\* Where an interval that is still owed to a day waits in the queue.
OwedAt(d) == {i \in DOMAIN pending : pending[i].energy /\ pending[i].day = d
                                      /\ Id(pending[i]) \notin rows}

OwedCounted ==
  \A d \in Days : /\ IsFiniteSet(OwedAt(d)) /\ Cardinality(OwedAt(d)) \in Nat
                 /\ Owed(d) = Cardinality(OwedAt(d))

LEMMA OwedFinite == Inv => OwedCounted
<1> SUFFICES ASSUME Inv, NEW d \in Days
             PROVE  IsFiniteSet(OwedAt(d)) /\ Cardinality(OwedAt(d)) \in Nat
                    /\ Owed(d) = Cardinality(OwedAt(d))
  BY DEF OwedCounted
<1>1. pending \in Seq(Events) /\ Len(pending) \in Nat /\ DOMAIN pending = 1..Len(pending)
  BY ShapeParts DEF Inv, QueueShape
<1>2. IsFiniteSet(1..Len(pending)) /\ OwedAt(d) \subseteq 1..Len(pending)
  BY <1>1, FS_Interval DEF OwedAt
<1> QED BY <1>2, FS_Subset, FS_CardinalityType DEF Owed, OwedAt

LEMMA OwedFiniteNext == Inv' => OwedCounted'
BY OwedFinite, PTL

\* Fewer are owed when none is new.
LEMMA OwedShrinks ==
  ASSUME Inv, NEW d \in Days, OwedAt(d)' \subseteq OwedAt(d)
  PROVE  Cardinality(OwedAt(d)') <= Cardinality(OwedAt(d))
BY OwedFinite, FS_Subset DEF OwedCounted

\* Queueing owes at most one interval more, and only to the day it measured.
LEMMA OwedQueue ==
  ASSUME Inv, NEW e \in Events, Queue(e), rows' = rows, NEW d \in Days
  PROVE  Cardinality(OwedAt(d)') <= Cardinality(OwedAt(d))
                                    + IF e.energy /\ e.day = d THEN 1 ELSE 0
<1> DEFINE n == Len(pending) + 1
<1>1. pending \in Seq(Events) /\ n \in Nat /\ DOMAIN pending = 1..(n - 1)
  BY ShapeParts DEF Inv, QueueShape
<1>2. IsFiniteSet(OwedAt(d)) /\ Cardinality(OwedAt(d)) \in Nat
  BY OwedFinite DEF OwedCounted
<1>3. CASE pending' = pending
  <2>1. OwedAt(d)' \subseteq OwedAt(d)
    BY <1>3 DEF OwedAt, Id
  <2>2. Cardinality(OwedAt(d)') <= Cardinality(OwedAt(d)) /\ Cardinality(OwedAt(d)') \in Nat
    BY <1>2, <2>1, FS_Subset, FS_CardinalityType
  <2> QED BY <1>2, <2>2
<1>4. CASE pending' = Append(pending, e)
  <2>1. /\ DOMAIN pending' = 1..n /\ pending'[n] = e
        /\ \A i \in 1..(n - 1) : pending'[i] = pending[i]
    BY <1>1, <1>4, AppendProperties
  <2> HIDE DEF n
  <2>2. CASE e.energy /\ e.day = d
    <3>1. OwedAt(d)' \subseteq OwedAt(d) \cup {n}
      BY <1>1, <2>1 DEF OwedAt, Id
    <3>2. /\ IsFiniteSet(OwedAt(d) \cup {n})
          /\ Cardinality(OwedAt(d) \cup {n}) <= Cardinality(OwedAt(d)) + 1
      <4>1. Cardinality(OwedAt(d) \cup {n}) = Cardinality(OwedAt(d))
            \/ Cardinality(OwedAt(d) \cup {n}) = Cardinality(OwedAt(d)) + 1
        BY <1>2, FS_AddElement
      <4> QED BY <1>2, <4>1, FS_AddElement
    <3>3. Cardinality(OwedAt(d)') <= Cardinality(OwedAt(d) \cup {n})
      BY <3>1, <3>2, FS_Subset
    <3>4. Cardinality(OwedAt(d)') \in Nat /\ Cardinality(OwedAt(d) \cup {n}) \in Nat
      BY <3>1, <3>2, FS_Subset, FS_CardinalityType
    <3> QED BY <1>2, <2>2, <3>2, <3>3, <3>4
  <2>3. CASE ~(e.energy /\ e.day = d)
    <3>1. OwedAt(d)' \subseteq OwedAt(d)
      BY <1>1, <2>1, <2>3 DEF OwedAt, Id
    <3>2. Cardinality(OwedAt(d)') <= Cardinality(OwedAt(d))
      BY <3>1, OwedShrinks
    <3> QED BY <1>2, <2>3, <3>2
  <2> QED BY <2>2, <2>3
<1> QED BY <1>3, <1>4 DEF Queue

\* An answer only moves the queue forward.
LEMMA OwedDeliver ==
  ASSUME Inv, Deliver, NEW d \in Days
  PROVE  Cardinality(OwedAt(d)') <= Cardinality(OwedAt(d))
<1> DEFINE k == Acknowledged
           f == [i \in OwedAt(d)' |-> i + k]
<1>1. /\ pending' \in Seq(Events) /\ pending \in Seq(Events) /\ k \in Nat /\ Len(pending) \in Nat
      /\ Len(pending') = Len(pending) - k /\ rows' = rows
      /\ \A i \in 1..Len(pending') : pending'[i] = pending[i + k]
  BY DeliverQueue, ShapeParts DEF Inv, QueueShape, Deliver
<1> HIDE DEF k
<1>2. DOMAIN pending' = 1..Len(pending') /\ DOMAIN pending = 1..Len(pending)
  BY <1>1
<1>3. \A i \in OwedAt(d)' : i \in Nat /\ i + k \in OwedAt(d)
  <2> SUFFICES ASSUME NEW i \in OwedAt(d)' PROVE i \in Nat /\ i + k \in OwedAt(d)
    OBVIOUS
  <2>1. i \in 1..Len(pending') /\ pending'[i] = pending[i + k]
    BY <1>1, <1>2 DEF OwedAt
  <2>2. i \in Nat /\ i + k \in DOMAIN pending
    BY <1>1, <1>2, <2>1
  <2>3. pending'[i].energy /\ pending'[i].day = d /\ Id(pending'[i]) \notin rows
    BY <1>1 DEF OwedAt, Id
  <2> QED BY <2>1, <2>2, <2>3 DEF OwedAt
<1>4. f \in Injection(OwedAt(d)', OwedAt(d))
  BY <1>1, <1>3 DEF Injection, IsInjective
<1> QED BY <1>4, OwedFinite, FS_Injection DEF OwedCounted

LEMMA CountedInit == Init => CountedOnce
<1> SUFFICES ASSUME Init, NEW d \in Days PROVE counted[d] + Owed(d) <= due[d]
  BY DEF CountedOnce
<1>1. OwedAt(d) = {} /\ counted[d] = 0 /\ due[d] = 0
  BY DEF Init, OwedAt
<1> QED BY <1>1, FS_EmptySet, InitInv, OwedFinite DEF OwedCounted

\* A committed event moves from what is owed to what is counted.
LEMMA CountedCommit ==
  ASSUME Inv, CountedOnce, CommitNext
  PROVE  CountedOnce'
<1> DEFINE e == Head(job.todo)  k == Len(job.acked) + 1
<1>1. StoreShape /\ due' = due /\ pending' = pending /\ job.todo # <<>>
  BY ShapeParts DEF Inv, CommitNext
<1>2. e \in Events /\ k \in DOMAIN pending /\ e = pending[k]
  BY <1>1, NextOfWork
<1>3. Inv'
  BY CommitNextInv
<1> SUFFICES ASSUME NEW d \in Days PROVE counted'[d] + Owed(d)' <= due'[d]
  BY DEF CountedOnce
<1>4. /\ counted[d] \in Nat /\ due[d] \in Nat /\ counted[d] + Cardinality(OwedAt(d)) <= due[d]
      /\ IsFiniteSet(OwedAt(d)) /\ Cardinality(OwedAt(d)) \in Nat
  BY <1>1, OwedFinite DEF StoreShape, CountedOnce, OwedCounted
<1>5. Owed(d)' = Cardinality(OwedAt(d)') /\ Cardinality(OwedAt(d)') \in Nat
  BY <1>3, OwedFiniteNext DEF OwedCounted
<1>6. CASE UNCHANGED store
  <2>1. OwedAt(d)' \subseteq OwedAt(d)
    BY <1>1, <1>6 DEF OwedAt, Id
  <2>2. Cardinality(OwedAt(d)') <= Cardinality(OwedAt(d))
    BY <2>1, OwedShrinks
  <2>3. counted'[d] = counted[d] /\ due'[d] = due[d]
    BY <1>1, <1>6 DEF store
  <2> HIDE DEF e, k
  <2> QED BY <1>4, <1>5, <2>2, <2>3
<1>7. CASE Insert(e) /\ Id(e) \notin rows
  <2>1. rows' = rows \cup {Id(e)}
    BY <1>7 DEF Insert
  <2>2. OwedAt(d)' \subseteq OwedAt(d)
    BY <1>1, <2>1 DEF OwedAt, Id
  <2>3. CASE e.energy /\ e.day = d
    <3>1. OwedAt(d)' \subseteq OwedAt(d) \ {k} /\ k \in OwedAt(d)
      BY <1>1, <1>2, <1>7, <2>1, <2>3 DEF OwedAt, Id
    <3>2. Cardinality(OwedAt(d)') <= Cardinality(OwedAt(d)) - 1
      <4>1. /\ IsFiniteSet(OwedAt(d) \ {k})
            /\ Cardinality(OwedAt(d) \ {k}) = Cardinality(OwedAt(d)) - 1
        BY <1>4, <3>1, FS_RemoveElement
      <4>2. Cardinality(OwedAt(d)') <= Cardinality(OwedAt(d) \ {k})
        BY <3>1, <4>1, FS_Subset
      <4> QED BY <4>1, <4>2
    <3>3. counted'[d] = counted[d] + 1
      BY <1>1, <1>7, <2>3 DEF Insert, StoreShape
    <3> QED BY <1>1, <1>4, <1>5, <3>2, <3>3
  <2>4. CASE ~(e.energy /\ e.day = d)
    <3>1. counted'[d] = counted[d]
      BY <1>1, <1>7, <2>4 DEF Insert, StoreShape
    <3>2. Cardinality(OwedAt(d)') <= Cardinality(OwedAt(d))
      BY <2>2, OwedShrinks
    <3> HIDE DEF e, k
    <3> QED BY <1>1, <1>4, <1>5, <3>1, <3>2
  <2> QED BY <2>3, <2>4
<1> QED BY <1>6, <1>7 DEF CommitNext, Commit

\* A step that leaves totals and debts as they are, or loses some of the debts.
LEMMA CountedShrinks ==
  ASSUME Inv, Inv', CountedOnce, UNCHANGED <<counted, due>>,
         \A d \in Days : Cardinality(OwedAt(d)') <= Cardinality(OwedAt(d))
  PROVE  CountedOnce'
<1> SUFFICES ASSUME NEW d \in Days PROVE counted'[d] + Owed(d)' <= due'[d]
  BY DEF CountedOnce
<1>1. /\ counted[d] \in Nat /\ due[d] \in Nat /\ counted[d] + Cardinality(OwedAt(d)) <= due[d]
      /\ Cardinality(OwedAt(d)) \in Nat
  BY ShapeParts, OwedFinite DEF OwedCounted, Inv, StoreShape, CountedOnce
<1>2. Owed(d)' = Cardinality(OwedAt(d)') /\ Cardinality(OwedAt(d)') \in Nat
  BY OwedFiniteNext DEF OwedCounted
<1> QED BY <1>1, <1>2

\* A measured interval with import is due, and owed at most once.
LEMMA CountedRecord ==
  ASSUME Inv, Inv', CountedOnce, NEW gap \in BOOLEAN, NEW meter \in BOOLEAN,
         NEW seen \in BOOLEAN, Record(gap, meter, seen)
  PROVE  CountedOnce'
<1> DEFINE active == applied \/ tail \/ (open /\ seen)
           measured == active \/ last.active
           energy == measured /\ SameDay /\ meter /\ last.meter /\ today \in flowed
           marks == RecordMarks(active, gap, meter)
           complete == IF Boundary(active, gap, meter) THEN {today} ELSE {}
           e == Event(today, energy, complete, marks)
<1>1. WorldShape /\ StoreShape /\ seq < MaxEvents /\ UNCHANGED store
  BY ShapeParts DEF Inv, Record
<1>2. /\ Queue(e) \/ (pending' = pending /\ ~energy)
      /\ due' = IF energy THEN [due EXCEPT ![today] = @ + 1] ELSE due
  BY DEF Record
<1>3. e \in Events /\ e.energy = energy /\ e.day = today
  <2>1. marks \subseteq Days
    BY <1>1, MarksAreDays DEF RecordMarks, WorldShape, Samples
  <2>2. today \in Days /\ complete \subseteq Days /\ energy \in BOOLEAN
    BY <1>1 DEF WorldShape
  <2> HIDE DEF energy, complete, marks
  <2> QED BY <1>1, <2>1, <2>2, EventType DEF Event
<1> HIDE DEF energy, e
<1> SUFFICES ASSUME NEW d \in Days PROVE counted'[d] + Owed(d)' <= due'[d]
  BY DEF CountedOnce
<1>4. /\ counted[d] \in Nat /\ due[d] \in Nat /\ counted[d] + Cardinality(OwedAt(d)) <= due[d]
      /\ Cardinality(OwedAt(d)) \in Nat
  BY <1>1, OwedFinite DEF StoreShape, CountedOnce, OwedCounted
<1>5. Owed(d)' = Cardinality(OwedAt(d)') /\ Cardinality(OwedAt(d)') \in Nat
  BY OwedFiniteNext DEF OwedCounted
<1>6. due'[d] = due[d] + IF energy /\ today = d THEN 1 ELSE 0
  BY <1>1, <1>2, <1>4 DEF StoreShape
<1>7. Cardinality(OwedAt(d)') <= Cardinality(OwedAt(d)) + IF energy /\ today = d THEN 1 ELSE 0
  <2>1. CASE Queue(e)
    BY <1>1, <1>3, <2>1, OwedQueue
  <2>2. CASE pending' = pending /\ ~energy
    <3>1. OwedAt(d)' \subseteq OwedAt(d)
      BY <1>1, <2>2 DEF OwedAt, Id
    <3> QED BY <1>4, <2>2, <3>1, OwedShrinks
  <2> QED BY <1>2, <2>1, <2>2
<1> QED BY <1>1, <1>4, <1>5, <1>6, <1>7

LEMMA CountedStep == ASSUME Inv, Inv', CountedOnce, [Next]_vars PROVE CountedOnce'
<1>1. CASE \E gap, meter, seen \in BOOLEAN : Record(gap, meter, seen)
  BY <1>1, CountedRecord
<1>2. CASE CommitNext
  BY <1>2, CountedCommit
<1>3. CASE Deliver
  BY <1>3, OwedDeliver, CountedShrinks DEF Deliver
<1>4. CASE Restart
  <2>1. \A d \in Days : OwedAt(d)' \subseteq OwedAt(d)
    BY <1>4 DEF Restart, Fresh, OwedAt
  <2> QED BY <1>4, <2>1, OwedShrinks, CountedShrinks DEF Restart
<1>5. ASSUME NEW target \in BOOLEAN, Confirm(target) PROVE CountedOnce'
  <2>1. UNCHANGED <<counted, due, rows>>
    BY <1>5 DEF Confirm
  <2>2. CASE pending' = pending
    <3>1. \A d \in Days : OwedAt(d)' \subseteq OwedAt(d)
      BY <2>1, <2>2 DEF OwedAt, Id
    <3> QED BY <2>1, <3>1, OwedShrinks, CountedShrinks
  <2>3. CASE pending' # pending
    <3> DEFINE e == Event(last.day, FALSE, {}, SourceMarks)
    <3>1. Queue(e) /\ last # NoSample /\ seq < MaxEvents
      BY <1>5, <2>3 DEF Confirm
    <3>2. WorldShape /\ SourceMarks \in SUBSET Days /\ last.day \in Days
      BY <3>1, ShapeParts, MarksAreDays DEF Inv, WorldShape, Samples
    <3>3. e \in Events
      <4>1. ASSUME NEW marks \in SUBSET Days PROVE Event(last.day, FALSE, {}, marks) \in Events
        <5>1. ASSUME NEW complete \in SUBSET Days, NEW energy \in BOOLEAN
              PROVE  Event(last.day, energy, complete, marks) \in Events
          BY <3>1, <3>2, EventType
        <5>2. {} \in SUBSET Days /\ FALSE \in BOOLEAN
          OBVIOUS
        <5> QED BY <5>1, <5>2
      <4> QED BY <3>2, <4>1
    <3>4. ~e.energy
      BY DEF Event
    <3> HIDE DEF e
    <3>5. ASSUME NEW d \in Days PROVE Cardinality(OwedAt(d)') <= Cardinality(OwedAt(d))
      BY <2>1, <3>1, <3>3, <3>4, OwedQueue, OwedFinite DEF OwedCounted
    <3> QED BY <2>1, <3>5, CountedShrinks
  <2> QED BY <2>2, <2>3
<1>6. ASSUME UNCHANGED <<counted, due, rows, pending>> PROVE CountedOnce'
  <2>1. \A d \in Days : OwedAt(d)' \subseteq OwedAt(d)
    BY <1>6 DEF OwedAt, Id
  <2> QED BY <1>6, <2>1, OwedShrinks, CountedShrinks
<1>7. CASE \/ CaptureFails \/ Abort \/ LaterTick \/ Midnight \/ UNCHANGED vars
           \/ Reconcile \/ ReadCheckpoint \/ Summarise
           \/ \E gap \in BOOLEAN : Look(gap)
  BY <1>6, <1>7 DEF CaptureFails, Abort, LaterTick, Midnight, vars, Reconcile,
                    ReadCheckpoint, Summarise, Look
<1>8. CASE \/ \E target \in BOOLEAN : Unconfirmed(target)
           \/ \E target \in BOOLEAN, other \in Sources : Operate(target, other)
  BY <1>6, <1>8 DEF Unconfirmed, Operate, Invalidate
<1> QED BY <1>1, <1>2, <1>3, <1>4, <1>5, <1>7, <1>8 DEF Next, Worker

-----------------------------------------------------------------------------
(* Trust in today: what is known of a day that no mark denies              *)

\* The day may be trusted: no mark on it, and it began with a permission known to
\* be closed.
Clean == today \notin unknown \cup unproven

Past ==
  /\ flowed \subseteq 1..today /\ blind \subseteq 1..today
  /\ \A d \in Days : d > today => due[d] = 0

\* Every event has an identity of its own, and an event to come has a newer one.
IdsFresh ==
  /\ \A i \in DOMAIN pending : pending[i].session = session /\ pending[i].seq <= seq
  /\ \A i, j \in DOMAIN pending : i # j => pending[i].seq # pending[j].seq
  /\ rows \subseteq Ids
  /\ \A r \in rows : r[1] <= session /\ (r[1] = session => r[2] <= seq)

\* A permission the ledger knows is that of the inverter.
Permission == last.known => open = applied /\ last.active = applied

\* No interval of the day is lost on the way to the totals.
NoneLost(d) == due[d] <= counted[d] + Cardinality(OwedAt(d))

CleanDay ==
  Clean => /\ last.known
           /\ today \in flowed => applied \/ tail
           /\ today \notin blind
           /\ NoneLost(today)

\* The summary on display is of the totals, and nothing is queued behind it.
Summary ==
  /\ queued \subseteq unknown
  /\ job.stage = "done" => job.sum = counted[job.day]
  /\ cache # NoCache => pending = <<>> /\ cache.sum = counted[cache.day]

Trust == Past /\ IdsFresh /\ Permission /\ CleanDay /\ Summary

LEMMA TrustInit == Init => Trust
<1> SUFFICES ASSUME Init PROVE Trust
  OBVIOUS
<1> USE DEF Init
<1>1. Past
  BY ImportLedgerAssumption DEF Past, Days
<1>2. IdsFresh
  BY DEF IdsFresh
<1>3. Permission /\ CleanDay
  BY DEF Permission, CleanDay, Clean, NoSample
<1>4. Summary
  BY DEF Summary, NoJob
<1> QED
  BY <1>1, <1>2, <1>3, <1>4 DEF Trust

LEMMA PastNext == ASSUME Inv, Past, [Next]_vars PROVE Past'
<1>1. /\ today \in Days /\ today \in Nat /\ LastDay \in Nat /\ Days = 1..LastDay
      /\ due \in [Days -> Nat]
  BY ShapeParts, ImportLedgerAssumption DEF Inv, WorldShape, StoreShape, Days
<1>2. ASSUME UNCHANGED <<today, due, blind>>, flowed' \subseteq flowed \cup {today} PROVE Past'
  BY <1>1, <1>2 DEF Past
<1>3. ASSUME NEW gap \in BOOLEAN, NEW meter \in BOOLEAN, NEW seen \in BOOLEAN,
             Record(gap, meter, seen)
      PROVE  Past'
  <2>1. /\ today' = today /\ flowed' \subseteq {today} /\ blind' \subseteq blind \cup flowed
        /\ due' = due \/ due' = [due EXCEPT ![today] = @ + 1]
    BY <1>3 DEF Record
  <2>2. \A d \in Days : d > today => due'[d] = due[d]
    BY <1>1, <2>1
  <2> QED
    BY <1>1, <2>1, <2>2 DEF Past
<1>4. CASE Midnight
  <2>1. /\ today' = today + 1 /\ flowed' \subseteq flowed \cup {today'}
        /\ UNCHANGED <<due, blind>>
    BY <1>4 DEF Midnight
  <2> QED
    BY <1>1, <2>1 DEF Past
<1>5. CASE \/ \E target \in BOOLEAN : Confirm(target) \/ Unconfirmed(target)
           \/ \E target \in BOOLEAN, other \in Sources : Operate(target, other)
  BY <1>2, <1>5 DEF Confirm, Unconfirmed, Operate, Import
<1>6. CASE \/ CaptureFails \/ Abort \/ LaterTick \/ Reconcile \/ Worker \/ Deliver \/ Restart
           \/ UNCHANGED vars \/ \E gap \in BOOLEAN : Look(gap)
  <2>1. UNCHANGED <<today, flowed, due, blind>>
    BY <1>6 DEF CaptureFails, Abort, LaterTick, Reconcile, Worker, ReadCheckpoint,
                CommitNext, Summarise, Deliver, Restart, Look, vars
  <2> QED
    BY <1>2, <2>1
<1> QED
  BY <1>3, <1>4, <1>5, <1>6 DEF Next

-----------------------------------------------------------------------------
(* Identities                                                              *)

LEMMA IdsKept == ASSUME IdsFresh, UNCHANGED <<pending, session, seq, rows>> PROVE IdsFresh'
BY DEF IdsFresh

LEMMA IdsQueue ==
  ASSUME Inv, IdsFresh, NEW e \in Events, Queue(e), e.session = session, e.seq = seq + 1,
         UNCHANGED <<session, rows>>
  PROVE  IdsFresh'
<1> DEFINE n == Len(pending)
<1>1. /\ pending \in Seq(Events) /\ n \in Nat /\ DOMAIN pending = 1..n
      /\ seq \in Nat /\ session \in Nat /\ seq' = seq + 1
      /\ \A i \in 1..n : pending[i].seq \in Nat
  <2>1. \A x \in Events : x.seq \in Nat
    BY ImportLedgerAssumption DEF Events
  <2> QED
    BY <2>1, ShapeParts, ImportLedgerAssumption DEF Inv, QueueShape, Queue
<1>2. rows' \subseteq Ids /\ \A r \in rows' : r[1] <= session' /\ (r[1] = session' => r[2] <= seq')
  <2>1. \A r \in Ids : r[2] \in Nat
    BY DEF Ids
  <2> QED
    BY <1>1, <2>1 DEF IdsFresh
<1>3. CASE pending' = pending
  BY <1>1, <1>2, <1>3 DEF IdsFresh
<1>4. CASE pending' = Append(pending, e)
  <2>1. /\ DOMAIN pending' = 1..(n + 1) /\ pending'[n + 1] = e
        /\ \A i \in 1..n : pending'[i] = pending[i]
    BY <1>1, <1>4, AppendProperties
  <2>2. \A i \in 1..n : pending[i].session = session /\ pending[i].seq <= seq
    BY <1>1 DEF IdsFresh
  <2>3. \A i, j \in 1..n : i # j => pending[i].seq # pending[j].seq
    BY <1>1 DEF IdsFresh
  <2> HIDE DEF n
  <2>4. \A i \in 1..(n + 1) : i \in 1..n \/ i = n + 1
    BY <1>1
  <2>5. \A i \in 1..(n + 1) : pending'[i].session = session /\ pending'[i].seq <= seq'
    BY <1>1, <2>1, <2>2, <2>4
  <2>6. ASSUME NEW i \in 1..(n + 1), NEW j \in 1..(n + 1), i # j
        PROVE  pending'[i].seq # pending'[j].seq
    <3>1. CASE i \in 1..n /\ j \in 1..n
      BY <2>1, <2>3, <2>6, <3>1
    <3>2. CASE i \in 1..n /\ j = n + 1
      BY <1>1, <2>1, <2>2, <3>2
    <3>3. CASE j \in 1..n /\ i = n + 1
      BY <1>1, <2>1, <2>2, <3>3
    <3> QED
      BY <2>4, <2>6, <3>1, <3>2, <3>3
  <2> QED
    BY <1>2, <2>1, <2>5, <2>6 DEF IdsFresh
<1> QED
  BY <1>3, <1>4 DEF Queue

LEMMA IdsCommit == ASSUME Inv, IdsFresh, CommitNext PROVE IdsFresh'
<1> DEFINE e == Head(job.todo)  k == Len(job.acked) + 1
<1>1. UNCHANGED <<pending, session, seq>> /\ job.todo # <<>>
  BY DEF CommitNext
<1>2. e \in Events /\ k \in DOMAIN pending /\ e = pending[k]
  BY <1>1, NextOfWork
<1> HIDE DEF k
<1>3. CASE rows' = rows
  BY <1>1, <1>3, IdsKept
<1>4. CASE rows' = rows \cup {Id(e)}
  <2> HIDE DEF e
  <2>1. Id(e) \in Ids /\ Id(e)[1] = session /\ Id(e)[2] <= seq
    BY <1>2, ImportLedgerAssumption DEF IdsFresh, Id, Ids, Events
  <2>2. session \in Nat
    BY ShapeParts DEF Inv, QueueShape
  <2> QED
    BY <1>1, <1>4, <2>1, <2>2 DEF IdsFresh
<1> QED
  BY <1>3, <1>4 DEF CommitNext, Commit, Insert

LEMMA IdsDeliver == ASSUME Inv, IdsFresh, Deliver PROVE IdsFresh'
<1> DEFINE k == Acknowledged
<1>1. /\ pending' \in Seq(Events) /\ pending \in Seq(Events) /\ k \in Nat /\ Len(pending) \in Nat
      /\ k <= Len(pending) /\ Len(pending') = Len(pending) - k
      /\ UNCHANGED <<session, seq, rows>>
      /\ \A i \in 1..Len(pending') : pending'[i] = pending[i + k]
  BY DeliverQueue, ShapeParts DEF Inv, QueueShape, Deliver
<1> HIDE DEF k
<1>2. DOMAIN pending' = 1..Len(pending') /\ DOMAIN pending = 1..Len(pending)
  BY <1>1
<1>3. \A i \in DOMAIN pending' : i \in Nat /\ i + k \in DOMAIN pending /\ pending'[i] = pending[i + k]
  BY <1>1, <1>2
<1>4. \A i \in DOMAIN pending' : pending'[i].session = session' /\ pending'[i].seq <= seq'
  BY <1>1, <1>3 DEF IdsFresh
<1>5. ASSUME NEW i \in DOMAIN pending', NEW j \in DOMAIN pending', i # j
      PROVE  pending'[i].seq # pending'[j].seq
  <2>1. i + k # j + k
    BY <1>1, <1>3, <1>5
  <2> QED
    BY <1>3, <2>1 DEF IdsFresh
<1>6. rows' \subseteq Ids /\ \A r \in rows' : r[1] <= session' /\ (r[1] = session' => r[2] <= seq')
  BY <1>1 DEF IdsFresh
<1> QED
  BY <1>4, <1>5, <1>6 DEF IdsFresh

LEMMA IdsRestart == ASSUME Inv, IdsFresh, Restart PROVE IdsFresh'
<1>1. /\ session \in Nat /\ session' = session + 1 /\ seq' = 0 /\ pending' = <<>> /\ rows' = rows
  BY ShapeParts DEF Inv, QueueShape, Restart, Fresh
<1>2. \A r \in Ids : r[1] \in Nat
  BY DEF Ids
<1>3. \A r \in rows : r[1] <= session' /\ r[1] # session'
  BY <1>1, <1>2 DEF IdsFresh
<1> QED
  BY <1>1, <1>3 DEF IdsFresh

-----------------------------------------------------------------------------
(* No interval is lost                                                     *)

LEMMA SomeOwed ==
  ASSUME Inv, Inv', NEW d \in Days
  PROVE  /\ IsFiniteSet(OwedAt(d)) /\ IsFiniteSet(OwedAt(d)')
         /\ Cardinality(OwedAt(d)) \in Nat /\ Cardinality(OwedAt(d)') \in Nat
BY OwedFinite, OwedFiniteNext DEF OwedCounted

\* While no total changes, it is enough that no event leaves what is owed.
LEMMA LostNone ==
  ASSUME Inv, Inv', NEW d \in Days, NoneLost(d), counted'[d] = counted[d], due'[d] = due[d],
         OwedAt(d) \subseteq OwedAt(d)'
  PROVE  NoneLost(d)'
<1>1. Cardinality(OwedAt(d)) <= Cardinality(OwedAt(d)')
  BY SomeOwed, FS_Subset
<1>2. counted[d] \in Nat /\ due[d] \in Nat
  BY ShapeParts DEF Inv, StoreShape
<1> QED
  BY <1>1, <1>2, SomeOwed DEF NoneLost

\* A queue with room owes the new interval in addition.
LEMMA LostNoneQueue ==
  ASSUME Inv, Inv', IdsFresh, NEW d \in Days, NoneLost(d), NEW e \in Events, Queue(e),
         pending' = Append(pending, e), Id(e) = <<session, seq + 1>>,
         UNCHANGED <<rows, counted>>,
         due'[d] = due[d] + IF e.energy /\ e.day = d THEN 1 ELSE 0
  PROVE  NoneLost(d)'
<1> DEFINE n == Len(pending) + 1
<1>1. pending \in Seq(Events) /\ n \in Nat /\ n >= 1 /\ DOMAIN pending = 1..(n - 1)
  BY ShapeParts DEF Inv, QueueShape
<1>2. /\ DOMAIN pending' = 1..n /\ pending'[n] = e
      /\ \A i \in 1..(n - 1) : pending'[i] = pending[i]
  BY <1>1, AppendProperties
<1> HIDE DEF n
<1>3. OwedAt(d) \subseteq OwedAt(d)'
  <2>1. \A i \in 1..(n - 1) : i \in 1..n
    BY <1>1
  <2>2. rows' = rows
    OBVIOUS
  <2> QED
    BY <1>1, <1>2, <2>1, <2>2, Zenon DEF OwedAt, Id
<1>4. counted[d] \in Nat /\ due[d] \in Nat
  BY ShapeParts DEF Inv, StoreShape
<1>5. CASE ~(e.energy /\ e.day = d)
  BY <1>3, <1>4, <1>5, LostNone
<1>6. CASE e.energy /\ e.day = d
  <2>1. Id(e) \notin rows
    <3>1. seq \in Nat
      BY ShapeParts, ImportLedgerAssumption DEF Inv, QueueShape
    <3> QED
      BY <3>1 DEF IdsFresh
  <2>2. OwedAt(d) \cup {n} \subseteq OwedAt(d)' /\ n \notin OwedAt(d)
    <3>1. n \in 1..n /\ n \notin 1..(n - 1) /\ rows' = rows
      BY <1>1
    <3>2. n \notin OwedAt(d)
      BY <1>1, <3>1 DEF OwedAt
    <3>3. n \in OwedAt(d)'
      BY <1>2, <1>6, <2>1, <3>1 DEF OwedAt, Id
    <3> QED
      BY <1>3, <3>2, <3>3
  <2>3. Cardinality(OwedAt(d) \cup {n}) = Cardinality(OwedAt(d)) + 1
    BY <2>2, SomeOwed, FS_AddElement
  <2>4. Cardinality(OwedAt(d) \cup {n}) <= Cardinality(OwedAt(d)')
    BY <2>2, SomeOwed, FS_Subset
  <2>5. counted'[d] = counted[d] /\ due'[d] = due[d] + 1
    BY <1>6
  <2> QED
    BY <1>4, <2>3, <2>4, <2>5, SomeOwed DEF NoneLost
<1> QED
  BY <1>5, <1>6

\* A commit counts what it no longer owes.
LEMMA LostNoneCommit ==
  ASSUME Inv, Inv', IdsFresh, CommitNext, NEW d \in Days, NoneLost(d)
  PROVE  NoneLost(d)'
<1> DEFINE e == Head(job.todo)  k == Len(job.acked) + 1
<1>1. StoreShape /\ due' = due /\ pending' = pending /\ job.todo # <<>>
  BY ShapeParts DEF Inv, CommitNext
<1>2. e \in Events /\ k \in DOMAIN pending /\ e = pending[k]
  BY <1>1, NextOfWork
<1>3. counted[d] \in Nat /\ due[d] \in Nat
  BY <1>1 DEF StoreShape
<1>4. CASE UNCHANGED store
  <2>1. OwedAt(d) \subseteq OwedAt(d)' /\ counted' = counted
    BY <1>1, <1>4 DEF OwedAt, Id
  <2> QED
    BY <1>1, <2>1, LostNone
<1>5. CASE Insert(e)
  <2>1. rows' = rows \cup {Id(e)}
    BY <1>5 DEF Insert
  <2>2. OwedAt(d) \ {k} \subseteq OwedAt(d)'
    <3> SUFFICES ASSUME NEW i \in OwedAt(d) \ {k} PROVE i \in OwedAt(d)'
      OBVIOUS
    <3>1. i \in DOMAIN pending /\ pending[i].seq # pending[k].seq
      BY <1>2 DEF OwedAt, IdsFresh
    <3>2. Id(pending[i]) # Id(e)
      BY <1>2, <3>1 DEF Id
    <3> QED
      BY <1>1, <2>1, <3>1, <3>2 DEF OwedAt, Id
  <2>3. CASE e.energy /\ e.day = d
    <3>1. counted'[d] = counted[d] + 1
      BY <1>1, <1>5, <2>3 DEF Insert, StoreShape
    <3>2. Cardinality(OwedAt(d)) <= Cardinality(OwedAt(d)') + 1
      <4>1. IsFiniteSet(OwedAt(d) \ {k}) /\ Cardinality(OwedAt(d) \ {k}) \in Nat
        BY SomeOwed, FS_RemoveElement, FS_CardinalityType
      <4>2. Cardinality(OwedAt(d) \ {k}) <= Cardinality(OwedAt(d)')
        BY <2>2, SomeOwed, FS_Subset
      <4>3. Cardinality(OwedAt(d)) <= Cardinality(OwedAt(d) \ {k}) + 1
        <5> HIDE DEF e, k
        <5>1. CASE k \in OwedAt(d)
          <6>1. Cardinality(OwedAt(d) \ {k}) = Cardinality(OwedAt(d)) - 1
            BY <5>1, SomeOwed, FS_RemoveElement
          <6> QED
            BY <6>1, SomeOwed
        <5>2. CASE k \notin OwedAt(d)
          <6>1. OwedAt(d) \ {k} = OwedAt(d)
            BY <5>2
          <6> QED
            BY <6>1, SomeOwed
        <5> QED
          BY <5>1, <5>2
      <4> QED
        BY <4>1, <4>2, <4>3, SomeOwed
    <3> HIDE DEF e, k
    <3> QED
      BY <1>1, <1>3, <3>1, <3>2, SomeOwed DEF NoneLost
  <2>4. CASE ~(e.energy /\ e.day = d)
    <3>1. counted'[d] = counted[d]
      BY <1>1, <1>5, <2>4 DEF Insert, StoreShape
    <3>2. k \notin OwedAt(d)
      BY <1>2, <2>4 DEF OwedAt
    <3> HIDE DEF e, k
    <3> QED
      BY <1>1, <2>2, <3>1, <3>2, LostNone
  <2> QED
    BY <2>3, <2>4
<1> QED
  BY <1>4, <1>5 DEF CommitNext, Commit

\* An answer retires nothing that is owed.
LEMMA LostNoneDeliver ==
  ASSUME Inv, Inv', Deliver, NEW d \in Days, NoneLost(d)
  PROVE  NoneLost(d)'
<1> DEFINE k == Acknowledged
           f == [i \in OwedAt(d) |-> i - k]
<1>1. /\ pending' \in Seq(Events) /\ pending \in Seq(Events) /\ k \in Nat /\ Len(pending) \in Nat
      /\ Len(pending') = Len(pending) - k /\ UNCHANGED <<rows, counted, due>>
      /\ \A i \in 1..Len(pending') : pending'[i] = pending[i + k]
  BY DeliverQueue, ShapeParts DEF Inv, QueueShape, Deliver
<1>2. \A i \in 1..k : Id(pending[i]) \in rows
  BY RetiredDurable
<1> HIDE DEF k
<1>3. DOMAIN pending' = 1..Len(pending') /\ DOMAIN pending = 1..Len(pending)
  BY <1>1
<1>4. \A i \in OwedAt(d) : i \in Nat /\ i - k \in OwedAt(d)'
  <2> SUFFICES ASSUME NEW i \in OwedAt(d) PROVE i \in Nat /\ i - k \in OwedAt(d)'
    OBVIOUS
  <2>1. /\ i \in 1..Len(pending) /\ pending[i].energy /\ pending[i].day = d
        /\ Id(pending[i]) \notin rows
    BY <1>3 DEF OwedAt
  <2>2. i \notin 1..k
    BY <1>2, <2>1
  <2>3. i - k \in 1..Len(pending') /\ (i - k) + k = i
    BY <1>1, <2>1, <2>2
  <2>4. pending'[i - k] = pending[i]
    BY <1>1, <2>3
  <2> QED
    BY <1>1, <1>3, <2>1, <2>3, <2>4 DEF OwedAt, Id
<1>5. f \in Injection(OwedAt(d), OwedAt(d)')
  BY <1>1, <1>4 DEF Injection, IsInjective
<1>6. Cardinality(OwedAt(d)) <= Cardinality(OwedAt(d)')
  BY <1>5, SomeOwed, FS_Injection
<1>7. counted[d] \in Nat /\ due[d] \in Nat
  BY ShapeParts DEF Inv, StoreShape
<1> QED
  BY <1>1, <1>6, <1>7, SomeOwed DEF NoneLost

-----------------------------------------------------------------------------
(* A day without a mark                                                    *)

\* Every mark of an event is one of the ledger, whether it finds room or not; an
\* event that finds none leaves no day without a mark.
LEMMA MarksKept ==
  ASSUME NEW e, NEW marks, Queue(e), e.unknown = unknown \cup marks
  PROVE  /\ marks \subseteq unknown' /\ unknown \subseteq unknown'
         /\ pending' = Append(pending, e) \/ today \in unknown'
         /\ queued \subseteq unknown => queued' \subseteq unknown'
BY DEF Queue

LEMMA KnownSample ==
  ASSUME WorldShape
  PROVE  /\ last.known \in BOOLEAN /\ last.active \in BOOLEAN
         /\ last.known => last # NoSample
<1>1. CASE last = NoSample
  BY <1>1 DEF NoSample
<1>2. CASE last \in Samples /\ last # NoSample
  BY <1>2 DEF Samples
<1> QED
  BY <1>1, <1>2 DEF WorldShape

LEMMA RecordTrust ==
  ASSUME Inv, Inv', Trust, NEW gap \in BOOLEAN, NEW meter \in BOOLEAN, NEW seen \in BOOLEAN,
         Record(gap, meter, seen)
  PROVE  IdsFresh' /\ Permission' /\ CleanDay' /\ Summary'
<1> DEFINE active == applied \/ tail \/ (open /\ seen)
           measured == active \/ last.active
           energy == measured /\ SameDay /\ meter /\ last.meter /\ today \in flowed
           marks == RecordMarks(active, gap, meter)
           complete == IF Boundary(active, gap, meter) THEN {today} ELSE {}
           e == Event(today, energy, complete, marks)
<1>1. /\ WorldShape /\ StoreShape /\ JobShape /\ seq < MaxEvents /\ today \in Days
      /\ UNCHANGED <<today, open, source, session, store, unproven>>
      /\ tail' = FALSE /\ last'.known = last.known
      /\ cache' = NoCache /\ job' = [job EXCEPT !.fresh = FALSE]
  BY ShapeParts DEF Inv, Record, BeginCapture, WorldShape
<1>2. /\ applied' = IF tail THEN applied ELSE active
      /\ last'.active = IF tail THEN applied ELSE active
  BY DEF Record
<1>3. /\ \/ Queue(e)
         \/ /\ UNCHANGED <<seq, pending, unknown, queued>>
            /\ ~measured /\ unknown \cup marks = queued
      /\ due' = IF energy THEN [due EXCEPT ![today] = @ + 1] ELSE due
      /\ blind' = IF energy /\ ~gap THEN blind ELSE blind \cup flowed
      /\ flowed' = IF open THEN {today} ELSE {}
  BY DEF Record
<1>4. /\ e \in Events /\ e.energy = energy /\ e.day = today /\ e.session = session
      /\ e.seq = seq + 1 /\ e.unknown = unknown \cup marks
  <2>1. marks \subseteq Days
    BY <1>1, MarksAreDays DEF RecordMarks, WorldShape, Samples
  <2>2. complete \subseteq Days /\ energy \in BOOLEAN
    BY <1>1
  <2> HIDE DEF energy, complete, marks
  <2> QED
    BY <1>1, <2>1, <2>2, EventType DEF Event
<1>5. energy \in BOOLEAN /\ measured \in BOOLEAN /\ active \in BOOLEAN /\ (energy => measured)
  BY DEF energy, measured, active
<1>6. IdsFresh'
  <2> HIDE DEF e
  <2>1. CASE Queue(e)
    BY <1>1, <1>4, <2>1, IdsQueue DEF Trust, store
  <2>2. CASE UNCHANGED <<seq, pending>>
    BY <1>1, <2>2, IdsKept DEF Trust, store
  <2> QED
    BY <1>3, <2>1, <2>2
<1>7. Permission'
  <2> SUFFICES ASSUME last.known PROVE open = applied' /\ last'.active = applied'
    BY <1>1 DEF Permission
  <2>1. open = applied /\ open \in BOOLEAN /\ applied \in BOOLEAN /\ tail \in BOOLEAN
    BY <1>1 DEF Trust, Permission, WorldShape
  <2> QED
    BY <1>2, <2>1 DEF active
<1>8. queued \subseteq unknown
  BY DEF Trust, Summary
<1>9. marks \subseteq unknown' /\ unknown \subseteq unknown' /\ queued' \subseteq unknown'
  <2> HIDE DEF e, marks
  <2>1. CASE Queue(e)
    BY <1>4, <1>8, <2>1, MarksKept
  <2>2. CASE UNCHANGED <<seq, pending, unknown, queued>> /\ unknown \cup marks = queued
    BY <1>8, <2>2
  <2> QED
    BY <1>3, <2>1, <2>2
<1>10. Summary'
  <2>1. job'.stage = job.stage /\ job'.sum = job.sum /\ job'.day = job.day /\ counted' = counted
    BY <1>1 DEF JobShape, Jobs
  <2> QED
    BY <1>1, <1>9, <2>1 DEF Trust, Summary
<1>11. ASSUME Clean' PROVE CleanDay'
  <2>1. Clean /\ today \notin marks /\ today \notin unknown'
    BY <1>1, <1>9, <1>11 DEF Clean
  <2>2. /\ last.known
        /\ today \in flowed => applied \/ tail
        /\ today \notin blind /\ NoneLost(today)
    BY <2>1 DEF Trust, CleanDay
  <2>3. meter /\ ~gap /\ (SameDay => last.meter) /\ (SameDay \/ Boundary(active, gap, meter))
    BY <1>1, <2>1, <2>2, KnownSample DEF RecordMarks
  <2>4. today \in flowed => energy
    <3> SUFFICES ASSUME today \in flowed PROVE energy
      OBVIOUS
    <3>1. active
      BY <2>2
    <3>2. SameDay
      BY <2>3, <3>1 DEF Boundary
    <3> QED
      BY <2>3, <3>1, <3>2
  <2>5. today' \notin blind'
    BY <1>1, <1>3, <2>2, <2>3, <2>4
  <2>6. today' \in flowed' => applied' \/ tail'
    <3> SUFFICES ASSUME open PROVE applied'
      BY <1>1, <1>3
    <3>1. applied
      BY <2>2 DEF Trust, Permission
    <3> QED
      BY <1>2, <3>1
  <2>7. NoneLost(today)'
    <3>1. due'[today] = due[today] + IF energy THEN 1 ELSE 0
      BY <1>1, <1>3 DEF StoreShape
    <3>2. ASSUME NEW d \in Days, d = today PROVE NoneLost(d)'
      <4>1. CASE Queue(e)
        <5> HIDE DEF energy, marks, e
        <5>1. pending' = Append(pending, e)
          BY <1>4, <2>1, <4>1, MarksKept
        <5>2. Id(e) = <<session, seq + 1>>
          BY <1>4 DEF Id
        <5>3. NoneLost(d) /\ UNCHANGED <<rows, counted>>
              /\ due'[d] = due[d] + IF e.energy /\ e.day = d THEN 1 ELSE 0
          BY <1>1, <1>4, <2>2, <3>1, <3>2 DEF store
        <5> QED
          BY <1>4, <4>1, <5>1, <5>2, <5>3, LostNoneQueue DEF Trust
      <4>2. CASE pending' = pending /\ ~measured
        <5>1. OwedAt(d) \subseteq OwedAt(d)' /\ counted' = counted
          BY <1>1, <4>2 DEF OwedAt, Id
        <5>2. due' = due
          BY <1>3, <1>5, <4>2
        <5> QED
          BY <2>2, <3>2, <5>1, <5>2, LostNone
      <4> QED
        BY <1>3, <4>1, <4>2
    <3> QED
      BY <1>1, <3>2
  <2> QED
    BY <1>1, <2>2, <2>5, <2>6, <2>7 DEF CleanDay
<1>12. CleanDay'
  BY <1>11 DEF CleanDay
<1> QED
  BY <1>6, <1>7, <1>10, <1>12

LEMMA ConfirmTrust ==
  ASSUME Inv, Inv', Trust, NEW target \in BOOLEAN, Confirm(target)
  PROVE  IdsFresh' /\ Permission' /\ CleanDay' /\ Summary'
<1> DEFINE e == Event(last.day, FALSE, {}, SourceMarks)
<1>1. /\ WorldShape /\ StoreShape /\ JobShape /\ seq < MaxEvents /\ today \in Days
      /\ UNCHANGED <<today, source, session, store, unproven, due, blind>>
      /\ open' = target /\ flowed' = IF target THEN flowed \cup {today} ELSE flowed
      /\ cache' = NoCache /\ job' = [job EXCEPT !.fresh = FALSE]
  BY ShapeParts DEF Inv, Confirm, Import, BeginCapture, WorldShape
<1>2. job'.stage = job.stage /\ job'.sum = job.sum /\ job'.day = job.day /\ counted' = counted
  BY <1>1 DEF JobShape, Jobs
<1>3. /\ queued \subseteq unknown
      /\ last.known => open = applied /\ last.active = applied
      /\ Clean => /\ last.known
                  /\ today \in flowed => applied \/ tail
                  /\ today \notin blind
                  /\ NoneLost(today)
  BY DEF Trust, Summary, Permission, CleanDay
<1>4. ASSUME UNCHANGED <<seq, pending, queued, last, applied, tail>>, unknown \subseteq unknown',
             last = NoSample => today \in unknown',
             last # NoSample => last.active = target /\ last.known
      PROVE  IdsFresh' /\ Permission' /\ CleanDay' /\ Summary'
  <2>1. IdsFresh'
    BY <1>1, <1>4, IdsKept DEF Trust, store
  <2>2. Permission'
    BY <1>1, <1>3, <1>4, KnownSample DEF Permission
  <2>3. Summary'
    BY <1>1, <1>2, <1>3, <1>4 DEF Trust, Summary
  <2>4. ASSUME Clean' PROVE CleanDay'
    <3>1. Clean /\ last # NoSample
      BY <1>1, <1>4, <2>4 DEF Clean
    <3>2. today' \in flowed' => applied' \/ tail'
      BY <1>1, <1>3, <1>4, <3>1
    <3>3. NoneLost(today)'
      <4>1. OwedAt(today) \subseteq OwedAt(today)' /\ counted' = counted
        BY <1>1, <1>4 DEF OwedAt, Id
      <4>2. ASSUME NEW d \in Days, d = today PROVE NoneLost(d)'
        <5>1. OwedAt(d) \subseteq OwedAt(d)' /\ NoneLost(d)
          BY <1>1, <1>3, <1>4, <3>1, <4>2 DEF OwedAt, Id
        <5> QED
          BY <1>1, <1>2, <5>1, LostNone
      <4> QED
        BY <1>1, <4>2
    <3> QED
      BY <1>1, <1>3, <1>4, <3>1, <3>2, <3>3 DEF CleanDay
  <2> QED
    BY <2>1, <2>2, <2>3, <2>4 DEF CleanDay
<1>5. CASE last = NoSample
  <2>1. /\ unknown' = unknown \cup {today}
        /\ UNCHANGED <<seq, last, applied, tail, pending, queued>>
    BY <1>5 DEF Confirm
  <2> QED
    BY <1>4, <1>5, <2>1
<1>6. CASE last # NoSample /\ last.active = target /\ last.known /\ unknown \cup SourceMarks = queued
  <2>1. UNCHANGED <<seq, last, applied, tail, pending, queued, unknown>>
    BY <1>6 DEF Confirm
  <2> QED
    BY <1>4, <1>6, <2>1
<1>7. CASE last # NoSample /\ ~(last.active = target /\ last.known /\ unknown \cup SourceMarks = queued)
  <2>1. /\ tail' = (tail \/ (applied /\ ~target)) /\ applied' = target
        /\ last' = [last EXCEPT !.active = target, !.known = TRUE] /\ Queue(e)
    BY <1>7 DEF Confirm
  <2>2. last \in Samples
    BY <1>1, <1>7 DEF WorldShape
  <2>3. last'.active = target /\ last'.known = TRUE /\ last.day \in Days
    BY <2>1, <2>2 DEF Samples
  <2>4. /\ e \in Events /\ e.session = session /\ e.seq = seq + 1
        /\ e.unknown = unknown \cup SourceMarks /\ e.energy = FALSE
    <3>1. {} \in SUBSET Days /\ SourceMarks \in SUBSET Days /\ FALSE \in BOOLEAN
      BY <1>1, MarksAreDays
    <3>2. e \in Events /\ e.session = session /\ e.seq = seq + 1
      <4>1. session \in Nat /\ seq + 1 \in 1..MaxEvents /\ unknown \cup SourceMarks \subseteq Days
        BY <1>1, <3>1, ShapeParts, ImportLedgerAssumption DEF Inv, QueueShape, WorldShape
      <4> QED
        BY <2>3, <4>1 DEF Event, Events
    <3>3. e.unknown = unknown \cup SourceMarks /\ e.energy = FALSE
      BY DEF Event
    <3> QED
      BY <3>1, <3>2, <3>3
  <2> HIDE DEF e
  <2>5. /\ unknown \subseteq unknown' /\ queued' \subseteq unknown'
        /\ pending' = Append(pending, e) \/ today \in unknown'
    <3>1. unknown \subseteq unknown'
      BY <2>1, <2>4, MarksKept
    <3>2. pending' = Append(pending, e) \/ today \in unknown'
      BY <2>1, <2>4, MarksKept
    <3>3. queued' \subseteq unknown'
      BY <1>3, <2>1, <2>4, MarksKept
    <3> QED
      BY <3>1, <3>2, <3>3
  <2>6. IdsFresh'
    BY <1>1, <2>1, <2>4, IdsQueue DEF Trust, store
  <2>7. Permission'
    BY <1>1, <2>1, <2>3 DEF Permission
  <2>8. Summary'
    BY <1>1, <1>2, <2>5 DEF Trust, Summary
  <2>9. ASSUME Clean' PROVE CleanDay'
    <3>1. Clean /\ pending' = Append(pending, e)
      BY <1>1, <2>5, <2>9 DEF Clean
    <3>2. today' \in flowed' => applied' \/ tail'
      <4>1. CASE target
        BY <2>1, <4>1
      <4>2. CASE ~target
        BY <1>1, <1>3, <2>1, <3>1, <4>2
      <4> QED
        BY <4>1, <4>2
    <3>3. NoneLost(today)'
      <4>1. ASSUME NEW d \in Days, d = today PROVE NoneLost(d)'
        <5>1. /\ NoneLost(d) /\ Id(e) = <<session, seq + 1>> /\ UNCHANGED <<rows, counted>>
              /\ due' = due
          BY <1>1, <1>3, <2>4, <3>1, <4>1 DEF Id, store
        <5>2. due'[d] = due[d] + IF e.energy /\ e.day = d THEN 1 ELSE 0
          <6>1. due[d] \in Nat
            BY <1>1 DEF StoreShape
          <6> QED
            BY <2>4, <5>1, <6>1
        <5> QED
          BY <2>1, <2>4, <3>1, <5>1, <5>2, LostNoneQueue DEF Trust
      <4> QED
        BY <1>1, <4>1
    <3> QED
      BY <1>1, <1>3, <2>3, <3>1, <3>2, <3>3 DEF CleanDay
  <2> QED
    BY <2>6, <2>7, <2>8, <2>9 DEF CleanDay
<1> QED
  BY <1>5, <1>6, <1>7

\* Steps of the ledger that queue nothing: they may mark days, forget the
\* permission and retire the summary.
LEMMA MarkingTrust ==
  ASSUME Inv, Inv', Trust,
         UNCHANGED <<today, session, seq, pending, store, unproven, due, blind, applied, tail,
                     queued>>,
         unknown \subseteq unknown',
         cache' = NoCache \/ cache' = cache,
         \/ job'.stage # "done"
         \/ job'.stage = job.stage /\ job'.sum = job.sum /\ job'.day = job.day
         \/ job'.sum = counted[job'.day],
         \/ UNCHANGED <<open, flowed>> /\ last'.known = last.known /\ last'.active = last.active
         \/ today \in unknown' /\ last'.known = FALSE
  PROVE  IdsFresh' /\ Permission' /\ CleanDay' /\ Summary'
<1>1. IdsFresh'
  BY IdsKept DEF Trust, store
<1>2. Permission'
  BY DEF Trust, Permission
<1>3. Summary'
  BY DEF Trust, Summary, store
<1>4. ASSUME Clean' PROVE CleanDay'
  <2>1. Clean /\ UNCHANGED <<open, flowed>> /\ last'.known = last.known
    BY <1>4 DEF Clean
  <2>2. /\ last.known
        /\ today \in flowed => applied \/ tail
        /\ today \notin blind
        /\ NoneLost(today)
    BY <2>1 DEF Trust, CleanDay
  <2>3. NoneLost(today)'
    BY <2>2, Zenon DEF NoneLost, OwedAt, Id, store
  <2> QED
    BY <2>1, <2>2, <2>3 DEF CleanDay
<1> QED
  BY <1>1, <1>2, <1>3, <1>4 DEF CleanDay

LEMMA QuietTrust ==
  ASSUME Inv, Inv', Trust,
         \/ CaptureFails \/ Abort \/ LaterTick \/ UNCHANGED vars
         \/ Reconcile \/ ReadCheckpoint \/ Summarise
         \/ \E target \in BOOLEAN : Unconfirmed(target)
         \/ \E gap \in BOOLEAN : Look(gap)
         \/ \E target \in BOOLEAN, other \in Sources : Operate(target, other)
  PROVE  IdsFresh' /\ Permission' /\ CleanDay' /\ Summary'
<1>1. WorldShape /\ JobShape /\ StoreShape
  BY ShapeParts DEF Inv
<1>2. ASSUME job' = [job EXCEPT !.fresh = FALSE] \/ job' = job
      PROVE  job'.stage = job.stage /\ job'.sum = job.sum /\ job'.day = job.day
  BY <1>1, <1>2 DEF JobShape, Jobs
<1>3. CASE CaptureFails \/ Abort \/ LaterTick \/ UNCHANGED vars
  <2>1. /\ UNCHANGED <<today, session, seq, pending, store, unproven, due, blind, applied, tail,
                       queued, open, flowed, last>>
        /\ cache' = NoCache \/ cache' = cache
        /\ unknown \subseteq unknown'
        /\ job' = [job EXCEPT !.fresh = FALSE] \/ job' = job
    BY <1>3 DEF CaptureFails, Abort, LaterTick, BeginCapture, vars
  <2> QED
    BY <1>2, <2>1, MarkingTrust
<1>4. ASSUME Invalidate,
             UNCHANGED <<today, store, unproven, due, blind>>
      PROVE  IdsFresh' /\ Permission' /\ CleanDay' /\ Summary'
  <2>1. /\ UNCHANGED <<session, seq, pending, applied, tail, queued>>
        /\ cache' = NoCache /\ job' = [job EXCEPT !.fresh = FALSE]
        /\ unknown \subseteq unknown' /\ today \in unknown'
        /\ last' = [last EXCEPT !.known = FALSE]
    BY <1>4 DEF Invalidate, BeginCapture
  <2>2. last'.known = FALSE
    <3>1. CASE last = NoSample
      BY <2>1, <3>1 DEF NoSample
    <3>2. CASE last \in Samples
      BY <2>1, <3>2 DEF Samples
    <3> QED
      BY <1>1, <3>1, <3>2 DEF WorldShape
  <2> QED
    BY <1>2, <1>4, <2>1, <2>2, MarkingTrust
<1>5. CASE \/ \E target \in BOOLEAN : Unconfirmed(target)
           \/ \E target \in BOOLEAN, other \in Sources : Operate(target, other)
  <2>1. Invalidate /\ UNCHANGED <<today, store, unproven, due, blind>>
    BY <1>5 DEF Unconfirmed, Operate, Import
  <2> QED
    BY <1>4, <2>1
<1>6. CASE \E gap \in BOOLEAN : Look(gap)
  <2>1. PICK gap \in BOOLEAN : Look(gap)
    BY <1>6
  <2>2. /\ UNCHANGED <<today, session, seq, pending, store, unproven, due, blind, applied, tail,
                       queued, open, flowed, last>>
        /\ cache' = NoCache \/ cache' = cache
        /\ unknown \subseteq unknown'
        /\ job' = [job EXCEPT !.fresh = FALSE] \/ job' = job
    BY <2>1 DEF Look, MarkUnknown, BeginCapture
  <2> QED
    BY <1>2, <2>2, MarkingTrust
<1>7. CASE Reconcile \/ ReadCheckpoint \/ Summarise
  <2>1. UNCHANGED <<today, session, seq, pending, store, unproven, due, blind, applied, tail,
                    queued, open, flowed, last, unknown, cache>>
    BY <1>7 DEF Reconcile, ReadCheckpoint, Summarise
  <2>2. \/ job'.stage # "done"
        \/ job'.stage = job.stage /\ job'.sum = job.sum /\ job'.day = job.day
        \/ job'.sum = counted[job'.day]
    <3>1. CASE Reconcile
      <4>1. CASE job' = Snapshot
        BY <4>1 DEF Snapshot, NoJob
      <4>2. CASE job' = job
        BY <4>2
      <4> QED
        BY <3>1, <4>1, <4>2 DEF Reconcile
    <3>2. CASE Failed
      BY <1>1, <3>2 DEF Failed, JobShape, Jobs
    <3>3. CASE ReadCheckpoint /\ ~Failed
      BY <1>1, <3>3 DEF ReadCheckpoint, JobShape, Jobs
    <3>4. CASE Summarise /\ ~Failed
      <4>1. job' = [job EXCEPT !.stage = "done", !.sum = counted[job.day],
                               !.complete = coverage[job.day] = "complete"]
        BY <3>4 DEF Summarise
      <4>2. job'.sum = counted[job.day] /\ job'.day = job.day
        BY <1>1, <4>1 DEF JobShape, Jobs
      <4> QED
        BY <4>2
    <3> QED
      BY <1>7, <3>1, <3>2, <3>3, <3>4
  <2> QED
    BY <2>1, <2>2, MarkingTrust
<1> QED
  BY <1>3, <1>5, <1>6, <1>7

LEMMA CommitTrust ==
  ASSUME Inv, Inv', Trust, CommitNext
  PROVE  IdsFresh' /\ Permission' /\ CleanDay' /\ Summary'
<1>1. /\ UNCHANGED <<world, memory, cache, ghost>> /\ job.todo # <<>> /\ job.stage = "commit"
      /\ JobShape /\ today \in Days
  BY ShapeParts DEF Inv, CommitNext, WorldShape
<1>2. job'.stage # "done"
  <2>1. CASE Failed
    BY <1>1, <2>1 DEF Failed, JobShape, Jobs
  <2>2. CASE ~Failed
    BY <1>1, <2>2 DEF CommitNext, JobShape, Jobs
  <2> QED
    BY <2>1, <2>2
<1>3. cache = NoCache
  <2>1. pending # <<>>
    BY <1>1, NextOfWork
  <2> QED
    BY <2>1 DEF Trust, Summary
<1>4. Permission' /\ Summary'
  BY <1>1, <1>2, <1>3 DEF Trust, Permission, Summary
<1>5. ASSUME NEW d \in Days, NoneLost(d) PROVE NoneLost(d)'
  BY <1>5, LostNoneCommit DEF Trust
<1>6. CleanDay'
  <2>1. NoneLost(today) => NoneLost(today)'
    <3>1. ASSUME NEW d \in Days, d = today, NoneLost(today) PROVE NoneLost(d)'
      BY <1>5, <3>1
    <3> QED
      BY <1>1, <3>1
  <2> QED
    BY <1>1, <2>1 DEF Trust, CleanDay, Clean
<1> QED
  BY <1>4, <1>6, IdsCommit DEF Trust

LEMMA DeliverTrust ==
  ASSUME Inv, Inv', Trust, Deliver
  PROVE  IdsFresh' /\ Permission' /\ CleanDay' /\ Summary'
<1>1. /\ UNCHANGED <<world, last, applied, tail, queued, store, ghost>>
      /\ unknown \subseteq unknown' /\ job' = NoJob /\ today \in Days
  BY ShapeParts DEF Inv, Deliver, WorldShape
<1>2. Permission'
  BY <1>1 DEF Trust, Permission
<1>3. Summary'
  <2>1. job'.stage # "done" /\ queued' \subseteq unknown'
    BY <1>1 DEF Trust, Summary, NoJob
  <2>2. ASSUME cache' # NoCache PROVE pending' = <<>> /\ cache'.sum = counted'[cache'.day]
    <3>1. CASE cache' = cache
      <4>1. pending = <<>> /\ cache'.sum = counted'[cache'.day]
        BY <1>1, <2>2, <3>1 DEF Trust, Summary, store
      <4>2. Len(pending) = 0
        BY <4>1
      <4>3. pending' \in Seq(Events) /\ Len(pending') = 0
        BY <4>2, DeliverQueue
      <4> QED
        BY <4>1, <4>3
    <3>2. CASE cache' # cache
      <4>1. /\ pending' = <<>> /\ job.stage = "done"
            /\ cache' = [day |-> job.day, source |-> job.source,
                         complete |-> job.complete, sum |-> job.sum]
        BY <2>2, <3>2 DEF Deliver
      <4> QED
        BY <1>1, <4>1 DEF Trust, Summary, store
    <3> QED
      BY <3>1, <3>2
  <2> QED
    BY <2>1, <2>2 DEF Summary
<1>4. NoneLost(today) => NoneLost(today)'
  <2>1. ASSUME NEW d \in Days, d = today, NoneLost(today) PROVE NoneLost(d)'
    BY <2>1, LostNoneDeliver
  <2> QED
    BY <1>1, <2>1
<1>5. CleanDay'
  BY <1>1, <1>4 DEF Trust, CleanDay, Clean
<1> QED
  BY <1>2, <1>3, <1>5, IdsDeliver DEF Trust

\* A day begins with nothing due, nothing flown and nothing blind.
LEMMA MidnightTrust ==
  ASSUME Inv, Inv', Trust, CountedOnce, Midnight
  PROVE  IdsFresh' /\ Permission' /\ CleanDay' /\ Summary'
<1>1. /\ UNCHANGED <<open, source, memory, cache, job, store, due, blind>>
      /\ today' = today + 1 /\ today < LastDay
      /\ flowed' = IF open THEN flowed \cup {today'} ELSE flowed
      /\ unproven' = IF last.known /\ ~last.active /\ ~applied /\ ~tail
                       THEN unproven ELSE unproven \cup {today'}
  BY DEF Midnight
<1>2. today \in Nat /\ today' \in Days /\ today' > today /\ today' \notin 1..today
  BY <1>1, ShapeParts, ImportLedgerAssumption DEF Inv, WorldShape, Days
<1>3. IdsFresh' /\ Permission' /\ Summary'
  BY <1>1, IdsKept DEF Trust, Permission, Summary, store
<1>4. ASSUME Clean' PROVE CleanDay'
  <2>1. last.known /\ ~applied
    BY <1>1, <1>4 DEF Clean
  <2>2. ~open
    BY <2>1 DEF Trust, Permission
  <2>3. today' \notin flowed' /\ today' \notin blind' /\ due[today'] = 0
    BY <1>1, <1>2, <2>2 DEF Trust, Past
  <2>4. NoneLost(today)'
    <3>1. ASSUME NEW d \in Days, d = today' PROVE NoneLost(d)'
      <4>1. /\ counted[d] \in Nat /\ due'[d] = 0 /\ counted'[d] = counted[d]
            /\ Cardinality(OwedAt(d)') \in Nat
        BY <1>1, <2>3, <3>1, SomeOwed, ShapeParts DEF Inv, StoreShape, store
      <4> QED
        BY <4>1 DEF NoneLost
    <3> QED
      BY <1>2, <3>1 DEF NoneLost, OwedAt, Id
  <2> QED
    BY <1>1, <2>1, <2>3, <2>4 DEF CleanDay
<1> QED
  BY <1>3, <1>4 DEF CleanDay

LEMMA RestartTrust ==
  ASSUME Inv, Inv', Trust, Restart
  PROVE  IdsFresh' /\ Permission' /\ CleanDay' /\ Summary'
<1>1. /\ today' = today /\ unknown' = {today} /\ last' = NoSample /\ queued' = {}
      /\ cache' = NoCache /\ job' = NoJob
  BY DEF Restart, Fresh
<1>2. Permission' /\ CleanDay' /\ Summary'
  BY <1>1 DEF Permission, CleanDay, Clean, Summary, NoSample, NoJob
<1> QED
  BY <1>2, IdsRestart DEF Trust

LEMMA TrustNext == ASSUME Inv, Inv', Trust, CountedOnce, [Next]_vars PROVE Trust'
<1>1. Past'
  BY PastNext DEF Trust
<1>2. IdsFresh' /\ Permission' /\ CleanDay' /\ Summary'
  <2>1. CASE \E gap, meter, seen \in BOOLEAN : Record(gap, meter, seen)
    BY <2>1, RecordTrust
  <2>2. CASE \E target \in BOOLEAN : Confirm(target)
    BY <2>2, ConfirmTrust
  <2>3. CASE \/ CaptureFails \/ Abort \/ LaterTick \/ UNCHANGED vars
             \/ Reconcile \/ ReadCheckpoint \/ Summarise
             \/ \E target \in BOOLEAN : Unconfirmed(target)
             \/ \E gap \in BOOLEAN : Look(gap)
             \/ \E target \in BOOLEAN, other \in Sources : Operate(target, other)
    BY <2>3, QuietTrust
  <2>4. CASE CommitNext \/ Deliver \/ Midnight \/ Restart
    BY <2>4, CommitTrust, DeliverTrust, MidnightTrust, RestartTrust
  <2> QED
    BY <2>1, <2>2, <2>3, <2>4, Zenon DEF Next, Worker
<1> QED
  BY <1>1, <1>2 DEF Trust

LEMMA TrustInvariance == Spec => []Trust
<1> QED BY Invariance, CountedInit, CountedStep, TrustInit, TrustNext, PTL DEF Spec

-----------------------------------------------------------------------------
(* What follows                                                            *)

\* The ledger, its queue and the totals keep their shape, and the queue never
\* holds more than pending_limit events.
THEOREM LedgerTyping == Spec => []TypeOK
<1>1. Inv => TypeOK
  BY DEF Inv, Shape
<1> QED BY <1>1, Invariance, PTL

\* Replays after failed transactions or lost acknowledgements count no interval a
\* second time: what is counted and what is still owed never exceeds what was due.
THEOREM IntervalsCountedOnce == Spec => []CountedOnce
<1> QED BY Invariance, CountedInit, CountedStep, PTL DEF Spec

\* No event leaves the queue before it is durable, unless its process ends.
THEOREM EventsRetained == Spec => Retained
<1> DEFINE Kept == session' = session =>
             \A i \in DOMAIN pending : Id(pending[i]) \in rows
                                       \/ \E j \in DOMAIN pending' : pending'[j] = pending[i]
<1>1. ASSUME Inv, [Next]_vars PROVE [Kept]_vars
  <2>1. pending \in Seq(Events) /\ DOMAIN pending = 1..Len(pending) /\ Len(pending) \in Nat
    BY <1>1, ShapeParts DEF Inv, QueueShape
  <2>2. CASE pending' = pending
    BY <2>2
  <2>3. ASSUME NEW e, Queue(e) PROVE Kept
    <3>1. CASE pending' = Append(pending, e)
      <4>1. \A i \in DOMAIN pending : i \in DOMAIN pending' /\ pending'[i] = pending[i]
        BY <2>1, <3>1
      <4> QED BY <4>1
    <3> QED BY <2>2, <2>3, <3>1 DEF Queue
  <2>4. CASE Deliver
    <3> SUFFICES ASSUME NEW i \in DOMAIN pending, Id(pending[i]) \notin rows
                 PROVE  \E j \in DOMAIN pending' : pending'[j] = pending[i]
      OBVIOUS
    <3> DEFINE k == Acknowledged
    <3>1. /\ k \in Nat /\ Len(pending') = Len(pending) - k /\ pending' \in Seq(Events)
          /\ k <= Len(pending)
          /\ \A j \in 1..Len(pending') : pending'[j] = pending[j + k]
      BY <1>1, <2>4, DeliverQueue
    <3>2. i \notin 1..k
      BY <1>1, RetiredDurable
    <3> HIDE DEF k
    <3>3. DOMAIN pending' = 1..Len(pending')
      BY <3>1
    <3>4. i - k \in 1..Len(pending') /\ (i - k) + k = i
      BY <2>1, <3>1, <3>2
    <3>5. pending'[i - k] = pending[i]
      BY <3>1, <3>4
    <3> QED BY <3>3, <3>4, <3>5
  <2>5. CASE \E target \in BOOLEAN : Confirm(target)
    <3> DEFINE e == Event(last.day, FALSE, {}, SourceMarks)
    <3>1. pending' = pending \/ Queue(e)
      BY <2>5 DEF Confirm
    <3> HIDE DEF e
    <3> QED BY <2>2, <2>3, <3>1
  <2>6. ASSUME NEW gap \in BOOLEAN, NEW meter \in BOOLEAN, NEW seen \in BOOLEAN,
                Record(gap, meter, seen)
         PROVE  Kept
    <3> DEFINE active == applied \/ tail \/ (open /\ seen)
               energy == (active \/ last.active) /\ SameDay /\ meter /\ last.meter /\ today \in flowed
               complete == IF Boundary(active, gap, meter) THEN {today} ELSE {}
               e == Event(today, energy, complete, RecordMarks(active, gap, meter))
    <3>1. pending' = pending \/ Queue(e)
      BY <2>6 DEF Record
    <3> HIDE DEF e
    <3> QED BY <2>2, <2>3, <3>1
  <2>7. CASE Restart
    <3>1. session \in Nat /\ session' = session + 1
      BY <1>1, <2>7, ShapeParts DEF Restart, Inv, QueueShape
    <3> QED BY <3>1
  <2>8. CASE \/ CaptureFails \/ Abort \/ LaterTick \/ Midnight
             \/ Reconcile \/ ReadCheckpoint \/ Summarise \/ CommitNext
             \/ \E gap \in BOOLEAN : Look(gap)
    BY <2>2, <2>8 DEF CaptureFails, Abort, LaterTick, Midnight, Reconcile,
                      ReadCheckpoint, Summarise, CommitNext, Look
  <2>9. CASE \/ \E target \in BOOLEAN : Unconfirmed(target)
             \/ \E target \in BOOLEAN, other \in Sources : Operate(target, other)
    BY <2>2, <2>9 DEF Unconfirmed, Operate, Invalidate
  <2> HIDE DEF Kept
  <2>10. CASE UNCHANGED vars
    BY <2>10
  <2> QED BY <1>1, <2>4, <2>5, <2>6, <2>7, <2>8, <2>9, <2>10 DEF Next, Worker
<1> QED BY <1>1, Invariance, PTL DEF Spec, Retained

\* When today's history is trusted and the day began with a permission known to be
\* closed, every interval with import today was measured in time and is in the
\* total once, whatever was replayed, dropped, delayed or lost with a process
\* (import_topup_ledger.py:92-190, 282-345).
THEOREM TodayIsComplete == Spec => []TodayTrusted
<1>1. ASSUME Inv, CountedOnce, Trust PROVE TodayTrusted
  <2> SUFFICES ASSUME TrustedToday, today \notin unproven
               PROVE  today \notin blind /\ cache.sum = due[today]
    BY DEF TodayTrusted
  <2>1. today \in Days /\ cache # NoCache /\ cache.day = today /\ today \notin unknown
    BY <1>1, ShapeParts DEF TrustedToday, Inv, WorldShape
  <2>2. pending = <<>> /\ cache.sum = counted[today]
    BY <1>1, <2>1 DEF Trust, Summary
  <2>3. today \notin blind /\ NoneLost(today)
    BY <1>1, <2>1 DEF Trust, CleanDay, Clean
  <2>4. Cardinality(OwedAt(today)) = 0 /\ Owed(today) = 0
    <3>1. OwedAt(today) = {}
      BY <2>2 DEF OwedAt
    <3> QED
      BY <1>1, <2>1, <3>1, FS_EmptySet, OwedFinite DEF OwedCounted
  <2>5. counted[today] \in Nat /\ due[today] \in Nat
    BY <1>1, <2>1, ShapeParts DEF Inv, StoreShape
  <2>6. counted[today] <= due[today] /\ due[today] <= counted[today]
    BY <1>1, <2>1, <2>3, <2>4, <2>5 DEF CountedOnce, NoneLost
  <2> QED
    BY <2>2, <2>3, <2>5, <2>6
<1> QED
  BY <1>1, Invariance, CountedInit, CountedStep, TrustInvariance, PTL DEF Spec

=============================================================================
