---------------------------- MODULE StorageWorker ----------------------------
(***************************************************************************)
(* The database thread of app/storage_worker.py and its callers on the     *)
(* event loop.  Admission is bounded and never waits; a caller's timeout   *)
(* detaches the caller but never the job; shutdown cancels what is queued  *)
(* and lets the active operation finish on the thread that owns the        *)
(* connection.  The thread and the event loop share a condition and hand   *)
(* results over through futures, so a job's result is visible to the loop  *)
(* before the thread gives its slot back.                                  *)
(***************************************************************************)
EXTENDS Integers, Sequences, FiniteSets

CONSTANTS
  Callers,  \* API requests, audit and price jobs: one call each at a time
  Ledger,   \* the import ledger's reconciliation, the accounting caller
  Capacity, \* jobs outstanding, the running one included
  None      \* no job

ASSUME StorageWorkerAssumption ==
  /\ Ledger \notin Callers /\ None \notin Callers \cup {Ledger}
  /\ Capacity \in Nat /\ Capacity >= 2

Slots == Callers \cup {Ledger}

VARIABLES
  queue,       \* _queue
  outstanding, \* _outstanding
  ordinary,    \* _ordinary
  stopping,    \* _stopping
  future,      \* each caller's job: its Future
  ready,       \* _ready
  thread,      \* where the thread is in _run; "ended" is _closed
  active,      \* the job it has taken
  store,       \* the connection
  lifespan,    \* main's: starting, serving, leaving, left, or not_started
  waiter,      \* each caller: idle, waiting, detached
  ran          \* history: how often its last admitted job was executed

admission == <<queue, outstanding, ordinary, stopping>>
owner     == <<ready, thread, active, store>>
callers   == <<future, waiter, ran>>
vars      == <<admission, owner, callers, lifespan>>

Init ==
  /\ queue = <<>> /\ outstanding = 0 /\ ordinary = 0 /\ stopping = FALSE
  /\ ready = "pending" /\ thread = "opening" /\ active = None /\ store = "none"
  /\ future = [c \in Slots |-> "none"] /\ waiter = [c \in Slots |-> "idle"]
  /\ ran = [c \in Slots |-> 0]
  /\ lifespan = "starting"

-----------------------------------------------------------------------------
(* The event loop: admission and waiting                                   *)

\* Mutants: ordinary jobs may take the accounting slot; capacity is exceeded.
AdmitsAny(c)     == ~stopping /\ outstanding < Capacity
AdmitsOneMore(c) == ~stopping /\ outstanding <= Capacity

Admits(c) ==
  /\ ~stopping /\ outstanding < Capacity
  /\ c = Ledger \/ ordinary < Capacity - 1

\* A caller comes back only when its last job is over.
Asks(c) == lifespan \in {"serving", "leaving"} /\ waiter[c] = "idle" /\ future[c] = "none"

\* A call that is not admitted raises StorageUnavailable and leaves nothing.
Submit(c) ==
  /\ Asks(c) /\ Admits(c)
  /\ outstanding' = outstanding + 1
  /\ ordinary' = ordinary + IF c = Ledger THEN 0 ELSE 1
  /\ queue' = Append(queue, c)
  /\ future' = [future EXCEPT ![c] = "pending"]
  /\ waiter' = [waiter EXCEPT ![c] = "waiting"]
  /\ ran' = [ran EXCEPT ![c] = 0]
  /\ UNCHANGED <<stopping, owner, lifespan>>

\* The shielded wait gives up, UNCONFIRMED; the job stays where it is.
GiveUp(c) ==
  /\ waiter[c] = "waiting"
  /\ waiter' = [waiter EXCEPT ![c] = "detached"]
  /\ UNCHANGED <<admission, owner, future, ran, lifespan>>

\* The loop runs the callbacks of a settled future.
Deliver(c) ==
  /\ future[c] \in {"done", "failed", "cancelled"}
  /\ waiter' = [waiter EXCEPT ![c] = "idle"]
  /\ future' = [future EXCEPT ![c] = "none"]
  /\ UNCHANGED <<admission, owner, ran, lifespan>>

-----------------------------------------------------------------------------
(* The event loop: open and close                                          *)

Opened ==
  /\ lifespan = "starting" /\ ready = "ok"
  /\ lifespan' = "serving"
  /\ UNCHANGED <<admission, owner, callers>>

Queued == {queue[i] : i \in DOMAIN queue}

\* Mutants: the queue is left to the thread; the running job is cancelled too.
CancelNothing == UNCHANGED <<queue, outstanding, ordinary, future>>
CancelRunningToo ==
  /\ queue' = <<>>
  /\ outstanding' = outstanding - Len(queue)
  /\ ordinary' = ordinary - Cardinality({i \in DOMAIN queue : queue[i] # Ledger})
  /\ future' = [c \in Slots |-> IF future[c] \in {"pending", "running"}
                                  THEN "cancelled" ELSE future[c]]

CancelQueued ==
  /\ queue' = <<>>
  /\ outstanding' = outstanding - Len(queue)
  /\ ordinary' = ordinary - Cardinality({i \in DOMAIN queue : queue[i] # Ledger})
  /\ future' = [c \in Slots |-> IF c \in Queued THEN "cancelled" ELSE future[c]]

\* close, called when the service ends, or by an open whose factory failed or
\* outlasted its wait.
Close ==
  /\ lifespan \in {"starting", "serving"}
  /\ stopping' = TRUE
  /\ CancelQueued
  /\ lifespan' = IF lifespan = "serving" THEN "leaving" ELSE "not_started"
  /\ UNCHANGED <<owner, waiter, ran>>

\* Its bounded wait for _closed: done, or the thread is left to itself.
Left ==
  /\ lifespan = "leaving"
  /\ lifespan' = "left"
  /\ UNCHANGED <<admission, owner, callers>>

-----------------------------------------------------------------------------
(* The thread                                                              *)

\* Mutant: a failed factory does not settle _closed.
OpenStoreUnclosed(ok) ==
  /\ thread = "opening"
  /\ ready' = IF ok THEN "ok" ELSE "failed"
  /\ store' = IF ok THEN "open" ELSE "none"
  /\ thread' = IF ok THEN "waiting" ELSE "dead"
  /\ UNCHANGED <<admission, active, callers, lifespan>>

OpenStore(ok) ==
  /\ thread = "opening"
  /\ ready' = IF ok THEN "ok" ELSE "failed"
  /\ store' = IF ok THEN "open" ELSE "none"
  /\ thread' = IF ok THEN "waiting" ELSE "ended"
  /\ UNCHANGED <<admission, active, callers, lifespan>>

\* Under the condition: the head of the queue, unless the worker is stopping.
Take ==
  /\ thread = "waiting" /\ ~stopping /\ queue # <<>>
  /\ active' = Head(queue) /\ queue' = Tail(queue)
  /\ future' = [future EXCEPT ![Head(queue)] = "running"]
  /\ thread' = "executing"
  /\ UNCHANGED <<outstanding, ordinary, stopping, ready, store, waiter, ran, lifespan>>

\* The operation returns or raises, and its future says so.
Finish(ok) ==
  /\ thread = "executing"
  /\ ran' = [ran EXCEPT ![active] = @ + 1]
  /\ future' = [future EXCEPT ![active] = IF ok THEN "done" ELSE "failed"]
  /\ thread' = "settled"
  /\ UNCHANGED <<admission, ready, active, store, waiter, lifespan>>

\* Only then does it give the slot back.
Release ==
  /\ thread = "settled"
  /\ outstanding' = outstanding - 1
  /\ ordinary' = ordinary - IF active = Ledger THEN 0 ELSE 1
  /\ active' = None /\ thread' = "waiting"
  /\ UNCHANGED <<queue, stopping, ready, store, callers, lifespan>>

\* The loop ends; the connection is closed by the thread that used it.
CloseStore ==
  /\ thread = "waiting" /\ stopping
  /\ store' = "closed" /\ thread' = "ended"
  /\ UNCHANGED <<admission, ready, active, callers, lifespan>>

-----------------------------------------------------------------------------
(* Specification                                                           *)

Thread == \/ \E ok \in BOOLEAN : OpenStore(ok) \/ Finish(ok)
          \/ Take \/ Release \/ CloseStore

Loop == \/ Opened \/ Close \/ Left
        \/ \E c \in Slots : Submit(c) \/ GiveUp(c) \/ Deliver(c)

Next == Thread \/ Loop

Spec == Init /\ [][Next]_vars

\* Database operations return, the loop runs its callbacks, and every tick offers
\* the ledger's job again.
Fairness ==
  /\ WF_vars(Thread)
  /\ \A c \in Slots : WF_vars(Deliver(c))
  /\ WF_vars(Submit(Ledger))
  /\ WF_vars(Opened)

FairSpec == Spec /\ Fairness

-----------------------------------------------------------------------------
(* Properties                                                              *)

TypeOK ==
  /\ queue \in Seq(Slots)
  /\ outstanding \in 0..Capacity /\ ordinary \in Int /\ stopping \in BOOLEAN
  /\ future \in [Slots -> {"none", "pending", "running", "done", "failed", "cancelled"}]
  /\ ready \in {"pending", "ok", "failed"}
  /\ thread \in {"opening", "waiting", "executing", "settled", "ended"}
  /\ active \in Slots \cup {None}
  /\ store \in {"none", "open", "closed"}
  /\ lifespan \in {"starting", "serving", "leaving", "left", "not_started"}
  /\ waiter \in [Slots -> {"idle", "waiting", "detached"}]
  /\ ran \in [Slots -> Nat]

Busy == IF active = None THEN 0 ELSE 1

\* The counters that admission rests on count exactly the queued and the taken
\* jobs, through failures and shutdown: no slot leaks or is given back twice.
CountersExact ==
  /\ outstanding = Len(queue) + Busy
  /\ ordinary = Cardinality({i \in DOMAIN queue : queue[i] # Ledger})
                   + IF active \in Callers THEN 1 ELSE 0

\* Ordinary callers never take the last slot: with no reconciliation of its own
\* in the worker, the import ledger is admitted at once.
AccountingSlotKept ==
  ~stopping /\ future[Ledger] \notin {"pending", "running"} /\ active # Ledger
    => outstanding < Capacity

\* The worker is the storage that its callers rely on.
CallOf(c) ==
  CASE future[c] \in {"pending", "running"} -> "accepted"
    [] future[c] = "cancelled"              -> "dropped"
    [] OTHER                                -> future[c]
Service == INSTANCE StorageService
  WITH Callers <- Slots, open <- ~stopping, call <- [c \in Slots |-> CallOf(c)],
       performed <- {c \in Slots : ran[c] > 0}
ServiceSpec == Service!Spec

\* Every admitted job is settled for its caller, whether or not the caller still
\* waits and whether or not the service is being shut down.
AdmittedSettle == \A c \in Slots : future[c] = "pending" ~> future[c] = "none"

\* Shutdown is not left waiting for a thread that is gone, and the connection is
\* closed if it was ever opened.
ThreadEnds == stopping ~> (thread = "ended" /\ store # "open")
=============================================================================
