----------------------------- MODULE Settlement -----------------------------
(***************************************************************************)
(* The accepted restrictive settlement.  A close that Home Assistant (HA)  *)
(* accepted and the inverter has not yet reported is not a failure: the    *)
(* optimizer may keep waiting for its report, across ticks, for one budget *)
(* of 15 seconds that begins with the first restrictive request and is     *)
(* never extended.  Such an attempt observes; it permits nothing.  When it *)
(* fails or expires, only a new close may be waited for.                   *)
(*                                                                         *)
(* One step is the code between two awaits.  The event loop and the API    *)
(* start ticks, one at a time under the control lock; reports, time,       *)
(* reconnects and exceptions interleave with them.  A tick reads HA and    *)
(* `_apply_with_msc_proof` runs: MscExport has that application in detail, *)
(* here it is reduced to the requests that an attempt rests on: there is no*)
(* maintenance candidate, which never meets an attempt, and a tick reads,  *)
(* decides and enters `_apply` in one step.  The reader is live and the    *)
(* freshness horizon is longer than a budget, so a report is only earlier  *)
(* or later than the last request of its entity.                           *)
(***************************************************************************)
EXTENDS Naturals

CONSTANTS
  Policies,    \* what `_decide` may ask for
  Budget,      \* the 15 seconds, in rechecks
  Heartbeat,   \* _HEARTBEAT_INTERVAL, in rechecks
  Adversity,   \* which kinds of misbehaviour the environment may show
  FaultLimit   \* how many of them in all

Decisions == {"surplus", "close", "discharge"}
Faults    == {"reject", "unread", "authority", "operator", "remote", "reconnect",
              "configure", "raise", "api"}

ASSUME SettlementAssumption ==
  /\ Policies \subseteq Decisions
  /\ Budget \in Nat \ {0} /\ Heartbeat \in Nat \ {0}
  /\ Adversity \subseteq Faults
  /\ FaultLimit \in Nat

VARIABLES
  shown,    \* external: what HA shows, and whether that answers the last request
  cmd,      \* external: what the inverter was last told
  tr,       \* _msc_transition
  baseline, \* _msc_baseline_established
  request,  \* _number_settlement_requests[grid_export_limit]
  attempt,  \* _accepted_restrictive_settlement
  retry,    \* _accepted_restrictive_retry: the purpose of an expired attempt
  pc,       \* where the running application awaits
  d,        \* its decision
  s,        \* its SolarState snapshot
  reader,   \* _pending_reader_current()
  budget,   \* accepted_budget
  started,  \* restrictive_started, ordinary_close_started, retry_started: an age
  purpose,  \* what the application would wait for, or the purpose that expired
  reused,   \* reused_msc_epoch is not None
  flight,   \* the service call it awaits
  ticker,   \* who runs the tick
  timer,    \* how long the event loop still waits
  owed,     \* history: what an opening still needs since the last lost proof
  faults    \* faults so far

env     == <<shown, cmd>>
barrier == <<tr, baseline, request>>
wait    == <<attempt, retry>>
app     == <<d, s, reader, budget, started, purpose, reused, flight, ticker>>
vars    == <<env, barrier, wait, pc, app, timer, owed, faults>>

-----------------------------------------------------------------------------
(* Records and proofs                                                      *)

NoTransition ==
  [phase |-> "none", id |-> "none", closeSent |-> FALSE, closeSame |-> FALSE,
   closeAck |-> FALSE, mscSent |-> FALSE, mscAck |-> FALSE]
NewTransition  == [NoTransition EXCEPT !.phase = "close"]
\* _MscTransition(close_request_state=s): this snapshot may not prove closure.
NewTransitionS == [NewTransition EXCEPT !.closeSame = TRUE]
\* The proof is dropped, the barrier kept (identity=()).
RetiredProof(t) ==
  IF t.phase = "none" THEN t ELSE [t EXCEPT !.id = "retired", !.closeAck = FALSE, !.mscAck = FALSE]

NoRequest  == [value |-> "closed", ours |-> FALSE, age |-> Budget, spent |-> FALSE]
NoAttempt  == [purpose |-> "none", age |-> 0, kept |-> FALSE]
NoBudget   == [on |-> FALSE, age |-> 0]
NoSnapshot == [export |-> "closed", exportNew |-> FALSE, exportOk |-> FALSE,
               mode |-> "msc", modeNew |-> FALSE]
NoFlight   == [what |-> "none", value |-> "closed", binds |-> FALSE,
               permits |-> FALSE, next |-> "idle"]

\* Ages are capped where nothing tells them apart any more.
Older(a) == IF a < Budget THEN a + 1 ELSE a

\* _msc_export_closed for t in the snapshot x.
ExportClosed(t, x) ==
  /\ x.exportOk /\ x.export = "closed"
  /\ ~t.closeSame /\ (t.closeSent => x.exportNew)

\* _msc_transition_observed, _reused_msc_epoch_current.  Losing the reader
\* identity retires the transition's.
Proven(t) == t.phase = "msc" /\ t.id = "current" /\ t.mscAck /\ t.closeAck
TransitionObserved(t, x) ==
  Proven(t) /\ request.ours /\ ExportClosed(t, x) /\ x.mode = "msc" /\ x.modeNew
ReusedCurrent == Proven(tr) /\ (request.ours \/ request.value = "open")

-----------------------------------------------------------------------------
(* Faults                                                                  *)

Fault(kind) == kind \in Adversity /\ faults < FaultLimit /\ faults' = faults + 1
NoFault     == UNCHANGED faults
\* HA may report a call as failed, or a read may not come.
Works(ok, kind) == IF ok THEN NoFault ELSE Fault(kind)

-----------------------------------------------------------------------------
(* The attempt                                                             *)

\* Mutant: nobody looks at the clock again.
NeverExpired == FALSE

\* The deadline of the outstanding attempt has passed.
Expired == attempt.age >= Budget

\* Mutant: a budget is only a recheck interval.
UnboundedBudget == reader

\* _accepted_restrictive_error without a snapshot: the deadline, and the close
\* request and the transition that the attempt was made for.
Sound ==
  attempt # NoAttempt =>
    /\ ~Expired /\ attempt.kept
    /\ attempt.purpose = "ordinary_close" => tr.phase = "none"

\* A report later than its request says otherwise.
Contradicts(x) ==
  \/ x.exportNew /\ x.export = "open"
  \/ attempt.purpose # "ordinary_close" /\ tr.mscSent /\ x.modeNew /\ x.mode # "msc"

\* _accepted_budget_current: what the application carries on after the attempt.
BudgetCurrent == budget.on => budget.age < Budget /\ reader

\* Mutant: the attempt is dropped and its transition left as it was.
BarrierKept(t) == t

\* _retire_accepted_restrictive_settlement(require_close=True): an attempt that
\* was outstanding leaves a barrier without any proof.
Barred(t) == IF attempt = NoAttempt THEN t ELSE [NewTransition EXCEPT !.id = "retired"]
Unbaselined == baseline' = (baseline /\ attempt = NoAttempt)
\* What an opening needs starts over with an attempt or a handshake that is lost.
OweAgain == owed' = IF owed = "none" /\ attempt = NoAttempt THEN "none" ELSE "close"

\* Mutant: the wait of an attempt is added to the heartbeat instead of capping it.
LoopWaitAdded == IF attempt' = NoAttempt THEN Heartbeat ELSE Heartbeat + 1

\* _accepted_restrictive_wait_seconds at the end of a tick, in rechecks.
LoopWait ==
  IF attempt' = NoAttempt THEN Heartbeat
  ELSE IF attempt'.age < Budget THEN 1 ELSE 0

-----------------------------------------------------------------------------
(* Ends of a tick                                                          *)

Idle ==
  /\ pc' = "idle" /\ d' = "close" /\ s' = NoSnapshot /\ reader' = FALSE
  /\ budget' = NoBudget /\ started' = 0 /\ purpose' = "none" /\ reused' = FALSE
  /\ flight' = NoFlight /\ ticker' = "none"
  /\ timer' = IF ticker = "loop" THEN LoopWait ELSE timer

\* The application succeeded; a retry episode is not its business.
Completed == UNCHANGED <<env, request, wait>> /\ Idle

\* It failed, or its handshake is pending: an episode ends with the tick unless
\* this tick found the deadline passed.
Failed ==
  /\ retry' = "none" /\ UNCHANGED attempt
  /\ Idle /\ UNCHANGED <<env, request>>

Pending == Failed /\ UNCHANGED <<barrier, owed>>

\* _AcceptedRestrictiveSettlementPending: the attempt outlives the tick.
StillPending == UNCHANGED <<env, barrier, wait, owed>> /\ Idle

\* _authority_paused
Paused ==
  /\ attempt' = NoAttempt /\ retry' = "none"
  /\ tr' = RetiredProof(Barred(tr)) /\ baseline' = FALSE /\ OweAgain
  /\ Idle /\ UNCHANGED <<env, request>>

\* On to the next await.
Go(p) == pc' = p /\ UNCHANGED <<env, barrier, wait, app, timer, owed>>

\* What `_begin_accepted_settlement` needs before its reads, for a transition;
\* the episode that asked for it ends here.
Await ==
  /\ retry' = "none"
  /\ IF reader /\ purpose # "stale" /\ tr.id = "current" /\ tr.closeAck /\ (tr.mscAck \/ tr.phase = "close")
       THEN /\ pc' = "begin"
            /\ UNCHANGED <<env, barrier, attempt, app, timer, owed>>
       ELSE /\ UNCHANGED <<env, barrier, attempt, owed>> /\ Idle

\* `_safe_fallback` retires the attempt before it awaits anything; only some
\* causes let it wait longer for its own close.
ToFallback(cause) ==
  /\ pc' = "fallback" /\ purpose' = cause
  /\ attempt' = NoAttempt /\ retry' = "none"
  /\ UNCHANGED <<env, barrier, d, s, reader, budget, started, reused, flight,
                 ticker, timer, owed>>

-----------------------------------------------------------------------------
(* Service calls                                                           *)

\* _automatic_number on the export limit, from its authority read to the call.
SendExport(v, next) ==
  LET closing == v = "closed" /\ tr.phase # "none"
      id      == IF reader THEN "current" ELSE "none"
  IN /\ request' = [value |-> v, ours |-> closing, age |-> 0, spent |-> FALSE]
     /\ tr' = IF closing
                THEN [tr EXCEPT !.closeSent = TRUE, !.closeSame = TRUE,
                                !.closeAck = FALSE, !.id = id]
                ELSE tr
     /\ shown' = [shown EXCEPT !.exportNew = FALSE]
     /\ s' = [s EXCEPT !.exportNew = FALSE]
     /\ attempt' = [attempt EXCEPT !.kept = FALSE]
     /\ flight' = [what |-> "export", value |-> v, binds |-> closing /\ reader,
                   permits |-> v = "open", next |-> next]
     /\ owed' = IF owed = "close" /\ v = "closed" THEN "closing" ELSE owed
     /\ pc' = "await"
     /\ UNCHANGED <<cmd, baseline, retry, d, reader, budget, started, purpose,
                    reused, ticker, timer>>

\* _automatic_mode.  The attempt follows the requests of its own transition.
SendMode(m, permits, next) ==
  LET binds == m = "msc" /\ tr.phase # "none"
      id    == IF reader THEN "current" ELSE "none"
  IN /\ tr' = IF binds
                THEN [tr EXCEPT !.mscSent = TRUE, !.mscAck = FALSE, !.id = id]
                ELSE tr
     /\ shown' = [shown EXCEPT !.modeNew = FALSE]
     /\ s' = [s EXCEPT !.modeNew = FALSE]
     /\ flight' = [what |-> "mode", value |-> m, binds |-> binds /\ reader,
                   permits |-> permits, next |-> next]
     /\ owed' = IF m = "discharge" THEN "close"
                ELSE IF owed = "closed" THEN "msc" ELSE owed
     /\ pc' = "await"
     /\ UNCHANGED <<cmd, baseline, request, wait, d, reader, budget, started,
                    purpose, reused, ticker, timer>>

\* A call is made only for a sound attempt, a permission only within the budget
\* that its application carries.
Dispatch(permits, evidence, send) ==
  IF Sound /\ (permits => BudgetCurrent) /\ evidence THEN send ELSE ToFallback("none")

\* The call returns.  A failed call may have been carried out all the same.
InFallback == {"fb_msc", "fb_settle"}
Answer(ok, taken) ==
  /\ pc = "await" /\ (ok => taken)
  /\ Works(ok, "reject")
  /\ tr' = IF ~(flight.binds /\ reader) THEN tr
           ELSE IF flight.what = "export" THEN [tr EXCEPT !.closeAck = ok]
           ELSE [tr EXCEPT !.mscAck = ok]
  /\ LET good == /\ ok /\ (flight.binds => reader)
                 /\ Sound /\ (flight.permits => BudgetCurrent)
     IN IF good \/ flight.next \in InFallback
       THEN pc' = flight.next /\ UNCHANGED <<wait, purpose>>
          ELSE /\ pc' = "fallback" /\ purpose' = "none"
               /\ attempt' = NoAttempt /\ retry' = "none"
  /\ cmd' = IF taken THEN [cmd EXCEPT ![flight.what] = flight.value] ELSE cmd
  /\ flight' = NoFlight
  /\ UNCHANGED <<shown, baseline, request, d, s, reader, budget, started, reused,
                 ticker, timer, owed>>

-----------------------------------------------------------------------------
(* HA, time and interruptions                                              *)

Init ==
  /\ shown \in {[export |-> e, exportNew |-> FALSE, mode |-> m, modeNew |-> FALSE] :
                e \in {"closed", "open"}, m \in {"msc", "discharge"}}
  /\ cmd = [export |-> shown.export, mode |-> shown.mode]
  /\ tr = NoTransition /\ baseline = FALSE /\ request = NoRequest
  /\ attempt = NoAttempt /\ retry = "none"
  /\ pc = "idle" /\ d = "close" /\ s = NoSnapshot /\ reader = FALSE
  /\ budget = NoBudget /\ started = 0 /\ purpose = "none" /\ reused = FALSE
  /\ flight = NoFlight /\ ticker = "none" /\ timer = 0
  /\ owed = "none" /\ faults = 0

\* HA publishes the inverter's last command, or still what it showed before.
ReportExport ==
  /\ \E e \in {cmd.export, shown.export} : shown' = [shown EXCEPT !.export = e, !.exportNew = TRUE]
  /\ owed' = IF owed = "closing" /\ shown'.export = "closed" THEN "closed" ELSE owed
  /\ UNCHANGED <<cmd, barrier, wait, pc, app, timer, faults>>
ReportMode ==
  /\ \E m \in {cmd.mode, shown.mode} : shown' = [shown EXCEPT !.mode = m, !.modeNew = TRUE]
  /\ owed' = IF owed = "msc" /\ shown'.mode = "msc" THEN "proven" ELSE owed
  /\ UNCHANGED <<cmd, barrier, wait, pc, app, timer, faults>>

\* A recheck interval passes.  A loop whose wait is over runs its tick as soon
\* as it gets the control lock; awaited calls may take any time.
Pass ==
  /\ pc # "idle" \/ timer > 0
  /\ timer' = IF timer > 0 THEN timer - 1 ELSE 0
  /\ request' = [request EXCEPT !.age = Older(@)]
  /\ attempt' = IF attempt = NoAttempt THEN attempt ELSE [attempt EXCEPT !.age = Older(@)]
  /\ budget' = IF budget.on THEN [budget EXCEPT !.age = Older(@)] ELSE budget
  /\ started' = IF pc = "idle" THEN started ELSE Older(started)
  /\ UNCHANGED <<env, tr, baseline, retry, pc, d, s, reader, purpose, reused,
                 flight, ticker, owed, faults>>

\* on_ws_connect, on_ws_disconnect: a new reader identity, at any moment.
Reconnect ==
  /\ Fault("reconnect")
  /\ tr' = [Barred(tr) EXCEPT !.id = IF @ = "current" THEN "retired" ELSE @]
  /\ Unbaselined /\ OweAgain
  /\ attempt' = NoAttempt /\ retry' = "none" /\ reader' = FALSE
  /\ UNCHANGED <<env, request, pc, d, s, budget, started, purpose, reused, flight,
                 ticker, timer>>

\* _invalidate_configuration_evidence, under the control lock.
Configure ==
  /\ Fault("configure")
  /\ pc = "idle"
  /\ tr' = IF Barred(tr).phase = "none" THEN tr ELSE NewTransition
  /\ attempt' = NoAttempt /\ retry' = "none"
  /\ request' = NoRequest /\ baseline' = FALSE /\ OweAgain
  /\ UNCHANGED <<env, pc, app, timer>>

\* An exception or a cancellation leaves `_apply`, whether or not the call it
\* was waiting for has been carried out.
Raise(taken) ==
  /\ Fault("raise")
  /\ pc # "idle" /\ (taken => pc = "await")
  /\ cmd' = IF taken THEN [cmd EXCEPT ![flight.what] = flight.value] ELSE cmd
  /\ tr' = RetiredProof(Barred(tr)) /\ Unbaselined /\ OweAgain
  /\ attempt' = NoAttempt /\ retry' = "none"
  /\ Idle
  /\ UNCHANGED <<shown, request>>

-----------------------------------------------------------------------------
(* A tick begins                                                           *)

\* `_tick` reads HA; `_decide` closes the grid while the handshake is unproven;
\* `_apply` captures the reader identity and the budget and drops a proof of
\* another identity or of another close request.  Only with an attempt
\* outstanding may the limit be unreadable here.
Snapshot(readable) ==
  [export |-> shown.export, exportNew |-> shown.exportNew, exportOk |-> readable,
   mode |-> shown.mode, modeNew |-> shown.modeNew]

Start(who, policy, readable) ==
  /\ pc = "idle"
  /\ IF readable THEN NoFault ELSE attempt # NoAttempt /\ Fault("unread")
  /\ pc' = "enter" /\ ticker' = who
  /\ s' = Snapshot(readable) /\ reader' = TRUE
  /\ IF tr.phase # "none" /\ (tr.id # "current" \/ (tr.closeAck /\ ~request.ours))
       THEN tr' = NewTransitionS /\ OweAgain
       ELSE tr' = [tr EXCEPT !.closeSame = FALSE] /\ UNCHANGED owed
  /\ d' = IF policy = "surplus" /\ tr.phase # "none" /\ ~TransitionObserved(tr', s')
            THEN "close" ELSE policy
  /\ budget' = [on |-> attempt # NoAttempt, age |-> attempt.age]
  /\ UNCHANGED <<env, baseline, request, wait, started, purpose, reused, flight, timer>>

\* The event loop ticks on an event, after a debounce that its waits cap too,
\* and at the latest when its wait is over.
LoopTick(policy, readable) == Start("loop", policy, readable)

\* `run_once`, behind POST /run_cycle, while the loop goes on waiting (a loop
\* whose wait is over gets the lock first).
ApiTick(policy, readable) == "api" \in Adversity /\ timer > 0 /\ Start("api", policy, readable)

-----------------------------------------------------------------------------
(* From the authority read to the branch                                   *)

\* What the authority read of an application finds.
Authority == {"automated", "authority", "operator", "remote"}
Reads(a)  == IF a = "automated" THEN NoFault ELSE Fault(a)

\* Unknown ownership pauses; an operator ends the automatic episode; with Remote
\* EMS OFF nothing is written.
NotAutomated(a) ==
  \/ a = "authority" /\ Paused
  \/ /\ a = "operator"
     /\ tr' = NoTransition /\ baseline' = FALSE /\ owed' = "none"
     /\ attempt' = NoAttempt /\ retry' = "none"
     /\ Idle /\ UNCHANGED <<env, request>>
  \/ /\ a = "remote"
     /\ tr' = Barred(tr) /\ baseline' \in {FALSE, baseline /\ attempt = NoAttempt}
     /\ owed' = IF attempt = NoAttempt THEN owed ELSE "close"
     /\ attempt' = NoAttempt /\ retry' = "none"
     /\ Idle /\ UNCHANGED <<env, request>>

\* A close is owed until it is reported, and again when it was not accepted.
CloseOwed(t) == ~ExportClosed(t, s) \/ (t.id # "none" /\ t.closeSent /\ ~t.closeAck)

\* _hold_msc_transition up to its first call.  An accepted request is not
\* repeated while no later report contradicts it.
Hold(t) ==
  LET closing   == IF t.phase = "close" THEN t ELSE NewTransition
      proving   == IF t.phase = "msc" THEN t
                   ELSE [t EXCEPT !.phase = "msc", !.mscSent = TRUE, !.mscAck = FALSE]
      keepClose == /\ closing.id = "current" /\ closing.closeAck /\ request.ours
                   /\ ~(s.exportOk /\ s.exportNew /\ s.export = "open")
      keepMsc   == /\ proving.id = "current" /\ proving.mscAck
                   /\ ~(s.modeNew /\ s.mode # "msc")
  IN /\ tr' = IF CloseOwed(t) THEN closing ELSE proving
     /\ pc' = CASE CloseOwed(t) /\ ~keepClose -> "hold_close"
                [] ~CloseOwed(t) /\ ~keepMsc  -> "hold_msc"
                [] OTHER                      -> "hold_rest"
     /\ started' = 0 /\ baseline' = FALSE
     /\ purpose' = IF retry = "ordinary_close" THEN "ordinary_close_retry" ELSE retry

TransitionRequired ==
  \/ tr.phase # "none" \/ s.mode # "msc"
  \/ d = "surplus" /\ ~baseline /\ ~ExportClosed(tr, s)
MustHold == d # "discharge" /\ TransitionRequired /\ ~TransitionObserved(tr, s)

\* The primary path: a discharge starts a new barrier and prepares its target, a
\* hold renews or awaits the handshake, the rest opens or closes the grid.
StartDischarge ==
  /\ d = "discharge"
  /\ tr' = NewTransition /\ baseline' = FALSE
  /\ pc' = IF s.mode = "discharge" /\ s.exportOk /\ s.export = "open" THEN "rest" ELSE "prepare"
  /\ UNCHANGED <<started, purpose, reused>>
HoldForProof ==
  /\ MustHold /\ Hold(IF tr.phase = "none" THEN NewTransition ELSE tr) /\ UNCHANGED reused
Proceed ==
  /\ d # "discharge" /\ ~MustHold
  /\ reused' = (d = "surplus" /\ tr.phase # "none")
  /\ pc' = CASE d = "surplus"                       -> IF reused' THEN "live" ELSE "reassert"
             [] d = "close" /\ ~ExportClosed(NoTransition, s) -> "close"
             [] OTHER                               -> "rest"
  /\ started' = 0 /\ UNCHANGED <<tr, baseline, purpose>>
Primary ==
  /\ StartDischarge \/ HoldForProof \/ Proceed
  /\ UNCHANGED <<env, request, retry, d, s, reader, budget, flight, ticker, timer,
                 owed>>

-----------------------------------------------------------------------------
(* A tick that finds an attempt outstanding                                *)

\* The attempt has failed, or its deadline has passed: its barrier starts over
\* and the independent restrictions follow.
GiveUp(expired) ==
  /\ attempt' = NoAttempt /\ tr' = Barred(tr) /\ Unbaselined
  /\ owed' = IF attempt = NoAttempt THEN owed ELSE "close"
  /\ purpose' = IF expired THEN attempt.purpose ELSE "none"
  /\ pc' = "restrict"
  /\ UNCHANGED <<env, request, retry, d, s, reader, budget, started, reused, flight,
                 ticker, timer>>

\* Only a deadline that passed leaves a retry episode, and only if every
\* restriction was accepted.
Restrict(ok) ==
  /\ pc = "restrict" /\ Works(ok, "reject")
  /\ retry' = IF ~ok THEN "none" ELSE IF purpose # "none" /\ ~reader THEN "stale" ELSE purpose
  /\ UNCHANGED <<env, barrier, attempt, owed>> /\ Idle

ForClose == attempt.purpose = "ordinary_close"
Misused  == ForClose /\ d # "close"
Faulty   == ~Sound \/ Contradicts(s) \/ Misused
Reported == s.exportOk /\ s.export = "closed" /\ s.exportNew

\* The handshake of the attempt goes on: its own half that is still missing, or
\* nothing but the wait.
HoldOn ==
  /\ Hold(tr)
  /\ attempt' = [attempt EXCEPT !.kept = ~(tr.phase = "msc" /\ tr'.phase = "close")]
  /\ UNCHANGED <<env, request, retry, d, s, reader, budget, reused, flight, ticker,
                 timer, owed>>

Resume ==
  \/ Faulty /\ GiveUp(Expired /\ ~Misused)
  \/ ~Faulty /\ ForClose /\ Go(IF Reported THEN "reown" ELSE "ordinary")
  \/ ~Faulty /\ ~ForClose /\ TransitionObserved(tr, s) /\ Go("prove")
  \/ ~Faulty /\ ~ForClose /\ ~TransitionObserved(tr, s) /\ HoldOn

Enter(a) ==
  /\ pc = "enter" /\ Reads(a)
  /\ IF a # "automated" THEN NotAutomated(a)
     ELSE IF attempt # NoAttempt THEN Resume
     ELSE Primary /\ UNCHANGED attempt

\* The joint read of the proven handshake, or the authority read of a reported
\* ordinary close.  The attempt has served; its deadline stays with the
\* application.
Prove(ok) ==
  /\ pc \in {"prove", "reown"}
  /\ Works(ok, "authority")
  /\ LET ready == pc = "prove" => /\ shown.mode = "msc" /\ shown.modeNew
                                 /\ shown.export = "closed" /\ shown.exportNew
     IN IF ok /\ ready /\ Sound /\ (attempt # NoAttempt => ~Contradicts(s))
          THEN attempt' = NoAttempt /\ Primary
          ELSE GiveUp(Expired /\ (pc = "prove" \/ ok))

\* An ordinary close that is still unreported: the independent restrictions,
\* then authority.
OrdinaryRest(ok) ==
  /\ pc = "ordinary" /\ Works(ok, "reject")
  /\ IF ok /\ Sound THEN Go("ordinary_own") ELSE ToFallback("none")
\* The deadline may pass in that last read.  Then `_apply` runs the application
\* again for a closed grid, and the tick fails whatever comes of it.  An attempt
\* that a reconnect retired meanwhile fails the assertion of
\* `_accepted_restrictive_pending_result` (README, Divergences).
OrdinaryOwn(ok) ==
  /\ pc = "ordinary_own" /\ Works(ok, "authority")
  /\ IF ~ok THEN Paused
     ELSE IF attempt = NoAttempt
       THEN /\ tr' = RetiredProof(tr) /\ OweAgain /\ UNCHANGED baseline /\ Failed
     ELSE IF Sound /\ ~Contradicts(s) THEN StillPending
     ELSE /\ attempt' = NoAttempt /\ tr' = NewTransitionS /\ baseline' = FALSE
          /\ owed' = "close"
          /\ d' = "close" /\ budget' = NoBudget /\ pc' = "enter"
          /\ UNCHANGED <<env, request, retry, s, reader, started, purpose, reused,
                         flight, ticker, timer>>

-----------------------------------------------------------------------------
(* The restrictive hold                                                    *)

HoldClose == pc = "hold_close" /\ Dispatch(FALSE, TRUE, SendExport("closed", "hold_rest")) /\ NoFault
HoldMsc   == pc = "hold_msc" /\ Dispatch(FALSE, TRUE, SendMode("msc", FALSE, "hold_rest")) /\ NoFault

\* Import, ESS and PV restrictions; then a retry episode asks for its one new
\* wait, the attempt goes on, or the handshake is simply pending.
HoldRest(ok) ==
  /\ pc = "hold_rest" /\ Works(ok, "reject")
  /\ \/ (~ok \/ ~Sound) /\ ToFallback("none")
     \/ ok /\ Sound /\ purpose # "none" /\ Await
     \/ ok /\ Sound /\ purpose = "none" /\ ~reader /\ Paused
     \/ ok /\ Sound /\ purpose = "none" /\ reader /\ attempt # NoAttempt /\ StillPending
     \/ ok /\ Sound /\ purpose = "none" /\ reader /\ attempt = NoAttempt /\ Pending

-----------------------------------------------------------------------------
(* The safe fallback                                                       *)

Fallback(ok) ==
  /\ pc = "fallback" /\ Works(ok, "authority")
  /\ IF ~ok THEN Paused
     ELSE /\ tr' = NewTransition /\ baseline' = FALSE /\ owed' = "close"
          /\ started' = 0 /\ pc' = "fb_close"
          /\ UNCHANGED <<env, request, wait, d, s, reader, budget, purpose, reused,
                         flight, ticker, timer>>

FallbackClose == pc = "fb_close" /\ SendExport("closed", "fb_msc") /\ NoFault
FallbackMsc   == pc = "fb_msc" /\ SendMode("msc", FALSE, "fb_settle") /\ NoFault

\* The bounded waits for both reports, then house-serving recovery.  Only a
\* fallback whose calls were all accepted, and whose cause admits it, waits on.
FallbackSettle(seen, ok) ==
  /\ pc = "fb_settle" /\ Works(ok, "reject")
  /\ seen => /\ shown.export = "closed" /\ shown.exportNew
             /\ shown.mode = "msc" /\ shown.modeNew
  /\ IF ok /\ ~seen /\ purpose # "none" /\ tr.mscAck THEN Await ELSE Pending

-----------------------------------------------------------------------------
(* A new attempt                                                           *)

\* Mutant: the budget begins when the wait does.
AttemptFromNow ==
  [purpose |-> purpose, age |-> 0, kept |-> TRUE]

\* One budget, counted from before the restrictive requests.
NewAttempt == [purpose |-> purpose, age |-> started, kept |-> TRUE]

\* _begin_accepted_settlement, after its own state and authority reads.  What
\* they show must not already contradict or outlast the attempt.
Begin(ok) ==
  /\ pc = "begin" /\ Works(ok, "authority")
  /\ LET sound == /\ started < Budget /\ reader
                  /\ purpose = "ordinary_close" => tr.phase = "none"
                  /\ ~(shown.exportNew /\ shown.export = "open")
                  /\ ~(/\ purpose # "ordinary_close" /\ tr.mscSent
                       /\ shown.modeNew /\ shown.mode # "msc")
     IN IF ok /\ sound
          THEN /\ attempt' = NewAttempt /\ request' = [request EXCEPT !.spent = TRUE]
               /\ UNCHANGED <<env, tr, baseline, retry, owed>>
               /\ Idle
          ELSE /\ IF ok THEN /\ tr' = [NewTransition EXCEPT !.id = "retired"]
                             /\ baseline' = FALSE /\ owed' = "close"
                        ELSE UNCHANGED <<tr, baseline, owed>>
               /\ Failed

-----------------------------------------------------------------------------
(* Opening and closing the grid                                            *)

\* Exact MSC is requested again and reported before an opening.
Reassert == pc = "reassert" /\ Dispatch(TRUE, TRUE, SendMode("msc", TRUE, "settle_msc")) /\ NoFault
SettleMsc(seen) ==
  /\ pc = "settle_msc" /\ NoFault
  /\ seen => shown.mode = "msc" /\ shown.modeNew
  /\ IF seen THEN Go("live") ELSE ToFallback("fallback")

\* _live_msc_export_ready; otherwise a new barrier, which this snapshot may not
\* satisfy, and the hold.
LiveReady ==
  /\ shown.mode = "msc" /\ shown.modeNew
  /\ tr.phase # "none" => shown.export = "closed" /\ (tr.closeSent => shown.exportNew)
Live(ok) ==
  /\ pc = "live" /\ Works(ok, "unread")
  /\ IF ok /\ LiveReady THEN Go(IF s.export = "open" /\ request.value = "open" THEN "rest" ELSE "open")
     ELSE /\ Hold(NewTransitionS) /\ owed' = "close"
          /\ UNCHANGED <<env, request, wait, d, s, reader, budget, reused, flight,
                         ticker, timer>>

\* The evidence of the joint read before the ceiling is opened, or requested once
\* while it already is open.
OpenEvidence ==
  /\ reused => ReusedCurrent
  /\ shown.mode = "msc" /\ shown.modeNew
  /\ s.export = "open" => tr.phase = "none" /\ shown.export = "open"
  /\ tr.phase # "none" => shown.export = "closed" /\ shown.exportNew
Open == pc = "open" /\ Dispatch(TRUE, OpenEvidence, SendExport("open", "rest")) /\ NoFault

\* The ordinary close: unreported within its short wait, it is waited for.
Close == pc = "close" /\ Dispatch(FALSE, TRUE, SendExport("closed", "settle_close")) /\ NoFault
SettleClose(seen, ok) ==
  /\ pc = "settle_close" /\ Works(ok, "reject")
  /\ seen => shown.export = "closed" /\ shown.exportNew
  /\ IF seen THEN Go("rest")
     ELSE IF ok /\ reader
       THEN /\ pc' = "begin" /\ purpose' = "ordinary_close"
            /\ UNCHANGED <<env, barrier, wait, d, s, reader, budget, started, reused,
                           flight, ticker, timer, owed>>
     ELSE Pending

\* The deliberate export target, reported before the discharge mode.
Prepare == pc = "prepare" /\ Dispatch(TRUE, TRUE, SendExport("open", "settle_target")) /\ NoFault
SettleTarget(seen) ==
  /\ pc = "settle_target" /\ NoFault
  /\ seen => shown.export = "open" /\ shown.exportNew
  /\ IF seen THEN Go(IF s.mode = "discharge" THEN "rest" ELSE "mode") ELSE ToFallback("fallback")
Discharge ==
  /\ pc = "mode" /\ NoFault
  /\ Dispatch(TRUE, shown.export = "open" /\ shown.exportNew,
              SendMode("discharge", TRUE, "rest"))

\* Import, ESS and PV limits; some failures are only collected.
Rest(outcome) ==
  /\ pc = "rest" /\ Works(outcome = "done", "reject")
  /\ CASE outcome = "done"      -> Go("finish")
       [] outcome = "collected" ->
            IF reused THEN ToFallback("none")
            ELSE /\ tr' = IF tr.phase = "none" THEN tr ELSE NewTransition
                 /\ baseline' = FALSE /\ OweAgain /\ Failed
       [] outcome = "failed"    -> ToFallback("none")

\* Authority is read again for a proven handshake; it is consumed, and only then
\* the budget looked at.
Finish(ok) ==
  /\ pc = "finish" /\ (ok \/ reused) /\ Works(ok, "authority")
  /\ IF ~ok THEN Paused
     ELSE IF reused /\ ~ReusedCurrent THEN ToFallback("none")
     ELSE LET consumed == reused \/ (d # "discharge" /\ s.mode = "msc")
          IN /\ tr' = IF consumed THEN NoTransition ELSE tr
             /\ baseline' = (consumed \/ baseline)
             /\ owed' = IF consumed THEN "none" ELSE owed
             /\ IF BudgetCurrent THEN Completed
                ELSE /\ pc' = "fallback" /\ purpose' = "none"
                     /\ attempt' = NoAttempt /\ retry' = "none"
                     /\ UNCHANGED <<env, request, d, s, reader, budget, started, reused,
                                    flight, ticker, timer>>

-----------------------------------------------------------------------------
(* Specification                                                           *)

World ==
  \/ ReportExport \/ ReportMode \/ Pass \/ Reconnect \/ Configure
  \/ \E taken \in BOOLEAN : Raise(taken)

Application ==
  \/ \E ok, taken \in BOOLEAN : Answer(ok, taken)
  \/ \E a \in Authority : Enter(a)
  \/ \E ok \in BOOLEAN :
       Prove(ok) \/ Restrict(ok) \/ OrdinaryRest(ok) \/ OrdinaryOwn(ok) \/ HoldRest(ok)
         \/ Fallback(ok) \/ Begin(ok) \/ SettleMsc(ok) \/ Live(ok) \/ SettleTarget(ok)
         \/ Finish(ok)
  \/ \E seen, ok \in BOOLEAN : FallbackSettle(seen, ok) \/ SettleClose(seen, ok)
  \/ HoldClose \/ HoldMsc \/ FallbackClose \/ FallbackMsc
  \/ Reassert \/ Open \/ Close \/ Prepare \/ Discharge
  \/ \E outcome \in {"done", "collected", "failed"} : Rest(outcome)

Loop == \E policy \in Policies, readable \in BOOLEAN : LoopTick(policy, readable)
Api  == \E policy \in Policies, readable \in BOOLEAN : ApiTick(policy, readable)

Next == World \/ Application \/ Loop \/ Api

Spec == Init /\ [][Next]_vars

\* A running application goes on (its calls and waits are bounded), time passes,
\* and the loop runs its tick when its wait is over.
FairSpec == Spec /\ WF_vars(Application) /\ WF_vars(Pass) /\ WF_vars(Loop)

-----------------------------------------------------------------------------
(* Properties                                                              *)

Purposes == {"none", "fallback", "ordinary_close", "ordinary_close_retry", "stale"}
Limits   == {"closed", "open"}
Modes    == {"msc", "discharge"}
Ages     == 0..Budget
Places ==
  {"idle", "enter", "await", "prove", "reown", "restrict", "ordinary", "ordinary_own",
   "hold_close", "hold_msc", "hold_rest", "fallback", "fb_close", "fb_msc", "fb_settle",
   "begin", "reassert", "settle_msc", "live", "open", "close", "settle_close",
   "prepare", "settle_target", "mode", "rest", "finish"}

Transitions ==
  [phase : {"none", "close", "msc"}, id : {"none", "current", "retired"},
   closeSent : BOOLEAN, closeSame : BOOLEAN, closeAck : BOOLEAN,
   mscSent : BOOLEAN, mscAck : BOOLEAN]
Requests  == [value : Limits, ours : BOOLEAN, age : Ages, spent : BOOLEAN]
Attempts  == [purpose : Purposes, age : Ages, kept : BOOLEAN]
Budgets   == [on : BOOLEAN, age : Ages]
Snapshots == [export : Limits, exportNew : BOOLEAN, exportOk : BOOLEAN,
              mode : Modes, modeNew : BOOLEAN]
Flights   == [what : {"none", "export", "mode"}, value : Limits \cup Modes,
              binds : BOOLEAN, permits : BOOLEAN, next : Places]
Owing     == {"none", "close", "closing", "closed", "msc", "proven"}

\* Every record keeps its shape, and no age outgrows the budget.
TypeOK ==
  /\ shown \in [export : Limits, exportNew : BOOLEAN, mode : Modes, modeNew : BOOLEAN]
  /\ cmd \in [export : Limits, mode : Modes]
  /\ tr \in Transitions /\ baseline \in BOOLEAN /\ request \in Requests
  /\ attempt \in Attempts /\ retry \in Purposes /\ purpose \in Purposes
  /\ pc \in Places /\ d \in Decisions /\ s \in Snapshots
  /\ reader \in BOOLEAN /\ reused \in BOOLEAN
  /\ budget \in Budgets /\ started \in Ages /\ flight \in Flights
  /\ ticker \in {"none", "loop", "api"} /\ timer \in 0..Heartbeat
  /\ owed \in Owing /\ faults \in 0..FaultLimit

\* A close request is waited for once, and its budget began no later than the
\* request: neither a retry nor a new phase extends it.
OneBudget ==
  [][attempt = NoAttempt /\ attempt' # NoAttempt
       => ~request.spent /\ attempt'.age >= request.age]_vars

\* After an attempt that failed, expired or was cut off, the PV-only ceiling is
\* requested only when a new close was requested and then reported, and after
\* that MSC was requested and then reported.  A completed closed decision ends
\* the debt too, whatever became of its handshake meanwhile (README, Divergences).
ReopensOnNewProof ==
  [][pc = "open" /\ pc' = "await" => owed \in {"none", "proven"}]_vars

\* A deadline that passes while its application still works leaves no permission
\* behind: when that application returns (not when an exception leaves it), the
\* grid was told to close, or the barrier is up again.
LateNotKept ==
  [][pc # "idle" /\ pc' = "idle" /\ budget.on /\ budget.age = Budget =>
       \/ request'.value = "closed" \/ tr'.phase # "none" \/ ~baseline'
       \/ \E taken \in BOOLEAN : Raise(taken)]_vars

\* No attempt stays: it is proven, fails or expires.
AttemptEnds == attempt # NoAttempt ~> attempt = NoAttempt
=============================================================================
