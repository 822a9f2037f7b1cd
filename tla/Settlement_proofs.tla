-------------------------- MODULE Settlement_proofs --------------------------
(***************************************************************************)
(* Proofs about Settlement, for every set of decisions, every budget and   *)
(* heartbeat and any number of faults of any kind: the types, that one     *)
(* close is waited for once, within one budget, and that an opening after  *)
(* a lost proof rests on a new one, and that an overdue application leaves *)
(* no permission behind.                                                   *)
(***************************************************************************)
EXTENDS Settlement, TLAPS

USE DEF env, barrier, wait, app

-----------------------------------------------------------------------------
(* Typing                                                                  *)

\* Where an awaited call may return to.
Continuations == {"hold_rest", "fb_msc", "fb_settle", "settle_msc", "rest",
                  "settle_close", "settle_target"}

\* The call an application awaits names an entity and a value that fit.
FlightOK ==
  pc = "await" => /\ \/ flight.what = "mode" /\ flight.value \in Modes
                     \/ flight.what = "export" /\ flight.value \in Limits
                  /\ flight.next \in Continuations

TypeInv == TypeOK /\ FlightOK

\* Ages stay within the budget, at which they are capped.
LEMMA AgesTyped == /\ 0 \in Ages /\ Budget \in Ages
                   /\ \A a \in Ages : Older(a) \in Ages
BY SettlementAssumption DEF Ages, Older

\* The fault count keeps its bound, with and without a fault.
LEMMA FaultTyped == ASSUME TypeOK, NEW kind, Fault(kind) PROVE faults' \in 0..FaultLimit
BY SettlementAssumption DEF TypeOK, Fault
LEMMA NoFaultTyped == ASSUME TypeOK, NoFault PROVE faults' \in 0..FaultLimit
BY DEF TypeOK, NoFault
LEMMA WorksTyped ==
  ASSUME TypeOK, NEW ok, NEW kind, Works(ok, kind) PROVE faults' \in 0..FaultLimit
BY FaultTyped, NoFaultTyped DEF Works
LEMMA ReadsTyped ==
  ASSUME TypeOK, NEW a \in Authority, Reads(a) PROVE faults' \in 0..FaultLimit
BY FaultTyped, NoFaultTyped DEF Reads

\* The values every reset assigns.
LEMMA ResetsTyped ==
  /\ NoTransition \in Transitions /\ NewTransition \in Transitions
  /\ NewTransitionS \in Transitions /\ [NewTransition EXCEPT !.id = "retired"] \in Transitions
  /\ NoRequest \in Requests /\ NoAttempt \in Attempts /\ NoBudget \in Budgets
  /\ NoSnapshot \in Snapshots /\ NoFlight \in Flights
BY AgesTyped DEF NoTransition, NewTransition, NewTransitionS, Transitions, NoRequest,
     Requests, NoAttempt, Attempts, NoBudget, Budgets, NoSnapshot, Snapshots,
     NoFlight, Flights, Places, Modes, Limits, Purposes

LEMMA RetiredTyped ==
  ASSUME NEW t \in Transitions PROVE RetiredProof(t) \in Transitions
BY DEF RetiredProof, Transitions
LEMMA BarredTyped ==
  ASSUME TypeOK
  PROVE  /\ Barred(tr) \in Transitions
         /\ RetiredProof(tr) \in Transitions /\ RetiredProof(Barred(tr)) \in Transitions
<1>1. tr \in Transitions /\ Barred(tr) \in Transitions
  BY ResetsTyped DEF Barred, TypeOK
<1> QED
  BY <1>1, RetiredTyped

LEMMA OweAgainTyped == ASSUME TypeOK, OweAgain PROVE owed' \in Owing
BY DEF OweAgain, TypeOK, Owing
LEMMA UnbaselinedTyped == ASSUME TypeOK, Unbaselined PROVE baseline' \in BOOLEAN
BY DEF Unbaselined, TypeOK

\* What an end of a tick leaves of it.
LEMMA IdleTyped ==
  ASSUME TypeOK, Idle
  PROVE  /\ pc' \in Places /\ d' \in Decisions /\ s' \in Snapshots
         /\ reader' \in BOOLEAN /\ budget' \in Budgets /\ started' \in Ages
         /\ purpose' \in Purposes /\ reused' \in BOOLEAN /\ flight' \in Flights
         /\ ticker' \in {"none", "loop", "api"} /\ timer' \in 0..Heartbeat
         /\ FlightOK'
<1>1. timer' \in 0..Heartbeat
  BY SettlementAssumption DEF Idle, LoopWait, TypeOK
<1> QED
  BY <1>1, AgesTyped, ResetsTyped DEF Idle, Places, Decisions, Purposes, FlightOK

LEMMA CompletedTyped ==
  ASSUME TypeInv, Completed, faults' \in 0..FaultLimit, tr' \in Transitions,
         baseline' \in BOOLEAN, owed' \in Owing
  PROVE  TypeInv'
BY IdleTyped DEF Completed, TypeInv, TypeOK

LEMMA FailedTyped ==
  ASSUME TypeInv, Failed, faults' \in 0..FaultLimit, tr' \in Transitions,
         baseline' \in BOOLEAN, owed' \in Owing
  PROVE  TypeInv'
BY IdleTyped DEF Failed, TypeInv, TypeOK, Purposes

LEMMA PendingTyped ==
  ASSUME TypeInv, Pending, faults' \in 0..FaultLimit PROVE TypeInv'
BY FailedTyped DEF Pending, TypeInv, TypeOK

LEMMA StillPendingTyped ==
  ASSUME TypeInv, StillPending, faults' \in 0..FaultLimit PROVE TypeInv'
BY IdleTyped DEF StillPending, TypeInv, TypeOK

LEMMA PausedTyped ==
  ASSUME TypeInv, Paused, faults' \in 0..FaultLimit PROVE TypeInv'
BY IdleTyped, OweAgainTyped, ResetsTyped, BarredTyped DEF Paused, TypeInv, TypeOK, Purposes

LEMMA GoTyped ==
  ASSUME TypeInv, NEW p \in Places, p # "await", Go(p), faults' \in 0..FaultLimit
  PROVE  TypeInv'
BY DEF Go, TypeInv, TypeOK, FlightOK

LEMMA AwaitTyped ==
  ASSUME TypeInv, Await, faults' \in 0..FaultLimit PROVE TypeInv'
<1>1. CASE pc' = "begin" /\ UNCHANGED <<env, barrier, attempt, app, timer, owed>>
  BY <1>1 DEF Await, TypeInv, TypeOK, FlightOK, Places, Purposes
<1>2. CASE UNCHANGED <<env, barrier, attempt, owed>> /\ Idle
  BY <1>2, IdleTyped DEF Await, TypeInv, TypeOK, Purposes
<1> QED
  BY <1>1, <1>2 DEF Await

LEMMA ToFallbackTyped ==
  ASSUME TypeInv, NEW cause \in Purposes, ToFallback(cause), faults' \in 0..FaultLimit
  PROVE  TypeInv'
BY ResetsTyped DEF ToFallback, TypeInv, TypeOK, FlightOK, Places, Purposes

LEMMA SendExportTyped ==
  ASSUME TypeInv, NEW v \in Limits, NEW next \in Continuations, SendExport(v, next),
         faults' \in 0..FaultLimit
  PROVE  TypeInv'
<1> USE AgesTyped
<1>1. request' \in Requests /\ attempt' \in Attempts
  BY DEF SendExport, TypeInv, TypeOK, Requests, Attempts
<1>2. tr' \in Transitions
  BY DEF SendExport, TypeInv, TypeOK, Transitions
<1>3. flight' \in Flights /\ FlightOK' /\ pc' \in Places
  BY DEF SendExport, TypeInv, TypeOK, FlightOK, Flights, Places, Continuations
<1>4. owed' \in Owing
  BY DEF SendExport, TypeInv, TypeOK, Owing
<1>5. /\ shown' \in [export : Limits, exportNew : BOOLEAN, mode : Modes, modeNew : BOOLEAN]
      /\ s' \in Snapshots
  BY DEF SendExport, TypeInv, TypeOK, Snapshots
<1> QED
  BY <1>1, <1>2, <1>3, <1>4, <1>5 DEF SendExport, TypeInv, TypeOK

LEMMA SendModeTyped ==
  ASSUME TypeInv, NEW m \in Modes, NEW permits \in BOOLEAN, NEW next \in Continuations,
         SendMode(m, permits, next), faults' \in 0..FaultLimit
  PROVE  TypeInv'
<1>1. tr' \in Transitions
  BY DEF SendMode, TypeInv, TypeOK, Transitions
<1>2. flight' \in Flights /\ FlightOK' /\ pc' \in Places
  BY DEF SendMode, TypeInv, TypeOK, FlightOK, Flights, Places, Continuations
<1>3. owed' \in Owing
  BY DEF SendMode, TypeInv, TypeOK, Owing
<1>4. /\ shown' \in [export : Limits, exportNew : BOOLEAN, mode : Modes, modeNew : BOOLEAN]
      /\ s' \in Snapshots
  BY DEF SendMode, TypeInv, TypeOK, Snapshots
<1> QED
  BY <1>1, <1>2, <1>3, <1>4 DEF SendMode, TypeInv, TypeOK

\* The calls of an application, each sent or given up for the fallback.
LEMMA DispatchExportTyped ==
  ASSUME TypeInv, NEW v \in Limits, NEW next \in Continuations,
         NEW permits, NEW evidence, Dispatch(permits, evidence, SendExport(v, next)), NoFault
  PROVE  TypeInv'
<1>1. faults' \in 0..FaultLimit
  BY NoFaultTyped DEF TypeInv
<1>2. "none" \in Purposes
  BY DEF Purposes
<1>3. SendExport(v, next) \/ ToFallback("none")
  BY DEF Dispatch
<1> QED
  BY <1>1, <1>2, <1>3, SendExportTyped, ToFallbackTyped
LEMMA DispatchModeTyped ==
  ASSUME TypeInv, NEW m \in Modes, NEW next \in Continuations, NEW p \in BOOLEAN,
         NEW permits, NEW evidence, Dispatch(permits, evidence, SendMode(m, p, next)), NoFault
  PROVE  TypeInv'
<1>1. faults' \in 0..FaultLimit
  BY NoFaultTyped DEF TypeInv
<1>2. "none" \in Purposes
  BY DEF Purposes
<1>3. SendMode(m, p, next) \/ ToFallback("none")
  BY DEF Dispatch
<1> QED
  BY <1>1, <1>2, <1>3, SendModeTyped, ToFallbackTyped

\* The hold, up to its first call.
LEMMA HoldTyped ==
  ASSUME TypeInv, NEW t \in Transitions, Hold(t), faults' \in 0..FaultLimit,
         owed' \in Owing, attempt' \in Attempts,
         UNCHANGED <<env, request, retry, d, s, reader, budget, reused, flight, ticker, timer>>
  PROVE  TypeInv'
<1> DEFINE closing == IF t.phase = "close" THEN t ELSE NewTransition
           proving == IF t.phase = "msc" THEN t
                      ELSE [t EXCEPT !.phase = "msc", !.mscSent = TRUE, !.mscAck = FALSE]
<1>1. closing \in Transitions /\ proving \in Transitions
  <2>1. [t EXCEPT !.phase = "msc", !.mscSent = TRUE, !.mscAck = FALSE] \in Transitions
    BY DEF Transitions
  <2> QED
    BY <2>1, ResetsTyped
<1>2. tr' \in Transitions
  <2>1. tr' = closing \/ tr' = proving
    BY DEF Hold
  <2> QED
    BY <1>1, <2>1
<1>3. pc' \in {"hold_close", "hold_msc", "hold_rest"}
  BY DEF Hold
<1>4. started' \in Ages /\ baseline' \in BOOLEAN /\ purpose' \in Purposes
  BY AgesTyped DEF Hold, TypeInv, TypeOK, Purposes
<1> QED
  BY <1>2, <1>3, <1>4 DEF TypeInv, TypeOK, FlightOK, Places

LEMMA PrimaryTyped ==
  ASSUME TypeInv, Primary, attempt' \in Attempts, faults' \in 0..FaultLimit
  PROVE  TypeInv'
<1>1. owed' \in Owing
  BY DEF Primary, TypeInv, TypeOK
<1>2. CASE StartDischarge
  BY <1>2, ResetsTyped DEF StartDischarge, Primary, TypeInv, TypeOK, FlightOK, Places
<1>3. CASE HoldForProof
  <2> DEFINE t == IF tr.phase = "none" THEN NewTransition ELSE tr
  <2>1. t \in Transitions
    BY ResetsTyped DEF TypeInv, TypeOK
  <2>2. Hold(t) /\ UNCHANGED reused
    BY <1>3 DEF HoldForProof
  <2> QED
    BY <1>1, <2>1, <2>2, HoldTyped DEF Primary
<1>4. CASE Proceed
  <2>1. pc' \in {"live", "reassert", "close", "rest"} /\ reused' \in BOOLEAN
    BY <1>4 DEF Proceed
  <2>2. started' \in Ages /\ UNCHANGED <<tr, baseline, purpose>>
    BY <1>4, AgesTyped DEF Proceed
  <2> QED
    BY <2>1, <2>2 DEF Primary, TypeInv, TypeOK, FlightOK, Places
<1> QED
  BY <1>2, <1>3, <1>4 DEF Primary

LEMMA GiveUpTyped ==
  ASSUME TypeInv, NEW expired, GiveUp(expired), faults' \in 0..FaultLimit
  PROVE  TypeInv'
<1>1. tr' \in Transitions /\ baseline' \in BOOLEAN /\ attempt' \in Attempts
  BY ResetsTyped, BarredTyped, UnbaselinedTyped DEF GiveUp, TypeInv
<1>2. owed' \in Owing
  BY DEF GiveUp, TypeInv, TypeOK, Owing
<1>3. purpose' \in Purposes
  BY DEF GiveUp, TypeInv, TypeOK, Attempts, Purposes
<1> QED
  BY <1>1, <1>2, <1>3 DEF GiveUp, TypeInv, TypeOK, FlightOK, Places

\* The outstanding attempt.
LEMMA HoldOnTyped ==
  ASSUME TypeInv, HoldOn, faults' \in 0..FaultLimit PROVE TypeInv'
<1>1. tr \in Transitions /\ owed' \in Owing
  BY DEF HoldOn, TypeInv, TypeOK
<1>2. attempt' \in Attempts
  BY DEF HoldOn, TypeInv, TypeOK, Attempts
<1> QED
  BY <1>1, <1>2, HoldTyped DEF HoldOn

LEMMA ResumeTyped ==
  ASSUME TypeInv, Resume, faults' \in 0..FaultLimit PROVE TypeInv'
<1>1. CASE GiveUp(Expired /\ ~Misused)
  BY <1>1, GiveUpTyped
<1>2. CASE \E p \in {"reown", "ordinary", "prove"} : Go(p)
  BY <1>2, GoTyped DEF Places
<1>3. CASE HoldOn
  BY <1>3, HoldOnTyped
<1> QED
  BY <1>1, <1>2, <1>3 DEF Resume

LEMMA NotAutomatedTyped ==
  ASSUME TypeInv, NEW a, NotAutomated(a), faults' \in 0..FaultLimit PROVE TypeInv'
<1>1. CASE Paused
  BY <1>1, PausedTyped
<1>2. CASE /\ tr' = NoTransition /\ baseline' = FALSE /\ owed' = "none"
           /\ attempt' = NoAttempt /\ retry' = "none" /\ Idle /\ UNCHANGED <<env, request>>
  BY <1>2, IdleTyped, ResetsTyped DEF TypeInv, TypeOK, Purposes, Owing
<1>3. CASE /\ tr' = Barred(tr) /\ baseline' \in {FALSE, baseline /\ attempt = NoAttempt}
           /\ owed' = IF attempt = NoAttempt THEN owed ELSE "close"
           /\ attempt' = NoAttempt /\ retry' = "none" /\ Idle /\ UNCHANGED <<env, request>>
  <2>1. baseline' \in BOOLEAN /\ owed' \in Owing
    BY <1>3 DEF TypeInv, TypeOK, Owing
  <2> QED
    BY <1>3, <2>1, IdleTyped, ResetsTyped, BarredTyped DEF TypeInv, TypeOK, Purposes
<1> QED
  BY <1>1, <1>2, <1>3 DEF NotAutomated

LEMMA EnterTyped ==
  ASSUME TypeInv, NEW a \in Authority, Enter(a) PROVE TypeInv'
<1>1. faults' \in 0..FaultLimit
  BY ReadsTyped DEF Enter, TypeInv
<1>2. CASE NotAutomated(a)
  BY <1>1, <1>2, NotAutomatedTyped
<1>3. CASE Resume
  BY <1>1, <1>3, ResumeTyped
<1>4. CASE Primary /\ UNCHANGED attempt
  BY <1>1, <1>4, PrimaryTyped DEF TypeInv, TypeOK
<1> QED
  BY <1>2, <1>3, <1>4 DEF Enter

LEMMA ProveTyped == ASSUME TypeInv, NEW ok, Prove(ok) PROVE TypeInv'
<1>1. faults' \in 0..FaultLimit
  BY WorksTyped DEF Prove, TypeInv
<1>2. CASE attempt' = NoAttempt /\ Primary
  BY <1>1, <1>2, PrimaryTyped, ResetsTyped
<1>3. CASE GiveUp(Expired /\ (pc = "prove" \/ ok))
  BY <1>1, <1>3, GiveUpTyped
<1> QED
  BY <1>2, <1>3 DEF Prove

LEMMA RestrictTyped == ASSUME TypeInv, NEW ok, Restrict(ok) PROVE TypeInv'
<1>1. faults' \in 0..FaultLimit
  BY WorksTyped DEF Restrict, TypeInv
<1>2. retry' \in Purposes
  BY DEF Restrict, TypeInv, TypeOK, Purposes
<1> QED
  BY <1>1, <1>2, IdleTyped DEF Restrict, TypeInv, TypeOK

LEMMA OrdinaryRestTyped == ASSUME TypeInv, NEW ok, OrdinaryRest(ok) PROVE TypeInv'
<1>1. faults' \in 0..FaultLimit
  BY WorksTyped DEF OrdinaryRest, TypeInv
<1> QED
  BY <1>1, GoTyped, ToFallbackTyped DEF OrdinaryRest, Places, Purposes

LEMMA OrdinaryOwnTyped == ASSUME TypeInv, NEW ok, OrdinaryOwn(ok) PROVE TypeInv'
<1>1. faults' \in 0..FaultLimit
  BY WorksTyped DEF OrdinaryOwn, TypeInv
<1>2. CASE Paused
  BY <1>1, <1>2, PausedTyped
<1>3. CASE tr' = RetiredProof(tr) /\ OweAgain /\ UNCHANGED baseline /\ Failed
  <2>1. tr' \in Transitions /\ owed' \in Owing /\ baseline' \in BOOLEAN
    BY <1>3, BarredTyped, OweAgainTyped DEF TypeInv, TypeOK
  <2> QED
    BY <1>1, <1>3, <2>1, FailedTyped
<1>4. CASE StillPending
  BY <1>1, <1>4, StillPendingTyped
<1>5. CASE /\ attempt' = NoAttempt /\ tr' = NewTransitionS /\ baseline' = FALSE
           /\ owed' = "close"
           /\ d' = "close" /\ budget' = NoBudget /\ pc' = "enter"
           /\ UNCHANGED <<env, request, retry, s, reader, started, purpose, reused,
                          flight, ticker, timer>>
  BY <1>1, <1>5, ResetsTyped DEF TypeInv, TypeOK, FlightOK, Places, Decisions, Owing
<1> QED
  BY <1>2, <1>3, <1>4, <1>5 DEF OrdinaryOwn

\* The hold and the fallback.
LEMMA HoldCloseTyped == ASSUME TypeInv, HoldClose PROVE TypeInv'
BY DispatchExportTyped DEF HoldClose, Continuations, Limits
LEMMA HoldMscTyped == ASSUME TypeInv, HoldMsc PROVE TypeInv'
BY DispatchModeTyped DEF HoldMsc, Continuations, Modes

LEMMA HoldRestTyped == ASSUME TypeInv, NEW ok, HoldRest(ok) PROVE TypeInv'
<1>1. faults' \in 0..FaultLimit
  BY WorksTyped DEF HoldRest, TypeInv
<1> QED
  BY <1>1, ToFallbackTyped, AwaitTyped, PausedTyped, StillPendingTyped, PendingTyped
  DEF HoldRest, Purposes

LEMMA FallbackTyped == ASSUME TypeInv, NEW ok, Fallback(ok) PROVE TypeInv'
<1>1. faults' \in 0..FaultLimit
  BY WorksTyped DEF Fallback, TypeInv
<1>2. CASE Paused
  BY <1>1, <1>2, PausedTyped
<1>3. CASE ~Paused
  BY <1>1, <1>3, ResetsTyped, AgesTyped
  DEF Fallback, TypeInv, TypeOK, FlightOK, Places, Owing
<1> QED
  BY <1>2, <1>3

LEMMA FallbackCloseTyped == ASSUME TypeInv, FallbackClose PROVE TypeInv'
BY SendExportTyped, NoFaultTyped DEF FallbackClose, TypeInv, Continuations, Limits
LEMMA FallbackMscTyped == ASSUME TypeInv, FallbackMsc PROVE TypeInv'
BY SendModeTyped, NoFaultTyped DEF FallbackMsc, TypeInv, Continuations, Modes

LEMMA FallbackSettleTyped ==
  ASSUME TypeInv, NEW seen, NEW ok, FallbackSettle(seen, ok) PROVE TypeInv'
<1>1. faults' \in 0..FaultLimit
  BY WorksTyped DEF FallbackSettle, TypeInv
<1> QED
  BY <1>1, AwaitTyped, PendingTyped DEF FallbackSettle

LEMMA BeginTyped == ASSUME TypeInv, NEW ok, Begin(ok) PROVE TypeInv'
<1>1. faults' \in 0..FaultLimit
  BY WorksTyped DEF Begin, TypeInv
<1>2. CASE /\ attempt' = NewAttempt /\ request' = [request EXCEPT !.spent = TRUE]
           /\ UNCHANGED <<env, tr, baseline, retry, owed>>
           /\ Idle
  <2>1. attempt' \in Attempts /\ request' \in Requests
    BY <1>2 DEF NewAttempt, TypeInv, TypeOK, Attempts, Requests
  <2> QED
    BY <1>1, <1>2, <2>1, IdleTyped DEF TypeInv, TypeOK
<1>3. CASE Failed /\ tr' \in Transitions /\ baseline' \in BOOLEAN /\ owed' \in Owing
  BY <1>1, <1>3, FailedTyped
<1> QED
  BY <1>2, <1>3, ResetsTyped DEF Begin, TypeInv, TypeOK, Owing

\* Opening and closing the grid.
LEMMA ReassertTyped == ASSUME TypeInv, Reassert PROVE TypeInv'
BY DispatchModeTyped DEF Reassert, Continuations, Modes
LEMMA OpenTyped == ASSUME TypeInv, Open PROVE TypeInv'
BY DispatchExportTyped DEF Open, Continuations, Limits
LEMMA CloseTyped == ASSUME TypeInv, Close PROVE TypeInv'
BY DispatchExportTyped DEF Close, Continuations, Limits
LEMMA PrepareTyped == ASSUME TypeInv, Prepare PROVE TypeInv'
BY DispatchExportTyped DEF Prepare, Continuations, Limits
LEMMA DischargeTyped == ASSUME TypeInv, Discharge PROVE TypeInv'
BY DispatchModeTyped DEF Discharge, Continuations, Modes

LEMMA SettleMscTyped == ASSUME TypeInv, NEW seen, SettleMsc(seen) PROVE TypeInv'
BY NoFaultTyped, GoTyped, ToFallbackTyped DEF SettleMsc, TypeInv, Places, Purposes
LEMMA SettleTargetTyped == ASSUME TypeInv, NEW seen, SettleTarget(seen) PROVE TypeInv'
BY NoFaultTyped, GoTyped, ToFallbackTyped DEF SettleTarget, TypeInv, Places, Purposes

LEMMA LiveTyped == ASSUME TypeInv, NEW ok, Live(ok) PROVE TypeInv'
<1>1. faults' \in 0..FaultLimit
  BY WorksTyped DEF Live, TypeInv
<1>2. CASE \E p \in {"rest", "open"} : Go(p)
  BY <1>1, <1>2, GoTyped DEF Places
<1>3. CASE /\ Hold(NewTransitionS) /\ owed' = "close"
           /\ UNCHANGED <<env, request, wait, d, s, reader, budget, reused, flight,
                          ticker, timer>>
  BY <1>1, <1>3, HoldTyped, ResetsTyped DEF TypeInv, TypeOK, Owing
<1> QED
  BY <1>2, <1>3 DEF Live

LEMMA SettleCloseTyped ==
  ASSUME TypeInv, NEW seen, NEW ok, SettleClose(seen, ok) PROVE TypeInv'
<1>1. faults' \in 0..FaultLimit
  BY WorksTyped DEF SettleClose, TypeInv
<1>2. CASE Go("rest")
  BY <1>1, <1>2, GoTyped DEF Places
<1>3. CASE /\ pc' = "begin" /\ purpose' = "ordinary_close"
           /\ UNCHANGED <<env, barrier, wait, d, s, reader, budget, started, reused,
                          flight, ticker, timer, owed>>
  BY <1>1, <1>3 DEF TypeInv, TypeOK, FlightOK, Places, Purposes
<1>4. CASE Pending
  BY <1>1, <1>4, PendingTyped
<1> QED
  BY <1>2, <1>3, <1>4 DEF SettleClose

LEMMA RestTyped ==
  ASSUME TypeInv, NEW outcome \in {"done", "collected", "failed"}, Rest(outcome) PROVE TypeInv'
<1>1. faults' \in 0..FaultLimit
  BY WorksTyped DEF Rest, TypeInv
<1>2. CASE outcome = "done"
  BY <1>1, <1>2, GoTyped DEF Rest, Places
<1>3. CASE outcome = "failed"
  BY <1>1, <1>3, ToFallbackTyped DEF Rest, Purposes
<1>4. CASE outcome = "collected"
  <2>1. CASE ToFallback("none")
    BY <1>1, <2>1, ToFallbackTyped DEF Purposes
  <2>2. CASE /\ tr' = IF tr.phase = "none" THEN tr ELSE NewTransition
             /\ baseline' = FALSE /\ OweAgain /\ Failed
    <3>1. tr' \in Transitions /\ baseline' \in BOOLEAN /\ owed' \in Owing
      BY <2>2, ResetsTyped, OweAgainTyped DEF TypeInv, TypeOK
    <3> QED
      BY <1>1, <2>2, <3>1, FailedTyped
  <2> QED
    BY <1>4, <2>1, <2>2 DEF Rest
<1> QED
  BY <1>2, <1>3, <1>4

LEMMA FinishTyped == ASSUME TypeInv, NEW ok, Finish(ok) PROVE TypeInv'
<1>1. faults' \in 0..FaultLimit
  BY WorksTyped DEF Finish, TypeInv
<1>2. CASE Paused
  BY <1>1, <1>2, PausedTyped
<1>3. CASE ToFallback("none")
  BY <1>1, <1>3, ToFallbackTyped DEF Purposes
<1>4. CASE ~Paused /\ ~ToFallback("none")
  <2>1. tr' \in Transitions /\ baseline' \in BOOLEAN /\ owed' \in Owing
    BY <1>4, ResetsTyped DEF Finish, TypeInv, TypeOK, Owing
  <2>2. CASE Completed
    BY <1>1, <2>1, <2>2, CompletedTyped
  <2>3. CASE /\ pc' = "fallback" /\ purpose' = "none"
             /\ attempt' = NoAttempt /\ retry' = "none"
             /\ UNCHANGED <<env, request, d, s, reader, budget, started, reused,
                            flight, ticker, timer>>
    BY <1>1, <2>1, <2>3, ResetsTyped DEF TypeInv, TypeOK, FlightOK, Places, Purposes
  <2> QED
    BY <1>4, <2>2, <2>3 DEF Finish
<1> QED
  BY <1>2, <1>3, <1>4

\* The answer of a call.
LEMMA CommandTyped ==
  ASSUME TypeInv, pc = "await"
  PROVE  [cmd EXCEPT ![flight.what] = flight.value] \in [export : Limits, mode : Modes]
BY DEF TypeInv, TypeOK, FlightOK

LEMMA AnswerTyped ==
  ASSUME TypeInv, NEW ok \in BOOLEAN, NEW taken \in BOOLEAN, Answer(ok, taken)
  PROVE  TypeInv'
<1>1. faults' \in 0..FaultLimit
  BY WorksTyped DEF Answer, TypeInv
<1>2. tr' \in Transitions
  BY DEF Answer, TypeInv, TypeOK, Transitions
<1>3. cmd' \in [export : Limits, mode : Modes]
  BY CommandTyped DEF Answer, TypeInv, TypeOK
<1>4. /\ pc' \in Places /\ pc' # "await" /\ purpose' \in Purposes
      /\ attempt' \in Attempts /\ retry' \in Purposes
  BY ResetsTyped DEF Answer, TypeInv, TypeOK, FlightOK, Continuations, Places, Purposes
<1> QED
  BY <1>1, <1>2, <1>3, <1>4, ResetsTyped DEF Answer, TypeInv, TypeOK, FlightOK

\* Home Assistant, time and interruptions.
LEMMA ReportExportTyped == ASSUME TypeInv, ReportExport PROVE TypeInv'
<1>1. PICK e \in {cmd.export, shown.export} :
        shown' = [shown EXCEPT !.export = e, !.exportNew = TRUE]
  BY DEF ReportExport
<1>2. shown' \in [export : Limits, exportNew : BOOLEAN, mode : Modes, modeNew : BOOLEAN]
  BY <1>1 DEF TypeInv, TypeOK
<1>3. owed' \in Owing
  BY DEF ReportExport, TypeInv, TypeOK, Owing
<1> QED
  BY <1>2, <1>3 DEF ReportExport, TypeInv, TypeOK, FlightOK
LEMMA ReportModeTyped == ASSUME TypeInv, ReportMode PROVE TypeInv'
<1>1. PICK m \in {cmd.mode, shown.mode} :
        shown' = [shown EXCEPT !.mode = m, !.modeNew = TRUE]
  BY DEF ReportMode
<1>2. shown' \in [export : Limits, exportNew : BOOLEAN, mode : Modes, modeNew : BOOLEAN]
  BY <1>1 DEF TypeInv, TypeOK
<1>3. owed' \in Owing
  BY DEF ReportMode, TypeInv, TypeOK, Owing
<1> QED
  BY <1>2, <1>3 DEF ReportMode, TypeInv, TypeOK, FlightOK

LEMMA PassTyped == ASSUME TypeInv, Pass PROVE TypeInv'
<1>1. request' \in Requests /\ attempt' \in Attempts /\ budget' \in Budgets
  BY AgesTyped DEF Pass, TypeInv, TypeOK, Requests, Attempts, Budgets
<1>2. started' \in Ages
  BY AgesTyped DEF Pass, TypeInv, TypeOK
<1>3. timer' \in 0..Heartbeat
  BY SettlementAssumption DEF Pass, TypeInv, TypeOK
<1> QED
  BY <1>1, <1>2, <1>3 DEF Pass, TypeInv, TypeOK, FlightOK

LEMMA ReconnectTyped == ASSUME TypeInv, Reconnect PROVE TypeInv'
<1>1. faults' \in 0..FaultLimit
  BY FaultTyped DEF Reconnect, TypeInv
<1>2. tr' \in Transitions
  <2> DEFINE t == Barred(tr)
  <2>1. t \in Transitions
    BY BarredTyped DEF TypeInv
  <2>2. tr' = [t EXCEPT !.id = IF @ = "current" THEN "retired" ELSE @]
    BY DEF Reconnect
  <2> QED
    BY <2>1, <2>2 DEF Transitions
<1>3. baseline' \in BOOLEAN /\ owed' \in Owing
  BY UnbaselinedTyped, OweAgainTyped DEF Reconnect, TypeInv
<1> QED
  BY <1>1, <1>2, <1>3, ResetsTyped DEF Reconnect, TypeInv, TypeOK, FlightOK, Purposes

LEMMA ConfigureTyped == ASSUME TypeInv, Configure PROVE TypeInv'
<1>1. faults' \in 0..FaultLimit
  BY FaultTyped DEF Configure, TypeInv
<1>2. owed' \in Owing
  BY OweAgainTyped DEF Configure, TypeInv
<1> QED
  BY <1>1, <1>2, ResetsTyped DEF Configure, TypeInv, TypeOK, FlightOK, Purposes

LEMMA RaiseTyped == ASSUME TypeInv, NEW taken \in BOOLEAN, Raise(taken) PROVE TypeInv'
<1>1. faults' \in 0..FaultLimit
  BY FaultTyped DEF Raise, TypeInv
<1>2. cmd' \in [export : Limits, mode : Modes]
  BY CommandTyped DEF Raise, TypeInv, TypeOK
<1>3. tr' \in Transitions /\ baseline' \in BOOLEAN /\ owed' \in Owing
  BY BarredTyped, UnbaselinedTyped, OweAgainTyped DEF Raise, TypeInv
<1> QED
  BY <1>1, <1>2, <1>3, IdleTyped, ResetsTyped DEF Raise, TypeInv, TypeOK, Purposes

\* A tick begins.
LEMMA StartTyped ==
  ASSUME TypeInv, NEW who \in {"loop", "api"}, NEW policy \in Policies,
         NEW readable \in BOOLEAN, Start(who, policy, readable)
  PROVE  TypeInv'
<1>1. faults' \in 0..FaultLimit
  BY FaultTyped, NoFaultTyped DEF Start, TypeInv
<1>2. tr' \in Transitions
  <2>1. [tr EXCEPT !.closeSame = FALSE] \in Transitions
    BY DEF TypeInv, TypeOK, Transitions
  <2> QED
    BY <2>1, ResetsTyped DEF Start
<1>3. owed' \in Owing
  BY OweAgainTyped DEF Start, TypeInv, TypeOK
<1>4. s' \in Snapshots
  BY DEF Start, Snapshot, TypeInv, TypeOK, Snapshots
<1>5. d' \in Decisions
  BY SettlementAssumption DEF Start, Decisions
<1>6. budget' \in Budgets
  BY DEF Start, TypeInv, TypeOK, Attempts, Budgets
<1> QED
  BY <1>1, <1>2, <1>3, <1>4, <1>5, <1>6 DEF Start, TypeInv, TypeOK, FlightOK, Places

LEMMA InitTyped == Init => TypeInv
<1> SUFFICES ASSUME Init PROVE TypeInv
  OBVIOUS
<1>1. /\ shown \in [export : Limits, exportNew : BOOLEAN, mode : Modes, modeNew : BOOLEAN]
      /\ cmd \in [export : Limits, mode : Modes]
  <2>1. PICK e \in {"closed", "open"}, m \in {"msc", "discharge"} :
          shown = [export |-> e, exportNew |-> FALSE, mode |-> m, modeNew |-> FALSE]
    BY DEF Init
  <2>2. cmd = [export |-> shown.export, mode |-> shown.mode]
    BY DEF Init
  <2> QED
    BY <2>1, <2>2 DEF Limits, Modes
<1>2. started \in Ages /\ timer \in 0..Heartbeat /\ faults \in 0..FaultLimit
  BY SettlementAssumption DEF Init, Ages
<1> QED
  BY <1>1, <1>2, ResetsTyped DEF Init, TypeInv, TypeOK, FlightOK, Places, Purposes, Decisions, Owing

LEMMA NextTyped == TypeInv /\ [Next]_vars => TypeInv'
<1> SUFFICES ASSUME TypeInv, [Next]_vars PROVE TypeInv'
  OBVIOUS
<1>1. CASE World
  BY <1>1, ReportExportTyped, ReportModeTyped, PassTyped, ReconnectTyped, ConfigureTyped,
     RaiseTyped DEF World
<1>2. CASE Application
  <2>1. CASE \E ok, taken \in BOOLEAN : Answer(ok, taken)
    BY <2>1, AnswerTyped
  <2>2. CASE \E a \in Authority : Enter(a)
    BY <2>2, EnterTyped
  <2>3. CASE \E ok \in BOOLEAN :
               Prove(ok) \/ Restrict(ok) \/ OrdinaryRest(ok) \/ OrdinaryOwn(ok)
                 \/ HoldRest(ok) \/ Fallback(ok) \/ Begin(ok) \/ SettleMsc(ok)
                 \/ Live(ok) \/ SettleTarget(ok) \/ Finish(ok)
    BY <2>3, ProveTyped, RestrictTyped, OrdinaryRestTyped, OrdinaryOwnTyped, HoldRestTyped,
       FallbackTyped, BeginTyped, SettleMscTyped, LiveTyped, SettleTargetTyped, FinishTyped
  <2>4. CASE \E seen, ok \in BOOLEAN : FallbackSettle(seen, ok) \/ SettleClose(seen, ok)
    BY <2>4, FallbackSettleTyped, SettleCloseTyped
  <2>5. CASE \/ HoldClose \/ HoldMsc \/ FallbackClose \/ FallbackMsc
             \/ Reassert \/ Open \/ Close \/ Prepare \/ Discharge
    BY <2>5, HoldCloseTyped, HoldMscTyped, FallbackCloseTyped, FallbackMscTyped,
       ReassertTyped, OpenTyped, CloseTyped, PrepareTyped, DischargeTyped
  <2>6. CASE \E outcome \in {"done", "collected", "failed"} : Rest(outcome)
    BY <2>6, RestTyped
  <2> QED
    BY <1>2, <2>1, <2>2, <2>3, <2>4, <2>5, <2>6 DEF Application
<1>3. CASE Loop \/ Api
  BY <1>3, StartTyped DEF Loop, Api, LoopTick, ApiTick
<1>4. CASE UNCHANGED vars
  BY <1>4 DEF vars, TypeInv, TypeOK, FlightOK
<1> QED
  BY <1>1, <1>2, <1>3, <1>4 DEF Next

\* Every record keeps its shape, and no age outgrows the budget, through every
\* begin, recheck, retirement, retry and interruption of an attempt.
THEOREM SettlementTyping == Spec => []TypeOK
<1>1. TypeInv => TypeOK
  BY DEF TypeInv
<1> QED
  BY <1>1, InitTyped, NextTyped, PTL DEF Spec

-----------------------------------------------------------------------------
(* One budget for one close                                                *)

\* Where the application is, or returns to from the call it awaits.
At == IF pc = "await" THEN flight.next ELSE pc

DischargePlaces == {"prepare", "settle_target", "mode", "rest", "finish"}
ReadyPlaces     == {"settle_close", "fb_msc", "fb_settle", "begin"}

\* A retry episode has no attempt and no proof: its close is still to be asked
\* for, unless a discharge comes first.
Episode ==
  retry # "none" =>
    /\ attempt = NoAttempt
    /\ At \in {"idle", "enter", "hold_close", "hold_rest"} \cup DischargePlaces
    /\ At \in {"idle", "enter"} \cup DischargePlaces
         => tr.phase = "close" /\ tr.id # "current"
    /\ At = "enter" => tr.closeSame
    /\ At \in {"hold_close", "hold_rest"} => purpose # "none"
    /\ At \in DischargePlaces => d = "discharge" /\ ~reused

\* An attempt given up leaves the barrier such an episode begins with.
GivenUp ==
  pc = "restrict" =>
    attempt = NoAttempt /\ (purpose # "none" => tr.phase = "close" /\ tr.id # "current")

\* Nothing is reused before the application has chosen its branch.
Unreused == pc \in {"idle", "enter", "ordinary", "ordinary_own"} => ~reused

\* Only the close half of a handshake is waited for after a retry.
MscHeld == At = "hold_msc" => purpose = "none"

\* What may be waited for next is a close that this application requested.
Requested ==
  At \in ReadyPlaces \/ (At = "hold_rest" /\ purpose # "none")
    => ~request.spent /\ started >= request.age

Rules == Episode /\ GivenUp /\ Unreused /\ MscHeld /\ Requested
Inv   == TypeInv /\ Rules

LEMMA OlderMonotone ==
  ASSUME NEW a \in Ages, NEW b \in Ages, a >= b PROVE Older(a) >= Older(b)
BY SettlementAssumption DEF Ages, Older

\* A step that ends the tick and the episode, or leads to the fallback.
LEMMA EndedRules == ASSUME Idle, retry' = "none" PROVE Rules'
BY DEF Idle, Rules, Episode, GivenUp, Unreused, MscHeld, Requested, At, ReadyPlaces
LEMMA FallbackRules ==
  ASSUME pc' \in {"fallback", "fb_close"}, retry' = "none" PROVE Rules'
BY DEF Rules, Episode, GivenUp, Unreused, MscHeld, Requested, At, ReadyPlaces
LEMMA ToFallbackRules == ASSUME NEW cause, ToFallback(cause) PROVE Rules'
BY FallbackRules DEF ToFallback

LEMMA FailedRules == ASSUME Failed PROVE Rules'
BY EndedRules DEF Failed
LEMMA PausedRules == ASSUME Paused PROVE Rules'
BY EndedRules DEF Paused
LEMMA PendingRules == ASSUME Pending PROVE Rules'
BY FailedRules DEF Pending

\* A tick whose handshake or attempt goes on while there is no episode.
LEMMA NoEpisodeRules == ASSUME Idle, retry = "none", UNCHANGED retry PROVE Rules'
BY EndedRules

\* On to a place that promises nothing, without an episode.
LEMMA GoRules ==
  ASSUME Rules, retry = "none",
         NEW p \in {"prove", "reown", "live", "reassert", "close", "rest", "finish", "open", "mode"},
         Go(p)
  PROVE  Rules'
BY DEF Go, Rules, Episode, GivenUp, Unreused, MscHeld, Requested, At, ReadyPlaces

\* On within a discharge, with or without an episode.
LEMMA DischargeRules ==
  ASSUME Rules, At \in DischargePlaces, NEW p \in {"mode", "rest", "finish"}, Go(p)
  PROVE  Rules'
BY DEF Go, Rules, Episode, GivenUp, Unreused, MscHeld, Requested, At, ReadyPlaces,
     DischargePlaces

LEMMA AwaitRules ==
  ASSUME Rules, Await, At \in ReadyPlaces \/ (At = "hold_rest" /\ purpose # "none")
  PROVE  Rules'
BY DEF Await, Idle, Rules, Episode, GivenUp, Unreused, MscHeld, Requested, At, ReadyPlaces

\* No attempt comes of a request.
LEMMA NoAttemptKept == [NoAttempt EXCEPT !.kept = FALSE] = NoAttempt
<1> DEFINE r == [NoAttempt EXCEPT !.kept = FALSE]
<1>1. r \in Attempts /\ NoAttempt \in Attempts
  BY ResetsTyped DEF Attempts
<1>2. r.purpose = NoAttempt.purpose /\ r.age = NoAttempt.age /\ r.kept = NoAttempt.kept
  BY DEF NoAttempt
<1> HIDE DEF r
<1>3. r = NoAttempt
  BY <1>1, <1>2 DEF Attempts
<1> QED
  BY <1>3 DEF r

\* An export limit is asked for: a close that may be waited for, or another limit
\* on the way to a discharge or to the end of the application.
LEMMA SendCloseRules ==
  ASSUME TypeInv, Rules, NEW next \in {"hold_rest", "fb_msc", "settle_close"},
         SendExport("closed", next), pc # "await",
         retry # "none" => next = "hold_rest" /\ At = "hold_close"
  PROVE  Rules'
<1>1. ~request'.spent /\ request'.age = 0 /\ started' >= 0
  BY DEF SendExport, TypeInv, TypeOK, Ages
<1>2. attempt = NoAttempt => attempt' = NoAttempt
  BY NoAttemptKept DEF SendExport
<1> QED
  BY <1>1, <1>2 DEF SendExport, Rules, Episode, GivenUp, Unreused, MscHeld, Requested, At,
     ReadyPlaces, DischargePlaces
LEMMA SendOpenRules ==
  ASSUME TypeInv, Rules, NEW next \in {"settle_target", "rest"},
         SendExport("open", next), pc # "await",
         retry # "none" => pc \in DischargePlaces
  PROVE  Rules'
<1>1. attempt = NoAttempt => attempt' = NoAttempt
  BY NoAttemptKept DEF SendExport
<1> QED
  BY <1>1 DEF SendExport, Rules, Episode, GivenUp, Unreused, MscHeld, Requested, At,
     ReadyPlaces, DischargePlaces
LEMMA SendMscRules ==
  ASSUME Rules, NEW p, NEW next \in {"hold_rest", "fb_settle", "settle_msc"},
         SendMode("msc", p, next), pc # "await", retry = "none",
         next = "hold_rest" => pc = "hold_msc", next = "fb_settle" => pc = "fb_msc"
  PROVE  Rules'
BY DEF SendMode, Rules, Episode, GivenUp, Unreused, MscHeld, Requested, At, ReadyPlaces
LEMMA SendDischargeRules ==
  ASSUME Rules, NEW p, SendMode("discharge", p, "rest"), pc = "mode"
  PROVE  Rules'
BY DEF SendMode, Rules, Episode, GivenUp, Unreused, MscHeld, Requested, At, ReadyPlaces,
     DischargePlaces

\* A hold without an episode waits for nothing but its own tick.
LEMMA HoldRules ==
  ASSUME Rules, retry = "none", UNCHANGED retry, NEW t, Hold(t) PROVE Rules'
<1>1. purpose' = "none" /\ pc' \in {"hold_close", "hold_msc", "hold_rest"}
  BY DEF Hold
<1> QED
  BY <1>1 DEF Rules, Episode, GivenUp, Unreused, MscHeld, Requested, At, ReadyPlaces

\* The hold of an episode asks for its close: this snapshot cannot prove one, and
\* no accepted request is left.
LEMMA EpisodeHoldRules ==
  ASSUME Rules, retry # "none", UNCHANGED <<retry, attempt>>, pc = "enter", Hold(tr)
  PROVE  Rules'
<1>1. tr.phase = "close" /\ tr.id # "current" /\ tr.closeSame /\ attempt = NoAttempt
  BY DEF Rules, Episode, At
<1>2. CloseOwed(tr)
  BY <1>1 DEF CloseOwed, ExportClosed
<1>3. pc' = "hold_close" /\ purpose' # "none"
  BY <1>1, <1>2 DEF Hold
<1> QED
  BY <1>1, <1>3 DEF Rules, Episode, GivenUp, Unreused, MscHeld, Requested, At, ReadyPlaces,
     DischargePlaces

LEMMA PrimaryRules ==
  ASSUME TypeInv, Rules, Primary, attempt' = NoAttempt, pc \in {"enter", "prove", "reown"}
  PROVE  Rules'
<1>1. CASE StartDischarge
  <2>1. /\ tr'.phase = "close" /\ tr'.id # "current" /\ d' = "discharge"
        /\ pc' \in {"rest", "prepare"} /\ reused' = reused
    BY <1>1 DEF StartDischarge, Primary, NewTransition, NoTransition
  <2> QED
    BY <2>1 DEF Primary, Rules, Episode, GivenUp, Unreused, MscHeld, Requested, At,
       ReadyPlaces, DischargePlaces
<1>2. CASE HoldForProof
  <2>1. CASE retry = "none"
    BY <1>2, <2>1, HoldRules DEF HoldForProof, Primary
  <2>2. CASE retry # "none"
    <3>1. pc = "enter" /\ tr.phase = "close" /\ attempt = NoAttempt
      BY <2>2 DEF Rules, Episode, At, DischargePlaces
    <3> QED
      BY <1>2, <2>2, <3>1, EpisodeHoldRules DEF HoldForProof, Primary
  <2> QED
    BY <2>1, <2>2
<1>3. CASE Proceed
  <2>1. retry = "none"
    <3>1. SUFFICES ASSUME retry # "none" PROVE FALSE
      OBVIOUS
    <3>2. tr.phase = "close"
      BY <3>1 DEF Rules, Episode, At, DischargePlaces
    <3>3. MustHold
      BY <1>3, <3>2 DEF Proceed, MustHold, TransitionRequired, TransitionObserved, Proven
    <3> QED
      BY <1>3, <3>3 DEF Proceed
  <2>2. pc' \in {"live", "reassert", "close", "rest"} /\ retry' = "none"
    BY <1>3, <2>1 DEF Proceed, Primary
  <2> QED
    BY <2>2 DEF Rules, Episode, GivenUp, Unreused, MscHeld, Requested, At, ReadyPlaces
<1> QED
  BY <1>1, <1>2, <1>3 DEF Primary

\* An outstanding attempt is observed, goes on or is given up; there is no episode.
LEMMA GiveUpRules ==
  ASSUME Rules, NEW expired, GiveUp(expired), retry = "none", expired => attempt # NoAttempt
  PROVE  Rules'
<1>1. expired => tr'.phase = "close" /\ tr'.id = "retired"
  BY DEF GiveUp, Barred, NewTransition, NoTransition
<1>2. purpose' # "none" => expired
  BY DEF GiveUp
<1> QED
  BY <1>1, <1>2 DEF GiveUp, Rules, Episode, GivenUp, Unreused, MscHeld, Requested, At,
     ReadyPlaces

LEMMA EnterRules ==
  ASSUME TypeInv, Rules, NEW a \in Authority, Enter(a) PROVE Rules'
<1>1. CASE NotAutomated(a)
  BY <1>1, PausedRules, EndedRules DEF NotAutomated
<1>2. CASE attempt # NoAttempt /\ Resume
  <2>1. retry = "none"
    BY <1>2 DEF Rules, Episode
  <2>2. CASE GiveUp(Expired /\ ~Misused)
    BY <1>2, <2>1, <2>2, GiveUpRules
  <2>3. CASE \E p \in {"reown", "ordinary", "prove"} : Go(p)
    BY <2>1, <2>3 DEF Enter, Go, Rules, Episode, GivenUp, Unreused, MscHeld, Requested, At,
       ReadyPlaces
  <2>4. CASE HoldOn
    BY <2>1, <2>4, HoldRules DEF HoldOn
  <2> QED
    BY <1>2, <2>2, <2>3, <2>4 DEF Resume
<1>3. CASE attempt = NoAttempt /\ Primary /\ UNCHANGED attempt
  BY <1>3, PrimaryRules DEF Enter
<1> QED
  BY <1>1, <1>2, <1>3 DEF Enter

LEMMA ProveRules == ASSUME TypeInv, Rules, NEW ok, Prove(ok) PROVE Rules'
<1>1. retry = "none" /\ pc \in {"prove", "reown"}
  BY DEF Prove, Rules, Episode, At, DischargePlaces
<1>2. CASE attempt' = NoAttempt /\ Primary
  BY <1>1, <1>2, PrimaryRules
<1>3. CASE GiveUp(Expired /\ (pc = "prove" \/ ok))
  <2>1. Expired => attempt # NoAttempt
    BY SettlementAssumption DEF Expired, NoAttempt
  <2> QED
    BY <1>1, <1>3, <2>1, GiveUpRules
<1> QED
  BY <1>2, <1>3 DEF Prove

LEMMA RestrictRules == ASSUME TypeInv, Rules, NEW ok, Restrict(ok) PROVE Rules'
<1>1. retry' # "none" => attempt = NoAttempt /\ tr.phase = "close" /\ tr.id # "current"
  BY DEF Restrict, Rules, GivenUp
<1> QED
  BY <1>1 DEF Restrict, Idle, Rules, Episode, GivenUp, Unreused, MscHeld, Requested, At,
     ReadyPlaces, DischargePlaces

LEMMA OrdinaryRestRules ==
  ASSUME TypeInv, Rules, NEW ok, OrdinaryRest(ok) PROVE Rules'
<1>1. CASE Go("ordinary_own")
  BY <1>1 DEF OrdinaryRest, Go, Rules, Episode, GivenUp, Unreused, MscHeld, Requested, At,
     ReadyPlaces, DischargePlaces
<1> QED
  BY <1>1, ToFallbackRules DEF OrdinaryRest

LEMMA OrdinaryOwnRules == ASSUME TypeInv, Rules, NEW ok, OrdinaryOwn(ok) PROVE Rules'
<1>1. retry = "none" /\ ~reused
  BY DEF OrdinaryOwn, Rules, Episode, Unreused, At, DischargePlaces
<1>2. CASE Failed \/ Paused
  BY <1>2, FailedRules, PausedRules
<1>3. CASE StillPending
  BY <1>1, <1>3, EndedRules DEF StillPending
<1>4. CASE pc' = "enter" /\ UNCHANGED <<retry, reused>>
  BY <1>1, <1>4 DEF Rules, Episode, GivenUp, Unreused, MscHeld, Requested, At, ReadyPlaces
<1> QED
  BY <1>2, <1>3, <1>4 DEF OrdinaryOwn

\* The hold and the fallback.
LEMMA HoldCloseRules == ASSUME TypeInv, Rules, HoldClose PROVE Rules'
<1>1. At = "hold_close" /\ pc # "await"
  BY DEF HoldClose, At
<1> QED
  BY <1>1, SendCloseRules, ToFallbackRules DEF HoldClose, Dispatch
LEMMA HoldMscRules == ASSUME TypeInv, Rules, HoldMsc PROVE Rules'
<1>1. retry = "none" /\ pc # "await"
  BY DEF HoldMsc, Rules, Episode, At, DischargePlaces
<1> QED
  BY <1>1, SendMscRules, ToFallbackRules DEF HoldMsc, Dispatch

LEMMA HoldRestRules == ASSUME TypeInv, Rules, NEW ok, HoldRest(ok) PROVE Rules'
<1>1. At = "hold_rest" /\ (purpose = "none" => retry = "none")
  BY DEF HoldRest, Rules, Episode, At
<1>2. CASE purpose # "none" /\ Await
  BY <1>1, <1>2, AwaitRules
<1>3. CASE purpose = "none" /\ StillPending
  BY <1>1, <1>3, EndedRules DEF StillPending
<1> QED
  BY <1>2, <1>3, ToFallbackRules, PausedRules, PendingRules DEF HoldRest

LEMMA BarrierRules == ASSUME TypeInv, Rules, NEW ok, Fallback(ok) PROVE Rules'
<1>1. retry = "none"
  BY DEF Fallback, Rules, Episode, At, DischargePlaces
<1> QED
  BY <1>1, PausedRules, FallbackRules DEF Fallback

LEMMA FallbackCloseRules == ASSUME TypeInv, Rules, FallbackClose PROVE Rules'
<1>1. retry = "none" /\ pc # "await"
  BY DEF FallbackClose, Rules, Episode, At, DischargePlaces
<1> QED
  BY <1>1, SendCloseRules DEF FallbackClose
LEMMA FallbackMscRules == ASSUME TypeInv, Rules, FallbackMsc PROVE Rules'
<1>1. retry = "none" /\ pc = "fb_msc"
  BY DEF FallbackMsc, Rules, Episode, At, DischargePlaces
<1> QED
  BY <1>1, SendMscRules DEF FallbackMsc
LEMMA FallbackSettleRules ==
  ASSUME TypeInv, Rules, NEW seen, NEW ok, FallbackSettle(seen, ok) PROVE Rules'
<1>1. At \in ReadyPlaces
  BY DEF FallbackSettle, At, ReadyPlaces
<1> QED
  BY <1>1, AwaitRules, PendingRules DEF FallbackSettle

LEMMA BeginRules == ASSUME TypeInv, Rules, NEW ok, Begin(ok) PROVE Rules'
<1>1. retry = "none"
  BY DEF Begin, Rules, Episode, At, DischargePlaces
<1> QED
  BY <1>1, EndedRules, FailedRules DEF Begin

\* Opening and closing the grid.
LEMMA ReassertRules == ASSUME TypeInv, Rules, Reassert PROVE Rules'
<1>1. retry = "none" /\ pc = "reassert"
  BY DEF Reassert, Rules, Episode, At, DischargePlaces
<1> QED
  BY <1>1, SendMscRules, ToFallbackRules DEF Reassert, Dispatch
LEMMA SettleMscRules == ASSUME TypeInv, Rules, NEW seen, SettleMsc(seen) PROVE Rules'
<1>1. retry = "none"
  BY DEF SettleMsc, Rules, Episode, At, DischargePlaces
<1> QED
  BY <1>1, GoRules, ToFallbackRules DEF SettleMsc
LEMMA LiveRules == ASSUME TypeInv, Rules, NEW ok, Live(ok) PROVE Rules'
<1>1. retry = "none"
  BY DEF Live, Rules, Episode, At, DischargePlaces
<1> QED
  BY <1>1, GoRules, HoldRules DEF Live
LEMMA OpenRules == ASSUME TypeInv, Rules, Open PROVE Rules'
<1>1. retry = "none" /\ pc # "await"
  BY DEF Open, Rules, Episode, At, DischargePlaces
<1> QED
  BY <1>1, SendOpenRules, ToFallbackRules DEF Open, Dispatch
LEMMA CloseRules == ASSUME TypeInv, Rules, Close PROVE Rules'
<1>1. retry = "none" /\ pc # "await"
  BY DEF Close, Rules, Episode, At, DischargePlaces
<1> QED
  BY <1>1, SendCloseRules, ToFallbackRules DEF Close, Dispatch

LEMMA SettleCloseRules ==
  ASSUME TypeInv, Rules, NEW seen, NEW ok, SettleClose(seen, ok) PROVE Rules'
<1>1. retry = "none" /\ ~request.spent /\ started >= request.age
  BY DEF SettleClose, Rules, Episode, Requested, At, DischargePlaces, ReadyPlaces
<1>2. CASE Go("rest")
  BY <1>1, <1>2, GoRules
<1>3. CASE pc' = "begin" /\ UNCHANGED <<retry, request, started>>
  BY <1>1, <1>3 DEF Rules, Episode, GivenUp, Unreused, MscHeld, Requested, At
<1> QED
  BY <1>2, <1>3, PendingRules DEF SettleClose

LEMMA PrepareRules == ASSUME TypeInv, Rules, Prepare PROVE Rules'
<1>1. pc \in DischargePlaces /\ pc # "await"
  BY DEF Prepare, DischargePlaces
<1> QED
  BY <1>1, SendOpenRules, ToFallbackRules DEF Prepare, Dispatch
LEMMA SettleTargetRules ==
  ASSUME TypeInv, Rules, NEW seen, SettleTarget(seen) PROVE Rules'
<1>1. At \in DischargePlaces
  BY DEF SettleTarget, At, DischargePlaces
<1> QED
  BY <1>1, DischargeRules, ToFallbackRules DEF SettleTarget
LEMMA ModeRules == ASSUME TypeInv, Rules, Discharge PROVE Rules'
BY SendDischargeRules, ToFallbackRules DEF Discharge, Dispatch

LEMMA RestRules ==
  ASSUME TypeInv, Rules, NEW outcome \in {"done", "collected", "failed"}, Rest(outcome)
  PROVE  Rules'
<1>1. At \in DischargePlaces
  BY DEF Rest, At, DischargePlaces
<1> QED
  BY <1>1, DischargeRules, FailedRules, ToFallbackRules DEF Rest

LEMMA FinishRules == ASSUME TypeInv, Rules, NEW ok, Finish(ok) PROVE Rules'
<1>1. CASE Paused \/ ToFallback("none")
  BY <1>1, PausedRules, ToFallbackRules
<1>2. CASE pc' = "fallback" /\ retry' = "none"
  BY <1>2, FallbackRules
<1>3. CASE Completed /\ (d = "discharge" /\ ~reused => UNCHANGED tr)
  BY <1>3 DEF Finish, Completed, Idle, Rules, Episode, GivenUp, Unreused, MscHeld,
     Requested, At, ReadyPlaces, DischargePlaces
<1>4. reused = TRUE \/ reused = FALSE
  BY DEF TypeInv, TypeOK
<1> QED
  BY <1>1, <1>2, <1>3, <1>4 DEF Finish

\* The answer of a call leads where the call said, or to the fallback.
LEMMA AnswerRules ==
  ASSUME TypeInv, Rules, NEW ok \in BOOLEAN, NEW taken \in BOOLEAN, Answer(ok, taken)
  PROVE  Rules'
<1>1. tr'.phase = tr.phase /\ tr'.id = tr.id /\ tr'.closeSame = tr.closeSame
  BY DEF Answer, TypeInv, TypeOK, Transitions
<1>2. CASE pc' = "fallback" /\ retry' = "none"
  BY <1>2, FallbackRules
<1>3. CASE pc' = flight.next /\ UNCHANGED <<wait, purpose>>
  BY <1>1, <1>3 DEF Answer, TypeInv, FlightOK, Continuations, Rules, Episode, GivenUp,
     Unreused, MscHeld, Requested, At, ReadyPlaces, DischargePlaces
<1> QED
  BY <1>2, <1>3 DEF Answer

\* Home Assistant, time and interruptions.
LEMMA UnchangedRules ==
  ASSUME Rules, UNCHANGED <<tr, request, wait, pc, app>> PROVE Rules'
BY DEF Rules, Episode, GivenUp, Unreused, MscHeld, Requested, At

LEMMA PassRules == ASSUME TypeInv, Rules, Pass PROVE Rules'
<1>1. request.age \in Ages /\ started \in Ages
  BY DEF TypeInv, TypeOK, Requests
<1>2. /\ request'.age = Older(request.age) /\ request'.spent = request.spent
      /\ pc # "idle" => started' = Older(started)
  BY DEF Pass, TypeInv, TypeOK, Requests
<1>3. Requested'
  <2>1. SUFFICES ASSUME At' \in ReadyPlaces \/ (At' = "hold_rest" /\ purpose' # "none")
                 PROVE  ~request'.spent /\ started' >= request'.age
    BY DEF Requested
  <2>2. pc # "idle" /\ ~request.spent /\ started >= request.age
    BY <2>1 DEF Pass, Rules, Requested, At, ReadyPlaces
  <2> QED
    BY <1>1, <1>2, <2>2, OlderMonotone
<1> QED
  BY <1>3 DEF Pass, Rules, Episode, GivenUp, Unreused, MscHeld, At

LEMMA ReconnectRules == ASSUME TypeInv, Rules, Reconnect PROVE Rules'
<1>1. GivenUp'
  BY DEF Reconnect, Barred, Rules, GivenUp, TypeInv, TypeOK, Transitions
<1> QED
  BY <1>1 DEF Reconnect, Rules, Episode, Unreused, MscHeld, Requested, At

LEMMA ConfigureRules == ASSUME TypeInv, Rules, Configure PROVE Rules'
BY DEF Configure, Rules, Episode, GivenUp, Unreused, MscHeld, Requested, At, ReadyPlaces
LEMMA RaiseRules == ASSUME TypeInv, Rules, NEW taken, Raise(taken) PROVE Rules'
BY EndedRules DEF Raise

\* A tick begins: the barrier of an episode may not be proven by this snapshot.
LEMMA StartRules ==
  ASSUME TypeInv, Rules, NEW who, NEW policy, NEW readable, Start(who, policy, readable)
  PROVE  Rules'
<1>1. ~reused
  BY DEF Start, Rules, Unreused
<1>2. CASE retry = "none"
  BY <1>1, <1>2 DEF Start, Rules, Episode, GivenUp, Unreused, MscHeld, Requested, At,
     ReadyPlaces
<1>3. CASE retry # "none"
  <2>1. tr.phase = "close" /\ tr.id # "current" /\ attempt = NoAttempt
    BY <1>3 DEF Start, Rules, Episode, At
  <2>2. tr'.phase = "close" /\ tr'.id # "current" /\ tr'.closeSame
    BY <2>1 DEF Start, NewTransitionS, NewTransition, NoTransition
  <2> QED
    BY <1>1, <2>1, <2>2 DEF Start, Rules, Episode, GivenUp, Unreused, MscHeld, Requested, At,
       ReadyPlaces, DischargePlaces
<1> QED
  BY <1>2, <1>3

LEMMA InitRules == Init => Rules
BY DEF Init, Rules, Episode, GivenUp, Unreused, MscHeld, Requested, At, ReadyPlaces

LEMMA NextRules == TypeInv /\ Rules /\ [Next]_vars => Rules'
<1> SUFFICES ASSUME TypeInv, Rules, [Next]_vars PROVE Rules'
  OBVIOUS
<1>1. CASE World
  BY <1>1, UnchangedRules, PassRules, ReconnectRules, ConfigureRules, RaiseRules
  DEF World, ReportExport, ReportMode
<1>2. CASE Application
  <2>1. CASE \E ok, taken \in BOOLEAN : Answer(ok, taken)
    BY <2>1, AnswerRules
  <2>2. CASE \E a \in Authority : Enter(a)
    BY <2>2, EnterRules
  <2>3. CASE \E ok \in BOOLEAN :
               Prove(ok) \/ Restrict(ok) \/ OrdinaryRest(ok) \/ OrdinaryOwn(ok)
                 \/ HoldRest(ok) \/ Fallback(ok) \/ Begin(ok) \/ SettleMsc(ok)
                 \/ Live(ok) \/ SettleTarget(ok) \/ Finish(ok)
    BY <2>3, ProveRules, RestrictRules, OrdinaryRestRules, OrdinaryOwnRules, HoldRestRules,
       BarrierRules, BeginRules, SettleMscRules, LiveRules, SettleTargetRules, FinishRules
  <2>4. CASE \E seen, ok \in BOOLEAN : FallbackSettle(seen, ok) \/ SettleClose(seen, ok)
    BY <2>4, FallbackSettleRules, SettleCloseRules
  <2>5. CASE \/ HoldClose \/ HoldMsc \/ FallbackClose \/ FallbackMsc
             \/ Reassert \/ Open \/ Close \/ Prepare \/ Discharge
    BY <2>5, HoldCloseRules, HoldMscRules, FallbackCloseRules, FallbackMscRules,
       ReassertRules, OpenRules, CloseRules, PrepareRules, ModeRules
  <2>6. CASE \E outcome \in {"done", "collected", "failed"} : Rest(outcome)
    BY <2>6, RestRules
  <2> QED
    BY <1>2, <2>1, <2>2, <2>3, <2>4, <2>5, <2>6 DEF Application
<1>3. CASE Loop \/ Api
  BY <1>3, StartRules DEF Loop, Api, LoopTick, ApiTick
<1>4. CASE UNCHANGED vars
  BY <1>4, UnchangedRules DEF vars
<1> QED
  BY <1>1, <1>2, <1>3, <1>4 DEF Next

\* Only `_begin_accepted_settlement` makes an attempt.
LEMMA NewAttempts ==
  ASSUME TypeInv, Next, attempt = NoAttempt, attempt' # NoAttempt
  PROVE  pc = "begin" /\ attempt' = NewAttempt
<1>1. CASE World
  BY <1>1 DEF World, ReportExport, ReportMode, Pass, Reconnect, Configure, Raise
<1>2. CASE Loop \/ Api
  BY <1>2 DEF Loop, Api, LoopTick, ApiTick, Start
<1>3. CASE Application
  <2>1. \A v, next : SendExport(v, next) => attempt' = NoAttempt
    BY NoAttemptKept DEF SendExport
  <2>2. \A m, p, next : SendMode(m, p, next) => attempt' = NoAttempt
    BY DEF SendMode
  <2>3. \A cause : ToFallback(cause) => attempt' = NoAttempt
    BY DEF ToFallback
  <2>4. \A p : Go(p) => attempt' = NoAttempt
    BY DEF Go
  <2>5. Failed \/ Paused \/ Pending \/ StillPending \/ Completed => attempt' = NoAttempt
    BY DEF Failed, Paused, Pending, StillPending, Completed
  <2>6. Await => attempt' = NoAttempt
    BY DEF Await
  <2>7. \A expired : GiveUp(expired) => attempt' = NoAttempt
    BY DEF GiveUp
  <2> USE <2>1, <2>2, <2>3, <2>4, <2>5, <2>6, <2>7
  <2>8. CASE \E ok, taken \in BOOLEAN : Answer(ok, taken)
    BY <2>8 DEF Answer
  <2>9. CASE \E a \in Authority : Enter(a)
    BY <2>9 DEF Enter, NotAutomated
  <2>10. CASE \E ok \in BOOLEAN : Prove(ok) \/ Restrict(ok) \/ OrdinaryRest(ok) \/ OrdinaryOwn(ok)
    BY <2>10 DEF Prove, Restrict, OrdinaryRest, OrdinaryOwn
  <2>11. CASE \E ok \in BOOLEAN : HoldRest(ok) \/ Fallback(ok) \/ SettleMsc(ok)
    BY <2>11 DEF HoldRest, Fallback, SettleMsc
  <2>12. CASE \E ok \in BOOLEAN : Live(ok) \/ SettleTarget(ok) \/ Finish(ok)
    BY <2>12 DEF Live, SettleTarget, Finish
  <2>13. CASE \E ok \in BOOLEAN : Begin(ok)
    BY <2>13 DEF Begin
  <2>14. CASE \E seen, ok \in BOOLEAN : FallbackSettle(seen, ok) \/ SettleClose(seen, ok)
    BY <2>14 DEF FallbackSettle, SettleClose
  <2>15. CASE \/ HoldClose \/ HoldMsc \/ FallbackClose \/ FallbackMsc
              \/ Reassert \/ Open \/ Close \/ Prepare \/ Discharge
    BY <2>15 DEF HoldClose, HoldMsc, FallbackClose, FallbackMsc, Reassert, Open, Close,
       Prepare, Discharge, Dispatch
  <2>16. CASE \E outcome \in {"done", "collected", "failed"} : Rest(outcome)
    BY <2>16 DEF Rest
  <2> QED
    BY <1>3, <2>8, <2>9, <2>10, <2>11, <2>12, <2>13, <2>14, <2>15, <2>16 DEF Application
<1> QED
  BY <1>1, <1>2, <1>3 DEF Next

\* A close request is waited for once, and its budget began no later than the
\* request, whatever is decided, retried or interrupted (8599-8606, 9181-9194).
THEOREM OneBudgetEach == Spec => OneBudget
<1> DEFINE Fresh == attempt = NoAttempt /\ attempt' # NoAttempt
                      => ~request.spent /\ attempt'.age >= request.age
<1>1. Init => Inv
  BY InitTyped, InitRules DEF Inv
<1>2. Inv /\ [Next]_vars => Inv'
  BY NextTyped, NextRules DEF Inv
<1>3. Inv /\ [Next]_vars => [Fresh]_vars
  <2> SUFFICES ASSUME Inv, Next, attempt = NoAttempt, attempt' # NoAttempt
               PROVE  ~request.spent /\ attempt'.age >= request.age
    OBVIOUS
  <2>1. pc = "begin" /\ attempt'.age = started
    BY NewAttempts DEF Inv, NewAttempt
  <2> QED
    BY <2>1 DEF Inv, Rules, Requested, At, ReadyPlaces
<1> QED
  BY <1>1, <1>2, <1>3, PTL DEF Spec, OneBudget

-----------------------------------------------------------------------------
(* A lost proof is owed in full                                            *)

\* Places of an application that holds no attempt, by what became of the barrier.
FallbackPlaces == {"fb_close", "fb_msc", "fb_settle"}
OpeningPlaces  == {"reassert", "settle_msc"}
ReusePlaces    == {"live", "open"}
ClosePlaces    == {"close", "settle_close"}
AimPlaces      == {"prepare", "settle_target", "mode"}
Unattempted ==
  At \in {"fallback", "restrict", "rest", "finish"} \cup FallbackPlaces \cup OpeningPlaces
           \cup ReusePlaces \cup ClosePlaces \cup AimPlaces
    => attempt = NoAttempt

\* The barrier at each of them.
Barriers ==
  /\ tr.phase = "none" => owed = "none" /\ ~tr.closeAck
  /\ At \in OpeningPlaces \cup ClosePlaces => tr.phase = "none"
  /\ At \in ReusePlaces => reused \/ tr.phase = "none"
  /\ At \in FallbackPlaces \cup AimPlaces \cup {"hold_close"} => tr.phase = "close"
  /\ pc \in AimPlaces \/ At = "settle_target" => ~tr.closeAck
  /\ pc = "await" /\ flight.next = "settle_target" => ~flight.binds
  /\ pc = "await" /\ flight.what = "export" /\ flight.binds => tr.phase = "close"

\* What the reports show is not owed.
Shown ==
  /\ owed = "closing" => ~(shown.exportNew /\ shown.export = "closed")
  /\ owed = "closing" => ~(s.exportNew /\ s.export = "closed")
  /\ owed = "msc" => ~(shown.modeNew /\ shown.mode = "msc")

\* A request that binds the barrier is under way, for the reader that asked.
AckComing(what) == pc = "await" /\ flight.what = what /\ flight.binds /\ reader

\* Acknowledgements belong to the reader that asked, and to what is owed.
Acknowledged ==
  /\ tr.closeAck => tr.closeSent
  /\ reader /\ tr.closeAck => tr.id = "current"
  /\ tr.id = "current" /\ tr.closeAck => owed # "close"
  /\ AckComing("export") => owed # "close" /\ tr.id = "current" /\ tr.closeSent
  /\ pc = "hold_msc" /\ tr.closeAck => s.exportNew /\ s.export = "closed"
  /\ AckComing("mode") /\ tr.phase = "msc" /\ tr.closeAck
       => owed \in {"none", "msc", "proven"}
  /\ Proven(tr) => owed \in {"none", "msc", "proven"}

Debt == Unattempted /\ Barriers /\ Shown /\ Acknowledged

USE DEF At, FallbackPlaces, OpeningPlaces, ReusePlaces, ClosePlaces, AimPlaces

LEMMA AcknowledgedKept ==
  ASSUME Debt, UNCHANGED <<tr, reader, owed>>, pc' \notin {"await", "hold_msc"}
  PROVE  Acknowledged'
<1>1. Proven(tr)' = Proven(tr)
  BY DEF Proven
<1> QED
  BY <1>1 DEF Debt, Acknowledged, AckComing

\* An end of a tick that leaves the barrier as it was, or without a proof.
LEMMA EndedDebt ==
  ASSUME Debt, Idle, UNCHANGED <<shown, tr, owed>> PROVE Debt'
<1>1. Unattempted'
  BY DEF Idle, Unattempted
<1>2. Barriers'
  BY DEF Idle, Debt, Barriers
<1>3. Shown'
  BY DEF Idle, NoSnapshot, Debt, Shown
<1>4. Acknowledged'
  BY DEF Idle, Debt, Acknowledged, AckComing, Proven
<1> QED
  BY <1>1, <1>2, <1>3, <1>4 DEF Debt
LEMMA LostDebt ==
  ASSUME Debt, Idle, UNCHANGED shown, ~tr'.closeAck, tr'.phase = "none" => owed' = "none",
         owed' \in {"none", "close", owed}
  PROVE  Debt'
<1>1. Unattempted'
  BY DEF Idle, NoSnapshot, Debt, Unattempted
<1>2. Barriers'
  BY DEF Idle, NoSnapshot, Debt, Barriers
<1>3. Shown'
  BY DEF Idle, NoSnapshot, Debt, Shown
<1>4. Acknowledged'
  BY DEF Idle, Acknowledged, AckComing, Proven
<1> QED
  BY <1>1, <1>2, <1>3, <1>4 DEF Debt

\* A proof that is dropped, with the attempt that rested on it.
LEMMA RetiredDebt ==
  ASSUME TypeOK, Debt
  PROVE  /\ ~RetiredProof(tr).closeAck /\ ~RetiredProof(Barred(tr)).closeAck
         /\ RetiredProof(tr).phase = tr.phase
         /\ attempt # NoAttempt => ~Barred(tr).closeAck /\ Barred(tr).phase = "close"
         /\ RetiredProof(Barred(tr)).phase = Barred(tr).phase
         /\ Barred(tr).phase = "none" => attempt = NoAttempt /\ owed = "none"
<1>1. \A t \in Transitions :
        RetiredProof(t).phase = t.phase /\ (t.phase # "none" => ~RetiredProof(t).closeAck)
  BY DEF RetiredProof, Transitions
<1>2. tr \in Transitions /\ (tr.phase = "none" => owed = "none" /\ ~tr.closeAck)
  BY DEF TypeOK, Debt, Barriers
<1>3. attempt = NoAttempt => Barred(tr) = tr
  BY DEF Barred
<1>4. attempt # NoAttempt => ~Barred(tr).closeAck /\ Barred(tr).phase = "close"
  BY DEF Barred, NewTransition, NoTransition
<1>5. tr.phase = "none" => RetiredProof(tr) = tr
  BY DEF RetiredProof
<1>6. Barred(tr) \in Transitions
  BY BarredTyped
<1> QED
  BY <1>1, <1>2, <1>3, <1>4, <1>5, <1>6
LEMMA PausedDebt == ASSUME TypeOK, Debt, Paused PROVE Debt'
BY RetiredDebt, LostDebt DEF Paused, OweAgain

LEMMA PendingDebt == ASSUME Debt, Pending PROVE Debt'
BY EndedDebt DEF Pending, Failed
LEMMA StillPendingDebt == ASSUME Debt, StillPending PROVE Debt'
BY EndedDebt DEF StillPending

LEMMA ToFallbackDebt == ASSUME Debt, NEW cause, ToFallback(cause) PROVE Debt'
<1>1. Unattempted'
  BY DEF ToFallback, Debt, Unattempted
<1>2. Barriers'
  BY DEF ToFallback, Debt, Barriers
<1>3. Shown'
  BY DEF ToFallback, Debt, Shown
<1>4. Acknowledged'
  BY AcknowledgedKept DEF ToFallback
<1> QED
  BY <1>1, <1>2, <1>3, <1>4 DEF Debt
LEMMA AwaitDebt == ASSUME Debt, Await PROVE Debt'
<1>1. CASE pc' = "begin" /\ UNCHANGED <<env, barrier, attempt, app, timer, owed>>
  <2>1. Unattempted'
    BY <1>1 DEF Unattempted
  <2>2. Barriers'
    BY <1>1 DEF Debt, Barriers
  <2>3. Shown'
    BY <1>1 DEF Debt, Shown
  <2>4. Acknowledged'
    BY <1>1, AcknowledgedKept
  <2> QED
    BY <2>1, <2>2, <2>3, <2>4 DEF Debt
<1> QED
  BY <1>1, EndedDebt DEF Await

\* On to the next await, where the barrier is known.
LEMMA GoDebt ==
  ASSUME Debt, NEW p \in Places, p # "await", Go(p),
         p \in {"prove", "reown", "ordinary", "ordinary_own"} \/ attempt = NoAttempt,
         p \notin FallbackPlaces \cup AimPlaces \cup {"hold_close", "hold_msc"}
           \/ (p = "mode" /\ At = "settle_target"),
         p \notin OpeningPlaces \cup ClosePlaces,
         p \in ReusePlaces => reused \/ tr.phase = "none"
  PROVE  Debt'
<1>1. Unattempted'
  BY DEF Go, Debt, Unattempted
<1>2. Barriers'
  BY DEF Go, Debt, Barriers
<1>3. Shown'
  BY DEF Go, Debt, Shown
<1>4. Acknowledged'
  <2>1. /\ UNCHANGED <<tr, reader, owed, s>> /\ pc' # "await"
        /\ pc' # "hold_msc"
    BY DEF Go
  <2> QED
    BY <2>1, AcknowledgedKept
<1> QED
  BY <1>1, <1>2, <1>3, <1>4 DEF Debt

\* An export request: a close restarts what is owed from the barrier it binds.
LEMMA SendCloseDebt ==
  ASSUME TypeInv, Debt, NEW next \in {"hold_rest", "fb_msc", "settle_close"},
         SendExport("closed", next), pc # "await",
         next = "hold_rest" => pc = "hold_close",
         next = "fb_msc" => pc = "fb_close",
         next = "settle_close" => pc = "close"
  PROVE  Debt'
<1>1. attempt = NoAttempt => attempt' = NoAttempt
  BY NoAttemptKept DEF SendExport
<1>2. /\ tr'.phase = tr.phase
      /\ tr.phase = "none" => tr' = tr
      /\ tr.phase # "none" => /\ ~tr'.closeAck /\ tr'.closeSent
                              /\ tr'.id = IF reader THEN "current" ELSE "none"
  BY DEF SendExport, TypeInv, TypeOK, Transitions
<1>3. /\ shown'.exportNew = FALSE /\ s'.exportNew = FALSE
      /\ shown'.modeNew = shown.modeNew /\ shown'.mode = shown.mode
  BY DEF SendExport, TypeInv, TypeOK, Snapshots
<1>4. /\ pc' = "await" /\ flight'.what = "export" /\ flight'.next = next
      /\ flight'.binds => tr.phase # "none" /\ reader
      /\ owed' = IF owed = "close" THEN "closing" ELSE owed
      /\ reader' = reader /\ reused' = reused
  BY DEF SendExport
<1>5. Unattempted'
  BY <1>1, <1>4 DEF Debt, Unattempted
<1>6. Barriers'
  BY <1>2, <1>4 DEF Debt, Barriers
<1>7. Shown'
  BY <1>3, <1>4 DEF Debt, Shown
<1>8. Acknowledged'
  BY <1>2, <1>4 DEF Debt, Barriers, Acknowledged, AckComing, Proven
<1> QED
  BY <1>5, <1>6, <1>7, <1>8 DEF Debt
LEMMA SendOpenDebt ==
  ASSUME TypeInv, Debt, NEW next \in {"settle_target", "rest"},
         SendExport("open", next), pc # "await",
         next = "settle_target" => pc = "prepare", next = "rest" => pc = "open"
  PROVE  Debt'
<1>1. attempt = NoAttempt => attempt' = NoAttempt
  BY NoAttemptKept DEF SendExport
<1>2. /\ shown'.exportNew = FALSE /\ s'.exportNew = FALSE
      /\ shown'.modeNew = shown.modeNew /\ shown'.mode = shown.mode
  BY DEF SendExport, TypeInv, TypeOK, Snapshots
<1>3. /\ pc' = "await" /\ flight'.what = "export" /\ flight'.next = next
      /\ ~flight'.binds /\ owed' = owed
      /\ tr' = tr /\ reader' = reader /\ reused' = reused
  BY DEF SendExport
<1>4. Unattempted'
  BY <1>1, <1>3 DEF Debt, Unattempted
<1>5. Barriers'
  BY <1>3 DEF Debt, Barriers
<1>6. Shown'
  BY <1>2, <1>3 DEF Debt, Shown
<1>7. Acknowledged'
  BY <1>3 DEF Debt, Acknowledged, AckComing, Proven
<1> QED
  BY <1>4, <1>5, <1>6, <1>7 DEF Debt

\* MSC is asked for: once the close is reported, in a fallback, or before an opening.
LEMMA SendMscDebt ==
  ASSUME TypeInv, Debt, NEW p, NEW next \in {"hold_rest", "fb_settle", "settle_msc"},
         SendMode("msc", p, next), pc # "await",
         next = "hold_rest" => pc = "hold_msc",
         next = "fb_settle" => pc = "fb_msc",
         next = "settle_msc" => pc = "reassert"
  PROVE  Debt'
<1>1. /\ tr'.phase = tr.phase /\ tr'.closeAck = tr.closeAck /\ tr'.closeSent = tr.closeSent
      /\ tr.phase = "none" => tr' = tr
      /\ tr.phase # "none" => ~tr'.mscAck /\ tr'.id = IF reader THEN "current" ELSE "none"
  BY DEF SendMode, TypeInv, TypeOK, Transitions
<1>2. /\ shown'.exportNew = shown.exportNew /\ shown'.export = shown.export
      /\ s'.exportNew = s.exportNew /\ s'.export = s.export /\ ~shown'.modeNew
  BY DEF SendMode, TypeInv, TypeOK, Snapshots
<1>3. /\ pc' = "await" /\ flight'.what = "mode" /\ flight'.next = next
      /\ flight'.binds => tr.phase # "none" /\ reader
      /\ owed' = IF owed = "closed" THEN "msc" ELSE owed
      /\ UNCHANGED <<reader, reused, attempt>>
  BY DEF SendMode
<1>4. Unattempted'
  BY <1>3 DEF Debt, Unattempted
<1>5. Barriers'
  BY <1>1, <1>3 DEF Debt, Barriers
<1>6. Shown'
  BY <1>2, <1>3 DEF Debt, Shown
<1>7. Acknowledged'
  <2>1. tr'.id = "current" /\ tr'.closeAck => owed' # "close"
    BY <1>1, <1>3 DEF Debt, Barriers, Acknowledged
  <2>2. AckComing("mode")' /\ tr'.phase = "msc" /\ tr'.closeAck
          => owed' \in {"none", "msc", "proven"}
    <3>1. SUFFICES ASSUME AckComing("mode")', tr.phase = "msc", tr.closeAck
                   PROVE  owed' \in {"none", "msc", "proven"}
      BY <1>1
    <3>2. reader /\ pc = "hold_msc"
      BY <1>3, <3>1 DEF AckComing, Debt, Barriers
    <3>3. owed \notin {"close", "closing"}
      BY <3>1, <3>2 DEF Debt, Acknowledged, Shown
    <3> QED
      BY <1>3, <3>3 DEF TypeInv, TypeOK, Owing
  <2>3. ~Proven(tr)'
    BY <1>1 DEF Proven
  <2> QED
    BY <1>1, <1>3, <2>1, <2>2, <2>3 DEF Debt, Barriers, Acknowledged, AckComing
<1> QED
  BY <1>4, <1>5, <1>6, <1>7 DEF Debt

LEMMA SendDischargeDebt ==
  ASSUME TypeInv, Debt, NEW p, SendMode("discharge", p, "rest"), pc = "mode" PROVE Debt'
<1>1. tr' = tr /\ owed' = "close" /\ tr.phase = "close" /\ ~tr.closeAck
  BY DEF SendMode, Debt, Barriers
<1>2. /\ pc' = "await" /\ flight'.what = "mode" /\ flight'.next = "rest"
      /\ UNCHANGED <<reader, reused, attempt>>
  BY DEF SendMode
<1>3. Unattempted'
  BY <1>2 DEF Debt, Unattempted
<1>4. Barriers'
  BY <1>1, <1>2 DEF Barriers
<1>5. Shown'
  BY <1>1 DEF Shown
<1>6. Acknowledged'
  BY <1>1, <1>2 DEF Acknowledged, AckComing, Proven
<1> QED
  BY <1>3, <1>4, <1>5, <1>6 DEF Debt

\* A hold goes on from a barrier t that owes what is owed.
LEMMA HoldDebt ==
  ASSUME Debt, NEW t \in Transitions, Hold(t), UNCHANGED <<shown, s, reader>>,
         owed' = owed \/ owed' = "close",
         t.closeAck => t.closeSent, reader /\ t.closeAck => t.id = "current",
         t.id = "current" /\ t.closeAck => owed' # "close",
         Proven(t) => owed' \in {"none", "msc", "proven"}
  PROVE  Debt'
<1> DEFINE closing == IF t.phase = "close" THEN t ELSE NewTransition
           proving == IF t.phase = "msc" THEN t
                      ELSE [t EXCEPT !.phase = "msc", !.mscSent = TRUE, !.mscAck = FALSE]
<1>1. /\ pc' \in {"hold_close", "hold_msc", "hold_rest"}
      /\ pc' = "hold_close" => CloseOwed(t)
      /\ pc' = "hold_msc" => ~CloseOwed(t)
      /\ tr' = IF CloseOwed(t) THEN closing ELSE proving
  BY DEF Hold
<1>2. /\ closing.phase = "close" /\ ~Proven(closing)
      /\ closing.closeAck => /\ t.closeAck /\ closing.closeSent = t.closeSent
                             /\ closing.id = t.id
  BY DEF NewTransition, NoTransition, Proven
<1>3. /\ proving.phase = "msc" /\ (Proven(proving) => Proven(t))
      /\ proving.closeAck = t.closeAck /\ proving.closeSent = t.closeSent
      /\ proving.id = t.id
  <2>1. CASE t.phase = "msc"
    BY <2>1
  <2>2. CASE t.phase # "msc"
    BY <2>2 DEF Transitions, Proven
  <2> QED
    BY <2>1, <2>2
<1> HIDE DEF closing, proving
<1>4. tr'.phase \in {"close", "msc"} /\ (pc' = "hold_close" => tr'.phase = "close")
  BY <1>1, <1>2, <1>3
<1>5. /\ tr'.closeAck => t.closeAck /\ tr'.closeSent /\ tr'.id = t.id
      /\ Proven(tr)' => Proven(t)
  BY <1>1, <1>2, <1>3 DEF Proven
<1>6. pc' = "hold_msc" /\ t.closeAck => s.exportNew /\ s.export = "closed"
  BY <1>1 DEF CloseOwed, ExportClosed
<1>7. Unattempted'
  BY <1>1 DEF Unattempted
<1>8. Barriers'
  BY <1>1, <1>4 DEF Barriers
<1>9. Shown'
  BY DEF Debt, Shown
<1>10. Acknowledged'
  BY <1>1, <1>5, <1>6 DEF Acknowledged, AckComing
<1> QED
  BY <1>7, <1>8, <1>9, <1>10 DEF Debt

\* The hold of the barrier itself.
LEMMA HoldOwnDebt ==
  ASSUME TypeInv, Debt, Hold(tr), UNCHANGED <<shown, s, reader, owed>> PROVE Debt'
<1>1. tr \in Transitions
  BY DEF TypeInv, TypeOK
<1> QED
  BY <1>1, HoldDebt DEF Debt, Acknowledged
LEMMA HoldNewDebt ==
  ASSUME Debt, NEW t \in {NewTransition, NewTransitionS}, Hold(t),
         UNCHANGED <<shown, s, reader>>, owed' = owed \/ owed' = "close"
  PROVE  Debt'
<1>1. t \in Transitions /\ ~t.closeAck
  BY ResetsTyped DEF NewTransitionS, NewTransition, NoTransition
<1> QED
  BY <1>1, HoldDebt DEF Proven

LEMMA PrimaryDebt ==
  ASSUME TypeInv, Debt, Primary, attempt' = NoAttempt, pc \in {"enter", "prove", "reown"}
  PROVE  Debt'
<1>1. CASE StartDischarge
  <2>1. /\ tr'.phase = "close" /\ ~tr'.closeAck /\ pc' \in {"rest", "prepare"}
        /\ UNCHANGED <<shown, s, reader, owed>>
    BY <1>1 DEF StartDischarge, Primary, NewTransition, NoTransition
  <2>2. Unattempted'
    BY DEF Unattempted
  <2>3. Barriers'
    BY <2>1 DEF Barriers
  <2>4. Shown'
    BY <2>1 DEF Debt, Shown
  <2>5. Acknowledged'
    BY <2>1 DEF Acknowledged, AckComing, Proven
  <2> QED
    BY <2>2, <2>3, <2>4, <2>5 DEF Debt
<1>2. CASE HoldForProof
  BY <1>2, HoldOwnDebt, HoldNewDebt DEF HoldForProof, Primary
<1>3. CASE Proceed
  <2>1. /\ UNCHANGED <<shown, s, reader, owed, tr>>
        /\ pc' \in {"live", "reassert", "close", "rest"}
    BY <1>3 DEF Proceed, Primary
  <2>2. pc' = "close" => tr.phase = "none"
    BY <1>3 DEF Proceed, MustHold, TransitionRequired, TransitionObserved, ExportClosed,
       NoTransition
  <2>3. /\ pc' = "reassert" => tr.phase = "none"
        /\ pc' = "live" => reused'
    BY <1>3 DEF Proceed
  <2>4. Unattempted'
    BY DEF Unattempted
  <2>5. Barriers'
    BY <2>1, <2>2, <2>3 DEF Debt, Barriers
  <2>6. Shown'
    BY <2>1 DEF Debt, Shown
  <2>7. Acknowledged'
    BY <2>1, AcknowledgedKept
  <2> QED
    BY <2>4, <2>5, <2>6, <2>7 DEF Debt
<1> QED
  BY <1>1, <1>2, <1>3 DEF Primary

LEMMA GiveUpDebt ==
  ASSUME TypeInv, Debt, NEW expired, GiveUp(expired) PROVE Debt'
<1>1. /\ pc' = "restrict" /\ attempt' = NoAttempt /\ UNCHANGED <<shown, s, reader>>
      /\ tr' = Barred(tr) /\ owed' = IF attempt = NoAttempt THEN owed ELSE "close"
  BY DEF GiveUp
<1>2. Unattempted'
  BY <1>1 DEF Unattempted
<1>3. CASE attempt = NoAttempt
  <2>1. tr' = tr /\ owed' = owed
    BY <1>1, <1>3 DEF Barred
  <2>2. Barriers'
    BY <1>1, <2>1 DEF Debt, Barriers
  <2>3. Shown'
    BY <1>1, <2>1 DEF Debt, Shown
  <2>4. Acknowledged'
    BY <1>1, <2>1, AcknowledgedKept
  <2> QED
    BY <1>2, <2>2, <2>3, <2>4 DEF Debt
<1>4. CASE attempt # NoAttempt
  <2>1. tr'.phase = "close" /\ ~tr'.closeAck /\ owed' = "close"
    BY <1>1, <1>4, RetiredDebt DEF TypeInv
  <2>2. Barriers'
    BY <1>1, <2>1 DEF Barriers
  <2>3. Shown'
    BY <2>1 DEF Shown
  <2>4. Acknowledged'
    BY <1>1, <2>1 DEF Acknowledged, AckComing, Proven
  <2> QED
    BY <1>2, <2>2, <2>3, <2>4 DEF Debt
<1> QED
  BY <1>3, <1>4

\* The barrier that a fallback, and a decision taken again, begin with.
LEMMA BarrierDebt ==
  ASSUME pc' \in {"enter", "fb_close"}, tr' \in {NewTransition, NewTransitionS},
         owed' = "close", pc' = "fb_close" => attempt' = NoAttempt
  PROVE  Debt'
<1>1. tr'.phase = "close" /\ ~tr'.closeAck
  BY DEF NewTransitionS, NewTransition, NoTransition
<1>2. Unattempted'
  BY DEF Unattempted
<1>3. Barriers'
  BY <1>1 DEF Barriers
<1>4. Shown'
  BY DEF Shown
<1>5. Acknowledged'
  BY <1>1 DEF Acknowledged, AckComing, Proven
<1> QED
  BY <1>2, <1>3, <1>4, <1>5 DEF Debt

LEMMA EnterDebt ==
  ASSUME TypeInv, Debt, NEW a \in Authority, Enter(a) PROVE Debt'
<1>1. CASE NotAutomated(a)
  <2>1. CASE Paused
    BY <2>1, PausedDebt DEF TypeInv
  <2>2. CASE tr' = NoTransition /\ owed' = "none" /\ Idle /\ UNCHANGED <<env, request>>
    BY <2>2, LostDebt DEF NoTransition
  <2>3. CASE /\ tr' = Barred(tr) /\ owed' = IF attempt = NoAttempt THEN owed ELSE "close"
             /\ Idle /\ UNCHANGED <<env, request>>
    <3>1. CASE attempt = NoAttempt
      BY <2>3, <3>1, EndedDebt DEF Barred
    <3>2. CASE attempt # NoAttempt
      BY <2>3, <3>2, RetiredDebt, LostDebt DEF TypeInv
    <3> QED
      BY <3>1, <3>2
  <2> QED
    BY <1>1, <2>1, <2>2, <2>3 DEF NotAutomated
<1>2. CASE Resume
  <2>1. CASE GiveUp(Expired /\ ~Misused)
    BY <2>1, GiveUpDebt
  <2>2. CASE Go(IF Reported THEN "reown" ELSE "ordinary")
    BY <2>2, GoDebt DEF Places
  <2>3. CASE Go("prove")
    BY <2>3, GoDebt DEF Places
  <2>4. CASE HoldOn
    BY <2>4, HoldOwnDebt DEF HoldOn
  <2> QED
    BY <1>2, <2>1, <2>2, <2>3, <2>4 DEF Resume
<1>3. CASE Primary /\ attempt = NoAttempt /\ UNCHANGED attempt
  BY <1>3, PrimaryDebt DEF Enter
<1> QED
  BY <1>1, <1>2, <1>3 DEF Enter

LEMMA ProveDebt == ASSUME TypeInv, Debt, NEW ok, Prove(ok) PROVE Debt'
<1>1. CASE attempt' = NoAttempt /\ Primary
  BY <1>1, PrimaryDebt DEF Prove
<1>2. CASE GiveUp(Expired /\ (pc = "prove" \/ ok))
  BY <1>2, GiveUpDebt
<1> QED
  BY <1>1, <1>2 DEF Prove
LEMMA RestrictDebt == ASSUME Debt, NEW ok, Restrict(ok) PROVE Debt'
BY EndedDebt DEF Restrict
LEMMA OrdinaryRestDebt == ASSUME Debt, NEW ok, OrdinaryRest(ok) PROVE Debt'
<1>1. CASE Go("ordinary_own")
  BY <1>1, GoDebt DEF Places
<1> QED
  BY <1>1, ToFallbackDebt DEF OrdinaryRest
LEMMA OrdinaryOwnDebt == ASSUME TypeInv, Debt, NEW ok, OrdinaryOwn(ok) PROVE Debt'
<1>1. CASE Paused
  BY <1>1, PausedDebt DEF TypeInv
<1>2. CASE /\ attempt = NoAttempt /\ tr' = RetiredProof(tr)
           /\ OweAgain /\ UNCHANGED baseline /\ Failed
  <2>1. ~tr'.closeAck /\ tr'.phase = tr.phase /\ owed' \in {"none", "close"}
    BY <1>2, RetiredDebt DEF TypeInv, OweAgain
  <2>2. tr'.phase = "none" => owed' = "none"
    BY <1>2, <2>1 DEF Debt, Barriers, OweAgain
  <2> QED
    BY <1>2, <2>1, <2>2, LostDebt DEF Failed
<1>3. CASE StillPending
  BY <1>3, StillPendingDebt
<1>4. CASE tr' = NewTransitionS /\ owed' = "close" /\ pc' = "enter"
  BY <1>4, BarrierDebt
<1> QED
  BY <1>1, <1>2, <1>3, <1>4 DEF OrdinaryOwn

LEMMA HoldCloseDebt == ASSUME TypeInv, Debt, HoldClose PROVE Debt'
<1>1. CASE SendExport("closed", "hold_rest")
  BY <1>1, SendCloseDebt DEF HoldClose
<1> QED
  BY <1>1, ToFallbackDebt DEF HoldClose, Dispatch
LEMMA HoldMscDebt == ASSUME TypeInv, Debt, HoldMsc PROVE Debt'
<1>1. CASE SendMode("msc", FALSE, "hold_rest")
  BY <1>1, SendMscDebt DEF HoldMsc
<1> QED
  BY <1>1, ToFallbackDebt DEF HoldMsc, Dispatch
LEMMA HoldRestDebt == ASSUME TypeInv, Debt, NEW ok, HoldRest(ok) PROVE Debt'
BY ToFallbackDebt, AwaitDebt, PausedDebt, StillPendingDebt, PendingDebt DEF HoldRest, TypeInv

LEMMA FallbackDebt == ASSUME TypeInv, Debt, NEW ok, Fallback(ok) PROVE Debt'
<1>1. CASE Paused
  BY <1>1, PausedDebt DEF TypeInv
<1>2. CASE tr' = NewTransition /\ owed' = "close" /\ pc' = "fb_close" /\ UNCHANGED wait
  BY <1>2, BarrierDebt DEF Debt, Unattempted, Fallback
<1> QED
  BY <1>1, <1>2 DEF Fallback
LEMMA FallbackCloseDebt == ASSUME TypeInv, Debt, FallbackClose PROVE Debt'
BY SendCloseDebt DEF FallbackClose
LEMMA FallbackMscDebt == ASSUME TypeInv, Debt, FallbackMsc PROVE Debt'
BY SendMscDebt DEF FallbackMsc
LEMMA FallbackSettleDebt == ASSUME Debt, NEW seen, NEW ok, FallbackSettle(seen, ok) PROVE Debt'
BY AwaitDebt, PendingDebt DEF FallbackSettle

LEMMA BeginDebt == ASSUME Debt, NEW ok, Begin(ok) PROVE Debt'
<1>1. CASE Idle /\ UNCHANGED <<env, tr, owed>>
  BY <1>1, EndedDebt
<1>2. CASE Failed /\ tr' = [NewTransition EXCEPT !.id = "retired"] /\ owed' = "close"
  BY <1>2, LostDebt DEF Failed, NewTransition, NoTransition
<1> QED
  BY <1>1, <1>2 DEF Begin, Failed

LEMMA ReassertDebt == ASSUME TypeInv, Debt, Reassert PROVE Debt'
<1>1. CASE SendMode("msc", TRUE, "settle_msc")
  BY <1>1, SendMscDebt DEF Reassert
<1> QED
  BY <1>1, ToFallbackDebt DEF Reassert, Dispatch
LEMMA SettleMscDebt == ASSUME Debt, NEW seen, SettleMsc(seen) PROVE Debt'
<1>1. CASE Go("live")
  <2>1. attempt = NoAttempt /\ tr.phase = "none"
    BY DEF SettleMsc, Debt, Unattempted, Barriers
  <2> QED
    BY <1>1, <2>1, GoDebt DEF Places
<1> QED
  BY <1>1, ToFallbackDebt DEF SettleMsc
LEMMA LiveDebt == ASSUME TypeInv, Debt, NEW ok, Live(ok) PROVE Debt'
<1>1. CASE Go(IF s.export = "open" /\ request.value = "open" THEN "rest" ELSE "open")
  <2>1. attempt = NoAttempt /\ (reused \/ tr.phase = "none")
    BY DEF Live, Debt, Unattempted, Barriers
  <2> QED
    BY <1>1, <2>1, GoDebt DEF Places
<1>2. CASE Hold(NewTransitionS) /\ owed' = "close" /\ UNCHANGED <<env, s, reader>>
  BY <1>2, HoldNewDebt
<1> QED
  BY <1>1, <1>2 DEF Live
LEMMA OpenDebt == ASSUME TypeInv, Debt, Open PROVE Debt'
<1>1. CASE SendExport("open", "rest")
  BY <1>1, SendOpenDebt DEF Open
<1> QED
  BY <1>1, ToFallbackDebt DEF Open, Dispatch
LEMMA CloseDebt == ASSUME TypeInv, Debt, Close PROVE Debt'
<1>1. CASE SendExport("closed", "settle_close")
  BY <1>1, SendCloseDebt DEF Close
<1> QED
  BY <1>1, ToFallbackDebt DEF Close, Dispatch
LEMMA SettleCloseDebt == ASSUME Debt, NEW seen, NEW ok, SettleClose(seen, ok) PROVE Debt'
<1>1. attempt = NoAttempt
  BY DEF SettleClose, Debt, Unattempted
<1>2. CASE Go("rest")
  BY <1>1, <1>2, GoDebt DEF Places
<1>3. CASE pc' = "begin" /\ UNCHANGED <<env, tr, wait, s, reader, owed>>
  <2>1. Unattempted'
    BY <1>3 DEF Unattempted
  <2>2. Barriers'
    BY <1>3 DEF Debt, Barriers
  <2>3. Shown'
    BY <1>3 DEF Debt, Shown
  <2>4. Acknowledged'
    BY <1>3, AcknowledgedKept
  <2> QED
    BY <2>1, <2>2, <2>3, <2>4 DEF Debt
<1> QED
  BY <1>2, <1>3, PendingDebt DEF SettleClose
LEMMA PrepareDebt == ASSUME TypeInv, Debt, Prepare PROVE Debt'
<1>1. CASE SendExport("open", "settle_target")
  BY <1>1, SendOpenDebt DEF Prepare
<1> QED
  BY <1>1, ToFallbackDebt DEF Prepare, Dispatch
LEMMA SettleTargetDebt == ASSUME Debt, NEW seen, SettleTarget(seen) PROVE Debt'
<1>1. attempt = NoAttempt /\ pc = "settle_target"
  BY DEF SettleTarget, Debt, Unattempted
<1>2. CASE Go("rest")
  BY <1>1, <1>2, GoDebt DEF Places
<1>3. CASE Go("mode")
  BY <1>1, <1>3, GoDebt DEF Places
<1> QED
  BY <1>2, <1>3, ToFallbackDebt DEF SettleTarget
LEMMA DischargeDebt == ASSUME TypeInv, Debt, Discharge PROVE Debt'
<1>1. CASE SendMode("discharge", TRUE, "rest")
  BY <1>1, SendDischargeDebt DEF Discharge
<1> QED
  BY <1>1, ToFallbackDebt DEF Discharge, Dispatch

\* A failure that is only collected drops the proof; there is no attempt to lose.
LEMMA RestDebt ==
  ASSUME Debt, NEW outcome \in {"done", "collected", "failed"}, Rest(outcome) PROVE Debt'
<1>1. attempt = NoAttempt
  BY DEF Rest, Debt, Unattempted
<1>2. CASE Go("finish")
  BY <1>1, <1>2, GoDebt DEF Places
<1>3. CASE /\ tr' = IF tr.phase = "none" THEN tr ELSE NewTransition
           /\ OweAgain /\ Failed
  BY <1>1, <1>3, LostDebt DEF Failed, OweAgain, NewTransition, NoTransition, Debt, Barriers
<1> QED
  BY <1>2, <1>3, ToFallbackDebt DEF Rest
LEMMA FinishDebt == ASSUME TypeInv, Debt, NEW ok, Finish(ok) PROVE Debt'
<1> DEFINE consumed == reused \/ (d # "discharge" /\ s.mode = "msc")
<1>1. CASE Paused
  BY <1>1, PausedDebt DEF TypeInv
<1>2. CASE /\ tr' = IF consumed THEN NoTransition ELSE tr
           /\ owed' = IF consumed THEN "none" ELSE owed
           /\ Completed
  BY <1>2, EndedDebt, LostDebt DEF Completed, NoTransition
<1>3. CASE /\ tr' = IF consumed THEN NoTransition ELSE tr
           /\ owed' = IF consumed THEN "none" ELSE owed
           /\ pc' = "fallback" /\ attempt' = NoAttempt /\ UNCHANGED <<env, s, reader>>
  <2>1. Unattempted'
    BY <1>3 DEF Unattempted
  <2>2. Barriers'
    BY <1>3 DEF Debt, Barriers, NoTransition
  <2>3. Shown'
    BY <1>3 DEF Debt, Shown
  <2>4. Acknowledged'
    <3>1. CASE consumed
      BY <1>3, <3>1 DEF Acknowledged, AckComing, Proven, NoTransition
    <3>2. CASE ~consumed
      BY <1>3, <3>2, AcknowledgedKept
    <3> QED
      BY <3>1, <3>2
  <2> QED
    BY <2>1, <2>2, <2>3, <2>4 DEF Debt
<1> QED
  BY <1>1, <1>2, <1>3, ToFallbackDebt DEF Finish

\* An answer acknowledges the barrier only for the request that bound it.
LEMMA AnswerDebt ==
  ASSUME TypeInv, Debt, NEW ok \in BOOLEAN, NEW taken \in BOOLEAN, Answer(ok, taken)
  PROVE  Debt'
<1>1. /\ pc = "await" /\ flight.next \in Continuations
      /\ flight.what \in {"export", "mode"}
  BY DEF Answer, TypeInv, FlightOK
<1>2. /\ \/ pc' = flight.next /\ UNCHANGED attempt
         \/ pc' = "fallback" /\ attempt' = NoAttempt
      /\ UNCHANGED <<shown, s, reader, reused, owed>>
  BY DEF Answer
<1>3. /\ tr'.phase = tr.phase /\ tr'.closeSent = tr.closeSent /\ tr'.id = tr.id
      /\ tr'.closeAck # tr.closeAck => AckComing("export")
      /\ tr'.mscAck # tr.mscAck => AckComing("mode")
  <2>1. tr \in Transitions
    BY DEF TypeInv, TypeOK
  <2>2. CASE ~(flight.binds /\ reader)
    <3>1. tr' = tr
      BY <2>2 DEF Answer
    <3> QED
      BY <3>1
  <2>3. CASE flight.binds /\ reader /\ flight.what = "export"
    <3>1. tr' = [tr EXCEPT !.closeAck = ok]
      BY <2>3 DEF Answer
    <3> QED
      BY <1>1, <2>1, <2>3, <3>1 DEF AckComing, Transitions
  <2>4. CASE flight.binds /\ reader /\ flight.what = "mode"
    <3>1. tr' = [tr EXCEPT !.mscAck = ok]
      BY <2>4 DEF Answer
    <3> QED
      BY <1>1, <2>1, <2>4, <3>1 DEF AckComing, Transitions
  <2> QED
    BY <1>1, <2>2, <2>3, <2>4
<1>4. Unattempted'
  BY <1>1, <1>2 DEF Debt, Unattempted, Continuations
<1>5. Barriers'
  BY <1>1, <1>2, <1>3 DEF Debt, Barriers, AckComing, Continuations
<1>6. Shown'
  BY <1>2 DEF Debt, Shown
<1>7. Acknowledged'
  <2>1. /\ tr'.closeAck => tr'.closeSent
        /\ reader' /\ tr'.closeAck => tr'.id = "current"
        /\ tr'.id = "current" /\ tr'.closeAck => owed' # "close"
    BY <1>2, <1>3 DEF Debt, Acknowledged
  <2>2. ~AckComing("export")' /\ ~AckComing("mode")' /\ pc' # "hold_msc"
    BY <1>1, <1>2 DEF AckComing, Continuations
  <2>3. Proven(tr)' => owed' \in {"none", "msc", "proven"}
    <3>1. SUFFICES ASSUME Proven(tr)', ~Proven(tr) PROVE owed \in {"none", "msc", "proven"}
      BY <1>2 DEF Debt, Acknowledged
    <3>2. tr'.mscAck /\ tr'.closeAck /\ tr'.phase = "msc" /\ tr'.id = "current"
      BY <3>1 DEF Proven
    <3>3. ~AckComing("export")
      BY <1>3, <3>2 DEF Debt, Barriers, AckComing
    <3>4. tr.closeAck /\ tr.phase = "msc" /\ AckComing("mode")
      BY <1>3, <3>1, <3>2, <3>3 DEF Proven, TypeInv, TypeOK, Transitions
    <3> QED
      BY <3>4 DEF Debt, Acknowledged
  <2> QED
    BY <2>1, <2>2, <2>3 DEF Acknowledged
<1> QED
  BY <1>4, <1>5, <1>6, <1>7 DEF Debt

\* A report pays the half of the debt that it shows.
LEMMA ReportExportDebt == ASSUME TypeInv, Debt, ReportExport PROVE Debt'
<1>1. /\ UNCHANGED <<tr, attempt, pc, s, reader, reused, flight>>
      /\ owed' = IF owed = "closing" /\ shown'.export = "closed" THEN "closed" ELSE owed
      /\ shown'.modeNew = shown.modeNew /\ shown'.mode = shown.mode
  BY DEF ReportExport, TypeInv, TypeOK
<1>2. Unattempted'
  BY <1>1 DEF Debt, Unattempted
<1>3. Barriers'
  BY <1>1 DEF Debt, Barriers
<1>4. Shown'
  BY <1>1 DEF Debt, Shown
<1>5. Acknowledged'
  BY <1>1 DEF Debt, Acknowledged, AckComing, Proven
<1> QED
  BY <1>2, <1>3, <1>4, <1>5 DEF Debt
LEMMA ReportModeDebt == ASSUME TypeInv, Debt, ReportMode PROVE Debt'
<1>1. /\ UNCHANGED <<tr, attempt, pc, s, reader, reused, flight>>
      /\ owed' = IF owed = "msc" /\ shown'.mode = "msc" THEN "proven" ELSE owed
      /\ shown'.exportNew = shown.exportNew /\ shown'.export = shown.export
  BY DEF ReportMode, TypeInv, TypeOK
<1>2. Unattempted'
  BY <1>1 DEF Debt, Unattempted
<1>3. Barriers'
  BY <1>1 DEF Debt, Barriers
<1>4. Shown'
  BY <1>1 DEF Debt, Shown
<1>5. Acknowledged'
  BY <1>1 DEF Debt, Acknowledged, AckComing, Proven
<1> QED
  BY <1>2, <1>3, <1>4, <1>5 DEF Debt

\* Nothing but ages changes.
LEMMA UnchangedDebt ==
  ASSUME Debt, UNCHANGED <<shown, tr, pc, s, reader, reused, flight, owed>>,
         attempt = NoAttempt => attempt' = NoAttempt
  PROVE  Debt'
<1>1. Unattempted'
  BY DEF Debt, Unattempted
<1>2. Barriers'
  BY DEF Debt, Barriers
<1>3. Shown'
  BY DEF Debt, Shown
<1>4. Acknowledged'
  BY DEF Debt, Acknowledged, AckComing, Proven
<1> QED
  BY <1>1, <1>2, <1>3, <1>4 DEF Debt

\* A reconnect retires the identity that acknowledgements belong to.
LEMMA ReconnectDebt == ASSUME TypeInv, Debt, Reconnect PROVE Debt'
<1>1. /\ UNCHANGED <<shown, pc, s, reused, flight>> /\ ~reader' /\ attempt' = NoAttempt
      /\ owed' = IF owed = "none" /\ attempt = NoAttempt THEN "none" ELSE "close"
  BY DEF Reconnect, OweAgain
<1>2. Barred(tr) \in Transitions
  BY BarredTyped DEF TypeInv
<1>3. /\ tr'.id # "current" /\ tr'.phase = Barred(tr).phase
      /\ tr'.closeAck = Barred(tr).closeAck /\ tr'.closeSent = Barred(tr).closeSent
  BY <1>2 DEF Reconnect, Transitions
<1>4. attempt = NoAttempt => Barred(tr) = tr
  BY DEF Barred
<1>5. attempt # NoAttempt => Barred(tr).phase = "close" /\ ~Barred(tr).closeAck
  BY RetiredDebt DEF TypeInv
<1>6. Unattempted'
  BY <1>1 DEF Unattempted
<1>7. Barriers'
  BY <1>1, <1>3, <1>4, <1>5 DEF Debt, Barriers, Unattempted
<1>8. Shown'
  BY <1>1 DEF Shown
<1>9. Acknowledged'
  BY <1>1, <1>3, <1>4, <1>5 DEF Debt, Acknowledged, AckComing, Proven
<1> QED
  BY <1>6, <1>7, <1>8, <1>9 DEF Debt

LEMMA ConfigureDebt == ASSUME TypeInv, Debt, Configure PROVE Debt'
<1>1. /\ pc = "idle" /\ attempt' = NoAttempt
      /\ UNCHANGED <<shown, pc, s, reader, reused, flight>>
      /\ owed' = IF owed = "none" /\ attempt = NoAttempt THEN "none" ELSE "close"
      /\ tr' = IF Barred(tr).phase = "none" THEN tr ELSE NewTransition
  BY DEF Configure, OweAgain
<1>2. Barred(tr).phase = "none" => attempt = NoAttempt /\ tr.phase = "none"
  BY RetiredDebt DEF TypeInv, Barred
<1>3. ~tr'.closeAck /\ (tr'.phase = "none" => owed' = "none")
  BY <1>1, <1>2 DEF NewTransition, NoTransition, Debt, Barriers
<1>4. Unattempted'
  BY <1>1 DEF Unattempted
<1>5. Barriers'
  BY <1>1, <1>3 DEF Barriers
<1>6. Shown'
  BY <1>1, <1>3 DEF Shown
<1>7. Acknowledged'
  BY <1>1, <1>3 DEF Acknowledged, AckComing, Proven
<1> QED
  BY <1>4, <1>5, <1>6, <1>7 DEF Debt
LEMMA RaiseDebt == ASSUME TypeInv, Debt, NEW taken, Raise(taken) PROVE Debt'
BY RetiredDebt, LostDebt DEF TypeInv, Raise, OweAgain

LEMMA StartDebt ==
  ASSUME TypeInv, Debt, NEW who, NEW policy, NEW readable, Start(who, policy, readable)
  PROVE  Debt'
<1>1. /\ pc' = "enter" /\ reader' /\ UNCHANGED <<shown, attempt>>
      /\ s'.exportNew = shown.exportNew /\ s'.export = shown.export
  BY DEF Start, Snapshot
<1>2. Unattempted'
  BY <1>1 DEF Unattempted
<1>3. CASE tr' = NewTransitionS /\ OweAgain
  <2>1. tr'.phase = "close" /\ ~tr'.closeAck /\ owed' \in {"none", "close"}
    BY <1>3 DEF OweAgain, NewTransitionS, NewTransition, NoTransition
  <2>2. Barriers'
    BY <1>1, <2>1 DEF Barriers
  <2>3. Shown'
    BY <2>1 DEF Shown
  <2>4. Acknowledged'
    BY <1>1, <2>1 DEF Acknowledged, AckComing, Proven
  <2> QED
    BY <1>2, <2>2, <2>3, <2>4 DEF Debt
<1>4. CASE /\ tr' = [tr EXCEPT !.closeSame = FALSE] /\ UNCHANGED owed
           /\ tr.phase = "none" \/ tr.id = "current"
  <2>1. /\ tr'.phase = tr.phase /\ tr'.closeAck = tr.closeAck /\ tr'.id = tr.id
        /\ tr'.closeSent = tr.closeSent /\ tr'.mscAck = tr.mscAck
    BY <1>4 DEF TypeInv, TypeOK, Transitions
  <2>2. Barriers'
    BY <1>1, <1>4, <2>1 DEF Debt, Barriers
  <2>3. Shown'
    BY <1>1, <1>4 DEF Debt, Shown
  <2>4. Acknowledged'
    BY <1>1, <1>4, <2>1 DEF Debt, Barriers, Acknowledged, AckComing, Proven
  <2> QED
    BY <1>2, <2>2, <2>3, <2>4 DEF Debt
<1> QED
  BY <1>3, <1>4 DEF Start

LEMMA InitDebt == Init => Debt
<1> SUFFICES ASSUME Init PROVE Debt
  OBVIOUS
<1>1. tr.phase = "none" /\ ~tr.closeAck /\ owed = "none" /\ pc = "idle"
  BY DEF Init, NoTransition
<1> QED
  BY <1>1 DEF Debt, Unattempted, Barriers, Shown, Acknowledged, AckComing, Proven

LEMMA NextDebt == TypeInv /\ Debt /\ [Next]_vars => Debt'
<1> SUFFICES ASSUME TypeInv, Debt, [Next]_vars PROVE Debt'
  OBVIOUS
<1>1. CASE World
  <2>1. CASE Pass
    BY <2>1, UnchangedDebt DEF Pass
  <2> QED
    BY <1>1, <2>1, ReportExportDebt, ReportModeDebt, ReconnectDebt, ConfigureDebt, RaiseDebt
    DEF World
<1>2. CASE Application
  <2>1. CASE \E ok, taken \in BOOLEAN : Answer(ok, taken)
    BY <2>1, AnswerDebt
  <2>2. CASE \E a \in Authority : Enter(a)
    BY <2>2, EnterDebt
  <2>3. CASE \E ok \in BOOLEAN :
               Prove(ok) \/ Restrict(ok) \/ OrdinaryRest(ok) \/ OrdinaryOwn(ok)
                 \/ HoldRest(ok) \/ Fallback(ok) \/ Begin(ok) \/ SettleMsc(ok)
                 \/ Live(ok) \/ SettleTarget(ok) \/ Finish(ok)
    BY <2>3, ProveDebt, RestrictDebt, OrdinaryRestDebt, OrdinaryOwnDebt, HoldRestDebt,
       FallbackDebt, BeginDebt, SettleMscDebt, LiveDebt, SettleTargetDebt, FinishDebt
  <2>4. CASE \E seen, ok \in BOOLEAN : FallbackSettle(seen, ok) \/ SettleClose(seen, ok)
    BY <2>4, FallbackSettleDebt, SettleCloseDebt
  <2>5. CASE \/ HoldClose \/ HoldMsc \/ FallbackClose \/ FallbackMsc
             \/ Reassert \/ Open \/ Close \/ Prepare \/ Discharge
    BY <2>5, HoldCloseDebt, HoldMscDebt, FallbackCloseDebt, FallbackMscDebt,
       ReassertDebt, OpenDebt, CloseDebt, PrepareDebt, DischargeDebt
  <2>6. CASE \E outcome \in {"done", "collected", "failed"} : Rest(outcome)
    BY <2>6, RestDebt
  <2> QED
    BY <1>2, <2>1, <2>2, <2>3, <2>4, <2>5, <2>6 DEF Application
<1>3. CASE Loop \/ Api
  BY <1>3, StartDebt DEF Loop, Api, LoopTick, ApiTick
<1>4. CASE UNCHANGED vars
  BY <1>4, UnchangedDebt DEF vars
<1> QED
  BY <1>1, <1>2, <1>3, <1>4 DEF Next

\* The PV-only ceiling is requested from one place, with the evidence of it.
LEMMA Openings ==
  ASSUME Next, pc = "open", pc' = "await"
  PROVE  OpenEvidence
<1>1. CASE World
  BY <1>1 DEF World, ReportExport, ReportMode, Pass, Reconnect, Configure, Raise, Idle
<1>2. CASE Loop \/ Api
  BY <1>2 DEF Loop, Api, LoopTick, ApiTick, Start
<1>3. CASE Application
  <2>1. CASE \E ok, taken \in BOOLEAN : Answer(ok, taken)
    BY <2>1 DEF Answer
  <2>2. CASE \E a \in Authority : Enter(a)
    BY <2>2 DEF Enter
  <2>3. CASE \E ok \in BOOLEAN : Prove(ok) \/ Restrict(ok) \/ OrdinaryRest(ok) \/ OrdinaryOwn(ok)
    BY <2>3 DEF Prove, Restrict, OrdinaryRest, OrdinaryOwn
  <2>4. CASE \E ok \in BOOLEAN : HoldRest(ok) \/ Fallback(ok) \/ Begin(ok) \/ SettleMsc(ok)
    BY <2>4 DEF HoldRest, Fallback, Begin, SettleMsc
  <2>5. CASE \E ok \in BOOLEAN : Live(ok) \/ SettleTarget(ok) \/ Finish(ok)
    BY <2>5 DEF Live, SettleTarget, Finish
  <2>6. CASE \E seen, ok \in BOOLEAN : FallbackSettle(seen, ok) \/ SettleClose(seen, ok)
    BY <2>6 DEF FallbackSettle, SettleClose
  <2>7. CASE \/ HoldClose \/ HoldMsc \/ FallbackClose \/ FallbackMsc
             \/ Reassert \/ Close \/ Prepare \/ Discharge
    BY <2>7 DEF HoldClose, HoldMsc, FallbackClose, FallbackMsc, Reassert, Close,
       Prepare, Discharge
  <2>8. CASE Open
    BY <2>8 DEF Open, Dispatch, ToFallback
  <2>9. CASE \E outcome \in {"done", "collected", "failed"} : Rest(outcome)
    BY <2>9 DEF Rest
  <2> QED
    BY <1>3, <2>1, <2>2, <2>3, <2>4, <2>5, <2>6, <2>7, <2>8, <2>9 DEF Application
<1> QED
  BY <1>1, <1>2, <1>3 DEF Next

\* After an attempt or a handshake that was lost, the PV-only ceiling is
\* requested only once a new close was requested and reported, and after it MSC
\* (8207-8224, 8410-8431), whatever fails, expires or reconnects in between.
THEOREM ProofBeforeOpening == Spec => ReopensOnNewProof
<1> DEFINE Paid == pc = "open" /\ pc' = "await" => owed \in {"none", "proven"}
<1>1. Init => TypeInv /\ Debt
  BY InitTyped, InitDebt
<1>2. TypeInv /\ Debt /\ [Next]_vars => (TypeInv /\ Debt)'
  BY NextTyped, NextDebt
<1>3. TypeInv /\ Debt /\ [Next]_vars => [Paid]_vars
  <2> SUFFICES ASSUME TypeInv, Debt, Next, pc = "open", pc' = "await"
               PROVE  owed \in {"none", "proven"}
    OBVIOUS
  <2>1. OpenEvidence
    BY Openings
  <2>2. CASE reused
    BY <2>1, <2>2 DEF OpenEvidence, ReusedCurrent, Debt, Acknowledged, Shown
  <2>3. CASE ~reused
    BY <2>3 DEF Debt, Barriers
  <2> QED
    BY <2>2, <2>3
<1> QED
  BY <1>1, <1>2, <1>3, PTL DEF Spec, ReopensOnNewProof

-----------------------------------------------------------------------------
(* An overdue application leaves nothing permitted                         *)

\* Places where a handshake is on its way.
HoldPlaces == {"hold_close", "hold_msc", "hold_rest"}
\* Places of an application that found an attempt outstanding.
AttendPlaces == {"enter", "prove", "reown", "ordinary", "ordinary_own", "restrict"}

\* The deadline an application carries on is its attempt's, and when that attempt
\* is lost under it the barrier is up.
Carried ==
  /\ budget.on /\ attempt # NoAttempt => attempt.age = budget.age
  /\ budget.on /\ pc \in AttendPlaces => attempt # NoAttempt \/ tr.phase # "none"

\* What a wait rests on: a barrier, or a grid that was told to close.
Closing ==
  /\ At \in HoldPlaces => tr.phase # "none"
  /\ At = "settle_close" => request.value = "closed"
  /\ pc = "begin" => tr.phase # "none" \/ request.value = "closed"

Overdue == Carried /\ Closing

USE DEF HoldPlaces, AttendPlaces

LEMMA IdleOverdue == ASSUME Idle PROVE Overdue'
BY DEF Idle, NoBudget, Overdue, Carried, Closing
LEMMA EndedOverdue ==
  (Paused \/ Failed \/ Pending \/ StillPending \/ Completed) => Overdue'
BY IdleOverdue DEF Paused, Failed, Pending, StillPending, Completed
\* An application without an attempt, where no wait is prepared.
LEMMA FreeOverdue ==
  ASSUME attempt' = NoAttempt, At' \notin HoldPlaces \cup AttendPlaces \cup {"settle_close", "begin"}
  PROVE  Overdue'
BY DEF Overdue, Carried, Closing
LEMMA ToFallbackOverdue == \A cause : ToFallback(cause) => Overdue'
BY FreeOverdue DEF ToFallback
LEMMA AwaitOverdue == ASSUME Await, attempt = NoAttempt \/ Overdue, tr.phase # "none" PROVE Overdue'
<1>1. CASE pc' = "begin" /\ UNCHANGED <<env, barrier, attempt, app, timer, owed>>
  BY <1>1 DEF Overdue, Carried, Closing
<1> QED
  BY <1>1, IdleOverdue DEF Await

\* A request changes nothing of the attempt but that it was the last one.
LEMMA SendExportOverdue ==
  ASSUME TypeInv, Overdue, NEW v, NEW next, SendExport(v, next),
         next \in HoldPlaces => tr.phase # "none",
         next = "settle_close" => v = "closed",
         next \notin AttendPlaces \cup {"begin"}
  PROVE  Overdue'
<1>1. /\ attempt' # NoAttempt => attempt # NoAttempt
      /\ attempt'.age = attempt.age /\ budget' = budget
  BY NoAttemptKept DEF SendExport, TypeInv, TypeOK, Attempts
<1>2. tr'.phase = tr.phase /\ request'.value = v /\ pc' = "await" /\ flight'.next = next
  BY DEF SendExport, TypeInv, TypeOK, Transitions
<1> QED
  BY <1>1, <1>2 DEF Overdue, Carried, Closing
LEMMA SendModeOverdue ==
  ASSUME TypeInv, Overdue, NEW m, NEW p, NEW next, SendMode(m, p, next),
         next \in HoldPlaces => tr.phase # "none",
         next \notin AttendPlaces \cup {"begin", "settle_close"}
  PROVE  Overdue'
<1>1. /\ UNCHANGED <<attempt, budget, request>> /\ tr'.phase = tr.phase
      /\ pc' = "await" /\ flight'.next = next
  BY DEF SendMode, TypeInv, TypeOK, Transitions
<1> QED
  BY <1>1 DEF Overdue, Carried, Closing

\* A hold raises its barrier at once.
LEMMA HoldOverdue ==
  ASSUME NEW t \in Transitions, Hold(t), UNCHANGED budget,
         budget.on /\ attempt' # NoAttempt => attempt'.age = budget.age
  PROVE  Overdue'
<1>1. pc' \in HoldPlaces /\ tr'.phase # "none"
  BY DEF Hold, NewTransition, NoTransition, Transitions
<1> QED
  BY <1>1 DEF Overdue, Carried, Closing

LEMMA PrimaryOverdue == ASSUME TypeInv, Primary, attempt' = NoAttempt PROVE Overdue'
<1>1. CASE StartDischarge
  BY <1>1, FreeOverdue DEF StartDischarge
<1>2. CASE HoldForProof
  <2>1. (IF tr.phase = "none" THEN NewTransition ELSE tr) \in Transitions
    BY ResetsTyped DEF TypeInv, TypeOK
  <2> QED
    BY <1>2, <2>1, HoldOverdue DEF HoldForProof, Primary
<1>3. CASE Proceed
  BY <1>3, FreeOverdue DEF Proceed
<1> QED
  BY <1>1, <1>2, <1>3 DEF Primary

LEMMA GiveUpOverdue ==
  ASSUME TypeInv, Debt, Overdue, pc \in AttendPlaces, NEW expired, GiveUp(expired)
  PROVE  Overdue'
<1>1. /\ pc' = "restrict" /\ attempt' = NoAttempt /\ UNCHANGED budget
      /\ tr' = Barred(tr)
  BY DEF GiveUp
<1>2. budget.on => Barred(tr).phase # "none"
  BY RetiredDebt DEF TypeInv, Overdue, Carried, Barred
<1> QED
  BY <1>1, <1>2 DEF Overdue, Carried, Closing

\* The barrier and the request that an application carries to its next await.
LEMMA GoOverdue ==
  ASSUME Overdue, NEW p, Go(p), p # "await", pc # "await", p \notin HoldPlaces \cup {"settle_close", "begin"},
         p \in AttendPlaces => pc \in AttendPlaces
  PROVE  Overdue'
BY DEF Go, Overdue, Carried, Closing

LEMMA EnterOverdue ==
  ASSUME TypeInv, Debt, Overdue, NEW a \in Authority, Enter(a) PROVE Overdue'
<1>1. CASE NotAutomated(a)
  BY <1>1, IdleOverdue, EndedOverdue DEF NotAutomated
<1>2. CASE Resume /\ attempt # NoAttempt
  <2>1. CASE GiveUp(Expired /\ ~Misused)
    BY <2>1, GiveUpOverdue DEF Enter
  <2>2. CASE Go(IF Reported THEN "reown" ELSE "ordinary")
    BY <2>2, GoOverdue DEF Enter
  <2>3. CASE Go("prove")
    BY <2>3, GoOverdue DEF Enter
  <2>4. CASE HoldOn
    <3>1. /\ tr \in Transitions /\ UNCHANGED budget
          /\ attempt' # NoAttempt => attempt # NoAttempt
          /\ attempt'.age = attempt.age
      BY <1>2, <2>4 DEF HoldOn, TypeInv, TypeOK, Attempts
    <3> QED
      BY <2>4, <3>1, HoldOverdue DEF HoldOn, Overdue, Carried
  <2> QED
    BY <1>2, <2>1, <2>2, <2>3, <2>4 DEF Resume
<1>3. CASE Primary /\ attempt = NoAttempt /\ UNCHANGED attempt
  BY <1>3, PrimaryOverdue
<1> QED
  BY <1>1, <1>2, <1>3 DEF Enter

LEMMA ProveOverdue == ASSUME TypeInv, Debt, Overdue, NEW ok, Prove(ok) PROVE Overdue'
<1>1. CASE attempt' = NoAttempt /\ Primary
  BY <1>1, PrimaryOverdue
<1>2. CASE GiveUp(Expired /\ (pc = "prove" \/ ok))
  BY <1>2, GiveUpOverdue DEF Prove
<1> QED
  BY <1>1, <1>2 DEF Prove
LEMMA RestrictOverdue == ASSUME NEW ok, Restrict(ok) PROVE Overdue'
BY IdleOverdue DEF Restrict
LEMMA OrdinaryRestOverdue == ASSUME Overdue, NEW ok, OrdinaryRest(ok) PROVE Overdue'
<1>1. CASE Go("ordinary_own")
  BY <1>1, GoOverdue DEF OrdinaryRest
<1> QED
  BY <1>1, ToFallbackOverdue DEF OrdinaryRest
LEMMA OrdinaryOwnOverdue == ASSUME NEW ok, OrdinaryOwn(ok) PROVE Overdue'
<1>1. CASE attempt' = NoAttempt /\ budget' = NoBudget /\ pc' = "enter"
  BY <1>1 DEF NoBudget, Overdue, Carried, Closing
<1> QED
  BY <1>1, EndedOverdue DEF OrdinaryOwn

LEMMA HoldCloseOverdue == ASSUME TypeInv, Overdue, HoldClose PROVE Overdue'
<1>1. CASE SendExport("closed", "hold_rest")
  <2>1. tr.phase # "none"
    BY DEF HoldClose, Overdue, Closing
  <2> QED
    BY <1>1, <2>1, SendExportOverdue
<1> QED
  BY <1>1, ToFallbackOverdue DEF HoldClose, Dispatch
LEMMA HoldMscOverdue == ASSUME TypeInv, Overdue, HoldMsc PROVE Overdue'
<1>1. CASE SendMode("msc", FALSE, "hold_rest")
  <2>1. tr.phase # "none"
    BY DEF HoldMsc, Overdue, Closing
  <2> QED
    BY <1>1, <2>1, SendModeOverdue
<1> QED
  BY <1>1, ToFallbackOverdue DEF HoldMsc, Dispatch
LEMMA HoldRestOverdue == ASSUME Overdue, NEW ok, HoldRest(ok) PROVE Overdue'
<1>1. tr.phase # "none"
  BY DEF HoldRest, Overdue, Closing
<1> QED
  BY <1>1, ToFallbackOverdue, AwaitOverdue, EndedOverdue DEF HoldRest

LEMMA FallbackOverdue == ASSUME Debt, NEW ok, Fallback(ok) PROVE Overdue'
<1>1. CASE pc' = "fb_close" /\ UNCHANGED attempt
  BY <1>1, FreeOverdue DEF Fallback, Debt, Unattempted
<1> QED
  BY <1>1, EndedOverdue DEF Fallback
LEMMA FallbackCallsOverdue ==
  ASSUME TypeInv, Overdue, FallbackClose \/ FallbackMsc PROVE Overdue'
<1>1. CASE FallbackClose
  BY <1>1, SendExportOverdue DEF FallbackClose
<1>2. CASE FallbackMsc
  BY <1>2, SendModeOverdue DEF FallbackMsc
<1> QED
  BY <1>1, <1>2
LEMMA FallbackSettleOverdue ==
  ASSUME Debt, Overdue, NEW seen, NEW ok, FallbackSettle(seen, ok) PROVE Overdue'
<1>1. tr.phase # "none"
  BY DEF FallbackSettle, Debt, Barriers
<1> QED
  BY <1>1, AwaitOverdue, EndedOverdue DEF FallbackSettle

LEMMA BeginOverdue == ASSUME NEW ok, Begin(ok) PROVE Overdue'
BY IdleOverdue, EndedOverdue DEF Begin
LEMMA OpeningOverdue ==
  ASSUME TypeInv, Overdue, Reassert \/ Open \/ Prepare \/ Discharge PROVE Overdue'
<1>1. CASE SendMode("msc", TRUE, "settle_msc")
  BY <1>1, SendModeOverdue
<1>2. CASE SendExport("open", "rest") \/ SendExport("open", "settle_target")
  BY <1>2, SendExportOverdue
<1>3. CASE SendMode("discharge", TRUE, "rest")
  BY <1>3, SendModeOverdue
<1> QED
  BY <1>1, <1>2, <1>3, ToFallbackOverdue DEF Reassert, Open, Prepare, Discharge, Dispatch
LEMMA CloseOverdue == ASSUME TypeInv, Overdue, Close PROVE Overdue'
<1>1. CASE SendExport("closed", "settle_close")
  BY <1>1, SendExportOverdue
<1> QED
  BY <1>1, ToFallbackOverdue DEF Close, Dispatch
LEMMA SettleOverdue ==
  ASSUME Overdue, NEW seen, SettleMsc(seen) \/ SettleTarget(seen) PROVE Overdue'
<1>1. pc \notin AttendPlaces \cup {"await"}
  BY DEF SettleMsc, SettleTarget
<1>2. \A p \in {"live", "rest", "mode"} : Go(p) => Overdue'
  BY <1>1, GoOverdue
<1> QED
  BY <1>2, ToFallbackOverdue DEF SettleMsc, SettleTarget
LEMMA LiveOverdue == ASSUME TypeInv, Debt, Overdue, NEW ok, Live(ok) PROVE Overdue'
<1>1. CASE Go(IF s.export = "open" /\ request.value = "open" THEN "rest" ELSE "open")
  BY <1>1, GoOverdue DEF Live
<1>2. CASE Hold(NewTransitionS) /\ UNCHANGED <<wait, budget>>
  <2>1. attempt = NoAttempt
    BY DEF Live, Debt, Unattempted
  <2> QED
    BY <1>2, <2>1, ResetsTyped, HoldOverdue
<1> QED
  BY <1>1, <1>2 DEF Live
LEMMA SettleCloseOverdue ==
  ASSUME Overdue, NEW seen, NEW ok, SettleClose(seen, ok) PROVE Overdue'
<1>1. CASE Go("rest")
  BY <1>1, GoOverdue DEF SettleClose
<1>2. CASE pc' = "begin" /\ UNCHANGED <<barrier, wait, budget>>
  BY <1>2 DEF SettleClose, Overdue, Carried, Closing
<1> QED
  BY <1>1, <1>2, EndedOverdue DEF SettleClose
LEMMA RestOverdue ==
  ASSUME Overdue, NEW outcome \in {"done", "collected", "failed"}, Rest(outcome) PROVE Overdue'
<1>1. CASE Go("finish")
  BY <1>1, GoOverdue DEF Rest
<1> QED
  BY <1>1, ToFallbackOverdue, EndedOverdue DEF Rest
LEMMA FinishOverdue == ASSUME NEW ok, Finish(ok) PROVE Overdue'
<1>1. CASE pc' = "fallback" /\ attempt' = NoAttempt
  BY <1>1, FreeOverdue
<1> QED
  BY <1>1, EndedOverdue, ToFallbackOverdue DEF Finish

LEMMA AnswerOverdue ==
  ASSUME TypeInv, Overdue, NEW ok \in BOOLEAN, NEW taken, Answer(ok, taken) PROVE Overdue'
<1>1. pc = "await" /\ flight.next \in Continuations /\ UNCHANGED <<budget, request>>
  BY DEF Answer, TypeInv, FlightOK
<1>2. CASE pc' = "fallback" /\ attempt' = NoAttempt
  BY <1>2, FreeOverdue
<1>3. CASE pc' = flight.next /\ UNCHANGED attempt
  <2>1. tr'.phase = tr.phase
    <3>1. tr' = tr \/ tr' = [tr EXCEPT !.closeAck = ok] \/ tr' = [tr EXCEPT !.mscAck = ok]
      BY DEF Answer
    <3> QED
      BY <3>1 DEF TypeInv, TypeOK, Transitions
  <2> QED
    BY <1>1, <1>3, <2>1 DEF Continuations, Overdue, Carried, Closing
<1> QED
  BY <1>2, <1>3 DEF Answer

LEMMA UnchangedOverdue ==
  ASSUME Overdue, UNCHANGED <<tr, request, attempt, budget, pc, flight>> PROVE Overdue'
BY DEF Overdue, Carried, Closing
LEMMA PassOverdue == ASSUME TypeInv, Overdue, Pass PROVE Overdue'
<1>1. /\ UNCHANGED <<tr, pc, flight>> /\ request'.value = request.value
      /\ budget'.on = budget.on /\ (attempt = NoAttempt => attempt' = NoAttempt)
  BY DEF Pass, TypeInv, TypeOK, Requests, Budgets
<1>2. budget.on /\ attempt # NoAttempt
        => attempt'.age = Older(attempt.age) /\ budget'.age = Older(budget.age)
  BY DEF Pass, TypeInv, TypeOK, Attempts, Budgets
<1>3. budget'.on /\ attempt' # NoAttempt => attempt'.age = budget'.age
  BY <1>1, <1>2 DEF Overdue, Carried
<1>4. attempt' = NoAttempt => attempt = NoAttempt
  BY SettlementAssumption DEF Pass, TypeInv, TypeOK, Attempts, Ages, Older, NoAttempt
<1> QED
  BY <1>1, <1>3, <1>4 DEF Overdue, Carried, Closing

LEMMA ReconnectOverdue == ASSUME TypeInv, Debt, Overdue, Reconnect PROVE Overdue'
<1>1. /\ attempt' = NoAttempt /\ UNCHANGED <<request, pc, budget, flight>>
      /\ tr'.phase = Barred(tr).phase
  BY BarredTyped DEF Reconnect, TypeInv, Transitions
<1>2. Barred(tr).phase = "none" => attempt = NoAttempt /\ tr.phase = "none"
  BY RetiredDebt DEF TypeInv, Barred
<1> QED
  BY <1>1, <1>2 DEF Overdue, Carried, Closing
LEMMA ConfigureOverdue == ASSUME Overdue, Configure PROVE Overdue'
BY FreeOverdue, IdleOverdue DEF Configure, Overdue, Carried, Closing, Idle
LEMMA RaiseOverdue == ASSUME NEW taken, Raise(taken) PROVE Overdue'
BY IdleOverdue DEF Raise
LEMMA StartOverdue ==
  ASSUME NEW who, NEW policy, NEW readable, Start(who, policy, readable) PROVE Overdue'
BY DEF Start, Overdue, Carried, Closing

LEMMA InitOverdue == Init => Overdue
BY DEF Init, Overdue, Carried, Closing, NoBudget

LEMMA NextOverdue == TypeInv /\ Debt /\ Overdue /\ [Next]_vars => Overdue'
<1> SUFFICES ASSUME TypeInv, Debt, Overdue, [Next]_vars PROVE Overdue'
  OBVIOUS
<1>1. CASE World
  BY <1>1, UnchangedOverdue, PassOverdue, ReconnectOverdue, ConfigureOverdue, RaiseOverdue
  DEF World, ReportExport, ReportMode
<1>2. CASE Application
  <2>1. CASE \E ok, taken \in BOOLEAN : Answer(ok, taken)
    BY <2>1, AnswerOverdue
  <2>2. CASE \E a \in Authority : Enter(a)
    BY <2>2, EnterOverdue
  <2>3. CASE \E ok \in BOOLEAN :
               Prove(ok) \/ Restrict(ok) \/ OrdinaryRest(ok) \/ OrdinaryOwn(ok)
                 \/ HoldRest(ok) \/ Fallback(ok) \/ Begin(ok) \/ SettleMsc(ok)
                 \/ Live(ok) \/ SettleTarget(ok) \/ Finish(ok)
    BY <2>3, ProveOverdue, RestrictOverdue, OrdinaryRestOverdue, OrdinaryOwnOverdue,
       HoldRestOverdue, FallbackOverdue, BeginOverdue, SettleOverdue, LiveOverdue,
       FinishOverdue
  <2>4. CASE \E seen, ok \in BOOLEAN : FallbackSettle(seen, ok) \/ SettleClose(seen, ok)
    BY <2>4, FallbackSettleOverdue, SettleCloseOverdue
  <2>5. CASE \/ HoldClose \/ HoldMsc \/ FallbackClose \/ FallbackMsc
             \/ Reassert \/ Open \/ Close \/ Prepare \/ Discharge
    BY <2>5, HoldCloseOverdue, HoldMscOverdue, FallbackCallsOverdue, OpeningOverdue,
       CloseOverdue
  <2>6. CASE \E outcome \in {"done", "collected", "failed"} : Rest(outcome)
    BY <2>6, RestOverdue
  <2> QED
    BY <1>2, <2>1, <2>2, <2>3, <2>4, <2>5, <2>6 DEF Application
<1>3. CASE Loop \/ Api
  BY <1>3, StartOverdue DEF Loop, Api, LoopTick, ApiTick
<1>4. CASE UNCHANGED vars
  BY <1>4, UnchangedOverdue DEF vars
<1> QED
  BY <1>1, <1>2, <1>3, <1>4 DEF Next

\* Where an application returns after its deadline, it leaves no permission.
Withdrawn == request'.value = "closed" \/ tr'.phase # "none" \/ ~baseline'
Late      == budget.on /\ budget.age = Budget

LEMMA Returns ==
  ASSUME TypeInv, Debt, Overdue, Application, pc' = "idle", Late
  PROVE  Withdrawn
<1> USE DEF Withdrawn, Late
<1>1. Paused => Withdrawn
  BY DEF Paused
<1>2. ~Completed \/ ~BudgetCurrent
  BY SettlementAssumption DEF BudgetCurrent
<1>3. CASE \E a \in Authority : Enter(a)
  <2> PICK a \in Authority : Enter(a)
    BY <1>3
  <2>1. attempt # NoAttempt \/ tr.phase # "none"
    BY DEF Enter, Overdue, Carried
  <2>2. CASE NotAutomated(a)
    BY <1>1, <2>1, <2>2 DEF NotAutomated, Barred
  <2>3. CASE Resume
    BY <2>3 DEF Resume, GiveUp, Go, HoldOn, Hold
  <2>4. CASE Primary
    BY <2>4 DEF Primary, StartDischarge, HoldForProof, Hold, Proceed
  <2> QED
    BY <2>2, <2>3, <2>4 DEF Enter
<1>4. CASE \E ok \in BOOLEAN : Prove(ok)
  BY <1>4 DEF Prove, GiveUp, Primary, StartDischarge, HoldForProof, Hold, Proceed
<1>5. CASE \E ok \in BOOLEAN : Restrict(ok)
  BY <1>5 DEF Restrict, Debt, Unattempted, Overdue, Carried
<1>6. CASE \E ok \in BOOLEAN : OrdinaryOwn(ok)
  <2> PICK ok \in BOOLEAN : OrdinaryOwn(ok)
    BY <1>6
  <2>1. attempt = NoAttempt => tr.phase # "none"
    BY DEF OrdinaryOwn, Overdue, Carried
  <2>2. attempt # NoAttempt => ~Sound
    BY SettlementAssumption DEF OrdinaryOwn, Overdue, Carried, Sound, Expired, TypeInv, TypeOK,
       Attempts, Ages
  <2>3. RetiredProof(tr).phase = tr.phase
    BY RetiredDebt DEF TypeInv
  <2> QED
    BY <1>1, <2>1, <2>2, <2>3 DEF OrdinaryOwn
<1>7. CASE \E ok \in BOOLEAN : HoldRest(ok)
  BY <1>1, <1>7 DEF HoldRest, ToFallback, Await, StillPending, Pending, Overdue, Closing
<1>8. CASE \E ok \in BOOLEAN : Begin(ok)
  <2> PICK ok \in BOOLEAN : Begin(ok)
    BY <1>8
  <2>1. tr.phase # "none" \/ request.value = "closed"
    BY DEF Begin, Overdue, Closing
  <2>2. request'.value = request.value
    BY DEF Begin, Failed, TypeInv, TypeOK, Requests
  <2>3. UNCHANGED tr \/ tr'.phase = "close"
    BY DEF Begin, NewTransition, NoTransition
  <2> QED
    BY <2>1, <2>2, <2>3
<1>9. CASE \E seen, ok \in BOOLEAN : FallbackSettle(seen, ok) \/ SettleClose(seen, ok)
  BY <1>9 DEF FallbackSettle, SettleClose, Go, Await, Pending, Failed, Debt, Barriers,
     Overdue, Closing
<1>10. CASE \E ok \in BOOLEAN : Fallback(ok) \/ Finish(ok)
  BY <1>1, <1>2, <1>10 DEF Fallback, Finish, ToFallback
<1>11. CASE \E outcome \in {"done", "collected", "failed"} : Rest(outcome)
  BY <1>11 DEF Rest, Go, ToFallback
<1>12. CASE \E ok \in BOOLEAN : OrdinaryRest(ok) \/ SettleMsc(ok) \/ Live(ok) \/ SettleTarget(ok)
  BY <1>12 DEF OrdinaryRest, SettleMsc, Live, SettleTarget, Go, ToFallback, Hold
<1>13. CASE \E ok, taken \in BOOLEAN : Answer(ok, taken)
  BY <1>13 DEF Answer, TypeInv, FlightOK, Continuations
<1>14. CASE \/ HoldClose \/ HoldMsc \/ FallbackClose \/ FallbackMsc
            \/ Reassert \/ Open \/ Close \/ Prepare \/ Discharge
  BY <1>14 DEF HoldClose, HoldMsc, FallbackClose, FallbackMsc, Reassert, Open, Close,
     Prepare, Discharge, Dispatch, ToFallback, SendExport, SendMode
<1> QED
  BY <1>3, <1>4, <1>5, <1>6, <1>7, <1>8, <1>9, <1>10, <1>11, <1>12, <1>13, <1>14
  DEF Application

\* An application whose deadline passes while it works returns with the grid told
\* to close, with the barrier up or without a baseline (8101-8114, 9838-9839).
THEOREM OverdueWithdraws == Spec => LateNotKept
<1> DEFINE Kept == pc # "idle" /\ pc' = "idle" /\ budget.on /\ budget.age = Budget =>
                     \/ request'.value = "closed" \/ tr'.phase # "none" \/ ~baseline'
                     \/ \E taken \in BOOLEAN : Raise(taken)
<1>1. Init => TypeInv /\ Debt /\ Overdue
  BY InitTyped, InitDebt, InitOverdue
<1>2. TypeInv /\ Debt /\ Overdue /\ [Next]_vars => (TypeInv /\ Debt /\ Overdue)'
  BY NextTyped, NextDebt, NextOverdue
<1>3. TypeInv /\ Debt /\ Overdue /\ [Next]_vars => [Kept]_vars
  <2> SUFFICES ASSUME TypeInv, Debt, Overdue, Next, pc # "idle", pc' = "idle", Late
               PROVE  Withdrawn \/ \E taken \in BOOLEAN : Raise(taken)
    BY DEF Withdrawn, Late
  <2>1. CASE World
    BY <2>1 DEF World, ReportExport, ReportMode, Pass, Reconnect, Configure
  <2>2. CASE Loop \/ Api
    BY <2>2 DEF Loop, Api, LoopTick, ApiTick, Start
  <2> QED
    BY <2>1, <2>2, Returns DEF Next
<1> QED
  BY <1>1, <1>2, <1>3, PTL DEF Spec, LateNotKept
=============================================================================
