--------------------------- MODULE MscExport_proofs ---------------------------
(***************************************************************************)
(* Proofs about MscExport, for every policy, horizon and adversity.  First *)
(* the typing of every operation, then what the barrier promises.          *)
(***************************************************************************)
EXTENDS MscExport, TLAPS

USE DEF env, barrier, app, ghost

-----------------------------------------------------------------------------
(* Typing                                                                  *)

\* Where an awaited call may return to.
Continuations == {"hold_rest", "fb_msc", "fb_rest", "settle_msc", "export", "rest",
                  "settle_close", "settle_target"}

\* The call an application awaits names an entity and a value that fit.
FlightOK ==
  pc = "await" => /\ \/ flight.what = "mode" /\ flight.value \in Modes
                     \/ flight.what = "export" /\ flight.value \in Limits
                  /\ flight.next \in Continuations

TypeInv == TypeOK /\ FlightOK

\* Ages stay within their saturation, whatever the freshness horizon.
LEMMA AgesTyped == /\ 0 \in Ages /\ Stale \in Ages /\ Never \in Ages
                   /\ \A a \in Ages : Older(a) \in Ages
BY MscExportAssumption DEF Ages, Stale, Never, Older

\* The fault count keeps its bound, with and without a fault.
LEMMA FaultTyped == ASSUME TypeOK, NEW kind, Fault(kind) PROVE faults' \in 0..FaultLimit
BY MscExportAssumption DEF TypeOK, Fault
LEMMA NoFaultTyped == ASSUME TypeOK, NoFault PROVE faults' \in 0..FaultLimit
BY DEF TypeOK, NoFault
LEMMA ReadsTyped ==
  ASSUME TypeOK, NEW a \in Authority, Reads(a) PROVE faults' \in 0..FaultLimit
BY FaultTyped, NoFaultTyped DEF Reads, Authority

LEMMA RevokingTyped == ASSUME NEW a, Revoking(a) PROVE revoked' \in BOOLEAN
BY DEF Revoking

\* The values every reset assigns.
LEMMA ResetsTyped ==
  /\ NoTransition \in Transitions /\ NewTransition \in Transitions
  /\ NewTransitionS \in Transitions
  /\ NoRequest \in Requests /\ NoEpoch \in Epochs /\ NoSnapshot \in Snapshots
  /\ NoDecision \in Decisions /\ NoFlight \in Flights
BY AgesTyped DEF NoTransition, NewTransition, NewTransitionS, Transitions, Ids, NoRequest,
     Requests, NoEpoch, Epochs, NoSnapshot, Snapshots, NoDecision, Decisions,
     NoFlight, Flights, Places, Modes, Limits

LEMMA RetiredTyped ==
  ASSUME NEW t \in Transitions PROVE RetiredProof(t) \in Transitions
BY DEF RetiredProof, Transitions, Ids

\* What an end of an application leaves of it.
LEMMA IdleTyped ==
  ASSUME Idle
  PROVE  /\ pc' \in Places /\ d' \in Decisions /\ s' \in Snapshots /\ reader' \in Ids
         /\ modeAt' \in Ages /\ proof' \in {"none", "reused", "maintenance"}
         /\ soft' \in BOOLEAN /\ revoked' \in BOOLEAN /\ flight' \in Flights
         /\ FlightOK'
BY AgesTyped, ResetsTyped DEF Idle, Places, Ids, FlightOK

LEMMA OweAgainTyped == ASSUME TypeOK, OweAgain PROVE due' \in Dues
BY DEF OweAgain, TypeOK, Dues

LEMMA RedeemTyped == ASSUME TypeOK, Redeem PROVE due' \in Dues
BY DEF Redeem, TypeOK, Dues

LEMMA PausedTyped ==
  ASSUME TypeInv, Paused, faults' \in 0..FaultLimit PROVE TypeInv'
BY IdleTyped, OweAgainTyped, ResetsTyped, RetiredTyped DEF Paused, TypeInv, TypeOK

LEMMA UnsuccessfulTyped ==
  ASSUME TypeInv, Unsuccessful, faults' \in 0..FaultLimit PROVE TypeInv'
BY IdleTyped, ResetsTyped DEF Unsuccessful, TypeInv, TypeOK

LEMMA GoTyped ==
  ASSUME TypeInv, NEW p \in Places, p # "await", Go(p),
         faults' \in 0..FaultLimit, revoked' \in BOOLEAN
  PROVE  TypeInv'
BY DEF Go, TypeInv, TypeOK, FlightOK

LEMMA SendExportTyped ==
  ASSUME TypeInv, NEW v \in Limits, NEW next \in Continuations, SendExport(v, next),
         faults' \in 0..FaultLimit, revoked' \in BOOLEAN
  PROVE  TypeInv'
<1> USE AgesTyped
<1>1. request' \in Requests
  BY DEF SendExport, TypeInv, TypeOK, Requests
<1>2. tr' \in Transitions
  BY DEF SendExport, TypeInv, TypeOK, Transitions, Ids
<1>3. flight' \in Flights /\ FlightOK' /\ pc' \in Places
  BY DEF SendExport, TypeInv, TypeOK, FlightOK, Flights, Places, Continuations
<1>4. due' \in Dues
  BY DEF SendExport, TypeInv, TypeOK, Dues
<1> QED
  BY <1>1, <1>2, <1>3, <1>4 DEF SendExport, TypeInv, TypeOK

LEMMA SendModeTyped ==
  ASSUME TypeInv, NEW m \in Modes, NEW next \in Continuations, SendMode(m, next),
         faults' \in 0..FaultLimit, revoked' \in BOOLEAN
  PROVE  TypeInv'
<1> USE AgesTyped
<1>1. tr' \in Transitions
  BY DEF SendMode, TypeInv, TypeOK, Transitions, Ids
<1>2. flight' \in Flights /\ FlightOK' /\ pc' \in Places
  BY DEF SendMode, TypeInv, TypeOK, FlightOK, Flights, Places, Continuations
<1>3. due' \in Dues
  BY DEF SendMode, TypeInv, TypeOK, Dues
<1> QED
  BY <1>1, <1>2, <1>3, ResetsTyped DEF SendMode, TypeInv, TypeOK

LEMMA CommandTyped ==
  ASSUME TypeInv, pc = "await", Command(flight.what, flight.value)
  PROVE  plant' \in Plants /\ want' \in Plants
BY DEF Command, TypeInv, TypeOK, FlightOK, Plants

LEMMA HoldPlanTyped ==
  ASSUME TypeInv, NEW t \in Transitions, HoldPlan(t),
         faults' \in 0..FaultLimit, revoked' \in BOOLEAN, due' \in Dues,
         proof' = proof, soft' = soft
  PROVE  TypeInv'
<1> DEFINE base    == IF t.phase = "close" THEN t ELSE NewTransition
           closing == IF base.closeAt # Never THEN base
                      ELSE [base EXCEPT !.closeAt = 0, !.closeSame = TRUE]
           proving == IF t.phase = "msc" THEN t
                      ELSE [t EXCEPT !.phase = "msc", !.mscAt = 0, !.mscSame = TRUE,
                                     !.mscAck = FALSE]
<1>1. base \in Transitions
  BY ResetsTyped
<1>2. closing \in Transitions
  <2> HIDE DEF base
  <2> QED BY <1>1, AgesTyped DEF Transitions
<1>3. proving \in Transitions
  BY AgesTyped DEF Transitions
<1>4. tr' = IF CloseOwed(t) THEN closing ELSE proving
  BY DEF HoldPlan
<1>5. tr' \in Transitions
  <2> HIDE DEF closing, proving
  <2> QED BY <1>2, <1>3, <1>4
<1>6. pc' \in {"hold_close", "hold_msc", "hold_rest"}
  BY DEF HoldPlan
<1> QED
  BY <1>5, <1>6, ResetsTyped DEF HoldPlan, TypeInv, TypeOK, FlightOK, Places

-----------------------------------------------------------------------------
(* The world                                                               *)

LEMMA TickTyped == ASSUME TypeInv, Tick PROVE TypeInv'
<1> USE AgesTyped DEF Tick, TypeInv, TypeOK
<1>1. ent' \in Entities
  BY DEF Entities
<1>2. tr' \in Transitions
  BY DEF Transitions
<1>3. request' \in Requests /\ epoch' \in Epochs
  BY DEF Requests, Epochs
<1>4. s' \in Snapshots
  BY DEF Snapshots
<1> QED
  BY <1>1, <1>2, <1>3, <1>4 DEF FlightOK

LEMMA ReportTyped == ASSUME TypeInv, ReportMode \/ ReportExport PROVE TypeInv'
<1>1. ent' \in Entities
  BY AgesTyped DEF ReportMode, ReportExport, TypeInv, TypeOK, Entities, Plants
<1>2. due' \in Dues
  BY DEF ReportMode, ReportExport, TypeInv, TypeOK, Dues
<1> QED
  BY <1>1, <1>2 DEF ReportMode, ReportExport, TypeInv, TypeOK, FlightOK

LEMMA PlantTyped == ASSUME TypeInv, Obey \/ Drift PROVE TypeInv'
<1>1. CASE Obey
  BY <1>1 DEF Obey, TypeInv, TypeOK, FlightOK, Plants
<1>2. CASE Drift
  BY <1>2, FaultTyped DEF Drift, TypeInv, TypeOK, FlightOK, Plants
<1> QED BY <1>1, <1>2

LEMMA ReconnectTyped == ASSUME TypeInv, Reconnect PROVE TypeInv'
<1>1. tr' \in Transitions
  BY DEF Reconnect, TypeInv, TypeOK, Transitions, Ids
<1>2. s' \in Snapshots /\ reader' \in Ids
  BY DEF Reconnect, TypeInv, TypeOK, Snapshots, Ids
<1> QED
  BY <1>1, <1>2, FaultTyped, OweAgainTyped, ResetsTyped
  DEF Reconnect, TypeInv, TypeOK, FlightOK

LEMMA ConfigureTyped == ASSUME TypeInv, Configure PROVE TypeInv'
BY FaultTyped, OweAgainTyped, ResetsTyped DEF Configure, TypeInv, TypeOK, FlightOK

LEMMA CancelTyped == ASSUME TypeInv, NEW taken \in BOOLEAN, Cancel(taken) PROVE TypeInv'
<1>1. plant' \in Plants /\ want' \in Plants
  BY CommandTyped DEF Cancel, TypeInv, TypeOK
<1>2. tr' \in Transitions /\ due' \in Dues
  BY RetiredTyped, OweAgainTyped DEF Cancel, TypeInv, TypeOK
<1> QED
  BY <1>1, <1>2, FaultTyped, IdleTyped, ResetsTyped DEF Cancel, TypeInv, TypeOK

LEMMA RestartTyped == ASSUME TypeInv, NEW taken \in BOOLEAN, Restart(taken) PROVE TypeInv'
<1>1. plant' \in Plants /\ want' \in Plants
  BY CommandTyped DEF Restart, TypeInv, TypeOK
<1> QED
  BY <1>1, FaultTyped, IdleTyped, ResetsTyped DEF Restart, TypeInv, TypeOK, Dues

-----------------------------------------------------------------------------
(* The application                                                         *)

LEMMA ReadTyped ==
  ASSUME TypeInv, NEW modeOk \in BOOLEAN, NEW exportOk \in BOOLEAN, Read(modeOk, exportOk)
  PROVE  TypeInv'
<1> USE AgesTyped DEF Read, TypeInv, TypeOK
<1>1. s' \in Snapshots
  BY DEF Snapshots, Entities, Ids, Limits
<1>2. tr' \in Transitions
  BY DEF Transitions
<1>3. faults' \in 0..FaultLimit
  BY FaultTyped, NoFaultTyped
<1> QED
  BY <1>1, <1>2, <1>3 DEF FlightOK, Ids, Places

LEMMA BeginTyped == ASSUME TypeInv, NEW policy \in Policies, Begin(policy) PROVE TypeInv'
<1>1. policy \in Decisions
  BY MscExportAssumption
<1>2. policy.mode = Msc => [policy EXCEPT !.export = Closed] \in Decisions
  BY <1>1 DEF Decisions
<1>3. d' \in Decisions
  BY <1>1, <1>2 DEF Begin, Desired, Pending
<1>4. tr' \in Transitions /\ due' \in Dues
  BY ResetsTyped, OweAgainTyped DEF Begin, TypeInv, TypeOK
<1> QED
  BY <1>3, <1>4 DEF Begin, TypeInv, TypeOK, FlightOK, Places

LEMMA RespondTyped ==
  ASSUME TypeInv, NEW ok \in BOOLEAN, NEW taken \in BOOLEAN, Respond(ok, taken)
  PROVE  TypeInv'
<1>1. plant' \in Plants /\ want' \in Plants
  BY CommandTyped DEF Respond, TypeInv, TypeOK
<1>2. tr' \in Transitions
  BY DEF Respond, TypeInv, TypeOK, Transitions
<1>3. pc' \in Places /\ pc' # "await"
  BY DEF Respond, TypeInv, TypeOK, FlightOK, Places, Continuations
<1>4. faults' \in 0..FaultLimit
  BY FaultTyped, NoFaultTyped DEF Respond, TypeInv
<1> QED
  BY <1>1, <1>2, <1>3, <1>4, ResetsTyped DEF Respond, TypeInv, TypeOK, FlightOK

LEMMA EnterTyped == ASSUME TypeInv, NEW a \in Authority, Enter(a) PROVE TypeInv'
<1>1. faults' \in 0..FaultLimit
  BY ReadsTyped DEF Enter, TypeInv
<1>2. CASE NotAutomated(a)
  BY <1>1, <1>2, PausedTyped, IdleTyped, ResetsTyped
  DEF NotAutomated, TypeInv, TypeOK, Dues
<1>3. CASE StartDischarge /\ UNCHANGED revoked
  BY <1>1, <1>3, ResetsTyped
  DEF StartDischarge, DischargeEntry, TypeInv, TypeOK, FlightOK, Places
<1>4. CASE HoldForProof /\ UNCHANGED revoked
  <2>1. (IF tr.phase = "none" THEN NewTransition ELSE tr) \in Transitions
    BY ResetsTyped DEF TypeInv, TypeOK
  <2> QED
    BY <1>1, <1>4, <2>1, HoldPlanTyped DEF HoldForProof, TypeInv, TypeOK
<1>5. CASE Proceed /\ UNCHANGED revoked
  <2>1. pc' \in Places /\ pc' # "await" /\ proof' \in {"none", "reused", "maintenance"}
    BY <1>5 DEF Proceed, Places
  <2>2. soft' \in BOOLEAN /\ epoch' \in Epochs
    BY <1>5, ResetsTyped DEF Proceed, Withheld, TypeInv, TypeOK
  <2> QED
    BY <1>1, <1>5, <2>1, <2>2 DEF Proceed, TypeInv, TypeOK, FlightOK
<1> QED BY <1>2, <1>3, <1>4, <1>5 DEF Enter

\* Every awaited command of the hold, of the fallback, of the opening and of the
\* other writes.
LEMMA DispatchesTyped ==
  ASSUME TypeInv, NEW a \in Authority,
         \/ HoldClose(a) \/ HoldMsc(a) \/ FallbackClose(a) \/ FallbackMsc(a)
         \/ Reassert(a) \/ Open(a) \/ Close(a) \/ Prepare(a) \/ SetMode(a)
  PROVE  TypeInv'
<1>1. faults' \in 0..FaultLimit /\ revoked' \in BOOLEAN
  BY ReadsTyped, RevokingTyped
  DEF TypeInv, HoldClose, HoldMsc, FallbackClose, FallbackMsc, Reassert, Open, Close, Prepare,
      SetMode, Dispatch
<1>2. d.mode \in Modes /\ d.export \in Limits
  BY DEF TypeInv, TypeOK, Decisions, Modes, Limits
<1>3. \/ Go("fallback") \/ Go("fb_msc") \/ Go("fb_rest")
      \/ \E v \in Limits, next \in Continuations : SendExport(v, next)
      \/ \E m \in Modes, next \in Continuations : SendMode(m, next)
  BY <1>2
  DEF HoldClose, HoldMsc, FallbackClose, FallbackMsc, Reassert, Open, Close, Prepare,
      SetMode, Dispatch, Limits, Modes, Continuations
<1>4. {"fallback", "fb_msc", "fb_rest"} \subseteq Places
  BY DEF Places
<1> QED BY <1>1, <1>3, <1>4, GoTyped, SendExportTyped, SendModeTyped

LEMMA HoldRestTyped ==
  ASSUME TypeInv, NEW a \in Authority, NEW ok \in BOOLEAN, HoldRest(a, ok)
  PROVE  TypeInv'
<1>1. faults' \in 0..FaultLimit
  BY ReadsTyped, FaultTyped DEF HoldRest, TypeInv
<1>2. CASE Revoking(a) /\ Go("fallback")
  BY <1>1, <1>2, RevokingTyped, GoTyped DEF Places
<1> QED BY <1>1, <1>2, PausedTyped, UnsuccessfulTyped DEF HoldRest

LEMMA FallbackTyped ==
  ASSUME TypeInv, NEW a \in Authority, Fallback(a) \/ FallbackRest PROVE TypeInv'
<1>1. CASE Fallback(a)
  <2>1. faults' \in 0..FaultLimit
    BY <1>1, ReadsTyped DEF Fallback, TypeInv
  <2>2. CASE Permits(a, TRUE)
    BY <1>1, <2>1, <2>2, RevokingTyped, ResetsTyped
    DEF Fallback, TypeInv, TypeOK, FlightOK, Places, Dues
  <2> QED BY <1>1, <2>1, <2>2, PausedTyped DEF Fallback
<1>2. CASE FallbackRest
  BY <1>2, NoFaultTyped, UnsuccessfulTyped DEF FallbackRest, TypeInv
<1> QED BY <1>1, <1>2

\* Live contradiction: a new barrier, and the hold.
LEMMA HoldAgainTyped ==
  ASSUME TypeInv, HoldAgain, faults' \in 0..FaultLimit PROVE TypeInv'
BY HoldPlanTyped, ResetsTyped DEF HoldAgain, TypeInv, TypeOK, Dues

LEMMA ProbeTyped == ASSUME TypeInv, NEW ok \in BOOLEAN, Probe(ok) PROVE TypeInv'
<1>1. faults' \in 0..FaultLimit
  BY FaultTyped, NoFaultTyped DEF Probe, TypeInv
<1>2. CASE HoldAgain
  BY <1>1, <1>2, HoldAgainTyped
<1>3. CASE ~HoldAgain
  <2>1. modeAt' \in Ages
    BY <1>3 DEF Probe, TypeInv, TypeOK, Transitions
  <2>2. pc' \in {"maintain", "live", "fallback", "reassert"}
    BY <1>3 DEF Probe, TypeInv, TypeOK
  <2> QED BY <1>1, <1>3, <2>1, <2>2 DEF Probe, TypeInv, TypeOK, FlightOK, Places
<1> QED BY <1>2, <1>3

LEMMA MaintainTyped == ASSUME TypeInv, NEW a \in Authority, Maintain(a) PROVE TypeInv'
<1>1. faults' \in 0..FaultLimit
  BY ReadsTyped DEF Maintain, TypeInv
<1>2. CASE Permits(a, FALSE)
  BY <1>1, <1>2 DEF Maintain, TypeInv, TypeOK, FlightOK, Epochs, Places
<1> QED BY <1>1, <1>2, PausedTyped DEF Maintain

LEMMA LiveTyped == ASSUME TypeInv, NEW ok \in BOOLEAN, Live(ok) PROVE TypeInv'
<1>1. faults' \in 0..FaultLimit
  BY FaultTyped, NoFaultTyped DEF Live, TypeInv
<1>2. CASE HoldAgain
  BY <1>1, <1>2, HoldAgainTyped
<1>3. CASE ~HoldAgain
  <2>1. \E p \in {"export", "anchor", "rest"} : Go(p)
    BY <1>3 DEF Live
  <2> QED BY <1>1, <1>3, <2>1, GoTyped DEF Live, TypeInv, TypeOK, Places
<1> QED BY <1>2, <1>3

LEMMA SettleTyped ==
  ASSUME TypeInv, NEW seen \in BOOLEAN,
         SettleMsc(seen) \/ SettleClose(seen) \/ SettleTarget(seen)
  PROVE  TypeInv'
<1>1. faults' \in 0..FaultLimit
  BY NoFaultTyped DEF SettleMsc, SettleClose, SettleTarget, TypeInv
<1>2. \/ Unsuccessful
      \/ revoked' = revoked /\ \E p \in {"live", "fallback", "rest", "ems"} : Go(p)
  BY DEF SettleMsc, SettleClose, SettleTarget
<1> QED BY <1>1, <1>2, GoTyped, UnsuccessfulTyped DEF TypeInv, TypeOK, Places

LEMMA RestTyped ==
  ASSUME TypeInv, NEW a \in Authority, NEW outcome \in {"done", "collected", "failed"},
         Rest(a, outcome)
  PROVE  TypeInv'
<1>1. faults' \in 0..FaultLimit
  BY ReadsTyped, FaultTyped DEF Rest, TypeInv
<1>2. CASE Revoking(a) /\ Go("fallback")
  BY <1>1, <1>2, RevokingTyped, GoTyped DEF Places
<1>3. CASE pc' = "finish"
  BY <1>1, <1>3 DEF Rest, Paused, Idle, Go, TypeInv, TypeOK, FlightOK, Places
<1> QED BY <1>1, <1>2, <1>3, PausedTyped DEF Rest

LEMMA FinishTyped ==
  ASSUME TypeInv,
         \/ FinishFailed \/ FinishPlain
         \/ \E a \in Authority : FinishReused(a) \/ FinishMaintained(a)
  PROVE  TypeInv'
<1>1. faults' \in 0..FaultLimit
  BY ReadsTyped, NoFaultTyped
  DEF FinishFailed, FinishPlain, FinishReused, FinishMaintained, TypeInv
<1>2. \A consumed \in BOOLEAN : Candidate(consumed) \in Epochs
  BY ResetsTyped DEF Candidate, TypeInv, TypeOK, Epochs, Requests
<1>3. CASE FinishFailed
  BY <1>1, <1>3, GoTyped, IdleTyped, OweAgainTyped, ResetsTyped
  DEF FinishFailed, TypeInv, TypeOK, Places
<1>4. CASE FinishPlain
  BY <1>1, <1>2, <1>4, IdleTyped, RedeemTyped, ResetsTyped DEF FinishPlain, TypeInv, TypeOK
<1>5. ASSUME NEW a \in Authority, FinishReused(a) PROVE TypeInv'
  BY <1>1, <1>2, <1>5, GoTyped, PausedTyped, IdleTyped, RedeemTyped, ResetsTyped
  DEF FinishReused, TypeInv, TypeOK, Places
<1>6. ASSUME NEW a \in Authority, FinishMaintained(a) PROVE TypeInv'
  BY <1>1, <1>6, GoTyped, PausedTyped, IdleTyped DEF FinishMaintained, TypeInv, TypeOK, Places
<1> QED BY <1>3, <1>4, <1>5, <1>6

-----------------------------------------------------------------------------
(* The invariants                                                          *)

LEMMA InitTyped == Init => TypeInv
<1> SUFFICES ASSUME Init PROVE TypeInv
  OBVIOUS
<1>1. plant \in Plants /\ want \in Plants
  BY DEF Init, Plants
<1>2. ent \in Entities /\ sent \in Modes
  BY <1>1, AgesTyped DEF Init, Plants, Entities
<1>3. /\ tr \in Transitions /\ request \in Requests /\ epoch \in Epochs
      /\ d \in Decisions /\ s \in Snapshots /\ flight \in Flights
  BY ResetsTyped DEF Init
<1>4. modeAt \in Ages /\ faults \in 0..FaultLimit
  BY AgesTyped, MscExportAssumption DEF Init
<1>5. /\ baseline \in BOOLEAN /\ pc \in Places \ {"await"} /\ reader \in Ids
      /\ proof \in {"none", "reused", "maintenance"}
      /\ soft \in BOOLEAN /\ revoked \in BOOLEAN /\ due \in Dues
  BY DEF Init, Places, Ids, Dues
<1> QED
  BY <1>1, <1>2, <1>3, <1>4, <1>5 DEF TypeInv, TypeOK, FlightOK

LEMMA NextTyped == TypeInv /\ [Next]_vars => TypeInv'
<1> SUFFICES ASSUME TypeInv, [Next]_vars PROVE TypeInv'
  OBVIOUS
<1>1. CASE World
  BY <1>1, TickTyped, ReportTyped, PlantTyped, ReconnectTyped, ConfigureTyped,
     CancelTyped, RestartTyped DEF World
<1>2. CASE Application
  BY <1>2, BeginTyped, RespondTyped, EnterTyped, DispatchesTyped, HoldRestTyped,
     FallbackTyped, ProbeTyped, MaintainTyped, LiveTyped, SettleTyped, RestTyped,
     FinishTyped DEF Application, Authority
<1>3. CASE Cycle
  BY <1>3, ReadTyped DEF Cycle
<1>4. CASE UNCHANGED vars
  BY <1>4 DEF vars, TypeInv, TypeOK, FlightOK
<1> QED BY <1>1, <1>2, <1>3, <1>4 DEF Next

\* Every operation of the optimizer and of the world it acts on keeps the shape
\* of the barrier, the application and the inverter.
THEOREM Typing == Spec => []TypeOK
<1>1. TypeInv => TypeOK
  BY DEF TypeInv
<1> QED
  BY <1>1, InitTyped, NextTyped, PTL DEF Spec

-----------------------------------------------------------------------------
(* The barrier                                                             *)

\* Steps of the application and of the world that leave the pending handshake,
\* or drop every permission with it.
LEMMA PermissionDropped ==
  ASSUME baseline' = FALSE, epoch' = NoEpoch PROVE BarrierExcludesPermission'
BY DEF BarrierExcludesPermission

LEMMA BarrierKept ==
  ASSUME BarrierExcludesPermission, tr'.phase = tr.phase,
         baseline' = baseline, epoch' \in {epoch, NoEpoch}
  PROVE  BarrierExcludesPermission'
BY DEF BarrierExcludesPermission

LEMMA PhaseOf ==
  ASSUME NEW t \in Transitions PROVE RetiredProof(t).phase = t.phase
BY DEF RetiredProof, Transitions

LEMMA PausedBarrier == ASSUME Paused PROVE BarrierExcludesPermission'
BY PermissionDropped DEF Paused

LEMMA GoBarrier ==
  ASSUME BarrierExcludesPermission, NEW p, Go(p) PROVE BarrierExcludesPermission'
BY BarrierKept DEF Go

LEMMA UnsuccessfulBarrier ==
  ASSUME BarrierExcludesPermission, Unsuccessful PROVE BarrierExcludesPermission'
BY BarrierKept DEF Unsuccessful

LEMMA SendBarrier ==
  ASSUME TypeOK, BarrierExcludesPermission, NEW v, NEW next,
         SendExport(v, next) \/ SendMode(v, next)
  PROVE  BarrierExcludesPermission'
<1>1. tr'.phase = tr.phase
  BY DEF SendExport, SendMode, TypeOK, Transitions
<1> QED BY <1>1, BarrierKept DEF SendExport, SendMode

LEMMA HoldAgainBarrier == ASSUME HoldAgain PROVE BarrierExcludesPermission'
BY PermissionDropped DEF HoldAgain, HoldPlan

LEMMA WorldBarrier ==
  ASSUME TypeOK, BarrierExcludesPermission, World PROVE BarrierExcludesPermission'
<1>1. CASE Tick
  <2>1. tr'.phase = tr.phase
    BY <1>1 DEF Tick, TypeOK, Transitions
  <2>2. epoch = NoEpoch => epoch' = NoEpoch
    <3>1. ASSUME epoch = NoEpoch PROVE epoch' = epoch
      <4>1. epoch.mscAt = Older(epoch.mscAt) /\ epoch.exportAt = Older(epoch.exportAt)
        BY <3>1, MscExportAssumption DEF NoEpoch, Older, Never, Stale
      <4>2. epoch' = [epoch EXCEPT !.mscAt = epoch.mscAt, !.exportAt = epoch.exportAt]
        BY <1>1, <4>1 DEF Tick
      <4> QED BY <4>2 DEF TypeOK, Epochs
    <3> QED BY <3>1
  <2> QED BY <1>1, <2>1, <2>2 DEF Tick, BarrierExcludesPermission
<1>2. CASE ReportMode \/ ReportExport \/ Obey \/ Drift
  BY <1>2, BarrierKept DEF ReportMode, ReportExport, Obey, Drift
<1>3. CASE Reconnect
  <2>1. tr'.phase = tr.phase
    BY <1>3 DEF Reconnect, TypeOK, Transitions
  <2> QED BY <1>3, <2>1, BarrierKept DEF Reconnect
<1>4. CASE Configure
  BY <1>4, PermissionDropped DEF Configure
<1>5. ASSUME NEW taken \in BOOLEAN, Cancel(taken) PROVE BarrierExcludesPermission'
  <2>1. tr'.phase = tr.phase
    BY <1>5, PhaseOf DEF Cancel, TypeOK
  <2> QED BY <1>5, <2>1, BarrierKept DEF Cancel
<1>6. ASSUME NEW taken \in BOOLEAN, Restart(taken) PROVE BarrierExcludesPermission'
  BY <1>6, PermissionDropped DEF Restart
<1> QED BY <1>1, <1>2, <1>3, <1>4, <1>5, <1>6 DEF World

LEMMA EntryBarrier ==
  ASSUME TypeOK, BarrierExcludesPermission,
         \/ \E policy \in Policies : Begin(policy)
         \/ \E a \in Authority : Enter(a)
  PROVE  BarrierExcludesPermission'
<1>1. ASSUME NEW policy \in Policies, Begin(policy) PROVE BarrierExcludesPermission'
  BY <1>1 DEF Begin, BarrierExcludesPermission
<1>2. ASSUME NEW a \in Authority, NotAutomated(a) PROVE BarrierExcludesPermission'
  BY <1>2, PausedBarrier, PermissionDropped DEF NotAutomated, BarrierExcludesPermission
<1>3. CASE StartDischarge
  BY <1>3, PermissionDropped DEF StartDischarge, DischargeEntry
<1>4. CASE HoldForProof
  BY <1>4, PermissionDropped DEF HoldForProof, HoldPlan
<1>5. CASE Proceed
  BY <1>5, BarrierKept DEF Proceed
<1> QED BY <1>1, <1>2, <1>3, <1>4, <1>5 DEF Enter

LEMMA OpeningBarrier ==
  ASSUME BarrierExcludesPermission,
         \/ \E ok \in BOOLEAN : Probe(ok) \/ Live(ok)
         \/ \E a \in Authority : Maintain(a)
         \/ \E seen \in BOOLEAN : SettleMsc(seen) \/ SettleClose(seen) \/ SettleTarget(seen)
  PROVE  BarrierExcludesPermission'
BY HoldAgainBarrier, GoBarrier, PausedBarrier, UnsuccessfulBarrier, BarrierKept
DEF Probe, Live, Maintain, SettleMsc, SettleClose, SettleTarget

LEMMA DispatchesBarrier ==
  ASSUME TypeOK, BarrierExcludesPermission, NEW a \in Authority,
         \/ HoldClose(a) \/ HoldMsc(a) \/ FallbackClose(a) \/ FallbackMsc(a)
         \/ Reassert(a) \/ Open(a) \/ Close(a) \/ Prepare(a) \/ SetMode(a)
  PROVE  BarrierExcludesPermission'
BY GoBarrier, SendBarrier
DEF HoldClose, HoldMsc, FallbackClose, FallbackMsc, Reassert, Open, Close, Prepare,
    SetMode, Dispatch

LEMMA RespondBarrier ==
  ASSUME TypeOK, BarrierExcludesPermission, NEW ok, NEW taken, Respond(ok, taken)
  PROVE  BarrierExcludesPermission'
<1>1. tr'.phase = tr.phase
  BY DEF Respond, TypeOK, Transitions
<1> QED BY <1>1, BarrierKept DEF Respond

LEMMA RestBarrier ==
  ASSUME BarrierExcludesPermission, NEW a \in Authority,
         \/ \E ok \in BOOLEAN : HoldRest(a, ok)
         \/ \E outcome \in {"done", "collected", "failed"} : Rest(a, outcome)
         \/ Fallback(a) \/ FallbackRest
  PROVE  BarrierExcludesPermission'
BY GoBarrier, PausedBarrier, UnsuccessfulBarrier, PermissionDropped, BarrierKept
DEF HoldRest, Rest, Fallback, FallbackRest

LEMMA FinishBarrier ==
  ASSUME TypeOK, BarrierExcludesPermission,
         \/ FinishFailed \/ FinishPlain
         \/ \E a \in Authority : FinishReused(a) \/ FinishMaintained(a)
  PROVE  BarrierExcludesPermission'
<1>1. CASE FinishFailed
  BY <1>1, GoBarrier, PermissionDropped DEF FinishFailed
<1>2. CASE FinishPlain
  BY <1>2 DEF FinishPlain, Candidate, BarrierExcludesPermission, NoTransition
<1>3. ASSUME NEW a \in Authority, FinishReused(a) PROVE BarrierExcludesPermission'
  <2>1. CASE tr' = NoTransition
    BY <2>1 DEF BarrierExcludesPermission, NoTransition
  <2> QED BY <1>3, <2>1, GoBarrier, PausedBarrier DEF FinishReused
<1>4. ASSUME NEW a \in Authority, FinishMaintained(a) PROVE BarrierExcludesPermission'
  BY <1>4, GoBarrier, PausedBarrier, BarrierKept DEF FinishMaintained
<1> QED BY <1>1, <1>2, <1>3, <1>4

\* While a handshake is pending no baseline and no maintenance candidate grants
\* a permission beside it, whatever is lost, cancelled, reconnected, configured
\* or written by others.
THEOREM BarrierExcludes == Spec => []BarrierExcludesPermission
<1>1. Init => BarrierExcludesPermission
  BY DEF Init, BarrierExcludesPermission, NoTransition
<1>2. TypeOK /\ BarrierExcludesPermission /\ [Next]_vars => BarrierExcludesPermission'
  <2> SUFFICES ASSUME TypeOK, BarrierExcludesPermission, [Next]_vars
               PROVE  BarrierExcludesPermission'
    OBVIOUS
  <2>1. CASE World
    BY <2>1, WorldBarrier
  <2>2. CASE Application
    <3>1. CASE \/ \E policy \in Policies : Begin(policy)
               \/ \E ok, taken \in BOOLEAN : Respond(ok, taken)
               \/ FallbackRest \/ FinishFailed \/ FinishPlain
      BY <3>1, EntryBarrier, RespondBarrier, RestBarrier, FinishBarrier DEF Authority
    <3>2. CASE \E ok \in BOOLEAN :
                 Probe(ok) \/ Live(ok) \/ SettleMsc(ok) \/ SettleClose(ok) \/ SettleTarget(ok)
      BY <3>2, OpeningBarrier
    <3>3. ASSUME NEW a \in Authority,
                 \/ Enter(a) \/ Fallback(a) \/ Maintain(a)
                 \/ FinishReused(a) \/ FinishMaintained(a)
                 \/ \E ok \in BOOLEAN : HoldRest(a, ok)
                 \/ \E outcome \in {"done", "collected", "failed"} : Rest(a, outcome)
          PROVE  BarrierExcludesPermission'
      BY <3>3, EntryBarrier, RestBarrier, OpeningBarrier, FinishBarrier
    <3> QED BY <2>2, <3>1, <3>2, <3>3, DispatchesBarrier DEF Application
  <2>3. CASE Cycle
    <3>1. tr'.phase = tr.phase
      BY <2>3 DEF Cycle, Read, TypeOK, Transitions
    <3> QED BY <2>3, <3>1, BarrierKept DEF Cycle, Read
  <2>4. CASE UNCHANGED vars
    BY <2>4, BarrierKept DEF vars
  <2> QED BY <2>1, <2>2, <2>3, <2>4 DEF Next
<1> QED
  BY <1>1, <1>2, Typing, PTL DEF Spec

-----------------------------------------------------------------------------
(* The deliberate target precedes the discharge mode                       *)

\* From the write of its target to its mode command, a discharge application is
\* the only author of the export request.
TargetPrepared ==
  /\ d.mode = Discharging
  /\ pc \in {"ems", "settle_target"} \/ (pc = "await" /\ flight.next = "settle_target")
  => request.value = Target

CommandsAfterTarget == Dispatches("mode", Discharging) => request.value = Target

LEMMA ElsewherePrepared ==
  ASSUME pc' \notin {"ems", "settle_target", "await"}
  PROVE  TargetPrepared' /\ CommandsAfterTarget
BY DEF TargetPrepared, CommandsAfterTarget, Dispatches

LEMMA KeptPrepared ==
  ASSUME TargetPrepared, pc' = pc, d' = d, flight' = flight, request'.value = request.value
  PROVE  TargetPrepared' /\ CommandsAfterTarget
BY DEF TargetPrepared, CommandsAfterTarget, Dispatches

LEMMA GoPrepared ==
  ASSUME NEW p, p \notin {"ems", "settle_target", "await"}, Go(p)
  PROVE  TargetPrepared' /\ CommandsAfterTarget
BY ElsewherePrepared DEF Go

LEMMA IdlePrepared ==
  ASSUME Idle \/ Paused \/ Unsuccessful PROVE TargetPrepared' /\ CommandsAfterTarget
BY ElsewherePrepared DEF Idle, Paused, Unsuccessful

LEMMA SendExportPrepared ==
  ASSUME TypeOK, NEW v, NEW next, SendExport(v, next),
         next = "settle_target" /\ d.mode = Discharging => v = Target
  PROVE  TargetPrepared' /\ CommandsAfterTarget
BY DEF SendExport, TargetPrepared, CommandsAfterTarget, Dispatches

LEMMA SendModePrepared ==
  ASSUME TypeOK, NEW m, NEW next, next # "settle_target", SendMode(m, next),
         m = Discharging => request.value = Target
  PROVE  TargetPrepared' /\ CommandsAfterTarget
BY DEF SendMode, TargetPrepared, CommandsAfterTarget, Dispatches

LEMMA WorldPrepared ==
  ASSUME TypeOK, TargetPrepared, World PROVE TargetPrepared' /\ CommandsAfterTarget
<1>1. CASE Tick
  <2>1. request'.value = request.value
    BY <1>1 DEF Tick, TypeOK, Requests
  <2> QED BY <1>1, <2>1, KeptPrepared DEF Tick
<1>2. CASE ReportMode \/ ReportExport \/ Obey \/ Drift \/ Reconnect
  BY <1>2, KeptPrepared DEF ReportMode, ReportExport, Obey, Drift, Reconnect
<1>3. CASE Configure
  BY <1>3, ElsewherePrepared DEF Configure
<1>4. CASE \E taken \in BOOLEAN : Cancel(taken) \/ Restart(taken)
  BY <1>4, IdlePrepared DEF Cancel, Restart
<1> QED BY <1>1, <1>2, <1>3, <1>4 DEF World

LEMMA EntryPrepared ==
  ASSUME \/ \E policy \in Policies : Begin(policy)
         \/ \E a \in Authority : Enter(a)
  PROVE  TargetPrepared' /\ CommandsAfterTarget
<1>1. ASSUME NEW policy \in Policies, Begin(policy)
      PROVE  TargetPrepared' /\ CommandsAfterTarget
  BY <1>1, ElsewherePrepared DEF Begin
<1>2. ASSUME NEW a \in Authority, NotAutomated(a)
      PROVE  TargetPrepared' /\ CommandsAfterTarget
  BY <1>2, IdlePrepared DEF NotAutomated
<1>3. CASE StartDischarge
  BY <1>3, ElsewherePrepared DEF StartDischarge, DischargeEntry
<1>4. CASE HoldForProof
  BY <1>4, ElsewherePrepared DEF HoldForProof, HoldPlan
<1>5. CASE Proceed
  BY <1>5 DEF Proceed, TargetPrepared, CommandsAfterTarget, Dispatches
<1> QED BY <1>1, <1>2, <1>3, <1>4, <1>5 DEF Enter

LEMMA OpeningPrepared ==
  ASSUME TypeOK,
         \/ \E ok \in BOOLEAN : Probe(ok) \/ Live(ok)
         \/ \E a \in Authority : Maintain(a)
  PROVE  TargetPrepared' /\ CommandsAfterTarget
<1>1. ASSUME HoldAgain PROVE TargetPrepared' /\ CommandsAfterTarget
  BY <1>1, ElsewherePrepared DEF HoldAgain, HoldPlan
<1>2. ASSUME NEW ok \in BOOLEAN, Probe(ok) PROVE TargetPrepared' /\ CommandsAfterTarget
  <2>1. HoldAgain \/ pc' \in {"maintain", "live", "fallback", "reassert"}
    BY <1>2 DEF Probe, TypeOK
  <2> QED BY <1>1, <2>1, ElsewherePrepared
<1>3. ASSUME NEW ok \in BOOLEAN, Live(ok) PROVE TargetPrepared' /\ CommandsAfterTarget
  <2>1. HoldAgain \/ \E p \in {"export", "anchor", "rest"} : Go(p)
    BY <1>3 DEF Live
  <2> QED BY <1>1, <2>1, GoPrepared
<1>4. ASSUME NEW a \in Authority, Maintain(a) PROVE TargetPrepared' /\ CommandsAfterTarget
  BY <1>4, IdlePrepared, ElsewherePrepared DEF Maintain
<1> QED BY <1>2, <1>3, <1>4

LEMMA SettlePrepared ==
  ASSUME TargetPrepared, NEW seen \in BOOLEAN,
         SettleMsc(seen) \/ SettleClose(seen) \/ SettleTarget(seen)
  PROVE  TargetPrepared' /\ CommandsAfterTarget
<1>1. CASE SettleMsc(seen) \/ SettleClose(seen)
  BY <1>1, IdlePrepared, GoPrepared DEF SettleMsc, SettleClose
<1>2. CASE SettleTarget(seen)
  <2>1. pc = "settle_target" /\ pc' # "await" /\ d' = d /\ request' = request
    BY <1>2 DEF SettleTarget, Go
  <2> QED BY <2>1 DEF TargetPrepared, CommandsAfterTarget, Dispatches
<1> QED BY <1>1, <1>2

LEMMA DispatchesPrepared ==
  ASSUME TypeOK, TargetPrepared, NEW a \in Authority,
         \/ HoldClose(a) \/ HoldMsc(a) \/ FallbackClose(a) \/ FallbackMsc(a)
         \/ Reassert(a) \/ Open(a) \/ Close(a) \/ Prepare(a) \/ SetMode(a)
  PROVE  TargetPrepared' /\ CommandsAfterTarget
<1>1. CASE HoldClose(a) \/ FallbackClose(a) \/ Open(a) \/ Close(a)
  BY <1>1, GoPrepared, SendExportPrepared
  DEF HoldClose, FallbackClose, Open, Close, Dispatch
<1>2. CASE HoldMsc(a) \/ FallbackMsc(a) \/ Reassert(a)
  BY <1>2, GoPrepared, SendModePrepared
  DEF HoldMsc, FallbackMsc, Reassert, Dispatch, Msc, Discharging
<1>3. CASE Prepare(a)
  <2>1. d.mode = Discharging => d.export = Target
    BY DEF TypeOK, Decisions, Msc, Discharging, Charging
  <2> QED BY <1>3, <2>1, GoPrepared, SendExportPrepared DEF Prepare, Dispatch
<1>4. CASE SetMode(a)
  <2>1. d.mode = Discharging => request.value = Target
    BY <1>4 DEF SetMode, TargetPrepared
  <2> QED BY <1>4, <2>1, GoPrepared, SendModePrepared DEF SetMode, Dispatch
<1> QED BY <1>1, <1>2, <1>3, <1>4

LEMMA RespondPrepared ==
  ASSUME TypeInv, TargetPrepared, NEW ok, NEW taken, Respond(ok, taken)
  PROVE  TargetPrepared' /\ CommandsAfterTarget
<1>1. pc = "await" /\ flight.next \in Continuations /\ pc' \in {flight.next, "fallback"}
  BY DEF Respond, TypeInv, FlightOK
<1>2. d' = d /\ request' = request
  BY DEF Respond
<1> QED BY <1>1, <1>2 DEF TargetPrepared, CommandsAfterTarget, Dispatches, Continuations

LEMMA RestPrepared ==
  ASSUME NEW a \in Authority,
         \/ \E ok \in BOOLEAN : HoldRest(a, ok)
         \/ \E outcome \in {"done", "collected", "failed"} : Rest(a, outcome)
         \/ Fallback(a) \/ FallbackRest
  PROVE  TargetPrepared' /\ CommandsAfterTarget
BY IdlePrepared, GoPrepared, ElsewherePrepared DEF HoldRest, Rest, Fallback, FallbackRest

LEMMA FinishPrepared ==
  ASSUME \/ FinishFailed \/ FinishPlain
         \/ \E a \in Authority : FinishReused(a) \/ FinishMaintained(a)
  PROVE  TargetPrepared' /\ CommandsAfterTarget
BY IdlePrepared, GoPrepared
DEF FinishFailed, FinishPlain, FinishReused, FinishMaintained

LEMMA NextPrepared ==
  TypeInv /\ TargetPrepared /\ [Next]_vars => TargetPrepared' /\ [CommandsAfterTarget]_vars
<1> SUFFICES ASSUME TypeInv, TargetPrepared, [Next]_vars
             PROVE  TargetPrepared' /\ CommandsAfterTarget
  OBVIOUS
<1>1. CASE World
  BY <1>1, WorldPrepared DEF TypeInv
<1>2. CASE Application
  <2>1. CASE \/ \E policy \in Policies : Begin(policy)
             \/ \E ok, taken \in BOOLEAN : Respond(ok, taken)
             \/ FallbackRest \/ FinishFailed \/ FinishPlain
    BY <2>1, EntryPrepared, RespondPrepared, RestPrepared, FinishPrepared DEF Authority
  <2>2. CASE \E ok \in BOOLEAN :
               Probe(ok) \/ Live(ok) \/ SettleMsc(ok) \/ SettleClose(ok) \/ SettleTarget(ok)
    BY <2>2, OpeningPrepared, SettlePrepared DEF TypeInv
  <2>3. ASSUME NEW a \in Authority,
               \/ Enter(a) \/ Fallback(a) \/ Maintain(a)
               \/ FinishReused(a) \/ FinishMaintained(a)
               \/ \E ok \in BOOLEAN : HoldRest(a, ok)
               \/ \E outcome \in {"done", "collected", "failed"} : Rest(a, outcome)
        PROVE  TargetPrepared' /\ CommandsAfterTarget
    BY <2>3, EntryPrepared, RestPrepared, OpeningPrepared, FinishPrepared DEF TypeInv
  <2> QED BY <1>2, <2>1, <2>2, <2>3, DispatchesPrepared DEF Application, TypeInv
<1>3. CASE Cycle
  BY <1>3, ElsewherePrepared DEF Cycle, Read
<1>4. CASE UNCHANGED vars
  BY <1>4, KeptPrepared DEF vars
<1> QED BY <1>1, <1>2, <1>3, <1>4 DEF Next

\* The discharge mode is never commanded under another export request than its
\* own deliberate target.
THEOREM TargetBeforeDischarge == Spec => DischargeAfterTarget
<1>1. Init => TargetPrepared
  BY DEF Init, TargetPrepared
<1>2. [CommandsAfterTarget]_vars => [Dispatches("mode", Discharging) => request.value = Target]_vars
  BY DEF CommandsAfterTarget
<1> QED
  BY <1>1, <1>2, InitTyped, NextTyped, NextPrepared, PTL DEF Spec, DischargeAfterTarget

-----------------------------------------------------------------------------
(* No discharge under the ceiling                                          *)

\* Where the MSC command that an opening rests on has been sent and answered,
\* or borrowed from the handshake.
Asserted ==
  /\ PvOnly(d)
  /\ \/ pc \in {"settle_msc", "live", "export", "anchor"}
     \/ pc = "await" /\ flight.next = "settle_msc"

\* Where only another decision writes.
NotOpening ==
  \/ pc \in {"ems", "prepare", "settle_target"}
  \/ pc = "await" /\ flight.next \in {"export", "settle_target"}

\* What an awaited call carries, and which application carries it.
Carried ==
  /\ flight.what # "none" <=> pc = "await"
  /\ flight.what = "export" => flight.value = request.value
  /\ (flight.what = "mode" /\ flight.value = Discharging) => d.mode = Discharging
  /\ NotOpening => ~PvOnly(d)
  /\ (d.mode = Discharging /\ pc \notin {"idle", "ready", "enter"}) => tr.phase = "close"

\* An MSC command as old as a has ended the discharge once a later report shows
\* MSC.  A tick finds the inverter settled, so none of it is still to come.
Ended(a) ==
  /\ a # Never
  /\ (a > 0 /\ want.mode = Discharging) => plant.mode = Discharging
  /\ (ent.modeAge < a /\ ent.mode = Msc)
        => plant.mode # Discharging /\ want.mode # Discharging

\* Likewise a report later than the export request shows what the inverter keeps.
ExportShown ==
  request.at # Never =>
    /\ request.at > 0 => plant.export = want.export \/ want.export = request.value
    /\ (ent.exportAge < request.at /\ ent.export = request.value)
          => plant.export = request.value /\ want.export = request.value

\* The two that may not meet: done, told, or under way.
MayDischarge ==
  \/ plant.mode = Discharging \/ want.mode = Discharging
  \/ flight.what = "mode" /\ flight.value = Discharging
MayOpen ==
  \/ plant.export = Ceiling \/ want.export = Ceiling
  \/ flight.what = "export" /\ flight.value = Ceiling

Apart ==
  /\ ~(MayDischarge /\ MayOpen)
  /\ ExportShown
  /\ tr.phase = "msc" => Ended(tr.mscAt)
  /\ Asserted => Ended(modeAt)

LEMMA KeptCarried ==
  ASSUME Carried, pc' = pc, d' = d, flight' = flight,
         request'.value = request.value, tr'.phase = tr.phase
  PROVE  Carried'
BY DEF Carried, NotOpening, PvOnly

LEMMA IdleCarried == ASSUME Idle \/ Paused \/ Unsuccessful PROVE Carried'
BY DEF Idle, Paused, Unsuccessful, Carried, NotOpening, NoDecision, NoFlight, Msc, Discharging

Early == {"idle", "ready", "enter"}

LEMMA GoCarried ==
  ASSUME Carried, pc \notin Early \cup {"await"}, NEW p, Go(p),
         p \notin Early \cup {"await", "ems", "prepare", "settle_target"}
  PROVE  Carried'
BY DEF Go, Carried, NotOpening, Early

LEMMA SendExportCarried ==
  ASSUME TypeOK, Carried, pc \notin Early, NEW v, NEW next, SendExport(v, next),
         next \in {"export", "settle_target"} => ~PvOnly(d)
  PROVE  Carried'
<1>1. tr'.phase = tr.phase
  BY DEF SendExport, TypeOK, Transitions
<1> QED BY <1>1 DEF SendExport, Carried, NotOpening, Early, PvOnly

LEMMA SendModeCarried ==
  ASSUME TypeOK, Carried, pc \notin Early, NEW m, NEW next, SendMode(m, next),
         next \in {"export", "settle_target"} => ~PvOnly(d),
         m = Discharging => d.mode = Discharging
  PROVE  Carried'
<1>1. tr'.phase = tr.phase
  BY DEF SendMode, TypeOK, Transitions
<1> QED BY <1>1 DEF SendMode, Carried, NotOpening, Early, PvOnly

\* A contradicted opening owes a close before anything else.
LEMMA HoldAgainOwes ==
  ASSUME HoldAgain
  PROVE  tr'.phase = "close" /\ pc' \in {"hold_close", "hold_rest"}
<1>1. CloseOwed(NewTransitionS) /\ NewTransitionS.phase = "close"
  BY DEF CloseOwed, ExportClosed, NewTransitionS, NewTransition, NoTransition
<1>2. tr' \in {NewTransitionS, [NewTransitionS EXCEPT !.closeAt = 0, !.closeSame = TRUE]}
  BY <1>1 DEF HoldAgain, HoldPlan
<1>3. pc' \in {"hold_close", "hold_rest"}
  BY <1>1 DEF HoldAgain, HoldPlan
<1> QED BY <1>1, <1>2, <1>3 DEF NewTransitionS, NewTransition, NoTransition

LEMMA HoldAgainCarried ==
  ASSUME Carried, pc \notin Early \cup {"await"}, HoldAgain PROVE Carried'
BY HoldAgainOwes DEF HoldAgain, HoldPlan, Carried, NotOpening, Early

LEMMA WorldCarried == ASSUME TypeOK, Carried, World PROVE Carried'
<1>1. CASE Tick
  <2>1. request'.value = request.value /\ tr'.phase = tr.phase
    BY <1>1 DEF Tick, TypeOK, Requests, Transitions
  <2> QED BY <1>1, <2>1, KeptCarried DEF Tick
<1>2. CASE ReportMode \/ ReportExport \/ Obey \/ Drift
  BY <1>2, KeptCarried DEF ReportMode, ReportExport, Obey, Drift
<1>3. CASE Reconnect
  <2>1. tr'.phase = tr.phase
    BY <1>3 DEF Reconnect, TypeOK, Transitions
  <2> QED BY <1>3, <2>1, KeptCarried DEF Reconnect
<1>4. CASE Configure
  BY <1>4 DEF Configure, Carried, NotOpening, PvOnly
<1>5. CASE \E taken \in BOOLEAN : Cancel(taken) \/ Restart(taken)
  BY <1>5, IdleCarried DEF Cancel, Restart
<1> QED BY <1>1, <1>2, <1>3, <1>4, <1>5 DEF World

LEMMA EntryCarried ==
  ASSUME TypeOK, Carried,
         \/ \E policy \in Policies : Begin(policy)
         \/ \E a \in Authority : Enter(a)
         \/ Cycle
  PROVE  Carried'
<1>1. CASE Cycle
  BY <1>1 DEF Cycle, Read, Carried, NotOpening
<1>2. ASSUME NEW policy \in Policies, Begin(policy) PROVE Carried'
  BY <1>2 DEF Begin, Carried, NotOpening
<1>3. ASSUME NEW a \in Authority, NotAutomated(a) PROVE Carried'
  BY <1>3, IdleCarried DEF NotAutomated
<1>4. CASE pc = "enter" /\ StartDischarge
  BY <1>4 DEF StartDischarge, DischargeEntry, Carried, NotOpening, PvOnly,
              NewTransition, NoTransition, Msc, Discharging
<1>5. CASE pc = "enter" /\ HoldForProof
  BY <1>5 DEF HoldForProof, HoldPlan, Carried, NotOpening, Msc, Discharging
<1>6. CASE pc = "enter" /\ Proceed
  BY <1>6 DEF Proceed, Carried, NotOpening, PvOnly
<1> QED BY <1>1, <1>2, <1>3, <1>4, <1>5, <1>6 DEF Enter

LEMMA OpeningCarried ==
  ASSUME TypeOK, Carried,
         \/ \E ok \in BOOLEAN : Probe(ok) \/ Live(ok)
         \/ \E a \in Authority : Maintain(a)
  PROVE  Carried'
<1>1. ASSUME NEW ok \in BOOLEAN, Probe(ok) PROVE Carried'
  <2>1. CASE HoldAgain
    BY <1>1, <2>1, HoldAgainCarried DEF Probe, Early
  <2>2. CASE ~HoldAgain
    <3>1. pc = "probe" /\ pc' \in {"maintain", "live", "fallback", "reassert"}
      BY <1>1, <2>2 DEF Probe, TypeOK
    <3>2. d' = d /\ flight' = flight /\ UNCHANGED barrier
      BY <1>1, <2>2 DEF Probe
    <3> QED BY <3>1, <3>2 DEF Carried, NotOpening
  <2> QED BY <2>1, <2>2
<1>2. ASSUME NEW ok \in BOOLEAN, Live(ok) PROVE Carried'
  <2>1. pc = "live" /\ (HoldAgain \/ \E p \in {"export", "anchor", "rest"} : Go(p))
    BY <1>2 DEF Live
  <2> QED BY <2>1, HoldAgainCarried, GoCarried DEF Early
<1>3. ASSUME NEW a \in Authority, Maintain(a) PROVE Carried'
  <2>1. CASE Permits(a, FALSE)
    BY <1>3, <2>1 DEF Maintain, Carried, NotOpening
  <2> QED BY <1>3, <2>1, IdleCarried DEF Maintain
<1> QED BY <1>1, <1>2, <1>3

LEMMA SettleCarried ==
  ASSUME Carried, NEW seen \in BOOLEAN,
         SettleMsc(seen) \/ SettleClose(seen) \/ SettleTarget(seen)
  PROVE  Carried'
<1>1. CASE SettleMsc(seen) \/ SettleClose(seen)
  BY <1>1, IdleCarried, GoCarried DEF SettleMsc, SettleClose, Early
<1>2. CASE SettleTarget(seen)
  <2>1. pc = "settle_target" /\ \E p \in {"fallback", "ems", "rest"} : Go(p)
    BY <1>2 DEF SettleTarget
  <2> QED BY <2>1 DEF Go, Carried, NotOpening
<1> QED BY <1>1, <1>2

LEMMA DispatchesCarried ==
  ASSUME TypeOK, Carried, NEW a \in Authority,
         \/ HoldClose(a) \/ HoldMsc(a) \/ FallbackClose(a) \/ FallbackMsc(a)
         \/ Reassert(a) \/ Open(a) \/ Close(a) \/ Prepare(a) \/ SetMode(a)
  PROVE  Carried'
<1>1. CASE HoldClose(a) \/ FallbackClose(a) \/ Open(a) \/ Close(a)
  BY <1>1, GoCarried, SendExportCarried
  DEF HoldClose, FallbackClose, Open, Close, Dispatch, Early
<1>2. CASE HoldMsc(a) \/ FallbackMsc(a) \/ Reassert(a)
  BY <1>2, GoCarried, SendModeCarried
  DEF HoldMsc, FallbackMsc, Reassert, Dispatch, Early, Msc, Discharging
<1>3. CASE Prepare(a)
  <2>1. ~PvOnly(d)
    BY <1>3 DEF Prepare, Carried, NotOpening
  <2> QED BY <1>3, <2>1, GoCarried, SendExportCarried DEF Prepare, Dispatch, Early
<1>4. CASE SetMode(a)
  <2>1. ~PvOnly(d)
    BY <1>4 DEF SetMode, Carried, NotOpening
  <2> QED BY <1>4, <2>1, GoCarried, SendModeCarried DEF SetMode, Dispatch, Early
<1> QED BY <1>1, <1>2, <1>3, <1>4

LEMMA RespondCarried ==
  ASSUME TypeInv, Carried, NEW ok, NEW taken, Respond(ok, taken) PROVE Carried'
<1>1. pc = "await" /\ flight.next \in Continuations /\ pc' \in {flight.next, "fallback"}
  BY DEF Respond, TypeInv, FlightOK
<1>2. tr'.phase = tr.phase
  BY DEF Respond, TypeInv, TypeOK, Transitions
<1>3. d' = d /\ flight' = NoFlight
  BY DEF Respond
<1> QED BY <1>1, <1>2, <1>3 DEF Carried, NotOpening, Continuations, NoFlight, PvOnly

LEMMA RestCarried ==
  ASSUME Carried, NEW a \in Authority,
         \/ \E ok \in BOOLEAN : HoldRest(a, ok)
         \/ \E outcome \in {"done", "collected", "failed"} : Rest(a, outcome)
         \/ Fallback(a) \/ FallbackRest
  PROVE  Carried'
<1>1. ASSUME NEW ok \in BOOLEAN, HoldRest(a, ok) PROVE Carried'
  BY <1>1, IdleCarried, GoCarried DEF HoldRest, Early
<1>2. ASSUME NEW outcome, Rest(a, outcome) PROVE Carried'
  <2>1. CASE pc' = "finish" /\ UNCHANGED <<barrier, d, flight>>
    BY <1>2, <2>1 DEF Rest, Carried, NotOpening
  <2> QED BY <1>2, <2>1, IdleCarried, GoCarried DEF Rest, Early
<1>3. CASE Fallback(a) \/ FallbackRest
  <2>1. CASE pc' = "fb_close" /\ tr' = NewTransition /\ flight' = flight
    BY <1>3, <2>1 DEF Fallback, FallbackRest, Carried, NotOpening, NewTransition, NoTransition
  <2> QED BY <1>3, <2>1, IdleCarried DEF Fallback, FallbackRest
<1> QED BY <1>1, <1>2, <1>3

LEMMA FinishCarried ==
  ASSUME Carried,
         \/ FinishFailed \/ FinishPlain
         \/ \E a \in Authority : FinishReused(a) \/ FinishMaintained(a)
  PROVE  Carried'
BY IdleCarried, GoCarried DEF FinishFailed, FinishPlain, FinishReused, FinishMaintained, Early

LEMMA NextCarried == TypeInv /\ Carried /\ [Next]_vars => Carried'
<1> SUFFICES ASSUME TypeInv, Carried, [Next]_vars PROVE Carried'
  OBVIOUS
<1>1. CASE World
  BY <1>1, WorldCarried DEF TypeInv
<1>2. CASE Application
  <2>1. CASE \/ \E policy \in Policies : Begin(policy)
             \/ \E ok, taken \in BOOLEAN : Respond(ok, taken)
             \/ FallbackRest \/ FinishFailed \/ FinishPlain
    BY <2>1, EntryCarried, RespondCarried, RestCarried, FinishCarried DEF Authority, TypeInv
  <2>2. CASE \E ok \in BOOLEAN :
               Probe(ok) \/ Live(ok) \/ SettleMsc(ok) \/ SettleClose(ok) \/ SettleTarget(ok)
    BY <2>2, OpeningCarried, SettleCarried DEF TypeInv
  <2>3. ASSUME NEW a \in Authority,
               \/ Enter(a) \/ Fallback(a) \/ Maintain(a)
               \/ FinishReused(a) \/ FinishMaintained(a)
               \/ \E ok \in BOOLEAN : HoldRest(a, ok)
               \/ \E outcome \in {"done", "collected", "failed"} : Rest(a, outcome)
        PROVE  Carried'
    BY <2>3, EntryCarried, RestCarried, OpeningCarried, FinishCarried DEF TypeInv
  <2> QED BY <1>2, <2>1, <2>2, <2>3, DispatchesCarried DEF Application, TypeInv
<1>3. CASE Cycle
  BY <1>3, EntryCarried DEF TypeInv
<1>4. CASE UNCHANGED vars
  BY <1>4, KeptCarried DEF vars
<1> QED BY <1>1, <1>2, <1>3, <1>4 DEF Next

\* A new command of either half may still find what it ends.
LEMMA EndedNow == ASSUME TypeOK PROVE Ended(0)
BY MscExportAssumption DEF Ended, Never, Stale, TypeOK, Entities, Ages

\* Nothing but a discharge command undoes what an MSC command has ended.
LEMMA EndedKept ==
  ASSUME TypeOK, NEW a \in Ages, Ended(a),
         \/ UNCHANGED env
         \/ Obey \/ ReportMode \/ ReportExport
         \/ /\ ~(flight.what = "mode" /\ flight.value = Discharging)
            /\ Command(flight.what, flight.value) /\ UNCHANGED ent
  PROVE  Ended(a)'
<1>1. CASE UNCHANGED env
  BY <1>1 DEF Ended
<1>2. CASE Obey
  BY <1>2 DEF Obey, Ended, TypeOK, Plants
<1>3. CASE ReportMode
  BY <1>3, MscExportAssumption
  DEF ReportMode, Ended, TypeOK, Entities, Ages, Never, Stale, Msc, Discharging
<1>4. CASE ReportExport
  BY <1>4 DEF ReportExport, Ended, TypeOK, Entities
<1>5. CASE /\ ~(flight.what = "mode" /\ flight.value = Discharging)
           /\ Command(flight.what, flight.value) /\ UNCHANGED ent
  <2>1. want'.mode \in {want.mode, flight.value} /\ plant'.mode \in {plant.mode, flight.value}
    BY <1>5 DEF Command, TypeOK, Plants
  <2>2. want'.mode = Discharging => want.mode = Discharging
    BY <1>5, <2>1 DEF Command, TypeOK, Plants, Flights
  <2>3. plant'.mode = Discharging => plant.mode = Discharging
    BY <1>5, <2>1 DEF Command, TypeOK, Plants, Flights
  <2>4. plant.mode = Discharging /\ want'.mode = Discharging => plant'.mode = Discharging
    BY <1>5, <2>1 DEF Command, TypeOK, Plants, Flights
  <2> QED BY <1>5, <2>2, <2>3, <2>4 DEF Ended
<1> QED BY <1>1, <1>2, <1>3, <1>4, <1>5

\* What a step makes of the handshake's own MSC command: another, or the same.
HandshakeKept ==
  tr'.phase = "msc" => tr'.mscAt = 0 \/ (tr.phase = "msc" /\ tr'.mscAt = tr.mscAt)

LEMMA HandshakeEnded ==
  ASSUME TypeOK, TypeOK', tr.phase = "msc" => Ended(tr.mscAt), HandshakeKept,
         \A a \in Ages : Ended(a) => Ended(a)'
  PROVE  (tr.phase = "msc" => Ended(tr.mscAt))'
<1> SUFFICES ASSUME tr'.phase = "msc" PROVE Ended(tr.mscAt)'
  OBVIOUS
<1>1. CASE tr'.mscAt = 0
  <2>1. Ended(0)'
    BY EndedNow, AgesTyped
  <2> QED BY <1>1, <2>1 DEF Ended
<1>2. CASE tr.phase = "msc" /\ tr'.mscAt = tr.mscAt
  <2>1. PICK a \in Ages : a = tr.mscAt
    BY DEF TypeOK, Transitions
  <2>2. Ended(a)'
    BY <1>2, <2>1
  <2> QED BY <1>2, <2>1, <2>2 DEF Ended
<1> QED BY <1>1, <1>2 DEF HandshakeKept

AssertedKept == Asserted' => Asserted /\ modeAt' = modeAt

LEMMA AssertedEnded ==
  ASSUME TypeOK, Asserted => Ended(modeAt), AssertedKept,
         \A a \in Ages : Ended(a) => Ended(a)'
  PROVE  (Asserted => Ended(modeAt))'
<1> SUFFICES ASSUME Asserted' PROVE Ended(modeAt)'
  OBVIOUS
<1>1. PICK a \in Ages : a = modeAt
  BY DEF TypeOK
<1>2. Ended(a)' /\ modeAt' = a
  BY <1>1 DEF AssertedKept
<1> QED BY <1>2 DEF Ended

\* Steps that command nothing.
LEMMA QuietApart ==
  ASSUME TypeOK, TypeOK', Apart, UNCHANGED env, flight' \in {flight, NoFlight},
         request' \in {request, NoRequest}, HandshakeKept, (Asserted => Ended(modeAt))'
  PROVE  Apart'
<1>1. ~(MayDischarge' /\ MayOpen')
  BY DEF Apart, MayDischarge, MayOpen, NoFlight
<1>2. ExportShown'
  BY DEF Apart, ExportShown, NoRequest
<1>3. \A a \in Ages : Ended(a) => Ended(a)'
  BY EndedKept
<1>4. (tr.phase = "msc" => Ended(tr.mscAt))'
  BY <1>3, HandshakeEnded DEF Apart
<1> QED BY <1>1, <1>2, <1>4 DEF Apart

\* Quiet steps of an application that no opening rests on.
LEMMA ElsewhereApart ==
  ASSUME TypeOK, TypeOK', Apart, UNCHANGED env, flight' \in {flight, NoFlight},
         request' \in {request, NoRequest}, HandshakeKept,
         pc' \notin {"settle_msc", "live", "export", "anchor", "await"} \/ ~PvOnly(d)'
  PROVE  Apart'
BY QuietApart DEF Asserted

LEMMA GoApart ==
  ASSUME TypeOK, TypeOK', Apart, pc # "await", NEW p, Go(p),
         \/ p \notin {"settle_msc", "live", "export", "anchor", "await"}
         \/ pc \in {"settle_msc", "live"} /\ p # "await"
  PROVE  Apart'
<1>1. HandshakeKept
  BY DEF Go, HandshakeKept
<1>2. AssertedKept
  BY DEF Go, AssertedKept, Asserted, PvOnly
<1>3. UNCHANGED env /\ UNCHANGED <<flight, request>>
  BY DEF Go
<1>4. \A a \in Ages : Ended(a) => Ended(a)'
  BY <1>3, EndedKept
<1>5. (Asserted => Ended(modeAt))'
  BY <1>2, <1>4, AssertedEnded DEF Apart
<1> QED BY <1>1, <1>3, <1>5, QuietApart

LEMMA IdleApart ==
  ASSUME TypeOK, TypeOK', Apart, UNCHANGED env, Idle, request' \in {request, NoRequest},
         HandshakeKept
  PROVE  Apart'
BY ElsewhereApart DEF Idle

LEMMA RetiredKept ==
  ASSUME TypeOK, tr' \in {tr, RetiredProof(tr), NoTransition, NewTransition, NewTransitionS}
  PROVE  HandshakeKept
<1>1. NoTransition.phase = "none" /\ NewTransition.phase = "close" /\ NewTransitionS.phase = "close"
  BY DEF NoTransition, NewTransition, NewTransitionS
<1>2. RetiredProof(tr).phase = tr.phase /\ RetiredProof(tr).mscAt = tr.mscAt
  BY DEF RetiredProof, TypeOK, Transitions
<1> QED BY <1>1, <1>2 DEF HandshakeKept

LEMMA EndApart ==
  ASSUME TypeOK, TypeOK', Apart, Paused \/ Unsuccessful PROVE Apart'
<1>1. HandshakeKept
  BY RetiredKept DEF Paused, Unsuccessful
<1> QED BY <1>1, IdleApart DEF Paused, Unsuccessful

\* The two commands that the barrier keeps apart, at their dispatch.
LEMMA SendExportApart ==
  ASSUME TypeOK, TypeOK', Apart, Carried, pc # "await",
         NEW v, NEW next, next # "settle_msc", SendExport(v, next),
         v = Ceiling => plant.mode # Discharging /\ want.mode # Discharging
  PROVE  Apart'
<1>1. HandshakeKept /\ ~Asserted'
  BY DEF SendExport, HandshakeKept, Asserted, TypeOK, Transitions
<1>2. \A a \in Ages : Ended(a) => Ended(a)'
  BY EndedKept DEF SendExport
<1>3. (tr.phase = "msc" => Ended(tr.mscAt))'
  BY <1>1, <1>2, HandshakeEnded DEF Apart
<1>4. ~(MayDischarge' /\ MayOpen')
  BY DEF SendExport, Apart, MayDischarge, MayOpen, Carried
<1>5. ExportShown'
  BY DEF SendExport, ExportShown, TypeOK, Entities, Ages
<1> QED BY <1>1, <1>3, <1>4, <1>5 DEF Apart

LEMMA SendModeApart ==
  ASSUME TypeOK, TypeOK', Apart, Carried, pc # "await",
         NEW m, NEW next, SendMode(m, next),
         m = Discharging => plant.export # Ceiling /\ want.export # Ceiling
  PROVE  Apart'
<1>1. HandshakeKept
  BY DEF SendMode, HandshakeKept, TypeOK, Transitions
<1>2. \A a \in Ages : Ended(a) => Ended(a)'
  BY EndedKept DEF SendMode
<1>3. (tr.phase = "msc" => Ended(tr.mscAt))'
  BY <1>1, <1>2, HandshakeEnded DEF Apart
<1>4. ~(MayDischarge' /\ MayOpen')
  BY DEF SendMode, Apart, MayDischarge, MayOpen, Carried
<1>5. ExportShown'
  BY DEF SendMode, Apart, ExportShown
<1>6. Ended(modeAt)'
  <2>1. Ended(0)'
    BY <1>2, EndedNow, AgesTyped
  <2> QED BY <2>1 DEF SendMode, Ended
<1> QED BY <1>3, <1>4, <1>5, <1>6 DEF Apart

\* A call that was taken moves its own command on and nothing else.
LEMMA CommandApart ==
  ASSUME TypeInv, TypeOK', Apart, Carried, pc = "await",
         Command(flight.what, flight.value), UNCHANGED ent, flight' = NoFlight,
         request' \in {request, NoRequest}, HandshakeKept, tr.phase = tr'.phase \/ ~(tr'.phase = "msc"),
         AssertedKept
  PROVE  Apart'
<1>1. /\ want'.mode \in {want.mode} \cup (IF flight.what = "mode" THEN {flight.value} ELSE {})
      /\ plant'.mode \in {plant.mode} \cup (IF flight.what = "mode" THEN {flight.value} ELSE {})
      /\ want'.export \in {want.export} \cup (IF flight.what = "export" THEN {flight.value} ELSE {})
      /\ plant'.export \in {plant.export} \cup (IF flight.what = "export" THEN {flight.value} ELSE {})
  BY DEF TypeInv, FlightOK, TypeOK, Plants, Command
<1>2. ~(MayDischarge' /\ MayOpen')
  BY <1>1 DEF Apart, MayDischarge, MayOpen, NoFlight
<1>3. ExportShown'
  <2>1. CASE flight.what = "mode"
    <3>1. want'.export = want.export /\ plant'.export = plant.export
      BY <1>1, <2>1
    <3> QED BY <3>1 DEF Apart, ExportShown, NoRequest
  <2>2. CASE flight.what = "export"
    <3>1. want'.export = request.value /\ plant'.export \in {plant.export, request.value}
      BY <1>1, <2>2 DEF Command, Carried, TypeInv, TypeOK, Plants
    <3> QED BY <3>1 DEF Apart, ExportShown, NoRequest
  <2> QED BY <2>1, <2>2 DEF TypeInv, FlightOK
<1>4. ASSUME tr.phase = "msc" \/ Asserted
      PROVE  \A a \in Ages : Ended(a) => Ended(a)'
  <2>1. d.mode # Discharging
    BY <1>4 DEF Carried, Asserted, PvOnly, Msc, Discharging
  <2> QED BY <2>1, EndedKept DEF Carried, TypeInv
<1>5. (tr.phase = "msc" => Ended(tr.mscAt))'
  <2>1. CASE tr.phase = "msc"
    BY <1>4, <2>1, HandshakeEnded DEF Apart, TypeInv
  <2> QED BY <2>1
<1>6. (Asserted => Ended(modeAt))'
  <2>1. CASE Asserted
    BY <1>4, <2>1, AssertedEnded DEF Apart, TypeInv
  <2> QED BY <2>1 DEF AssertedKept
<1> QED BY <1>2, <1>3, <1>5, <1>6 DEF Apart

LEMMA TickApart == ASSUME TypeInv, TypeInv', Apart, Tick PROVE Apart'
<1>1. \A a, b \in Ages :
        /\ Older(a) = Never <=> a = Never
        /\ Older(a) < Older(b) => a < b
  BY MscExportAssumption DEF Ages, Older, Never, Stale
<1>2. plant = want /\ UNCHANGED <<plant, want, flight, pc, d>>
  BY DEF Tick
<1>3. /\ ent'.mode = ent.mode /\ ent'.modeAge = Older(ent.modeAge)
      /\ ent'.export = ent.export /\ ent'.exportAge = Older(ent.exportAge)
  BY DEF Tick, TypeInv, TypeOK, Entities
<1>4. \A a, b \in Ages : b = Older(a) /\ Ended(a) =>
        /\ b # Never
        /\ (b > 0 /\ want.mode = Discharging) => plant.mode = Discharging
        /\ (ent'.modeAge < b /\ ent.mode = Msc)
              => plant.mode # Discharging /\ want.mode # Discharging
  BY <1>1, <1>2, <1>3 DEF Ended, TypeInv, TypeOK, Entities
<1>5. /\ tr'.phase = tr.phase /\ tr'.mscAt = Older(tr.mscAt)
      /\ request'.value = request.value /\ request'.at = Older(request.at)
      /\ tr.mscAt \in Ages /\ tr'.mscAt \in Ages /\ modeAt \in Ages /\ modeAt' \in Ages
      /\ request.at \in Ages /\ ent.exportAge \in Ages
  BY DEF Tick, TypeInv, TypeOK, Transitions, Requests, Entities
<1>6. ~(MayDischarge' /\ MayOpen')
  BY <1>2 DEF Apart, MayDischarge, MayOpen
<1>7. ExportShown'
  BY <1>1, <1>2, <1>3, <1>5 DEF Apart, ExportShown
<1>8. (tr.phase = "msc" => Ended(tr.mscAt))'
  BY <1>2, <1>3, <1>4, <1>5 DEF Apart, Ended
<1>9. (Asserted => Ended(modeAt))'
  <2>1. Asserted' = Asserted /\ modeAt' = Older(modeAt)
    BY <1>2 DEF Tick, Asserted, PvOnly
  <2> QED BY <2>1, <1>2, <1>3, <1>4, <1>5 DEF Apart, Ended
<1> QED BY <1>6, <1>7, <1>8, <1>9 DEF Apart

LEMMA ShownApart ==
  ASSUME TypeOK, TypeOK', Apart, Obey \/ ReportMode \/ ReportExport PROVE Apart'
<1>1. \A a \in Ages : Ended(a) => Ended(a)'
  BY EndedKept
<1>2. HandshakeKept /\ AssertedKept
  BY DEF Obey, ReportMode, ReportExport, HandshakeKept, AssertedKept, Asserted, PvOnly
<1>3. (tr.phase = "msc" => Ended(tr.mscAt))' /\ (Asserted => Ended(modeAt))'
  BY <1>1, <1>2, HandshakeEnded, AssertedEnded DEF Apart
<1>4. ~(MayDischarge' /\ MayOpen')
  BY DEF Obey, ReportMode, ReportExport, Apart, MayDischarge, MayOpen, TypeOK, Plants
<1>5. ExportShown'
  <2>1. CASE Obey
    BY <2>1 DEF Obey, Apart, ExportShown, TypeOK, Plants
  <2>2. CASE ReportMode
    BY <2>2 DEF ReportMode, Apart, ExportShown, TypeOK, Entities
  <2>3. CASE ReportExport
    BY <2>3, MscExportAssumption
    DEF ReportExport, Apart, ExportShown, TypeOK, Entities, Requests, Ages, Never, Stale
  <2> QED BY <2>1, <2>2, <2>3
<1> QED BY <1>3, <1>4, <1>5 DEF Apart

\* A cancellation or a restart finds its call taken or not.
LEMMA InterruptApart ==
  ASSUME TypeInv, TypeInv', Carried, Apart, NEW taken \in BOOLEAN, Cancel(taken) \/ Restart(taken)
  PROVE  Apart'
<1>1. HandshakeKept /\ (tr.phase = tr'.phase \/ ~(tr'.phase = "msc"))
  <2>1. tr' \in {tr, RetiredProof(tr), NoTransition}
    BY DEF Cancel, Restart
  <2>2. RetiredProof(tr).phase = tr.phase
    BY PhaseOf DEF TypeInv, TypeOK
  <2> QED BY <2>1, <2>2, RetiredKept DEF TypeInv, NoTransition
<1>2. Idle /\ request' \in {request, NoRequest} /\ UNCHANGED ent
  BY DEF Cancel, Restart
<1>3. CASE taken
  <2>1. pc = "await" /\ Command(flight.what, flight.value)
    BY <1>3 DEF Cancel, Restart
  <2>2. flight' = NoFlight /\ AssertedKept
    BY <1>2 DEF Idle, AssertedKept, Asserted
  <2> QED BY <1>1, <1>2, <2>1, <2>2, CommandApart DEF TypeInv
<1>4. CASE ~taken
  BY <1>1, <1>2, <1>4, IdleApart DEF Cancel, Restart, TypeInv
<1> QED BY <1>3, <1>4

LEMMA WorldApart ==
  ASSUME TypeInv, TypeInv', Carried, Apart, World, "drift" \notin Adversity PROVE Apart'
<1>1. ~Drift
  BY DEF Drift, Fault
<1>2. CASE Reconnect
  <2>1. HandshakeKept
    BY <1>2 DEF Reconnect, HandshakeKept, TypeInv, TypeOK, Transitions
  <2>2. AssertedKept /\ UNCHANGED env /\ UNCHANGED <<flight, request>>
    BY <1>2 DEF Reconnect, AssertedKept, Asserted, PvOnly
  <2>3. \A a \in Ages : Ended(a) => Ended(a)'
    BY <2>2, EndedKept DEF TypeInv
  <2>4. (Asserted => Ended(modeAt))'
    BY <2>2, <2>3, AssertedEnded DEF Apart, TypeInv
  <2> QED BY <2>1, <2>2, <2>4, QuietApart DEF TypeInv
<1>3. CASE Configure
  <2>1. HandshakeKept
    BY <1>3, RetiredKept DEF Configure, TypeInv
  <2> QED BY <1>3, <2>1, ElsewhereApart DEF Configure, TypeInv
<1> QED
  BY <1>1, <1>2, <1>3, TickApart, ShownApart, InterruptApart DEF World, TypeInv

\* What a hold makes of the handshake it is given.
LEMMA HoldPlanKept ==
  ASSUME NEW t, t = tr \/ t = NewTransition, HoldPlan(t), TypeOK PROVE HandshakeKept
<1> DEFINE base    == IF t.phase = "close" THEN t ELSE NewTransition
           closing == IF base.closeAt # Never THEN base
                      ELSE [base EXCEPT !.closeAt = 0, !.closeSame = TRUE]
           proving == IF t.phase = "msc" THEN t
                      ELSE [t EXCEPT !.phase = "msc", !.mscAt = 0, !.mscSame = TRUE,
                                     !.mscAck = FALSE]
<1>1. t \in Transitions /\ NewTransition \in Transitions /\ NewTransition.phase = "close"
  BY ResetsTyped DEF TypeOK, NewTransition, NoTransition
<1>2. closing.phase = "close"
  BY <1>1 DEF Transitions
<1>3. IF t.phase = "msc" THEN proving = tr ELSE proving.mscAt = 0
  BY <1>1 DEF Transitions
<1>4. tr' = IF CloseOwed(t) THEN closing ELSE proving
  BY DEF HoldPlan
<1> HIDE DEF closing, proving, base
<1>5. CASE CloseOwed(t)
  BY <1>2, <1>4, <1>5 DEF HandshakeKept
<1>6. CASE ~CloseOwed(t) /\ t.phase = "msc"
  BY <1>1, <1>3, <1>4, <1>6 DEF HandshakeKept
<1>7. CASE ~CloseOwed(t) /\ t.phase # "msc"
  BY <1>3, <1>4, <1>7 DEF HandshakeKept
<1> QED BY <1>5, <1>6, <1>7

LEMMA HoldAgainApart ==
  ASSUME TypeOK, TypeOK', Apart, HoldAgain PROVE Apart'
<1>1. HandshakeKept
  BY HoldAgainOwes DEF HandshakeKept
<1>2. UNCHANGED env /\ UNCHANGED <<flight, request>>
  BY DEF HoldAgain, HoldPlan
<1> QED BY <1>1, <1>2, HoldAgainOwes, ElsewhereApart

LEMMA EntryApart ==
  ASSUME TypeInv, TypeInv', Apart,
         \/ \E policy \in Policies : Begin(policy)
         \/ \E a \in Authority : Enter(a)
         \/ Cycle
  PROVE  Apart'
<1>1. CASE Cycle
  <2>1. HandshakeKept
    BY <1>1 DEF Cycle, Read, HandshakeKept, TypeInv, TypeOK, Transitions
  <2> QED BY <1>1, <2>1, ElsewhereApart DEF Cycle, Read, TypeInv
<1>2. ASSUME NEW policy \in Policies, Begin(policy) PROVE Apart'
  <2>1. HandshakeKept
    BY <1>2, RetiredKept DEF Begin, TypeInv
  <2> QED BY <1>2, <2>1, ElsewhereApart DEF Begin, TypeInv
<1>3. ASSUME NEW a \in Authority, NotAutomated(a) PROVE Apart'
  <2>1. HandshakeKept
    BY <1>3, RetiredKept DEF NotAutomated, Paused, TypeInv
  <2> QED BY <1>3, <2>1, EndApart, IdleApart DEF NotAutomated, TypeInv
<1>4. CASE StartDischarge
  <2>1. HandshakeKept /\ pc' \in {"rest", "prepare"}
    BY <1>4, RetiredKept DEF StartDischarge, DischargeEntry, TypeInv
  <2> QED BY <1>4, <2>1, ElsewhereApart DEF StartDischarge, DischargeEntry, TypeInv
<1>5. CASE HoldForProof
  <2>1. HandshakeKept
    BY <1>5, HoldPlanKept DEF HoldForProof, TypeInv
  <2>2. pc' \in {"hold_close", "hold_msc", "hold_rest"}
    BY <1>5 DEF HoldForProof, HoldPlan
  <2>3. UNCHANGED env /\ UNCHANGED <<flight, request>>
    BY <1>5 DEF HoldForProof, HoldPlan
  <2> QED BY <2>1, <2>2, <2>3, ElsewhereApart DEF TypeInv
<1>6. CASE Proceed
  <2>1. UNCHANGED <<env, tr, flight, request, d>>
    BY <1>6 DEF Proceed
  <2>2. pc' \in {"probe", "ems", "rest"} \/ ~PvOnly(d)'
    BY <1>6, <2>1 DEF Proceed, PvOnly
  <2> QED BY <2>1, <2>2, ElsewhereApart, RetiredKept DEF TypeInv
<1> QED BY <1>1, <1>2, <1>3, <1>4, <1>5, <1>6 DEF Enter

LEMMA OpeningApart ==
  ASSUME TypeInv, TypeInv', Apart,
         \/ \E ok \in BOOLEAN : Probe(ok) \/ Live(ok)
         \/ \E a \in Authority : Maintain(a)
  PROVE  Apart'
<1>1. ASSUME NEW ok \in BOOLEAN, Probe(ok), ~HoldAgain PROVE Apart'
  <2>1. UNCHANGED env /\ UNCHANGED <<tr, flight, request>>
    BY <1>1 DEF Probe
  <2>2. HandshakeKept
    BY <2>1, RetiredKept DEF TypeInv
  <2>3. CASE pc' = "live"
    <3>1. tr.phase = "msc" /\ modeAt' = tr.mscAt
      BY <1>1, <2>3 DEF Probe, ReusedCurrent, TypeInv, TypeOK
    <3>2. Ended(modeAt)'
      BY <2>1, <3>1 DEF Apart, Ended
    <3> QED BY <2>1, <2>2, <3>2, QuietApart DEF TypeInv
  <2>4. CASE pc' # "live"
    <3>1. pc' \in {"maintain", "fallback", "reassert"}
      BY <1>1, <2>4 DEF Probe, TypeInv, TypeOK
    <3> QED BY <2>1, <2>2, <3>1, ElsewhereApart DEF TypeInv
  <2> QED BY <2>3, <2>4
<1>2. ASSUME NEW ok \in BOOLEAN, Live(ok) PROVE Apart'
  <2>1. pc = "live" /\ (HoldAgain \/ \E p \in {"export", "anchor", "rest"} : Go(p))
    BY <1>2 DEF Live
  <2> QED BY <2>1, HoldAgainApart, GoApart DEF TypeInv
<1>3. ASSUME NEW a \in Authority, Maintain(a) PROVE Apart'
  <2>1. CASE Permits(a, FALSE)
    <3>1. UNCHANGED <<env, tr, flight, request>> /\ pc' \in {"rest", "fallback"}
      BY <1>3, <2>1 DEF Maintain
    <3> QED BY <3>1, ElsewhereApart, RetiredKept DEF TypeInv
  <2> QED BY <1>3, <2>1, EndApart DEF Maintain, TypeInv
<1> QED BY <1>1, <1>2, <1>3, HoldAgainApart DEF TypeInv

LEMMA SettleApart ==
  ASSUME TypeInv, TypeInv', Apart, NEW seen \in BOOLEAN,
         SettleMsc(seen) \/ SettleClose(seen) \/ SettleTarget(seen)
  PROVE  Apart'
<1>1. CASE SettleMsc(seen)
  BY <1>1, GoApart DEF SettleMsc, TypeInv
<1>2. CASE SettleClose(seen) \/ SettleTarget(seen)
  BY <1>2, EndApart, GoApart DEF SettleClose, SettleTarget, TypeInv
<1> QED BY <1>1, <1>2

\* Both permissive commands rest on a report later than what they depend on.
LEMMA DispatchesApart ==
  ASSUME TypeInv, TypeInv', Carried, TargetPrepared, Apart, NEW a \in Authority,
         \/ HoldClose(a) \/ HoldMsc(a) \/ FallbackClose(a) \/ FallbackMsc(a)
         \/ Reassert(a) \/ Open(a) \/ Close(a) \/ Prepare(a) \/ SetMode(a)
  PROVE  Apart'
<1>1. CASE HoldClose(a) \/ FallbackClose(a) \/ Close(a)
  BY <1>1, GoApart, SendExportApart
  DEF HoldClose, FallbackClose, Close, Dispatch, TypeInv, Closed, Ceiling
<1>2. CASE HoldMsc(a) \/ FallbackMsc(a) \/ Reassert(a)
  BY <1>2, GoApart, SendModeApart
  DEF HoldMsc, FallbackMsc, Reassert, Dispatch, TypeInv, Msc, Discharging
<1>3. CASE Prepare(a)
  <2>1. d.export # Ceiling
    BY <1>3 DEF Prepare, Carried, NotOpening, PvOnly, TypeInv, TypeOK, Decisions,
                Ceiling, Closed, Target
  <2> QED BY <1>3, <2>1, GoApart, SendExportApart DEF Prepare, Dispatch, TypeInv
<1>4. CASE Open(a)
  <2>1. Go("fallback") \/ (OpenEvidence /\ SendExport(Ceiling, "rest"))
    BY <1>4 DEF Open, Dispatch
  <2>2. Asserted
    <3>1. d.export = Ceiling /\ pc \in {"export", "anchor"}
      BY <1>4 DEF Open, ExportVal, Ceiling, Closed
    <3>2. PvOnly(d)
      BY <3>1 DEF PvOnly, TypeInv, TypeOK, Decisions, Ceiling, Closed, Target
    <3> QED BY <3>1, <3>2 DEF Asserted
  <2>3. CASE OpenEvidence /\ SendExport(Ceiling, "rest")
    <3>1. ent.mode = Msc /\ ent.modeAge < modeAt
      BY <2>3 DEF OpenEvidence, LiveMsc, Current
    <3>2. plant.mode # Discharging /\ want.mode # Discharging
      BY <2>2, <3>1 DEF Apart, Ended
    <3> QED BY <1>4, <2>3, <3>2, SendExportApart DEF Open, TypeInv
  <2> QED BY <1>4, <2>1, <2>3, GoApart DEF Open, TypeInv
<1>5. CASE SetMode(a)
  <2>1. \/ Go("fallback")
        \/ /\ d.mode = Discharging => DischargeEvidence
           /\ \E next \in {"export", "rest"} : SendMode(d.mode, next)
    BY <1>5 DEF SetMode, Dispatch
  <2>2. ASSUME d.mode = Discharging, DischargeEvidence
        PROVE  plant.export = Target /\ want.export = Target
    <3>1. request.value = Target
      BY <1>5, <2>2 DEF SetMode, TargetPrepared
    <3>2. request.at # Never /\ ent.export = request.value /\ ent.exportAge < request.at
      BY <2>2 DEF DischargeEvidence, LiveExport, Current
    <3> QED BY <3>1, <3>2 DEF Apart, ExportShown
  <2> QED
    BY <1>5, <2>1, <2>2, GoApart, SendModeApart DEF SetMode, TypeInv, Target, Ceiling
<1> QED BY <1>1, <1>2, <1>3, <1>4, <1>5

LEMMA RespondApart ==
  ASSUME TypeInv, TypeInv', Carried, Apart,
         NEW ok \in BOOLEAN, NEW taken \in BOOLEAN, Respond(ok, taken)
  PROVE  Apart'
<1>1. pc = "await" /\ flight.next \in Continuations /\ pc' \in {flight.next, "fallback"}
  BY DEF Respond, TypeInv, FlightOK
<1>2. tr'.phase = tr.phase /\ tr'.mscAt = tr.mscAt
  BY DEF Respond, TypeInv, TypeOK, Transitions
<1>3. UNCHANGED <<ent, d, request, modeAt>> /\ flight' = NoFlight
  BY DEF Respond
<1>4. HandshakeKept
  BY <1>2 DEF HandshakeKept
<1>5. AssertedKept
  <2>1. flight.next = "export" => ~PvOnly(d)
    BY <1>1 DEF Carried, NotOpening
  <2> QED BY <1>1, <1>3, <2>1 DEF AssertedKept, Asserted, Continuations
<1>6. CASE taken
  <2>1. Command(flight.what, flight.value)
    BY <1>6 DEF Respond
  <2> QED BY <1>1, <1>2, <1>3, <1>4, <1>5, <2>1, CommandApart DEF TypeInv
<1>7. CASE ~taken
  <2>1. UNCHANGED env
    BY <1>3, <1>7 DEF Respond
  <2>2. \A a \in Ages : Ended(a) => Ended(a)'
    BY <2>1, EndedKept DEF TypeInv
  <2>3. (Asserted => Ended(modeAt))'
    BY <1>5, <2>2, AssertedEnded DEF Apart, TypeInv
  <2> QED BY <1>3, <1>4, <2>1, <2>3, QuietApart DEF TypeInv
<1> QED BY <1>6, <1>7

LEMMA RestApart ==
  ASSUME TypeInv, TypeInv', Apart, NEW a \in Authority,
         \/ \E ok \in BOOLEAN : HoldRest(a, ok)
         \/ \E outcome \in {"done", "collected", "failed"} : Rest(a, outcome)
         \/ Fallback(a) \/ FallbackRest
  PROVE  Apart'
<1>1. ASSUME NEW ok \in BOOLEAN, HoldRest(a, ok) PROVE Apart'
  BY <1>1, EndApart, GoApart DEF HoldRest, TypeInv
<1>2. ASSUME NEW outcome, Rest(a, outcome) PROVE Apart'
  <2>1. CASE pc' = "finish" /\ UNCHANGED <<env, tr, request, flight>>
    BY <2>1, ElsewhereApart, RetiredKept DEF TypeInv
  <2> QED BY <1>2, <2>1, EndApart, GoApart DEF Rest, TypeInv
<1>3. CASE Fallback(a) \/ FallbackRest
  <2>1. CASE pc' = "fb_close" /\ tr' = NewTransition /\ UNCHANGED <<env, request, flight>>
    BY <2>1, ElsewhereApart, RetiredKept DEF TypeInv
  <2> QED BY <1>3, <2>1, EndApart DEF Fallback, FallbackRest, TypeInv
<1> QED BY <1>1, <1>2, <1>3

LEMMA FinishApart ==
  ASSUME TypeInv, TypeInv', Apart,
         \/ FinishFailed \/ FinishPlain
         \/ \E a \in Authority : FinishReused(a) \/ FinishMaintained(a)
  PROVE  Apart'
<1>1. CASE FinishFailed
  BY <1>1, GoApart, IdleApart, RetiredKept DEF FinishFailed, TypeInv
<1>2. CASE FinishPlain
  BY <1>2, IdleApart, RetiredKept DEF FinishPlain, TypeInv
<1>3. ASSUME NEW a \in Authority, FinishReused(a) \/ FinishMaintained(a) PROVE Apart'
  BY <1>3, GoApart, EndApart, IdleApart, RetiredKept DEF FinishReused, FinishMaintained, TypeInv
<1> QED BY <1>1, <1>2, <1>3

LEMMA NextApart ==
  ASSUME "drift" \notin Adversity
  PROVE  TypeInv /\ TypeInv' /\ Carried /\ TargetPrepared /\ Apart /\ [Next]_vars => Apart'
<1> SUFFICES ASSUME TypeInv, TypeInv', Carried, TargetPrepared, Apart, [Next]_vars
             PROVE  Apart'
  OBVIOUS
<1>1. CASE World
  BY <1>1, WorldApart
<1>2. CASE Application
  <2>1. CASE \/ \E policy \in Policies : Begin(policy)
             \/ \E ok, taken \in BOOLEAN : Respond(ok, taken)
             \/ FallbackRest \/ FinishFailed \/ FinishPlain
    BY <2>1, EntryApart, RespondApart, RestApart, FinishApart DEF Authority
  <2>2. CASE \E ok \in BOOLEAN :
               Probe(ok) \/ Live(ok) \/ SettleMsc(ok) \/ SettleClose(ok) \/ SettleTarget(ok)
    BY <2>2, OpeningApart, SettleApart
  <2>3. ASSUME NEW a \in Authority,
               \/ Enter(a) \/ Fallback(a) \/ Maintain(a)
               \/ FinishReused(a) \/ FinishMaintained(a)
               \/ \E ok \in BOOLEAN : HoldRest(a, ok)
               \/ \E outcome \in {"done", "collected", "failed"} : Rest(a, outcome)
        PROVE  Apart'
    BY <2>3, EntryApart, RestApart, OpeningApart, FinishApart
  <2> QED BY <1>2, <2>1, <2>2, <2>3, DispatchesApart DEF Application
<1>3. CASE Cycle
  BY <1>3, EntryApart
<1>4. CASE UNCHANGED vars
  BY <1>4 DEF vars, Apart, Asserted, PvOnly, Ended, MayDischarge, MayOpen, ExportShown
<1> QED BY <1>1, <1>2, <1>3, <1>4 DEF Next

LEMMA InitApart == Init => Carried /\ Apart
<1> SUFFICES ASSUME Init PROVE Carried /\ Apart
  OBVIOUS
<1>1. Carried
  BY DEF Init, Carried, NotOpening, NoFlight, NoDecision, Msc, Discharging
<1>2. ~Asserted /\ tr.phase # "msc" /\ request.at = Never /\ flight.what = "none"
  BY DEF Init, Asserted, NoTransition, NoRequest, NoFlight
<1>3. plant = want /\ ~(plant.mode = Discharging /\ plant.export = Ceiling)
  BY DEF Init
<1> QED BY <1>1, <1>2, <1>3 DEF Apart, MayDischarge, MayOpen, ExportShown

\* The inverter never discharges the battery under the PV-only ceiling: whatever
\* the optimizer's calls lose or delay, whatever of it is cancelled, reconnected,
\* reconfigured or restarted, as long as no other writer commands the inverter.
THEOREM NeverDischargesUnderCeiling ==
  ASSUME "drift" \notin Adversity
  PROVE  Spec => []NoDischargeUnderCeiling
<1>1. Apart => NoDischargeUnderCeiling
  BY DEF Apart, MayDischarge, MayOpen, NoDischargeUnderCeiling
<1>2. Init => TargetPrepared
  BY DEF Init, TargetPrepared
<1>3. TypeInv /\ TypeInv' /\ Carried /\ TargetPrepared /\ Apart /\ [Next]_vars => Apart'
  BY NextApart
<1> QED
  BY <1>1, <1>2, <1>3, InitTyped, InitApart, NextTyped, NextCarried, NextPrepared,
     PTL DEF Spec

-----------------------------------------------------------------------------
(* Only a surplus decision opens                                           *)

\* A command about to be sent, or under way.
Sending(place) == pc = place \/ (pc = "await" /\ flight.next = place)

\* Where only an opening comes, or what only an opening borrows.
Opening ==
  \/ pc \in {"probe", "maintain", "reassert", "live"} \/ Sending("settle_msc")
  \/ proof = "reused"

\* It is decided, and nothing is borrowed before an application has begun.
Borrowing == (pc \in Early => proof = "none") /\ (Opening => PvOnly(d))

LEMMA EndedBorrowing == ASSUME Idle \/ Paused \/ Unsuccessful PROVE Borrowing'
BY DEF Idle, Paused, Unsuccessful, Borrowing, Opening, Sending, Early

\* A step of the same application to a place that any application may reach.
LEMMA StepBorrowing ==
  ASSUME Borrowing, pc \notin Early, UNCHANGED <<d, proof>>,
         pc' \notin Early \cup {"probe", "maintain", "reassert", "live", "settle_msc"},
         pc' = "await" => flight'.next # "settle_msc"
  PROVE  Borrowing'
BY DEF Borrowing, Opening, Sending, PvOnly, Early

LEMMA SendExportBorrowing ==
  ASSUME Borrowing, pc \notin Early, NEW v, NEW next, SendExport(v, next), next # "settle_msc"
  PROVE  Borrowing'
BY DEF SendExport, Borrowing, Opening, Sending, PvOnly, Early

LEMMA SendModeBorrowing ==
  ASSUME Borrowing, pc \notin Early, NEW m, NEW next, SendMode(m, next),
         next # "settle_msc" \/ Opening
  PROVE  Borrowing'
BY DEF SendMode, Borrowing, Opening, Sending, PvOnly, Early

LEMMA GoBorrowing ==
  ASSUME Borrowing, pc \notin Early \cup {"await"}, NEW p, Go(p), p \notin Early \cup {"await"},
         p \in {"probe", "maintain", "reassert", "live", "settle_msc"} => Opening
  PROVE  Borrowing'
BY DEF Go, Borrowing, Opening, Sending, PvOnly, Early

LEMMA HeldBorrowing ==
  ASSUME Borrowing, pc \notin Early \/ proof = "none", UNCHANGED <<d, proof>>,
         pc' \in {"hold_close", "hold_msc", "hold_rest"}
  PROVE  Borrowing'
BY DEF Borrowing, Opening, Sending, PvOnly, Early

LEMMA WorldBorrowing == ASSUME Borrowing, World PROVE Borrowing'
<1>1. CASE Tick \/ ReportMode \/ ReportExport \/ Obey \/ Drift \/ Reconnect \/ Configure
  <2>1. UNCHANGED <<pc, d, proof, flight>>
    BY <1>1 DEF Tick, ReportMode, ReportExport, Obey, Drift, Reconnect, Configure
  <2> QED BY <2>1 DEF Borrowing, Opening, Sending, PvOnly
<1>2. CASE \E taken \in BOOLEAN : Cancel(taken) \/ Restart(taken)
  BY <1>2, EndedBorrowing DEF Cancel, Restart
<1> QED BY <1>1, <1>2 DEF World

LEMMA EntryBorrowing ==
  ASSUME Borrowing,
         \/ \E policy \in Policies : Begin(policy)
         \/ \E a \in Authority : Enter(a)
         \/ Cycle
  PROVE  Borrowing'
<1>1. CASE Cycle \/ \E policy \in Policies : Begin(policy)
  BY <1>1 DEF Cycle, Read, Begin, Borrowing, Opening, Sending, Early
<1>2. ASSUME NEW a \in Authority, NotAutomated(a) PROVE Borrowing'
  BY <1>2, EndedBorrowing DEF NotAutomated
<1>3. CASE pc = "enter" /\ StartDischarge
  BY <1>3 DEF StartDischarge, DischargeEntry, Borrowing, Opening, Sending, PvOnly, Early
<1>4. CASE pc = "enter" /\ HoldForProof
  <2>1. UNCHANGED <<d, proof>> /\ pc' \in {"hold_close", "hold_msc", "hold_rest"}
    BY <1>4 DEF HoldForProof, HoldPlan
  <2> QED BY <1>4, <2>1, HeldBorrowing DEF Borrowing, Early
<1>5. CASE pc = "enter" /\ Proceed
  BY <1>5 DEF Proceed, Borrowing, Opening, Sending, PvOnly, Early
<1> QED BY <1>1, <1>2, <1>3, <1>4, <1>5 DEF Enter

LEMMA OpeningBorrowing ==
  ASSUME TypeOK, Borrowing,
         \/ \E ok \in BOOLEAN : Probe(ok) \/ Live(ok) \/ SettleMsc(ok)
         \/ \E a \in Authority : Maintain(a)
  PROVE  Borrowing'
<1>1. ASSUME HoldAgain, pc \in {"probe", "live"} PROVE Borrowing'
  <2>1. UNCHANGED <<d, proof>> /\ pc' \in {"hold_close", "hold_msc", "hold_rest"}
    BY <1>1 DEF HoldAgain, HoldPlan
  <2> QED BY <1>1, <2>1, HeldBorrowing DEF Early
<1>2. ASSUME NEW ok \in BOOLEAN, Probe(ok), ~HoldAgain PROVE Borrowing'
  <2>1. /\ pc = "probe" /\ UNCHANGED <<d, proof>>
        /\ pc' \in {"maintain", "live", "fallback", "reassert"}
    BY <1>2 DEF Probe, TypeOK
  <2> QED BY <2>1 DEF Borrowing, Opening, Sending, PvOnly, Early
<1>3. ASSUME NEW ok \in BOOLEAN, Live(ok), ~HoldAgain PROVE Borrowing'
  <2>1. pc = "live" /\ \E p \in {"export", "anchor", "rest"} : Go(p)
    BY <1>3 DEF Live
  <2> QED BY <2>1, GoBorrowing DEF Early
<1>4. ASSUME NEW ok \in BOOLEAN, SettleMsc(ok) PROVE Borrowing'
  BY <1>4, GoBorrowing DEF SettleMsc, Early, Opening, Sending
<1>5. ASSUME NEW a \in Authority, Maintain(a) PROVE Borrowing'
  <2>1. CASE Permits(a, FALSE)
    BY <1>5, <2>1 DEF Maintain, Borrowing, Opening, Sending, PvOnly, Early
  <2> QED BY <1>5, <2>1, EndedBorrowing DEF Maintain
<1>6. ASSUME NEW ok \in BOOLEAN, Probe(ok) \/ Live(ok) PROVE pc \in {"probe", "live"}
  BY <1>6 DEF Probe, Live
<1> QED BY <1>1, <1>2, <1>3, <1>4, <1>5, <1>6

LEMMA DispatchesBorrowing ==
  ASSUME Borrowing, NEW a \in Authority,
         \/ HoldClose(a) \/ HoldMsc(a) \/ FallbackClose(a) \/ FallbackMsc(a)
         \/ Reassert(a) \/ Open(a) \/ Close(a) \/ Prepare(a) \/ SetMode(a)
  PROVE  Borrowing'
<1>1. CASE HoldClose(a) \/ FallbackClose(a) \/ Open(a) \/ Close(a) \/ Prepare(a)
  BY <1>1, GoBorrowing, SendExportBorrowing
  DEF HoldClose, FallbackClose, Open, Close, Prepare, Dispatch, Early
<1>2. CASE HoldMsc(a) \/ FallbackMsc(a)
  BY <1>2, GoBorrowing, SendModeBorrowing DEF HoldMsc, FallbackMsc, Dispatch, Early
<1>3. CASE Reassert(a)
  BY <1>3, GoBorrowing, SendModeBorrowing DEF Reassert, Dispatch, Early, Opening
<1>4. CASE SetMode(a)
  BY <1>4, GoBorrowing, SendModeBorrowing DEF SetMode, Dispatch, Early
<1> QED BY <1>1, <1>2, <1>3, <1>4

LEMMA OtherBorrowing ==
  ASSUME TypeInv, Borrowing,
         \/ \E ok \in BOOLEAN, taken \in BOOLEAN : Respond(ok, taken)
         \/ \E ok \in BOOLEAN : SettleClose(ok) \/ SettleTarget(ok)
         \/ \E a \in Authority :
              \/ Fallback(a) \/ FinishReused(a) \/ FinishMaintained(a)
              \/ \E ok \in BOOLEAN : HoldRest(a, ok)
              \/ \E outcome \in {"done", "collected", "failed"} : Rest(a, outcome)
         \/ FallbackRest \/ FinishFailed \/ FinishPlain
  PROVE  Borrowing'
<1>1. ASSUME NEW ok \in BOOLEAN, NEW taken \in BOOLEAN, Respond(ok, taken) PROVE Borrowing'
  <2>1. pc = "await" /\ flight.next \in Continuations /\ pc' \in {flight.next, "fallback"}
    BY <1>1 DEF Respond, TypeInv, FlightOK
  <2>2. UNCHANGED <<d, proof>>
    BY <1>1 DEF Respond
  <2> QED BY <2>1, <2>2 DEF Borrowing, Opening, Sending, PvOnly, Early, Continuations
<1>2. ASSUME NEW ok \in BOOLEAN, SettleClose(ok) \/ SettleTarget(ok) PROVE Borrowing'
  BY <1>2, GoBorrowing, EndedBorrowing DEF SettleClose, SettleTarget, Early
<1>3. ASSUME NEW a \in Authority, FinishReused(a) \/ FinishMaintained(a) PROVE Borrowing'
  BY <1>3, GoBorrowing, EndedBorrowing DEF FinishReused, FinishMaintained, Early
<1>4. ASSUME NEW a \in Authority, NEW ok \in BOOLEAN, HoldRest(a, ok) PROVE Borrowing'
  BY <1>4, GoBorrowing, EndedBorrowing DEF HoldRest, Early
<1>5. ASSUME NEW a \in Authority, NEW outcome, Rest(a, outcome) PROVE Borrowing'
  <2>1. CASE pc' = "finish" /\ UNCHANGED <<d, proof>>
    <3>1. pc = "rest"
      BY <1>5 DEF Rest
    <3> QED BY <2>1, <3>1, StepBorrowing DEF Early
  <2> QED BY <1>5, <2>1, GoBorrowing, EndedBorrowing DEF Rest, Early
<1>6. ASSUME NEW a \in Authority, Fallback(a) PROVE Borrowing'
  <2>1. CASE pc' = "fb_close" /\ UNCHANGED <<d, proof>>
    <3>1. pc = "fallback"
      BY <1>6 DEF Fallback
    <3> QED BY <2>1, <3>1, StepBorrowing DEF Early
  <2> QED BY <1>6, <2>1, EndedBorrowing DEF Fallback
<1>7. CASE FallbackRest \/ FinishFailed \/ FinishPlain
  BY <1>7, GoBorrowing, EndedBorrowing DEF FallbackRest, FinishFailed, FinishPlain, Early
<1> QED BY <1>1, <1>2, <1>3, <1>4, <1>5, <1>6, <1>7

LEMMA NextBorrowing == TypeInv /\ Borrowing /\ [Next]_vars => Borrowing'
<1> SUFFICES ASSUME TypeInv, Borrowing, [Next]_vars PROVE Borrowing'
  OBVIOUS
<1>1. CASE World
  BY <1>1, WorldBorrowing
<1>2. CASE Application
  BY <1>2, EntryBorrowing, OpeningBorrowing, DispatchesBorrowing, OtherBorrowing
  DEF Application, TypeInv
<1>3. CASE Cycle
  BY <1>3, EntryBorrowing
<1>4. CASE UNCHANGED vars
  BY <1>4 DEF vars, app, Borrowing, Opening, Sending, PvOnly
<1> QED BY <1>1, <1>2, <1>3, <1>4 DEF Next

-----------------------------------------------------------------------------
(* Every opening is redeemed                                               *)

Reserved == [mode |-> Msc, export |-> Closed] \in Policies

\* Without the cases in which the code's own barrier gives more than it has proven:
\* control leaving the optimizer during a fallback, charge commands under a
\* handshake, and a closed completion after a reconnect.
Undiverted ==
  /\ "remote" \notin Adversity /\ "operator" \notin Adversity
  /\ \A policy \in Policies : policy.mode # Charging
  /\ "reconnect" \notin Adversity \/ ~Reserved

\* What the barrier claims of the current reader's handshake is no longer owed.
Claims ==
  /\ tr.phase = "none" => due = "none"
  /\ tr.id = "current" =>
       /\ tr.closeAt = Never => due = "none"
       /\ tr.closeAck => due # "close"
       /\ tr.phase = "msc" => \/ due \in {"none", "msc", "proven"}
                              \/ pc = "hold_msc" /\ due = "closed"

\* What a report or a snapshot shows of a request is no longer owed.
Shown ==
  /\ (due = "closing" /\ tr.closeAt # Never) =>
       /\ ~(ent.export = Closed /\ ent.exportAge < tr.closeAt)
       /\ ~(s.exportOk /\ s.export = Closed /\ s.exportAge < tr.closeAt)
  /\ (due = "msc" /\ tr.phase = "msc") =>
       /\ ~(ent.mode = Msc /\ ent.modeAge < tr.mscAt)
       /\ ~(s.mode = Msc /\ s.modeAge < tr.mscAt)

\* An application begins with a handshake of its reader, or one that its snapshot
\* does not close; and decides to close, if no policy does, only to hold.
Entering ==
  pc = "enter" =>
    /\ (tr.phase # "none" /\ ReaderCurrent) => tr.id = "current" \/ tr.closeSame
    /\ (d.mode = Msc /\ ~PvOnly(d) /\ ~Reserved)
         => tr.phase # "none" /\ ~TransitionObserved(tr)

\* What a command may bind the barrier to.
Binding ==
  /\ pc \in {"hold_close", "fb_close"} => tr.phase = "close"
  /\ (pc = "hold_msc" /\ ReaderCurrent) =>
       /\ due \in {"none", "closed", "msc", "proven"}
       /\ tr.closeAt = Never => due = "none"
  /\ Sending("fb_msc") =>
       tr.phase = "close" /\ tr.closeAt # Never /\ (ReaderCurrent => due # "close")
  /\ (pc = "await" /\ flight.what = "export" /\ flight.binds /\ ReaderCurrent) => due # "close"
  /\ (pc = "prepare" \/ Sending("settle_target")) => d.mode = Discharging
  /\ (d.mode = Discharging /\ (pc \in {"prepare", "ems"} \/ Sending("settle_target")))
       => tr.id # "current"

\* Past the choice of the direct path.
Proceeded ==
  \/ pc \in {"probe", "maintain", "reassert", "settle_msc", "live", "export", "anchor",
             "settle_close", "ems", "rest", "finish"}
  \/ pc = "await" /\ flight.next \in {"settle_msc", "export", "settle_close", "rest"}

\* The handshake such an application rests on has been redeemed, or there is none.
Proceeding ==
  (Proceeded /\ d.mode = Msc) =>
    /\ tr.id = "current" => due \in {"none", "proven"}
    /\ PvOnly(d) => IF proof = "reused" THEN s.exportOk ELSE tr.phase = "none"
    /\ ~PvOnly(d) =>
         /\ Reserved
         /\ tr.phase = "none" \/ tr.id = "current"
         /\ (pc = "ems" \/ Sending("export")) => tr.phase = "none"
         /\ pc \notin {"probe", "reassert", "live"} /\ ~Sending("settle_msc")
    /\ pc = "reassert" => proof = "none"

Owing == d.mode # Charging /\ Claims /\ Shown /\ Entering /\ Binding /\ Proceeding

\* Restrictive commands are never refused.
LEMMA AlwaysPermitted ==
  ASSUME Undiverted, NEW a \in Authority, Reads(a)
  PROVE  a \in {"automated", "unreadable"} /\ Permits(a, TRUE)
BY DEF Undiverted, Authority, Reads, Fault, Permits

\* A handshake of another reader claims nothing.
LEMMA ClaimsNothing ==
  ASSUME tr'.id # "current", tr'.phase = "none" => due' = "none" PROVE Claims'
BY DEF Claims

LEMMA OweAgainOwes ==
  ASSUME OweAgain PROVE due' \in {"none", "close"} /\ (due = "none" <=> due' = "none")
BY DEF OweAgain

LEMMA KeptOwing ==
  ASSUME Owing, UNCHANGED <<ent, tr, request, app, due>> PROVE Owing'
BY DEF Owing, Claims, Shown, Entering, Binding, Proceeding, Proceeded, Sending, PvOnly,
       ReaderCurrent, TransitionObserved, ExportClosed, MscExact

\* Where an application has ended, only the barrier's claims are left.
LEMMA IdleOwing == ASSUME Idle, Claims', Shown' PROVE Owing'
BY DEF Idle, NoDecision, Owing, Entering, Binding, Proceeding, Proceeded, Sending,
       Msc, Charging, Discharging

\* A handshake dropped, retired or restarted.
LEMMA LostOwing ==
  ASSUME Idle, tr'.id # "current", tr'.phase = "none" => due' = "none",
         due' \in {"none", "close"}
  PROVE  Owing'
BY IdleOwing, ClaimsNothing DEF Shown

LEMMA UntouchedOwing ==
  ASSUME Owing, Idle, pc # "hold_msc", UNCHANGED <<ent, tr, due>> PROVE Owing'
<1>1. Claims'
  BY DEF Owing, Claims
<1>2. Shown'
  BY DEF Owing, Shown, Idle, NoSnapshot, Unreadable, Msc
<1> QED BY <1>1, <1>2, IdleOwing

LEMMA RetiredId ==
  ASSUME TypeOK, Owing
  PROVE  RetiredProof(tr).id # "current" \/ (tr.phase = "none" /\ RetiredProof(tr) = tr)
BY DEF RetiredProof, TypeOK, Transitions

LEMMA PausedOwing == ASSUME TypeOK, Owing, pc # "hold_msc", Paused PROVE Owing'
<1>1. tr' = RetiredProof(tr) /\ Idle /\ UNCHANGED ent /\ OweAgain
  BY DEF Paused
<1>2. CASE tr.phase = "none"
  <2>1. tr' = tr /\ due' = due
    BY <1>1, <1>2 DEF RetiredProof, Owing, Claims, OweAgain
  <2> QED BY <1>1, <2>1, UntouchedOwing
<1>3. CASE tr.phase # "none"
  <2>1. tr'.id = "retired" /\ tr'.phase # "none"
    BY <1>1, <1>3 DEF RetiredProof, TypeOK, Transitions
  <2> QED BY <1>1, <2>1, OweAgainOwes, LostOwing
<1> QED BY <1>2, <1>3

LEMMA UnsuccessfulOwing ==
  ASSUME Owing, pc # "hold_msc", Unsuccessful PROVE Owing'
BY UntouchedOwing DEF Unsuccessful

\* A step to the next place of the same application.
LEMMA GoOwing ==
  ASSUME Owing, pc \notin {"await", "hold_msc"}, NEW p, Go(p),
         p \notin {"enter", "await", "hold_close", "hold_msc", "fb_close", "fb_msc",
                   "prepare", "settle_target", "reassert"},
         (p \in {"maintain", "live", "export", "anchor", "settle_close", "ems", "rest",
                 "finish"} /\ d.mode = Msc) => Proceeded,
         p = "ems" => pc = "settle_target",
         p \in {"export", "live"} => pc \in {"live", "settle_msc"}, p \notin {"probe", "settle_msc"}
  PROVE  Owing'
<1>1. Claims' /\ Shown' /\ Entering' /\ Binding'
  BY DEF Go, Owing, Claims, Shown, Entering, Binding, Sending
<1>2. Proceeding'
  BY DEF Go, Owing, Proceeding, Proceeded, Sending, PvOnly, Binding, Msc, Discharging
<1> QED BY <1>1, <1>2 DEF Go, Owing

\* Export requests that do not touch the handshake.
LEMMA SendExportOwing ==
  ASSUME Owing, pc # "hold_msc", NEW v, NEW next \in {"settle_close", "rest", "settle_target"},
         SendExport(v, next),
         v # Closed \/ tr.phase = "none",
         next = "settle_target" => d.mode = Discharging /\ tr.id # "current",
         (next # "settle_target" /\ d.mode = Msc) => Proceeded
  PROVE  Owing'
<1>1. UNCHANGED <<tr, due, ent, s, d, reader, proof>>
  BY DEF SendExport, Owing, Claims
<1>2. pc' = "await" /\ flight'.next = next /\ ~flight'.binds
  BY DEF SendExport
<1>3. Claims' /\ Shown' /\ Entering' /\ Binding'
  BY <1>1, <1>2 DEF Owing, Claims, Shown, Entering, Binding, Sending
<1>4. Proceeding'
  BY <1>1, <1>2 DEF Owing, Proceeding, Proceeded, Sending, PvOnly, Msc, Discharging
<1> QED BY <1>1, <1>3, <1>4 DEF Owing

\* The close that a hold or a fallback requests.
LEMMA SendCloseOwing ==
  ASSUME TypeOK, Owing, NEW next \in {"hold_rest", "fb_msc"}, SendExport(Closed, next),
         tr.phase = "close"
  PROVE  Owing'
<1>1. /\ tr'.phase = "close" /\ tr'.closeAt = 0 /\ ~tr'.closeAck
      /\ UNCHANGED <<ent, s, d, reader, proof>>
  BY DEF SendExport, TypeOK, Transitions
<1>2. due' = IF due = "close" THEN "closing" ELSE due
  BY DEF SendExport
<1>3. pc' = "await" /\ flight'.next = next
  BY DEF SendExport
<1>4. Claims' /\ Entering' /\ Proceeding'
  BY <1>1, <1>2, <1>3, MscExportAssumption
  DEF Claims, Entering, Proceeding, Proceeded, Sending, Never, Stale
<1>5. Shown'
  BY <1>1, <1>2 DEF Shown, TypeOK, Entities, Snapshots, Ages
<1>6. Binding'
  BY <1>1, <1>2, <1>3, MscExportAssumption DEF Binding, Sending, Never, Stale
<1> QED BY <1>1, <1>4, <1>5, <1>6 DEF Owing

\* Mode commands that do not touch the handshake.
LEMMA SendModeOwing ==
  ASSUME Owing, Proceeded, NEW next \in {"settle_msc", "export", "rest"},
         SendMode(Msc, next), tr.phase = "none", next = "settle_msc" => PvOnly(d)
  PROVE  Owing'
<1>1. UNCHANGED <<tr, due, ent, s, d, reader, proof>>
  BY DEF SendMode, Owing, Claims, Msc, Discharging
<1>2. pc' = "await" /\ flight'.next = next /\ flight'.what = "mode"
  BY DEF SendMode
<1>3. Claims' /\ Shown' /\ Entering' /\ Binding'
  BY <1>1, <1>2 DEF Owing, Claims, Shown, Entering, Binding, Sending
<1>4. Proceeding'
  BY <1>1, <1>2 DEF Owing, Proceeding, Sending, PvOnly
<1> QED BY <1>1, <1>3, <1>4 DEF Owing

LEMMA SendDischargeOwing ==
  ASSUME Owing, d.mode = Discharging, tr.id # "current", tr.phase # "none",
         SendMode(Discharging, "rest")
  PROVE  Owing'
<1>1. UNCHANGED <<tr, d>> /\ due' = "close"
  BY DEF SendMode, Msc, Discharging
<1>2. pc' = "await" /\ flight'.next = "rest" /\ flight'.what = "mode"
  BY DEF SendMode
<1> QED
  BY <1>1, <1>2 DEF Owing, Claims, Shown, Entering, Binding, Proceeding, Sending, Msc, Discharging

\* The MSC request of a hold or a fallback.
LEMMA SendMscOwing ==
  ASSUME TypeOK, Owing, pc \in {"hold_msc", "fb_msc"},
         NEW next \in {"hold_rest", "fb_rest"}, SendMode(Msc, next)
  PROVE  Owing'
<1>1. /\ tr'.phase = tr.phase /\ tr'.closeAt = tr.closeAt /\ tr'.closeAck = tr.closeAck
      /\ UNCHANGED <<ent, s, d, reader, proof>>
  BY DEF SendMode, TypeOK, Transitions
<1>2. due' = IF due = "closed" THEN "msc" ELSE due
  BY DEF SendMode, Msc, Discharging
<1>3. pc' = "await" /\ flight'.next = next /\ flight'.what = "mode"
  BY DEF SendMode
<1>4. tr.phase # "none" => tr'.mscAt = 0 /\ (tr'.id = "current" => ReaderCurrent)
  BY DEF SendMode, TypeOK, Transitions
<1>5. tr.phase = "none" => tr' = tr
  BY DEF SendMode
<1>6. Claims'
  BY <1>1, <1>2, <1>3, <1>4, <1>5 DEF Owing, Claims, Binding, Sending
<1>7. Shown'
  BY <1>1, <1>2, <1>4 DEF Owing, Claims, Shown, TypeOK, Entities, Snapshots, Ages
<1>8. Entering' /\ Binding' /\ Proceeding'
  BY <1>3 DEF Entering, Binding, Proceeding, Proceeded, Sending
<1> QED BY <1>1, <1>6, <1>7, <1>8 DEF Owing

LEMMA AgesGrow ==
  \A a, b \in Ages : /\ Older(a) = Never <=> a = Never
                     /\ Older(a) < Older(b) => a < b
                     /\ Older(a) <= MaxAge => a <= MaxAge
BY MscExportAssumption DEF Ages, Older, Never, Stale

LEMMA TickOwing == ASSUME TypeOK, TypeOK', Owing, Tick PROVE Owing'
<1>1. /\ tr'.phase = tr.phase /\ tr'.id = tr.id /\ tr'.closeAck = tr.closeAck
      /\ tr'.mscAck = tr.mscAck /\ tr'.closeSame = tr.closeSame /\ tr'.mscSame = tr.mscSame
      /\ tr'.closeAt = Older(tr.closeAt) /\ tr'.mscAt = Older(tr.mscAt)
      /\ tr.closeAt \in Ages /\ tr.mscAt \in Ages
  BY DEF Tick, TypeOK, Transitions
<1>2. /\ ent'.mode = ent.mode /\ ent'.modeAge = Older(ent.modeAge)
      /\ ent'.export = ent.export /\ ent'.exportAge = Older(ent.exportAge)
      /\ ent.modeAge \in Ages /\ ent.exportAge \in Ages
  BY DEF Tick, TypeOK, Entities
<1>3. /\ s'.mode = s.mode /\ s'.export = s.export /\ s'.exportOk = s.exportOk /\ s'.id = s.id
      /\ s.modeAge \in Ages /\ s.exportAge \in Ages
      /\ \/ s.mode # Msc /\ ~s.exportOk
         \/ s'.modeAge = Older(s.modeAge) /\ s'.exportAge = Older(s.exportAge)
  BY DEF Tick, TypeOK, Snapshots, NoSnapshot, Unreadable, Msc
<1>4. UNCHANGED <<pc, d, reader, proof, flight, due>> /\ request'.ours = request.ours
  BY DEF Tick, TypeOK, Requests
<1>5. Claims'
  BY <1>1, <1>4, AgesGrow DEF Owing, Claims
<1>6. Shown'
  BY <1>1, <1>2, <1>3, <1>4, AgesGrow DEF Owing, Shown
<1>7. TransitionObserved(tr)' => TransitionObserved(tr)
  <2> SUFFICES ASSUME TransitionObserved(tr)' PROVE TransitionObserved(tr)
    OBVIOUS
  <2>1. /\ tr'.phase = "msc" /\ tr'.id = "current" /\ ReaderCurrent' /\ tr'.mscAck
        /\ tr'.closeAt = Never \/ (tr'.closeAck /\ request'.ours)
        /\ ~tr'.mscSame /\ ~tr'.closeSame /\ s'.exportOk /\ s'.export = Closed /\ s'.mode = Msc
        /\ s'.exportAge <= MaxAge /\ s'.exportAge < tr'.closeAt
        /\ s'.modeAge <= MaxAge /\ s'.modeAge < Never /\ s'.modeAge < tr'.mscAt
    BY DEF TransitionObserved, ExportClosed, MscExact, Current
  <2>2. /\ s.exportAge <= MaxAge /\ s.exportAge < tr.closeAt
        /\ s.modeAge <= MaxAge /\ s.modeAge < tr.mscAt
    BY <1>1, <1>3, <2>1, AgesGrow
  <2>3. s.modeAge < Never
    BY <1>3, <2>2, MscExportAssumption DEF Never, Ages, Stale
  <2>4. ReaderCurrent /\ (tr.closeAt = Never \/ (tr.closeAck /\ request.ours))
    BY <1>1, <1>3, <1>4, <2>1, AgesGrow DEF ReaderCurrent
  <2> QED
    BY <1>1, <1>3, <2>1, <2>2, <2>3, <2>4
    DEF TransitionObserved, ExportClosed, MscExact, Current
<1>8. Entering'
  BY <1>1, <1>3, <1>4, <1>7 DEF Owing, Entering, ReaderCurrent, PvOnly
<1>9. Binding'
  BY <1>1, <1>3, <1>4, AgesGrow DEF Owing, Binding, Sending, ReaderCurrent
<1>10. Proceeding'
  BY <1>1, <1>3, <1>4 DEF Owing, Proceeding, Proceeded, Sending, PvOnly
<1> QED BY <1>4, <1>5, <1>6, <1>8, <1>9, <1>10 DEF Owing

LEMMA ReportOwing == ASSUME TypeOK, Owing, ReportMode \/ ReportExport PROVE Owing'
<1>1. UNCHANGED <<tr, request, app>>
  BY DEF ReportMode, ReportExport
<1>2. \/ due' = due
      \/ due = "msc" /\ due' = "proven"
      \/ due = "closing" /\ due' = "closed"
  BY DEF ReportMode, ReportExport
<1>3. Claims'
  BY <1>1, <1>2 DEF Owing, Claims
<1>4. Shown'
  <2>1. CASE ReportMode
    BY <2>1 DEF ReportMode, Owing, Shown, TypeOK, Entities
  <2>2. CASE ReportExport
    BY <2>2 DEF ReportExport, Owing, Shown, TypeOK, Entities
  <2> QED BY <2>1, <2>2
<1>5. Entering' /\ Binding' /\ Proceeding'
  BY <1>1, <1>2
  DEF Owing, Entering, Binding, Proceeding, Proceeded, Sending, PvOnly, ReaderCurrent,
      TransitionObserved, ExportClosed, MscExact
<1> QED BY <1>1, <1>3, <1>4, <1>5 DEF Owing

\* A new reader: nothing that was claimed counts for it.
LEMMA ReconnectOwing == ASSUME Undiverted, TypeOK, Owing, Reconnect PROVE Owing'
<1>1. ~Reserved
  BY DEF Undiverted, Reconnect, Fault
<1>2. /\ tr'.phase = tr.phase /\ tr'.closeAt = tr.closeAt /\ tr'.id # "current"
      /\ UNCHANGED <<ent, pc, d, proof, flight>> /\ s'.exportOk = s.exportOk
  BY DEF Reconnect, TypeOK, Transitions, Snapshots
<1>3. ~ReaderCurrent'
  BY DEF Reconnect, ReaderCurrent, TypeOK, Snapshots
<1>4. due' \in {"none", "close"} /\ (due = "none" <=> due' = "none")
  BY OweAgainOwes DEF Reconnect
<1>5. Claims' /\ Shown' /\ Binding'
  BY <1>2, <1>3, <1>4 DEF Owing, Claims, Shown, Binding, Sending
<1>6. Entering'
  BY <1>2, <1>3 DEF Owing, Entering, TransitionObserved, PvOnly
<1>7. Proceeding'
  BY <1>1, <1>2 DEF Owing, Proceeding, Proceeded, Sending, PvOnly
<1> QED BY <1>2, <1>5, <1>6, <1>7 DEF Owing

LEMMA ConfigureOwing == ASSUME Owing, Configure PROVE Owing'
<1>1. pc = "idle" /\ UNCHANGED <<ent, app>> /\ OweAgain
  BY DEF Configure
<1>2. IF tr.phase = "none" THEN tr' = tr ELSE tr' = NewTransition
  BY DEF Configure
<1>3. due' \in {"none", "close"} /\ (due = "none" <=> due' = "none")
  BY <1>1, OweAgainOwes
<1>4. Claims' /\ Shown'
  BY <1>1, <1>2, <1>3 DEF Owing, Claims, Shown, NewTransition, NoTransition
<1>5. Entering' /\ Binding' /\ Proceeding'
  BY <1>1 DEF Entering, Binding, Proceeding, Proceeded, Sending
<1> QED BY <1>1, <1>4, <1>5 DEF Owing

LEMMA InterruptOwing ==
  ASSUME TypeOK, Owing, NEW taken \in BOOLEAN, Cancel(taken) \/ Restart(taken) PROVE Owing'
<1>1. Idle /\ UNCHANGED ent
  BY DEF Cancel, Restart
<1>2. CASE tr' = NoTransition /\ due' = "none"
  BY <1>1, <1>2, LostOwing DEF NoTransition
<1>3. CASE pc = "ready" /\ UNCHANGED <<tr, due>>
  BY <1>1, <1>3, UntouchedOwing
<1>4. CASE tr' = RetiredProof(tr) /\ OweAgain
  <2>1. CASE tr.phase = "none"
    <3>1. tr' = tr /\ due' = "none"
      BY <1>4, <2>1 DEF RetiredProof, Owing, Claims, OweAgain
    <3>2. Claims' /\ Shown'
      BY <1>1, <2>1, <3>1 DEF Owing, Claims, Shown
    <3> QED BY <1>1, <3>2, IdleOwing
  <2>2. CASE tr.phase # "none"
    <3>1. tr'.id = "retired" /\ tr'.phase # "none"
      BY <1>4, <2>2 DEF RetiredProof, TypeOK, Transitions
    <3> QED BY <1>1, <1>4, <3>1, OweAgainOwes, LostOwing
  <2> QED BY <2>1, <2>2
<1> QED BY <1>2, <1>3, <1>4 DEF Cancel, Restart

LEMMA WorldOwing ==
  ASSUME Undiverted, TypeOK, TypeOK', Owing, World PROVE Owing'
<1>1. CASE Obey \/ Drift
  BY <1>1, KeptOwing DEF Obey, Drift
<1> QED
  BY <1>1, TickOwing, ReportOwing, ReconnectOwing, ConfigureOwing, InterruptOwing DEF World

\* What a hold makes of the handshake it is given.
LEMMA HoldPlanGives ==
  ASSUME NEW t \in Transitions, HoldPlan(t), CloseOwed(t)
  PROVE  /\ tr'.phase = "close" /\ pc' \in {"hold_close", "hold_rest"}
         /\ \/ tr'.id # "current"
            \/ t.phase = "close" /\ tr'.id = t.id /\ tr'.closeAck = t.closeAck
               /\ tr'.closeAt = IF t.closeAt # Never THEN t.closeAt ELSE 0
         /\ tr'.closeAt = 0 \/ (t.phase = "close" /\ tr'.closeAt = t.closeAt)
<1> DEFINE base    == IF t.phase = "close" THEN t ELSE NewTransition
           closing == IF base.closeAt # Never THEN base
                      ELSE [base EXCEPT !.closeAt = 0, !.closeSame = TRUE]
<1>1. NewTransition \in Transitions /\ NewTransition.phase = "close"
      /\ NewTransition.id = "none" /\ NewTransition.closeAt = Never
  BY ResetsTyped DEF NewTransition, NoTransition
<1>2. tr' = closing
  BY DEF HoldPlan
<1>3. base \in Transitions
  BY <1>1
<1>4. /\ closing.phase = base.phase /\ closing.id = base.id /\ closing.closeAck = base.closeAck
      /\ closing.closeAt = IF base.closeAt # Never THEN base.closeAt ELSE 0
  <2> HIDE DEF base
  <2> QED BY <1>3 DEF Transitions
<1>5. pc' \in {"hold_close", "hold_rest"}
  BY DEF HoldPlan
<1>6. CASE t.phase = "close"
  <2>1. base = t
    BY <1>6
  <2> HIDE DEF base, closing
  <2> QED BY <1>2, <1>4, <1>5, <1>6, <2>1
<1>7. CASE t.phase # "close"
  <2>1. base = NewTransition
    BY <1>7
  <2> HIDE DEF base, closing
  <2> QED BY <1>1, <1>2, <1>4, <1>5, <1>7, <2>1
<1> QED BY <1>6, <1>7

LEMMA HoldPlanProves ==
  ASSUME NEW t \in Transitions, HoldPlan(t), ~CloseOwed(t)
  PROVE  /\ tr'.phase = "msc" /\ tr'.id = t.id /\ tr'.closeAt = t.closeAt
         /\ tr'.closeAck = t.closeAck
         /\ IF t.phase = "msc" THEN tr' = t ELSE tr'.mscAt = 0
         /\ pc' = "hold_msc" \/ (pc' = "hold_rest" /\ t.phase = "msc")
<1>1. tr' = IF t.phase = "msc" THEN t
            ELSE [t EXCEPT !.phase = "msc", !.mscAt = 0, !.mscSame = TRUE, !.mscAck = FALSE]
  BY DEF HoldPlan
<1>2. pc' \in {"hold_msc", "hold_rest"} /\ (pc' = "hold_rest" => tr'.mscAck)
  BY <1>1 DEF HoldPlan
<1> QED BY <1>1, <1>2 DEF Transitions

LEMMA HoldForProofOwing ==
  ASSUME TypeOK, Owing, pc = "enter", HoldForProof PROVE Owing'
<1> DEFINE t == IF tr.phase = "none" THEN NewTransition ELSE tr
<1>1. t \in Transitions /\ HoldPlan(t)
  BY ResetsTyped DEF TypeOK, HoldForProof
<1>2. UNCHANGED <<ent, s, d, reader, due, flight>> /\ d.mode = Msc
  BY DEF HoldForProof, HoldPlan
<1>3. /\ tr.phase = "none" => due = "none" /\ t.id = "none" /\ t.phase = "close"
      /\ tr.phase # "none" => t = tr
  BY DEF Owing, Claims, NewTransition, NoTransition
<1> HIDE DEF t
<1>4. CASE CloseOwed(t)
  <2>1. /\ tr'.phase = "close" /\ pc' \in {"hold_close", "hold_rest"}
        /\ \/ tr'.id # "current"
           \/ t.phase = "close" /\ tr'.id = t.id /\ tr'.closeAck = t.closeAck
              /\ tr'.closeAt = IF t.closeAt # Never THEN t.closeAt ELSE 0
        /\ tr'.closeAt = 0 \/ (t.phase = "close" /\ tr'.closeAt = t.closeAt)
    BY <1>1, <1>4, HoldPlanGives
  <2>2. Claims'
    BY <1>2, <1>3, <2>1, MscExportAssumption DEF Owing, Claims, Never, Stale
  <2>3. Shown'
    BY <1>2, <1>3, <2>1 DEF Owing, Shown, TypeOK, Entities, Snapshots, Ages
  <2>4. Entering' /\ Binding' /\ Proceeding'
    BY <2>1 DEF Entering, Binding, Proceeding, Proceeded, Sending
  <2> QED BY <1>2, <2>2, <2>3, <2>4 DEF Owing, Msc, Charging
<1>5. CASE ~CloseOwed(t)
  <2>1. /\ tr'.phase = "msc" /\ tr'.id = t.id /\ tr'.closeAt = t.closeAt
        /\ tr'.closeAck = t.closeAck
        /\ IF t.phase = "msc" THEN tr' = t ELSE tr'.mscAt = 0
        /\ pc' = "hold_msc" \/ (pc' = "hold_rest" /\ t.phase = "msc")
    BY <1>1, <1>5, HoldPlanProves
  <2>2. /\ s.exportOk /\ s.export = Closed /\ ~t.closeSame /\ s.exportAge < t.closeAt
        /\ t.id = "none" \/ t.closeAt = Never \/ t.closeAck
    BY <1>5 DEF CloseOwed, ExportClosed, Current
  <2>3. (t.id = "current" \/ (ReaderCurrent /\ tr.phase # "none")) =>
          /\ t = tr /\ t.id = "current"
          /\ due \in {"none", "closed", "msc", "proven"}
          /\ t.closeAt = Never => due = "none"
    <3> SUFFICES ASSUME t.id = "current" \/ (ReaderCurrent /\ tr.phase # "none")
                 PROVE  /\ t = tr /\ t.id = "current"
                        /\ due \in {"none", "closed", "msc", "proven"}
                        /\ t.closeAt = Never => due = "none"
      OBVIOUS
    <3>1. t = tr /\ t.id = "current"
      BY <1>3, <2>2 DEF Owing, Entering
    <3>2. t.closeAt # Never => due # "close" /\ due # "closing"
      BY <2>2, <3>1 DEF Owing, Claims, Shown
    <3>3. t.closeAt = Never => due = "none"
      BY <3>1 DEF Owing, Claims
    <3> QED BY <3>1, <3>2, <3>3 DEF TypeOK, Dues
  <2>4. Claims'
    BY <1>2, <1>3, <2>1, <2>3 DEF Owing, Claims
  <2>5. Shown'
    BY <1>2, <1>3, <2>1 DEF Owing, Shown, TypeOK, Entities, Snapshots, Ages
  <2>6. Binding'
    BY <1>2, <1>3, <2>1, <2>3 DEF Owing, Binding, Sending, ReaderCurrent, Claims
  <2>7. Entering' /\ Proceeding'
    BY <2>1 DEF Entering, Proceeding, Proceeded
  <2> QED BY <1>2, <2>4, <2>5, <2>6, <2>7 DEF Owing, Msc, Charging
<1> QED BY <1>4, <1>5

\* A contradicted opening starts over without a reader.
LEMMA HoldAgainOwing == ASSUME TypeOK, Owing, HoldAgain PROVE Owing'
<1>1. HoldPlan(NewTransitionS) /\ NewTransitionS \in Transitions
      /\ NewTransitionS.id = "none" /\ CloseOwed(NewTransitionS)
  BY ResetsTyped DEF HoldAgain, NewTransitionS, NewTransition, NoTransition, CloseOwed, ExportClosed
<1>2. tr'.phase = "close" /\ pc' \in {"hold_close", "hold_rest"} /\ tr'.id # "current"
  BY <1>1, HoldPlanGives
<1>3. due' = "close" /\ d' = d
  BY DEF HoldAgain, HoldPlan
<1> QED
  BY <1>2, <1>3 DEF Owing, Claims, Shown, Entering, Binding, Proceeding, Proceeded, Sending

LEMMA ReadOwing == ASSUME TypeOK, Owing, Cycle PROVE Owing'
<1>1. PICK modeOk \in BOOLEAN, exportOk \in BOOLEAN : Read(modeOk, exportOk)
  BY DEF Cycle
<1>2. /\ tr'.phase = tr.phase /\ tr'.closeAt = tr.closeAt /\ tr'.mscAt = tr.mscAt
      /\ tr'.id = tr.id /\ tr'.closeAck = tr.closeAck
  BY <1>1 DEF Read, TypeOK, Transitions
<1>3. pc' = "ready" /\ pc = "idle" /\ UNCHANGED <<ent, d, due>>
  BY <1>1 DEF Read
<1>4. /\ s'.exportOk => s'.export = ent.export /\ s'.exportAge = ent.exportAge
      /\ s'.mode = Msc => s'.mode = ent.mode /\ s'.modeAge = ent.modeAge
  BY <1>1 DEF Read, Unreadable, Msc
<1>5. Claims' /\ Shown'
  BY <1>2, <1>3, <1>4 DEF Owing, Claims, Shown
<1>6. Entering' /\ Binding' /\ Proceeding'
  BY <1>3 DEF Entering, Binding, Proceeding, Proceeded, Sending
<1> QED BY <1>3, <1>5, <1>6 DEF Owing

LEMMA BeginOwing ==
  ASSUME Undiverted, TypeOK, Owing, NEW policy \in Policies, Begin(policy) PROVE Owing'
<1>1. /\ policy \in Decisions /\ policy.mode # Charging
      /\ policy = [mode |-> policy.mode, export |-> policy.export]
  BY MscExportAssumption DEF Undiverted, Decisions
<1>2. pc = "ready" /\ pc' = "enter" /\ UNCHANGED <<ent, s, reader, request>>
  BY DEF Begin
<1>3. d'.mode = policy.mode /\ (d' = policy \/ Pending(policy))
  BY <1>1 DEF Begin, Desired
<1>4. \/ UNCHANGED <<tr, due>>
      \/ tr' = NewTransitionS /\ OweAgain /\ tr.phase # "none"
  BY DEF Begin
<1>5. NewTransitionS.id = "none" /\ NewTransitionS.phase = "close" /\ NewTransitionS.closeSame
  BY DEF NewTransitionS, NewTransition, NoTransition
<1>6. Claims' /\ Shown'
  BY <1>2, <1>4, <1>5, OweAgainOwes DEF Owing, Claims, Shown
<1>7. (tr'.phase # "none" /\ ReaderCurrent') => tr'.id = "current" \/ tr'.closeSame
  <2>1. CASE tr' = NewTransitionS
    BY <1>5, <2>1
  <2>2. CASE tr' # NewTransitionS
    <3>1. ~(tr.phase # "none" /\
              IF tr.id = "none" THEN ReaderCurrent
              ELSE ~ReaderCurrent \/ tr.id # "current" \/ (tr.closeAck /\ ~request.ours))
      BY <2>2 DEF Begin
    <3>2. tr' = tr
      BY <1>4, <2>2
    <3> QED BY <1>2, <3>1, <3>2 DEF ReaderCurrent
  <2> QED BY <2>1, <2>2
<1>8. (d'.mode = Msc /\ ~PvOnly(d)' /\ ~Reserved)
        => tr'.phase # "none" /\ ~TransitionObserved(tr)'
  <2> SUFFICES ASSUME d'.mode = Msc, ~PvOnly(d)', ~Reserved
               PROVE  tr'.phase # "none" /\ ~TransitionObserved(tr)'
    OBVIOUS
  <2>1. Pending(policy)
    <3> SUFFICES ASSUME d' = policy PROVE FALSE
      BY <1>3
    <3>1. policy.mode = Msc /\ policy.export = Closed
      BY DEF PvOnly
    <3> QED BY <1>1, <3>1 DEF Reserved
  <2>2. CASE tr' = NewTransitionS
    BY <1>5, <2>2 DEF TransitionObserved
  <2>3. CASE UNCHANGED tr
    BY <1>2, <2>1, <2>3
    DEF Pending, TransitionObserved, ReaderCurrent, ExportClosed, MscExact
  <2> QED BY <1>4, <2>2, <2>3
<1>9. Binding' /\ Proceeding'
  BY <1>2 DEF Binding, Proceeding, Proceeded, Sending
<1> QED BY <1>1, <1>3, <1>6, <1>7, <1>8, <1>9 DEF Owing, Entering

LEMMA ProceedOwing ==
  ASSUME TypeOK, Owing, pc = "enter", Proceed PROVE Owing'
<1>1. UNCHANGED <<tr, due, ent, s, d, reader, flight>>
  BY DEF Proceed
<1>2. pc' \in {"probe", "ems", "export", "rest"} /\ d.mode = Msc
  BY DEF Proceed, Owing, TypeOK, Decisions, Msc, Discharging, Charging
<1>3. tr.phase = "none" \/ TransitionObserved(tr)
  BY <1>2 DEF Proceed, TransitionRequired
<1>4. TransitionObserved(tr) =>
        /\ tr.phase = "msc" /\ tr.id = "current"
        /\ s.exportOk /\ s.export = Closed /\ s.mode = Msc /\ s.modeAge < tr.mscAt
  BY DEF TransitionObserved, ExportClosed, MscExact, Current
<1>5. tr.id = "current" => due \in {"none", "proven"}
  BY <1>3, <1>4 DEF Owing, Claims, Shown
<1>6. PvOnly(d) => IF proof' = "reused" THEN s.exportOk ELSE tr.phase = "none"
  BY <1>3, <1>4 DEF Proceed, MaintenanceCandidate
<1>7. ~PvOnly(d) => Reserved /\ (tr.phase = "none" \/ tr.id = "current")
  BY <1>2, <1>3, <1>4 DEF Owing, Entering
<1>8. (~PvOnly(d) /\ pc' \in {"ems", "export"}) => tr.phase = "none"
  <2> SUFFICES ASSUME ~PvOnly(d), TransitionObserved(tr) PROVE pc' = "rest"
    BY <1>3
  <2>1. d.export = Closed /\ s.exportOk /\ s.export = Closed /\ s.mode = d.mode
    BY <1>2, <1>4 DEF PvOnly
  <2>2. ~ExportWriteRequired
    BY <2>1 DEF ExportWriteRequired, ExportVal, Withheld, PvOnly
  <2> QED BY <2>1, <2>2 DEF Proceed
<1>9. Claims' /\ Shown' /\ Entering' /\ Binding' /\ (pc' = "probe" => PvOnly(d))
  BY <1>1, <1>2 DEF Owing, Claims, Shown, Entering, Binding, Sending, Proceed, Msc, Discharging
<1>10. Proceeding'
  <2>1. PvOnly(d)' <=> PvOnly(d)
    BY <1>1 DEF PvOnly
  <2> QED BY <1>1, <1>2, <1>5, <1>6, <1>7, <1>8, <1>9, <2>1 DEF Proceeding, Sending
<1> QED BY <1>1, <1>9, <1>10 DEF Owing

LEMMA EnterOwing ==
  ASSUME Undiverted, TypeInv, Owing, NEW a \in Authority, Enter(a) PROVE Owing'
<1>1. a \in {"automated", "unreadable"} /\ pc = "enter"
  BY AlwaysPermitted DEF Enter
<1>2. CASE NotAutomated(a)
  BY <1>1, <1>2, PausedOwing DEF NotAutomated, TypeInv
<1>3. CASE StartDischarge
  <2>1. /\ d.mode = Discharging /\ tr' = NewTransition /\ pc' \in {"rest", "prepare"}
        /\ UNCHANGED <<d, due, flight>>
    BY <1>3 DEF StartDischarge, DischargeEntry
  <2>2. tr'.phase = "close" /\ tr'.id = "none" /\ tr'.closeAt = Never
    BY <2>1 DEF NewTransition, NoTransition
  <2>3. Claims' /\ Shown' /\ Entering'
    BY <2>1, <2>2 DEF Claims, Shown, Entering
  <2>4. Binding' /\ Proceeding'
    BY <2>1, <2>2 DEF Binding, Proceeding, Sending, Msc, Discharging
  <2> QED BY <2>1, <2>3, <2>4 DEF Owing
<1>4. CASE HoldForProof
  BY <1>1, <1>4, HoldForProofOwing DEF TypeInv
<1>5. CASE Proceed
  BY <1>1, <1>5, ProceedOwing DEF TypeInv
<1> QED BY <1>2, <1>3, <1>4, <1>5 DEF Enter

LEMMA OpeningOwing ==
  ASSUME Undiverted, TypeInv, Carried, Owing,
         \/ \E ok \in BOOLEAN : Probe(ok) \/ Live(ok)
         \/ \E a \in Authority : Maintain(a)
  PROVE  Owing'
<1>1. ASSUME NEW ok \in BOOLEAN, Probe(ok), ~HoldAgain PROVE Owing'
  <2>1. /\ pc = "probe" /\ UNCHANGED <<ent, tr, request, s, d, reader, proof, due, flight>>
        /\ pc' \in {"maintain", "live", "fallback", "reassert"}
        /\ pc' = "reassert" => proof = "none"
    BY <1>1 DEF Probe, TypeInv, TypeOK
  <2>2. Claims' /\ Shown' /\ Entering' /\ Binding'
    BY <2>1 DEF Owing, Claims, Shown, Entering, Binding, Sending
  <2>3. Proceeding'
    BY <2>1 DEF Owing, Proceeding, Proceeded, Sending, PvOnly
  <2> QED BY <2>1, <2>2, <2>3 DEF Owing
<1>2. ASSUME NEW ok \in BOOLEAN, Live(ok), ~HoldAgain PROVE Owing'
  <2>1. pc = "live" /\ \E p \in {"export", "anchor", "rest"} : Go(p)
    BY <1>2 DEF Live
  <2> QED BY <2>1, GoOwing DEF Proceeded
<1>3. ASSUME NEW a \in Authority, Maintain(a) PROVE Owing'
  <2>1. CASE Permits(a, FALSE)
    <3>1. /\ pc = "maintain" /\ pc' \in {"rest", "fallback"}
          /\ UNCHANGED <<ent, tr, request, s, d, reader, proof, due, flight>>
      BY <1>3, <2>1 DEF Maintain
    <3>2. Claims' /\ Shown' /\ Entering' /\ Binding'
      BY <3>1 DEF Owing, Claims, Shown, Entering, Binding, Sending
    <3>3. Proceeding'
      BY <3>1 DEF Owing, Proceeding, Proceeded, Sending, PvOnly
    <3> QED BY <3>1, <3>2, <3>3 DEF Owing
  <2> QED BY <1>3, <2>1, PausedOwing DEF Maintain, TypeInv
<1> QED BY <1>1, <1>2, <1>3, HoldAgainOwing DEF TypeInv

LEMMA SettleOwing ==
  ASSUME Owing, NEW seen \in BOOLEAN,
         SettleMsc(seen) \/ SettleClose(seen) \/ SettleTarget(seen)
  PROVE  Owing'
<1>1. CASE SettleMsc(seen)
  <2>1. pc = "settle_msc" /\ \E p \in {"live", "fallback"} : Go(p)
    BY <1>1 DEF SettleMsc
  <2> QED BY <2>1, GoOwing DEF Proceeded
<1>2. CASE SettleClose(seen)
  <2>1. pc = "settle_close" /\ (Go("rest") \/ Unsuccessful)
    BY <1>2 DEF SettleClose
  <2> QED BY <2>1, GoOwing, UnsuccessfulOwing DEF Proceeded
<1>3. CASE SettleTarget(seen)
  <2>1. pc = "settle_target" /\ \E p \in {"fallback", "ems", "rest"} : Go(p)
    BY <1>3 DEF SettleTarget
  <2>2. d.mode # Msc
    BY <2>1 DEF Owing, Binding, Sending, Msc, Discharging
  <2> QED BY <2>1, <2>2, GoOwing
<1> QED BY <1>1, <1>2, <1>3

\* An opening rests on a redeemed handshake, or on none.
OpensRedeemed == Dispatches("export", Ceiling) => due \in {"none", "proven"}

LEMMA OpenOwing ==
  ASSUME TypeInv, Owing, NEW a \in Authority, Open(a)
  PROVE  Owing' /\ OpensRedeemed
<1>1. pc \in {"export", "anchor"} /\ (Go("fallback") \/ (OpenEvidence /\ SendExport(Ceiling, "rest")))
  BY DEF Open, Dispatch
<1>2. CASE Go("fallback")
  BY <1>1, <1>2, GoOwing DEF OpensRedeemed, Dispatches, Go
<1>3. CASE OpenEvidence /\ SendExport(Ceiling, "rest")
  <2>1. Owing'
    BY <1>1, <1>3, SendExportOwing DEF Proceeded, Ceiling, Closed
  <2>2. d.mode = Msc /\ PvOnly(d)
    <3>1. d.export = Ceiling
      BY DEF Open, ExportVal, Ceiling, Closed
    <3> QED BY <3>1 DEF TypeInv, TypeOK, Decisions, PvOnly, Ceiling, Closed, Target
  <2>3. CASE proof = "reused"
    <3>1. tr.id = "current"
      BY <1>3, <2>3 DEF OpenEvidence, ReusedCurrent
    <3> QED BY <1>1, <2>1, <2>2, <3>1 DEF Owing, Proceeding, Proceeded, OpensRedeemed
  <2>4. CASE proof # "reused"
    BY <1>1, <2>1, <2>2, <2>4 DEF Owing, Proceeding, Proceeded, Claims, OpensRedeemed
  <2> QED BY <2>3, <2>4
<1> QED BY <1>1, <1>2, <1>3

LEMMA DispatchesOwing ==
  ASSUME Undiverted, TypeInv, Carried, Borrowing, Owing, NEW a \in Authority,
         \/ HoldClose(a) \/ HoldMsc(a) \/ FallbackClose(a) \/ FallbackMsc(a)
         \/ Reassert(a) \/ Close(a) \/ Prepare(a) \/ SetMode(a)
  PROVE  Owing'
<1>1. Reads(a)
  BY DEF HoldClose, HoldMsc, FallbackClose, FallbackMsc, Reassert, Close, Prepare, SetMode,
         Dispatch
<1>2. Permits(a, TRUE)
  BY <1>1, AlwaysPermitted
<1>3. CASE HoldClose(a) \/ FallbackClose(a)
  <2>1. tr.phase = "close" /\ \E next \in {"hold_rest", "fb_msc"} : SendExport(Closed, next)
    BY <1>2, <1>3 DEF HoldClose, FallbackClose, Dispatch, Owing, Binding
  <2> QED BY <2>1, SendCloseOwing DEF TypeInv
<1>4. CASE HoldMsc(a) \/ FallbackMsc(a)
  <2>1. /\ pc \in {"hold_msc", "fb_msc"}
        /\ \E next \in {"hold_rest", "fb_rest"} : SendMode(Msc, next)
    BY <1>2, <1>4 DEF HoldMsc, FallbackMsc, Dispatch
  <2> QED BY <2>1, SendMscOwing DEF TypeInv
<1>5. CASE Reassert(a)
  <2>1. pc = "reassert" /\ (Go("fallback") \/ SendMode(Msc, "settle_msc"))
    BY <1>5 DEF Reassert, Dispatch
  <2>2. d.mode = Msc => PvOnly(d) /\ tr.phase = "none"
    BY <2>1 DEF Owing, Proceeding, Proceeded
  <2>3. d.mode = Msc
    BY <2>1 DEF Borrowing, Opening, PvOnly
  <2> QED BY <2>1, <2>2, <2>3, GoOwing, SendModeOwing DEF Proceeded
<1>6. CASE Close(a)
  <2>1. pc = "export" /\ ExportVal = Closed /\ (Go("fallback") \/ SendExport(Closed, "settle_close"))
    BY <1>6 DEF Close, Dispatch
  <2>2. (d.mode = Msc /\ ~PvOnly(d)) => tr.phase = "none"
    BY <2>1 DEF Owing, Proceeding, Proceeded, Sending
  <2>3. PvOnly(d) => d.mode = Msc /\ ~s.exportOk
    BY <2>1 DEF ExportVal, Withheld, PvOnly
  <2>4. PvOnly(d) => tr.phase = "none"
    BY <2>1, <2>3 DEF Owing, Proceeding, Proceeded
  <2>5. d.mode = Msc
    BY <2>1 DEF Owing, TypeInv, TypeOK, Decisions, ExportVal, Withheld, PvOnly,
                Msc, Discharging, Charging, Closed, Target
  <2>6. tr.phase = "none"
    BY <2>2, <2>4, <2>5
  <2> QED BY <2>1, <2>5, <2>6, GoOwing, SendExportOwing DEF Proceeded
<1>7. CASE Prepare(a)
  <2>1. pc = "prepare" /\ (Go("fallback") \/ SendExport(d.export, "settle_target"))
    BY <1>7 DEF Prepare, Dispatch
  <2>2. d.mode = Discharging /\ tr.id # "current" /\ d.export # Closed
    BY <2>1 DEF Owing, Binding, TypeInv, TypeOK, Decisions, Msc, Discharging, Charging,
                Closed, Target
  <2> QED BY <2>1, <2>2, GoOwing, SendExportOwing
<1>8. CASE SetMode(a)
  <2>1. /\ pc = "ems"
        /\ \/ Go("fallback")
           \/ SendMode(d.mode, "rest")
           \/ d.mode # Discharging /\ SendMode(d.mode, "export")
    BY <1>8 DEF SetMode, Dispatch
  <2>2. CASE d.mode = Discharging
    <3>1. tr.id # "current" /\ tr.phase = "close"
      BY <2>1, <2>2 DEF Owing, Binding, Carried
    <3> QED BY <2>1, <2>2, <3>1, GoOwing, SendDischargeOwing
  <2>3. CASE d.mode = Msc
    <3>1. tr.phase = "none"
      BY <2>1, <2>3 DEF Owing, Proceeding, Proceeded, Carried, NotOpening
    <3> QED BY <2>1, <2>3, <3>1, GoOwing, SendModeOwing DEF Proceeded
  <2> QED BY <2>2, <2>3 DEF Owing, TypeInv, TypeOK, Decisions, Msc, Discharging, Charging
<1> QED BY <1>3, <1>4, <1>5, <1>6, <1>7, <1>8

LEMMA RespondOwing ==
  ASSUME TypeInv, Owing, NEW ok \in BOOLEAN, NEW taken \in BOOLEAN, Respond(ok, taken)
  PROVE  Owing'
<1>1. /\ pc = "await" /\ flight.next \in Continuations /\ pc' \in {flight.next, "fallback"}
      /\ flight.what \in {"mode", "export"}
  BY DEF Respond, TypeInv, FlightOK
<1>2. UNCHANGED <<ent, s, d, reader, proof, due, request>>
  BY DEF Respond
<1>3. /\ tr'.phase = tr.phase /\ tr'.id = tr.id
      /\ tr'.closeAt = tr.closeAt /\ tr'.mscAt = tr.mscAt
      /\ tr'.closeAck => \/ tr.closeAck
                         \/ flight.what = "export" /\ flight.binds /\ ReaderCurrent
  BY <1>1 DEF Respond, TypeInv, TypeOK, Transitions
<1>4. Claims'
  BY <1>1, <1>2, <1>3 DEF Owing, Claims, Binding
<1>5. Shown'
  BY <1>2, <1>3 DEF Owing, Shown
<1>6. Entering' /\ Binding'
  BY <1>1, <1>2, <1>3 DEF Owing, Entering, Binding, Sending, Continuations, ReaderCurrent
<1>7. Proceeding'
  BY <1>1, <1>2, <1>3 DEF Owing, Proceeding, Proceeded, Sending, Continuations, PvOnly
<1> QED BY <1>2, <1>4, <1>5, <1>6, <1>7 DEF Owing

LEMMA RestOwing ==
  ASSUME Undiverted, TypeInv, Owing, NEW a \in Authority,
         \/ \E ok \in BOOLEAN : HoldRest(a, ok)
         \/ \E outcome \in {"done", "collected", "failed"} : Rest(a, outcome)
         \/ Fallback(a) \/ FallbackRest
  PROVE  Owing'
<1>1. ASSUME NEW ok \in BOOLEAN, HoldRest(a, ok) PROVE Owing'
  BY <1>1, PausedOwing, UnsuccessfulOwing, GoOwing DEF HoldRest, TypeInv
<1>2. ASSUME NEW outcome, Rest(a, outcome) PROVE Owing'
  <2>1. CASE pc' = "finish" /\ UNCHANGED <<ent, tr, request, s, d, reader, proof, due, flight>>
    <3>1. pc = "rest"
      BY <1>2 DEF Rest
    <3>2. Claims' /\ Shown' /\ Entering' /\ Binding'
      BY <2>1, <3>1 DEF Owing, Claims, Shown, Entering, Binding, Sending
    <3>3. Proceeding'
      BY <2>1, <3>1 DEF Owing, Proceeding, Proceeded, Sending, PvOnly
    <3> QED BY <2>1, <3>2, <3>3 DEF Owing
  <2> QED BY <1>2, <2>1, PausedOwing, GoOwing DEF Rest, TypeInv
<1>3. CASE Fallback(a)
  <2>1. /\ pc' = "fb_close" /\ tr' = NewTransition /\ due' = "close" /\ UNCHANGED <<d, flight>>
    BY <1>3, AlwaysPermitted DEF Fallback
  <2>2. tr'.phase = "close" /\ tr'.id = "none"
    BY <2>1 DEF NewTransition, NoTransition
  <2> QED
    BY <2>1, <2>2 DEF Owing, Claims, Shown, Entering, Binding, Proceeding, Proceeded, Sending
<1>4. CASE FallbackRest
  BY <1>4, UnsuccessfulOwing DEF FallbackRest
<1> QED BY <1>1, <1>2, <1>3, <1>4

\* Only what is redeemed is consumed.
LEMMA FinishOwing ==
  ASSUME TypeInv, Borrowing, Owing,
         \/ FinishFailed \/ FinishPlain
         \/ \E a \in Authority : FinishReused(a) \/ FinishMaintained(a)
  PROVE  Owing'
<1>1. ASSUME Idle, UNCHANGED ent, tr' = NoTransition, Redeem, due \in {"none", "proven"}
      PROVE  Owing'
  <2>1. due' = "none" /\ tr'.id = "none"
    BY <1>1 DEF Redeem, NoTransition
  <2> QED BY <1>1, <2>1, LostOwing
<1>2. CASE FinishFailed
  <2>1. CASE Go("fallback")
    BY <1>2, <2>1, GoOwing DEF FinishFailed
  <2>2. CASE Idle /\ OweAgain /\ UNCHANGED ent /\ pc = "finish"
             /\ tr' = IF tr.phase = "none" THEN tr ELSE NewTransition
    <3>1. CASE tr.phase = "none"
      BY <2>2, <3>1, UntouchedOwing DEF Owing, Claims, OweAgain
    <3>2. CASE tr.phase # "none"
      BY <2>2, <3>2, OweAgainOwes, LostOwing DEF NewTransition, NoTransition
    <3> QED BY <3>1, <3>2
  <2> QED BY <1>2, <2>1, <2>2 DEF FinishFailed
<1>3. CASE FinishPlain
  <2>1. pc = "finish" /\ proof = "none" /\ Idle /\ UNCHANGED ent
    BY <1>3 DEF FinishPlain
  <2>2. CASE d.mode = Msc /\ MscExact
    <3>1. tr' = NoTransition /\ Redeem
      BY <1>3, <2>2 DEF FinishPlain
    <3>2. tr.phase = "none" \/ tr.id = "current"
      BY <2>1, <2>2 DEF Owing, Proceeding, Proceeded
    <3>3. due \in {"none", "proven"}
      BY <2>1, <2>2, <3>2 DEF Owing, Proceeding, Proceeded, Claims
    <3> QED BY <1>1, <2>1, <3>1, <3>3
  <2>3. CASE ~(d.mode = Msc /\ MscExact)
    BY <1>3, <2>1, <2>3, UntouchedOwing DEF FinishPlain
  <2> QED BY <2>2, <2>3
<1>4. ASSUME NEW a \in Authority, FinishReused(a) PROVE Owing'
  <2>1. CASE ReusedCurrent /\ Idle /\ UNCHANGED ent /\ tr' = NoTransition /\ Redeem
             /\ pc = "finish" /\ proof = "reused"
    <3>1. due \in {"none", "proven"}
      BY <2>1 DEF ReusedCurrent, Owing, Proceeding, Proceeded, Borrowing, Opening, PvOnly
    <3> QED BY <1>1, <2>1, <3>1
  <2> QED BY <1>4, <2>1, PausedOwing, GoOwing DEF FinishReused, TypeInv
<1>5. ASSUME NEW a \in Authority, FinishMaintained(a) PROVE Owing'
  BY <1>5, PausedOwing, GoOwing, UntouchedOwing DEF FinishMaintained, TypeInv
<1> QED BY <1>2, <1>3, <1>4, <1>5

\* A command that leaves for the ceiling is that opening.
LEMMA OthersNeverOpen ==
  ASSUME TypeInv, Owing, Next, ~\E a \in Authority : Open(a)
  PROVE  OpensRedeemed
<1> DEFINE Quiet == ~Dispatches("export", Ceiling)
<1>1. ASSUME NEW p, Go(p), p # "await" PROVE Quiet
  BY <1>1 DEF Go, Dispatches
<1>2. ASSUME Idle \/ Paused \/ Unsuccessful PROVE Quiet
  BY <1>2 DEF Idle, Paused, Unsuccessful, Dispatches
<1>3. ASSUME NEW v \in {Closed, Target}, NEW next, SendExport(v, next) PROVE Quiet
  BY <1>3 DEF SendExport, Dispatches, Closed, Target, Ceiling
<1>4. ASSUME NEW m, NEW next, SendMode(m, next) PROVE Quiet
  BY <1>4 DEF SendMode, Dispatches
<1>5. ASSUME NEW t, HoldPlan(t) PROVE Quiet
  BY <1>5 DEF HoldPlan, Dispatches
<1>6. ASSUME pc' # "await" PROVE Quiet
  BY <1>6 DEF Dispatches
<1>7. CASE World \/ Cycle
  BY <1>2, <1>7
  DEF World, Tick, ReportMode, ReportExport, Obey, Drift, Reconnect, Configure, Cancel,
      Restart, Cycle, Read, Dispatches, OpensRedeemed
<1>8. CASE Application
  <2>1. ASSUME NEW policy \in Policies, Begin(policy) PROVE Quiet
    BY <2>1 DEF Begin, Dispatches
  <2>2. ASSUME NEW ok, NEW taken, Respond(ok, taken) PROVE Quiet
    BY <2>2 DEF Respond, Dispatches
  <2>3. ASSUME NEW a \in Authority, Enter(a) PROVE Quiet
    <3> HIDE DEF Quiet
    <3>1. CASE NotAutomated(a)
      BY <3>1, <1>2 DEF NotAutomated
    <3>2. CASE StartDischarge \/ Proceed
      BY <3>2, <1>6 DEF StartDischarge, DischargeEntry, Proceed
    <3>3. CASE HoldForProof
      BY <3>3, <1>5 DEF HoldForProof
    <3> QED BY <2>3, <3>1, <3>2, <3>3 DEF Enter
  <2>4. ASSUME NEW a \in Authority,
               HoldClose(a) \/ HoldMsc(a) \/ FallbackClose(a) \/ FallbackMsc(a)
        PROVE  Quiet
    <3> HIDE DEF Quiet
    <3> QED
      BY <2>4, <1>1, <1>3, <1>4 DEF HoldClose, HoldMsc, FallbackClose, FallbackMsc, Dispatch
  <2>5. ASSUME NEW a \in Authority, Reassert(a) \/ Close(a) \/ SetMode(a) PROVE Quiet
    <3> HIDE DEF Quiet
    <3> QED BY <2>5, <1>1, <1>3, <1>4 DEF Reassert, Close, SetMode, Dispatch
  <2>6. ASSUME NEW a \in Authority, Prepare(a) PROVE Quiet
    <3> HIDE DEF Quiet
    <3>1. d.export = Target
      BY <2>6 DEF Prepare, Owing, Binding, TypeInv, TypeOK, Decisions, Msc, Discharging, Charging
    <3> QED BY <2>6, <3>1, <1>1, <1>3 DEF Prepare, Dispatch
  <2>7. ASSUME NEW ok \in BOOLEAN,
               Probe(ok) \/ Live(ok) \/ SettleMsc(ok) \/ SettleClose(ok) \/ SettleTarget(ok)
        PROVE  Quiet
    <3> HIDE DEF Quiet
    <3>1. CASE HoldAgain
      BY <3>1, <1>5 DEF HoldAgain
    <3>2. CASE Probe(ok)
      BY <3>1, <3>2, <1>6 DEF Probe, TypeInv, TypeOK
    <3>3. CASE Live(ok)
      <4>1. HoldAgain \/ \E p \in {"export", "anchor", "rest"} : Go(p)
        BY <3>3 DEF Live
      <4> QED BY <3>1, <4>1, <1>1
    <3>4. CASE SettleMsc(ok) \/ SettleClose(ok)
      BY <3>4, <1>1, <1>2 DEF SettleMsc, SettleClose
    <3>5. CASE SettleTarget(ok)
      BY <3>5, <1>6 DEF SettleTarget, Go
    <3> QED BY <2>7, <3>2, <3>3, <3>4, <3>5
  <2>8. ASSUME NEW a \in Authority,
               \/ Fallback(a) \/ Maintain(a) \/ FinishReused(a) \/ FinishMaintained(a)
               \/ \E ok \in BOOLEAN : HoldRest(a, ok)
               \/ \E outcome \in {"done", "collected", "failed"} : Rest(a, outcome)
        PROVE  Quiet
    <3> HIDE DEF Quiet
    <3> QED
      BY <2>8, <1>1, <1>2, <1>6
      DEF Fallback, Maintain, FinishReused, FinishMaintained, HoldRest, Rest
  <2>9. ASSUME FallbackRest \/ FinishFailed \/ FinishPlain PROVE Quiet
    <3> HIDE DEF Quiet
    <3> QED BY <2>9, <1>1, <1>2 DEF FallbackRest, FinishFailed, FinishPlain
  <2> QED
    BY <1>8, <2>1, <2>2, <2>3, <2>4, <2>5, <2>6, <2>7, <2>8, <2>9
    DEF Application, OpensRedeemed
<1> QED BY <1>7, <1>8 DEF Next

LEMMA NextOwing ==
  ASSUME Undiverted
  PROVE  TypeInv /\ TypeInv' /\ Carried /\ Borrowing /\ Owing /\ [Next]_vars
           => Owing' /\ [OpensRedeemed]_vars
<1> SUFFICES ASSUME TypeInv, TypeInv', Carried, Borrowing, Owing, [Next]_vars
             PROVE  Owing' /\ [OpensRedeemed]_vars
  OBVIOUS
<1>1. ASSUME World PROVE Owing'
  BY <1>1, WorldOwing DEF TypeInv
<1>2. ASSUME Application PROVE Owing'
  <2>1. CASE \/ \E policy \in Policies : Begin(policy)
             \/ \E ok, taken \in BOOLEAN : Respond(ok, taken)
             \/ FallbackRest \/ FinishFailed \/ FinishPlain
    BY <2>1, BeginOwing, RespondOwing, RestOwing, FinishOwing DEF Authority, TypeInv
  <2>2. CASE \E ok \in BOOLEAN :
               Probe(ok) \/ Live(ok) \/ SettleMsc(ok) \/ SettleClose(ok) \/ SettleTarget(ok)
    BY <2>2, OpeningOwing, SettleOwing
  <2>3. ASSUME NEW a \in Authority,
               \/ Enter(a) \/ Fallback(a) \/ Maintain(a)
               \/ FinishReused(a) \/ FinishMaintained(a)
               \/ \E ok \in BOOLEAN : HoldRest(a, ok)
               \/ \E outcome \in {"done", "collected", "failed"} : Rest(a, outcome)
        PROVE  Owing'
    BY <2>3, EnterOwing, RestOwing, OpeningOwing, FinishOwing
  <2>4. ASSUME NEW a \in Authority,
               \/ HoldClose(a) \/ HoldMsc(a) \/ FallbackClose(a) \/ FallbackMsc(a)
               \/ Reassert(a) \/ Open(a) \/ Close(a) \/ Prepare(a) \/ SetMode(a)
        PROVE  Owing'
    BY <2>4, DispatchesOwing, OpenOwing
  <2> QED BY <1>2, <2>1, <2>2, <2>3, <2>4 DEF Application
<1>3. ASSUME Cycle PROVE Owing'
  BY <1>3, ReadOwing DEF TypeInv
<1>4. ASSUME UNCHANGED vars PROVE Owing'
  BY <1>4, KeptOwing DEF vars
<1>5. Next => OpensRedeemed
  BY OthersNeverOpen, OpenOwing
<1> QED BY <1>1, <1>2, <1>3, <1>4, <1>5 DEF Next

LEMMA InitOwing == Init => Carried /\ Borrowing /\ Owing
<1> SUFFICES ASSUME Init PROVE Carried /\ Borrowing /\ Owing
  OBVIOUS
<1>1. pc = "idle" /\ proof = "none" /\ due = "none" /\ d.mode = Msc /\ tr.id = "none"
  BY DEF Init, NoDecision, NoTransition
<1>2. Borrowing
  BY <1>1 DEF Borrowing, Opening, Sending
<1>3. Owing
  BY <1>1 DEF Owing, Claims, Shown, Entering, Binding, Proceeding, Proceeded, Sending,
              Msc, Charging, Discharging
<1> QED BY <1>2, <1>3, InitApart

\* The ceiling is opened only when what the last discharge, fallback or retired
\* proof owes has been requested and reported, step by step: whatever calls are
\* rejected, ignored or late and whatever interrupts them, as long as control is
\* not taken away during a fallback, no charge is decided under a handshake, and
\* no closed completion follows a reconnect.
THEOREM OpensOnlyRedeemed == ASSUME Undiverted PROVE Spec => OpeningRedeems
<1>1. TypeInv /\ TypeInv' /\ Carried /\ Borrowing /\ Owing /\ [Next]_vars
        => Owing' /\ [OpensRedeemed]_vars
  BY NextOwing
<1>2. [OpensRedeemed]_vars => [Dispatches("export", Ceiling) => due \in {"none", "proven"}]_vars
  BY DEF OpensRedeemed
<1> QED
  BY <1>1, <1>2, InitTyped, InitOwing, NextTyped, NextCarried, NextBorrowing,
     PTL DEF Spec, OpeningRedeems

=============================================================================
