------------------------------ MODULE MscExport ------------------------------
(***************************************************************************)
(* How SigEnergyOptimizer applies one decision to the inverter: the        *)
(* MSC/export barrier of `_apply_with_msc_proof` with its restrictive hold,*)
(* its safe fallback and its maintenance shortcut.  The optimizer may open *)
(* the PV-only export ceiling only under an independently reported Maximum *)
(* Self Consumption mode (MSC), and must never let a discharge mode overlap*)
(* that ceiling.  Home Assistant (HA) answers a service call before the    *)
(* inverter obeys, and may never obey, so only reports strictly later than *)
(* a request prove anything.                                               *)
(*                                                                         *)
(* One step is the code between two awaits.  The control lock admits one   *)
(* application at a time; reports, time, reconnects and cancellation       *)
(* interleave with it.  Timestamps are represented by ages: 0 is now, Tick *)
(* makes every age grow, and an age saturates at Stale, one beyond the     *)
(* freshness horizon, where every comparison the code makes has the same   *)
(* outcome.                                                                *)
(***************************************************************************)
EXTENDS Naturals

CONSTANTS
  Policies,    \* the decisions `_decide` may return: [mode, export]
  MaxAge,      \* hvac_solar_data_max_age_seconds, in ticks
  ReportEvery, \* the longest time between two reports of a healthy entity
  Adversity,   \* which kinds of misbehaviour the environment may show
  FaultLimit   \* how many of them, unless "unlimited" is among Adversity

Msc         == "msc"
Discharging == "discharge"
Charging    == "charge"
Modes       == {Msc, Discharging, Charging}
Unreadable  == "unreadable"

\* Export limits: 0.01 kW, the deliberate battery-export target, and the high
\* PV-only ceiling.
Closed  == "closed"
Target  == "target"
Ceiling == "ceiling"
Limits  == {Closed, Target, Ceiling}

Faults == {"reject", "ignore", "lag", "unreadable", "silence", "slow",
           "authority", "remote", "operator", "reconnect", "configure", "cancel",
           "restart", "drift", "unlimited"}

\* A PV-only permission always asks for the ceiling, a deliberate battery export
\* for its target; everything else keeps the grid closed.
Decisions == {[mode |-> Msc, export |-> Closed], [mode |-> Msc, export |-> Ceiling],
              [mode |-> Discharging, export |-> Target],
              [mode |-> Charging, export |-> Closed]}

ASSUME MscExportAssumption ==
  /\ Policies \subseteq Decisions
  /\ MaxAge \in Nat \ {0} /\ ReportEvery \in 1..MaxAge
  /\ Adversity \subseteq Faults
  /\ FaultLimit \in Nat

VARIABLES
  plant,     \* external: what the inverter really does
  want,      \* external: what it was last told and will do
  ent,       \* external: the HA entities, each value with its report age
  tr,        \* _msc_transition
  baseline,  \* _msc_baseline_established
  request,   \* _number_settlement_requests[grid_export_limit]
  epoch,     \* _msc_maintenance_epoch
  pc,        \* where the running application awaits
  d,         \* its decision
  s,         \* its SolarState snapshot
  reader,    \* application_identity, as "current" or "retired"
  modeAt,    \* last_mode_requested_at
  proof,     \* which proof carries it: none, reused epoch or maintenance
  soft,      \* application_failures is not empty
  revoked,   \* authority_revoked
  flight,    \* the service call it awaits
  due,       \* history: what is still owed since the last discharge command
  sent,      \* history: the last EMS mode commanded
  faults     \* faults so far

env   == <<plant, want, ent>>
barrier == <<tr, baseline, request, epoch>>
app   == <<pc, d, s, reader, modeAt, proof, soft, revoked, flight>>
ghost == <<due, sent>>
vars  == <<env, barrier, app, ghost, faults>>

-----------------------------------------------------------------------------
(* Ages                                                                    *)

Stale == MaxAge + 1        \* older than the freshness horizon
Never == MaxAge + 2        \* the Python None of an optional timestamp
Older(a) == IF a < Stale THEN a + 1 ELSE a

\* Mutant: a report of the moment of the request counts.
CurrentOrEqual(report, after) == report <= MaxAge /\ report <= after

\* A fresh report strictly later than a request boundary (None bounds nothing).
Current(report, after) == report <= MaxAge /\ report < after

-----------------------------------------------------------------------------
(* Records                                                                 *)

NoTransition ==
  [phase |-> "none", closeAt |-> Never, mscAt |-> Never, closeSame |-> FALSE,
   mscSame |-> FALSE, id |-> "none", closeAck |-> FALSE, mscAck |-> FALSE]
NewTransition  == [NoTransition EXCEPT !.phase = "close"]
\* _MscTransition(close_request_state=s): this snapshot may not prove closure.
NewTransitionS == [NewTransition EXCEPT !.closeSame = TRUE]
\* Mutant: the barrier is given a phase that the handshake does not know.
LostProof(t) ==
  IF t.phase = "none" THEN t ELSE [t EXCEPT !.phase = "retired", !.closeAck = FALSE, !.mscAck = FALSE]
RetiredProof(t) ==
  IF t.phase = "none" THEN t
  ELSE [t EXCEPT !.id = "retired", !.closeAck = FALSE, !.mscAck = FALSE]

NoRequest  == [value |-> Closed, at |-> Never, ours |-> FALSE]
NoEpoch    == [mscAt |-> Never, exportAt |-> Never]
NoSnapshot == [mode |-> Unreadable, modeAge |-> Stale, export |-> Closed,
               exportAge |-> Stale, exportOk |-> FALSE, id |-> "retired"]
NoDecision == [mode |-> Msc, export |-> Closed]
NoFlight   == [what |-> "none", value |-> Closed, binds |-> FALSE, next |-> "idle"]

\* requires_verified_msc_before_export
PvOnly(x) == x.mode = Msc /\ x.export # Closed

-----------------------------------------------------------------------------
(* What a snapshot proves                                                  *)

ReaderCurrent == s.id = "current" /\ reader = "current"

\* Mutant: any fresh closed report.
ExportClosedEver(t) == s.exportOk /\ s.export = Closed /\ ~t.closeSame

\* _msc_export_closed, _msc_exact_observed and _msc_transition_observed, for
\* the transition t.
ExportClosed(t) ==
  /\ s.exportOk /\ s.export = Closed
  /\ ~t.closeSame
  /\ Current(s.exportAge, t.closeAt)

MscExact == s.mode = Msc /\ Current(s.modeAge, Never)

TransitionObserved(t) ==
  /\ t.phase = "msc"
  /\ t.id = "current" /\ ReaderCurrent /\ t.mscAck
  /\ t.closeAt = Never \/ (t.closeAck /\ request.ours)
  /\ ~t.mscSame
  /\ ExportClosed(t) /\ MscExact
  /\ Current(s.modeAge, t.mscAt)

\* _reused_msc_epoch_current.  The boundaries it compares are those of the
\* adopted transition; only a later export request of its own may replace ours.
ReusedCurrent ==
  /\ tr.phase = "msc" /\ tr.id = "current" /\ ReaderCurrent /\ tr.mscAck
  /\ tr.closeAt = Never \/ (tr.closeAck /\ (request.ours \/ request.value = Ceiling))

\* The joint reads: what HA shows now.
LiveMsc(after)           == ent.mode = Msc /\ Current(ent.modeAge, after)
LiveExport(value, after) == ent.export = value /\ Current(ent.exportAge, after)

\* _maintenance_evidence_current (the candidate was adopted for this value).
MaintenanceCurrent ==
  /\ epoch # NoEpoch /\ tr.phase = "none" /\ baseline
  /\ ReaderCurrent
  /\ request.value = Ceiling /\ request.at = epoch.exportAt
  /\ LiveMsc(epoch.mscAt) /\ LiveExport(Ceiling, epoch.exportAt)

\* Automatic control is withheld: the ceiling cannot be raised on an unread
\* limit, so the request becomes a close and the application a failure.
Withheld  == PvOnly(d) /\ ~s.exportOk
ExportVal == IF Withheld THEN Closed ELSE d.export
ExportWriteRequired ==
  IF s.exportOk THEN s.export # ExportVal
                ELSE ExportVal = Closed \/ d.mode = Discharging

-----------------------------------------------------------------------------
(* Faults                                                                  *)

Fault(kind) ==
  /\ kind \in Adversity
  /\ IF "unlimited" \in Adversity
       THEN UNCHANGED faults
       ELSE faults < FaultLimit /\ faults' = faults + 1
NoFault == UNCHANGED faults

\* A control-authority read.  Unreadable ownership keeps already-owned safety
\* restrictions going; an operator or Remote EMS OFF stops every write.
Authority == {"automated", "unreadable", "operator", "remote_off"}
Reads(a) == CASE a = "automated"  -> NoFault
              [] a = "unreadable" -> Fault("authority")
              [] a = "operator"   -> Fault("operator")
              [] a = "remote_off" -> Fault("remote")
Permits(a, restrictive) ==
  \/ a = "automated" /\ ~revoked
  \/ a \in {"automated", "unreadable"} /\ restrictive
Revoking(a) == revoked' = (revoked \/ a # "automated")

-----------------------------------------------------------------------------
(* Ends of an application                                                  *)

Idle ==
  /\ pc' = "idle" /\ d' = NoDecision /\ s' = NoSnapshot /\ reader' = "retired"
  /\ modeAt' = Never /\ proof' = "none" /\ soft' = FALSE /\ revoked' = FALSE
  /\ flight' = NoFlight

\* A discharge owes the whole handshake again once its proof is dropped.
OweAgain == due' = IF due = "none" THEN "none" ELSE "close"

\* _authority_paused: ownership or Remote EMS ON cannot be verified.
Paused ==
  /\ tr' = RetiredProof(tr) /\ baseline' = FALSE /\ epoch' = NoEpoch
  /\ OweAgain /\ Idle
  /\ UNCHANGED <<env, request, sent>>

\* An unsuccessful result: `_apply` retires the maintenance candidate.
Unsuccessful ==
  /\ epoch' = NoEpoch /\ Idle
  /\ UNCHANGED <<env, tr, baseline, request, ghost>>

-----------------------------------------------------------------------------
(* Service calls                                                           *)

\* _automatic_number on the export limit, up to the awaited call.
SendExport(v, next) ==
  LET closing == v = Closed /\ tr.phase # "none"
      id == IF ReaderCurrent THEN "current" ELSE "none"
  IN /\ request' = [value |-> v, at |-> 0, ours |-> closing]
     /\ tr' = IF closing
                THEN [tr EXCEPT !.closeAt = 0, !.closeSame = TRUE,
                                !.closeAck = FALSE, !.id = id]
                ELSE tr
     /\ flight' = [what |-> "export", value |-> v,
                   binds |-> closing /\ id # "none", next |-> next]
     /\ pc' = "await"
     /\ due' = IF due = "close" /\ v = Closed THEN "closing" ELSE due
     /\ UNCHANGED <<env, baseline, epoch, d, s, reader, modeAt, proof, soft, sent>>

\* _automatic_mode, up to the awaited call.
SendMode(m, next) ==
  LET binds == m = Msc /\ tr.phase # "none"
      id == IF ReaderCurrent THEN "current" ELSE "none"
  IN /\ epoch' = NoEpoch
     /\ modeAt' = 0
     /\ tr' = IF binds
                THEN [tr EXCEPT !.mscAt = 0, !.mscSame = TRUE,
                                !.mscAck = FALSE, !.id = id]
                ELSE tr
     /\ flight' = [what |-> "mode", value |-> m,
                   binds |-> binds /\ id # "none", next |-> next]
     /\ pc' = "await"
     /\ sent' = m
     /\ due' = IF m = Discharging THEN "close"
               ELSE IF due = "closed" /\ m = Msc THEN "msc" ELSE due
     /\ UNCHANGED <<env, baseline, request, d, s, reader, proof, soft>>

\* The inverter takes a command at once, or later when it may lag.
Command(what, value) ==
  /\ want' = [want EXCEPT ![what] = value]
  /\ plant' = IF "lag" \in Adversity THEN plant ELSE [plant EXCEPT ![what] = value]

\* The awaited call returns.  HA may have lost an accepted call, or passed on
\* one that it reports as failed.  A correlated call whose reader identity was
\* retired meanwhile counts as failed.
Fallbacks == {"fb_msc", "fb_rest"}
Respond(ok, taken) ==
  /\ pc = "await"
  /\ IF ok /\ taken THEN NoFault ELSE IF ok THEN Fault("ignore") ELSE Fault("reject")
  /\ IF taken THEN Command(flight.what, flight.value) ELSE UNCHANGED <<plant, want>>
  /\ LET acked == flight.binds /\ ReaderCurrent
         good  == ok /\ (flight.binds => ReaderCurrent)
     IN /\ tr' = CASE acked /\ flight.what = "export" -> [tr EXCEPT !.closeAck = ok]
                   [] acked /\ flight.what = "mode"   -> [tr EXCEPT !.mscAck = ok]
                   [] OTHER                           -> tr
        /\ pc' = IF good \/ flight.next \in Fallbacks THEN flight.next ELSE "fallback"
  /\ flight' = NoFlight
  /\ UNCHANGED <<ent, baseline, request, epoch, d, s, reader, modeAt, proof,
                 soft, revoked, ghost>>

-----------------------------------------------------------------------------
(* The inverter, Home Assistant and time                                   *)

Init ==
  /\ plant \in {p \in [mode : Modes, export : Limits] :
                  ~(p.mode = Discharging /\ p.export = Ceiling)}
  /\ want = plant
  /\ ent = [mode |-> plant.mode, modeAge |-> 0, export |-> plant.export, exportAge |-> 0]
  /\ tr = NoTransition /\ baseline = FALSE /\ request = NoRequest /\ epoch = NoEpoch
  /\ pc = "idle" /\ d = NoDecision /\ s = NoSnapshot /\ reader = "retired"
  /\ modeAt = Never /\ proof = "none" /\ soft = FALSE /\ revoked = FALSE
  /\ flight = NoFlight
  /\ due = "none" /\ sent = plant.mode /\ faults = 0

\* A unit of time.  Without "silence" every entity keeps reporting; without
\* "slow" an application outlives its snapshot by little.  The inverter lags by
\* less than a unit.
Tick ==
  /\ plant = want
  /\ "silence" \in Adversity \/ (ent.modeAge < ReportEvery /\ ent.exportAge < ReportEvery)
  /\ pc # "idle" => "slow" \in Adversity \/ (s.modeAge <= ReportEvery /\ s.exportAge <= ReportEvery)
  /\ ent' = [ent EXCEPT !.modeAge = Older(@), !.exportAge = Older(@)]
  /\ tr' = [tr EXCEPT !.closeAt = Older(@), !.mscAt = Older(@)]
  /\ request' = [request EXCEPT !.at = Older(@)]
  /\ epoch' = [epoch EXCEPT !.mscAt = Older(@), !.exportAt = Older(@)]
  /\ s' = IF s = NoSnapshot THEN s
          ELSE [s EXCEPT !.modeAge = Older(@), !.exportAge = Older(@)]
  /\ modeAt' = Older(modeAt)
  /\ UNCHANGED <<plant, want, baseline, pc, d, reader, proof, soft, revoked,
                 flight, ghost, faults>>

\* HA publishes what the inverter shows now.
ReportMode ==
  /\ ent' = [ent EXCEPT !.mode = plant.mode, !.modeAge = 0]
  /\ due' = IF due = "msc" /\ plant.mode = Msc THEN "proven" ELSE due
  /\ UNCHANGED <<plant, want, barrier, app, sent, faults>>

ReportExport ==
  /\ ent' = [ent EXCEPT !.export = plant.export, !.exportAge = 0]
  /\ due' = IF due = "closing" /\ plant.export = Closed THEN "closed" ELSE due
  /\ UNCHANGED <<plant, want, barrier, app, sent, faults>>

\* A lagging inverter carries a command out.
Obey ==
  /\ plant # want
  /\ \/ plant' = [plant EXCEPT !.mode = want.mode]
     \/ plant' = [plant EXCEPT !.export = want.export]
  /\ UNCHANGED <<want, ent, barrier, app, ghost, faults>>

\* Another writer changes the EMS mode or the export limit.
Drift ==
  /\ Fault("drift")
  /\ \/ \E m \in Modes  : plant' = [plant EXCEPT !.mode = m]
     \/ \E v \in Limits : plant' = [plant EXCEPT !.export = v]
  /\ want' = plant'
  /\ UNCHANGED <<ent, barrier, app, ghost>>

-----------------------------------------------------------------------------
(* Interruptions                                                           *)

\* on_ws_connect, on_ws_disconnect: a new reader identity.  Before `_apply`
\* captures its identity only the snapshot is left behind, later the reader.
Reconnect ==
  /\ Fault("reconnect")
  /\ tr' = [tr EXCEPT !.id = IF @ = "current" THEN "retired" ELSE @]
  /\ epoch' = NoEpoch
  /\ IF pc = "ready" THEN s' = [s EXCEPT !.id = "retired"] /\ UNCHANGED reader
                     ELSE reader' = "retired" /\ UNCHANGED s
  /\ OweAgain
  /\ UNCHANGED <<env, baseline, request, pc, d, modeAt, proof, soft, revoked,
                 flight, sent>>

\* _invalidate_configuration_evidence, under the control lock.
Configure ==
  /\ Fault("configure")
  /\ pc = "idle"
  /\ request' = NoRequest /\ baseline' = FALSE /\ epoch' = NoEpoch
  /\ tr' = IF tr.phase = "none" THEN tr ELSE NewTransition
  /\ OweAgain
  /\ UNCHANGED <<env, app, sent>>

\* The tick is cancelled or `_apply` raises, whether or not the call it was
\* waiting for has been taken.
Cancel(taken) ==
  /\ Fault("cancel")
  /\ pc # "idle"
  /\ taken => pc = "await"
  /\ IF taken THEN Command(flight.what, flight.value) ELSE UNCHANGED <<plant, want>>
  /\ IF pc = "ready" THEN UNCHANGED <<tr, due>>
                     ELSE tr' = RetiredProof(tr) /\ OweAgain
  /\ epoch' = NoEpoch
  /\ Idle
  /\ UNCHANGED <<ent, baseline, request, sent>>

\* The process restarts: nothing of this state is persisted.
Restart(taken) ==
  /\ Fault("restart")
  /\ taken => pc = "await"
  /\ IF taken THEN Command(flight.what, flight.value) ELSE UNCHANGED <<plant, want>>
  /\ tr' = NoTransition /\ baseline' = FALSE /\ request' = NoRequest /\ epoch' = NoEpoch
  /\ due' = "none"
  /\ Idle
  /\ UNCHANGED <<ent, sent>>

-----------------------------------------------------------------------------
(* One application: from the snapshot to the first branch                  *)

Go(p) ==
  /\ pc' = p
  /\ UNCHANGED <<env, barrier, d, s, reader, modeAt, proof, soft, flight, ghost>>

\* `_read_state`.  A snapshot is a new object: it answers no request yet.
Read(modeOk, exportOk) ==
  /\ pc = "idle"
  /\ IF modeOk /\ exportOk THEN NoFault ELSE Fault("unreadable")
  /\ s' = [mode |-> IF modeOk THEN ent.mode ELSE Unreadable,
           modeAge |-> IF modeOk THEN ent.modeAge ELSE Stale,
           export |-> IF exportOk THEN ent.export ELSE Closed,
           exportAge |-> IF exportOk THEN ent.exportAge ELSE Stale,
           exportOk |-> exportOk /\ ent.exportAge <= MaxAge, id |-> "current"]
  /\ tr' = [tr EXCEPT !.closeSame = FALSE, !.mscSame = FALSE]
  /\ reader' = "current" /\ pc' = "ready"
  /\ UNCHANGED <<env, baseline, request, epoch, d, modeAt, proof, soft, revoked,
                 flight, ghost>>

\* `_decide` closes the grid while the barrier is unproven.
Pending(policy) == policy.mode = Msc /\ tr.phase # "none" /\ ~TransitionObserved(tr)
Desired(policy) == IF Pending(policy) THEN [policy EXCEPT !.export = Closed] ELSE policy

\* `_apply` captures the reader identity and drops a proof of another identity.
Begin(policy) ==
  /\ pc = "ready"
  /\ d' = Desired(policy)
  /\ IF tr.phase # "none" /\
        IF tr.id = "none" THEN ReaderCurrent
        ELSE ~ReaderCurrent \/ tr.id # "current" \/ (tr.closeAck /\ ~request.ours)
       THEN tr' = NewTransitionS /\ OweAgain
       ELSE UNCHANGED <<tr, due>>
  /\ pc' = "enter"
  /\ UNCHANGED <<env, baseline, request, epoch, s, reader, modeAt, proof, soft,
                 revoked, flight, sent, faults>>

\* Mutant: the readback alone decides (as before PR #63).
CloseOwedByReadback(t) == ~ExportClosed(t)

\* A close is owed until it is reported, and again when its own request was
\* never accepted.
CloseOwed(t) == ~ExportClosed(t) \/ (t.id # "none" /\ t.closeAt # Never /\ ~t.closeAck)

\* _pending_request_recent: an omitted dispatch is bounded by the horizon.
RequestRecent(at) == at < MaxAge

\* _hold_msc_transition, up to its first await: which half of the handshake t
\* still owes, and whether its last accepted request may be kept.
HoldPlan(t) ==
  LET base      == IF t.phase = "close" THEN t ELSE NewTransition
      closing   == IF base.closeAt # Never THEN base
                   ELSE [base EXCEPT !.closeAt = 0, !.closeSame = TRUE]
      proving   == IF t.phase = "msc" THEN t
                   ELSE [t EXCEPT !.phase = "msc", !.mscAt = 0, !.mscSame = TRUE,
                                  !.mscAck = FALSE]
      retained  == t.id = "current" /\ ReaderCurrent
      reopened  == /\ s.exportOk /\ s.export # Closed
                   /\ t.closeAt # Never /\ Current(s.exportAge, t.closeAt)
      departed  == /\ s.mode \notin {Msc, Unreadable}
                   /\ t.mscAt # Never /\ Current(s.modeAge, t.mscAt)
      keepClose == /\ retained /\ closing.closeAck /\ request.ours
                   /\ RequestRecent(closing.closeAt) /\ ~reopened
      keepMsc   == /\ retained /\ proving.mscAck
                   /\ RequestRecent(proving.mscAt) /\ ~departed
  IN /\ tr' = IF CloseOwed(t) THEN closing ELSE proving
     /\ pc' = CASE CloseOwed(t) /\ ~keepClose -> "hold_close"
                [] ~CloseOwed(t) /\ ~keepMsc  -> "hold_msc"
                [] OTHER                   -> "hold_rest"
     /\ baseline' = FALSE /\ epoch' = NoEpoch
     /\ UNCHANGED <<env, request, d, s, reader, modeAt, flight, sent>>

\* The authority read that opens an application, and the branch it selects.
\* Operator ownership ends the automatic episode; with Remote EMS OFF nothing is
\* written at all (the baseline survives a pending turn-on request).
NotAutomated(a) ==
  \/ a = "unreadable" /\ Paused
  \/ /\ a = "operator"
     /\ tr' = NoTransition /\ baseline' = FALSE /\ epoch' = NoEpoch /\ due' = "none"
     /\ Idle /\ UNCHANGED <<env, request, sent>>
  \/ /\ a = "remote_off"
     /\ baseline' \in {baseline, FALSE} /\ epoch' = NoEpoch
     /\ Idle /\ UNCHANGED <<env, tr, request, ghost>>

DischargeEntry(place, keptBaseline) ==
  /\ d.mode = Discharging
  /\ tr' = NewTransition /\ baseline' = keptBaseline /\ epoch' = NoEpoch
  /\ pc' = IF s.exportOk /\ s.mode = Discharging /\ s.export = d.export
             THEN "rest" ELSE place
  /\ UNCHANGED <<env, request, d, s, reader, modeAt, proof, soft, flight, ghost>>

\* Mutants: the deliberate target is not written first; the baseline survives.
StartDischargeUnprepared      == DischargeEntry("ems", FALSE)
StartDischargeKeepingBaseline  == DischargeEntry("prepare", baseline)

\* Even an attempted discharge entry owes a later handshake, and its deliberate
\* target is written and observed first unless all of it is already in place.
StartDischarge == DischargeEntry("prepare", FALSE)

TransitionRequired ==
  \/ tr.phase # "none"
  \/ s.mode \in {Discharging, Unreadable}
  \/ PvOnly(d) /\ (~MscExact \/ (~baseline /\ ~ExportClosed(tr)))

MaintenanceCandidate ==
  /\ epoch # NoEpoch /\ ~ExportWriteRequired /\ PvOnly(d)
  /\ tr.phase = "none" /\ baseline
  /\ s.id = "current" /\ reader = "current"
  /\ s.export = Ceiling
  /\ MscExact /\ Current(s.modeAge, epoch.mscAt)
  /\ Current(s.exportAge, epoch.exportAt)

HoldForProof ==
  /\ d.mode = Msc /\ TransitionRequired /\ ~TransitionObserved(tr)
  /\ HoldPlan(IF tr.phase = "none" THEN NewTransition ELSE tr)
  /\ UNCHANGED <<proof, soft, due>>

Proceed ==
  /\ d.mode # Discharging
  /\ d.mode = Msc => ~TransitionRequired \/ TransitionObserved(tr)
  /\ proof' = IF MaintenanceCandidate THEN "maintenance"
              ELSE IF PvOnly(d) /\ tr.phase # "none" THEN "reused" ELSE "none"
  /\ epoch' = IF MaintenanceCandidate THEN epoch ELSE NoEpoch
  /\ soft' = Withheld
  /\ pc' = IF PvOnly(d) THEN "probe"
           ELSE IF s.mode # d.mode THEN "ems"
           ELSE IF ExportWriteRequired THEN "export" ELSE "rest"
  /\ UNCHANGED <<env, tr, baseline, request, d, s, reader, modeAt, flight, ghost>>

Enter(a) ==
  /\ pc = "enter" /\ Reads(a)
  /\ IF a # "automated" THEN NotAutomated(a)
     ELSE UNCHANGED revoked /\ (StartDischarge \/ HoldForProof \/ Proceed)

-----------------------------------------------------------------------------
(* The restrictive hold                                                    *)

\* A dispatch whose authority read must permit it; otherwise the next step is
\* `failed`.
Dispatch(a, restrictive, evidence, send, failed) ==
  /\ Reads(a) /\ Revoking(a)
  /\ IF Permits(a, restrictive) /\ evidence THEN send ELSE Go(failed)

HoldClose(a) == pc = "hold_close" /\ Dispatch(a, TRUE, TRUE, SendExport(Closed, "hold_rest"), "fallback")
HoldMsc(a)   == pc = "hold_msc"   /\ Dispatch(a, TRUE, TRUE, SendMode(Msc, "hold_rest"), "fallback")

\* Import close, ESS clamp and the other restrictions, then the pending result.
HoldRest(a, ok) ==
  /\ pc = "hold_rest"
  /\ IF ok THEN Reads(a) ELSE a = "automated" /\ Fault("reject")
  /\ IF ~ok \/ ~Permits(a, TRUE) THEN Revoking(a) /\ Go("fallback")
     ELSE IF revoked \/ a # "automated" \/ ~ReaderCurrent THEN Paused
     ELSE Unsuccessful

-----------------------------------------------------------------------------
(* The safe fallback                                                       *)

Fallback(a) ==
  /\ pc = "fallback" /\ Reads(a)
  /\ IF Permits(a, TRUE)
       THEN /\ Revoking(a)
            /\ tr' = NewTransition /\ baseline' = FALSE /\ epoch' = NoEpoch
            /\ due' = "close" /\ pc' = "fb_close"
            /\ UNCHANGED <<env, request, d, s, reader, modeAt, proof, soft, flight, sent>>
       ELSE Paused

FallbackClose(a) == pc = "fb_close" /\ Dispatch(a, TRUE, TRUE, SendExport(Closed, "fb_msc"), "fb_msc")
FallbackMsc(a)   == pc = "fb_msc"   /\ Dispatch(a, TRUE, TRUE, SendMode(Msc, "fb_rest"), "fb_rest")

\* Import and ESS restrictions or their recovery; whatever they give, the
\* application has failed.
FallbackRest ==
  /\ pc = "fb_rest"
  /\ Unsuccessful /\ NoFault

-----------------------------------------------------------------------------
(* Opening the PV-only ceiling                                             *)

\* Live evidence contradicts the decision: a new barrier that this snapshot
\* may not satisfy, and the hold.
HoldAgain ==
  /\ HoldPlan(NewTransitionS)
  /\ due' = "close"
  /\ UNCHANGED <<proof, soft, revoked>>

\* get_state_value(ems_mode_select), and the proof this opening rests on.
Probe(ok) ==
  /\ pc = "probe"
  /\ IF ok THEN NoFault ELSE Fault("unreadable")
  /\ IF ~ok \/ ent.mode # Msc THEN HoldAgain
     ELSE /\ UNCHANGED <<env, barrier, d, s, reader, proof, soft, revoked, flight, ghost>>
          /\ modeAt' = IF proof = "reused" THEN tr.mscAt ELSE modeAt
          /\ pc' = CASE proof = "maintenance"                 -> "maintain"
                     [] proof = "reused" /\ ReusedCurrent     -> "live"
                     [] proof = "reused" /\ ~ReusedCurrent    -> "fallback"
                     [] proof = "none"                        -> "reassert"

\* The joint authority, mode and export read of an unchanged open ceiling.
Maintain(a) ==
  /\ pc = "maintain" /\ Reads(a)
  /\ IF ~Permits(a, FALSE) THEN Paused
     ELSE /\ modeAt' = IF MaintenanceCurrent THEN epoch.mscAt ELSE modeAt
          /\ pc' = IF MaintenanceCurrent THEN "rest" ELSE "fallback"
          /\ UNCHANGED <<env, barrier, d, s, reader, proof, soft, revoked, flight, ghost>>

\* Reassert exact MSC and wait, for a bounded time, for a later report of it.
Reassert(a) == pc = "reassert" /\ Dispatch(a, FALSE, TRUE, SendMode(Msc, "settle_msc"), "fallback")
SettleMsc(seen) ==
  /\ pc = "settle_msc"
  /\ seen => LiveMsc(modeAt)
  /\ Go(IF seen THEN "live" ELSE "fallback")
  /\ UNCHANGED revoked /\ NoFault

\* _live_msc_export_ready
LiveReady ==
  /\ LiveMsc(tr.mscAt)
  /\ Current(ent.exportAge, tr.closeAt)
  /\ tr.phase # "none" => ent.export = Closed

\* The joint read after the settlement, then what is left to write: the limit,
\* a one-time anchor of an unchanged open ceiling, or nothing.
Live(ok) ==
  /\ pc = "live"
  /\ IF ok THEN NoFault ELSE Fault("unreadable")
  /\ IF ~ok \/ ~LiveReady THEN HoldAgain
     ELSE /\ Go(CASE ExportWriteRequired -> "export"
                  [] ~ExportWriteRequired /\ tr.phase = "none" /\ s.id = "current"
                       /\ request.value # Ceiling -> "anchor"
                  [] OTHER -> "rest")
          /\ UNCHANGED revoked

\* The evidence under which `_automatic_number` raises the limit.
OpenEvidence ==
  /\ proof = "reused" => ReusedCurrent
  /\ LiveMsc(modeAt)
  /\ tr.phase # "none" => LiveExport(Closed, tr.closeAt)

Open(a) ==
  /\ pc \in {"export", "anchor"} /\ ExportVal = Ceiling
  /\ Dispatch(a, FALSE,
       /\ OpenEvidence
       /\ pc = "anchor" => reader = "current" /\ LiveExport(Ceiling, Never),
       SendExport(Ceiling, "rest"), "fallback")

-----------------------------------------------------------------------------
(* The other writes                                                        *)

\* The ordinary close, then its bounded observation; unobserved it is a failure
\* without a fallback.
Close(a) ==
  /\ pc = "export" /\ ExportVal = Closed
  /\ Dispatch(a, TRUE, TRUE, SendExport(Closed, "settle_close"), "fallback")
SettleClose(seen) ==
  /\ pc = "settle_close" /\ NoFault
  /\ seen => LiveExport(Closed, request.at)
  /\ IF seen THEN Go("rest") /\ UNCHANGED revoked ELSE Unsuccessful

\* The deliberate target is written and observed before a discharge mode.
Prepare(a) ==
  /\ pc = "prepare"
  /\ Dispatch(a, FALSE, TRUE, SendExport(d.export, "settle_target"), "fallback")
SettleTarget(seen) ==
  /\ pc = "settle_target" /\ NoFault
  /\ seen => LiveExport(d.export, request.at)
  /\ Go(CASE ~seen -> "fallback" [] seen /\ s.mode # d.mode -> "ems" [] OTHER -> "rest")
  /\ UNCHANGED revoked

\* The EMS mode of any decision but a PV-only one.
DischargeEvidence == request.at # Never /\ LiveExport(request.value, request.at)
SetMode(a) ==
  /\ pc = "ems"
  /\ Dispatch(a, d.mode = Msc, d.mode = Discharging => DischargeEvidence,
       SendMode(d.mode, IF d.mode # Discharging /\ ExportWriteRequired
                          THEN "export" ELSE "rest"),
       "fallback")

\* Import, ESS and PV limits, of which some failures are only collected; every
\* permissive write needs authority and its joint evidence.
TargetEvidence ==
  d.mode = Discharging =>
    LiveExport(d.export, IF request.value = d.export THEN request.at ELSE Never)
Rest(a, outcome) ==
  /\ pc = "rest"
  /\ IF outcome = "done" THEN Reads(a) ELSE a = "automated" /\ Fault("reject")
  /\ \/ ~Permits(a, FALSE) /\ Paused
     \/ /\ \/ ~Permits(a, FALSE) \/ outcome = "failed"
           \/ proof = "maintenance" /\ ~MaintenanceCurrent
           \/ ~TargetEvidence
        /\ Revoking(a) /\ Go("fallback")
     \/ /\ Permits(a, FALSE) /\ outcome # "failed"
        /\ proof = "maintenance" => MaintenanceCurrent
        /\ TargetEvidence
        /\ pc' = "finish" /\ soft' = (soft \/ outcome = "collected")
        /\ UNCHANGED <<env, barrier, d, s, reader, modeAt, proof, revoked, flight, ghost>>

-----------------------------------------------------------------------------
(* Completion                                                              *)

\* Collected failures: the barrier starts over, a borrowed proof falls back.
FinishFailed ==
  /\ pc = "finish" /\ soft /\ NoFault
  /\ IF proof # "none" THEN Go("fallback") /\ UNCHANGED revoked
     ELSE /\ tr' = IF tr.phase = "none" THEN tr ELSE NewTransition
          /\ baseline' = FALSE /\ epoch' = NoEpoch
          /\ OweAgain /\ Idle
          /\ UNCHANGED <<env, request, sent>>

\* What a handshake has proven is no longer owed.
Redeem == due' = IF due = "proven" THEN "none" ELSE due

\* The commands of a completed opening become a maintenance candidate.
Candidate(consumed) ==
  IF PvOnly(d) /\ consumed /\ ReaderCurrent /\ modeAt # Never /\ request.value = ExportVal
    THEN [mscAt |-> modeAt, exportAt |-> request.at] ELSE NoEpoch

\* Without a borrowed proof: exact MSC in the snapshot consumes the barrier.
FinishPlain ==
  /\ pc = "finish" /\ ~soft /\ proof = "none" /\ NoFault
  /\ LET consumed == d.mode = Msc /\ MscExact
     IN /\ tr' = IF consumed THEN NoTransition ELSE tr
        /\ baseline' = (consumed \/ baseline)
        /\ IF consumed THEN Redeem ELSE UNCHANGED due
        /\ epoch' = Candidate(consumed \/ (tr.phase = "none" /\ baseline))
  /\ Idle
  /\ UNCHANGED <<env, request, sent>>

\* A reused handshake is consumed only if it is still the one that was proven.
FinishReused(a) ==
  /\ pc = "finish" /\ ~soft /\ proof = "reused" /\ Reads(a)
  /\ IF ~Permits(a, FALSE) THEN Paused
     ELSE IF ~ReusedCurrent THEN Go("fallback") /\ UNCHANGED revoked
     ELSE /\ tr' = NoTransition /\ baseline' = TRUE /\ Redeem
          /\ epoch' = Candidate(TRUE)
          /\ Idle
          /\ UNCHANGED <<env, request, sent>>

FinishMaintained(a) ==
  /\ pc = "finish" /\ ~soft /\ proof = "maintenance" /\ Reads(a)
  /\ IF ~Permits(a, FALSE) THEN Paused
     ELSE IF ~MaintenanceCurrent THEN Go("fallback") /\ UNCHANGED revoked
     ELSE Idle /\ UNCHANGED <<env, barrier, ghost>>

-----------------------------------------------------------------------------
(* Specification                                                           *)

World ==
  \/ Tick \/ ReportMode \/ ReportExport \/ Obey \/ Drift
  \/ Reconnect \/ Configure
  \/ \E taken \in BOOLEAN : Cancel(taken) \/ Restart(taken)

Application ==
  \/ \E policy \in Policies : Begin(policy)
  \/ \E ok, taken \in BOOLEAN : Respond(ok, taken)
  \/ \E a \in Authority :
       \/ Enter(a) \/ HoldClose(a) \/ HoldMsc(a)
       \/ Fallback(a) \/ FallbackClose(a) \/ FallbackMsc(a)
       \/ Maintain(a) \/ Reassert(a) \/ Open(a) \/ Close(a) \/ Prepare(a) \/ SetMode(a)
       \/ FinishReused(a) \/ FinishMaintained(a)
       \/ \E ok \in BOOLEAN : HoldRest(a, ok)
       \/ \E outcome \in {"done", "collected", "failed"} : Rest(a, outcome)
  \/ \E ok \in BOOLEAN :
       Probe(ok) \/ Live(ok) \/ SettleMsc(ok) \/ SettleClose(ok) \/ SettleTarget(ok)
  \/ FallbackRest \/ FinishFailed \/ FinishPlain

Cycle == \E modeOk, exportOk \in BOOLEAN : Read(modeOk, exportOk)

Next == World \/ Application \/ Cycle

Spec == Init /\ [][Next]_vars

\* The heartbeat keeps starting ticks, an application keeps running (its calls
\* and waits are bounded), the entities keep reporting, a lagging inverter obeys.
Fairness ==
  /\ WF_vars(Cycle) /\ WF_vars(Application)
  /\ WF_vars(Tick) /\ WF_vars(Obey)
  /\ WF_vars(ReportMode) /\ WF_vars(ReportExport)

FairSpec == Spec /\ Fairness

-----------------------------------------------------------------------------
(* Properties                                                              *)

Ages == 0..Never
Ids  == {"none", "current", "retired"}
Places ==
  {"idle", "ready", "enter", "await", "hold_close", "hold_msc", "hold_rest",
   "fallback", "fb_close", "fb_msc", "fb_rest", "probe", "maintain", "reassert",
   "settle_msc", "live", "export", "anchor", "settle_close", "prepare",
   "settle_target", "ems", "rest", "finish"}
Dues == {"none", "close", "closing", "closed", "msc", "proven"}

Plants   == [mode : Modes, export : Limits]
Entities == [mode : Modes, modeAge : Ages, export : Limits, exportAge : Ages]
Transitions ==
  [phase : {"none", "close", "msc"}, closeAt : Ages, mscAt : Ages,
   closeSame : BOOLEAN, mscSame : BOOLEAN, id : Ids,
   closeAck : BOOLEAN, mscAck : BOOLEAN]
Requests  == [value : Limits, at : Ages, ours : BOOLEAN]
Epochs    == [mscAt : Ages, exportAt : Ages]
Snapshots == [mode : Modes \cup {Unreadable}, modeAge : Ages, export : Limits,
              exportAge : Ages, exportOk : BOOLEAN, id : Ids]
Flights   == [what : {"none", "mode", "export"}, value : Modes \cup Limits,
              binds : BOOLEAN, next : Places]

\* Every field of the barrier, of an application and of the inverter keeps its
\* shape through all of the dispatch, settlement and fallback paths.
TypeOK ==
  /\ plant \in Plants /\ want \in Plants /\ ent \in Entities
  /\ tr \in Transitions /\ baseline \in BOOLEAN
  /\ request \in Requests /\ epoch \in Epochs
  /\ pc \in Places /\ d \in Decisions /\ s \in Snapshots /\ reader \in Ids
  /\ modeAt \in Ages
  /\ proof \in {"none", "reused", "maintenance"}
  /\ soft \in BOOLEAN /\ revoked \in BOOLEAN /\ flight \in Flights
  /\ due \in Dues /\ sent \in Modes
  /\ faults \in 0..FaultLimit

Dispatches(what, value) ==
  pc # "await" /\ pc' = "await" /\ flight'.what = what /\ flight'.value = value

\* The purpose of the barrier: the inverter never discharges its battery under
\* the high PV-only ceiling, whatever was lost, delayed or cancelled (no other
\* writer interfering).
NoDischargeUnderCeiling == ~(plant.mode = Discharging /\ plant.export = Ceiling)

\* The ceiling is opened after a discharge command, a fallback or a retired
\* proof only when a close was requested and then reported, and after that MSC
\* was requested and then reported.
OpeningRedeems ==
  [][Dispatches("export", Ceiling) => due \in {"none", "proven"}]_vars

\* The discharge mode is never commanded after any other export request than
\* its own target, whichever application, fallback or restart made that request.
DischargeAfterTarget == [][Dispatches("mode", Discharging) => request.value = Target]_vars

\* While a handshake is pending nothing else grants a permission: no
\* baseline, no maintenance candidate.
BarrierExcludesPermission == tr.phase # "none" => ~baseline /\ epoch = NoEpoch

\* Whatever was decided before: once every decision is for surplus, the ceiling is
\* opened again and again (an unaccepted close is asked for again, PR #63).
SurplusWanted ==
  <>[][pc = "ready" /\ pc' # "ready"
         => d' = Desired([mode |-> Msc, export |-> Ceiling])]_vars
SurplusReopens ==
  SurplusWanted => []<>(plant = [mode |-> Msc, export |-> Ceiling])
=============================================================================
