--------------------------- MODULE Qualification ----------------------------
(***************************************************************************)
(* Permissions that only advancing telemetry can earn: the Solar re-entry  *)
(* guard (app/solar_reentry.py) of the aggregate budget and of the charge  *)
(* ceiling, the admission of the Evening Boost, and the hold that carries  *)
(* a Solar export ceiling over a dip (app/optimizer.py).  Each judges the  *)
(* times at which Home Assistant last reported PV and load against two     *)
(* clocks: the wall clock, which may be set back, and the monotonic one.   *)
(*                                                                         *)
(* A tick reads the reports and decides, applies its decision over several *)
(* awaits that ask again whether the proof is current, and only then       *)
(* commits it.  The policies do not read each other's proof; a behaviour   *)
(* follows one of them.  Whether a policy is the one the decision selects  *)
(* is arbitrary; what a report measures is not needed, except that a dip   *)
(* distinguishes a strong surplus.  The operator, ownership and feedback   *)
(* conditions under which reports count at all are "usable".  Proportions  *)
(* of the intervals are not the code's, their order is.                    *)
(***************************************************************************)
EXTENDS Integers

CONSTANTS
  MaxTime,       \* bound: both clocks stay below it
  SolarInterval, \* SOLAR_REENTRY_QUALIFICATION_SECONDS
  BoostInterval, \* _EVENING_BOOST_REENTRY_SECONDS
  MaxGap,        \* the longest gap between reports of either
  Hold,          \* _SOLAR_SURPLUS_DIP_HOLD_SECONDS
  Skew,          \* _DERIVED_POWER_FLOW_MAX_SKEW_SECONDS
  Policies,      \* the permissions to follow
  Adversity,     \* what may go wrong
  FaultLimit     \* and how often

Faults == {"clock", "report", "unusable", "context", "application", "reconnect"}

ASSUME QualificationAssumption ==
  /\ {MaxTime, SolarInterval, BoostInterval, MaxGap, Hold} \subseteq Nat \ {0}
  /\ Skew \in Nat /\ FaultLimit \in Nat
  /\ Policies \subseteq {"budget", "charge", "evening", "dip"}
  /\ Adversity \subseteq Faults

VARIABLES
  policy,        \* the permission this behaviour follows
  wall, mono,    \* external: the clocks
  reports,       \* external: when PV and load were last reported
  usable,        \* external: the conditions under which reports count
  context,       \* external: settings, day, capacity, provider epoch
  phase,         \* of the tick: idle, deciding or applied
  s,             \* the reports the tick read, usable or not
  plan,          \* its decision
  held,          \* the last completed decision had the permission
  commanded,     \* this application granted it
  guard,         \* SolarReentryGuard
  boost,         \* _EveningBoostReentry with its high water and last clock
  dip,           \* _solar_dip_*
  mark,          \* history: the clocks and reports at the last interruption
  strong,        \* history: the strong measurement that may still be relied on
  faults

world   == <<wall, mono, reports, usable, context>>
proofs  == <<guard, boost, dip>>
history == <<mark, strong>>
vars    == <<policy, world, phase, s, plan, held, commanded, proofs, history, faults>>

None == 0
Times == 1..MaxTime
Pair(n) == [pv |-> n, load |-> n]
NoPair == Pair(None)
Streams == {"pv", "load"}
Older(pair) == IF pair.pv < pair.load THEN pair.pv ELSE pair.load

Fault(kind) == kind \in Adversity /\ faults < FaultLimit /\ faults' = faults + 1
NoFault == UNCHANGED faults

Distance(x, y) == IF x > y THEN x - y ELSE y - x
FreshWithin(pair, age) == \A i \in Streams : pair[i] # None /\ wall - pair[i] \in 0..age

-----------------------------------------------------------------------------
(* SolarReentryGuard                                                       *)

NoGuard == [required |-> FALSE, phase |-> "idle", same |-> FALSE, reports |-> NoPair,
            first |-> NoPair, started |-> None, advanced |-> NoPair,
            clock |-> [wall |-> None, mono |-> None], identity |-> None, high |-> NoPair]

\* Mutant: a reset leaves the start of the interval behind.
ResetKeepingStart(g) ==
  [g EXCEPT !.phase = IF g.required THEN "closed" ELSE "idle", !.same = FALSE]

\* reset: the proof is retired, an unfulfilled latch is not.
Reset(g) ==
  [g EXCEPT !.phase = IF g.required THEN "closed" ELSE "idle", !.same = FALSE,
            !.reports = NoPair, !.first = NoPair, !.started = None, !.advanced = NoPair]

Armed(g) == Reset([g EXCEPT !.required = TRUE])

Started(g, pair) ==
  [g EXCEPT !.phase = "qualifying", !.reports = pair, !.first = pair, !.high = pair,
            !.started = mono, !.advanced = Pair(mono)]

\* Mutant: cached reports mature a proof as well as new ones.
MaturesByTime(g, before, pair) == mono - g.started >= SolarInterval

\* Both streams span the interval, and this evaluation saw a new report.
Matures(g, before, pair) ==
  /\ \E i \in Streams : pair[i] > before[i]
  /\ mono - g.started >= SolarInterval
  /\ \A i \in Streams : pair[i] - g.first[i] >= SolarInterval

\* Reports that follow the ones already counted, or that leave a gap.
Continued(g, pair) ==
  LET next == [g EXCEPT !.reports = pair, !.high = pair,
                 !.advanced = [i \in Streams |-> IF pair[i] > g.reports[i] THEN mono ELSE @[i]]]
  IN IF \E i \in Streams : \/ pair[i] - g.reports[i] > MaxGap
                           \/ mono - g.advanced[i] > MaxGap
       THEN Started(Reset(g), pair)
     ELSE IF g.phase = "qualified" \/ Matures(g, g.reports, pair)
       THEN [next EXCEPT !.phase = "qualified"]
     ELSE next

\* evaluate
Evaluated(g0, candidate, pair) ==
  LET g == [g0 EXCEPT !.clock = [wall |-> wall, mono |-> mono]]
      moved == [Reset(g) EXCEPT !.identity = context, !.high = NoPair]
      h == IF context = g.identity THEN g ELSE moved
  IN IF ~g0.required THEN g0
     ELSE IF wall < g0.clock.wall THEN [Reset(g) EXCEPT !.high = NoPair]
     ELSE IF ~candidate \/ ~FreshWithin(pair, MaxGap) THEN Reset(h)
     ELSE IF \E i \in Streams : pair[i] < h.high[i] THEN Reset(h)
     ELSE IF h.reports = NoPair THEN Started(h, pair)
     ELSE Continued(h, pair)

\* Mutant: a qualified generation stays current.
CurrentOnceQualified(g, pair) == g.required /\ g.phase = "qualified"

\* current, asked after every await of the application.
GuardCurrent(g, pair) ==
  /\ g.required /\ g.phase = "qualified" /\ g.same
  /\ context = g.identity /\ pair = g.reports
  /\ wall >= g.clock.wall /\ mono >= g.clock.mono
  /\ FreshWithin(pair, MaxGap)
  /\ \A i \in Streams : mono - g.advanced[i] \in 0..MaxGap

\* Mutant: the latch outlives its commit.
CommittedKeepingLatch(g) ==
  [g EXCEPT !.phase = "idle", !.reports = NoPair, !.first = NoPair,
            !.started = None, !.advanced = NoPair]

\* commit
Committed(g) ==
  [g EXCEPT !.required = FALSE, !.phase = "idle", !.reports = NoPair, !.first = NoPair,
            !.started = None, !.advanced = NoPair]

\* _solar_reentry_reports of a snapshot, at the time it is asked for
SolarReports(pair) ==
  IF usable /\ FreshWithin(pair, MaxGap) /\ Distance(pair.pv, pair.load) <= Skew
    THEN pair ELSE NoPair

-----------------------------------------------------------------------------
(* Evening Boost                                                           *)

NoBoost == [phase |-> "closed", same |-> FALSE, first |-> None, last |-> None,
            started |-> None, reported |-> None, evaluated |-> None, wall |-> None,
            context |-> None, high |-> None, clock |-> None]

BoostReset(b) == [NoBoost EXCEPT !.high = b.high, !.clock = b.clock]

\* _evening_boost_reentry_evidence
BoostReport(pair) ==
  IF usable /\ pair.load # None /\ wall - pair.load \in 0..MaxGap THEN pair.load ELSE None

\* Mutant: an admission outlives a gap in the reports.
NoBoostGap(b, stamp) == context = b.context

BoostContinuous(b, stamp) ==
  context = b.context /\ stamp - b.last <= MaxGap /\ mono - b.reported <= MaxGap

\* An open admission, or one that begins with this report.
BoostAdvanced(b, stamp, settled) ==
  LET advancing == stamp > b.last
      next == [b EXCEPT !.last = IF advancing THEN stamp ELSE @,
                        !.reported = IF advancing THEN mono ELSE @,
                        !.evaluated = mono, !.wall = wall]
      matures == /\ advancing /\ settled
                 /\ mono - b.started >= BoostInterval /\ stamp - b.first >= BoostInterval
  IN IF b.phase = "closed"
       THEN [b EXCEPT !.phase = "qualifying", !.first = stamp, !.last = stamp,
                      !.started = mono, !.reported = mono, !.evaluated = mono,
                      !.wall = wall, !.context = context]
     ELSE IF matures THEN [next EXCEPT !.phase = "admitted"]
     ELSE next

\* _evening_boost_reentry_allowed
BoostEvaluated(b0, candidate, stamp, settled) ==
  LET b == [b0 EXCEPT !.clock = wall]
      seen == [b EXCEPT !.high = stamp]
  IN IF wall < b0.clock THEN [BoostReset(b) EXCEPT !.high = None]
     ELSE IF ~candidate \/ stamp = None \/ stamp < b.high THEN BoostReset(b)
     ELSE BoostAdvanced(IF seen.phase = "closed" \/ BoostContinuous(seen, stamp)
                          THEN seen ELSE BoostReset(seen), stamp, settled)

\* _evening_boost_reentry_dispatch_current
BoostCurrent(b) ==
  /\ b.phase = "admitted" /\ b.same
  /\ BoostReport(s) # None /\ BoostReport(s) = b.last
  /\ context = b.context
  /\ wall >= b.wall /\ mono >= b.evaluated /\ mono - b.reported \in 0..MaxGap

-----------------------------------------------------------------------------
(* The hold over a dip                                                     *)

NoDip == [proof |-> NoPair, high |-> NoPair, clock |-> None]

\* _solar_dip_evidence
DipEvidence(pair) ==
  IF usable /\ FreshWithin(pair, Hold - 1) /\ Distance(pair.pv, pair.load) <= Skew
    THEN pair ELSE NoPair

DipWithinHold(proof) == proof # NoPair /\ wall < Older(proof) + Hold

\* The part of _decide that retires a proof before it could hold anything.
DipJudged(x, evidence) ==
  LET keeps == /\ DipWithinHold(x.proof) /\ evidence # NoPair
               /\ \A i \in Streams : evidence[i] >= x.proof[i]
               /\ wall >= x.clock
  IN [x EXCEPT !.clock = wall, !.proof = IF keeps THEN @ ELSE NoPair]

\* _solar_dip_dispatch_current
DipCurrent(x) ==
  DipWithinHold(x.proof) /\ Older(x.proof) <= wall /\ DipEvidence(s) # NoPair

\* Mutant: the same reports may prove a surplus again.
RenewedByAny(x, pair) == TRUE

\* Only reports newer than every pair that proved one before.
Renewed(x, pair) == x.high = NoPair \/ \A i \in Streams : pair[i] > x.high[i]

\* _commit_solar_dip_proof
DipCommitted(x) ==
  LET evidence == DipEvidence(s)
  IN IF ~plan.allowed \/ evidence = NoPair \/ plan.regressed THEN [x EXCEPT !.proof = NoPair]
     ELSE IF plan.kind = "strong" /\ Renewed(x, evidence)
       THEN [x EXCEPT !.proof = evidence, !.high = evidence]
     ELSE x

-----------------------------------------------------------------------------
(* The world                                                               *)

WorldOnly == UNCHANGED <<policy, phase, s, plan, held, commanded, guard, boost, strong>>

Advance ==
  /\ wall < MaxTime /\ mono < MaxTime
  /\ wall' = wall + 1 /\ mono' = mono + 1
  /\ UNCHANGED <<reports, usable, context, dip, mark>> /\ WorldOnly /\ NoFault

\* The wall clock is set back.
SetClock ==
  /\ wall > 1 /\ Fault("clock")
  /\ wall' = wall - 1
  /\ UNCHANGED <<mono, reports, usable, context, dip, mark>> /\ WorldOnly

\* A sensor reports, or comes back with the time of an older report.  What is
\* older than an interruption counts from its own time.
Report(i) ==
  /\ \/ reports[i] # wall /\ reports' = [reports EXCEPT ![i] = wall] /\ NoFault
     \/ reports[i] > 1 /\ reports' = [reports EXCEPT ![i] = @ - 1] /\ Fault("report")
  /\ mark' = IF reports'[i] < mark[i] THEN [mark EXCEPT ![i] = reports'[i]] ELSE mark
  /\ UNCHANGED <<wall, mono, usable, context, dip>> /\ WorldOnly

Conditions ==
  /\ \/ usable /\ usable' = FALSE /\ Fault("unusable")
     \/ ~usable /\ usable' = TRUE /\ NoFault
  /\ UNCHANGED <<wall, mono, reports, context, dip, mark>> /\ WorldOnly

\* Settings change under the lock of the tick, the provider's epoch at any time.
ChangeContext ==
  /\ Fault("context") /\ (phase = "idle" \/ policy = "charge")
  /\ context' = 3 - context
  /\ UNCHANGED <<wall, mono, reports, usable, dip, mark>> /\ WorldOnly

\* on_ws_connect and on_ws_disconnect
Reconnect ==
  /\ Fault("reconnect")
  /\ dip' = [dip EXCEPT !.proof = NoPair]
  /\ strong' = [strong EXCEPT !.at = None]
  /\ UNCHANGED <<world, policy, phase, s, plan, held, commanded, guard, boost, mark>>

-----------------------------------------------------------------------------
(* The tick                                                                *)

NoPlan == [kind |-> "none", allowed |-> FALSE, qualified |-> FALSE, regressed |-> FALSE,
           hold |-> FALSE]

\* What the decision makes of the policy: "wanted" it is the one selected,
\* "outbid" another owner is, "failed" its budget does not carry it, "lost" for
\* any other reason; "morning" is the relieved owner that hands the charge over.
Kinds == [budget |-> {"wanted", "outbid", "failed", "lost"},
          charge |-> {"wanted", "morning", "lost"},
          evening |-> {"wanted", "lost"},
          dip |-> {"strong", "steady", "weak", "lost"}]

Marked == [mono |-> mono, pv |-> reports.pv, load |-> reports.load,
           wall |-> wall, context |-> context]

NoMark == [mono |-> None, pv |-> None, load |-> None, wall |-> None, context |-> None]

\* The history starts again where something interrupted a qualification.
Interrupted == mark' = IF policy = "evening" \/ guard'.required THEN Marked ELSE NoMark

\* Did anything about this tick?
Follow(kind, counted) ==
  IF kind = "wanted" /\ counted /\ context = mark.context /\ wall - mark.wall \in 0..MaxGap
    THEN mark' = [mark EXCEPT !.wall = wall]
    ELSE Interrupted

BudgetTick(kind) ==
  LET armed == IF kind = "failed" /\ held THEN Armed(guard) ELSE guard
      judged == Evaluated(armed, kind \in {"wanted", "outbid"}, SolarReports(reports))
  IN IF judged.required /\ kind # "wanted" THEN Reset(judged) ELSE judged

ChargeTick(kind) ==
  IF kind = "wanted" THEN Evaluated(guard, TRUE, SolarReports(reports))
  ELSE IF guard.required THEN Reset(guard) ELSE guard

DecideSolar(kind) ==
  LET g == IF policy = "budget" THEN BudgetTick(kind) ELSE ChargeTick(kind)
      allowed == kind = "wanted" /\ (~g.required \/ g.phase = "qualified")
  IN /\ guard' = [g EXCEPT !.same = TRUE]
     /\ plan' = [NoPlan EXCEPT !.kind = kind, !.allowed = allowed,
                               !.qualified = allowed /\ g.required]
     /\ Follow(kind, SolarReports(reports) # NoPair)
     /\ UNCHANGED <<boost, dip, strong>>

DecideEvening(kind) ==
  \E settled \in BOOLEAN :
    LET b == BoostEvaluated(boost, kind = "wanted", BoostReport(reports), settled)
    IN /\ boost' = [b EXCEPT !.same = TRUE]
       /\ plan' = [NoPlan EXCEPT !.kind = kind,
                                 !.allowed = kind = "wanted" /\ b.phase = "admitted"]
       /\ Follow(kind, BoostReport(reports) # None)
       /\ UNCHANGED <<guard, dip, strong>>

DecideDip(kind) ==
  LET x == DipJudged(dip, DipEvidence(reports))
      hold == kind = "weak" /\ held /\ x.proof # NoPair
  IN /\ dip' = x
     /\ plan' = [NoPlan EXCEPT !.kind = kind, !.hold = hold, !.regressed = wall < dip.clock,
                               !.allowed = kind \in {"strong", "steady"} \/ hold]
     /\ strong' = IF DipEvidence(reports) = NoPair \/ wall < dip.clock
                    THEN [strong EXCEPT !.at = None] ELSE strong
     /\ UNCHANGED <<guard, boost, mark>>

\* _read_state and _decide
Tick(kind) ==
  /\ phase = "idle" /\ phase' = "deciding"
  /\ s' = reports
  /\ commanded' = FALSE
  /\ CASE policy = "evening" -> DecideEvening(kind)
       [] policy = "dip" -> DecideDip(kind)
       [] OTHER -> DecideSolar(kind)
  /\ UNCHANGED <<policy, world, held>> /\ NoFault

\* The cycle ends, and with it the decision.
Over == phase' = "idle" /\ s' = NoPair /\ plan' = NoPlan /\ commanded' = FALSE

StillCurrent ==
  CASE policy = "evening" -> BoostCurrent(boost)
    [] policy = "dip" -> ~plan.hold \/ DipCurrent(dip)
    [] OTHER -> ~plan.qualified \/ GuardCurrent(guard, SolarReports(s))

\* The proof is found to have ended before what it permits is dispatched.
Retire ==
  /\ guard' = IF policy \in {"budget", "charge"} THEN Reset(guard) ELSE guard
  /\ boost' = IF policy = "evening" THEN BoostReset(boost) ELSE boost
  /\ dip' = IF policy = "dip" THEN [dip EXCEPT !.proof = NoPair] ELSE dip

\* _apply asks again before it dispatches.  A charge ceiling that lost its proof
\* becomes the normal request; every other refusal makes the application fail.
Dispatch ==
  /\ phase = "deciding"
  /\ IF ~plan.allowed \/ StillCurrent
       THEN /\ phase' = "applied" /\ commanded' = plan.allowed
            /\ UNCHANGED <<s, proofs, plan, history>>
       ELSE /\ Retire
            /\ Interrupted /\ strong' = [strong EXCEPT !.at = None]
            /\ IF policy = "charge"
                 THEN /\ phase' = "applied" /\ plan' = [plan EXCEPT !.allowed = FALSE]
                      /\ UNCHANGED <<s, commanded>>
                 ELSE Over
  /\ UNCHANGED <<policy, world, held>> /\ NoFault

\* The cycle fails, is cancelled, or its application ends without completing.
Fail ==
  /\ phase \in {"deciding", "applied"} /\ Fault("application")
  /\ Over
  /\ Retire
  /\ Interrupted /\ strong' = [strong EXCEPT !.at = None]
  /\ UNCHANGED <<policy, world, held>>

\* _finish_solar_reentry_application after a complete application
FinishSolar ==
  /\ policy \in {"budget", "charge"}
  /\ LET ended == IF ~plan.qualified THEN guard
                  ELSE IF plan.allowed /\ GuardCurrent(guard, SolarReports(s)) THEN Committed(guard)
                  ELSE Reset(guard)
     IN guard' = IF plan.kind = "morning" THEN Armed(ended) ELSE ended
  /\ IF guard' = guard THEN UNCHANGED mark ELSE Interrupted
  /\ UNCHANGED <<boost, dip, strong>>

\* _finish_evening_boost_reentry_application of a complete or pending one
FinishEvening ==
  LET kept == plan.kind = "wanted" /\ BoostReport(s) # None
              /\ (plan.allowed => BoostCurrent(boost))
  IN /\ policy = "evening"
     /\ boost' = IF kept THEN boost ELSE BoostReset(boost)
     /\ IF kept THEN UNCHANGED mark ELSE Interrupted
     /\ UNCHANGED <<guard, dip, strong>>

\* A strong measurement may be relied on once its application completed, from
\* the older of its reports, and only if both are newer than any before.
FinishDip ==
  /\ policy = "dip"
  /\ dip' = DipCommitted(dip)
  /\ strong' = IF dip'.proof = NoPair THEN [strong EXCEPT !.at = None]
               ELSE IF plan.kind = "strong" /\ \A i \in Streams : s[i] > strong.high[i]
                 THEN [at |-> Older(s), high |-> s]
               ELSE strong
  /\ UNCHANGED <<guard, boost, mark>>

Finish ==
  /\ phase = "applied" /\ Over
  /\ FinishSolar \/ FinishEvening \/ FinishDip
  /\ held' = (plan.allowed /\ policy \in {"budget", "dip"})
  /\ UNCHANGED <<policy, world>> /\ NoFault

-----------------------------------------------------------------------------
Init ==
  /\ policy \in Policies
  /\ wall = 1 /\ mono = 1
  /\ reports = Pair(1) /\ usable = TRUE /\ context = 1
  /\ phase = "idle" /\ s = NoPair /\ plan = NoPlan
  /\ held = FALSE /\ commanded = FALSE
  /\ guard = NoGuard /\ boost = NoBoost /\ dip = NoDip
  /\ mark = (IF policy = "evening" THEN Marked ELSE NoMark) /\ strong = [at |-> None, high |-> NoPair]
  /\ faults = 0

Next ==
  \/ Advance \/ SetClock \/ Conditions \/ ChangeContext \/ Reconnect
  \/ \E i \in Streams : Report(i)
  \/ \E kind \in Kinds[policy] : Tick(kind)
  \/ Dispatch \/ Fail \/ Finish

Spec == Init /\ [][Next]_vars

-----------------------------------------------------------------------------
Instants == 0..MaxTime
Pairs == [Streams -> Instants]

TypeOK ==
  /\ wall \in Times /\ mono \in Times /\ context \in {1, 2} /\ usable \in BOOLEAN
  /\ reports \in Pairs /\ s \in Pairs
  /\ phase \in {"idle", "deciding", "applied"}
  /\ held \in BOOLEAN /\ commanded \in BOOLEAN
  /\ guard.phase \in {"idle", "closed", "qualifying", "qualified"}
  /\ {guard.reports, guard.first, guard.advanced, guard.high} \subseteq Pairs
  /\ guard.reports # NoPair <=> guard.phase \in {"qualifying", "qualified"}
  /\ guard.phase = "idle" <=> ~guard.required
  /\ boost.phase \in {"closed", "qualifying", "admitted"}
  /\ {dip.proof, dip.high} \subseteq Pairs

Interval == IF policy = "evening" THEN BoostInterval ELSE SolarInterval

\* The reports of the tick came an interval after anything interrupted the wait,
\* on both clocks and, but for the boost, in both streams.
Spanned ==
  /\ mono - mark.mono >= Interval
  /\ s.load - mark.load >= Interval
  /\ policy = "evening" \/ s.pv - mark.pv >= Interval

\* A permission that must be earned again is dispatched only after a whole
\* interval of new reports that nothing interrupted: no other owner, context,
\* clock, unusable report, pause of the reading, or application that did not
\* complete.
PermissionEarned ==
  [][commanded' /\ ~commanded /\ (policy = "evening" \/ plan.qualified)
       => Spanned /\ context = mark.context /\ usable]_vars

\* A latch once armed is released only by the completed application of such a
\* permission, and until then no application without one is dispatched.
LatchReleased ==
  [][/\ guard.required /\ ~guard'.required => commanded /\ plan.qualified /\ Spanned
     /\ guard.required /\ policy # "dip" /\ commanded' /\ ~commanded => plan.qualified]_vars

\* A hold is dispatched only while a strong surplus of a completed application
\* is younger than the hold, with nothing lost since; the same reports never
\* renew it.
HoldRestsOnMeasurement ==
  [][commanded' /\ ~commanded /\ plan.hold
       => strong.at # None /\ wall < strong.at + Hold]_vars
=============================================================================
