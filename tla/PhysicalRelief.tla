--------------------------- MODULE PhysicalRelief ---------------------------
(***************************************************************************)
(* The two physical reliefs of app/optimizer.py.  While the measured grid  *)
(* export is saturated at its limit, the charge ceiling of the Solar fill  *)
(* (_SolarPhysicalReliefState) or of Morning Slow                          *)
(* (_MorningSlowPhysicalReliefState) is raised by steps, each earned by    *)
(* reports that came after the last change of the ceiling was commanded;   *)
(* where the export falls it is lowered again, and where the reports lose  *)
(* their value the whole relief is discarded.                              *)
(*                                                                         *)
(* A tick judges its snapshot, writes the ceiling over several awaits that *)
(* ask again whether the evidence holds, and records the command only when *)
(* the application completes.  A behaviour follows one policy.  Ceilings   *)
(* and reliefs are counted in steps of a rise.  The export is known by the *)
(* band it lies in, where Morning's import counts as being in the band; the *)
(* four power flows are the export and the others.  Times are ages, which   *)
(* stop growing where no report is fresh enough to be compared with them.   *)
(* No relief asks for more than "normal", whose value, with the rest of    *)
(* the settings, is in "context".                                          *)
(***************************************************************************)
EXTENDS Integers

CONSTANTS
  MaxAge,     \* hvac_solar_data_max_age_seconds
  Skew,       \* _DERIVED_POWER_FLOW_MAX_SKEW_SECONDS
  Normal,     \* the normal charge request
  Baselines,  \* ceilings that the fill trajectory may ask for; Morning's is the least
  Reduction,  \* a reduction of the Solar relief, in rises
  Policies,   \* the reliefs to follow
  Adversity,  \* what may go wrong
  FaultLimit  \* and how often

Faults == {"flow", "regress", "readback", "context", "authority", "application", "configure"}

ASSUME PhysicalReliefAssumption ==
  /\ {MaxAge, Reduction} \subseteq Nat \ {0} /\ {Skew, FaultLimit} \subseteq Nat
  /\ Baselines # {} /\ Baselines \subseteq Nat /\ Normal \in Nat
  /\ \A b \in Baselines : b < Normal
  /\ Policies \subseteq {"solar", "morning"}
  /\ Adversity \subseteq Faults

VARIABLES
  policy,     \* the relief this behaviour follows
  authority,  \* the provider still carries Solar's restriction
  context,    \* the settings, day and capability the tick read
  baseline,   \* the ceiling without relief that it decided
  s,          \* the reports of the last tick
  phase,      \* of the tick: idle, decided, written or settled
  plan,       \* its decision
  r,          \* _solar_relief or _morning_slow_relief
  ceiling,    \* external: the charge ceiling the inverter was last given
  earned,     \* history: the observations since the ceiling last changed
  faults

tick == <<context, baseline, s>>
vars == <<policy, authority, tick, phase, plan, r, ceiling, earned, faults>>

Unset == -1  \* no ceiling
Never == MaxAge + 1  \* older than every fresh report
None  == Never + 1   \* no time at all, older still
Ages  == 0..None
Steps == 0..Normal
Streams == {"export", "others"}
NoStamps == [i \in Streams |-> None]
Aged(age) == IF age < Never THEN age + 1 ELSE age
BothAged(stamps) == [i \in Streams |-> Aged(stamps[i])]
Lesser(a, b) == IF a < b THEN a ELSE b
Greater(a, b) == IF a > b THEN a ELSE b

Fault(kind) == kind \in Adversity /\ faults < FaultLimit /\ faults' = faults + 1
NoFault == UNCHANGED faults

\* Of the measured export: far below its threshold, below it, in the hysteresis
\* band, or saturated.
Levels == {"reset", "low", "band", "saturated"}
Low(x) == x.level \in {"reset", "low"}

NoReport == [stamps |-> NoStamps, valid |-> FALSE, level |-> "band", responds |-> FALSE,
             readback |-> [kw |-> Unset, at |-> None]]

Oldest(stamps) == Greater(stamps["export"], stamps["others"])
AllAfter(stamps, old) == \A i \in Streams : stamps[i] < old[i]
SomeBefore(stamps, old) == \E i \in Streams : stamps[i] > old[i]

\* _coherent_physical_relief_flows with _solar_physical_feedback and
\* _morning_slow_physical_feedback
Trusted(x) ==
  /\ x.valid /\ \A i \in Streams : x.stamps[i] <= MaxAge
  /\ \A i, j \in Streams : x.stamps[i] - x.stamps[j] <= Skew

Required(q) == IF q.retry THEN 3 ELSE 2

-----------------------------------------------------------------------------
(* Solar                                                                   *)

\* "on" stands for limit_kw; what a completion is bound to besides its total is
\* retired together with the total.
NoSolar == [on |-> FALSE, relief |-> 0, confirmations |-> 0, retry |-> FALSE,
            command |-> Unset, at |-> None, feedback |-> NoStamps, target |-> Unset,
            baseline |-> Unset, context |-> 0, total |-> Unset]

SolarTotal(q) == Lesser(Normal, baseline' + q.relief)

\* A new state of the context of the tick, of which only the retry survives.
Anew(retry) ==
  [NoSolar EXCEPT !.on = TRUE, !.baseline = baseline', !.context = context', !.retry = retry]

\* The baseline moved along the trajectory: a completed total stays what it is.
Rebased(q, x) ==
  [q EXCEPT !.baseline = baseline',
            !.relief = Greater(0, Lesser(Normal, q.total) - baseline'),
            !.confirmations = 0, !.feedback = x.stamps,
            !.total = IF baseline' > @ THEN Unset ELSE @]

\* Are these reports new, for a reduction or for a rise?
SolarNews(q, x) ==
  IF Low(x) THEN x.stamps["export"] < q.feedback["export"] ELSE AllAfter(x.stamps, q.feedback)

SolarObserved(q, x) ==
  LET n == [q EXCEPT !.feedback = x.stamps]
      supports == /\ x.level = "saturated"
                  /\ q.at # None /\ q.command = SolarTotal(q)
                  /\ q.relief > 0 => x.responds
                  /\ SolarTotal(q) < Normal
  IN IF \/ ~Low(x) /\ q.at # None /\ Oldest(x.stamps) >= q.at
        \/ ~SolarNews(q, x)
       THEN q
     ELSE IF Low(x)
       THEN [n EXCEPT !.relief = Greater(0, @ - Reduction), !.retry = @ \/ q.relief > 0,
                      !.confirmations = 0]
     ELSE IF ~supports THEN [n EXCEPT !.confirmations = 0]
     ELSE IF q.confirmations + 1 < Required(q) THEN [n EXCEPT !.confirmations = @ + 1]
     ELSE [n EXCEPT !.relief = Lesser(Normal - baseline', @ + 1),
                    !.confirmations = 0, !.retry = FALSE]

\* _solar_physical_export_relief of an owned ceiling and trusted reports
SolarJudged(x) ==
  LET c == IF r.on /\ r.context = context' THEN r ELSE Anew(r.retry)
      u == IF Low(x) THEN [c EXCEPT !.total = Unset, !.retry = @ \/ c.relief > 0] ELSE c
      moved == u.baseline # baseline'
      w == IF moved THEN Anew(u.retry) ELSE u
  IN IF SomeBefore(x.stamps, u.feedback) THEN NoSolar
     ELSE IF moved /\ u.total # Unset /\ u.command = u.total /\ u.at # None /\ ~Low(x)
       THEN Rebased(u, x)
     ELSE IF x.level = "reset"
       THEN [Anew(w.retry \/ w.relief > 0) EXCEPT !.feedback = x.stamps]
     ELSE SolarObserved(w, x)

\* _record_solar_physical_relief_command: writing the same ceiling again keeps
\* the observations.
SolarRecorded(q, kw, at) ==
  IF q.target # kw THEN NoSolar
  ELSE IF q.command # kw \/ q.at = None
    THEN [q EXCEPT !.total = Unset, !.command = kw, !.at = at, !.confirmations = 0]
  ELSE q

-----------------------------------------------------------------------------
(* Morning Slow                                                            *)

NoMorning == [on |-> FALSE, relief |-> 0, proposed |-> Unset, confirmations |-> 0,
              retry |-> FALSE, context |-> 0, command |-> Unset, previous |-> Unset,
              at |-> None, first |-> None, high |-> None, feedback |-> NoStamps,
              target |-> Unset]

MorningTotal(q) ==
  Lesser(Normal, baseline' + IF q.proposed # Unset THEN q.proposed ELSE q.relief)

\* A report after the command that shows another ceiling, which before the first
\* matching one may still be the previous.
Lagging(q, x) ==
  q.at # None /\ x.readback.at < q.at /\ x.readback.kw # q.command

ReadbackLost(q, x) ==
  q.at # None /\ \/ q.first = None /\ q.at > MaxAge
                 \/ x.readback.at > MaxAge
                 \/ x.readback.at > q.high
                 \/ Lagging(q, x) /\ (q.first # None \/ q.previous = Unset
                                        \/ x.readback.kw # q.previous)

ReadBack(q, x) ==
  IF q.at = None THEN q
  ELSE [q EXCEPT !.high = x.readback.at,
                 !.first = IF @ = None /\ x.readback.at < q.at /\ ~Lagging(q, x)
                             THEN x.readback.at ELSE @]

\* The shortfall is taken back at once, a step at least.
MorningLowered(q, x) ==
  LET n == [q EXCEPT !.proposed = Unset]
  IN IF x.stamps["export"] >= q.feedback["export"] THEN n
     ELSE [n EXCEPT !.relief = Greater(0, @ - 1), !.retry = @ \/ q.relief > 0,
                    !.confirmations = 0, !.feedback = x.stamps]

\* Mutant: the flows need not follow the readback of the ceiling.
MorningNewsUnread(q, x) ==
  q.proposed = Unset /\ q.at # None /\ AllAfter(x.stamps, q.feedback)

MorningNews(q, x) ==
  /\ q.proposed = Unset /\ q.at # None /\ q.first # None
  /\ q.command = Lesser(Normal, baseline' + q.relief)
  /\ Oldest(x.stamps) < q.first
  /\ AllAfter(x.stamps, q.feedback)

MorningSaturated(q, x) ==
  LET n == [q EXCEPT !.feedback = x.stamps]
  IN IF ~MorningNews(q, x) THEN q
     ELSE IF ~x.responds \/ q.command >= Normal THEN [n EXCEPT !.confirmations = 0]
     ELSE IF q.confirmations + 1 < Required(q) THEN [n EXCEPT !.confirmations = @ + 1]
     ELSE [n EXCEPT !.proposed = q.relief + 1, !.confirmations = 0, !.retry = FALSE]

\* _morning_slow_physical_export_relief of an owned ceiling and trusted reports
MorningJudged(x) ==
  LET c == IF r.on /\ r.context = context' THEN r
           ELSE [NoMorning EXCEPT !.on = TRUE, !.context = context']
      q == ReadBack(c, x)
  IN IF SomeBefore(x.stamps, c.feedback) \/ ReadbackLost(c, x) THEN NoMorning
     ELSE IF x.level = "reset"
       THEN [q EXCEPT !.proposed = Unset, !.retry = @ \/ q.relief > 0, !.relief = 0,
                      !.confirmations = 0, !.feedback = x.stamps]
     ELSE IF x.level = "low" THEN MorningLowered(q, x)
     ELSE IF Lagging(q, x) THEN [q EXCEPT !.confirmations = 0]
     ELSE IF x.level = "band"
       THEN [q EXCEPT !.proposed = Unset, !.confirmations = 0]
     ELSE MorningSaturated(q, x)

\* _record_morning_slow_physical_relief_command
MorningRecorded(q, kw, at) ==
  IF q.target # kw THEN NoMorning
  ELSE IF q.command # kw
    THEN [q EXCEPT !.relief = IF q.proposed # Unset THEN q.proposed ELSE @,
                   !.proposed = Unset, !.previous = q.command, !.command = kw, !.at = at,
                   !.first = None, !.high = None, !.confirmations = 0]
  ELSE q

-----------------------------------------------------------------------------
(* The world                                                               *)

Solar == policy = "solar"
NoRelief == IF Solar THEN NoSolar ELSE NoMorning
NoPlan == [owned |-> FALSE, on |-> FALSE, relieved |-> FALSE, ceiling |-> Unset, sent |-> None]

\* Time passes, and everything that was reported or commanded grows older.
Advance ==
  /\ s' = [s EXCEPT !.stamps = BothAged(@), !.readback.at = Aged(@)]
  /\ r' = IF Solar THEN [r EXCEPT !.at = Aged(@), !.feedback = BothAged(@)]
          ELSE [r EXCEPT !.at = Aged(@), !.feedback = BothAged(@),
                         !.first = Aged(@), !.high = Aged(@)]
  /\ plan' = [plan EXCEPT !.sent = Aged(@)]
  /\ earned' = [earned EXCEPT !.since = Aged(@), !.read = Aged(@)]
  /\ UNCHANGED <<policy, authority, context, baseline, phase, ceiling>> /\ NoFault

LoseAuthority ==
  /\ Solar /\ phase # "idle" /\ authority /\ Fault("authority")
  /\ authority' = FALSE
  /\ UNCHANGED <<policy, tick, phase, plan, r, ceiling, earned>>

\* What the tick finds reported, by now or still from before.  Streams that did
\* not report again still say what they said; the response of the charge matters
\* where the export is saturated.
Reported ==
  {x \in [stamps : [export : {s.stamps["export"], 0}, others : {s.stamps["others"], 0}],
          valid : {TRUE}, level : Levels, responds : BOOLEAN,
          readback : {s.readback} \cup IF Solar THEN {}
                                       ELSE [kw : {ceiling, s.readback.kw}, at : {0}]] :
     /\ x.stamps["export"] = s.stamps["export"] => x.level = s.level
     /\ IF x.level # "saturated" THEN ~x.responds
        ELSE x.stamps = s.stamps => x.responds = s.responds}

\* The reports that a tick judges, as they are or with one of them at fault.
Readings(kind) ==
  CASE kind = "flow" -> {[s EXCEPT !.valid = FALSE]}
    [] kind = "regress" ->
         {[x EXCEPT !.stamps[i] = Aged(s.stamps[i])] :
            x \in {y \in Reported : y.level = s.level}, i \in Streams}
    [] kind = "readback" ->
         {[x EXCEPT !.readback = [kw |-> k, at |-> 0]] : x \in Reported, k \in Steps}
    [] OTHER -> Reported

-----------------------------------------------------------------------------
(* History: the reports of the export that support a rise since the ceiling *)
(* last changed or something spoke against it, whether the one on display   *)
(* was already judged, when Morning's ceiling was first read back, and      *)
(* whether a reduction has to be made up for.                               *)

NothingEarned == [count |-> 0, judged |-> FALSE, since |-> None, read |-> None, owed |-> FALSE]

\* All flows were measured after the change of the ceiling and its readback.
Qualifies(x) ==
  /\ Oldest(x.stamps) < earned.since
  /\ Solar \/ (earned.read # None /\ Oldest(x.stamps) < earned.read)

\* Something speaks against a rise.  Where only some of the flows are new, Solar
\* waits for the others to say that the export is in its band, and both do for
\* the response of the charge.
Contradicts(x, owned) ==
  LET whole == AllAfter(x.stamps, s.stamps)
  IN \/ ~owned \/ ~Trusted(x) \/ context' # context \/ baseline' # baseline
     \/ Low(x) \/ (x.level = "band" /\ (whole \/ ~Solar))
     \/ whole /\ ~x.responds /\ (ceiling > baseline \/ ~Solar)

Observe(x, owned) ==
  LET against == Contradicts(x, owned)
      same == x.stamps["export"] = s.stamps["export"]
      counts == /\ ~(same /\ earned.judged) /\ Qualifies(x)
                /\ x.level = "saturated" /\ ~against
  IN earned' = [earned EXCEPT
       !.count = IF against THEN 0 ELSE IF counts THEN Lesser(@ + 1, 3) ELSE @,
       !.judged = against \/ counts \/ (same /\ @),
       !.read = IF @ = None /\ x.readback.at < earned.since /\ x.readback.kw = ceiling
                  THEN x.readback.at ELSE @,
       !.owed = LET kept == context' = context
                IN r'.on /\ ((@ /\ (Solar \/ kept)) \/ (r.relief > 0 /\ kept /\ Low(x)))]

\* The ceiling the inverter is given, and what that leaves of the history.
Give(kw) ==
  LET owed == r'.on /\ earned.owed /\ kw <= ceiling
  IN /\ ceiling' = kw
     /\ earned' = IF kw = ceiling THEN [earned EXCEPT !.owed = owed]
                  ELSE [NothingEarned EXCEPT !.since = 0, !.owed = owed]

-----------------------------------------------------------------------------
(* The tick                                                                *)

Judged(x) == IF Solar THEN SolarJudged(x) ELSE MorningJudged(x)
Total(q) == IF Solar THEN SolarTotal(q) ELSE MorningTotal(q)

\* _read_state and _decide.  Without the ownership the request is another's.
Tick(owned, kind) ==
  /\ phase = "idle" /\ phase' = "decided"
  /\ IF kind = "none" THEN NoFault ELSE owned /\ (Solar => kind # "readback") /\ Fault(kind)
  /\ context' = IF kind = "context" THEN 3 - context ELSE context
  /\ baseline' \in IF owned /\ Solar THEN Baselines ELSE {baseline}
  /\ s' \in IF owned THEN Readings(kind) ELSE {s}
  /\ \E q \in {IF owned /\ Trusted(s') THEN Judged(s') ELSE NoRelief} :
        /\ r' = [q EXCEPT !.target = IF q.on THEN Total(q) ELSE Unset]
        /\ plan' = [NoPlan EXCEPT !.owned = owned, !.on = q.on,
             !.relieved = IF Solar THEN q.relief > 0 ELSE q.on /\ Total(q) > baseline',
             !.ceiling = IF ~owned THEN Normal ELSE IF q.on THEN Total(q) ELSE baseline']
  /\ Observe(s', owned)
  /\ UNCHANGED <<policy, authority, ceiling>>

\* _recheck_morning_slow_physical_authority, and the same question of Solar's
EvidenceLost == plan.relieved /\ (~Trusted(s) \/ ~r.on)

\* Mutant: a ceiling that lost its evidence is restored, the relief is kept.
RecheckedKept ==
  IF EvidenceLost
    THEN [plan |-> [plan EXCEPT !.relieved = FALSE, !.ceiling = baseline], r |-> r]
  ELSE [plan |-> plan, r |-> r]

\* _recheck_solar_charge_authority, then the evidence of either relief
Rechecked ==
  IF plan.owned /\ ~authority
    THEN [plan |-> [plan EXCEPT !.owned = FALSE, !.relieved = FALSE, !.ceiling = Normal],
          r |-> NoRelief]
  ELSE IF EvidenceLost
    THEN [plan |-> [plan EXCEPT !.relieved = FALSE, !.ceiling = baseline], r |-> NoRelief]
  ELSE [plan |-> plan, r |-> r]

\* _automatic_charge after the first recheck
Write ==
  /\ phase = "decided" /\ phase' = "written"
  /\ plan' = [Rechecked.plan EXCEPT !.sent = 0]
  /\ r' = Rechecked.r
  /\ Give(plan'.ceiling)
  /\ UNCHANGED <<policy, authority, tick>> /\ NoFault

\* A restored ceiling is no command of Morning's, and none of Solar's relief.
Restored(p) == IF p.ceiling = ceiling THEN p ELSE [p EXCEPT !.sent = None]

\* After the write the ceiling that lost its evidence is restored; then, if
\* every other actuator took its value, Solar's command is recorded.
Settle ==
  /\ phase = "written" /\ phase' = "settled"
  /\ LET c == Rechecked
     IN /\ plan' = IF Solar THEN c.plan ELSE Restored(c.plan)
        /\ r' = IF Solar /\ c.plan.owned THEN SolarRecorded(c.r, c.plan.ceiling, plan.sent) ELSE c.r
  /\ Give(plan'.ceiling)
  /\ UNCHANGED <<policy, authority, tick>> /\ NoFault

Over == phase' = "idle" /\ plan' = NoPlan /\ authority' = TRUE

\* The completion of an application that began with a relief state: the evidence
\* once more, and the total that a later baseline may keep.
CompleteSolar ==
  LET c == Rechecked
      p == Restored(c.plan)
      whole == /\ p.owned /\ p.sent # None /\ c.r.on /\ Trusted(s)
               /\ c.r.command = p.ceiling /\ c.r.target = p.ceiling /\ c.r.at # None
  IN IF plan.on /\ plan.owned
       THEN /\ r' = [c.r EXCEPT !.total = IF whole THEN p.ceiling ELSE Unset]
            /\ Give(p.ceiling)
       ELSE UNCHANGED r /\ Give(ceiling)

CompleteMorning ==
  LET c == Rechecked
      p == Restored(c.plan)
  IN IF plan.sent # None /\ r.target # Unset
       THEN /\ r' = IF p.sent # None THEN MorningRecorded(c.r, p.ceiling, p.sent) ELSE c.r
            /\ Give(p.ceiling)
       ELSE UNCHANGED r /\ Give(ceiling)

Complete ==
  /\ phase = "settled" /\ Over
  /\ IF Solar THEN CompleteSolar ELSE CompleteMorning
  /\ UNCHANGED <<policy, tick>> /\ NoFault

\* A call fails, whether or not it was carried out, another part of the
\* application does, or the cycle is cancelled.
Fail ==
  /\ phase # "idle" /\ Fault("application") /\ Over
  /\ r' = NoRelief
  /\ \E kw \in {ceiling, plan.ceiling} : Give(kw)
  /\ UNCHANGED <<policy, tick>>

\* A configuration is activated between two ticks.
Configure ==
  /\ phase = "idle" /\ Fault("configure")
  /\ r' = NoRelief /\ Give(ceiling)
  /\ UNCHANGED <<policy, authority, tick, phase, plan>>

-----------------------------------------------------------------------------
Least == CHOOSE b \in Baselines : \A c \in Baselines : b <= c

Init ==
  /\ policy \in Policies
  /\ authority = TRUE /\ context = 1
  /\ baseline = Least
  /\ s = NoReport /\ phase = "idle" /\ plan = NoPlan
  /\ r = NoRelief /\ ceiling = Normal
  /\ earned = NothingEarned /\ faults = 0

Next ==
  \/ Advance \/ LoseAuthority
  \/ \E owned \in BOOLEAN, kind \in {"none", "flow", "regress", "readback", "context"} :
       Tick(owned, kind)
  \/ Write \/ Settle \/ Complete \/ Fail \/ Configure

Spec == Init /\ [][Next]_vars

-----------------------------------------------------------------------------
Stamps == [Streams -> Ages]
Ceilings == Steps \cup {Unset}

\* At rest, the ceiling that a relief takes its observations to be of is the one
\* the inverter was last given.
TypeOK ==
  /\ authority \in BOOLEAN /\ context \in {1, 2} /\ baseline \in Baselines
  /\ s.stamps \in Stamps /\ s.level \in Levels
  /\ phase \in {"idle", "decided", "written", "settled"}
  /\ plan \in [owned: BOOLEAN, on: BOOLEAN, relieved: BOOLEAN, ceiling: Ceilings, sent: Ages]
  /\ ceiling \in Steps /\ {r.command, r.target} \subseteq Ceilings /\ r.relief \in Steps
  /\ r.feedback \in Stamps /\ r.at \in Ages /\ r.confirmations \in 0..2
  /\ r.command # Unset <=> r.at # None
  /\ phase = "idle" /\ r.command # Unset => r.command = ceiling

\* A ceiling is raised above its baseline by one step at a time, and only after
\* two observations, three where a reduction was not yet made up for, that were
\* all new after the last change of the ceiling, and that nothing contradicted:
\* no fall of the export, import, other context or baseline, untrusted report,
\* missing response of the charge, or application that failed.
RiseEarned ==
  [][plan.relieved /\ ceiling' = plan.ceiling /\ ceiling' > Greater(ceiling, baseline)
       => /\ earned.count >= IF earned.owed THEN 3 ELSE 2
          /\ ceiling' <= Greater(ceiling, baseline) + 1]_vars
=============================================================================
