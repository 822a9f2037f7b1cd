------------------------ MODULE Qualification_proofs -------------------------
(***************************************************************************)
(* Proofs about Qualification, for every horizon, interval, gap, hold and  *)
(* skew and any number of faults: the types, that every permission was     *)
(* earned over a whole uninterrupted interval, that an armed latch is      *)
(* released only by such a permission, and that a hold rests on a strong   *)
(* measurement of a completed application.                                 *)
(***************************************************************************)
EXTENDS Qualification, TLAPS

USE DEF world, proofs, history, None, Streams

-----------------------------------------------------------------------------
(* Typing                                                                  *)

Phases == {"idle", "closed", "qualifying", "qualified"}
Guards ==
  [required : BOOLEAN, phase : Phases, same : BOOLEAN, reports : Pairs, first : Pairs,
   started : Instants, advanced : Pairs, clock : [wall : Instants, mono : Instants],
   identity : 0..2, high : Pairs]
Boosts ==
  [phase : {"closed", "qualifying", "admitted"}, same : BOOLEAN, first : Instants,
   last : Instants, started : Instants, reported : Instants, evaluated : Instants,
   wall : Instants, context : 0..2, high : Instants, clock : Instants]
Dips  == [proof : Pairs, high : Pairs, clock : Instants]
Marks == [mono : Instants, pv : Instants, load : Instants, wall : Instants, context : 0..2]
AllKinds == {"none", "wanted", "outbid", "failed", "lost", "morning", "strong", "steady", "weak"}
Plans ==
  [kind : AllKinds, allowed : BOOLEAN, qualified : BOOLEAN, regressed : BOOLEAN, hold : BOOLEAN]

\* A guard collects reports exactly while it qualifies, and is armed or idle.
Counting(g) == g.phase \in {"qualifying", "qualified"}
Guarded(g) ==
  /\ g \in Guards
  /\ g.reports # NoPair <=> Counting(g)
  /\ g.phase = "idle" <=> ~g.required

WorldInv ==
  /\ policy \in {"budget", "charge", "evening", "dip"}
  /\ wall \in Times /\ mono \in Times /\ context \in {1, 2} /\ usable \in BOOLEAN
  /\ reports \in Pairs /\ s \in Pairs
  /\ phase \in {"idle", "deciding", "applied"}
  /\ held \in BOOLEAN /\ commanded \in BOOLEAN
  /\ plan \in Plans
HistoryInv == mark \in Marks /\ strong \in [at : Instants, high : Pairs]
ProofInv == Guarded(guard) /\ boost \in Boosts /\ dip \in Dips
TypeInv == WorldInv /\ HistoryInv /\ ProofInv

\* Pairs of reports, and the one that stands for none.
LEMMA PairTyped == /\ 0 \in Instants /\ Times \subseteq Instants /\ NoPair \in Pairs
                   /\ \A n \in Instants : Pair(n) \in Pairs
                   /\ \A p \in Pairs, i \in Streams : p[i] \in Instants
                   /\ \A n \in Instants, i \in Streams : Pair(n)[i] = n
BY QualificationAssumption DEF Pair, NoPair, Pairs, Instants, Times
LEMMA OlderTyped == \A p \in Pairs : Older(p) \in Instants
BY PairTyped DEF Older, Pairs
LEMMA ReportsTyped ==
  ASSUME NEW p \in Pairs
  PROVE  /\ SolarReports(p) \in {p, NoPair} /\ DipEvidence(p) \in {p, NoPair}
         /\ SolarReports(p) \in Pairs /\ DipEvidence(p) \in Pairs
         /\ BoostReport(p) \in Instants
BY PairTyped DEF SolarReports, DipEvidence, BoostReport, Pairs
LEMMA NothingTyped ==
  Guarded(NoGuard) /\ NoBoost \in Boosts /\ NoDip \in Dips /\ NoMark \in Marks /\ NoPlan \in Plans
BY PairTyped DEF Guarded, Counting, NoGuard, Guards, Phases, NoBoost, Boosts, NoDip, Dips,
     NoMark, Marks, NoPlan, Plans, AllKinds

\* What a reset, a start and a commit leave of a guard.
LEMMA ResetFacts ==
  ASSUME NEW g, Guarded(g)
  PROVE  /\ Guarded(Reset(g)) /\ ~Counting(Reset(g))
         /\ Reset(g).required = g.required /\ Reset(g).reports = NoPair
         /\ Reset(g).identity = g.identity /\ Reset(g).clock = g.clock
         /\ Reset(g).high = g.high
BY PairTyped DEF Guarded, Counting, Guards, Phases, Reset
LEMMA ArmedFacts ==
  ASSUME NEW g, Guarded(g)
  PROVE  Guarded(Armed(g)) /\ ~Counting(Armed(g)) /\ Armed(g).required
BY PairTyped DEF Guarded, Counting, Guards, Phases, Armed, Reset
LEMMA CommittedFacts ==
  ASSUME NEW g, Guarded(g)
  PROVE  Guarded(Committed(g)) /\ ~Counting(Committed(g))
BY PairTyped DEF Guarded, Counting, Guards, Phases, Committed
LEMMA StartedFacts ==
  ASSUME NEW g, Guarded(g), g.required, NEW pair \in Pairs, pair # NoPair, mono \in Times
  PROVE  /\ Guarded(Started(g, pair)) /\ Started(g, pair).phase = "qualifying"
         /\ Started(g, pair).required
         /\ Started(g, pair).reports = pair /\ Started(g, pair).first = pair
         /\ Started(g, pair).high = pair /\ Started(g, pair).started = mono
         /\ Started(g, pair).advanced = Pair(mono)
         /\ Started(g, pair).identity = g.identity /\ Started(g, pair).clock = g.clock
BY PairTyped DEF Guarded, Counting, Guards, Phases, Started

\* A guard that goes on keeps its beginning and takes the newer reports.
Follows(g, c, pair) ==
  /\ Guarded(c) /\ Counting(c) /\ c.required
  /\ c.first = g.first /\ c.started = g.started
  /\ c.identity = g.identity /\ c.clock = g.clock
  /\ c.reports = pair /\ c.high = pair
  /\ \A i \in Streams : c.advanced[i] = IF pair[i] > g.reports[i] THEN mono ELSE g.advanced[i]
  /\ \A i \in Streams : pair[i] - g.reports[i] <= MaxGap /\ mono - g.advanced[i] <= MaxGap
  /\ c.phase = "qualified" => g.phase = "qualified" \/ Matures(g, g.reports, pair)

LEMMA ContinuedFacts ==
  ASSUME NEW g, Guarded(g), Counting(g), NEW pair \in Pairs, pair # NoPair, mono \in Times
  PROVE  \/ Continued(g, pair) = Started(Reset(g), pair)
         \/ Follows(g, Continued(g, pair), pair)
<1> DEFINE next == [g EXCEPT !.reports = pair, !.high = pair,
                      !.advanced = [i \in Streams |-> IF pair[i] > g.reports[i] THEN mono ELSE @[i]]]
           done == [next EXCEPT !.phase = "qualified"]
<1>1. g.required /\ g \in Guards /\ g.phase # "idle"
  BY DEF Guarded, Counting
<1>2. g.advanced \in Pairs /\ g.reports \in Pairs
  BY <1>1 DEF Guards
<1>3. [i \in Streams |-> IF pair[i] > g.reports[i] THEN mono ELSE g.advanced[i]] \in Pairs
  BY <1>2, PairTyped DEF Pairs
<1>4. Guarded(next) /\ next.phase = g.phase /\ next.required
  BY <1>1, <1>3 DEF Guarded, Counting, Guards
<1>5. Guarded(done) /\ done.phase = "qualified" /\ done.required
  BY <1>1, <1>3 DEF Guarded, Counting, Guards, Phases
<1> DEFINE Same(c) ==
             /\ c.first = g.first /\ c.started = g.started
             /\ c.identity = g.identity /\ c.clock = g.clock
             /\ c.reports = pair /\ c.high = pair
             /\ \A i \in Streams :
                  c.advanced[i] = IF pair[i] > g.reports[i] THEN mono ELSE g.advanced[i]
<1>6. Same(next) /\ Same(done)
  <2>1. Same(next)
    <3>1. next.advanced = [i \in Streams |-> IF pair[i] > g.reports[i] THEN mono ELSE g.advanced[i]]
      BY <1>1 DEF Guards
    <3> QED
      BY <1>1, <3>1 DEF Guards
  <2>2. /\ done.first = next.first /\ done.started = next.started
        /\ done.identity = next.identity /\ done.clock = next.clock
        /\ done.reports = next.reports /\ done.high = next.high
        /\ done.advanced = next.advanced
    BY <1>4 DEF Guarded, Guards
  <2> QED
    BY <2>1, <2>2
<1> DEFINE gap == \E i \in Streams : \/ pair[i] - g.reports[i] > MaxGap
                                     \/ mono - g.advanced[i] > MaxGap
<1>7. Continued(g, pair) = IF gap THEN Started(Reset(g), pair)
                           ELSE IF g.phase = "qualified" \/ Matures(g, g.reports, pair)
                             THEN done ELSE next
  BY DEF Continued
<1>8. ~gap => \A i \in Streams : pair[i] - g.reports[i] <= MaxGap /\ mono - g.advanced[i] <= MaxGap
  BY <1>2, PairTyped, QualificationAssumption DEF Instants, Times
<1> HIDE DEF next, done, gap
<1> QED
  BY <1>4, <1>5, <1>6, <1>7, <1>8 DEF Follows, Counting

\* What an evaluation leaves of a guard that counts: reports it begins with, or
\* reports that follow those it had.
Now == [wall |-> wall, mono |-> mono]
Begun(e, pair) ==
  /\ e.reports = pair /\ e.first = pair /\ e.high = pair /\ e.phase = "qualifying"
  /\ e.started = mono /\ \A i \in Streams : e.advanced[i] = mono
  /\ e.identity = context /\ e.clock = Now

LEMMA StartedBegun ==
  ASSUME WorldInv, NEW g, Guarded(g), g.required, g.identity = context, g.clock = Now,
         NEW pair \in Pairs, pair # NoPair
  PROVE  /\ Guarded(Started(g, pair)) /\ Started(g, pair).required
         /\ Begun(Started(g, pair), pair)
<1>1. mono \in Times /\ mono \in Instants
  BY PairTyped DEF WorldInv
<1>2. \A i \in Streams : Pair(mono)[i] = mono
  BY <1>1, PairTyped
<1> QED
  BY <1>1, <1>2, StartedFacts DEF Begun

LEMMA EvaluatedFacts ==
  ASSUME WorldInv, NEW g0, Guarded(g0), NEW pair \in Pairs, NEW candidate
  PROVE  LET e == Evaluated(g0, candidate, pair)
         IN /\ Guarded(e) /\ e.required = g0.required
            /\ Counting(e) =>
                 /\ wall >= g0.clock.wall /\ candidate /\ FreshWithin(pair, MaxGap)
                 /\ \/ Begun(e, pair)
                    \/ /\ context = g0.identity /\ Counting(g0)
                       /\ \A i \in Streams : pair[i] >= g0.high[i]
                       /\ Follows([g0 EXCEPT !.clock = Now], e, pair)
<1> DEFINE e == Evaluated(g0, candidate, pair)
           g == [g0 EXCEPT !.clock = Now]
           moved == [Reset(g) EXCEPT !.identity = context, !.high = NoPair]
           h == IF context = g.identity THEN g ELSE moved
<1>1. Guarded(g) /\ g.clock = Now /\ g.identity = g0.identity /\ g.required = g0.required
      /\ g.high = g0.high /\ g.phase = g0.phase
  BY PairTyped DEF WorldInv, Guarded, Counting, Guards, Now
<1>2. /\ Guarded(Reset(g)) /\ ~Counting(Reset(g)) /\ Reset(g).reports = NoPair
      /\ Reset(g).clock = Now /\ Reset(g).identity = g.identity
      /\ Reset(g).required = g0.required
  BY <1>1, ResetFacts
<1>3. /\ Guarded(moved) /\ ~Counting(moved) /\ moved.clock = Now /\ moved.identity = context
      /\ moved.reports = NoPair /\ moved.required = g0.required
  <2>1. Reset(g) \in Guards /\ context \in 0..2 /\ NoPair \in Pairs
    BY <1>2, PairTyped DEF WorldInv, Guarded
  <2> HIDE DEF g
  <2>2. /\ moved \in Guards /\ moved.identity = context /\ moved.phase = Reset(g).phase
        /\ moved.required = Reset(g).required /\ moved.reports = Reset(g).reports
        /\ moved.clock = Reset(g).clock
    BY <2>1 DEF Guards
  <2> QED
    BY <1>2, <2>2 DEF Guarded, Counting
<1> HIDE DEF g, moved
<1>4. /\ Guarded(h) /\ h.clock = Now /\ h.identity = context /\ h.required = g0.required
      /\ h.reports # NoPair => h = g /\ context = g0.identity /\ Counting(g0)
  BY <1>1, <1>3 DEF Guarded, Counting
<1>5. CASE ~g0.required
  <2>1. e = g0
    BY <1>5 DEF Evaluated
  <2> QED
    BY <1>5, <2>1 DEF Guarded, Counting
<1>6. CASE g0.required /\ wall < g0.clock.wall
  <2>1. e = [Reset(g) EXCEPT !.high = NoPair]
    BY <1>6 DEF Evaluated, g, Now
  <2>2. Guarded(e) /\ ~Counting(e) /\ e.required = g0.required
    BY <1>2, <2>1, PairTyped DEF Guarded, Counting, Guards
  <2> QED
    BY <2>2
<1>7. CASE /\ g0.required /\ ~(wall < g0.clock.wall)
           /\ ~candidate \/ ~FreshWithin(pair, MaxGap) \/ \E i \in Streams : pair[i] < h.high[i]
  <2>1. e = Reset(h)
    BY <1>7 DEF Evaluated, g, moved, Now
  <2>2. Guarded(e) /\ ~Counting(e) /\ e.required = g0.required
    BY <1>4, <2>1, ResetFacts
  <2> QED
    BY <2>2
<1>8. CASE /\ g0.required /\ ~(wall < g0.clock.wall) /\ candidate /\ FreshWithin(pair, MaxGap)
           /\ ~\E i \in Streams : pair[i] < h.high[i]
  <2>1. /\ wall >= g0.clock.wall
        /\ pair # NoPair
        /\ \A i \in Streams : pair[i] >= h.high[i]
    <3>1. pair # NoPair
      BY <1>8 DEF FreshWithin, NoPair, Pair
    <3>2. wall >= g0.clock.wall
      BY <1>8 DEF WorldInv, Times, Instants, Guarded, Guards
    <3>3. \A i \in Streams : pair[i] \in Instants /\ h.high[i] \in Instants
      BY <1>4, PairTyped DEF Guarded, Guards
    <3>4. \A i \in Streams : pair[i] >= h.high[i]
      BY <1>8, <3>3 DEF Instants
    <3> QED
      BY <3>1, <3>2, <3>4
  <2>2. CASE h.reports = NoPair
    <3>1. e = Started(h, pair)
      BY <1>8, <2>2 DEF Evaluated, g, moved, Now
    <3>2. Guarded(e) /\ e.required = g0.required /\ Begun(e, pair)
      BY <1>4, <1>8, <2>1, <3>1, StartedBegun
    <3> QED
      BY <1>8, <2>1, <3>2
  <2>3. CASE h.reports # NoPair
    <3>1. e = Continued(g, pair) /\ h = g
      BY <1>4, <1>8, <2>3 DEF Evaluated, g, moved, Now
    <3>2. Counting(g)
      BY <1>1, <1>4, <2>3 DEF Counting
    <3>3. CASE e = Started(Reset(g), pair)
      <4>1. Guarded(e) /\ e.required = g0.required /\ Begun(e, pair)
        BY <1>1, <1>2, <1>4, <1>8, <2>1, <2>3, <3>3, StartedBegun
      <4> QED
        BY <1>8, <2>1, <4>1
    <3>4. CASE Follows(g, e, pair)
      <4>1. Guarded(e) /\ e.required = g0.required /\ \A i \in Streams : pair[i] >= g0.high[i]
        BY <1>1, <1>8, <2>1, <3>1, <3>4 DEF Follows
      <4> QED
        BY <1>4, <1>8, <2>1, <2>3, <3>4, <4>1 DEF g
    <3> QED
      BY <1>1, <2>1, <3>1, <3>2, <3>3, <3>4, ContinuedFacts DEF WorldInv
  <2> QED
    BY <2>2, <2>3
<1> QED
  BY <1>5, <1>6, <1>7, <1>8

-----------------------------------------------------------------------------
(* The boost and the dip, evaluated                                        *)

LEMMA BoostResetTyped ==
  ASSUME NEW b \in Boosts
  PROVE  /\ BoostReset(b) \in Boosts /\ BoostReset(b).phase = "closed"
         /\ BoostReset(b).high = b.high /\ BoostReset(b).clock = b.clock
<1>1. NoBoost \in Boosts /\ b.high \in Instants /\ b.clock \in Instants
  BY NothingTyped DEF Boosts
<1>2. NoBoost.phase = "closed"
  BY DEF NoBoost
<1> QED
  BY <1>1, <1>2 DEF BoostReset, Boosts

\* An admission that counts began with this report, or continues one.
BoostBegun(e, stamp) ==
  /\ e.phase = "qualifying" /\ e.first = stamp /\ e.last = stamp /\ e.high = stamp
  /\ e.started = mono /\ e.reported = mono /\ e.evaluated = mono
  /\ e.wall = wall /\ e.clock = wall /\ e.context = context
BoostFollows(b, e, stamp) ==
  /\ b.phase # "closed" /\ context = b.context
  /\ stamp - b.last <= MaxGap /\ mono - b.reported <= MaxGap
  /\ stamp >= b.high
  /\ e.first = b.first /\ e.started = b.started /\ e.context = b.context
  /\ e.last = (IF stamp > b.last THEN stamp ELSE b.last) /\ e.high = stamp
  /\ e.reported = (IF stamp > b.last THEN mono ELSE b.reported) /\ e.evaluated = mono
  /\ e.wall = wall /\ e.clock = wall
  /\ e.phase = "admitted" =>
       \/ b.phase = "admitted"
       \/ stamp > b.last /\ mono - b.started >= BoostInterval /\ stamp - b.first >= BoostInterval

LEMMA BoostEvaluatedFacts ==
  ASSUME WorldInv, NEW b \in Boosts, NEW candidate, NEW stamp \in Instants, NEW settled
  PROVE  LET e == BoostEvaluated(b, candidate, stamp, settled)
         IN /\ e \in Boosts
            /\ e.phase # "closed" =>
                 /\ wall >= b.clock /\ candidate /\ stamp # None
                 /\ BoostBegun(e, stamp) \/ BoostFollows(b, e, stamp)
<1> DEFINE e == BoostEvaluated(b, candidate, stamp, settled)
           now == [b EXCEPT !.clock = wall]
           seen == [now EXCEPT !.high = stamp]
           base == IF seen.phase = "closed" \/ BoostContinuous(seen, stamp) THEN seen
                   ELSE BoostReset(seen)
<1>1. /\ now \in Boosts /\ now.clock = wall /\ now.high = b.high /\ now.phase = b.phase
      /\ seen \in Boosts /\ seen.clock = wall /\ seen.high = stamp /\ seen.phase = b.phase
      /\ seen.last = b.last /\ seen.reported = b.reported /\ seen.context = b.context
      /\ seen.first = b.first /\ seen.started = b.started
  BY PairTyped DEF WorldInv, Boosts
<1>2. BoostReset(now) \in Boosts /\ BoostReset(now).phase = "closed"
  BY <1>1, BoostResetTyped
<1>3. /\ BoostReset(seen) \in Boosts /\ BoostReset(seen).phase = "closed"
      /\ BoostReset(seen).high = stamp /\ BoostReset(seen).clock = wall
  BY <1>1, BoostResetTyped
<1> HIDE DEF now, seen
<1>4. CASE wall < b.clock
  <2>1. e = [BoostReset(now) EXCEPT !.high = None]
    BY <1>4 DEF BoostEvaluated, now
  <2> QED
    BY <1>2, <2>1, PairTyped DEF Boosts
<1>5. CASE ~(wall < b.clock) /\ (~candidate \/ stamp = None \/ stamp < b.high)
  <2>1. e = BoostReset(now)
    BY <1>1, <1>5 DEF BoostEvaluated, now
  <2> QED
    BY <1>2, <2>1
<1>6. CASE ~(wall < b.clock) /\ candidate /\ stamp # None /\ ~(stamp < b.high)
  <2>1. e = BoostAdvanced(base, stamp, settled)
    BY <1>1, <1>6 DEF BoostEvaluated, now, seen
  <2>2. wall >= b.clock /\ stamp >= b.high
    BY <1>6 DEF WorldInv, Times, Instants, Boosts
  <2>3. /\ base \in Boosts /\ base.clock = wall /\ base.high = stamp
        /\ base.phase # "closed" => base = seen /\ BoostContinuous(seen, stamp)
    BY <1>1, <1>3
  <2> HIDE DEF base
  <2>4. CASE base.phase = "closed"
    <3>1. e = [base EXCEPT !.phase = "qualifying", !.first = stamp, !.last = stamp,
                      !.started = mono, !.reported = mono, !.evaluated = mono,
                      !.wall = wall, !.context = context]
      BY <2>1, <2>4 DEF BoostAdvanced
    <3>2. e \in Boosts /\ BoostBegun(e, stamp)
      <4>1. wall \in Instants /\ mono \in Instants /\ context \in 0..2
        BY PairTyped DEF WorldInv
      <4>2. e \in Boosts
        BY <2>3, <3>1, <4>1 DEF Boosts
      <4>3. BoostBegun(e, stamp)
        BY <2>3, <3>1 DEF Boosts, BoostBegun
      <4> QED
        BY <4>2, <4>3
    <3> QED
      BY <1>6, <2>2, <3>2
  <2>5. CASE base.phase # "closed"
    <3> DEFINE next == [base EXCEPT !.last = IF stamp > base.last THEN stamp ELSE @,
                          !.reported = IF stamp > base.last THEN mono ELSE @,
                          !.evaluated = mono, !.wall = wall]
               matures == /\ stamp > base.last /\ settled
                          /\ mono - base.started >= BoostInterval
                          /\ stamp - base.first >= BoostInterval
    <3>1. e = IF matures THEN [next EXCEPT !.phase = "admitted"] ELSE next
      BY <2>1, <2>5 DEF BoostAdvanced
    <3>2. next \in Boosts /\ [next EXCEPT !.phase = "admitted"] \in Boosts
      BY <2>3, PairTyped DEF WorldInv, Boosts
    <3>3. e \in Boosts /\ BoostFollows(b, e, stamp)
      <4>1. /\ next.first = base.first /\ next.started = base.started
            /\ next.context = base.context /\ next.high = base.high /\ next.clock = base.clock
            /\ next.last = (IF stamp > base.last THEN stamp ELSE base.last)
            /\ next.reported = (IF stamp > base.last THEN mono ELSE base.reported)
            /\ next.evaluated = mono /\ next.wall = wall /\ next.phase = base.phase
        BY <2>3 DEF Boosts
      <4>2. /\ e.first = next.first /\ e.started = next.started /\ e.context = next.context
            /\ e.high = next.high /\ e.clock = next.clock /\ e.last = next.last
            /\ e.reported = next.reported /\ e.evaluated = next.evaluated /\ e.wall = next.wall
            /\ e.phase = "admitted" => next.phase = "admitted" \/ matures
        BY <3>1, <3>2 DEF Boosts
      <4> HIDE DEF next, e
      <4>3. base = seen /\ BoostContinuous(seen, stamp)
        BY <2>3, <2>5
      <4>4. BoostFollows(b, e, stamp)
        BY <1>1, <2>2, <2>3, <2>5, <4>1, <4>2, <4>3 DEF BoostFollows, BoostContinuous
      <4> QED
        BY <3>1, <3>2, <4>4 DEF e
    <3> QED
      BY <1>6, <2>2, <3>3
  <2> QED
    BY <2>4, <2>5
<1> QED
  BY <1>4, <1>5, <1>6

LEMMA DipTyped ==
  ASSUME WorldInv, dip \in Dips, NEW pair \in Pairs
  PROVE  /\ DipJudged(dip, pair) \in Dips /\ DipCommitted(dip) \in Dips
         /\ [dip EXCEPT !.proof = NoPair] \in Dips
BY PairTyped, ReportsTyped DEF WorldInv, Dips, DipJudged, DipCommitted

-----------------------------------------------------------------------------
(* What is earned                                                          *)

\* A guard that counts began after the last interruption, in both streams and on
\* the monotonic clock, and what it counted since is as long as it says.  The
\* monotonic clock has run at least as far as the wall clock since it was judged.
GuardSpan ==
  Counting(guard) =>
    /\ policy \in {"budget", "charge"}
    /\ mark.mono <= guard.started
    /\ \A i \in Streams : /\ mark[i] <= guard.first[i]
                          /\ guard.reports[i] <= guard.clock.wall
                          /\ guard.advanced[i] <= guard.clock.mono
    /\ guard.high = guard.reports
    /\ guard.identity = mark.context /\ guard.clock.wall = mark.wall
    /\ guard.clock.mono - guard.clock.wall <= mono - wall
    /\ guard.phase = "qualified" =>
         /\ mono - guard.started >= SolarInterval
         /\ \A i \in Streams : guard.reports[i] - guard.first[i] >= SolarInterval

\* The same of an admission of the boost, which follows the load alone.
BoostSpan ==
  boost.phase # "closed" =>
    /\ policy = "evening"
    /\ mark.mono <= boost.started /\ mark.load <= boost.first
    /\ boost.high = boost.last
    /\ boost.context = mark.context /\ boost.clock = mark.wall
    /\ boost.reported <= boost.evaluated
    /\ boost.evaluated - boost.clock <= mono - wall
    /\ boost.phase = "admitted" =>
         mono - boost.started >= BoostInterval /\ boost.last - boost.first >= BoostInterval

\* An interruption is not in the future.
MarkOK == mark.mono <= mono /\ \A i \in Streams : mark[i] <= reports[i]

\* A plan is of its policy, and an application grants what its plan allows.
PlanOK ==
  /\ plan.qualified => policy \in {"budget", "charge"}
  /\ plan.hold => policy = "dip"
  /\ guard.required => policy \in {"budget", "charge"}
  /\ phase = "applied" /\ plan.allowed => commanded
  /\ phase = "deciding" /\ plan.allowed /\ guard.required => plan.qualified

\* A proof of the dip is the strong measurement that may still be relied on.
DipOK ==
  /\ dip.high = strong.high
  /\ dip.proof # NoPair =>
       policy = "dip" /\ strong.at # None /\ strong.at = Older(dip.proof)

Inv == TypeInv /\ GuardSpan /\ BoostSpan /\ MarkOK /\ PlanOK /\ DipOK

\* Nothing that counts is touched by later clocks and an earlier mark.
LEMMA LaterStill ==
  \A early, late, begin, n \in Int : late >= early /\ early - begin >= n => late - begin >= n
OBVIOUS
LEMMA NotShorter ==
  \A x, y, m, w, n, v \in Int : x - y <= m - w /\ n - v >= m - w => x - y <= n - v
OBVIOUS
LEMMA SpansKept ==
  ASSUME Inv, TypeInv', UNCHANGED <<policy, guard, boost>>, mono' >= mono,
         mono' - wall' >= mono - wall, mark'.mono <= mark.mono,
         \A i \in Streams : mark'[i] <= mark[i],
         mark'.context = mark.context, mark'.wall = mark.wall
  PROVE  GuardSpan' /\ BoostSpan'
<1> USE DEF Instants, Times, Inv, TypeInv, WorldInv, HistoryInv, ProofInv
<1>0. /\ mono \in Int /\ mono' \in Int /\ wall \in Int /\ wall' \in Int
      /\ mark.mono \in Int /\ mark'.mono \in Int
      /\ \A i \in Streams : mark[i] \in Int /\ mark'[i] \in Int
  BY QualificationAssumption DEF Marks
<1>1. GuardSpan'
  <2>1. \A i \in Streams : guard.first[i] \in Int
    BY PairTyped DEF Guarded, Guards
  <2>2. /\ guard.started \in Int /\ guard.clock.mono \in Int /\ guard.clock.wall \in Int
        /\ SolarInterval \in Int
    BY QualificationAssumption DEF Guarded, Guards
  <2> SUFFICES ASSUME Counting(guard)' PROVE GuardSpan'
    BY DEF GuardSpan
  <2>3. Counting(guard)
    BY DEF Counting
  <2>4. mark'.mono <= guard.started /\ \A i \in Streams : mark'[i] <= guard.first[i]
    BY <1>0, <2>1, <2>2, <2>3 DEF GuardSpan
  <2>5. /\ guard.clock.mono - guard.clock.wall <= mono' - wall'
        /\ guard.phase = "qualified" => mono' - guard.started >= SolarInterval
    <3>1. /\ guard.clock.mono - guard.clock.wall <= mono - wall
          /\ guard.phase = "qualified" => mono - guard.started >= SolarInterval
      BY <2>3 DEF GuardSpan
    <3>2. guard.clock.mono - guard.clock.wall <= mono' - wall'
      BY <1>0, <2>2, <3>1
    <3>3. guard.phase = "qualified" => mono' - guard.started >= SolarInterval
      BY <1>0, <2>2, <3>1, LaterStill
    <3> QED
      BY <3>2, <3>3
  <2> QED
    BY <2>3, <2>4, <2>5 DEF GuardSpan
<1>2. BoostSpan'
  <2>1. /\ boost.first \in Int /\ boost.started \in Int /\ boost.evaluated \in Int
        /\ boost.clock \in Int /\ BoostInterval \in Int /\ mark.load \in Int /\ mark'.load \in Int
        /\ mark'.load <= mark.load
    BY <1>0, QualificationAssumption DEF Boosts
  <2> SUFFICES ASSUME boost.phase # "closed" PROVE BoostSpan'
    BY DEF BoostSpan
  <2>2. mark'.mono <= boost.started /\ mark'.load <= boost.first
    BY <1>0, <2>1 DEF BoostSpan
  <2>3. /\ boost.evaluated - boost.clock <= mono' - wall'
        /\ boost.phase = "admitted" => mono' - boost.started >= BoostInterval
    <3>1. /\ boost.evaluated - boost.clock <= mono - wall
          /\ boost.phase = "admitted" => mono - boost.started >= BoostInterval
      BY DEF BoostSpan
    <3>2. boost.evaluated - boost.clock <= mono' - wall'
      BY <1>0, <2>1, <3>1, NotShorter
    <3>3. boost.phase = "admitted" => mono' - boost.started >= BoostInterval
      BY <1>0, <2>1, <3>1, LaterStill
    <3> QED
      BY <3>2, <3>3
  <2> QED
    BY <2>2, <2>3 DEF BoostSpan
<1> QED
  BY <1>1, <1>2

LEMMA AdvanceInv == ASSUME Inv, Advance PROVE Inv'
<1>1. TypeInv'
  <2>1. wall' \in Times /\ mono' \in Times
    BY QualificationAssumption DEF Inv, TypeInv, WorldInv, Advance, Times
  <2> QED
    BY <2>1 DEF Inv, Advance, WorldOnly, TypeInv, WorldInv, HistoryInv, ProofInv, Guarded
<1>2. GuardSpan' /\ BoostSpan'
  <2>1. /\ mono' >= mono /\ mono' - wall' >= mono - wall /\ mark.mono <= mark.mono
        /\ \A i \in Streams : mark[i] <= mark[i]
    BY QualificationAssumption DEF Advance, Inv, TypeInv, WorldInv, HistoryInv, Marks, Times, Instants
  <2> QED
    BY <1>1, <2>1, SpansKept DEF Advance, WorldOnly
<1>3. MarkOK'
  BY QualificationAssumption
  DEF Inv, MarkOK, Advance, TypeInv, WorldInv, HistoryInv, Marks, Times, Instants
<1>4. PlanOK' /\ DipOK'
  BY DEF Inv, PlanOK, DipOK, Advance, WorldOnly
<1> QED
  BY <1>1, <1>2, <1>3, <1>4 DEF Inv
LEMMA SetClockInv == ASSUME Inv, SetClock PROVE Inv'
<1>1. TypeInv'
  BY QualificationAssumption
  DEF Inv, SetClock, WorldOnly, TypeInv, WorldInv, HistoryInv, ProofInv, Times, Guarded
<1>2. GuardSpan' /\ BoostSpan'
  <2>1. /\ mono' >= mono /\ mono' - wall' >= mono - wall /\ mark.mono <= mark.mono
        /\ \A i \in Streams : mark[i] <= mark[i]
    BY QualificationAssumption DEF SetClock, Inv, TypeInv, WorldInv, HistoryInv, Marks, Times, Instants
  <2> QED
    BY <1>1, <2>1, SpansKept DEF SetClock, WorldOnly
<1>3. MarkOK'
  BY DEF Inv, MarkOK, SetClock
<1>4. PlanOK' /\ DipOK'
  BY DEF Inv, PlanOK, DipOK, SetClock, WorldOnly
<1> QED
  BY <1>1, <1>2, <1>3, <1>4 DEF Inv

LEMMA ReportInv == ASSUME Inv, NEW i \in Streams, Report(i) PROVE Inv'
<1> USE DEF Inv
<1>1. \E n \in Instants : reports' = [reports EXCEPT ![i] = n]
  <2>1. CASE reports' = [reports EXCEPT ![i] = wall]
    BY <2>1, PairTyped DEF TypeInv, WorldInv
  <2>2. CASE reports[i] > 1 /\ reports' = [reports EXCEPT ![i] = @ - 1]
    <3>1. reports[i] \in Instants
      BY PairTyped DEF TypeInv, WorldInv
    <3>2. reports[i] - 1 \in Instants
      BY <2>2, <3>1, QualificationAssumption DEF Instants
    <3> QED
      BY <2>2, <3>2
  <2> QED
    BY <2>1, <2>2 DEF Report
<1> PICK n \in Instants : reports' = [reports EXCEPT ![i] = n]
  BY <1>1
<1>2. /\ reports' \in Pairs /\ reports'[i] = n
      /\ \A k \in Streams : k # i => reports'[k] = reports[k]
  BY DEF TypeInv, WorldInv, Pairs
<1>3. mark' = IF n < mark[i] THEN [mark EXCEPT ![i] = n] ELSE mark
  BY <1>2 DEF Report
<1>4. /\ mark' \in Marks /\ mark'.mono = mark.mono /\ mark'.wall = mark.wall
      /\ mark'.context = mark.context
      /\ mark'[i] = IF n < mark[i] THEN n ELSE mark[i]
      /\ \A k \in Streams : k # i => mark'[k] = mark[k]
  <2>1. CASE i = "pv"
    BY <1>3, <2>1 DEF TypeInv, HistoryInv, Marks
  <2>2. CASE i = "load"
    BY <1>3, <2>2 DEF TypeInv, HistoryInv, Marks
  <2> QED
    BY <2>1, <2>2
<1>5. /\ n \in Int /\ mono \in Int /\ wall \in Int
      /\ \A k \in Streams : mark[k] \in Int /\ reports[k] \in Int
      /\ mark.mono \in Int
  BY PairTyped, QualificationAssumption DEF TypeInv, WorldInv, HistoryInv, Marks, Instants, Times
<1>6. TypeInv'
  BY <1>2, <1>4 DEF Report, WorldOnly, TypeInv, WorldInv, HistoryInv, ProofInv, Guarded
<1>7. GuardSpan' /\ BoostSpan'
  <2>1. /\ mono' >= mono /\ mono' - wall' >= mono - wall /\ mark'.mono <= mark.mono
        /\ \A k \in Streams : mark'[k] <= mark[k]
    BY <1>4, <1>5 DEF Report
  <2> QED
    BY <1>4, <1>6, <2>1, SpansKept DEF Report, WorldOnly
<1>8. MarkOK'
  BY <1>2, <1>4, <1>5 DEF MarkOK, Report
<1>9. PlanOK' /\ DipOK'
  BY DEF PlanOK, DipOK, Report, WorldOnly
<1> QED
  BY <1>6, <1>7, <1>8, <1>9

\* A step of the world that neither clock nor report sees.
LEMMA UnchangedSpans ==
  ASSUME Inv, UNCHANGED <<policy, guard, boost, mono, wall, mark>>
  PROVE  GuardSpan' /\ BoostSpan'
BY DEF Inv, GuardSpan, BoostSpan
LEMMA ConditionsInv == ASSUME Inv, Conditions \/ ChangeContext PROVE Inv'
<1>1. UNCHANGED <<wall, mono, reports, dip, mark, policy, phase, s, plan, held, commanded,
                  guard, boost, strong>>
  BY DEF Conditions, ChangeContext, WorldOnly
<1>2. usable' \in BOOLEAN /\ context' \in {1, 2}
  <2>1. context \in {1, 2} => 3 - context \in {1, 2}
    OBVIOUS
  <2> QED
    BY <2>1 DEF Inv, TypeInv, WorldInv, Conditions, ChangeContext
<1>3. TypeInv'
  BY <1>1, <1>2 DEF Inv, TypeInv, WorldInv, HistoryInv, ProofInv, Guarded
<1> QED
  BY <1>1, <1>3, UnchangedSpans DEF Inv, MarkOK, PlanOK, DipOK
LEMMA ReconnectInv == ASSUME Inv, Reconnect PROVE Inv'
<1>1. /\ UNCHANGED <<world, policy, phase, s, plan, held, commanded, guard, boost, mark>>
      /\ dip' = [dip EXCEPT !.proof = NoPair] /\ strong' = [strong EXCEPT !.at = None]
  BY DEF Reconnect
<1>2. /\ dip' \in Dips /\ dip'.proof = NoPair /\ dip'.high = dip.high
      /\ strong' \in [at : Instants, high : Pairs] /\ strong'.high = strong.high
  BY <1>1, PairTyped DEF Inv, TypeInv, ProofInv, HistoryInv, Dips
<1>3. TypeInv'
  BY <1>1, <1>2 DEF Inv, TypeInv, WorldInv, HistoryInv, ProofInv, Guarded
<1> QED
  BY <1>1, <1>2, <1>3, UnchangedSpans DEF Inv, MarkOK, PlanOK, DipOK

-----------------------------------------------------------------------------
(* The tick decides                                                        *)

\* An interruption is now, and now is not in the future.
LEMMA InterruptedFacts ==
  ASSUME Inv, UNCHANGED world, Interrupted
  PROVE  /\ mark' \in Marks /\ MarkOK'
         /\ policy = "evening" \/ guard'.required =>
              /\ mark'.mono = mono /\ mark'.wall = wall /\ mark'.context = context
              /\ \A i \in Streams : mark'[i] = reports[i]
<1>1. /\ mono \in Instants /\ wall \in Instants /\ context \in 0..2
      /\ reports.pv \in Instants /\ reports.load \in Instants
  BY PairTyped DEF Inv, TypeInv, WorldInv, Pairs
<1>2. Marked \in Marks
  BY <1>1 DEF Marks, Marked
<1>3. /\ Marked.mono = mono /\ Marked.wall = wall /\ Marked.context = context
      /\ \A i \in Streams : Marked[i] = reports[i]
  BY DEF Marked
<1>4. /\ NoMark \in Marks /\ NoMark.mono = 0 /\ \A i \in Streams : NoMark[i] = 0
  BY NothingTyped DEF NoMark
<1>5. /\ mono <= mono /\ \A i \in Streams : reports[i] <= reports[i] /\ 0 <= reports[i]
      /\ 0 <= mono
  BY <1>1 DEF Instants
<1> QED
  BY <1>2, <1>3, <1>4, <1>5 DEF Interrupted, MarkOK

\* The guard of a tick counts only for a permission that is wanted.
LEMMA SolarJudged ==
  ASSUME Inv, policy \in {"budget", "charge"}, NEW kind \in AllKinds
  PROVE  LET g == IF policy = "budget" THEN BudgetTick(kind) ELSE ChargeTick(kind)
         IN /\ Guarded(g) /\ (guard.required => g.required)
            /\ Counting(g) => g = Evaluated(guard, TRUE, SolarReports(reports))
                              /\ kind = "wanted"
<1>1. WorldInv /\ Guarded(guard) /\ SolarReports(reports) \in Pairs
  BY ReportsTyped DEF Inv, TypeInv, WorldInv, ProofInv
<1>2. CASE policy = "budget"
  <2> DEFINE armed == IF kind = "failed" /\ held THEN Armed(guard) ELSE guard
             judged == Evaluated(armed, kind \in {"wanted", "outbid"}, SolarReports(reports))
  <2>1. Guarded(armed) /\ (guard.required => armed.required)
    BY <1>1, ArmedFacts
  <2> HIDE DEF armed
  <2>2. Guarded(judged) /\ judged.required = armed.required
    BY <1>1, <2>1, EvaluatedFacts
  <2>3. BudgetTick(kind) = IF judged.required /\ kind # "wanted" THEN Reset(judged) ELSE judged
    BY DEF BudgetTick, armed
  <2>4. Counting(judged) => judged.required
    BY <2>2 DEF Guarded, Counting
  <2>5. kind = "wanted" => judged = Evaluated(guard, TRUE, SolarReports(reports))
    BY DEF armed
  <2> HIDE DEF judged
  <2> QED
    BY <1>2, <2>1, <2>2, <2>3, <2>4, <2>5, ResetFacts
<1>3. CASE policy = "charge"
  <2>1. /\ Guarded(Evaluated(guard, TRUE, SolarReports(reports)))
        /\ Evaluated(guard, TRUE, SolarReports(reports)).required = guard.required
    BY <1>1, EvaluatedFacts
  <2>2. Counting(guard) => guard.required
    BY <1>1 DEF Guarded, Counting
  <2> QED
    BY <1>1, <1>3, <2>1, <2>2, ResetFacts DEF ChargeTick
<1> QED
  BY <1>2, <1>3

\* What it counts it counts since the mark the tick leaves.
LEMMA NotLaterThan ==
  \A a, c, w, m, v \in Int : c - w <= m - v /\ a <= c /\ v >= w => a <= m /\ m - a >= v - w
OBVIOUS
LEMMA SolarSpan ==
  ASSUME Inv, Counting(guard'), UNCHANGED world, policy \in {"budget", "charge"},
         NEW e, e = Evaluated(guard, TRUE, SolarReports(reports)),
         guard' = [e EXCEPT !.same = TRUE], UNCHANGED policy,
         Follow("wanted", SolarReports(reports) # NoPair)
  PROVE  GuardSpan'
<1> DEFINE R == SolarReports(reports)
           on == context = mark.context /\ wall - mark.wall \in 0..MaxGap
<1>1. WorldInv /\ Guarded(guard) /\ R \in {reports, NoPair} /\ R \in Pairs
  BY ReportsTyped DEF Inv, TypeInv, WorldInv, ProofInv
<1>2. Guarded(e)
  BY <1>1, EvaluatedFacts
<1>3. /\ guard'.phase = e.phase /\ guard'.reports = e.reports /\ guard'.first = e.first
      /\ guard'.started = e.started /\ guard'.advanced = e.advanced /\ guard'.clock = e.clock
      /\ guard'.identity = e.identity /\ guard'.high = e.high /\ guard'.required = e.required
  BY <1>2 DEF Guarded, Guards
<1>4. Counting(e) /\ guard'.required
  BY <1>2, <1>3 DEF Counting, Guarded
<1>5. /\ wall >= guard.clock.wall /\ FreshWithin(R, MaxGap)
      /\ \/ Begun(e, R)
         \/ /\ context = guard.identity /\ Counting(guard)
            /\ \A i \in Streams : R[i] >= guard.high[i]
            /\ Follows([guard EXCEPT !.clock = Now], e, R)
  BY <1>1, <1>4, EvaluatedFacts
<1>6. R = reports /\ R # NoPair
  BY <1>1, <1>5 DEF FreshWithin, NoPair, Pair
<1>7. IF on THEN mark' = [mark EXCEPT !.wall = wall] ELSE Interrupted
  BY <1>6 DEF Follow
<1>8. /\ mono \in Int /\ wall \in Int /\ mark.wall \in Int /\ mark.mono \in Int
      /\ \A i \in Streams : /\ reports[i] \in Int /\ guard.first[i] \in Int
                            /\ guard.reports[i] \in Int /\ guard.advanced[i] \in Int
                            /\ mark[i] \in Int
      /\ guard.clock.wall \in Int /\ guard.clock.mono \in Int /\ guard.started \in Int
      /\ MaxGap \in Int /\ SolarInterval \in Int
  BY PairTyped, QualificationAssumption
  DEF Inv, TypeInv, WorldInv, HistoryInv, ProofInv, Marks, Guarded, Guards, Instants, Times
<1>9. \A i \in Streams : reports[i] <= wall
  BY <1>5, <1>6, <1>8 DEF FreshWithin
<1> HIDE DEF R
<1>10. on => /\ mark'.mono = mark.mono /\ mark'.wall = wall /\ mark'.context = context
             /\ \A i \in Streams : mark'[i] = mark[i]
  BY <1>7 DEF Inv, TypeInv, HistoryInv, Marks
<1>11. ~on => /\ mark'.mono = mono /\ mark'.wall = wall /\ mark'.context = context
              /\ \A i \in Streams : mark'[i] = reports[i]
  BY <1>4, <1>7, InterruptedFacts
<1>12. /\ mark'.wall = wall /\ mark'.context = context
       /\ mark'.mono <= mono /\ \A i \in Streams : mark'[i] <= reports[i]
  BY <1>8, <1>10, <1>11 DEF Inv, MarkOK
<1>13. CASE Begun(e, R)
  <2>1. /\ e.phase = "qualifying" /\ e.high = e.reports /\ e.identity = context
        /\ e.started = mono /\ e.first = reports /\ e.reports = reports
        /\ \A i \in Streams : e.advanced[i] = mono
        /\ e.clock.wall = wall /\ e.clock.mono = mono
    <3>1. Begun(e, reports)
      BY <1>6, <1>13
    <3>2. Now.wall = wall /\ Now.mono = mono
      BY DEF Now
    <3> QED
      BY <3>1, <3>2 DEF Begun
  <2>2. mono <= mono /\ mono - wall <= mono - wall
    BY <1>8
  <2> QED
    BY <1>3, <1>9, <1>12, <2>1, <2>2 DEF GuardSpan
<1>14. CASE /\ context = guard.identity /\ Counting(guard)
            /\ \A i \in Streams : R[i] >= guard.high[i]
            /\ Follows([guard EXCEPT !.clock = Now], e, R)
  <2>1. /\ mark.mono <= guard.started
        /\ \A i \in Streams : /\ mark[i] <= guard.first[i]
                              /\ guard.advanced[i] <= guard.clock.mono
        /\ guard.high = guard.reports
        /\ guard.identity = mark.context /\ guard.clock.wall = mark.wall
        /\ guard.clock.mono - guard.clock.wall <= mono - wall
        /\ guard.phase = "qualified" =>
             /\ mono - guard.started >= SolarInterval
             /\ \A i \in Streams : guard.reports[i] - guard.first[i] >= SolarInterval
    BY <1>14 DEF Inv, GuardSpan
  <2> DEFINE g == [guard EXCEPT !.clock = Now]
  <2>2. /\ g.first = guard.first /\ g.started = guard.started /\ g.identity = guard.identity
        /\ g.clock = Now /\ g.reports = guard.reports /\ g.advanced = guard.advanced
        /\ g.phase = guard.phase
    BY <1>1 DEF Guarded, Guards
  <2>3. Follows(g, e, R)
    BY <1>14
  <2> HIDE DEF g
  <2>4. /\ e.first = guard.first /\ e.started = guard.started /\ e.identity = context
        /\ e.clock.wall = wall /\ e.clock.mono = mono /\ e.reports = reports
        /\ e.high = e.reports
        /\ \A i \in Streams : e.advanced[i] = IF reports[i] > guard.reports[i]
                                                THEN mono ELSE guard.advanced[i]
        /\ \A i \in Streams : mono - guard.advanced[i] <= MaxGap
        /\ e.phase = "qualified" =>
             guard.phase = "qualified" \/ Matures(g, guard.reports, reports)
    <3>1. Follows(g, e, reports)
      BY <1>6, <2>3
    <3>2. Now.wall = wall /\ Now.mono = mono
      BY DEF Now
    <3> QED
      BY <1>14, <2>2, <3>1, <3>2 DEF Follows
  <2>5. \A i \in Streams : /\ guard.advanced[i] <= mono
                           /\ mono - guard.advanced[i] >= wall - guard.clock.wall
    <3> SUFFICES ASSUME NEW i \in Streams
                 PROVE  /\ guard.advanced[i] <= mono
                        /\ mono - guard.advanced[i] >= wall - guard.clock.wall
      OBVIOUS
    <3>1. guard.advanced[i] \in Int /\ guard.advanced[i] <= guard.clock.mono
      BY <1>8, <2>1
    <3>2. /\ guard.clock.mono \in Int /\ guard.clock.wall \in Int /\ mono \in Int /\ wall \in Int
          /\ guard.clock.mono - guard.clock.wall <= mono - wall /\ wall >= guard.clock.wall
      BY <1>5, <1>8, <2>1
    <3> QED
      BY <3>1, <3>2, NotLaterThan
  <2>6. on
    <3>1. wall - mark.wall <= MaxGap
      BY <1>8, <2>1, <2>4, <2>5
    <3>2. wall - mark.wall \in 0..MaxGap
      BY <1>5, <1>8, <2>1, <3>1
    <3> QED
      BY <1>14, <2>1, <3>2
  <2>7. /\ mark'.mono <= e.started /\ \A i \in Streams : mark'[i] <= e.first[i]
        /\ \A i \in Streams : e.advanced[i] <= mono
    <3>0. mono <= mono
      BY <1>8
    <3>1. \A i \in Streams : e.advanced[i] <= mono
      BY <2>4, <2>5, <3>0
    <3> QED
      BY <1>10, <2>1, <2>4, <2>6, <3>1
  <2>8. e.phase = "qualified" => /\ mono - e.started >= SolarInterval
                                 /\ \A i \in Streams : e.reports[i] - e.first[i] >= SolarInterval
    <3>1. CASE guard.phase = "qualified"
      <4>1. \A i \in Streams : reports[i] >= guard.reports[i]
        BY <1>6, <1>14, <2>1
      <4>2. \A i \in Streams : guard.reports[i] - guard.first[i] >= SolarInterval
        BY <2>1, <3>1
      <4>3. \A i \in Streams : reports[i] - guard.first[i] >= SolarInterval
        BY <1>8, <4>1, <4>2, LaterStill
      <4> QED
        BY <2>1, <2>4, <3>1, <4>3
    <3>2. CASE Matures(g, guard.reports, reports)
      BY <2>2, <2>4, <3>2 DEF Matures
    <3> QED
      BY <2>4, <3>1, <3>2
  <2>9. mono - wall <= mono - wall
    BY <1>8
  <2> HIDE DEF on
  <2> QED
    BY <1>3, <1>9, <1>12, <2>4, <2>7, <2>8, <2>9 DEF GuardSpan
<1> QED
  BY <1>5, <1>13, <1>14

LEMMA EveningSpan ==
  ASSUME Inv, boost'.phase # "closed", UNCHANGED <<world, policy>>, policy = "evening",
         NEW kind \in AllKinds, NEW settled,
         NEW e, e = BoostEvaluated(boost, kind = "wanted", BoostReport(reports), settled),
         boost' = [e EXCEPT !.same = TRUE],
         Follow(kind, BoostReport(reports) # None)
  PROVE  BoostSpan'
<1> DEFINE stamp == BoostReport(reports)
           on == context = mark.context /\ wall - mark.wall \in 0..MaxGap
<1>1. WorldInv /\ boost \in Boosts /\ stamp \in Instants
  BY ReportsTyped DEF Inv, TypeInv, WorldInv, ProofInv
<1>2. e \in Boosts
  BY <1>1, BoostEvaluatedFacts
<1>3. /\ boost'.phase = e.phase /\ boost'.first = e.first /\ boost'.last = e.last
      /\ boost'.started = e.started /\ boost'.reported = e.reported
      /\ boost'.evaluated = e.evaluated /\ boost'.context = e.context
      /\ boost'.high = e.high /\ boost'.clock = e.clock
  BY <1>2 DEF Boosts
<1> HIDE DEF stamp
<1>4. /\ e.phase # "closed" /\ wall >= boost.clock /\ kind = "wanted" /\ stamp # None
      /\ BoostBegun(e, stamp) \/ BoostFollows(boost, e, stamp)
  <2>1. e = BoostEvaluated(boost, kind = "wanted", stamp, settled)
    BY DEF stamp
  <2>2. e.phase # "closed"
    BY <1>3
  <2> DEFINE wanted == kind = "wanted"
  <2>3. e = BoostEvaluated(boost, wanted, stamp, settled)
    BY <2>1
  <2> HIDE DEF wanted
  <2>4. /\ wall >= boost.clock /\ wanted /\ stamp # None
        /\ BoostBegun(e, stamp) \/ BoostFollows(boost, e, stamp)
    BY <1>1, <2>2, <2>3, BoostEvaluatedFacts
  <2> QED
    BY <2>2, <2>4 DEF wanted
<1>5. stamp = reports.load
  BY <1>4 DEF stamp, BoostReport
<1>6. IF on THEN mark' = [mark EXCEPT !.wall = wall] ELSE Interrupted
  BY <1>4 DEF Follow, stamp
<1>7. /\ mono \in Int /\ wall \in Int /\ mark.wall \in Int /\ mark.mono \in Int
      /\ mark.load \in Int /\ reports.load \in Int /\ MaxGap \in Int /\ BoostInterval \in Int
      /\ boost.first \in Int /\ boost.last \in Int /\ boost.started \in Int
      /\ boost.reported \in Int /\ boost.evaluated \in Int /\ boost.clock \in Int
  BY PairTyped, QualificationAssumption
  DEF Inv, TypeInv, WorldInv, HistoryInv, ProofInv, Marks, Boosts, Instants, Times
<1>8. on => /\ mark'.mono = mark.mono /\ mark'.wall = wall /\ mark'.context = context
            /\ mark'.load = mark.load
  BY <1>6 DEF Inv, TypeInv, HistoryInv, Marks
<1>9. ~on => /\ mark'.mono = mono /\ mark'.wall = wall /\ mark'.context = context
             /\ mark'.load = reports.load
  BY <1>6, InterruptedFacts
<1>10. /\ mark'.wall = wall /\ mark'.context = context
       /\ mark'.mono <= mono /\ mark'.load <= reports.load
  BY <1>7, <1>8, <1>9 DEF Inv, MarkOK
<1>11. mono <= mono /\ mono - wall <= mono - wall
  BY <1>7
<1>12. CASE BoostBegun(e, stamp)
  BY <1>3, <1>5, <1>10, <1>11, <1>12 DEF BoostBegun, BoostSpan
<1>13. CASE BoostFollows(boost, e, stamp)
  <2>1. /\ boost.phase # "closed" /\ context = boost.context
        /\ stamp >= boost.high /\ mono - boost.reported <= MaxGap
        /\ e.first = boost.first /\ e.started = boost.started /\ e.context = context
        /\ e.last = (IF stamp > boost.last THEN stamp ELSE boost.last) /\ e.high = stamp
        /\ e.reported = (IF stamp > boost.last THEN mono ELSE boost.reported)
        /\ e.evaluated = mono /\ e.clock = wall
    BY <1>13 DEF BoostFollows
  <2>2. /\ mark.mono <= boost.started /\ mark.load <= boost.first
        /\ boost.high = boost.last
        /\ boost.context = mark.context /\ boost.clock = mark.wall
        /\ boost.reported <= boost.evaluated
        /\ boost.evaluated - boost.clock <= mono - wall
        /\ boost.phase = "admitted" =>
             mono - boost.started >= BoostInterval /\ boost.last - boost.first >= BoostInterval
    BY <2>1 DEF Inv, BoostSpan
  <2>3. boost.reported <= mono /\ mono - boost.reported >= wall - boost.clock
    BY <1>4, <1>7, <2>2, NotLaterThan
  <2>4. on
    <3>1. wall - mark.wall <= MaxGap
      BY <1>7, <2>1, <2>2, <2>3
    <3>2. wall - mark.wall \in 0..MaxGap
      BY <1>4, <1>7, <2>2, <3>1
    <3> QED
      BY <2>1, <2>2, <3>2
  <2>5. e.last = e.high /\ e.reported <= mono
    BY <1>5, <1>7, <2>1, <2>2, <2>3
  <2>6. e.phase = "admitted" => /\ mono - e.started >= BoostInterval
                                /\ e.last - e.first >= BoostInterval
    <3> SUFFICES ASSUME e.phase = "admitted"
                 PROVE  mono - e.started >= BoostInterval /\ e.last - e.first >= BoostInterval
      OBVIOUS
    <3>1. CASE boost.phase = "admitted"
      <4>1. boost.last - boost.first >= BoostInterval /\ stamp >= boost.last
        BY <2>1, <2>2, <3>1
      <4>2. stamp - boost.first >= BoostInterval
        BY <1>5, <1>7, <4>1, LaterStill
      <4> QED
        BY <2>1, <2>2, <2>5, <3>1, <4>2
    <3>2. CASE ~(boost.phase = "admitted")
      <4>1. stamp > boost.last /\ mono - boost.started >= BoostInterval
            /\ stamp - boost.first >= BoostInterval
        BY <1>13, <3>2 DEF BoostFollows
      <4> QED
        BY <2>1, <2>5, <4>1
    <3> QED
      BY <3>1, <3>2
  <2> HIDE DEF on
  <2> QED
    BY <1>3, <1>8, <1>10, <1>11, <2>1, <2>2, <2>4, <2>5, <2>6 DEF BoostSpan
<1> QED
  BY <1>4, <1>12, <1>13

\* The history a tick of a waiting permission leaves.
LEMMA FollowFacts ==
  ASSUME Inv, UNCHANGED world, NEW kind, NEW counted, Follow(kind, counted)
  PROVE  mark' \in Marks /\ MarkOK'
<1>1. CASE mark' = [mark EXCEPT !.wall = wall]
  <2>1. /\ mark' \in Marks /\ mark'.mono = mark.mono
        /\ \A i \in Streams : mark'[i] = mark[i]
    BY <1>1, PairTyped DEF Inv, TypeInv, HistoryInv, WorldInv, Marks
  <2> QED
    BY <2>1 DEF Inv, MarkOK
<1>2. CASE Interrupted
  BY <1>2, InterruptedFacts
<1> QED
  BY <1>1, <1>2 DEF Follow

LEMMA TickInv == ASSUME Inv, NEW kind \in Kinds[policy], Tick(kind) PROVE Inv'
<1> USE DEF Inv
<1>1. kind \in AllKinds
  BY DEF Kinds, AllKinds, TypeInv, WorldInv
<1>2. /\ phase' = "deciding" /\ s' = reports /\ commanded' = FALSE
      /\ UNCHANGED <<policy, world, held>>
  BY DEF Tick
<1>3. /\ policy = "evening" => DecideEvening(kind)
      /\ policy = "dip" => DecideDip(kind)
      /\ policy \in {"budget", "charge"} => DecideSolar(kind)
  BY DEF Tick
<1>4. CASE policy \in {"budget", "charge"}
  <2> DEFINE g == IF policy = "budget" THEN BudgetTick(kind) ELSE ChargeTick(kind)
             allowed == kind = "wanted" /\ (~g.required \/ g.phase = "qualified")
  <2>1. /\ guard' = [g EXCEPT !.same = TRUE]
        /\ plan' = [NoPlan EXCEPT !.kind = kind, !.allowed = allowed,
                                  !.qualified = allowed /\ g.required]
        /\ Follow(kind, SolarReports(reports) # NoPair)
        /\ UNCHANGED <<boost, dip, strong>>
    BY <1>3, <1>4 DEF DecideSolar
  <2>2. /\ Guarded(g)
        /\ Counting(g) => g = Evaluated(guard, TRUE, SolarReports(reports)) /\ kind = "wanted"
    BY <1>1, <1>4, SolarJudged
  <2> HIDE DEF g
  <2>3. Guarded(guard') /\ guard'.phase = g.phase /\ guard'.required = g.required
    BY <2>1, <2>2 DEF Guarded, Guards, Counting
  <2>4. mark' \in Marks /\ MarkOK'
    BY <1>2, <2>1, FollowFacts
  <2>5. /\ plan' \in Plans /\ plan'.hold = FALSE /\ plan'.allowed = allowed
        /\ plan'.qualified = (allowed /\ g.required)
    BY <1>1, <2>1, <2>2, NothingTyped DEF NoPlan, Plans, Guarded, Guards
  <2>6. TypeInv'
    BY <1>2, <2>1, <2>3, <2>4, <2>5 DEF TypeInv, WorldInv, HistoryInv, ProofInv, Guarded, Counting
  <2>7. GuardSpan'
    <3>1. CASE Counting(guard')
      <4>1. Counting(g)
        BY <2>3, <3>1 DEF Counting
      <4>2. Follow("wanted", SolarReports(reports) # NoPair)
        BY <2>1, <2>2, <4>1
      <4> QED
        BY <1>2, <1>4, <2>1, <2>2, <3>1, <4>1, <4>2, SolarSpan
    <3>2. CASE ~Counting(guard')
      BY <3>2 DEF GuardSpan, Counting
    <3> QED
      BY <3>1, <3>2
  <2>8. BoostSpan'
    BY <1>4, <2>1 DEF BoostSpan
  <2>9. PlanOK'
    BY <1>2, <1>4, <2>3, <2>5 DEF PlanOK
  <2>10. DipOK'
    BY <1>2, <2>1 DEF DipOK
  <2> QED
    BY <2>4, <2>6, <2>7, <2>8, <2>9, <2>10
<1>5. CASE policy = "evening"
  <2>1. PICK settled \in BOOLEAN :
          LET b == BoostEvaluated(boost, kind = "wanted", BoostReport(reports), settled)
          IN /\ boost' = [b EXCEPT !.same = TRUE]
             /\ plan' = [NoPlan EXCEPT !.kind = kind,
                                       !.allowed = kind = "wanted" /\ b.phase = "admitted"]
             /\ Follow(kind, BoostReport(reports) # None)
             /\ UNCHANGED <<guard, dip, strong>>
    BY <1>3, <1>5 DEF DecideEvening
  <2> DEFINE b == BoostEvaluated(boost, kind = "wanted", BoostReport(reports), settled)
  <2>2. b \in Boosts
    BY BoostEvaluatedFacts, ReportsTyped DEF TypeInv, WorldInv, ProofInv
  <2>3. /\ boost' = [b EXCEPT !.same = TRUE]
        /\ plan' = [NoPlan EXCEPT !.kind = kind,
                                  !.allowed = kind = "wanted" /\ b.phase = "admitted"]
        /\ Follow(kind, BoostReport(reports) # None)
        /\ UNCHANGED <<guard, dip, strong>>
    BY <2>1
  <2>4. BoostSpan'
    <3>1. CASE boost'.phase # "closed"
      BY <1>1, <1>2, <1>5, <2>3, <3>1, EveningSpan
    <3>2. CASE boost'.phase = "closed"
      BY <3>2 DEF BoostSpan
    <3> QED
      BY <3>1, <3>2
  <2> HIDE DEF b
  <2>5. boost' \in Boosts
    BY <2>2, <2>3 DEF Boosts
  <2>6. plan' \in Plans /\ plan'.hold = FALSE /\ plan'.qualified = FALSE
    BY <1>1, <2>3, NothingTyped DEF NoPlan, Plans
  <2>7. mark' \in Marks /\ MarkOK'
    BY <1>2, <2>3, FollowFacts
  <2>8. TypeInv'
    BY <1>2, <2>3, <2>5, <2>6, <2>7 DEF TypeInv, WorldInv, HistoryInv, ProofInv, Guarded, Counting
  <2>9. GuardSpan' /\ PlanOK' /\ DipOK'
    BY <1>2, <1>5, <2>3, <2>6 DEF GuardSpan, PlanOK, DipOK, Counting
  <2> QED
    BY <2>4, <2>7, <2>8, <2>9
<1>6. CASE policy = "dip"
  <2> DEFINE x == DipJudged(dip, DipEvidence(reports))
             hold == kind = "weak" /\ held /\ x.proof # NoPair
  <2>1. /\ dip' = x
        /\ plan' = [NoPlan EXCEPT !.kind = kind, !.hold = hold, !.regressed = wall < dip.clock,
                                  !.allowed = kind \in {"strong", "steady"} \/ hold]
        /\ strong' = IF DipEvidence(reports) = NoPair \/ wall < dip.clock
                       THEN [strong EXCEPT !.at = None] ELSE strong
        /\ UNCHANGED <<guard, boost, mark>>
    BY <1>3, <1>6 DEF DecideDip
  <2>2. /\ x \in Dips /\ x.high = dip.high
        /\ x.proof # NoPair => x.proof = dip.proof /\ DipEvidence(reports) # NoPair
                               /\ wall >= dip.clock
    <3>1. x \in Dips
      BY DipTyped, ReportsTyped DEF TypeInv, WorldInv, ProofInv
    <3> QED
      BY <3>1 DEF DipJudged, TypeInv, ProofInv, Dips
  <2> HIDE DEF x
  <2>3. plan' \in Plans /\ plan'.qualified = FALSE
    <3> DEFINE allowed == kind \in {"strong", "steady"} \/ hold
               regressed == wall < dip.clock
    <3>1. hold \in BOOLEAN /\ allowed \in BOOLEAN /\ regressed \in BOOLEAN
      OBVIOUS
    <3>2. plan' = [NoPlan EXCEPT !.kind = kind, !.hold = hold, !.regressed = regressed,
                                 !.allowed = allowed]
      BY <2>1
    <3> HIDE DEF hold, allowed, regressed
    <3> QED
      BY <1>1, <3>1, <3>2, NothingTyped DEF NoPlan, Plans
  <2>4. strong' \in [at : Instants, high : Pairs] /\ strong'.high = strong.high
    BY <2>1, PairTyped DEF TypeInv, HistoryInv
  <2>5. TypeInv'
    BY <1>2, <2>1, <2>2, <2>3, <2>4 DEF TypeInv, WorldInv, HistoryInv, ProofInv, Guarded, Counting
  <2>6. GuardSpan' /\ BoostSpan' /\ MarkOK'
    BY <1>2, <1>6, <2>1 DEF GuardSpan, BoostSpan, MarkOK, Counting
  <2>7. PlanOK'
    BY <1>2, <1>6, <2>1, <2>3 DEF PlanOK, Counting
  <2>8. DipOK'
    <3>1. dip'.proof # NoPair => strong' = strong /\ dip'.proof = dip.proof
      <4>1. wall \in Int /\ dip.clock \in Int
        BY DEF TypeInv, WorldInv, ProofInv, Dips, Times, Instants
      <4> QED
        BY <2>1, <2>2, <4>1
    <3> QED
      BY <1>2, <2>1, <2>2, <2>4, <3>1 DEF DipOK
  <2> QED
    BY <2>5, <2>6, <2>7, <2>8
<1> QED
  BY <1>4, <1>5, <1>6 DEF TypeInv, WorldInv

-----------------------------------------------------------------------------
(* The application and its end                                             *)

\* A retired proof counts nothing, and an unfulfilled latch stays.
LEMMA RetireFacts ==
  ASSUME Inv, Retire, Interrupted, strong' = [strong EXCEPT !.at = None],
         UNCHANGED <<world, policy>>
  PROVE  /\ HistoryInv' /\ ProofInv' /\ guard'.required = guard.required
         /\ GuardSpan' /\ BoostSpan' /\ MarkOK' /\ DipOK'
<1> USE DEF Inv
<1>1. Guarded(guard) /\ boost \in Boosts /\ dip \in Dips
  BY DEF TypeInv, ProofInv
<1>2. Guarded(guard') /\ guard'.required = guard.required /\ ~Counting(guard')
  BY <1>1, ResetFacts DEF Retire, GuardSpan, TypeInv, WorldInv
<1>3. boost' \in Boosts /\ boost'.phase = "closed"
  BY <1>1, BoostResetTyped DEF Retire, BoostSpan
<1>4. dip' \in Dips /\ dip'.high = dip.high /\ dip'.proof = NoPair
  BY <1>1, PairTyped DEF Retire, DipOK, Dips
<1>5. strong' \in [at : Instants, high : Pairs] /\ strong'.high = strong.high
  BY PairTyped DEF TypeInv, HistoryInv
<1>6. mark' \in Marks /\ MarkOK'
  BY InterruptedFacts
<1>7. HistoryInv' /\ ProofInv'
  BY <1>2, <1>3, <1>4, <1>5, <1>6 DEF HistoryInv, ProofInv, Guarded, Counting
<1>8. GuardSpan' /\ BoostSpan' /\ DipOK'
  BY <1>2, <1>3, <1>4, <1>5 DEF GuardSpan, BoostSpan, DipOK, Counting
<1> QED
  BY <1>2, <1>6, <1>7, <1>8

LEMMA DispatchInv == ASSUME Inv, Dispatch PROVE Inv'
<1> USE DEF Inv
<1>1. phase = "deciding" /\ UNCHANGED <<policy, world, held>>
  BY DEF Dispatch
<1>2. CASE ~plan.allowed \/ StillCurrent
  <2>1. /\ phase' = "applied" /\ commanded' = plan.allowed
        /\ UNCHANGED <<s, proofs, plan, history>>
    BY <1>2 DEF Dispatch
  <2>2. plan.allowed \in BOOLEAN
    BY DEF TypeInv, WorldInv, Plans
  <2>3. TypeInv'
    BY <1>1, <2>1, <2>2 DEF TypeInv, WorldInv, HistoryInv, ProofInv, Guarded, Counting
  <2>4. GuardSpan' /\ BoostSpan' /\ MarkOK' /\ DipOK'
    BY <1>1, <2>1 DEF GuardSpan, BoostSpan, MarkOK, DipOK, Counting
  <2>5. PlanOK'
    BY <1>1, <2>1 DEF PlanOK
  <2> QED
    BY <2>3, <2>4, <2>5
<1>3. CASE ~(~plan.allowed \/ StillCurrent)
  <2>1. /\ Retire /\ Interrupted /\ strong' = [strong EXCEPT !.at = None]
        /\ IF policy = "charge"
             THEN /\ phase' = "applied" /\ plan' = [plan EXCEPT !.allowed = FALSE]
                  /\ UNCHANGED <<s, commanded>>
             ELSE Over
    BY <1>3 DEF Dispatch
  <2>2. /\ HistoryInv' /\ ProofInv' /\ guard'.required = guard.required
        /\ GuardSpan' /\ BoostSpan' /\ MarkOK' /\ DipOK'
    BY <1>1, <2>1, RetireFacts
  <2>3. /\ plan' \in Plans /\ plan'.allowed = FALSE
        /\ plan'.qualified => plan.qualified
        /\ plan'.hold => plan.hold
    BY <2>1, NothingTyped DEF Over, NoPlan, TypeInv, WorldInv, Plans
  <2>4. s' \in Pairs /\ phase' \in {"idle", "deciding", "applied"} /\ commanded' \in BOOLEAN
    BY <2>1, PairTyped DEF Over, TypeInv, WorldInv
  <2>5. TypeInv'
    BY <1>1, <2>2, <2>3, <2>4 DEF TypeInv, WorldInv
  <2>6. PlanOK'
    BY <1>1, <2>2, <2>3 DEF PlanOK
  <2> QED
    BY <2>2, <2>5, <2>6
<1> QED
  BY <1>2, <1>3

LEMMA FailInv == ASSUME Inv, Fail PROVE Inv'
<1> USE DEF Inv
<1>1. /\ UNCHANGED <<policy, world, held>> /\ Over
      /\ Retire /\ Interrupted /\ strong' = [strong EXCEPT !.at = None]
  BY DEF Fail
<1>2. /\ HistoryInv' /\ ProofInv' /\ guard'.required = guard.required
      /\ GuardSpan' /\ BoostSpan' /\ MarkOK' /\ DipOK'
  BY <1>1, RetireFacts
<1>3. /\ phase' = "idle" /\ s' \in Pairs /\ commanded' = FALSE /\ plan' \in Plans
      /\ plan'.qualified = FALSE /\ plan'.hold = FALSE /\ plan'.allowed = FALSE
  BY <1>1, PairTyped, NothingTyped DEF Over, NoPlan
<1>4. TypeInv'
  BY <1>1, <1>2, <1>3 DEF TypeInv, WorldInv
<1>5. PlanOK'
  BY <1>1, <1>2, <1>3 DEF PlanOK
<1> QED
  BY <1>2, <1>4, <1>5

\* A finished application leaves a guard as it was, or one that counts nothing.
LEMMA FinishSolarFacts ==
  ASSUME Inv, FinishSolar
  PROVE  /\ Guarded(guard') /\ (guard' = guard \/ ~Counting(guard'))
         /\ guard.required /\ ~guard'.required =>
              plan.qualified /\ plan.allowed /\ GuardCurrent(guard, SolarReports(s))
<1> DEFINE ended == IF ~plan.qualified THEN guard
                    ELSE IF plan.allowed /\ GuardCurrent(guard, SolarReports(s))
                      THEN Committed(guard) ELSE Reset(guard)
<1>1. Guarded(guard)
  BY DEF Inv, TypeInv, ProofInv
<1>2. guard' = IF plan.kind = "morning" THEN Armed(ended) ELSE ended
  BY DEF FinishSolar
<1>3. Guarded(ended) /\ (ended = guard \/ ~Counting(ended))
  BY <1>1, CommittedFacts, ResetFacts
<1>4. guard.required /\ ~ended.required =>
        plan.qualified /\ plan.allowed /\ GuardCurrent(guard, SolarReports(s))
  BY <1>1, ResetFacts
<1> HIDE DEF ended
<1> QED
  BY <1>2, <1>3, <1>4, ArmedFacts

LEMMA FinishDipFacts ==
  ASSUME Inv, FinishDip, UNCHANGED policy
  PROVE  dip' \in Dips /\ strong' \in [at : Instants, high : Pairs] /\ DipOK'
<1> DEFINE evidence == DipEvidence(s)
<1>1. /\ s \in Pairs /\ dip \in Dips /\ strong \in [at : Instants, high : Pairs]
      /\ dip.high = strong.high /\ policy = "dip" /\ policy' = policy
  BY DEF Inv, TypeInv, WorldInv, HistoryInv, ProofInv, DipOK, FinishDip
<1>2. /\ dip' = DipCommitted(dip)
      /\ strong' = IF dip'.proof = NoPair THEN [strong EXCEPT !.at = None]
                   ELSE IF plan.kind = "strong" /\ \A i \in Streams : s[i] > strong.high[i]
                     THEN [at |-> Older(s), high |-> s]
                   ELSE strong
  BY DEF FinishDip
<1>3. dip' \in Dips /\ strong' \in [at : Instants, high : Pairs]
  <2>1. dip' \in Dips
    BY <1>1, <1>2, DipTyped DEF Inv, TypeInv
  <2>2. strong' \in [at : Instants, high : Pairs]
    BY <1>1, <1>2, OlderTyped, PairTyped
  <2> QED
    BY <2>1, <2>2
<1>4. evidence # NoPair => evidence = s /\ \A i \in Streams : s[i] # 0
  BY DEF DipEvidence, FreshWithin
<1>5. CASE ~plan.allowed \/ evidence = NoPair \/ plan.regressed
  <2>1. dip' = [dip EXCEPT !.proof = NoPair]
    BY <1>2, <1>5 DEF DipCommitted
  <2> QED
    BY <1>1, <1>2, <1>3, <2>1 DEF DipOK, Dips
<1>6. CASE /\ ~(~plan.allowed \/ evidence = NoPair \/ plan.regressed)
           /\ plan.kind = "strong" /\ Renewed(dip, evidence)
  <2>1. dip' = [dip EXCEPT !.proof = s, !.high = s]
    BY <1>2, <1>4, <1>6 DEF DipCommitted
  <2>2. dip'.proof = s /\ dip'.high = s /\ s # NoPair
    BY <1>1, <1>4, <1>6, <2>1 DEF Dips
  <2>3. \A i \in Streams : s[i] \in Instants /\ s[i] # 0
    BY <1>1, <1>4, <1>6, PairTyped
  <2>4. \A i \in Streams : s[i] > strong.high[i]
    <3>1. CASE dip.high = NoPair
      <4>1. \A i \in Streams : NoPair[i] = 0
        BY DEF NoPair, Pair
      <4>2. \A i \in Streams : s[i] > 0
        BY <2>3 DEF Instants
      <4> QED
        BY <1>1, <3>1, <4>1, <4>2
    <3>2. CASE \A i \in Streams : evidence[i] > dip.high[i]
      BY <1>1, <1>4, <1>6, <3>2
    <3> QED
      BY <1>6, <3>1, <3>2 DEF Renewed
  <2>5. strong' = [at |-> Older(s), high |-> s]
    BY <1>2, <1>6, <2>2, <2>4
  <2>6. Older(s) # 0
    BY <2>3 DEF Older
  <2> QED
    BY <1>1, <1>3, <2>2, <2>5, <2>6 DEF DipOK
<1>7. CASE /\ ~(~plan.allowed \/ evidence = NoPair \/ plan.regressed)
           /\ ~(plan.kind = "strong" /\ Renewed(dip, evidence))
  <2>1. dip' = dip
    BY <1>2, <1>7 DEF DipCommitted
  <2>2. ~(plan.kind = "strong" /\ \A i \in Streams : s[i] > strong.high[i])
    BY <1>1, <1>4, <1>7 DEF Renewed
  <2>3. strong'.high = strong.high /\ (dip.proof # NoPair => strong' = strong)
    BY <1>1, <1>2, <2>1, <2>2
  <2> QED
    BY <1>1, <1>3, <2>1, <2>3 DEF Inv, DipOK
<1> QED
  BY <1>3, <1>5, <1>6, <1>7

LEMMA FinishInv == ASSUME Inv, Finish PROVE Inv'
<1> USE DEF Inv
<1>1. /\ UNCHANGED <<policy, world>> /\ Over
      /\ held' = (plan.allowed /\ policy \in {"budget", "dip"})
      /\ FinishSolar \/ FinishEvening \/ FinishDip
  BY DEF Finish
<1>2. /\ phase' = "idle" /\ s' \in Pairs /\ commanded' = FALSE /\ plan' \in Plans
      /\ plan'.qualified = FALSE /\ plan'.hold = FALSE /\ plan'.allowed = FALSE
  BY <1>1, PairTyped, NothingTyped DEF Over, NoPlan
<1>3. WorldInv'
  <2>1. held' \in BOOLEAN
    BY <1>1 DEF TypeInv, WorldInv, Plans
  <2> QED
    BY <1>1, <1>2, <2>1 DEF TypeInv, WorldInv
<1>4. CASE FinishSolar
  <2>1. /\ policy \in {"budget", "charge"} /\ UNCHANGED <<boost, dip, strong>>
        /\ IF guard' = guard THEN UNCHANGED mark ELSE Interrupted
    BY <1>4 DEF FinishSolar
  <2>2. Guarded(guard') /\ (guard' = guard \/ ~Counting(guard'))
    BY <1>4, FinishSolarFacts
  <2>3. mark' \in Marks /\ MarkOK'
    <3>1. CASE Interrupted
      BY <1>1, <3>1, InterruptedFacts
    <3>2. CASE UNCHANGED mark
      BY <1>1, <3>2 DEF TypeInv, HistoryInv, MarkOK
    <3> QED
      BY <2>1, <3>1, <3>2
  <2>4. GuardSpan'
    BY <1>1, <2>1, <2>2 DEF GuardSpan, Counting
  <2>5. HistoryInv' /\ ProofInv'
    BY <2>1, <2>2, <2>3 DEF TypeInv, HistoryInv, ProofInv, Guarded, Counting
  <2>6. BoostSpan' /\ PlanOK' /\ DipOK'
    BY <1>1, <1>2, <2>1 DEF BoostSpan, PlanOK, DipOK
  <2> QED
    BY <1>3, <2>3, <2>4, <2>5, <2>6 DEF TypeInv
<1>5. CASE FinishEvening
  <2>1. /\ policy = "evening" /\ UNCHANGED <<guard, dip, strong>>
        /\ \/ boost' = boost /\ UNCHANGED mark
           \/ boost' = BoostReset(boost) /\ Interrupted
    BY <1>5 DEF FinishEvening
  <2>2. boost' \in Boosts /\ BoostSpan'
    <3>1. CASE boost' = boost /\ UNCHANGED mark
      BY <1>1, <3>1 DEF TypeInv, ProofInv, BoostSpan
    <3>2. CASE boost' = BoostReset(boost)
      BY <3>2, BoostResetTyped DEF TypeInv, ProofInv, BoostSpan
    <3> QED
      BY <2>1, <3>1, <3>2
  <2>3. mark' \in Marks /\ MarkOK'
    <3>1. CASE Interrupted
      BY <1>1, <3>1, InterruptedFacts
    <3>2. CASE UNCHANGED mark
      BY <1>1, <3>2 DEF TypeInv, HistoryInv, MarkOK
    <3> QED
      BY <2>1, <3>1, <3>2
  <2>4. HistoryInv' /\ ProofInv'
    BY <2>1, <2>2, <2>3 DEF TypeInv, HistoryInv, ProofInv, Guarded, Counting
  <2>5. GuardSpan' /\ PlanOK' /\ DipOK'
    BY <1>1, <1>2, <2>1 DEF GuardSpan, PlanOK, DipOK, Counting
  <2> QED
    BY <1>3, <2>2, <2>3, <2>4, <2>5 DEF TypeInv
<1>6. CASE FinishDip
  <2>1. policy = "dip" /\ UNCHANGED <<guard, boost, mark>>
    BY <1>6 DEF FinishDip
  <2>2. dip' \in Dips /\ strong' \in [at : Instants, high : Pairs] /\ DipOK'
    BY <1>1, <1>6, FinishDipFacts
  <2>3. HistoryInv' /\ ProofInv'
    BY <2>1, <2>2 DEF TypeInv, HistoryInv, ProofInv, Guarded, Counting
  <2>4. GuardSpan' /\ BoostSpan' /\ MarkOK' /\ PlanOK'
    BY <1>1, <1>2, <2>1 DEF GuardSpan, BoostSpan, MarkOK, PlanOK, Counting
  <2> QED
    BY <1>3, <2>2, <2>3, <2>4 DEF TypeInv
<1> QED
  BY <1>1, <1>4, <1>5, <1>6

-----------------------------------------------------------------------------
(* The inductive invariant and the theorems                                *)

LEMMA InitInv == ASSUME Init PROVE Inv
<1>1. /\ policy \in {"budget", "charge", "evening", "dip"}
      /\ wall = 1 /\ mono = 1 /\ reports = Pair(1) /\ usable = TRUE /\ context = 1
      /\ phase = "idle" /\ s = NoPair /\ plan = NoPlan /\ held = FALSE /\ commanded = FALSE
      /\ guard = NoGuard /\ boost = NoBoost /\ dip = NoDip
      /\ mark = (IF policy = "evening" THEN Marked ELSE NoMark)
      /\ strong = [at |-> None, high |-> NoPair]
  BY QualificationAssumption DEF Init
<1>2. 1 \in Times /\ 1 \in Instants /\ 0 \in Instants
  BY QualificationAssumption DEF Times, Instants
<1>3. reports \in Pairs /\ s \in Pairs /\ \A i \in Streams : reports[i] = 1
  BY <1>1, <1>2, PairTyped
<1>4. WorldInv
  BY <1>1, <1>2, <1>3, NothingTyped DEF WorldInv
<1>5. mark \in Marks /\ MarkOK
  <2>1. CASE policy = "evening"
    <3>1. mark = [mono |-> 1, pv |-> 1, load |-> 1, wall |-> 1, context |-> 1]
      BY <1>1, <1>3, <2>1 DEF Marked
    <3> QED
      BY <1>1, <1>2, <1>3, <3>1 DEF Marks, MarkOK
  <2>2. CASE policy # "evening"
    BY <1>1, <1>3, <2>2, NothingTyped DEF MarkOK, NoMark
  <2> QED
    BY <2>1, <2>2
<1>6. HistoryInv
  BY <1>1, <1>2, <1>5, PairTyped DEF HistoryInv
<1>7. ProofInv
  BY <1>1, NothingTyped DEF ProofInv
<1>8. GuardSpan /\ BoostSpan /\ PlanOK /\ DipOK
  BY <1>1 DEF GuardSpan, BoostSpan, PlanOK, DipOK, Counting, NoGuard, NoBoost, NoDip, NoPlan
<1> QED
  BY <1>4, <1>5, <1>6, <1>7, <1>8 DEF Inv, TypeInv

LEMMA NextInv == ASSUME Inv, [Next]_vars PROVE Inv'
<1>1. CASE UNCHANGED vars
  BY <1>1 DEF vars, Inv, TypeInv, WorldInv, HistoryInv, ProofInv, GuardSpan, BoostSpan, MarkOK,
              PlanOK, DipOK, Guarded, Counting
<1> QED
  BY <1>1, AdvanceInv, SetClockInv, ConditionsInv, ReconnectInv, ReportInv, TickInv,
     DispatchInv, FailInv, FinishInv DEF Next

\* Whatever a guard or an admission has counted, it counted since the last
\* interruption, and a dip's proof is the measurement that may be relied on
\* (solar_reentry.py:83-187, optimizer.py:11670-12061).
THEOREM QualificationInvariant == Spec => []Inv
<1> QED
  BY InitInv, NextInv, PTL DEF Spec

\* Guards, admission and dip keep their shape through every evaluation, dispatch,
\* reset and commit (solar_reentry.py:25-187).
THEOREM QualificationTyping == Spec => []TypeOK
<1>1. Inv => TypeOK
  BY DEF Inv, TypeInv, WorldInv, ProofInv, Guarded, Counting, Guards, Phases, Boosts, Dips, TypeOK
<1> QED
  BY <1>1, QualificationInvariant, PTL

\* Only an application that asked again whether its proof is current grants.
LEMMA Granted ==
  ASSUME [Next]_vars, commanded', ~commanded
  PROVE  phase = "deciding" /\ plan.allowed /\ StillCurrent
<1>1. Dispatch
  <2>1. CASE UNCHANGED vars
    BY <2>1 DEF vars
  <2>2. ~(Advance \/ SetClock \/ Conditions \/ ChangeContext \/ Reconnect)
    BY DEF Advance, SetClock, Conditions, ChangeContext, Reconnect, WorldOnly
  <2>3. ~\E i \in Streams : Report(i)
    BY DEF Report, WorldOnly
  <2>4. ~(Fail \/ Finish \/ \E kind \in Kinds[policy] : Tick(kind))
    BY DEF Fail, Finish, Tick, Over
  <2> QED
    BY <2>1, <2>2, <2>3, <2>4 DEF Next
<1> QED
  BY <1>1 DEF Dispatch, Over

\* A current guard has counted a whole interval since the last interruption.
LEMMA SpannedSince ==
  \A now, begin, since, n \in Int : now - begin >= n /\ since <= begin => now - since >= n
OBVIOUS
LEMMA GuardEarned ==
  ASSUME Inv, GuardCurrent(guard, SolarReports(s))
  PROVE  Spanned /\ context = mark.context /\ usable
<1> USE DEF Inv
<1>1. /\ Guarded(guard) /\ s \in Pairs /\ guard.phase = "qualified"
      /\ context = guard.identity /\ SolarReports(s) = guard.reports
  BY DEF TypeInv, WorldInv, ProofInv, GuardCurrent
<1>2. Counting(guard) /\ guard.reports # NoPair
  BY <1>1 DEF Guarded, Counting
<1>3. usable /\ guard.reports = s
  BY <1>1, <1>2 DEF SolarReports
<1>4. /\ policy \in {"budget", "charge"} /\ guard.identity = mark.context
      /\ mark.mono <= guard.started /\ mono - guard.started >= SolarInterval
      /\ \A i \in Streams : mark[i] <= guard.first[i] /\ s[i] - guard.first[i] >= SolarInterval
  BY <1>1, <1>2, <1>3 DEF GuardSpan
<1>5. /\ mono \in Int /\ guard.started \in Int /\ mark.mono \in Int /\ SolarInterval \in Int
      /\ \A i \in Streams : s[i] \in Int /\ guard.first[i] \in Int /\ mark[i] \in Int
  BY <1>1, PairTyped, QualificationAssumption
  DEF TypeInv, WorldInv, HistoryInv, Marks, Guarded, Guards, Instants, Times
<1>6. mono - mark.mono >= SolarInterval
  BY <1>4, <1>5, SpannedSince
<1>7. \A i \in Streams : s[i] - mark[i] >= SolarInterval
  BY <1>4, <1>5, SpannedSince
<1> QED
  BY <1>1, <1>3, <1>4, <1>6, <1>7 DEF Spanned, Interval
LEMMA BoostEarned ==
  ASSUME Inv, BoostCurrent(boost)
  PROVE  Spanned /\ context = mark.context /\ usable
<1> USE DEF Inv
<1>1. /\ boost \in Boosts /\ s \in Pairs /\ boost.phase = "admitted" /\ context = boost.context
      /\ BoostReport(s) # None /\ BoostReport(s) = boost.last
  BY DEF TypeInv, WorldInv, ProofInv, BoostCurrent
<1>2. usable /\ s.load = boost.last
  BY <1>1 DEF BoostReport
<1>3. /\ policy = "evening" /\ boost.context = mark.context
      /\ mark.mono <= boost.started /\ mono - boost.started >= BoostInterval
      /\ mark.load <= boost.first /\ s.load - boost.first >= BoostInterval
  BY <1>1, <1>2 DEF BoostSpan
<1>4. /\ mono \in Int /\ boost.started \in Int /\ mark.mono \in Int /\ BoostInterval \in Int
      /\ s.load \in Int /\ boost.first \in Int /\ mark.load \in Int
  BY <1>1, PairTyped, QualificationAssumption
  DEF TypeInv, WorldInv, HistoryInv, Marks, Boosts, Instants, Times
<1>5. mono - mark.mono >= BoostInterval /\ s.load - mark.load >= BoostInterval
  BY <1>3, <1>4, SpannedSince
<1> QED
  BY <1>1, <1>2, <1>3, <1>5 DEF Spanned, Interval

\* A permission is dispatched only after a whole interval of new reports on both
\* clocks that no clock, context, owner, gap or failed application interrupted
\* (solar_reentry.py:83-174, optimizer.py:11634-11645, 11850-11864).
THEOREM EarnedOverInterval == Spec => PermissionEarned
<1>1. ASSUME Inv, [Next]_vars, commanded', ~commanded, policy = "evening" \/ plan.qualified
      PROVE  Spanned /\ context = mark.context /\ usable
  <2>1. StillCurrent
    BY <1>1, Granted
  <2>2. CASE policy = "evening"
    BY <1>1, <2>1, <2>2, BoostEarned DEF StillCurrent
  <2>3. CASE policy # "evening"
    <3>1. policy \in {"budget", "charge"} /\ plan.qualified
      BY <1>1, <2>3 DEF Inv, PlanOK
    <3> QED
      BY <1>1, <2>1, <3>1, GuardEarned DEF StillCurrent
  <2> QED
    BY <2>2, <2>3
<1> QED
  BY <1>1, QualificationInvariant, PTL DEF Spec, PermissionEarned

\* Nothing but a finished application takes an armed latch.
LEMMA LatchKept ==
  ASSUME Inv, [Next]_vars, guard.required, ~guard'.required
  PROVE  commanded /\ plan.qualified /\ Spanned
<1> USE DEF Inv
<1>1. Guarded(guard)
  BY DEF TypeInv, ProofInv
<1>2. ~UNCHANGED guard
  OBVIOUS
<1>3. CASE Dispatch \/ Fail
  BY <1>1, <1>2, <1>3, ResetFacts DEF Dispatch, Fail, Retire
<1>4. ASSUME NEW kind \in Kinds[policy], Tick(kind) PROVE FALSE
  <2>1. policy \in {"budget", "charge"} /\ DecideSolar(kind)
    BY <1>2, <1>4 DEF Tick, DecideEvening, DecideDip, TypeInv, WorldInv
  <2>2. kind \in AllKinds
    BY DEF Kinds, AllKinds, TypeInv, WorldInv
  <2> DEFINE g == IF policy = "budget" THEN BudgetTick(kind) ELSE ChargeTick(kind)
  <2>3. Guarded(g) /\ g.required
    BY <2>1, <2>2, SolarJudged
  <2>4. guard' = [g EXCEPT !.same = TRUE]
    BY <2>1 DEF DecideSolar
  <2> HIDE DEF g
  <2> QED
    BY <2>3, <2>4 DEF Guarded, Guards
<1>5. CASE Finish
  <2>1. phase = "applied" /\ FinishSolar
    BY <1>2, <1>5 DEF Finish, FinishEvening, FinishDip
  <2>2. plan.qualified /\ plan.allowed /\ GuardCurrent(guard, SolarReports(s))
    BY <2>1, FinishSolarFacts
  <2> QED
    BY <2>1, <2>2, GuardEarned DEF PlanOK
<1>6. ~(Advance \/ SetClock \/ Conditions \/ ChangeContext \/ Reconnect)
  BY <1>2 DEF Advance, SetClock, Conditions, ChangeContext, Reconnect, WorldOnly
<1>7. ~\E i \in Streams : Report(i)
  BY <1>2 DEF Report, WorldOnly
<1>8. ~UNCHANGED vars
  BY <1>2 DEF vars
<1> QED
  BY <1>3, <1>4, <1>5, <1>6, <1>7, <1>8 DEF Next

\* An armed latch is released only by the completed application of an earned
\* permission (optimizer.py:11647-11678, solar_reentry.py:176-187).
THEOREM LatchEnds == Spec => LatchReleased
<1>1. ASSUME Inv, [Next]_vars
      PROVE  /\ guard.required /\ ~guard'.required => commanded /\ plan.qualified /\ Spanned
             /\ guard.required /\ policy # "dip" /\ commanded' /\ ~commanded => plan.qualified
  <2>1. guard.required /\ ~guard'.required => commanded /\ plan.qualified /\ Spanned
    BY <1>1, LatchKept
  <2>2. guard.required /\ commanded' /\ ~commanded => plan.qualified
    BY <1>1, Granted DEF Inv, PlanOK
  <2> QED
    BY <2>1, <2>2
<1> QED
  BY <1>1, QualificationInvariant, PTL DEF Spec, LatchReleased

\* A hold over a dip is dispatched only while the strong surplus of a completed
\* application is younger than the hold (optimizer.py:12021-12061).
THEOREM HoldMeasured == Spec => HoldRestsOnMeasurement
<1>1. ASSUME Inv, [Next]_vars, commanded', ~commanded, plan.hold
      PROVE  strong.at # None /\ wall < strong.at + Hold
  <2>1. policy = "dip" /\ StillCurrent
    BY <1>1, Granted DEF Inv, PlanOK
  <2>2. DipCurrent(dip)
    BY <1>1, <2>1 DEF StillCurrent
  <2>3. strong.at # None /\ strong.at = Older(dip.proof)
    BY <1>1, <2>2 DEF Inv, DipOK, DipCurrent, DipWithinHold
  <2> QED
    BY <2>2, <2>3 DEF DipCurrent, DipWithinHold
<1> QED
  BY <1>1, QualificationInvariant, PTL DEF Spec, HoldRestsOnMeasurement
=============================================================================
