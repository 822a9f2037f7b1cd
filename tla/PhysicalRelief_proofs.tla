------------------------ MODULE PhysicalRelief_proofs ------------------------
(***************************************************************************)
(* Proofs about PhysicalRelief, for every horizon, skew, trajectory, step  *)
(* and any number of faults: the types, that a relief at rest speaks of    *)
(* the ceiling the inverter was given, and that every rise was earned.     *)
(***************************************************************************)
EXTENDS PhysicalRelief, WellFoundedInduction, TLAPS

USE DEF tick, Streams

-----------------------------------------------------------------------------
(* Typing                                                                  *)

SolarReliefs ==
  [on : BOOLEAN, relief : Steps, confirmations : 0..2, retry : BOOLEAN, command : Ceilings,
   at : Ages, feedback : Stamps, target : Ceilings, baseline : Baselines \cup {Unset},
   context : 0..2, total : Ceilings]
MorningReliefs ==
  [on : BOOLEAN, relief : Steps, proposed : Ceilings, confirmations : 0..2, retry : BOOLEAN,
   context : 0..2, command : Ceilings, previous : Ceilings, at : Ages, first : Ages,
   high : Ages, feedback : Stamps, target : Ceilings]
Reliefs == IF Solar THEN SolarReliefs ELSE MorningReliefs
Plans == [owned : BOOLEAN, on : BOOLEAN, relieved : BOOLEAN, ceiling : Ceilings, sent : Ages]
Snapshots ==
  [stamps : Stamps, valid : BOOLEAN, level : Levels, responds : BOOLEAN,
   readback : [kw : Ceilings, at : Ages]]

Typed ==
  /\ policy \in {"solar", "morning"} /\ authority \in BOOLEAN /\ context \in {1, 2}
  /\ baseline \in Baselines /\ s \in Snapshots
  /\ phase \in {"idle", "decided", "written", "settled"}
  /\ plan \in Plans /\ ceiling \in Steps /\ r \in Reliefs

\* A command is known together with the time it was sent.
Known(q) == q.command # Unset <=> q.at # None

\* The ceiling that a relief speaks of is the inverter's, or is about to be
\* recorded; without an owned restriction, or a target, there is no relief.
Followed ==
  /\ (phase \in {"idle", "decided"} \/ (phase = "settled" /\ Solar))
       => r.command \in {Unset, ceiling}
  /\ phase # "idle" => /\ plan.ceiling \in Steps
                       /\ ~plan.owned => r = NoRelief
                       /\ r.target = Unset => r = NoRelief
  /\ phase \in {"written", "settled"} => plan.ceiling = ceiling
  /\ (phase = "settled" /\ ~Solar /\ plan.sent = None) => r = NoRelief
  /\ phase = "written" => plan.sent # None

TypeInv == Typed /\ Known(r) /\ Followed

LEMMA Numbers ==
  /\ MaxAge \in Nat /\ Skew \in Nat /\ Normal \in Nat /\ Reduction \in Nat
  /\ None \in Ages /\ Never \in Ages /\ 0 \in Ages /\ None \in Nat /\ None # 0
  /\ \A b \in Baselines : b \in Steps /\ b < Normal /\ b \in Nat
  /\ Unset \notin Steps /\ Steps \subseteq Ceilings /\ Unset \in Ceilings
  /\ Normal \in Steps /\ 0 \in Steps
BY PhysicalReliefAssumption DEF None, Never, Ages, Steps, Ceilings, Unset

LEMMA AgedTyped ==
  \A a \in Ages : Aged(a) \in Ages /\ (Aged(a) = None <=> a = None)
BY PhysicalReliefAssumption DEF Ages, Aged, None, Never

LEMMA StampsTyped ==
  ASSUME NEW stamps \in Stamps
  PROVE  BothAged(stamps) \in Stamps /\ NoStamps \in Stamps
BY AgedTyped, Numbers DEF Stamps, BothAged, NoStamps

LEMMA NoReliefTyped ==
  /\ NoSolar \in SolarReliefs /\ NoMorning \in MorningReliefs
  /\ NoRelief \in Reliefs /\ Known(NoSolar) /\ Known(NoMorning) /\ Known(NoRelief)
  /\ NoRelief.command = Unset
<1>1. NoStamps \in Stamps
  BY Numbers DEF NoStamps, Stamps
<1>2. NoSolar \in SolarReliefs /\ NoMorning \in MorningReliefs
  BY <1>1, Numbers DEF NoSolar, NoMorning, SolarReliefs, MorningReliefs
<1> QED BY <1>2 DEF NoRelief, Reliefs, Known, NoSolar, NoMorning

LEMMA LeastTyped == Least \in Baselines
<1> DEFINE R == OpToRel(<, Nat)
<1>1. IsWellFoundedOn(R, Nat)
  BY NatLessThanWellFounded DEF OpToRel
<1>2. Baselines \subseteq Nat /\ Baselines # {}
  BY PhysicalReliefAssumption
<1>3. PICK b \in Baselines : \A c \in Baselines : ~(<<c, b>> \in R)
  <2> HIDE DEF R
  <2> QED BY <1>1, <1>2, WFMin
<1>4. ASSUME NEW c \in Baselines PROVE b <= c
  <2>1. b \in Nat /\ c \in Nat
    BY <1>2
  <2>2. c < b => <<c, b>> \in R
    BY <2>1 DEF OpToRel
  <2>3. ~(c < b)
    <3> HIDE DEF R
    <3> QED BY <1>3, <2>2
  <2> QED BY <2>1, <2>3
<1> QED BY <1>4 DEF Least

\* One field of a relief at a time.
LEMMA SolarUpdate ==
  ASSUME NEW q \in SolarReliefs
  PROVE  /\ \A v \in BOOLEAN : [q EXCEPT !.on = v] \in SolarReliefs
         /\ \A v \in Steps : [q EXCEPT !.relief = v] \in SolarReliefs
         /\ \A v \in 0..2 : [q EXCEPT !.confirmations = v] \in SolarReliefs
         /\ \A v \in BOOLEAN : [q EXCEPT !.retry = v] \in SolarReliefs
         /\ \A v \in Ceilings : [q EXCEPT !.command = v] \in SolarReliefs
         /\ \A v \in Ages : [q EXCEPT !.at = v] \in SolarReliefs
         /\ \A v \in Stamps : [q EXCEPT !.feedback = v] \in SolarReliefs
         /\ \A v \in Ceilings : [q EXCEPT !.target = v] \in SolarReliefs
         /\ \A v \in Baselines : [q EXCEPT !.baseline = v] \in SolarReliefs
         /\ \A v \in 0..2 : [q EXCEPT !.context = v] \in SolarReliefs
         /\ \A v \in Ceilings : [q EXCEPT !.total = v] \in SolarReliefs
BY DEF SolarReliefs

LEMMA MorningUpdate ==
  ASSUME NEW q \in MorningReliefs
  PROVE  /\ \A v \in BOOLEAN : [q EXCEPT !.on = v] \in MorningReliefs
         /\ \A v \in Steps : [q EXCEPT !.relief = v] \in MorningReliefs
         /\ \A v \in Ceilings : [q EXCEPT !.proposed = v] \in MorningReliefs
         /\ \A v \in 0..2 : [q EXCEPT !.confirmations = v] \in MorningReliefs
         /\ \A v \in BOOLEAN : [q EXCEPT !.retry = v] \in MorningReliefs
         /\ \A v \in 0..2 : [q EXCEPT !.context = v] \in MorningReliefs
         /\ \A v \in Ceilings : [q EXCEPT !.command = v] \in MorningReliefs
         /\ \A v \in Ceilings : [q EXCEPT !.previous = v] \in MorningReliefs
         /\ \A v \in Ages : [q EXCEPT !.at = v] \in MorningReliefs
         /\ \A v \in Ages : [q EXCEPT !.first = v] \in MorningReliefs
         /\ \A v \in Ages : [q EXCEPT !.high = v] \in MorningReliefs
         /\ \A v \in Stamps : [q EXCEPT !.feedback = v] \in MorningReliefs
         /\ \A v \in Ceilings : [q EXCEPT !.target = v] \in MorningReliefs
BY DEF MorningReliefs

LEMMA SolarFields ==
  ASSUME NEW q \in SolarReliefs
  PROVE  /\ q.on \in BOOLEAN /\ q.relief \in Steps /\ q.confirmations \in 0..2
         /\ q.retry \in BOOLEAN /\ q.command \in Ceilings /\ q.at \in Ages
         /\ q.feedback \in Stamps /\ q.target \in Ceilings
         /\ q.baseline \in Baselines \cup {Unset} /\ q.context \in 0..2 /\ q.total \in Ceilings
         /\ (q.retry \/ q.relief > 0) \in BOOLEAN
BY DEF SolarReliefs

LEMMA MorningFields ==
  ASSUME NEW q \in MorningReliefs
  PROVE  /\ q.on \in BOOLEAN /\ q.relief \in Steps /\ q.proposed \in Ceilings
         /\ q.confirmations \in 0..2 /\ q.retry \in BOOLEAN /\ q.context \in 0..2
         /\ q.command \in Ceilings /\ q.previous \in Ceilings /\ q.at \in Ages
         /\ q.first \in Ages /\ q.high \in Ages /\ q.feedback \in Stamps /\ q.target \in Ceilings
         /\ (q.retry \/ q.relief > 0) \in BOOLEAN
BY DEF MorningReliefs

\* What one observation of Solar returns.
LEMMA SolarJudgedTyped ==
  ASSUME r \in SolarReliefs, Known(r), NEW x \in Snapshots,
         baseline' \in Baselines, context' \in {1, 2}
  PROVE  LET q == SolarJudged(x)
         IN /\ q \in SolarReliefs /\ Known(q) /\ q.command \in {r.command, Unset}
            /\ q.on \/ q = NoSolar
<1> DEFINE Good(z) == z \in SolarReliefs /\ z.on /\ Known(z) /\ z.command \in {r.command, Unset}
<1>1. x.stamps \in Stamps /\ 0 \in 0..2
  BY DEF Snapshots
<1>2. NoSolar.command = Unset /\ NoSolar.at = None
  BY DEF NoSolar
\* What leaves the command, its time and the ownership alone is as good.
<1>3. ASSUME NEW q, Good(q), NEW n \in SolarReliefs,
             n.on = q.on, n.command = q.command, n.at = q.at
      PROVE  Good(n)
  BY <1>3 DEF Known
<1>4. ASSUME NEW retry \in BOOLEAN PROVE Good(Anew(retry))
  <2>1. Anew(retry) \in SolarReliefs
    <3>1. context' \in 0..2 /\ TRUE \in BOOLEAN /\ NoSolar \in SolarReliefs
      BY NoReliefTyped
    <3> QED BY <1>4, <3>1, SolarUpdate DEF Anew
  <2>2. Anew(retry).on = TRUE /\ Anew(retry).command = Unset /\ Anew(retry).at = None
    BY <1>2, NoReliefTyped DEF Anew, SolarReliefs
  <2> QED BY <2>1, <2>2 DEF Known
<1>5. ASSUME NEW q, Good(q) PROVE Good(Rebased(q, x)) \/ q.total = Unset
  <2> SUFFICES ASSUME q.total # Unset PROVE Good(Rebased(q, x))
    OBVIOUS
  <2>1. q.total \in Steps
    BY <1>5, SolarFields DEF Ceilings
  <2>2. Greater(0, Lesser(Normal, q.total) - baseline') \in Steps
    BY <2>1, Numbers DEF Steps, Greater, Lesser
  <2>3. Rebased(q, x) \in SolarReliefs
    BY <1>1, <1>5, <2>2, SolarFields, SolarUpdate, Numbers DEF Rebased
  <2>4. Rebased(q, x).on = q.on /\ Rebased(q, x).command = q.command /\ Rebased(q, x).at = q.at
    BY <1>5 DEF Rebased, SolarReliefs
  <2> QED BY <1>3, <1>5, <2>3, <2>4
<1>6. ASSUME NEW q, Good(q) PROVE Good(SolarObserved(q, x))
  <2> DEFINE n == [q EXCEPT !.feedback = x.stamps]
             lowered == [n EXCEPT !.relief = Greater(0, @ - Reduction),
                                  !.retry = @ \/ q.relief > 0, !.confirmations = 0]
             missed == [n EXCEPT !.confirmations = 0]
             confirmed == [n EXCEPT !.confirmations = @ + 1]
             raised == [n EXCEPT !.relief = Lesser(Normal - baseline', @ + 1),
                                 !.confirmations = 0, !.retry = FALSE]
  <2>1. n \in SolarReliefs /\ n.on = q.on /\ n.command = q.command /\ n.at = q.at
        /\ n.relief = q.relief /\ n.retry = q.retry /\ n.confirmations = q.confirmations
    <3>1. n \in SolarReliefs
      BY <1>1, <1>6, SolarUpdate
    <3> QED BY <1>6, <3>1 DEF SolarReliefs
  <2> HIDE DEF n
  <2>2. Good(lowered)
    <3>1. Greater(0, n.relief - Reduction) \in Steps
      BY <2>1, Numbers, SolarFields DEF Steps, Greater
    <3>2. (n.retry \/ q.relief > 0) \in BOOLEAN
      BY <2>1, SolarFields
    <3>3. lowered \in SolarReliefs
      BY <1>1, <2>1, <3>1, <3>2, SolarUpdate
    <3>4. lowered.on = n.on /\ lowered.command = n.command /\ lowered.at = n.at
      BY <2>1 DEF SolarReliefs
    <3> HIDE DEF lowered
    <3> QED BY <1>3, <1>6, <2>1, <3>3, <3>4
  <2>3. Good(missed)
    <3>1. missed \in SolarReliefs
      BY <1>1, <2>1, SolarUpdate
    <3>2. missed.on = n.on /\ missed.command = n.command /\ missed.at = n.at
      BY <2>1 DEF SolarReliefs
    <3> HIDE DEF missed
    <3> QED BY <1>3, <1>6, <2>1, <3>1, <3>2
  <2>4. q.confirmations + 1 < Required(q) => Good(confirmed)
    <3> SUFFICES ASSUME q.confirmations + 1 < Required(q) PROVE Good(confirmed)
      OBVIOUS
    <3>1. n.confirmations + 1 \in 0..2
      BY <1>6, <2>1, SolarFields DEF Required
    <3>2. confirmed \in SolarReliefs
      BY <2>1, <3>1, SolarUpdate
    <3>3. confirmed.on = n.on /\ confirmed.command = n.command /\ confirmed.at = n.at
      BY <2>1 DEF SolarReliefs
    <3> HIDE DEF confirmed
    <3> QED BY <1>3, <1>6, <2>1, <3>2, <3>3
  <2>5. Good(raised)
    <3>1. Lesser(Normal - baseline', n.relief + 1) \in Steps
      BY <2>1, Numbers, SolarFields DEF Steps, Lesser
    <3>2. raised \in SolarReliefs
      BY <1>1, <2>1, <3>1, SolarUpdate
    <3>3. raised.on = n.on /\ raised.command = n.command /\ raised.at = n.at
      BY <2>1 DEF SolarReliefs
    <3> HIDE DEF raised
    <3> QED BY <1>3, <1>6, <2>1, <3>2, <3>3
  <2>6. SolarObserved(q, x) \in {q, lowered, missed, raised}
        \/ (SolarObserved(q, x) = confirmed /\ q.confirmations + 1 < Required(q))
    BY DEF SolarObserved, n
  <2> HIDE DEF lowered, missed, confirmed, raised
  <2> QED BY <1>6, <2>2, <2>3, <2>4, <2>5, <2>6
<1> HIDE DEF Good
<1> DEFINE c == IF r.on /\ r.context = context' THEN r ELSE Anew(r.retry)
           u == IF Low(x) THEN [c EXCEPT !.total = Unset, !.retry = @ \/ c.relief > 0] ELSE c
           moved == u.baseline # baseline'
           w == IF moved THEN Anew(u.retry) ELSE u
<1>7. Good(c)
  BY <1>4, SolarFields DEF Good
<1>8. Good(u)
  <2> DEFINE v == [c EXCEPT !.total = Unset, !.retry = @ \/ c.relief > 0]
  <2> HIDE DEF c
  <2>1. c \in SolarReliefs
    BY <1>7 DEF Good
  <2>2. [c EXCEPT !.total = Unset] \in SolarReliefs
        /\ [c EXCEPT !.total = Unset].retry = c.retry
    BY <2>1, SolarUpdate, Numbers DEF SolarReliefs
  <2>3. v \in SolarReliefs
    BY <2>1, <2>2, SolarUpdate, SolarFields
  <2>4. v.on = c.on /\ v.command = c.command /\ v.at = c.at
    BY <2>1 DEF SolarReliefs
  <2> HIDE DEF v
  <2>5. Good(v)
    BY <1>3, <1>7, <2>3, <2>4
  <2> QED BY <1>7, <2>5 DEF v
<1>9. Good(w)
  BY <1>4, <1>8, SolarFields DEF Good
<1>10. ASSUME NEW k \in BOOLEAN PROVE Good([Anew(k) EXCEPT !.feedback = x.stamps])
  <2> DEFINE a == Anew(k)
             v == [a EXCEPT !.feedback = x.stamps]
  <2>1. Good(a)
    BY <1>4
  <2> HIDE DEF a
  <2>2. v \in SolarReliefs /\ v.on = a.on /\ v.command = a.command /\ v.at = a.at
    <3>1. a \in SolarReliefs
      BY <2>1 DEF Good
    <3>2. v \in SolarReliefs
      BY <1>1, <3>1, SolarUpdate
    <3> QED BY <3>1, <3>2 DEF SolarReliefs
  <2> HIDE DEF v
  <2>3. Good(v)
    BY <1>3, <2>1, <2>2
  <2> QED BY <2>3 DEF v, a
<1>11. SolarJudged(x) = NoSolar \/ Good(SolarJudged(x))
  <2>1. SolarJudged(x) = IF SomeBefore(x.stamps, u.feedback) THEN NoSolar
     ELSE IF moved /\ u.total # Unset /\ u.command = u.total /\ u.at # None /\ ~Low(x)
       THEN Rebased(u, x)
     ELSE IF x.level = "reset"
       THEN [Anew(w.retry \/ w.relief > 0) EXCEPT !.feedback = x.stamps]
     ELSE SolarObserved(w, x)
    BY DEF SolarJudged
  <2>2. (w.retry \/ w.relief > 0) \in BOOLEAN
    OBVIOUS
  <2> HIDE DEF c, u, w, moved
  <2> QED BY <1>5, <1>6, <1>8, <1>9, <1>10, <2>1, <2>2
<1> QED BY <1>2, <1>11, NoReliefTyped DEF Good

\* And one of Morning.
LEMMA MorningJudgedTyped ==
  ASSUME r \in MorningReliefs, Known(r), NEW x \in Snapshots,
         baseline' \in Baselines, context' \in {1, 2}
  PROVE  LET q == MorningJudged(x)
         IN /\ q \in MorningReliefs /\ Known(q) /\ q.command \in {r.command, Unset}
            /\ q.on \/ q = NoMorning
<1> DEFINE Good(z) == z \in MorningReliefs /\ z.on /\ Known(z) /\ z.command \in {r.command, Unset}
           c == IF r.on /\ r.context = context' THEN r
                ELSE [NoMorning EXCEPT !.on = TRUE, !.context = context']
           q == ReadBack(c, x)
<1>1. x.stamps \in Stamps /\ x.readback.at \in Ages /\ 0 \in 0..2 /\ FALSE \in BOOLEAN
  BY DEF Snapshots
<1>2. ASSUME NEW p, Good(p), NEW n \in MorningReliefs,
             n.on = p.on, n.command = p.command, n.at = p.at
      PROVE  Good(n)
  BY <1>2 DEF Known
<1>3. Good(c)
  <2> DEFINE a == [NoMorning EXCEPT !.on = TRUE, !.context = context']
  <2>1. NoMorning.command = Unset /\ NoMorning.at = None
    BY DEF NoMorning
  <2>2. a \in MorningReliefs
    <3>1. context' \in 0..2 /\ TRUE \in BOOLEAN /\ NoMorning \in MorningReliefs
      BY NoReliefTyped
    <3> QED BY <3>1, MorningUpdate
  <2>3. a.on = TRUE /\ a.command = Unset /\ a.at = None
    BY <2>1, NoReliefTyped DEF MorningReliefs
  <2> HIDE DEF a
  <2>4. Good(a)
    BY <2>2, <2>3 DEF Known
  <2>5. (c = r /\ r.on) \/ c = a
    BY DEF a
  <2> HIDE DEF c
  <2> QED BY <2>4, <2>5
<1>4. Good(q)
  <2> HIDE DEF c
  <2> DEFINE n(f) == [c EXCEPT !.high = x.readback.at, !.first = f]
  <2>1. c \in MorningReliefs
    BY <1>3
  <2>2. ASSUME NEW f \in Ages PROVE Good(n(f))
    <3> DEFINE m == n(f)
    <3>1. m \in MorningReliefs
      BY <1>1, <2>1, MorningUpdate
    <3>2. m.on = c.on /\ m.command = c.command /\ m.at = c.at
      BY <2>1 DEF MorningReliefs
    <3> HIDE DEF m
    <3>3. Good(m)
      BY <1>2, <1>3, <3>1, <3>2
    <3> QED BY <3>3 DEF m
  <2>3. q = c \/ q = n(c.first) \/ q = n(x.readback.at)
    BY <2>1 DEF ReadBack, MorningReliefs
  <2> HIDE DEF n, Good, q
  <2> QED BY <1>1, <1>3, <2>1, <2>2, <2>3, MorningFields
<1> HIDE DEF c, q
<1>5. q \in MorningReliefs
  BY <1>4
\* Whatever is changed besides the command, its time and the ownership.
<1>6. Good([q EXCEPT !.proposed = Unset, !.retry = @ \/ q.relief > 0, !.relief = 0,
                     !.confirmations = 0, !.feedback = x.stamps])
  <2> DEFINE n == [q EXCEPT !.proposed = Unset, !.retry = @ \/ q.relief > 0, !.relief = 0,
                     !.confirmations = 0, !.feedback = x.stamps]
  <2>1. [q EXCEPT !.proposed = Unset] \in MorningReliefs
        /\ [q EXCEPT !.proposed = Unset].retry = q.retry
    BY <1>5, MorningUpdate, Numbers DEF MorningReliefs
  <2>2. n \in MorningReliefs
    BY <1>1, <1>5, <2>1, MorningUpdate, MorningFields, Numbers
  <2>3. n.on = q.on /\ n.command = q.command /\ n.at = q.at
    BY <1>5 DEF MorningReliefs
  <2> HIDE DEF n
  <2>4. Good(n)
    BY <1>2, <1>4, <2>2, <2>3
  <2> QED BY <2>4 DEF n
<1>7. Good(MorningLowered(q, x))
  <2> DEFINE n == [q EXCEPT !.proposed = Unset]
             m == [n EXCEPT !.relief = Greater(0, @ - 1), !.retry = @ \/ q.relief > 0,
                            !.confirmations = 0, !.feedback = x.stamps]
  <2>1. n \in MorningReliefs /\ n.on = q.on /\ n.command = q.command /\ n.at = q.at
        /\ n.relief = q.relief /\ n.retry = q.retry
    <3>1. n \in MorningReliefs
      BY <1>5, MorningUpdate, Numbers
    <3> QED BY <1>5, <3>1 DEF MorningReliefs
  <2>2. MorningLowered(q, x) \in {n, m}
    BY DEF MorningLowered
  <2> HIDE DEF n
  <2>3. Greater(0, n.relief - 1) \in Steps /\ (n.retry \/ q.relief > 0) \in BOOLEAN
    BY <1>5, <2>1, Numbers, MorningFields DEF Steps, Greater
  <2>4. m \in MorningReliefs
    BY <1>1, <2>1, <2>3, MorningUpdate
  <2>5. m.on = n.on /\ m.command = n.command /\ m.at = n.at
    BY <2>1 DEF MorningReliefs
  <2> HIDE DEF m
  <2>6. Good(n) /\ Good(m)
    BY <1>2, <1>4, <2>1, <2>4, <2>5
  <2> QED BY <2>2, <2>6
<1>8. Good([q EXCEPT !.confirmations = 0])
  <2> DEFINE n == [q EXCEPT !.confirmations = 0]
  <2>1. n \in MorningReliefs
    BY <1>1, <1>5, MorningUpdate
  <2>2. n.on = q.on /\ n.command = q.command /\ n.at = q.at
    BY <1>5 DEF MorningReliefs
  <2> HIDE DEF n
  <2>3. Good(n)
    BY <1>2, <1>4, <2>1, <2>2
  <2> QED BY <2>3 DEF n
<1>9. Good([q EXCEPT !.proposed = Unset, !.confirmations = 0])
  <2> DEFINE n == [q EXCEPT !.proposed = Unset, !.confirmations = 0]
  <2>1. n \in MorningReliefs
    BY <1>1, <1>5, MorningUpdate, Numbers
  <2>2. n.on = q.on /\ n.command = q.command /\ n.at = q.at
    BY <1>5 DEF MorningReliefs
  <2> HIDE DEF n
  <2>3. Good(n)
    BY <1>2, <1>4, <2>1, <2>2
  <2> QED BY <2>3 DEF n
<1>10. Good(MorningSaturated(q, x))
  <2> DEFINE n == [q EXCEPT !.feedback = x.stamps]
             missed == [n EXCEPT !.confirmations = 0]
             confirmed == [n EXCEPT !.confirmations = @ + 1]
             raised == [n EXCEPT !.proposed = q.relief + 1, !.confirmations = 0, !.retry = FALSE]
  <2>1. n \in MorningReliefs /\ n.on = q.on /\ n.command = q.command /\ n.at = q.at
        /\ n.confirmations = q.confirmations
    <3>1. n \in MorningReliefs
      BY <1>1, <1>5, MorningUpdate
    <3> QED BY <1>5, <3>1 DEF MorningReliefs
  <2>2. MorningSaturated(q, x) \in {q, missed}
        \/ (MorningSaturated(q, x) = confirmed /\ q.confirmations + 1 < Required(q))
        \/ (MorningSaturated(q, x) = raised /\ MorningNews(q, x) /\ ~(q.command >= Normal))
    BY DEF MorningSaturated
  <2> HIDE DEF n
  <2>3. Good(missed)
    <3>1. missed \in MorningReliefs
      BY <1>1, <2>1, MorningUpdate
    <3>2. missed.on = n.on /\ missed.command = n.command /\ missed.at = n.at
      BY <2>1 DEF MorningReliefs
    <3> HIDE DEF missed
    <3> QED BY <1>2, <1>4, <2>1, <3>1, <3>2
  <2>4. ASSUME q.confirmations + 1 < Required(q) PROVE Good(confirmed)
    <3>1. n.confirmations + 1 \in 0..2
      BY <1>5, <2>1, <2>4, MorningFields DEF Required
    <3>2. confirmed \in MorningReliefs
      BY <2>1, <3>1, MorningUpdate
    <3>3. confirmed.on = n.on /\ confirmed.command = n.command /\ confirmed.at = n.at
      BY <2>1 DEF MorningReliefs
    <3> HIDE DEF confirmed
    <3> QED BY <1>2, <1>4, <2>1, <3>2, <3>3
  <2>5. ASSUME MorningNews(q, x), ~(q.command >= Normal) PROVE Good(raised)
    <3>1. q.relief \in Steps /\ q.command = Lesser(Normal, baseline' + q.relief)
      BY <1>5, <2>5, MorningFields DEF MorningNews
    <3>2. q.relief + 1 \in Ceilings
      BY <2>5, <3>1, Numbers DEF Lesser, Steps, Ceilings
    <3>3. raised \in MorningReliefs
      BY <1>1, <2>1, <3>2, MorningUpdate
    <3>4. raised.on = n.on /\ raised.command = n.command /\ raised.at = n.at
      BY <2>1 DEF MorningReliefs
    <3> HIDE DEF raised
    <3> QED BY <1>2, <1>4, <2>1, <3>3, <3>4
  <2> HIDE DEF missed, confirmed, raised
  <2> QED BY <1>4, <2>2, <2>3, <2>4, <2>5
<1>11. MorningJudged(x) = NoMorning \/ Good(MorningJudged(x))
  <2>1. MorningJudged(x) =
     IF SomeBefore(x.stamps, c.feedback) \/ ReadbackLost(c, x) THEN NoMorning
     ELSE IF x.level = "reset"
       THEN [q EXCEPT !.proposed = Unset, !.retry = @ \/ q.relief > 0, !.relief = 0,
                      !.confirmations = 0, !.feedback = x.stamps]
     ELSE IF x.level = "low" THEN MorningLowered(q, x)
     ELSE IF Lagging(q, x) THEN [q EXCEPT !.confirmations = 0]
     ELSE IF x.level = "band"
       THEN [q EXCEPT !.proposed = Unset, !.confirmations = 0]
     ELSE MorningSaturated(q, x)
    BY DEF MorningJudged, c, q
  <2> HIDE DEF Good
  <2> QED BY <2>1, <1>6, <1>7, <1>8, <1>9, <1>10
<1>12. NoMorning.command = Unset
  BY DEF NoMorning
<1> QED BY <1>11, <1>12, NoReliefTyped

LEMMA PlanUpdate ==
  ASSUME NEW p \in Plans
  PROVE  /\ \A v \in BOOLEAN : [p EXCEPT !.owned = v] \in Plans
         /\ \A v \in BOOLEAN : [p EXCEPT !.on = v] \in Plans
         /\ \A v \in BOOLEAN : [p EXCEPT !.relieved = v] \in Plans
         /\ \A v \in Ceilings : [p EXCEPT !.ceiling = v] \in Plans
         /\ \A v \in Ages : [p EXCEPT !.sent = v] \in Plans
         /\ p.sent \in Ages /\ p.owned \in BOOLEAN /\ NoPlan \in Plans /\ NoPlan.sent = None
BY Numbers DEF Plans, NoPlan

\* The reports that a tick may find.
LEMMA ReportedTyped ==
  ASSUME Typed PROVE Reported \subseteq Snapshots
<1> SUFFICES ASSUME NEW x \in Reported PROVE x \in Snapshots
  OBVIOUS
<1>1. s \in Snapshots /\ ceiling \in Steps
  BY DEF Typed
<1>2. s.stamps["export"] \in Ages /\ s.stamps["others"] \in Ages
      /\ s.readback \in [kw : Ceilings, at : Ages] /\ s.readback.kw \in Ceilings
  BY <1>1 DEF Snapshots, Stamps
<1>3. x \in [stamps : [export : {s.stamps["export"], 0}, others : {s.stamps["others"], 0}],
             valid : {TRUE}, level : Levels, responds : BOOLEAN,
             readback : {s.readback} \cup IF Solar THEN {}
                                          ELSE [kw : {ceiling, s.readback.kw}, at : {0}]]
  BY DEF Reported
<1>4. x.stamps \in Stamps
  BY <1>2, <1>3, Numbers DEF Stamps
<1>5. x.readback \in [kw : Ceilings, at : Ages]
  BY <1>1, <1>2, <1>3, Numbers
<1> QED BY <1>3, <1>4, <1>5 DEF Snapshots

LEMMA ReadingsTyped ==
  ASSUME Typed, NEW kind, NEW x \in Readings(kind) PROVE x \in Snapshots
<1>1. s \in Snapshots /\ Reported \subseteq Snapshots
  BY ReportedTyped DEF Typed
<1>2. CASE kind = "flow"
  <2>1. x = [s EXCEPT !.valid = FALSE]
    BY <1>2 DEF Readings
  <2> QED BY <1>1, <2>1 DEF Snapshots
<1>3. CASE kind = "regress"
  <2>1. PICK y \in Reported, i \in Streams : x = [y EXCEPT !.stamps[i] = Aged(s.stamps[i])]
    BY <1>3 DEF Readings
  <2>2. Aged(s.stamps[i]) \in Ages /\ y \in Snapshots
    BY <1>1, AgedTyped DEF Snapshots, Stamps
  <2>3. [y.stamps EXCEPT ![i] = Aged(s.stamps[i])] \in Stamps
    BY <2>2 DEF Snapshots, Stamps
  <2> QED BY <2>1, <2>2, <2>3 DEF Snapshots
<1>4. CASE kind = "readback"
  <2>1. PICK y \in Reported, k \in Steps : x = [y EXCEPT !.readback = [kw |-> k, at |-> 0]]
    BY <1>4 DEF Readings
  <2>2. y \in Snapshots /\ [kw |-> k, at |-> 0] \in [kw : Ceilings, at : Ages]
    BY <1>1, Numbers
  <2> QED BY <2>1, <2>2 DEF Snapshots
<1>5. CASE kind \notin {"flow", "regress", "readback"}
  BY <1>1, <1>5 DEF Readings
<1> QED BY <1>2, <1>3, <1>4, <1>5

\* What a judgement returns, whichever the policy.
LEMMA JudgedTyped ==
  ASSUME Typed, Known(r), NEW x \in Snapshots, baseline' \in Baselines, context' \in {1, 2},
         NEW q \in {Judged(x), NoRelief}
  PROVE  /\ q \in Reliefs /\ Known(q) /\ q.command \in {r.command, Unset}
         /\ q.on \/ q = NoRelief
<1>1. CASE Solar
  <2>1. r \in SolarReliefs /\ q \in {SolarJudged(x), NoSolar}
    BY <1>1 DEF Typed, Reliefs, Judged, NoRelief
  <2> QED BY <1>1, <2>1, SolarJudgedTyped, NoReliefTyped DEF Reliefs, NoRelief
<1>2. CASE ~Solar
  <2>1. r \in MorningReliefs /\ q \in {MorningJudged(x), NoMorning}
    BY <1>2 DEF Typed, Reliefs, Judged, NoRelief
  <2> QED BY <1>2, <2>1, MorningJudgedTyped, NoReliefTyped DEF Reliefs, NoRelief
<1> QED BY <1>1, <1>2

LEMMA TotalTyped ==
  ASSUME NEW q \in Reliefs, baseline' \in Baselines
  PROVE  Total(q) \in Steps
<1>1. CASE Solar
  <2>1. q.relief \in Steps
    BY <1>1, SolarFields DEF Reliefs
  <2> QED BY <1>1, <2>1, Numbers DEF Total, SolarTotal, Lesser, Steps
<1>2. CASE ~Solar
  <2>1. q.relief \in Steps /\ (q.proposed # Unset => q.proposed \in Steps)
    BY <1>2, MorningFields DEF Reliefs, Ceilings
  <2> DEFINE d == IF q.proposed # Unset THEN q.proposed ELSE q.relief
  <2>2. d \in Steps
    BY <2>1
  <2>3. Total(q) = Lesser(Normal, baseline' + d)
    BY <1>2 DEF Total, MorningTotal
  <2> HIDE DEF d
  <2> QED BY <2>2, <2>3, Numbers DEF Lesser, Steps
<1> QED BY <1>1, <1>2

\* The target of a relief, and nothing of none.
LEMMA TargetTyped ==
  ASSUME NEW q \in Reliefs, NEW t \in Ceilings
  PROVE  LET n == [q EXCEPT !.target = t]
         IN /\ n \in Reliefs /\ n.target = t /\ n.command = q.command /\ n.at = q.at
            /\ n.on = q.on /\ n.relief = q.relief
            /\ (q = NoRelief /\ t = Unset) => n = NoRelief
<1> DEFINE n == [q EXCEPT !.target = t]
<1>1. CASE Solar
  <2>1. q \in SolarReliefs
    BY <1>1 DEF Reliefs
  <2>2. n \in SolarReliefs
    BY <2>1, SolarUpdate
  <2>3. n.target = t /\ n.command = q.command /\ n.at = q.at /\ n.on = q.on /\ n.relief = q.relief
    BY <2>1 DEF SolarReliefs
  <2>4. (q = NoSolar /\ t = Unset) => n = NoSolar
    <3>1. NoSolar.target = Unset
      BY DEF NoSolar
    <3> QED BY <2>1, <3>1 DEF SolarReliefs
  <2> QED BY <1>1, <2>2, <2>3, <2>4 DEF Reliefs, NoRelief
<1>2. CASE ~Solar
  <2>1. q \in MorningReliefs
    BY <1>2 DEF Reliefs
  <2>2. n \in MorningReliefs
    BY <2>1, MorningUpdate
  <2>3. n.target = t /\ n.command = q.command /\ n.at = q.at /\ n.on = q.on /\ n.relief = q.relief
    BY <2>1 DEF MorningReliefs
  <2>4. (q = NoMorning /\ t = Unset) => n = NoMorning
    <3>1. NoMorning.target = Unset
      BY DEF NoMorning
    <3> QED BY <2>1, <3>1 DEF MorningReliefs
  <2> QED BY <1>2, <2>2, <2>3, <2>4 DEF Reliefs, NoRelief
<1> QED BY <1>1, <1>2

\* The recheck keeps the plan and the relief, or gives up the relief.
LEMMA RecheckedTyped ==
  ASSUME Typed, plan.ceiling \in Steps, ~plan.owned => r = NoRelief
  PROVE  LET c == Rechecked
         IN /\ c.plan \in Plans /\ c.plan.ceiling \in Steps /\ c.plan.sent = plan.sent
            /\ c.r = NoRelief \/ (c.r = r /\ c.plan = plan)
            /\ ~c.plan.owned => c.r = NoRelief
<1>1. plan \in Plans /\ FALSE \in BOOLEAN /\ baseline \in Steps /\ Steps \subseteq Ceilings
      /\ baseline \in Ceilings /\ Normal \in Ceilings
  BY Numbers DEF Typed
<1> DEFINE p == [plan EXCEPT !.owned = FALSE, !.relieved = FALSE, !.ceiling = Normal]
           v == [plan EXCEPT !.relieved = FALSE, !.ceiling = baseline]
<1>2. p \in Plans /\ v \in Plans
  BY <1>1, PlanUpdate
<1>3. p.ceiling = Normal /\ p.sent = plan.sent /\ v.ceiling = baseline /\ v.sent = plan.sent
  BY <1>1 DEF Plans
<1>4. \/ Rechecked = [plan |-> p, r |-> NoRelief]
      \/ Rechecked = [plan |-> v, r |-> NoRelief]
      \/ Rechecked = [plan |-> plan, r |-> r]
  BY DEF Rechecked
<1> HIDE DEF p, v
<1> QED BY <1>1, <1>2, <1>3, <1>4, Numbers

\* What an action that leaves the policy alone keeps.
LEMMA PolicyKept ==
  ASSUME policy' = policy
  PROVE  Reliefs' = Reliefs /\ NoRelief' = NoRelief /\ Solar' = Solar
BY DEF Reliefs, NoRelief, Solar, SolarReliefs, MorningReliefs, NoSolar, NoMorning

LEMMA TickTyped ==
  ASSUME TypeInv, NEW owned \in BOOLEAN, NEW kind, Tick(owned, kind) PROVE TypeInv'
<1>1. /\ phase = "idle" /\ phase' = "decided"
      /\ policy' = policy /\ authority' = authority /\ ceiling' = ceiling
      /\ context' \in {1, 2} /\ baseline' \in Baselines
      /\ s' \in (IF owned THEN Readings(kind) ELSE {s})
  BY DEF Tick, TypeInv, Typed
<1>2. s' \in Snapshots
  BY <1>1, ReadingsTyped DEF TypeInv, Typed
<1> DEFINE q == IF owned /\ Trusted(s') THEN Judged(s') ELSE NoRelief
<1>3. /\ r' = [q EXCEPT !.target = IF q.on THEN Total(q) ELSE Unset]
      /\ plan' = [NoPlan EXCEPT !.owned = owned, !.on = q.on,
             !.relieved = IF Solar THEN q.relief > 0 ELSE q.on /\ Total(q) > baseline',
             !.ceiling = IF ~owned THEN Normal ELSE IF q.on THEN Total(q) ELSE baseline']
  BY DEF Tick
<1>4. /\ q \in Reliefs /\ Known(q) /\ q.command \in {r.command, Unset}
      /\ q.on \/ q = NoRelief
      /\ owned \/ q = NoRelief
  <2>1. q \in {Judged(s'), NoRelief} /\ (owned \/ q = NoRelief)
    OBVIOUS
  <2> HIDE DEF q
  <2> QED BY <1>1, <1>2, <2>1, JudgedTyped DEF TypeInv
<1> HIDE DEF q
<1>5. Total(q) \in Steps
  BY <1>1, <1>4, TotalTyped
<1> DEFINE t == IF q.on THEN Total(q) ELSE Unset
           relieved == IF Solar THEN q.relief > 0 ELSE q.on /\ Total(q) > baseline'
           kw == IF ~owned THEN Normal ELSE IF q.on THEN Total(q) ELSE baseline'
<1>6. t \in Ceilings /\ (t = Unset => q = NoRelief)
  BY <1>4, <1>5, Numbers
<1>7. relieved \in BOOLEAN /\ kw \in Steps /\ kw \in Ceilings
  <2>1. relieved \in BOOLEAN
    <3>1. (q.relief > 0) \in BOOLEAN /\ (q.on /\ Total(q) > baseline') \in BOOLEAN
      OBVIOUS
    <3> QED BY <3>1, Zenon
  <2>2. kw \in Steps
    BY <1>1, <1>5, Numbers
  <2> HIDE DEF relieved, kw
  <2> QED BY <2>1, <2>2, Numbers
<1>8. q.on \in BOOLEAN
  BY <1>4, SolarFields, MorningFields DEF Reliefs
<1>9. plan' \in Plans /\ plan'.ceiling = kw /\ plan'.owned = owned
  <2>1. plan' \in Plans
    <3>1. plan' = [NoPlan EXCEPT !.owned = owned, !.on = q.on, !.relieved = relieved,
                                 !.ceiling = kw]
      BY <1>3
    <3>2. NoPlan \in Plans
      BY Numbers DEF NoPlan, Plans
    <3> HIDE DEF kw, relieved
    <3> QED BY <1>7, <1>8, <3>1, <3>2, PlanUpdate
  <2>2. plan'.ceiling = kw /\ plan'.owned = owned
    BY <1>3 DEF NoPlan
  <2> QED BY <2>1, <2>2
<1>10. r' \in Reliefs /\ r'.target = t /\ r'.command = q.command /\ r'.at = q.at
       /\ (t = Unset => r' = NoRelief)
  <2> HIDE DEF t
  <2>1. r' = [q EXCEPT !.target = t]
    BY <1>3 DEF t
  <2> QED BY <1>4, <1>6, <2>1, TargetTyped
<1> HIDE DEF t, kw, relieved
<1>11. Typed'
  BY <1>1, <1>2, <1>9, <1>10, PolicyKept DEF TypeInv, Typed
<1>12. Known(r)'
  BY <1>4, <1>10 DEF Known
<1>13. (~owned => r' = NoRelief)
  <2>1. ~owned => t = Unset
    BY <1>4, NoReliefTyped DEF t, NoRelief, NoSolar, NoMorning
  <2> QED BY <1>10, <2>1
<1>14. r'.command \in {Unset, ceiling}
  BY <1>1, <1>4, <1>10 DEF TypeInv, Followed
<1>15. Followed'
  BY <1>1, <1>7, <1>9, <1>10, <1>13, <1>14, PolicyKept DEF Followed
<1> QED BY <1>11, <1>12, <1>15 DEF TypeInv

LEMMA WriteTyped ==
  ASSUME TypeInv, Write PROVE TypeInv'
<1> DEFINE c == Rechecked
<1>1. /\ phase = "decided" /\ phase' = "written" /\ plan' = [c.plan EXCEPT !.sent = 0]
      /\ r' = c.r /\ ceiling' = plan'.ceiling
      /\ policy' = policy /\ authority' = authority /\ context' = context
      /\ baseline' = baseline /\ s' = s
  BY DEF Write, Give
<1>2. /\ c.plan \in Plans /\ c.plan.ceiling \in Steps
      /\ c.r = NoRelief \/ (c.r = r /\ c.plan = plan)
      /\ ~c.plan.owned => c.r = NoRelief
  BY <1>1, RecheckedTyped DEF TypeInv, Followed
<1> HIDE DEF c
<1>3. plan' \in Plans /\ plan'.ceiling = c.plan.ceiling /\ plan'.sent = 0
      /\ plan'.owned = c.plan.owned
  <2>1. plan' \in Plans
    BY <1>1, <1>2, PlanUpdate, Numbers
  <2> QED BY <1>1, <1>2, <2>1 DEF Plans
<1>4. r' \in Reliefs /\ Known(r') /\ (r'.target = Unset => r' = NoRelief)
  BY <1>1, <1>2, NoReliefTyped DEF TypeInv, Typed, Followed
<1>5. Typed'
  BY <1>1, <1>2, <1>3, <1>4, PolicyKept DEF TypeInv, Typed
<1>6. Followed'
  BY <1>1, <1>2, <1>3, <1>4, PolicyKept, Numbers DEF Followed
<1> QED BY <1>4, <1>5, <1>6 DEF TypeInv, Known

\* A recorded command is the ceiling that was written.
LEMMA SolarRecordedTyped ==
  ASSUME NEW q \in SolarReliefs, Known(q), NEW kw \in Steps, NEW at \in Ages, at # None
  PROVE  LET n == SolarRecorded(q, kw, at)
         IN /\ n \in SolarReliefs /\ Known(n) /\ n.command \in {Unset, kw}
            /\ n = NoSolar \/ (n.command = kw /\ n.target = q.target /\ n.on = q.on)
<1> DEFINE m == [q EXCEPT !.total = Unset, !.command = kw, !.at = at, !.confirmations = 0]
<1>1. kw \in Ceilings /\ kw # Unset /\ Unset \in Ceilings /\ 0 \in 0..2
  BY Numbers
<1>2. m \in SolarReliefs
  BY <1>1, SolarUpdate
<1>3. m.command = kw /\ m.at = at /\ m.target = q.target /\ m.on = q.on
  BY DEF SolarReliefs
<1>4. SolarRecorded(q, kw, at) \in {NoSolar, m}
      \/ (SolarRecorded(q, kw, at) = q /\ q.command = kw)
  BY DEF SolarRecorded
<1> HIDE DEF m
<1> QED BY <1>1, <1>2, <1>3, <1>4, NoReliefTyped DEF Known, NoSolar

LEMMA MorningRecordedTyped ==
  ASSUME NEW q \in MorningReliefs, Known(q), NEW kw \in Steps, NEW at \in Ages, at # None
  PROVE  LET n == MorningRecorded(q, kw, at)
         IN /\ n \in MorningReliefs /\ Known(n) /\ n.command \in {Unset, kw}
            /\ n = NoMorning \/ (n.command = kw /\ n.target = q.target)
<1> DEFINE d == IF q.proposed # Unset THEN q.proposed ELSE q.relief
           m == [q EXCEPT !.relief = d,
                   !.proposed = Unset, !.previous = q.command, !.command = kw, !.at = at,
                   !.first = None, !.high = None, !.confirmations = 0]
<1>1. kw \in Ceilings /\ kw # Unset /\ Unset \in Ceilings /\ 0 \in 0..2 /\ None \in Ages
  BY Numbers
<1>2. d \in Steps /\ q.command \in Ceilings
  BY MorningFields DEF Ceilings
<1>3. MorningRecorded(q, kw, at) \in {NoMorning, m}
      \/ (MorningRecorded(q, kw, at) = q /\ q.command = kw)
  BY DEF MorningRecorded
<1> HIDE DEF d
<1>4. m \in MorningReliefs
  BY <1>1, <1>2, MorningUpdate
<1>5. m.command = kw /\ m.at = at /\ m.target = q.target
  BY DEF MorningReliefs
<1> HIDE DEF m
<1> QED BY <1>1, <1>3, <1>4, <1>5, NoReliefTyped DEF Known, NoMorning

LEMMA SettleTyped ==
  ASSUME TypeInv, Settle PROVE TypeInv'
<1> DEFINE c == Rechecked
<1>1. /\ phase = "written" /\ phase' = "settled"
      /\ plan' = IF Solar THEN c.plan ELSE Restored(c.plan)
      /\ r' = IF Solar /\ c.plan.owned THEN SolarRecorded(c.r, c.plan.ceiling, plan.sent) ELSE c.r
      /\ ceiling' = plan'.ceiling
      /\ policy' = policy /\ authority' = authority /\ context' = context
      /\ baseline' = baseline /\ s' = s
  BY DEF Settle, Give
<1>2. /\ c.plan \in Plans /\ c.plan.ceiling \in Steps /\ c.plan.sent = plan.sent
      /\ c.r = NoRelief \/ (c.r = r /\ c.plan = plan)
      /\ ~c.plan.owned => c.r = NoRelief
  BY <1>1, RecheckedTyped DEF TypeInv, Followed
<1>3. plan.ceiling = ceiling /\ plan.sent # None /\ plan.sent \in Ages
      /\ (r.target = Unset => r = NoRelief)
  BY <1>1, PlanUpdate DEF TypeInv, Typed, Followed
<1> HIDE DEF c
<1>4. /\ plan' \in Plans /\ plan'.ceiling = c.plan.ceiling /\ plan'.owned = c.plan.owned
      /\ (~Solar /\ plan'.sent = None) => c.r = NoRelief
  <2> DEFINE p == Restored(c.plan)
  <2>1. p \in Plans /\ p.ceiling = c.plan.ceiling /\ p.owned = c.plan.owned
        /\ (p.sent = None => c.plan.ceiling # ceiling)
    <3>1. p = c.plan \/ (p = [c.plan EXCEPT !.sent = None] /\ c.plan.ceiling # ceiling)
      BY DEF Restored
    <3>2. p \in Plans
      BY <1>2, <3>1, PlanUpdate, Numbers
    <3> HIDE DEF p
    <3> QED BY <1>2, <1>3, <3>1, <3>2 DEF Plans
  <2> HIDE DEF p
  <2> QED BY <1>1, <1>2, <1>3, <2>1 DEF p
<1>5. c.r \in Reliefs /\ Known(c.r) /\ (c.r.target = Unset => c.r = NoRelief)
  BY <1>2, <1>3, NoReliefTyped DEF TypeInv, Typed
<1>6. CASE Solar /\ c.plan.owned
  <2>1. c.r \in SolarReliefs /\ NoRelief = NoSolar
    BY <1>5, <1>6 DEF Reliefs, NoRelief
  <2>2. r' = SolarRecorded(c.r, c.plan.ceiling, plan.sent)
    BY <1>1, <1>6
  <2>3. /\ r' \in SolarReliefs /\ Known(r') /\ r'.command \in {Unset, ceiling'}
        /\ r' = NoSolar \/ (r'.command = c.plan.ceiling /\ r'.target = c.r.target /\ r'.on = c.r.on)
    BY <1>1, <1>2, <1>3, <1>4, <1>5, <2>1, <2>2, SolarRecordedTyped
  <2>4. r'.target = Unset => r' = NoSolar
    <3>1. c.r = NoSolar => r' = NoSolar
      <4>1. NoSolar.target = Unset /\ c.plan.ceiling # Unset
        BY <1>2, Numbers DEF NoSolar
      <4> QED BY <2>2, <4>1 DEF SolarRecorded
    <3> QED BY <1>5, <2>1, <2>3, <3>1
  <2>5. Reliefs = SolarReliefs
    BY <1>6 DEF Reliefs
  <2>6. Typed'
    BY <1>1, <1>2, <1>4, <2>3, <2>5, PolicyKept DEF TypeInv, Typed
  <2>7. Followed'
    BY <1>1, <1>2, <1>4, <1>6, <2>1, <2>3, <2>4, PolicyKept DEF Followed
  <2> QED BY <2>3, <2>6, <2>7 DEF TypeInv, Known
<1>7. CASE ~(Solar /\ c.plan.owned)
  <2>1. r' = c.r
    BY <1>1, <1>7
  <2>2. Typed'
    BY <1>1, <1>2, <1>4, <1>5, <2>1, PolicyKept DEF TypeInv, Typed
  <2>3. (Solar => r' = NoRelief)
    BY <1>2, <1>7, <2>1
  <2>4. Followed'
    BY <1>1, <1>2, <1>4, <1>5, <2>1, <2>3, PolicyKept, NoReliefTyped DEF Followed
  <2> QED BY <1>5, <2>1, <2>2, <2>4 DEF TypeInv, Known
<1> QED BY <1>6, <1>7

LEMMA CompleteTyped ==
  ASSUME TypeInv, Complete PROVE TypeInv'
<1> DEFINE c == Rechecked
           p == Restored(c.plan)
<1>1. /\ phase = "settled" /\ phase' = "idle" /\ plan' = NoPlan /\ authority' = TRUE
      /\ policy' = policy /\ context' = context /\ baseline' = baseline /\ s' = s
  BY DEF Complete, Over
<1>2. /\ c.plan \in Plans /\ c.plan.ceiling \in Steps /\ c.plan.sent = plan.sent
      /\ c.r = NoRelief \/ (c.r = r /\ c.plan = plan)
  BY <1>1, RecheckedTyped DEF TypeInv, Followed
<1>3. /\ plan.ceiling = ceiling /\ (r.target = Unset => r = NoRelief)
      /\ Solar => r.command \in {Unset, ceiling}
      /\ (~Solar /\ plan.sent = None) => r = NoRelief
      /\ ceiling \in Steps /\ r \in Reliefs /\ Known(r)
  BY <1>1 DEF TypeInv, Typed, Followed
<1> HIDE DEF c
<1>4. /\ p.ceiling = c.plan.ceiling /\ p.sent \in Ages
      /\ (p.sent = None /\ c.plan.sent # None) => c.r = NoRelief
      /\ p.ceiling # ceiling => c.r = NoRelief
  <2>1. p = c.plan \/ (p = [c.plan EXCEPT !.sent = None] /\ c.plan.ceiling # ceiling)
    BY DEF Restored
  <2> HIDE DEF p
  <2> QED BY <1>2, <1>3, <2>1, Numbers DEF Plans
<1>5. c.r \in Reliefs /\ Known(c.r)
  BY <1>2, <1>3, NoReliefTyped
<1> HIDE DEF p
<1>6. SUFFICES r' \in Reliefs /\ Known(r') /\ r'.command \in {Unset, ceiling'} /\ ceiling' \in Steps
  <2>1. NoPlan \in Plans
    BY Numbers DEF NoPlan, Plans
  <2>2. Typed'
    BY <1>1, <1>6, <2>1, PolicyKept DEF TypeInv, Typed
  <2>3. Followed'
    BY <1>1, <1>6 DEF Followed
  <2> QED BY <1>6, <2>2, <2>3 DEF TypeInv, Known
<1>7. CASE Solar /\ plan.on /\ plan.owned
  <2>1. PICK t \in {p.ceiling, Unset} : r' = [c.r EXCEPT !.total = t] /\ ceiling' = p.ceiling
    <3>1. CompleteSolar
      BY <1>7 DEF Complete
    <3> QED BY <1>7, <3>1 DEF CompleteSolar, Give, c, p
  <2>2. c.r \in SolarReliefs /\ t \in Ceilings
    BY <1>2, <1>4, <1>5, <1>7, <2>1, Numbers DEF Reliefs
  <2>3. r' \in SolarReliefs
    BY <2>1, <2>2, SolarUpdate
  <2>4. r'.command = c.r.command /\ r'.at = c.r.at
    BY <2>1, <2>2 DEF SolarReliefs
  <2>5. c.r.command \in {Unset, p.ceiling}
    BY <1>2, <1>3, <1>4, <1>7, NoReliefTyped
  <2>6. Reliefs = SolarReliefs
    BY <1>7 DEF Reliefs
  <2> QED BY <1>2, <1>4, <1>5, <2>1, <2>3, <2>4, <2>5, <2>6 DEF Known
<1>8. CASE Solar /\ ~(plan.on /\ plan.owned)
  <2>1. r' = r /\ ceiling' = ceiling
    <3>1. CompleteSolar
      BY <1>8 DEF Complete
    <3> QED BY <1>8, <3>1 DEF CompleteSolar, Give
  <2> QED BY <1>3, <1>8, <2>1
<1>9. CASE ~Solar /\ plan.sent # None /\ r.target # Unset
  <2>1. /\ r' = IF p.sent # None THEN MorningRecorded(c.r, p.ceiling, p.sent) ELSE c.r
        /\ ceiling' = p.ceiling
    <3>1. CompleteMorning
      BY <1>9 DEF Complete
    <3> QED BY <1>9, <3>1 DEF CompleteMorning, Give, c, p
  <2>2. Reliefs = MorningReliefs
    BY <1>9 DEF Reliefs
  <2>3. CASE p.sent # None
    BY <1>2, <1>4, <1>5, <2>1, <2>2, <2>3, MorningRecordedTyped
  <2>4. CASE p.sent = None
    BY <1>2, <1>4, <1>5, <1>9, <2>1, <2>4, NoReliefTyped
  <2> QED BY <2>3, <2>4
<1>10. CASE ~Solar /\ ~(plan.sent # None /\ r.target # Unset)
  <2>1. r' = r /\ ceiling' = ceiling
    <3>1. CompleteMorning
      BY <1>10 DEF Complete
    <3> QED BY <1>10, <3>1 DEF CompleteMorning, Give
  <2>2. r = NoRelief
    BY <1>3, <1>10
  <2> QED BY <1>3, <2>1, <2>2, NoReliefTyped
<1> QED BY <1>7, <1>8, <1>9, <1>10

LEMMA FailTyped ==
  ASSUME TypeInv, Fail PROVE TypeInv'
<1>1. /\ phase # "idle" /\ phase' = "idle" /\ plan' = NoPlan /\ authority' = TRUE
      /\ r' = NoRelief /\ ceiling' \in {ceiling, plan.ceiling}
      /\ policy' = policy /\ context' = context /\ baseline' = baseline /\ s' = s
  BY DEF Fail, Over, Give
<1>2. NoPlan \in Plans /\ ceiling' \in Steps
  BY <1>1, Numbers DEF NoPlan, Plans, TypeInv, Typed, Followed
<1>3. Typed'
  BY <1>1, <1>2, PolicyKept, NoReliefTyped DEF TypeInv, Typed
<1>4. Followed'
  BY <1>1, NoReliefTyped DEF Followed
<1> QED BY <1>1, <1>3, <1>4, NoReliefTyped DEF TypeInv, Known

LEMMA ConfigureTyped ==
  ASSUME TypeInv, Configure PROVE TypeInv'
<1>1. /\ phase = "idle" /\ phase' = phase /\ plan' = plan /\ authority' = authority
      /\ r' = NoRelief /\ ceiling' = ceiling
      /\ policy' = policy /\ context' = context /\ baseline' = baseline /\ s' = s
  BY DEF Configure, Give
<1>2. Typed'
  BY <1>1, PolicyKept, NoReliefTyped DEF TypeInv, Typed
<1>3. Followed'
  BY <1>1, NoReliefTyped DEF Followed
<1> QED BY <1>1, <1>2, <1>3, NoReliefTyped DEF TypeInv, Known

LEMMA AdvanceTyped ==
  ASSUME TypeInv, Advance PROVE TypeInv'
<1>1. /\ s' = [s EXCEPT !.stamps = BothAged(@), !.readback.at = Aged(@)]
      /\ plan' = [plan EXCEPT !.sent = Aged(@)]
      /\ policy' = policy /\ authority' = authority /\ context' = context
      /\ baseline' = baseline /\ phase' = phase /\ ceiling' = ceiling
  BY DEF Advance
<1>2. s' \in Snapshots
  <2>1. s \in Snapshots
    BY DEF TypeInv, Typed
  <2>2. BothAged(s.stamps) \in Stamps /\ Aged(s.readback.at) \in Ages
    BY <2>1, StampsTyped, AgedTyped DEF Snapshots
  <2> QED BY <1>1, <2>1, <2>2 DEF Snapshots
<1>3. plan' \in Plans /\ plan'.ceiling = plan.ceiling /\ plan'.owned = plan.owned
      /\ (plan'.sent = None <=> plan.sent = None)
  <2>1. plan \in Plans /\ plan.sent \in Ages
    BY PlanUpdate DEF TypeInv, Typed
  <2>2. Aged(plan.sent) \in Ages /\ (Aged(plan.sent) = None <=> plan.sent = None)
    BY <2>1, AgedTyped
  <2>3. plan' \in Plans
    BY <1>1, <2>1, <2>2, PlanUpdate
  <2> QED BY <1>1, <2>1, <2>2, <2>3 DEF Plans
<1>4. /\ r' \in Reliefs /\ r'.command = r.command /\ r'.target = r.target
      /\ (r'.at = None <=> r.at = None)
      /\ r = NoRelief => r' = NoRelief
  <2>1. Aged(None) = None
    BY PhysicalReliefAssumption DEF Aged, None, Never
  <2>2. BothAged(NoStamps) = NoStamps
    BY <2>1 DEF BothAged, NoStamps
  <2>3. CASE Solar
    <3>1. r' = [r EXCEPT !.at = Aged(@), !.feedback = BothAged(@)] /\ r \in SolarReliefs
      BY <2>3 DEF Advance, TypeInv, Typed, Reliefs
    <3>2. r.at \in Ages /\ r.feedback \in Stamps
      BY <3>1, SolarFields
    <3>3. Aged(r.at) \in Ages /\ (Aged(r.at) = None <=> r.at = None) /\ BothAged(r.feedback) \in Stamps
      BY <3>2, AgedTyped, StampsTyped
    <3>4. r' = [[r EXCEPT !.at = Aged(r.at)] EXCEPT !.feedback = BothAged(r.feedback)]
      BY <3>1 DEF SolarReliefs
    <3>5. r' \in SolarReliefs
      <4>1. [r EXCEPT !.at = Aged(r.at)] \in SolarReliefs
        BY <3>1, <3>3, SolarUpdate
      <4> QED BY <3>3, <3>4, <4>1, SolarUpdate
    <3>6. r'.command = r.command /\ r'.target = r.target /\ r'.at = Aged(r.at)
      BY <3>1, <3>4 DEF SolarReliefs
    <3>7. r = NoSolar => r' = NoSolar
      <4>1. NoSolar.at = None /\ NoSolar.feedback = NoStamps
        BY DEF NoSolar
      <4> QED BY <2>1, <2>2, <3>1, <3>4, <4>1 DEF SolarReliefs
    <3> QED BY <2>3, <3>3, <3>5, <3>6, <3>7 DEF Reliefs, NoRelief
  <2>4. CASE ~Solar
    <3>1. r' = [r EXCEPT !.at = Aged(@), !.feedback = BothAged(@),
                         !.first = Aged(@), !.high = Aged(@)] /\ r \in MorningReliefs
      BY <2>4 DEF Advance, TypeInv, Typed, Reliefs
    <3>2. r.at \in Ages /\ r.feedback \in Stamps /\ r.first \in Ages /\ r.high \in Ages
      BY <3>1, MorningFields
    <3>3. Aged(r.at) \in Ages /\ (Aged(r.at) = None <=> r.at = None) /\ BothAged(r.feedback) \in Stamps
          /\ Aged(r.first) \in Ages /\ Aged(r.high) \in Ages
      BY <3>2, AgedTyped, StampsTyped
    <3> DEFINE n1 == [r EXCEPT !.at = Aged(r.at)]
               n2 == [n1 EXCEPT !.feedback = BothAged(r.feedback)]
               n3 == [n2 EXCEPT !.first = Aged(r.first)]
               n4 == [n3 EXCEPT !.high = Aged(r.high)]
    <3>4. r' = n4
      BY <3>1 DEF MorningReliefs
    <3>5. n1 \in MorningReliefs
      BY <3>1, <3>3, MorningUpdate
    <3>6. n1.command = r.command /\ n1.target = r.target /\ n1.at = Aged(r.at)
      BY <3>1 DEF MorningReliefs
    <3>7. r = NoMorning => n1 = r
      <4>1. NoMorning.at = None
        BY DEF NoMorning
      <4> QED BY <2>1, <3>1, <4>1 DEF MorningReliefs
    <3> HIDE DEF n1
    <3>8. n2 \in MorningReliefs
      BY <3>3, <3>5, MorningUpdate
    <3>9. n2.command = n1.command /\ n2.target = n1.target /\ n2.at = n1.at
      BY <3>5 DEF MorningReliefs
    <3>10. r = NoMorning => n2 = r
      <4>1. NoMorning.feedback = NoStamps
        BY DEF NoMorning
      <4> QED BY <2>2, <3>1, <3>7, <4>1 DEF MorningReliefs
    <3> HIDE DEF n2
    <3>11. n3 \in MorningReliefs
      BY <3>3, <3>8, MorningUpdate
    <3>12. n3.command = n2.command /\ n3.target = n2.target /\ n3.at = n2.at
      BY <3>8 DEF MorningReliefs
    <3>13. r = NoMorning => n3 = r
      <4>1. NoMorning.first = None
        BY DEF NoMorning
      <4> QED BY <2>1, <3>1, <3>10, <4>1 DEF MorningReliefs
    <3> HIDE DEF n3
    <3>14. n4 \in MorningReliefs
      BY <3>3, <3>11, MorningUpdate
    <3>15. n4.command = n3.command /\ n4.target = n3.target /\ n4.at = n3.at
      BY <3>11 DEF MorningReliefs
    <3>16. r = NoMorning => n4 = r
      <4>1. NoMorning.high = None
        BY DEF NoMorning
      <4> QED BY <2>1, <3>1, <3>13, <4>1 DEF MorningReliefs
    <3> HIDE DEF n4
    <3> QED BY <2>4, <3>3, <3>4, <3>6, <3>9, <3>12, <3>14, <3>15, <3>16 DEF Reliefs, NoRelief
  <2> QED BY <2>3, <2>4
<1>5. Typed'
  BY <1>1, <1>2, <1>3, <1>4, PolicyKept DEF TypeInv, Typed
<1>6. Followed'
  BY <1>1, <1>3, <1>4, PolicyKept DEF TypeInv, Followed
<1> QED BY <1>4, <1>5, <1>6 DEF TypeInv, Known

LEMMA TypesStart == Init => TypeInv
<1> SUFFICES ASSUME Init PROVE TypeInv
  OBVIOUS
<1>1. policy \in {"solar", "morning"} /\ authority = TRUE /\ context = 1 /\ baseline = Least
      /\ s = NoReport /\ phase = "idle" /\ plan = NoPlan /\ r = NoRelief /\ ceiling = Normal
  BY PhysicalReliefAssumption DEF Init
<1>2. NoReport \in Snapshots
  <2>1. NoStamps \in Stamps
    BY Numbers DEF NoStamps, Stamps
  <2> QED BY <2>1, Numbers DEF NoReport, Snapshots, Levels
<1>3. NoPlan \in Plans
  BY Numbers DEF NoPlan, Plans
<1>4. Typed
  BY <1>1, <1>2, <1>3, LeastTyped, NoReliefTyped, Numbers DEF Typed
<1>5. Followed
  BY <1>1, NoReliefTyped DEF Followed
<1> QED BY <1>1, <1>4, <1>5, NoReliefTyped DEF TypeInv

LEMMA TypesKept == TypeInv /\ [Next]_vars => TypeInv'
<1> SUFFICES ASSUME TypeInv, [Next]_vars PROVE TypeInv'
  OBVIOUS
<1>1. CASE UNCHANGED vars
  BY <1>1, PolicyKept DEF vars, TypeInv, Typed, Known, Followed
<1>2. CASE LoseAuthority
  BY <1>2, PolicyKept DEF LoseAuthority, TypeInv, Typed, Known, Followed
<1>3. ASSUME NEW owned \in BOOLEAN, NEW kind, Tick(owned, kind) PROVE TypeInv'
  BY <1>3, TickTyped
<1> QED BY <1>1, <1>2, <1>3, AdvanceTyped, WriteTyped, SettleTyped, CompleteTyped,
           FailTyped, ConfigureTyped DEF Next

\* Whatever the tick, the writes and the faults do, the relief is one of its
\* policy and at rest speaks of the ceiling the inverter was last given.
THEOREM ReliefTyping == Spec => []TypeOK
<1>1. TypeInv => TypeOK
  <2> SUFFICES ASSUME TypeInv PROVE TypeOK
    OBVIOUS
  <2>1. /\ r.command \in Ceilings /\ r.target \in Ceilings /\ r.relief \in Steps
        /\ r.feedback \in Stamps /\ r.at \in Ages /\ r.confirmations \in 0..2
    BY SolarFields, MorningFields DEF TypeInv, Typed, Reliefs
  <2>2. s.stamps \in Stamps /\ s.level \in Levels
    BY DEF TypeInv, Typed, Snapshots
  <2> QED BY <2>1, <2>2 DEF TypeInv, Typed, Known, Followed, TypeOK, Plans
<1> QED BY <1>1, TypesStart, TypesKept, PTL DEF Spec

-----------------------------------------------------------------------------
(* What a rise has earned                                                  *)

Gate == IF Solar THEN r.at ELSE r.first
Due == Lesser(Normal, baseline + IF ~Solar /\ r.proposed # Unset THEN r.proposed ELSE r.relief)

\* The export report on display may yet be counted, once the other flows follow.
Fresh ==
  /\ s.level = "saturated" /\ s.stamps["export"] < r.feedback["export"]
  /\ Gate # None /\ s.stamps["export"] < Gate

\* A relief belongs to the tick's context and baseline and asks for its total.
Matches ==
  r.context = context /\ (Solar => r.baseline = baseline) /\ r.target = Due
\* No report it took is newer than the one on display, a fall not older.
Older == \A i \in Streams : s.stamps[i] <= r.feedback[i]
LowSeen ==
  Low(s) => /\ r.confirmations = 0 /\ r.feedback["export"] = s.stamps["export"]
            /\ r.relief > 0 => r.retry
\* What it confirmed was measured after its command, or Morning's first readback.
Gated ==
  r.confirmations > 0 => /\ Gate # None
                         /\ \A i \in Streams : r.feedback[i] < Gate \/ Gate = Never
\* A matching readback on display was taken for the first one.
ReadSeen ==
  ~Solar => /\ (r.at # None /\ r.first = None)
                 => s.readback.at >= r.at \/ s.readback.kw # r.command
            /\ r.first # None => r.at # None
Proposal ==
  (~Solar /\ r.proposed # Unset) => phase # "idle" /\ r.command # r.target /\ ~Low(s)
Recorded ==
  (phase = "idle" \/ (phase = "settled" /\ Solar)) => r.at # None /\ r.command = r.target
Planned == phase # "idle" => plan.ceiling = r.target /\ plan.owned
\* The confirmations are no more than what the history counts.
Counted ==
  r.command = ceiling =>
    /\ r.at <= earned.since
    /\ (~Solar /\ r.first # None) => earned.read # None /\ r.first <= earned.read
    /\ earned.count >= r.confirmations + IF earned.judged /\ Fresh THEN 1 ELSE 0

Holds == /\ Matches /\ Older /\ LowSeen /\ Gated /\ ReadSeen
         /\ Proposal /\ Recorded /\ Planned /\ Counted
Held == r.on => Holds
Off == r.on \/ r = NoRelief

\* The command was sent after the reports that the tick judged.
Sent ==
  (phase # "idle" /\ plan.sent # None) =>
    /\ \A i \in Streams : plan.sent <= s.stamps[i]
    /\ plan.sent <= s.readback.at
    /\ r.on => plan.sent <= earned.since
Readable ==
  earned.read # None => s.readback.at <= earned.read /\ earned.read <= earned.since
\* A reduction is made up for by the rise that a retry earned.
Owing == earned.owed => r.on /\ (r.retry \/ (phase = "decided" /\ plan.ceiling > ceiling))
AtRest == phase = "idle" => ~plan.relieved
NeededFor(owed) == IF owed THEN 3 ELSE 2
Earned ==
  (phase = "decided" /\ plan.relieved /\ plan.ceiling > Greater(ceiling, baseline)) =>
    /\ earned.count >= NeededFor(earned.owed)
    /\ plan.ceiling <= Greater(ceiling, baseline) + 1

Histories == [count : 0..3, judged : BOOLEAN, since : Ages, read : Ages, owed : BOOLEAN]
Earning == Held /\ Off /\ Sent /\ Readable /\ Owing /\ AtRest /\ Earned
IInv == TypeInv /\ earned \in Histories /\ Earning

\* Ages keep their order, and grow apart only below the horizon.
LEMMA AgedOrder ==
  ASSUME NEW a \in Ages, NEW b \in Ages
  PROVE  /\ a <= b => Aged(a) <= Aged(b)
         /\ Aged(a) < Aged(b) => a < b
         /\ (a < b \/ b = Never) => (Aged(a) < Aged(b) \/ Aged(b) = Never)
BY PhysicalReliefAssumption DEF Ages, Aged, None, Never

LEMMA AgesNat == \A a \in Ages : a \in Nat /\ a <= None
BY PhysicalReliefAssumption DEF Ages, None, Never

LEMMA GiveFacts ==
  ASSUME earned \in Histories, NEW kw \in Steps, ceiling \in Steps, Give(kw), r'.on \in BOOLEAN
  PROVE  /\ ceiling' = kw /\ earned' \in Histories
         /\ earned'.owed = (r'.on /\ earned.owed /\ kw <= ceiling)
         /\ kw = ceiling => /\ earned'.count = earned.count /\ earned'.judged = earned.judged
                            /\ earned'.since = earned.since /\ earned'.read = earned.read
         /\ kw # ceiling => /\ earned'.count = 0 /\ ~earned'.judged
                            /\ earned'.since = 0 /\ earned'.read = None
<1> DEFINE o == r'.on /\ earned.owed /\ kw <= ceiling
<1>1. o \in BOOLEAN
  <2>1. (kw <= ceiling) \in BOOLEAN
    OBVIOUS
  <2> QED BY <2>1, Zenon DEF Histories
<1>2. ceiling' = kw /\ earned' = IF kw = ceiling THEN [earned EXCEPT !.owed = o]
                                 ELSE [NothingEarned EXCEPT !.since = 0, !.owed = o]
  BY DEF Give
<1> HIDE DEF o
<1>3. CASE kw = ceiling
  BY <1>1, <1>2, <1>3 DEF Histories, o
<1>4. CASE kw # ceiling
  <2>1. earned' = [count |-> 0, judged |-> FALSE, since |-> 0, read |-> None, owed |-> o]
    BY <1>2, <1>4 DEF NothingEarned
  <2>2. earned' \in Histories
    BY <1>1, <2>1, Numbers DEF Histories
  <2>3. o = (r'.on /\ earned.owed /\ kw <= ceiling)
    BY DEF o
  <2>4. earned'.owed = o /\ earned'.count = 0 /\ earned'.judged = FALSE
        /\ earned'.since = 0 /\ earned'.read = None
    BY <2>1
  <2> QED BY <1>2, <1>4, <2>2, <2>3, <2>4
<1> QED BY <1>3, <1>4

\* What one observation adds to the history.
LEMMA ObserveFacts ==
  ASSUME earned \in Histories, NEW x \in Snapshots, NEW owned \in BOOLEAN, Observe(x, owned),
         r'.on \in BOOLEAN
  PROVE  LET against == Contradicts(x, owned)
             same == x.stamps["export"] = s.stamps["export"]
             counts == /\ ~(same /\ earned.judged) /\ Qualifies(x)
                       /\ x.level = "saturated" /\ ~against
             kept == context' = context
         IN /\ earned' \in Histories /\ earned'.since = earned.since
            /\ earned'.count = IF against THEN 0
                               ELSE IF counts THEN Lesser(earned.count + 1, 3) ELSE earned.count
            /\ earned'.judged <=> (against \/ counts \/ (same /\ earned.judged))
            /\ earned'.read = IF earned.read = None /\ x.readback.at < earned.since
                                   /\ x.readback.kw = ceiling
                              THEN x.readback.at ELSE earned.read
            /\ earned'.owed <=> /\ r'.on
                                /\ \/ earned.owed /\ (Solar \/ kept)
                                   \/ r.relief > 0 /\ kept /\ Low(x)
<1> DEFINE against == Contradicts(x, owned)
           same == x.stamps["export"] = s.stamps["export"]
           counts == /\ ~(same /\ earned.judged) /\ Qualifies(x)
                     /\ x.level = "saturated" /\ ~against
           kept == context' = context
           n == IF against THEN 0 ELSE IF counts THEN Lesser(earned.count + 1, 3) ELSE earned.count
           j == against \/ counts \/ (same /\ earned.judged)
           d == IF earned.read = None /\ x.readback.at < earned.since /\ x.readback.kw = ceiling
                THEN x.readback.at ELSE earned.read
           o == r'.on /\ ((earned.owed /\ (Solar \/ kept)) \/ (r.relief > 0 /\ kept /\ Low(x)))
<1>1. earned' = [earned EXCEPT !.count = n, !.judged = j, !.read = d, !.owed = o]
  BY DEF Observe, Histories
<1>2. n \in 0..3
  <2> HIDE DEF against, counts
  <2> QED BY DEF Histories, Lesser
<1>3. j \in BOOLEAN
  BY Zenon DEF Contradicts, Trusted
<1>4. d \in Ages
  BY DEF Histories, Snapshots
<1>5. o \in BOOLEAN
  BY Zenon DEF Low
<1> HIDE DEF n, j, d, o
<1>6. /\ earned' \in Histories /\ earned'.since = earned.since /\ earned'.count = n
      /\ earned'.judged = j /\ earned'.read = d /\ earned'.owed = o
  BY <1>1, <1>2, <1>3, <1>4, <1>5 DEF Histories
<1> QED BY <1>6 DEF n, j, d, o

\* What the reports of a tick may be, next to those of the tick before.
LEMMA ReadingFacts ==
  ASSUME Typed, NEW kind, NEW x \in Readings(kind)
  PROVE  /\ x.readback = s.readback \/ x.readback.at = 0
         /\ (Solar /\ kind # "readback") => x.readback = s.readback
         /\ x.stamps["export"] = s.stamps["export"] => x.level = s.level
         /\ \/ x.stamps["export"] = 0 \/ x.level = s.level
         /\ AllAfter(x.stamps, s.stamps) => \A i \in Streams : x.stamps[i] = 0
<1>1. s \in Snapshots /\ Reported \subseteq Snapshots
  BY ReportedTyped DEF Typed
<1>2. \A i \in Streams : s.stamps[i] \in Ages /\ s.stamps[i] \in Int
  BY <1>1, PhysicalReliefAssumption DEF Snapshots, Stamps, Ages, None, Never
<1>3. ASSUME NEW y \in Reported
      PROVE  /\ y \in Snapshots
             /\ y.readback = s.readback \/ (~Solar /\ y.readback.at = 0)
             /\ y.stamps["export"] = s.stamps["export"] => y.level = s.level
             /\ \A i \in Streams : y.stamps[i] \in {s.stamps[i], 0}
  <2>1. /\ y \in [stamps : [export : {s.stamps["export"], 0}, others : {s.stamps["others"], 0}],
                  valid : {TRUE}, level : Levels, responds : BOOLEAN,
                  readback : {s.readback} \cup IF Solar THEN {}
                                               ELSE [kw : {ceiling, s.readback.kw}, at : {0}]]
        /\ y.stamps["export"] = s.stamps["export"] => y.level = s.level
    BY DEF Reported
  <2> QED BY <1>1, <2>1
<1>4. CASE kind = "flow"
  <2>1. x = [s EXCEPT !.valid = FALSE]
    BY <1>4 DEF Readings
  <2>2. x.stamps = s.stamps /\ x.level = s.level /\ x.readback = s.readback
    BY <1>1, <2>1 DEF Snapshots
  <2> QED BY <1>2, <2>2 DEF AllAfter
<1>5. CASE kind = "regress"
  <2>1. PICK y \in Reported, i \in Streams :
          y.level = s.level /\ x = [y EXCEPT !.stamps[i] = Aged(s.stamps[i])]
    BY <1>5 DEF Readings
  <2>2. x.level = y.level /\ x.readback = y.readback
        /\ x.stamps = [y.stamps EXCEPT ![i] = Aged(s.stamps[i])]
    BY <1>3, <2>1 DEF Snapshots
  <2>3. x.stamps[i] = Aged(s.stamps[i])
    BY <1>3, <2>1, <2>2 DEF Snapshots, Stamps
  <2>4. ~(Aged(s.stamps[i]) < s.stamps[i])
    BY <1>2 DEF Aged
  <2>5. ~AllAfter(x.stamps, s.stamps)
    BY <2>3, <2>4 DEF AllAfter
  <2> QED BY <1>3, <2>1, <2>2, <2>5
<1>6. CASE kind = "readback"
  <2>1. PICK y \in Reported, k \in Steps : x = [y EXCEPT !.readback = [kw |-> k, at |-> 0]]
    BY <1>6 DEF Readings
  <2>2. x.stamps = y.stamps /\ x.level = y.level /\ x.readback.at = 0
    BY <1>3, <2>1 DEF Snapshots
  <2>3. AllAfter(x.stamps, s.stamps) => \A i \in Streams : x.stamps[i] = 0
    BY <1>2, <1>3, <2>2 DEF AllAfter
  <2>4. x.stamps["export"] = 0 \/ x.level = s.level
    BY <1>3, <2>2
  <2> QED BY <1>3, <1>6, <2>2, <2>3, <2>4
<1>7. CASE kind \notin {"flow", "regress", "readback"}
  <2>1. x \in Reported
    BY <1>7 DEF Readings
  <2>2. AllAfter(x.stamps, s.stamps) => \A i \in Streams : x.stamps[i] = 0
    BY <1>2, <1>3, <2>1 DEF AllAfter
  <2>3. x.stamps["export"] = 0 \/ x.level = s.level
    BY <1>3, <2>1
  <2> QED BY <1>3, <2>1, <2>2, <2>3
<1> QED BY <1>4, <1>5, <1>6, <1>7

\* What a judged relief must be for the invariant to hold when the tick ends.
JudgedWell(q, x) ==
  LET gate == IF Solar THEN q.at ELSE q.first
      fresh == /\ x.level = "saturated" /\ x.stamps["export"] < q.feedback["export"]
               /\ gate # None /\ x.stamps["export"] < gate
  IN /\ q.context = context' /\ (Solar => q.baseline = baseline')
     /\ \A i \in Streams : x.stamps[i] <= q.feedback[i]
     /\ Low(x) => /\ q.confirmations = 0 /\ q.feedback["export"] = x.stamps["export"]
                  /\ q.relief > 0 => q.retry
     /\ q.confirmations > 0 => /\ gate # None
                               /\ \A i \in Streams : q.feedback[i] < gate \/ gate = Never
     /\ ~Solar => /\ (q.at # None /\ q.first = None)
                       => x.readback.at >= q.at \/ x.readback.kw # q.command
                  /\ q.first # None => q.at # None
                  /\ q.proposed # Unset => q.command # Total(q) /\ ~Low(x)
     /\ q.command = ceiling =>
          /\ q.at <= earned.since
          /\ (~Solar /\ q.first # None) => earned'.read # None /\ q.first <= earned'.read
          /\ earned'.count >= q.confirmations + IF earned'.judged /\ fresh THEN 1 ELSE 0
     /\ earned'.owed => q.retry \/ Total(q) > ceiling
     /\ Total(q) > Greater(ceiling, baseline') =>
          /\ earned'.count >= NeededFor(earned'.owed)
          /\ Total(q) <= Greater(ceiling, baseline') + 1

\* With it, the whole of the tick.
LEMMA TickEarns ==
  ASSUME IInv, NEW owned \in BOOLEAN, NEW kind, Tick(owned, kind),
         (owned /\ Trusted(s')) => (Judged(s').on => JudgedWell(Judged(s'), s'))
  PROVE  earned' \in Histories /\ Earning'
<1> DEFINE q == IF owned /\ Trusted(s') THEN Judged(s') ELSE NoRelief
<1>1. /\ phase = "idle" /\ phase' = "decided" /\ policy' = policy /\ ceiling' = ceiling
      /\ context' \in {1, 2} /\ baseline' \in Baselines /\ Observe(s', owned)
      /\ s' \in (IF owned THEN Readings(kind) ELSE {s})
      /\ r' = [q EXCEPT !.target = IF q.on THEN Total(q) ELSE Unset]
      /\ plan' = [NoPlan EXCEPT !.owned = owned, !.on = q.on,
             !.relieved = IF Solar THEN q.relief > 0 ELSE q.on /\ Total(q) > baseline',
             !.ceiling = IF ~owned THEN Normal ELSE IF q.on THEN Total(q) ELSE baseline']
  <2>1. context \in {1, 2} /\ baseline \in Baselines
    BY DEF IInv, TypeInv, Typed
  <2>2. context' \in {1, 2} /\ baseline' \in Baselines
    BY <2>1 DEF Tick
  <2> QED BY <2>2 DEF Tick
<1>2. Typed /\ earned \in Histories
  BY DEF IInv, TypeInv
<1>3. s' \in Snapshots
  BY <1>1, <1>2, ReadingsTyped DEF Typed
<1>4. /\ q \in Reliefs
      /\ q.on \/ q = NoRelief
      /\ q.on => owned /\ JudgedWell(q, s')
  <2>1. q \in {Judged(s'), NoRelief} /\ (q = NoRelief \/ (owned /\ Trusted(s') /\ q = Judged(s')))
    OBVIOUS
  <2>2. ~NoRelief.on
    BY DEF NoRelief, NoSolar, NoMorning
  <2> HIDE DEF q
  <2> QED BY <1>1, <1>3, <2>1, <2>2, JudgedTyped DEF IInv, TypeInv
<1> HIDE DEF q
<1>5. Total(q) \in Steps /\ Total(q) # Unset /\ Total(q) \in Ceilings
  BY <1>1, <1>4, TotalTyped, Numbers
<1> DEFINE t == IF q.on THEN Total(q) ELSE Unset
<1>6. /\ r'.target = t /\ r'.command = q.command /\ r'.at = q.at /\ r'.on = q.on
      /\ r'.relief = q.relief /\ r' \in Reliefs /\ (q = NoRelief => r' = NoRelief)
      /\ r'.confirmations = q.confirmations /\ r'.retry = q.retry /\ r'.feedback = q.feedback
      /\ r'.context = q.context /\ (Solar => r'.baseline = q.baseline)
      /\ ~Solar => r'.first = q.first /\ r'.proposed = q.proposed
  <2>1. t \in Ceilings /\ (q = NoRelief => t = Unset)
    BY <1>4, <1>5, Numbers DEF NoRelief, NoSolar, NoMorning
  <2>2. r' = [q EXCEPT !.target = t]
    BY <1>1
  <2> HIDE DEF t
  <2>3. /\ r' \in Reliefs /\ r'.target = t /\ r'.command = q.command /\ r'.at = q.at
        /\ r'.on = q.on /\ r'.relief = q.relief /\ (q = NoRelief => r' = NoRelief)
    BY <1>4, <2>1, <2>2, TargetTyped
  <2>4. CASE Solar
    <3>1. q \in SolarReliefs
      BY <1>4, <2>4 DEF Reliefs
    <3> QED BY <2>2, <2>3, <2>4, <3>1 DEF SolarReliefs
  <2>5. CASE ~Solar
    <3>1. q \in MorningReliefs
      BY <1>4, <2>5 DEF Reliefs
    <3> QED BY <2>2, <2>3, <2>5, <3>1 DEF MorningReliefs
  <2> QED BY <2>4, <2>5
<1>7. /\ plan'.ceiling = (IF ~owned THEN Normal ELSE IF q.on THEN Total(q) ELSE baseline')
      /\ plan'.owned = owned /\ plan'.sent = None
      /\ plan'.relieved <=> IF Solar THEN q.relief > 0 ELSE q.on /\ Total(q) > baseline'
  BY <1>1 DEF NoPlan
<1>8. /\ earned' \in Histories /\ earned'.since = earned.since
      /\ earned'.owed => r'.on
      /\ earned'.read = IF earned.read = None /\ s'.readback.at < earned.since
                             /\ s'.readback.kw = ceiling
                        THEN s'.readback.at ELSE earned.read
  <2>1. r'.on \in BOOLEAN
    BY <1>6, SolarFields, MorningFields DEF Reliefs
  <2> QED BY <1>1, <1>2, <1>3, <2>1, ObserveFacts
<1>9. Solar' = Solar /\ Total(q) = Due'
  <2>1. Solar' = Solar
    BY <1>1 DEF Solar
  <2> QED BY <1>6, <2>1 DEF Total, SolarTotal, MorningTotal, Due
<1> HIDE DEF t
<1>10. Held'
  <2> SUFFICES ASSUME q.on PROVE Holds'
    BY <1>6 DEF Held
  <2>1. JudgedWell(q, s') /\ owned /\ r'.target = Total(q) /\ plan'.ceiling = Total(q)
    BY <1>4, <1>6, <1>7 DEF t
  <2>2. Matches' /\ Older' /\ LowSeen'
    BY <1>6, <1>9, <2>1 DEF JudgedWell, Matches, Older, LowSeen, Low
  <2>3. Gate' = (IF Solar THEN q.at ELSE q.first)
    BY <1>6, <1>9 DEF Gate
  <2>4. Gated' /\ ReadSeen'
    BY <1>6, <1>9, <2>1, <2>3 DEF JudgedWell, Gated, ReadSeen
  <2>5. Proposal' /\ Recorded' /\ Planned'
    BY <1>1, <1>6, <1>7, <1>9, <2>1 DEF JudgedWell, Proposal, Recorded, Planned, Low
  <2>6. Counted'
    BY <1>1, <1>6, <1>8, <1>9, <2>1, <2>3 DEF JudgedWell, Counted, Fresh
  <2> QED BY <2>2, <2>4, <2>5, <2>6 DEF Holds
<1>11. Off'
  BY <1>1, <1>4, <1>6, PolicyKept DEF Off
<1>12. Sent' /\ AtRest'
  BY <1>1, <1>7 DEF Sent, AtRest
<1>13. Readable'
  <2>1. s'.readback = s.readback \/ s'.readback.at = 0
    BY <1>1, <1>2, ReadingFacts
  <2>2. s'.readback.at \in Ages /\ s.readback.at \in Ages /\ earned.read \in Ages /\ earned.since \in Ages
    BY <1>2, <1>3 DEF Snapshots, Typed, Histories
  <2>3. s'.readback.at \in Nat /\ s.readback.at \in Nat /\ earned.read \in Nat /\ earned.since \in Nat
    BY <2>2, AgesNat
  <2>7. s'.readback.at <= s.readback.at
    BY <2>1, <2>3
  <2>4. Readable /\ s'.readback.at <= s.readback.at
    BY <2>7 DEF IInv, Earning
  <2>5. CASE earned'.read = earned.read
    BY <1>8, <2>2, <2>3, <2>4, <2>5 DEF Readable
  <2>6. CASE earned'.read = s'.readback.at /\ s'.readback.at < earned.since
    BY <1>8, <2>2, <2>3, <2>6 DEF Readable
  <2> QED BY <1>8, <2>5, <2>6
<1>14. Owing'
  <2> SUFFICES ASSUME earned'.owed PROVE Owing'
    BY DEF Owing
  <2>1. q.on /\ JudgedWell(q, s') /\ plan'.ceiling = Total(q)
    BY <1>4, <1>6, <1>7, <1>8
  <2> QED BY <1>1, <1>6, <2>1 DEF JudgedWell, Owing
<1>15. Earned'
  <2> SUFFICES ASSUME plan'.relieved, plan'.ceiling > Greater(ceiling', baseline') PROVE Earned'
    BY DEF Earned
  <2>1. q.on
    <3>1. ~(NoRelief.relief > 0) /\ ~NoRelief.on
      BY DEF NoRelief, NoSolar, NoMorning
    <3> QED BY <1>4, <1>7, <3>1
  <2>2. JudgedWell(q, s') /\ plan'.ceiling = Total(q)
    BY <1>4, <1>7, <2>1
  <2> QED BY <1>1, <2>2 DEF JudgedWell, Earned
<1> QED BY <1>8, <1>10, <1>11, <1>12, <1>13, <1>14, <1>15 DEF Earning

-----------------------------------------------------------------------------
(* One judgement of Solar                                                  *)

\* All but what an observation may change.
SolarBound(n, q) ==
  /\ n.on = q.on /\ n.command = q.command /\ n.at = q.at
  /\ n.baseline = q.baseline /\ n.context = q.context
SolarSupports(q, x) ==
  /\ x.level = "saturated"
  /\ q.at # None /\ q.command = SolarTotal(q)
  /\ q.relief > 0 => x.responds
  /\ SolarTotal(q) < Normal
Unobserved(n, q, x) ==
  /\ n.feedback = q.feedback /\ n.confirmations = q.confirmations
  /\ n.relief = q.relief /\ n.retry = q.retry
  /\ (~Low(x) /\ q.at # None /\ Oldest(x.stamps) >= q.at) \/ ~SolarNews(q, x)
LoweredTo(n, q, x) ==
  /\ Low(x) /\ n.feedback = x.stamps /\ n.confirmations = 0
  /\ n.relief = Greater(0, q.relief - Reduction)
  /\ n.retry <=> (q.retry \/ q.relief > 0)
Missed(n, q, x) ==
  /\ ~Low(x) /\ n.feedback = x.stamps /\ n.confirmations = 0
  /\ n.relief = q.relief /\ n.retry = q.retry
Supported(q, x) ==
  /\ ~Low(x) /\ SolarNews(q, x) /\ SolarSupports(q, x) /\ Oldest(x.stamps) < q.at
Confirmed(n, q, x) ==
  /\ Supported(q, x) /\ n.feedback = x.stamps
  /\ n.confirmations = q.confirmations + 1 /\ n.confirmations < Required(q)
  /\ n.relief = q.relief /\ n.retry = q.retry
Raised(n, q, x) ==
  /\ Supported(q, x) /\ n.feedback = x.stamps
  /\ q.confirmations + 1 >= Required(q) /\ n.confirmations = 0
  /\ n.relief = Lesser(Normal - baseline', q.relief + 1) /\ ~n.retry

LEMMA SolarObservedCases ==
  ASSUME NEW q \in SolarReliefs, NEW x \in Snapshots
  PROVE  LET n == SolarObserved(q, x)
         IN /\ SolarBound(n, q)
            /\ \/ Unobserved(n, q, x) \/ LoweredTo(n, q, x) \/ Missed(n, q, x)
               \/ Confirmed(n, q, x) \/ Raised(n, q, x)
<1> DEFINE n == SolarObserved(q, x)
           m == [q EXCEPT !.feedback = x.stamps]
           unseen == (~Low(x) /\ q.at # None /\ Oldest(x.stamps) >= q.at) \/ ~SolarNews(q, x)
<1>1. x.stamps \in Stamps /\ q.at \in Ages /\ q.confirmations \in 0..2
      /\ Oldest(x.stamps) \in Nat /\ q.at \in Nat
  <2>1. x.stamps \in Stamps /\ q.at \in Ages /\ q.confirmations \in 0..2
    BY DEF Snapshots, SolarReliefs
  <2>2. x.stamps["export"] \in Nat /\ x.stamps["others"] \in Nat /\ q.at \in Nat
    BY <2>1, AgesNat DEF Stamps
  <2> QED BY <2>1, <2>2 DEF Oldest, Greater
<1>2. m \in SolarReliefs /\ SolarBound(m, q) /\ m.feedback = x.stamps
      /\ m.confirmations = q.confirmations /\ m.relief = q.relief /\ m.retry = q.retry
  <2>1. m \in SolarReliefs
    BY <1>1, SolarUpdate
  <2> QED BY <2>1 DEF SolarReliefs, SolarBound
<1>3. CASE unseen
  <2>1. n = q
    BY <1>3 DEF SolarObserved
  <2> QED BY <1>3, <2>1 DEF SolarBound, Unobserved
<1>4. CASE ~unseen /\ Low(x)
  <2>1. n = [m EXCEPT !.relief = Greater(0, @ - Reduction), !.retry = @ \/ q.relief > 0,
                      !.confirmations = 0]
    BY <1>4 DEF SolarObserved
  <2> HIDE DEF m
  <2> QED BY <1>2, <1>4, <2>1 DEF SolarBound, LoweredTo, SolarReliefs
<1>5. CASE ~unseen /\ ~Low(x) /\ ~SolarSupports(q, x)
  <2>1. n = [m EXCEPT !.confirmations = 0]
    BY <1>5 DEF SolarObserved, SolarSupports
  <2> HIDE DEF m
  <2> QED BY <1>2, <1>5, <2>1 DEF SolarBound, Missed, SolarReliefs
<1>6. CASE ~unseen /\ ~Low(x) /\ SolarSupports(q, x)
  <2>1. Supported(q, x)
    BY <1>1, <1>6 DEF Supported, SolarSupports
  <2>2. CASE q.confirmations + 1 < Required(q)
    <3>1. n = [m EXCEPT !.confirmations = @ + 1]
      BY <1>6, <2>2 DEF SolarObserved, SolarSupports
    <3> HIDE DEF m
    <3> QED BY <1>2, <2>1, <2>2, <3>1 DEF SolarBound, Confirmed, SolarReliefs
  <2>3. CASE ~(q.confirmations + 1 < Required(q))
    <3>1. n = [m EXCEPT !.relief = Lesser(Normal - baseline', @ + 1),
                        !.confirmations = 0, !.retry = FALSE]
      BY <1>6, <2>3 DEF SolarObserved, SolarSupports
    <3>2. q.confirmations + 1 >= Required(q)
      BY <1>1, <2>3 DEF Required
    <3> HIDE DEF m
    <3> QED BY <1>2, <2>1, <3>1, <3>2 DEF SolarBound, Raised, SolarReliefs
  <2> QED BY <2>2, <2>3
<1> QED BY <1>3, <1>4, <1>5, <1>6

LEMMA AnewFields ==
  ASSUME NEW k \in BOOLEAN, baseline' \in Baselines, context' \in {1, 2}
  PROVE  LET a == Anew(k)
         IN /\ a \in SolarReliefs /\ a.on /\ a.relief = 0 /\ a.confirmations = 0 /\ a.retry = k
            /\ a.command = Unset /\ a.at = None /\ a.feedback = NoStamps
            /\ a.baseline = baseline' /\ a.context = context' /\ a.total = Unset
<1>1. context' \in 0..2 /\ TRUE \in BOOLEAN /\ NoSolar \in SolarReliefs
  BY NoReliefTyped
<1>2. Anew(k) \in SolarReliefs
  BY <1>1, SolarUpdate DEF Anew
<1> QED BY <1>2 DEF Anew, NoSolar

\* The relief starts over, of the context and the baseline of the tick.
Restarted(q, x) ==
  /\ q.relief = 0 /\ q.confirmations = 0 /\ q.at = None /\ q.command = Unset
  /\ q.context = context' /\ q.baseline = baseline'
  /\ \A i \in Streams : x.stamps[i] <= q.feedback[i]
  /\ Low(x) => q.feedback = x.stamps
  /\ r.retry => q.retry
  /\ (r.on /\ r.context = context' /\ r.relief > 0 /\ Low(x)) => q.retry
\* The baseline moved under a total that stays what it is.
RebasedTo(q, x) ==
  /\ r.on /\ r.context = context' /\ ~Low(x)
  /\ q.relief = Greater(0, Lesser(Normal, r.command) - baseline')
  /\ q.feedback = x.stamps /\ q.confirmations = 0 /\ q.retry = r.retry
  /\ q.command = r.command /\ q.at = r.at
  /\ q.baseline = baseline' /\ q.context = context'
\* The relief is observed; the reports are no older than those it took.
ObservedTo(q, x) ==
  /\ r.on /\ r.context = context' /\ r.baseline = baseline'
  /\ \A i \in Streams : x.stamps[i] <= r.feedback[i]
  /\ SolarBound(q, r)
  /\ \/ Low(x) /\ q.retry /\ r.relief > 0 /\ q.feedback = r.feedback
               /\ q.confirmations = r.confirmations /\ q.relief = r.relief /\ ~SolarNews(r, x)
     \/ Unobserved(q, r, x)
     \/ LoweredTo(q, r, x) \/ Missed(q, r, x) \/ Confirmed(q, r, x) \/ Raised(q, r, x)

LEMMA SolarOutcome ==
  ASSUME r \in SolarReliefs, r.on \/ r = NoSolar, NEW x \in Snapshots, Trusted(x),
         baseline' \in Baselines, context' \in {1, 2}
  PROVE  LET q == SolarJudged(x)
         IN q = NoSolar \/ Restarted(q, x) \/ RebasedTo(q, x) \/ ObservedTo(q, x)
<1> DEFINE c == IF r.on /\ r.context = context' THEN r ELSE Anew(r.retry)
           u == IF Low(x) THEN [c EXCEPT !.total = Unset, !.retry = @ \/ c.relief > 0] ELSE c
           moved == u.baseline # baseline'
           w == IF moved THEN Anew(u.retry) ELSE u
           q == SolarJudged(x)
<1>1. /\ x.stamps \in Stamps /\ x.stamps["export"] \in Nat /\ x.stamps["others"] \in Nat
      /\ x.stamps["export"] <= MaxAge /\ x.stamps["others"] <= MaxAge
      /\ MaxAge \in Nat /\ None = MaxAge + 2
      /\ NoStamps["export"] = None /\ NoStamps["others"] = None
  <2>1. x.stamps \in Stamps
    BY DEF Snapshots
  <2>2. x.stamps["export"] \in Nat /\ x.stamps["others"] \in Nat
    BY <2>1, AgesNat DEF Stamps
  <2> QED BY <2>1, <2>2, Numbers DEF Trusted, None, Never, NoStamps
<1>2. r.retry \in BOOLEAN /\ r.relief \in Steps /\ r.feedback \in Stamps
  BY SolarFields
<1>3. /\ c \in SolarReliefs /\ c.on
      /\ c = r \/ c = Anew(r.retry)
      /\ c = r => r.on /\ r.context = context'
      /\ ~(r.on /\ r.context = context') => c = Anew(r.retry)
      /\ (r.on /\ r.context = context') => c = r
  <2>1. ~NoSolar.on /\ Anew(r.retry).on
    BY <1>2, AnewFields DEF NoSolar
  <2> QED BY <1>2, <2>1, AnewFields
<1> HIDE DEF c
<1>4. /\ u \in SolarReliefs /\ SolarBound(u, c) /\ u.relief = c.relief
      /\ u.confirmations = c.confirmations /\ u.feedback = c.feedback
      /\ u.retry <=> (c.retry \/ (Low(x) /\ c.relief > 0))
      /\ u.retry \in BOOLEAN
      /\ ~Low(x) => u = c
  <2> DEFINE v == [c EXCEPT !.total = Unset]
             k == v.retry \/ c.relief > 0
  <2>1. v \in SolarReliefs /\ v.retry = c.retry
    BY <1>3, SolarUpdate, Numbers DEF SolarReliefs
  <2>2. SolarBound(v, c) /\ v.relief = c.relief /\ v.confirmations = c.confirmations
        /\ v.feedback = c.feedback
    BY <1>3 DEF SolarReliefs, SolarBound
  <2>3. u = IF Low(x) THEN [v EXCEPT !.retry = k] ELSE c
    BY <1>3 DEF SolarReliefs
  <2>4. k \in BOOLEAN
    BY <1>3, <2>1, SolarFields
  <2>5. k <=> (c.retry \/ c.relief > 0)
    BY <2>1
  <2> HIDE DEF v, k, u
  <2>6. CASE Low(x)
    <3>1. u = [v EXCEPT !.retry = k]
      BY <2>3, <2>6
    <3>2. u \in SolarReliefs
      BY <2>1, <2>4, <3>1, SolarUpdate
    <3>3. SolarBound(u, v) /\ u.relief = v.relief /\ u.confirmations = v.confirmations
          /\ u.feedback = v.feedback /\ u.retry = k
      BY <2>1, <3>1 DEF SolarReliefs, SolarBound
    <3> QED BY <2>2, <2>4, <2>5, <2>6, <3>2, <3>3 DEF SolarBound
  <2>7. CASE ~Low(x)
    <3>1. c.retry \in BOOLEAN
      BY <1>3, SolarFields
    <3> QED BY <1>3, <2>3, <2>7, <3>1 DEF SolarBound
  <2> QED BY <2>6, <2>7
<1> HIDE DEF u
<1>5. q = IF SomeBefore(x.stamps, u.feedback) THEN NoSolar
     ELSE IF moved /\ u.total # Unset /\ u.command = u.total /\ u.at # None /\ ~Low(x)
       THEN Rebased(u, x)
     ELSE IF x.level = "reset"
       THEN [Anew(w.retry \/ w.relief > 0) EXCEPT !.feedback = x.stamps]
     ELSE SolarObserved(w, x)
  BY DEF SolarJudged, u, c
<1>6. c = Anew(r.retry) => /\ ~moved /\ c.relief = 0 /\ c.confirmations = 0 /\ c.retry = r.retry
                           /\ c.command = Unset /\ c.at = None /\ c.feedback = NoStamps
                           /\ c.baseline = baseline' /\ c.context = context'
  BY <1>2, <1>4, AnewFields DEF SolarBound
<1>7. CASE SomeBefore(x.stamps, u.feedback)
  BY <1>5, <1>7
<1>8. CASE /\ ~SomeBefore(x.stamps, u.feedback)
           /\ moved /\ u.total # Unset /\ u.command = u.total /\ u.at # None /\ ~Low(x)
  <2>1. q = Rebased(u, x) /\ u = r /\ r.on /\ r.context = context'
    BY <1>3, <1>4, <1>5, <1>6, <1>8
  <2>2. /\ q.relief = Greater(0, Lesser(Normal, r.total) - baseline')
        /\ q.feedback = x.stamps /\ q.confirmations = 0 /\ q.retry = r.retry
        /\ q.command = r.command /\ q.at = r.at
        /\ q.baseline = baseline' /\ q.context = r.context
    BY <1>8, <2>1 DEF Rebased, SolarReliefs
  <2> QED BY <1>8, <2>1, <2>2 DEF RebasedTo
<1>9. u.feedback \in Stamps
  BY <1>4, SolarFields
<1>10. ASSUME ~SomeBefore(x.stamps, u.feedback) PROVE \A i \in Streams : x.stamps[i] <= u.feedback[i]
  <2>1. u.feedback["export"] \in Nat /\ u.feedback["others"] \in Nat
    BY <1>9, AgesNat DEF Stamps
  <2> QED BY <1>1, <1>10, <2>1 DEF SomeBefore
<1>11. /\ w \in SolarReliefs /\ (w.retry \/ w.relief > 0) \in BOOLEAN
       /\ u.retry => w.retry
  BY <1>4, AnewFields, SolarFields
<1>12. CASE /\ ~SomeBefore(x.stamps, u.feedback)
            /\ ~(moved /\ u.total # Unset /\ u.command = u.total /\ u.at # None /\ ~Low(x))
            /\ x.level = "reset"
  <2> DEFINE k == w.retry \/ w.relief > 0
             a == Anew(k)
  <2>1. q = [a EXCEPT !.feedback = x.stamps]
    BY <1>5, <1>12
  <2>2. k \in BOOLEAN /\ (r.retry => k)
        /\ ((r.on /\ r.context = context' /\ r.relief > 0 /\ Low(x)) => k)
    BY <1>3, <1>4, <1>6, <1>11
  <2> HIDE DEF k
  <2>3. /\ a \in SolarReliefs /\ a.relief = 0 /\ a.confirmations = 0 /\ a.retry = k
        /\ a.command = Unset /\ a.at = None /\ a.baseline = baseline' /\ a.context = context'
    BY <2>2, AnewFields
  <2> HIDE DEF a
  <2>4. /\ q.relief = 0 /\ q.confirmations = 0 /\ q.at = None /\ q.command = Unset
        /\ q.context = context' /\ q.baseline = baseline' /\ q.feedback = x.stamps /\ q.retry = k
    BY <2>1, <2>3 DEF SolarReliefs
  <2> QED BY <1>1, <2>2, <2>4 DEF Restarted
<1>13. CASE /\ ~SomeBefore(x.stamps, u.feedback)
            /\ ~(moved /\ u.total # Unset /\ u.command = u.total /\ u.at # None /\ ~Low(x))
            /\ x.level # "reset"
            /\ moved \/ c = Anew(r.retry)
  <2>1. q = SolarObserved(w, x)
    BY <1>5, <1>13
  <2>2. /\ w.relief = 0 /\ w.confirmations = 0 /\ w.at = None /\ w.command = Unset
        /\ w.context = context' /\ w.baseline = baseline' /\ w.feedback = NoStamps
    BY <1>4, <1>6, <1>13, AnewFields DEF SolarBound
  <2>3. /\ SolarBound(q, w)
        /\ \/ Unobserved(q, w, x) \/ LoweredTo(q, w, x) \/ Missed(q, w, x)
           \/ Confirmed(q, w, x) \/ Raised(q, w, x)
    BY <1>11, <2>1, SolarObservedCases
  <2>4. /\ q.at = None /\ q.command = Unset /\ q.context = context' /\ q.baseline = baseline'
    BY <2>2, <2>3 DEF SolarBound
  <2>5. ~Supported(w, x)
    BY <2>2 DEF Supported, SolarSupports
  <2>6. Low(x) => ~Unobserved(q, w, x)
    BY <1>1, <2>2 DEF Unobserved, SolarNews
  <2>7. (r.retry => w.retry) /\ ((r.on /\ r.context = context' /\ r.relief > 0 /\ Low(x)) => w.retry)
    BY <1>3, <1>4, <1>6, <1>11
  <2>8. q.relief = 0 /\ q.confirmations = 0 /\ (w.retry => q.retry)
        /\ (q.feedback = NoStamps \/ q.feedback = x.stamps) /\ (Low(x) => q.feedback = x.stamps)
    <3>1. CASE Unobserved(q, w, x)
      BY <2>2, <2>6, <3>1 DEF Unobserved
    <3>2. CASE LoweredTo(q, w, x)
      BY <2>2, <3>2, PhysicalReliefAssumption DEF LoweredTo, Greater
    <3>3. CASE Missed(q, w, x)
      BY <2>2, <3>3 DEF Missed
    <3> QED BY <2>3, <2>5, <3>1, <3>2, <3>3 DEF Confirmed, Raised
  <2> QED BY <1>1, <2>4, <2>7, <2>8 DEF Restarted
<1>14. CASE /\ ~SomeBefore(x.stamps, u.feedback)
            /\ ~(moved /\ u.total # Unset /\ u.command = u.total /\ u.at # None /\ ~Low(x))
            /\ x.level # "reset"
            /\ ~moved /\ c # Anew(r.retry)
  <2>1. q = SolarObserved(u, x)
    BY <1>5, <1>14
  <2>2. c = r /\ r.on /\ r.context = context'
    BY <1>3, <1>14
  <2>3. /\ SolarBound(q, u)
        /\ \/ Unobserved(q, u, x) \/ LoweredTo(q, u, x) \/ Missed(q, u, x)
           \/ Confirmed(q, u, x) \/ Raised(q, u, x)
    BY <1>4, <2>1, SolarObservedCases
  <2>4. r.baseline = baseline' /\ SolarBound(q, r) /\ \A i \in Streams : x.stamps[i] <= r.feedback[i]
    BY <1>4, <1>10, <1>14, <2>2, <2>3 DEF SolarBound
  <2>5. CASE ~Low(x)
    BY <1>4, <2>2, <2>3, <2>4, <2>5 DEF ObservedTo, LoweredTo
  <2>6. CASE Low(x)
    <3>1. CASE Unobserved(q, u, x)
      <4>1. ~SolarNews(r, x) /\ q.feedback = r.feedback /\ q.confirmations = r.confirmations
            /\ q.relief = r.relief /\ q.retry = u.retry
        BY <1>4, <2>2, <2>6, <3>1 DEF Unobserved, SolarNews
      <4>2. u.retry <=> (r.retry \/ r.relief > 0)
        BY <1>4, <2>2, <2>6
      <4>3. CASE r.relief > 0
        BY <2>2, <2>4, <2>6, <4>1, <4>2, <4>3 DEF ObservedTo
      <4>4. CASE ~(r.relief > 0)
        <5>1. q.retry = r.retry
          BY <1>2, <1>4, <4>1, <4>2, <4>4
        <5> QED BY <2>2, <2>4, <2>6, <4>1, <5>1 DEF ObservedTo, Unobserved
      <4> QED BY <4>3, <4>4
    <3>2. CASE LoweredTo(q, u, x)
      BY <1>4, <2>2, <2>4, <2>6, <3>2 DEF ObservedTo, LoweredTo
    <3> QED BY <2>3, <2>6, <3>1, <3>2 DEF Missed, Confirmed, Raised, Supported
  <2> QED BY <2>5, <2>6
<1> QED BY <1>7, <1>8, <1>12, <1>13, <1>14

\* What is known of a relief and of the history when a tick begins.
LEMMA RestFacts ==
  ASSUME IInv, phase = "idle"
  PROVE  /\ r.on => /\ Holds /\ r.at # None /\ r.command = ceiling /\ r.target = Due
                    /\ ceiling = Due /\ r.context = context
                    /\ ~Solar => r.proposed = Unset
         /\ ~r.on => r = NoRelief /\ r.relief = 0
         /\ earned.owed => r.on /\ r.retry
         /\ ceiling \in Nat /\ ceiling # Unset /\ earned \in Histories /\ Typed
<1>1. Held /\ Off /\ Owing /\ Followed /\ Known(r) /\ Typed /\ earned \in Histories
  BY DEF IInv, TypeInv, Earning
<1>2. ASSUME r.on
      PROVE  /\ Holds /\ r.at # None /\ r.command = ceiling /\ r.target = Due
             /\ ceiling = Due /\ r.context = context
             /\ ~Solar => r.proposed = Unset
  <2>1. Holds
    BY <1>1, <1>2 DEF Held
  <2>2. r.at # None /\ r.command = r.target /\ r.target = Due /\ r.context = context
    BY <2>1 DEF Holds, Recorded, Matches
  <2>3. r.command = ceiling
    BY <1>1, <2>2 DEF Followed, Known
  <2>4. ~Solar => r.proposed = Unset
    BY <2>1 DEF Holds, Proposal
  <2> QED BY <2>1, <2>2, <2>3, <2>4
<1>3. ~r.on => r = NoRelief /\ r.relief = 0
  BY <1>1 DEF Off, NoRelief, NoSolar, NoMorning
<1>4. ceiling \in Nat /\ ceiling # Unset
  BY <1>1, Numbers DEF Typed, Steps
<1> QED BY <1>1, <1>2, <1>3, <1>4 DEF Owing

LEMMA Extremes ==
  ASSUME NEW a \in Int, NEW b \in Int
  PROVE  /\ Greater(a, b) \in Int /\ Greater(a, b) >= a /\ Greater(a, b) >= b
         /\ Greater(a, b) = a \/ Greater(a, b) = b
         /\ Lesser(a, b) \in Int /\ Lesser(a, b) <= a /\ Lesser(a, b) <= b
         /\ Lesser(a, b) = a \/ Lesser(a, b) = b
BY DEF Greater, Lesser

\* A baseline that moves leaves the total; a raise adds one to it.
LEMMA Totals ==
  ASSUME NEW n \in Nat, NEW b \in Nat, NEW c \in Nat, c <= n, b < n
  PROVE  /\ Lesser(n, b + Greater(0, Lesser(n, c) - b)) = Greater(c, b)
         /\ b + c < n => Lesser(n, b + Lesser(n - b, c + 1)) = b + c + 1
<1>1. Lesser(n, c) = c /\ c - b \in Int /\ n - b \in Int
  BY DEF Lesser
<1>2. b + c < n => Lesser(n, b + Lesser(n - b, c + 1)) = b + c + 1
  <2> SUFFICES ASSUME b + c < n PROVE Lesser(n, b + Lesser(n - b, c + 1)) = b + c + 1
    OBVIOUS
  <2>1. Lesser(n - b, c + 1) = c + 1
    BY DEF Lesser
  <2>2. Lesser(n, b + (c + 1)) = b + c + 1
    BY DEF Lesser
  <2> QED BY <2>1, <2>2
<1>3. CASE c > b
  <2>1. Greater(0, c - b) = c - b /\ b + (c - b) = c /\ Greater(c, b) = c
    BY <1>3 DEF Greater
  <2> QED BY <1>1, <1>2, <2>1
<1>4. CASE ~(c > b)
  <2>1. Greater(0, c - b) = 0 /\ Greater(c, b) = b /\ b + 0 = b /\ Lesser(n, b) = b
    BY <1>4 DEF Greater, Lesser
  <2> QED BY <1>1, <1>2, <2>1
<1> QED BY <1>3, <1>4

LEMMA SolarJudgedWell ==
  ASSUME IInv, Solar, NEW kind, Tick(TRUE, kind), Trusted(s'), SolarJudged(s').on
  PROVE  JudgedWell(SolarJudged(s'), s')
<1> DEFINE x == s'
           q == SolarJudged(x)
<1>1. /\ phase = "idle" /\ baseline' \in Baselines /\ context' \in {1, 2} /\ Observe(s', TRUE)
      /\ s' \in Readings(kind) /\ kind # "readback"
      /\ r' = [q EXCEPT !.target = IF q.on THEN Total(q) ELSE Unset]
  <2>1. context \in {1, 2} /\ baseline \in Baselines
    BY DEF IInv, TypeInv, Typed
  <2>2. context' \in {1, 2} /\ baseline' \in Baselines
    BY <2>1 DEF Tick
  <2> QED BY <2>2 DEF Tick, Judged
<1>2. /\ Typed /\ Known(r) /\ r \in SolarReliefs /\ NoRelief = NoSolar /\ s' \in Snapshots
      /\ r.on \/ r = NoSolar
  BY <1>1, RestFacts, ReadingsTyped DEF IInv, TypeInv, Typed, Reliefs, NoRelief
<1>3. q \in SolarReliefs /\ q.on /\ q # NoSolar /\ r'.on = q.on
  <2>1. q \in SolarReliefs
    BY <1>1, <1>2, SolarJudgedTyped
  <2>2. r'.on = q.on
    BY <1>1, <2>1 DEF SolarReliefs
  <2> QED BY <2>1, <2>2 DEF NoSolar
<1> DEFINE same == x.stamps["export"] = s.stamps["export"]
           against == Contradicts(x, TRUE)
           counts == /\ ~(same /\ earned.judged) /\ Qualifies(x)
                     /\ x.level = "saturated" /\ ~against
           whole == AllAfter(x.stamps, s.stamps)
           fresh == /\ x.level = "saturated" /\ x.stamps["export"] < q.feedback["export"]
                    /\ q.at # None /\ x.stamps["export"] < q.at
<1>4. /\ earned' \in Histories
      /\ earned'.count = IF against THEN 0
                         ELSE IF counts THEN Lesser(earned.count + 1, 3) ELSE earned.count
      /\ earned'.judged <=> (against \/ counts \/ (same /\ earned.judged))
      /\ earned'.owed => \/ earned.owed
                         \/ r.relief > 0 /\ context' = context /\ Low(x)
  BY <1>1, <1>2, <1>3, ObserveFacts, RestFacts
<1>5. /\ x.stamps["export"] \in Nat /\ x.stamps["others"] \in Nat
      /\ s.stamps["export"] \in Nat /\ s.stamps["others"] \in Nat
      /\ r.feedback["export"] \in Nat /\ r.feedback["others"] \in Nat
      /\ q.feedback["export"] \in Nat /\ q.feedback["others"] \in Nat
      /\ r.at \in Nat /\ q.at \in Nat /\ earned.since \in Nat
  <2>1. x.stamps \in Stamps /\ s.stamps \in Stamps /\ r.feedback \in Stamps /\ q.feedback \in Stamps
        /\ r.at \in Ages /\ q.at \in Ages /\ earned.since \in Ages
    BY <1>1, <1>2, <1>3, RestFacts DEF Snapshots, Typed, SolarReliefs, Histories
  <2> QED BY <2>1, AgesNat DEF Stamps
<1>6. /\ r.relief \in Nat /\ q.relief \in Nat /\ r.confirmations \in 0..2 /\ q.confirmations \in 0..2
      /\ earned.count \in 0..3 /\ earned'.count \in 0..3
      /\ baseline \in Nat /\ baseline' \in Nat /\ Normal \in Nat /\ baseline < Normal /\ baseline' < Normal
      /\ ceiling \in Nat /\ ceiling <= Normal /\ ceiling # Unset /\ Reduction \in Nat /\ Never \in Nat /\ Never > 0
      /\ earned.judged \in BOOLEAN
  <2>1. baseline \in Baselines
    BY <1>2 DEF Typed
  <2>2. Never \in Nat /\ Never > 0
    BY Numbers DEF Never
  <2>3. r.relief \in Steps /\ q.relief \in Steps /\ r.confirmations \in 0..2 /\ q.confirmations \in 0..2
    BY <1>2, <1>3, SolarFields
  <2>4. earned.count \in 0..3 /\ earned'.count \in 0..3 /\ earned.judged \in BOOLEAN
    BY <1>1, <1>4, RestFacts DEF Histories
  <2>5. ceiling \in Steps
    BY <1>2 DEF Typed
  <2> HIDE DEF q
  <2> QED BY <1>1, <2>1, <2>2, <2>3, <2>4, <2>5, Numbers DEF Steps, Unset
<1>7. /\ same => x.level = s.level
      /\ x.stamps["export"] = 0 \/ x.level = s.level
      /\ whole => x.stamps["export"] = 0 /\ x.stamps["others"] = 0
  BY <1>1, <1>2, ReadingFacts
<1>8. Total(q) = Lesser(Normal, baseline' + q.relief)
  BY DEF Total, SolarTotal
<1>9. r.on => /\ Holds /\ r.at # None /\ r.command = ceiling /\ r.context = context
              /\ r.baseline = baseline /\ ceiling = Lesser(Normal, baseline + r.relief)
  BY <1>1, RestFacts DEF Holds, Matches, Due
<1>10. (earned.owed => r.on /\ r.retry) /\ (r.relief > 0 => r.on)
  BY <1>1, RestFacts
<1>11. Restarted(q, x) \/ RebasedTo(q, x) \/ ObservedTo(q, x)
  BY <1>1, <1>2, <1>3, SolarOutcome
<1> HIDE DEF q, x, against, counts
<1>12. SUFFICES
         /\ q.context = context' /\ q.baseline = baseline'
         /\ \A i \in Streams : x.stamps[i] <= q.feedback[i]
         /\ Low(x) => /\ q.confirmations = 0 /\ q.feedback["export"] = x.stamps["export"]
                      /\ q.relief > 0 => q.retry
         /\ q.confirmations > 0 => /\ q.at # None
                                   /\ \A i \in Streams : q.feedback[i] < q.at \/ q.at = Never
         /\ q.command = ceiling =>
              /\ q.at <= earned.since
              /\ earned'.count >= q.confirmations + IF earned'.judged /\ fresh THEN 1 ELSE 0
         /\ earned'.owed => q.retry \/ Total(q) > ceiling
         /\ Total(q) > Greater(ceiling, baseline') =>
              /\ earned'.count >= NeededFor(earned'.owed)
              /\ Total(q) <= Greater(ceiling, baseline') + 1
  BY DEF JudgedWell, q, x
<1>13. CASE Restarted(q, x)
  <2>1. Total(q) = baseline'
    BY <1>6, <1>8, <1>13 DEF Restarted, Lesser
  <2>2. earned'.owed => q.retry
    BY <1>4, <1>9, <1>10, <1>13 DEF Restarted
  <2>3. ~(Total(q) > Greater(ceiling, baseline'))
    BY <1>6, <2>1 DEF Greater
  <2> QED BY <1>6, <1>13, <2>2, <2>3 DEF Restarted
<1>14. CASE RebasedTo(q, x)
  <2>1. r.on /\ q.command = ceiling /\ q.relief = Greater(0, Lesser(Normal, ceiling) - baseline')
        /\ ~Low(x) /\ q.feedback = x.stamps /\ q.confirmations = 0 /\ q.at = r.at /\ q.retry = r.retry
        /\ q.context = context' /\ q.baseline = baseline'
    BY <1>9, <1>14 DEF RebasedTo
  <2>2. ~(Total(q) > Greater(ceiling, baseline'))
    <3>1. Total(q) = Greater(ceiling, baseline')
      BY <1>6, <1>8, <2>1, Totals
    <3>2. Greater(ceiling, baseline') \in Int
      BY <1>6, Extremes
    <3> QED BY <3>1, <3>2
  <2>3. q.at <= earned.since
    BY <1>9, <2>1 DEF Holds, Counted
  <2>4. ~fresh
    BY <1>5, <2>1
  <2> HIDE DEF fresh
  <2>5. earned'.owed => q.retry
    BY <1>4, <1>10, <2>1
  <2> QED BY <1>5, <1>6, <2>1, <2>2, <2>3, <2>4, <2>5
<1>15. CASE ObservedTo(q, x)
  <2>1. /\ r.on /\ Holds /\ r.at # None /\ r.command = ceiling /\ context' = context /\ baseline' = baseline
        /\ ceiling = Lesser(Normal, baseline' + r.relief) /\ SolarBound(q, r)
        /\ x.stamps["export"] <= r.feedback["export"] /\ x.stamps["others"] <= r.feedback["others"]
        /\ q.context = context' /\ q.baseline = baseline' /\ q.at = r.at /\ q.command = ceiling
    BY <1>9, <1>15 DEF ObservedTo, SolarBound
  <2>2. /\ r.at <= earned.since
        /\ earned.count >= r.confirmations + IF earned.judged /\ Fresh THEN 1 ELSE 0
        /\ r.confirmations > 0 => \A i \in Streams : r.feedback[i] < r.at \/ r.at = Never
        /\ s.stamps["export"] <= r.feedback["export"] /\ s.stamps["others"] <= r.feedback["others"]
        /\ LowSeen
    BY <2>1 DEF Holds, Counted, Gated, Gate, Older
  <2>3. against <=> \/ Low(x) \/ (x.level = "band" /\ whole)
                    \/ whole /\ ~x.responds /\ ceiling > baseline
    BY <1>2, <2>1 DEF against, Contradicts, x
  <2>4. Fresh <=> /\ s.level = "saturated" /\ s.stamps["export"] < r.feedback["export"]
                  /\ s.stamps["export"] < r.at
    BY <2>1 DEF Fresh, Gate
  \* A relief that is not raised asks for no more than the ceiling.
  <2>5. q.relief <= r.relief => ~(Total(q) > Greater(ceiling, baseline'))
    BY <1>6, <1>8, <2>1 DEF Greater, Lesser
  <2>6. CASE Low(x)
    <3>1. ~fresh
      BY <2>6 DEF Low
    <3>2. x.stamps["export"] >= r.feedback["export"] =>
             Low(s) /\ r.confirmations = 0 /\ x.stamps["export"] = r.feedback["export"]
             /\ (r.relief > 0 => r.retry)
      <4>1. x.stamps["export"] >= r.feedback["export"] => x.level = s.level
        BY <1>5, <1>7, <2>2
      <4> QED BY <1>5, <2>1, <2>2, <2>6, <4>1 DEF LowSeen, Low
    <3>3. SolarNews(r, x) <=> x.stamps["export"] < r.feedback["export"]
      BY <2>6 DEF SolarNews
    <3>4. /\ q.confirmations = 0 /\ q.feedback["export"] = x.stamps["export"]
          /\ q.relief > 0 => q.retry
          /\ r.retry \/ r.relief > 0 => q.retry
          /\ q.relief <= r.relief
          /\ \A i \in Streams : x.stamps[i] <= q.feedback[i]
      <4>1. CASE Low(x) /\ q.retry /\ r.relief > 0 /\ q.feedback = r.feedback
               /\ q.confirmations = r.confirmations /\ q.relief = r.relief /\ ~SolarNews(r, x)
        BY <1>5, <1>6, <2>1, <3>2, <3>3, <4>1
      <4>2. CASE Unobserved(q, r, x)
        BY <1>5, <1>6, <2>1, <2>6, <3>2, <3>3, <4>2 DEF Unobserved
      <4>3. CASE LoweredTo(q, r, x)
        <5>1. q.relief <= r.relief /\ (q.relief > 0 => r.relief > 0)
          BY <1>6, <4>3 DEF LoweredTo, Greater
        <5> QED BY <1>5, <4>3, <5>1 DEF LoweredTo
      <4> QED BY <1>15, <2>6, <4>1, <4>2, <4>3 DEF ObservedTo, Missed, Confirmed, Raised, Supported
    <3> HIDE DEF fresh
    <3> QED BY <1>4, <1>6, <1>10, <2>1, <2>2, <2>5, <2>6, <3>1, <3>4
  <2>7. CASE ~Low(x)
    <3>1. earned'.owed => r.retry
      BY <1>4, <1>10, <2>7
    <3>2. /\ Oldest(x.stamps) \in Nat /\ x.stamps["export"] <= Oldest(x.stamps)
          /\ x.stamps["others"] <= Oldest(x.stamps)
          /\ (x.stamps["export"] = 0 /\ x.stamps["others"] = 0) => Oldest(x.stamps) = 0
      BY <1>5 DEF Oldest, Greater
    <3>3. CASE Unobserved(q, r, x)
      <4>1. q.feedback = r.feedback /\ q.confirmations = r.confirmations /\ q.relief = r.relief
            /\ q.retry = r.retry
        BY <3>3 DEF Unobserved
      <4>2. whole => r.at = 0
        BY <1>5, <1>7, <2>2, <2>7, <3>2, <3>3 DEF Unobserved, SolarNews, AllAfter
      <4>3. whole => r.confirmations = 0 /\ ~fresh
        BY <1>5, <1>6, <2>1, <2>2, <4>2
      <4>4. earned'.count >= q.confirmations + IF earned'.judged /\ fresh THEN 1 ELSE 0
        <5>1. CASE against
          BY <1>4, <1>6, <2>3, <2>7, <4>1, <4>3, <5>1
        <5>2. CASE ~against /\ counts
          BY <1>4, <1>6, <2>2, <4>1, <5>2 DEF Lesser
        <5>3. CASE ~against /\ ~counts
          <6>1. (earned'.judged /\ fresh) => earned.judged /\ Fresh
            BY <1>4, <1>7, <2>1, <2>4, <4>1, <5>3
          <6> HIDE DEF fresh
          <6> QED BY <1>4, <1>6, <2>2, <4>1, <5>3, <6>1
        <5> QED BY <5>1, <5>2, <5>3
      <4>5. q.confirmations > 0 => \A i \in Streams : q.feedback[i] < q.at \/ q.at = Never
        BY <2>1, <2>2, <4>1
      <4> HIDE DEF fresh
      <4> QED BY <1>5, <1>6, <2>1, <2>2, <2>5, <2>7, <3>1, <4>1, <4>4, <4>5
    <3>4. CASE Missed(q, r, x)
      <4>1. q.feedback = x.stamps /\ q.confirmations = 0 /\ q.relief = r.relief /\ q.retry = r.retry
        BY <3>4 DEF Missed
      <4>2. ~fresh
        BY <1>5, <4>1
      <4> HIDE DEF fresh
      <4> QED BY <1>5, <1>6, <2>1, <2>2, <2>5, <2>7, <3>1, <4>1, <4>2
    <3>5. ASSUME Supported(r, x)
          PROVE  /\ earned'.count >= r.confirmations + 1 \/ earned'.count >= 3
                 /\ baseline' + r.relief < Normal /\ ceiling = baseline' + r.relief
                 /\ \A i \in Streams : x.stamps[i] < r.at
      <4>1. x.level = "saturated" /\ AllAfter(x.stamps, r.feedback) /\ Oldest(x.stamps) < r.at
            /\ (r.relief > 0 => x.responds) /\ SolarTotal(r) < Normal
        BY <2>7, <3>5 DEF Supported, SolarSupports, SolarNews
      <4>2. baseline' + r.relief < Normal /\ ceiling = baseline' + r.relief
        BY <1>6, <2>1, <4>1 DEF SolarTotal, Lesser
      <4>3. ~against
        BY <1>6, <2>1, <2>3, <2>7, <4>1, <4>2
      <4>4. Qualifies(x)
        BY <1>5, <2>2, <3>2, <4>1 DEF Qualifies
      <4>5. (same /\ earned.judged) => earned.judged /\ Fresh
        BY <1>5, <1>7, <2>4, <3>2, <4>1 DEF AllAfter
      <4>6. \A i \in Streams : x.stamps[i] < r.at
        BY <1>5, <3>2, <4>1
      <4>7. CASE counts
        <5>1. earned'.count = Lesser(earned.count + 1, 3) /\ earned.count >= r.confirmations
          BY <1>4, <1>6, <2>2, <4>3, <4>7
        <5>2. earned'.count = IF earned.count + 1 < 3 THEN earned.count + 1 ELSE 3
          BY <5>1 DEF Lesser
        <5> QED BY <1>6, <4>2, <4>6, <5>1, <5>2
      <4>8. CASE ~counts
        <5>1. earned.judged /\ Fresh
          BY <4>1, <4>3, <4>4, <4>5, <4>8 DEF counts
        <5> QED BY <1>4, <1>6, <2>2, <4>2, <4>3, <4>6, <4>8, <5>1
      <4> QED BY <4>7, <4>8
    <3>6. CASE Confirmed(q, r, x)
      <4>1. q.feedback = x.stamps /\ q.confirmations = r.confirmations + 1 /\ q.relief = r.relief
            /\ q.retry = r.retry /\ Supported(r, x)
        BY <3>6 DEF Confirmed
      <4>2. ~fresh
        BY <1>5, <4>1
      <4>3. earned'.count >= q.confirmations
        BY <1>6, <3>5, <4>1
      <4> HIDE DEF fresh
      <4> QED BY <1>5, <1>6, <2>1, <2>2, <2>5, <2>7, <3>1, <3>5, <4>1, <4>2, <4>3
    <3>7. CASE Raised(q, r, x)
      <4>1. q.feedback = x.stamps /\ q.confirmations = 0 /\ Supported(r, x)
            /\ q.relief = Lesser(Normal - baseline', r.relief + 1) /\ r.confirmations + 1 >= Required(r)
        BY <3>7 DEF Raised
      <4>2. ~fresh
        BY <1>5, <4>1
      <4>3. Total(q) = ceiling + 1
        BY <1>6, <1>8, <3>5, <4>1, Totals
      <4>4. earned'.count >= NeededFor(earned'.owed)
        BY <1>6, <3>1, <3>5, <4>1 DEF NeededFor, Required
      <4>5. Total(q) > ceiling /\ Total(q) <= Greater(ceiling, baseline') + 1
        <5>1. Greater(ceiling, baseline') \in Int /\ Greater(ceiling, baseline') >= ceiling
          BY <1>6, Extremes
        <5> QED BY <1>6, <4>3, <5>1
      <4> HIDE DEF fresh
      <4> QED BY <1>5, <1>6, <2>1, <2>2, <2>7, <4>1, <4>2, <4>4, <4>5
    <3> QED BY <1>15, <2>7, <3>3, <3>4, <3>6, <3>7 DEF ObservedTo, LoweredTo
  <2> QED BY <2>6, <2>7
<1> QED BY <1>11, <1>13, <1>14, <1>15


-----------------------------------------------------------------------------
(* One judgement of Morning                                                *)

\* When the ceiling was first read back, with the report of this tick.
FirstSeen(q, x) ==
  IF q.at # None /\ q.first = None /\ x.readback.at < q.at /\ ~Lagging(q, x)
  THEN x.readback.at ELSE q.first
Begun == [NoMorning EXCEPT !.on = TRUE, !.context = context']

\* All but what the reports of the flows may change.
MorningBound(n, q, x) ==
  /\ n.on = q.on /\ n.command = q.command /\ n.at = q.at /\ n.context = q.context
  /\ n.first = FirstSeen(q, x)
MorningRead(q, x) ==
  /\ q.at # None /\ FirstSeen(q, x) # None
  /\ q.command = Lesser(Normal, baseline' + q.relief)
  /\ Oldest(x.stamps) < FirstSeen(q, x) /\ AllAfter(x.stamps, q.feedback)
Stayed(n, q, x) ==
  /\ n.proposed = Unset /\ n.feedback = q.feedback /\ n.relief = q.relief /\ n.retry = q.retry
  /\ \/ /\ n.confirmations = 0 /\ ~Low(x)
        /\ Lagging(q, x) \/ x.level = "band"
     \/ /\ n.confirmations = q.confirmations
        /\ \/ Low(x) /\ x.stamps["export"] >= q.feedback["export"]
           \/ x.level = "saturated" /\ ~Lagging(q, x) /\ ~MorningRead(q, x)
Fell(n, q, x) ==
  /\ Low(x) /\ n.feedback = x.stamps /\ n.confirmations = 0 /\ n.proposed = Unset
  /\ n.relief <= q.relief
  /\ n.retry <=> (q.retry \/ q.relief > 0)
Unmoved(n, q, x) ==
  /\ x.level = "saturated" /\ n.feedback = x.stamps /\ n.confirmations = 0 /\ n.proposed = Unset
  /\ n.relief = q.relief /\ n.retry = q.retry
Backed(q, x) ==
  x.level = "saturated" /\ MorningRead(q, x) /\ x.responds /\ q.command < Normal
Seconded(n, q, x) ==
  /\ Backed(q, x) /\ n.feedback = x.stamps /\ n.proposed = Unset
  /\ n.confirmations = q.confirmations + 1
  /\ n.relief = q.relief /\ n.retry = q.retry
Proposed(n, q, x) ==
  /\ Backed(q, x) /\ n.feedback = x.stamps /\ n.proposed = q.relief + 1
  /\ q.confirmations + 1 >= Required(q) /\ n.confirmations = 0
  /\ n.relief = q.relief /\ ~n.retry

LEMMA ReadBackFields ==
  ASSUME NEW q \in MorningReliefs, NEW x \in Snapshots
  PROVE  LET m == ReadBack(q, x)
         IN /\ m \in MorningReliefs /\ MorningBound(m, q, x)
            /\ m.proposed = q.proposed /\ m.feedback = q.feedback /\ m.relief = q.relief
            /\ m.retry = q.retry /\ m.confirmations = q.confirmations
            /\ Lagging(m, x) <=> Lagging(q, x)
<1> DEFINE m == ReadBack(q, x)
           v == [q EXCEPT !.high = x.readback.at]
           f == IF v.first = None /\ x.readback.at < q.at /\ ~Lagging(q, x)
                  THEN x.readback.at ELSE v.first
<1>1. x.readback.at \in Ages
  BY DEF Snapshots
<1>2. CASE q.at = None
  BY <1>2 DEF ReadBack, MorningBound, FirstSeen
<1>3. CASE q.at # None
  <2>1. v \in MorningReliefs
    BY <1>1, MorningUpdate
  <2>2. /\ v.on = q.on /\ v.command = q.command /\ v.at = q.at /\ v.context = q.context
        /\ v.first = q.first /\ v.proposed = q.proposed /\ v.feedback = q.feedback
        /\ v.relief = q.relief /\ v.retry = q.retry /\ v.confirmations = q.confirmations
    BY DEF MorningReliefs
  <2>3. f \in Ages /\ f = FirstSeen(q, x)
    BY <1>1, <1>3, <2>1, <2>2, MorningFields DEF FirstSeen
  <2>4. m = [v EXCEPT !.first = f]
    BY <1>3, <2>2 DEF ReadBack
  <2> HIDE DEF v, f, m
  <2>5. m \in MorningReliefs
    BY <2>1, <2>3, <2>4, MorningUpdate
  <2>6. /\ m.on = v.on /\ m.command = v.command /\ m.at = v.at /\ m.context = v.context
        /\ m.first = f /\ m.proposed = v.proposed /\ m.feedback = v.feedback
        /\ m.relief = v.relief /\ m.retry = v.retry /\ m.confirmations = v.confirmations
    BY <2>1, <2>4 DEF MorningReliefs
  <2>7. Lagging(m, x) <=> Lagging(q, x)
    BY <2>2, <2>6 DEF Lagging
  <2> QED BY <2>2, <2>3, <2>5, <2>6, <2>7 DEF MorningBound, m
<1> QED BY <1>2, <1>3

LEMMA BegunFields ==
  ASSUME context' \in {1, 2}
  PROVE  /\ Begun \in MorningReliefs /\ Begun.on /\ Begun.relief = 0 /\ Begun.proposed = Unset
         /\ Begun.confirmations = 0 /\ Begun.retry = FALSE /\ Begun.context = context'
         /\ Begun.command = Unset /\ Begun.at = None /\ Begun.first = None
         /\ Begun.feedback = NoStamps
<1>1. context' \in 0..2 /\ TRUE \in BOOLEAN /\ NoMorning \in MorningReliefs
  BY NoReliefTyped
<1>2. Begun \in MorningReliefs
  BY <1>1, MorningUpdate DEF Begun
<1> QED BY <1>2 DEF Begun, NoMorning

LEMMA MorningOutcome ==
  ASSUME r \in MorningReliefs, r.proposed = Unset, NEW x \in Snapshots, Trusted(x),
         baseline' \in Baselines, context' \in {1, 2}
  PROVE  LET c == IF r.on /\ r.context = context' THEN r ELSE Begun
             n == MorningJudged(x)
         IN \/ n = NoMorning
            \/ /\ ~SomeBefore(x.stamps, c.feedback) /\ ~ReadbackLost(c, x)
               /\ MorningBound(n, c, x)
               /\ \/ Stayed(n, c, x) \/ Fell(n, c, x) \/ Unmoved(n, c, x)
                  \/ Seconded(n, c, x) \/ Proposed(n, c, x)
<1> DEFINE c == IF r.on /\ r.context = context' THEN r ELSE Begun
           q == ReadBack(c, x)
           n == MorningJudged(x)
<1>1. c \in MorningReliefs /\ c.proposed = Unset
  BY BegunFields
<1>2. x.stamps \in Stamps /\ x.level \in Levels
  BY DEF Snapshots
<1>3. n = IF SomeBefore(x.stamps, c.feedback) \/ ReadbackLost(c, x) THEN NoMorning
     ELSE IF x.level = "reset"
       THEN [q EXCEPT !.proposed = Unset, !.retry = @ \/ q.relief > 0, !.relief = 0,
                      !.confirmations = 0, !.feedback = x.stamps]
     ELSE IF x.level = "low" THEN MorningLowered(q, x)
     ELSE IF Lagging(q, x) THEN [q EXCEPT !.confirmations = 0]
     ELSE IF x.level = "band"
       THEN [q EXCEPT !.proposed = Unset, !.confirmations = 0]
     ELSE MorningSaturated(q, x)
  BY DEF MorningJudged, Begun
<1> HIDE DEF c
<1>4. /\ q \in MorningReliefs /\ MorningBound(q, c, x)
      /\ q.proposed = Unset /\ q.feedback = c.feedback /\ q.relief = c.relief
      /\ q.retry = c.retry /\ q.confirmations = c.confirmations
      /\ Lagging(q, x) <=> Lagging(c, x)
  BY <1>1, ReadBackFields
<1>5. q.relief \in Nat /\ c.relief \in Nat /\ q.confirmations \in 0..2
  BY <1>1, <1>4, MorningFields DEF Steps
<1> HIDE DEF q, n
<1> SUFFICES ASSUME ~SomeBefore(x.stamps, c.feedback), ~ReadbackLost(c, x)
             PROVE  /\ MorningBound(n, c, x)
                    /\ \/ Stayed(n, c, x) \/ Fell(n, c, x) \/ Unmoved(n, c, x)
                       \/ Seconded(n, c, x) \/ Proposed(n, c, x)
  BY <1>3 DEF c, n
<1>6. CASE x.level = "reset"
  <2>1. n = [q EXCEPT !.proposed = Unset, !.retry = @ \/ q.relief > 0, !.relief = 0,
                      !.confirmations = 0, !.feedback = x.stamps]
    BY <1>3, <1>6
  <2>2. /\ n.on = q.on /\ n.command = q.command /\ n.at = q.at /\ n.context = q.context
        /\ n.first = q.first /\ n.proposed = Unset /\ n.relief = 0 /\ n.confirmations = 0
        /\ n.feedback = x.stamps
        /\ n.retry <=> (q.retry \/ q.relief > 0)
    BY <1>4, <2>1 DEF MorningReliefs
  <2> QED BY <1>4, <1>5, <1>6, <2>2 DEF MorningBound, Fell, Low
<1>7. CASE x.level = "low"
  <2> DEFINE m == [q EXCEPT !.proposed = Unset]
  <2>1. m = q /\ Low(x)
    BY <1>4, <1>7 DEF MorningReliefs, Low
  <2>2. CASE x.stamps["export"] >= q.feedback["export"]
    <3>1. n = m
      BY <1>3, <1>7, <2>2 DEF MorningLowered
    <3> QED BY <1>4, <2>1, <2>2, <3>1 DEF Stayed
  <2>3. CASE ~(x.stamps["export"] >= q.feedback["export"])
    <3>1. n = [m EXCEPT !.relief = Greater(0, @ - 1), !.retry = @ \/ q.relief > 0,
                        !.confirmations = 0, !.feedback = x.stamps]
      BY <1>3, <1>7, <2>3 DEF MorningLowered
    <3>2. n = [q EXCEPT !.relief = Greater(0, @ - 1), !.retry = @ \/ q.relief > 0,
                        !.confirmations = 0, !.feedback = x.stamps]
      BY <2>1, <3>1
    <3>3. /\ n.on = q.on /\ n.command = q.command /\ n.at = q.at /\ n.context = q.context
          /\ n.first = q.first /\ n.proposed = Unset /\ n.relief = Greater(0, q.relief - 1)
          /\ n.confirmations = 0 /\ n.feedback = x.stamps
          /\ n.retry <=> (q.retry \/ q.relief > 0)
      BY <1>4, <3>2 DEF MorningReliefs
    <3>4. n.relief <= q.relief
      BY <1>5, <3>3 DEF Greater
    <3> QED BY <1>4, <2>1, <3>3, <3>4 DEF MorningBound, Fell
  <2> QED BY <2>2, <2>3
<1>8. CASE ~Low(x) /\ (Lagging(q, x) \/ x.level = "band")
  <2>1. \/ n = [q EXCEPT !.confirmations = 0]
        \/ n = [q EXCEPT !.proposed = Unset, !.confirmations = 0]
    BY <1>3, <1>8 DEF Low
  <2>2. /\ n.on = q.on /\ n.command = q.command /\ n.at = q.at /\ n.context = q.context
        /\ n.first = q.first /\ n.proposed = Unset /\ n.relief = q.relief
        /\ n.confirmations = 0 /\ n.feedback = q.feedback /\ n.retry = q.retry
    BY <1>4, <2>1 DEF MorningReliefs
  <2> QED BY <1>4, <1>8, <2>2 DEF MorningBound, Stayed
<1>9. CASE x.level = "saturated" /\ ~Lagging(q, x)
  <2> DEFINE m == [q EXCEPT !.feedback = x.stamps]
  <2>1. n = MorningSaturated(q, x)
    BY <1>3, <1>9
  <2>2. MorningNews(q, x) <=> MorningRead(c, x)
    BY <1>4 DEF MorningNews, MorningRead, MorningBound
  <2>3. /\ m \in MorningReliefs /\ m.on = q.on /\ m.command = q.command /\ m.at = q.at
        /\ m.context = q.context /\ m.first = q.first /\ m.proposed = Unset /\ m.relief = q.relief
        /\ m.confirmations = q.confirmations /\ m.feedback = x.stamps /\ m.retry = q.retry
    <3>1. m \in MorningReliefs
      BY <1>2, <1>4, MorningUpdate
    <3> QED BY <1>4, <3>1 DEF MorningReliefs
  <2>4. CASE ~MorningNews(q, x)
    <3>1. n = q
      BY <2>1, <2>4 DEF MorningSaturated
    <3> QED BY <1>4, <1>9, <2>2, <2>4, <3>1 DEF Stayed
  <2>5. CASE MorningNews(q, x) /\ (~x.responds \/ q.command >= Normal)
    <3>1. n = [m EXCEPT !.confirmations = 0]
      BY <2>1, <2>5 DEF MorningSaturated
    <3> HIDE DEF m
    <3>2. /\ n.on = m.on /\ n.command = m.command /\ n.at = m.at /\ n.context = m.context
          /\ n.first = m.first /\ n.proposed = m.proposed /\ n.relief = m.relief
          /\ n.confirmations = 0 /\ n.feedback = m.feedback /\ n.retry = m.retry
      BY <2>3, <3>1 DEF MorningReliefs
    <3> QED BY <1>4, <1>9, <2>3, <3>2 DEF MorningBound, Unmoved
  <2>6. CASE MorningNews(q, x) /\ ~(~x.responds \/ q.command >= Normal)
    <3>1. Backed(c, x)
      <4>1. q.command \in Ceilings /\ q.command = c.command /\ x.responds
        BY <1>4, <2>6, MorningFields DEF MorningBound
      <4>2. q.command < Normal
        BY <2>6, <4>1, PhysicalReliefAssumption DEF Ceilings, Steps, Unset
      <4> QED BY <1>9, <2>2, <2>6, <4>1, <4>2 DEF Backed
    <3>2. CASE q.confirmations + 1 < Required(q)
      <4>1. n = [m EXCEPT !.confirmations = @ + 1]
        BY <2>1, <2>6, <3>2 DEF MorningSaturated
      <4> HIDE DEF m
      <4>2. /\ n.on = m.on /\ n.command = m.command /\ n.at = m.at /\ n.context = m.context
            /\ n.first = m.first /\ n.proposed = m.proposed /\ n.relief = m.relief
            /\ n.confirmations = m.confirmations + 1 /\ n.feedback = m.feedback /\ n.retry = m.retry
        BY <2>3, <4>1 DEF MorningReliefs
      <4> QED BY <1>4, <2>3, <3>1, <4>2 DEF MorningBound, Seconded
    <3>3. CASE ~(q.confirmations + 1 < Required(q))
      <4>1. n = [m EXCEPT !.proposed = q.relief + 1, !.confirmations = 0, !.retry = FALSE]
        BY <2>1, <2>6, <3>3 DEF MorningSaturated
      <4> HIDE DEF m
      <4>2. /\ n.on = m.on /\ n.command = m.command /\ n.at = m.at /\ n.context = m.context
            /\ n.first = m.first /\ n.proposed = q.relief + 1 /\ n.relief = m.relief
            /\ n.confirmations = 0 /\ n.feedback = m.feedback /\ ~n.retry
        BY <2>3, <4>1 DEF MorningReliefs
      <4>3. c.confirmations + 1 >= Required(c)
        BY <1>4, <1>5, <3>3 DEF Required
      <4> QED BY <1>4, <2>3, <3>1, <4>2, <4>3 DEF MorningBound, Proposed
    <3> QED BY <3>2, <3>3
  <2> QED BY <2>4, <2>5, <2>6
<1> QED BY <1>2, <1>6, <1>7, <1>8, <1>9 DEF Levels, Low

LEMMA MorningJudgedWell ==
  ASSUME IInv, ~Solar, NEW kind, Tick(TRUE, kind), Trusted(s'), MorningJudged(s').on
  PROVE  JudgedWell(MorningJudged(s'), s')
<1> DEFINE x == s'
           q == MorningJudged(x)
           c == IF r.on /\ r.context = context' THEN r ELSE Begun
<1>1. /\ phase = "idle" /\ baseline' = baseline /\ context' \in {1, 2} /\ Observe(s', TRUE)
      /\ baseline' \in Baselines /\ s' \in Readings(kind)
      /\ r' = [q EXCEPT !.target = IF q.on THEN Total(q) ELSE Unset]
  <2>1. context \in {1, 2} /\ baseline \in Baselines
    BY DEF IInv, TypeInv, Typed
  <2>2. context' \in {1, 2} /\ baseline' = baseline
    BY <2>1 DEF Tick
  <2> QED BY <2>1, <2>2 DEF Tick, Judged
<1>2. /\ Typed /\ Known(r) /\ r \in MorningReliefs /\ NoRelief = NoMorning /\ s' \in Snapshots
      /\ r.on \/ r = NoMorning
      /\ r.proposed = Unset
  <2>1. Typed /\ Known(r) /\ r \in MorningReliefs /\ NoRelief = NoMorning /\ s' \in Snapshots
    BY <1>1, ReadingsTyped DEF IInv, TypeInv, Typed, Reliefs, NoRelief
  <2>2. r.on \/ r = NoMorning
    BY <1>1, <2>1, RestFacts
  <2> QED BY <1>1, <2>1, <2>2, RestFacts DEF NoMorning
<1>3. q \in MorningReliefs /\ q.on /\ q # NoMorning /\ r'.on = q.on
  <2>1. q \in MorningReliefs
    BY <1>1, <1>2, MorningJudgedTyped
  <2>2. r'.on = q.on
    BY <1>1, <2>1 DEF MorningReliefs
  <2> QED BY <2>1, <2>2 DEF NoMorning
<1> DEFINE same == x.stamps["export"] = s.stamps["export"]
           against == Contradicts(x, TRUE)
           counts == /\ ~(same /\ earned.judged) /\ Qualifies(x)
                     /\ x.level = "saturated" /\ ~against
           whole == AllAfter(x.stamps, s.stamps)
           fresh == /\ x.level = "saturated" /\ x.stamps["export"] < q.feedback["export"]
                    /\ q.first # None /\ x.stamps["export"] < q.first
<1>4. /\ earned' \in Histories
      /\ earned'.count = IF against THEN 0
                         ELSE IF counts THEN Lesser(earned.count + 1, 3) ELSE earned.count
      /\ earned'.judged <=> (against \/ counts \/ (same /\ earned.judged))
      /\ earned'.owed => \/ earned.owed /\ context' = context
                         \/ r.relief > 0 /\ context' = context /\ Low(x)
      /\ earned'.read = IF earned.read = None /\ x.readback.at < earned.since
                             /\ x.readback.kw = ceiling
                        THEN x.readback.at ELSE earned.read
  BY <1>1, <1>2, <1>3, ObserveFacts, RestFacts
<1>5. /\ x.stamps["export"] \in Nat /\ x.stamps["others"] \in Nat
      /\ s.stamps["export"] \in Nat /\ s.stamps["others"] \in Nat
      /\ r.feedback["export"] \in Nat /\ r.feedback["others"] \in Nat
      /\ q.feedback["export"] \in Nat /\ q.feedback["others"] \in Nat
      /\ r.at \in Nat /\ r.first \in Nat /\ q.at \in Nat /\ q.first \in Nat
      /\ earned.since \in Nat /\ earned.read \in Nat /\ earned'.read \in Nat
      /\ x.readback.at \in Nat /\ s.readback.at \in Nat /\ r.at <= None
      /\ None \in Nat /\ x.stamps["export"] < None /\ x.stamps["others"] < None
  <2>1. x.stamps \in Stamps /\ s.stamps \in Stamps /\ r.feedback \in Stamps /\ q.feedback \in Stamps
        /\ r.at \in Ages /\ r.first \in Ages /\ q.at \in Ages /\ q.first \in Ages
    BY <1>2, <1>3, MorningFields DEF Snapshots, Typed
  <2>2. earned.since \in Ages /\ earned.read \in Ages /\ earned'.read \in Ages
        /\ x.readback.at \in Ages /\ s.readback.at \in Ages
    BY <1>1, <1>2, <1>4, RestFacts DEF Snapshots, Typed, Histories
  <2>3. x.stamps["export"] <= MaxAge /\ x.stamps["others"] <= MaxAge
    BY DEF Trusted
  <2>4. MaxAge \in Nat /\ None = MaxAge + 2
    BY Numbers DEF None, Never
  <2>5. /\ x.stamps["export"] \in Ages /\ x.stamps["others"] \in Ages
        /\ s.stamps["export"] \in Ages /\ s.stamps["others"] \in Ages
        /\ r.feedback["export"] \in Ages /\ r.feedback["others"] \in Ages
        /\ q.feedback["export"] \in Ages /\ q.feedback["others"] \in Ages
    BY <2>1 DEF Stamps
  <2> HIDE DEF x, q
  <2>6. /\ x.stamps["export"] \in Nat /\ x.stamps["others"] \in Nat
        /\ s.stamps["export"] \in Nat /\ s.stamps["others"] \in Nat
        /\ r.feedback["export"] \in Nat /\ r.feedback["others"] \in Nat
        /\ q.feedback["export"] \in Nat /\ q.feedback["others"] \in Nat
        /\ r.at \in Nat /\ r.first \in Nat /\ q.at \in Nat /\ q.first \in Nat
        /\ earned.since \in Nat /\ earned.read \in Nat /\ earned'.read \in Nat
        /\ x.readback.at \in Nat /\ s.readback.at \in Nat /\ r.at <= None
    BY <2>1, <2>2, <2>5, AgesNat
  <2>7. x.stamps["export"] < None /\ x.stamps["others"] < None
    BY <2>3, <2>4, <2>6
  <2> QED BY <2>4, <2>6, <2>7
<1>6. /\ r.relief \in Nat /\ q.relief \in Nat /\ r.confirmations \in 0..2 /\ q.confirmations \in 0..2
      /\ earned.count \in 0..3 /\ earned'.count \in 0..3
      /\ baseline \in Nat /\ Normal \in Nat /\ baseline < Normal
      /\ ceiling \in Nat /\ ceiling <= Normal /\ ceiling # Unset /\ Never \in Nat /\ Never > 0
      /\ earned.judged \in BOOLEAN
  <2>1. baseline \in Baselines
    BY <1>2 DEF Typed
  <2>2. Never \in Nat /\ Never > 0
    BY Numbers DEF Never
  <2>3. r.relief \in Steps /\ q.relief \in Steps /\ r.confirmations \in 0..2 /\ q.confirmations \in 0..2
    BY <1>2, <1>3, MorningFields
  <2>4. earned.count \in 0..3 /\ earned'.count \in 0..3 /\ earned.judged \in BOOLEAN
    BY <1>1, <1>4, RestFacts DEF Histories
  <2>5. ceiling \in Steps
    BY <1>2 DEF Typed
  <2> HIDE DEF q
  <2> QED BY <1>1, <2>1, <2>2, <2>3, <2>4, <2>5, Numbers DEF Steps, Unset
<1>7. /\ same => x.level = s.level
      /\ x.stamps["export"] = 0 \/ x.level = s.level
      /\ whole => x.stamps["export"] = 0 /\ x.stamps["others"] = 0
      /\ x.readback = s.readback \/ x.readback.at = 0
  BY <1>1, <1>2, ReadingFacts
<1>8. Total(q) = Lesser(Normal, baseline + IF q.proposed # Unset THEN q.proposed ELSE q.relief)
  BY <1>1 DEF Total, MorningTotal
<1>9. r.on => /\ Holds /\ r.at # None /\ r.command = ceiling /\ r.context = context
              /\ ceiling = Lesser(Normal, baseline + r.relief)
  BY <1>1, <1>2, RestFacts DEF Due
<1>10. (earned.owed => r.on /\ r.retry) /\ (r.relief > 0 => r.on)
  BY <1>1, RestFacts
<1>11. /\ ~SomeBefore(x.stamps, c.feedback) /\ ~ReadbackLost(c, x)
       /\ MorningBound(q, c, x)
       /\ \/ Stayed(q, c, x) \/ Fell(q, c, x) \/ Unmoved(q, c, x)
          \/ Seconded(q, c, x) \/ Proposed(q, c, x)
  BY <1>1, <1>2, <1>3, MorningOutcome
<1>12. x.level \in Levels
  BY <1>2 DEF Snapshots
<1> HIDE DEF q, x, against, counts
<1>13. SUFFICES
         /\ q.context = context'
         /\ \A i \in Streams : x.stamps[i] <= q.feedback[i]
         /\ Low(x) => /\ q.confirmations = 0 /\ q.feedback["export"] = x.stamps["export"]
                      /\ q.relief > 0 => q.retry
         /\ q.confirmations > 0 => /\ q.first # None
                                   /\ \A i \in Streams : q.feedback[i] < q.first \/ q.first = Never
         /\ (q.at # None /\ q.first = None) => x.readback.at >= q.at \/ x.readback.kw # q.command
         /\ q.first # None => q.at # None
         /\ q.proposed # Unset => q.command # Total(q) /\ ~Low(x)
         /\ q.command = ceiling =>
              /\ q.at <= earned.since
              /\ q.first # None => earned'.read # None /\ q.first <= earned'.read
              /\ earned'.count >= q.confirmations + IF earned'.judged /\ fresh THEN 1 ELSE 0
         /\ earned'.owed => q.retry \/ Total(q) > ceiling
         /\ Total(q) > Greater(ceiling, baseline') =>
              /\ earned'.count >= NeededFor(earned'.owed)
              /\ Total(q) <= Greater(ceiling, baseline') + 1
  BY DEF JudgedWell, q, x
<1>14. CASE ~(r.on /\ r.context = context')
  <2>1. /\ c = Begun /\ c.relief = 0 /\ c.proposed = Unset /\ c.confirmations = 0 /\ c.retry = FALSE
        /\ c.context = context' /\ c.command = Unset /\ c.at = None /\ c.first = None
        /\ c.feedback = NoStamps
    BY <1>1, <1>14, BegunFields
  <2> HIDE DEF c
  <2>2. /\ q.command = Unset /\ q.at = None /\ q.context = context' /\ q.first = None
    BY <1>11, <2>1 DEF MorningBound, FirstSeen
  <2>3. ~MorningRead(c, x) /\ NoStamps["export"] = None /\ NoStamps["others"] = None
    BY <2>1 DEF MorningRead, NoStamps
  <2>4. /\ q.relief = 0 /\ q.confirmations = 0 /\ q.proposed = Unset
        /\ \A i \in Streams : x.stamps[i] <= q.feedback[i]
        /\ Low(x) => q.feedback["export"] = x.stamps["export"]
    <3>1. CASE Stayed(q, c, x)
      BY <1>5, <2>1, <2>3, <3>1 DEF Stayed, Low
    <3>2. CASE Fell(q, c, x)
      BY <1>5, <1>6, <2>1, <3>2 DEF Fell
    <3>3. CASE Unmoved(q, c, x)
      BY <1>5, <2>1, <3>3 DEF Unmoved, Low
    <3> QED BY <1>11, <2>3, <3>1, <3>2, <3>3 DEF Seconded, Proposed, Backed
  <2>5. ~earned'.owed
    BY <1>4, <1>9, <1>10, <1>14
  <2>6. Total(q) = baseline
    BY <1>6, <1>8, <2>4 DEF Lesser
  <2>7. ~(Total(q) > Greater(ceiling, baseline'))
    BY <1>1, <1>6, <2>6 DEF Greater
  <2> HIDE DEF fresh
  <2> QED BY <1>6, <2>2, <2>4, <2>5, <2>7
<1>15. CASE r.on /\ r.context = context'
  <2>1. /\ c = r /\ Holds /\ r.at # None /\ r.command = ceiling /\ context' = context
        /\ ceiling = Lesser(Normal, baseline + r.relief)
        /\ q.context = context' /\ q.at = r.at /\ q.command = ceiling
        /\ q.first = FirstSeen(r, x)
    BY <1>9, <1>11, <1>15 DEF MorningBound
  <2>2. /\ ~ReadbackLost(r, x) /\ x.stamps["export"] <= r.feedback["export"]
        /\ x.stamps["others"] <= r.feedback["others"]
        /\ \/ Stayed(q, r, x) \/ Fell(q, r, x) \/ Unmoved(q, r, x)
           \/ Seconded(q, r, x) \/ Proposed(q, r, x)
    <3> HIDE DEF c
    <3> QED BY <1>5, <1>11, <2>1 DEF SomeBefore
  <2> HIDE DEF c
  <2>3. /\ r.at <= earned.since
        /\ r.first # None => earned.read # None /\ r.first <= earned.read
        /\ earned.count >= r.confirmations + IF earned.judged /\ Fresh THEN 1 ELSE 0
        /\ r.confirmations > 0 => r.first # None /\ \A i \in Streams : r.feedback[i] < r.first \/ r.first = Never
        /\ s.stamps["export"] <= r.feedback["export"] /\ s.stamps["others"] <= r.feedback["others"]
        /\ LowSeen
        /\ r.first = None => s.readback.at >= r.at \/ s.readback.kw # r.command
    BY <2>1 DEF Holds, Counted, Gated, Gate, Older, ReadSeen
  <2>4. against <=> \/ Low(x) \/ x.level = "band" \/ (whole /\ ~x.responds)
    BY <1>1, <1>2, <2>1 DEF against, Contradicts, x
  <2>5. Fresh <=> /\ s.level = "saturated" /\ s.stamps["export"] < r.feedback["export"]
                  /\ r.first # None /\ s.stamps["export"] < r.first
    BY DEF Fresh, Gate
  <2>6. earned.read # None => s.readback.at <= earned.read /\ earned.read <= earned.since
    BY DEF IInv, Earning, Readable
  \* The first readback of this tick.
  <2>7. ASSUME r.first = None, q.first # None
        PROVE  /\ q.first = x.readback.at /\ x.readback.at < r.at /\ ~Lagging(r, x)
               /\ q.first = 0 /\ x.readback.kw = ceiling
    <3>1. q.first = x.readback.at /\ x.readback.at < r.at /\ ~Lagging(r, x)
      BY <2>1, <2>7 DEF FirstSeen
    <3>2. x.readback.kw = r.command
      BY <2>1, <3>1 DEF Lagging
    <3>3. x.readback # s.readback
      BY <1>5, <2>3, <2>7, <3>1, <3>2
    <3> QED BY <1>7, <2>1, <3>1, <3>2, <3>3
  <2>8. r.first # None => q.first = r.first
    BY <2>1 DEF FirstSeen
  <2>9. q.first # None => earned'.read # None /\ q.first <= earned'.read
    <3>1. CASE r.first # None
      BY <1>4, <2>3, <2>8, <3>1
    <3>2. CASE r.first = None /\ q.first # None
      BY <1>4, <1>5, <2>3, <2>7, <3>2
    <3> QED BY <3>1, <3>2
  <2>10. q.first = None => x.readback.at >= q.at \/ x.readback.kw # q.command
    <3> SUFFICES ASSUME q.first = None, x.readback.at < q.at, x.readback.kw = q.command PROVE FALSE
      BY <1>5
    <3>1. ~Lagging(r, x) /\ x.readback.at < r.at
      BY <2>1 DEF Lagging
    <3>2. q.first = x.readback.at
      BY <2>1, <2>8, <3>1 DEF FirstSeen
    <3> QED BY <1>5, <3>1, <3>2
  \* A relief that proposes nothing and is not raised asks for no more than the ceiling.
  <2>11. (q.proposed = Unset /\ q.relief <= r.relief) => ~(Total(q) > Greater(ceiling, baseline'))
    <3> SUFFICES ASSUME q.proposed = Unset, q.relief <= r.relief PROVE Total(q) <= ceiling
      BY <1>1, <1>6, <1>8 DEF Greater, Lesser
    <3>1. Total(q) = Lesser(Normal, baseline + q.relief)
      BY <1>8
    <3> QED BY <1>6, <2>1, <3>1 DEF Lesser
  <2>12. q.first # None => q.at # None
    BY <2>1
  <2>13. CASE Low(x)
    <3>1. ~fresh
      BY <2>13 DEF Low
    <3>2. x.stamps["export"] >= r.feedback["export"] =>
             r.confirmations = 0 /\ x.stamps["export"] = r.feedback["export"]
             /\ (r.relief > 0 => r.retry)
      <4>1. x.stamps["export"] >= r.feedback["export"] => x.level = s.level
        BY <1>5, <1>7, <2>2, <2>3
      <4> QED BY <1>5, <2>1, <2>2, <2>3, <2>13, <4>1 DEF LowSeen, Low
    <3>3. /\ q.confirmations = 0 /\ q.feedback["export"] = x.stamps["export"] /\ q.proposed = Unset
          /\ q.relief > 0 => q.retry
          /\ r.retry \/ r.relief > 0 => q.retry
          /\ q.relief <= r.relief
          /\ \A i \in Streams : x.stamps[i] <= q.feedback[i]
      <4>1. CASE Stayed(q, r, x)
        BY <1>5, <1>6, <2>2, <2>13, <3>2, <4>1 DEF Stayed, Low
      <4>2. CASE Fell(q, r, x)
        BY <1>5, <1>6, <4>2 DEF Fell
      <4> QED BY <2>2, <2>13, <4>1, <4>2 DEF Low, Unmoved, Seconded, Proposed, Backed
    <3> HIDE DEF fresh
    <3> QED BY <1>4, <1>6, <1>10, <2>1, <2>3, <2>9, <2>10, <2>11, <2>12, <2>13, <3>1, <3>3
  <2>14. CASE ~Low(x)
    <3>1. earned'.owed => r.retry
      BY <1>4, <1>10, <2>14
    <3>2. /\ Oldest(x.stamps) \in Nat /\ x.stamps["export"] <= Oldest(x.stamps)
          /\ x.stamps["others"] <= Oldest(x.stamps)
          /\ (x.stamps["export"] = 0 /\ x.stamps["others"] = 0) => Oldest(x.stamps) = 0
      BY <1>5 DEF Oldest, Greater
    <3>3. CASE Stayed(q, r, x)
      <4>1. /\ q.feedback = r.feedback /\ q.relief = r.relief /\ q.retry = r.retry
            /\ q.proposed = Unset /\ q.confirmations \in {0, r.confirmations}
        BY <3>3 DEF Stayed
      <4>2. (whole /\ x.level = "saturated") => q.confirmations = 0 /\ ~fresh
        <5> SUFFICES ASSUME whole, x.level = "saturated" PROVE q.confirmations = 0 /\ ~fresh
          OBVIOUS
        <5>1. CASE Lagging(r, x)
          <6>1. r.first = None /\ q.first = None
            BY <2>1, <2>2, <5>1 DEF ReadbackLost, FirstSeen
          <6> QED BY <2>14, <3>3, <5>1, <6>1 DEF Stayed
        <5>2. CASE ~Lagging(r, x)
          <6>1. ~MorningRead(r, x) /\ q.confirmations = r.confirmations
            BY <2>14, <3>3, <5>2 DEF Stayed
          <6>2. AllAfter(x.stamps, r.feedback)
            BY <1>5, <2>3 DEF AllAfter
          <6>3. q.first = None \/ Oldest(x.stamps) >= q.first
            BY <1>1, <1>5, <2>1, <3>2, <6>1, <6>2 DEF MorningRead
          <6>4. q.first = None \/ q.first = 0
            BY <1>5, <1>7, <3>2, <6>3
          <6>5. r.confirmations = 0
            BY <1>5, <1>6, <2>3, <2>8, <6>4
          <6> QED BY <1>5, <6>1, <6>4, <6>5
        <5> QED BY <5>1, <5>2
      <4>3. x.level = "band" => q.confirmations = 0
        BY <2>14, <3>3 DEF Stayed
      <4>4. earned'.count >= q.confirmations + IF earned'.judged /\ fresh THEN 1 ELSE 0
        <5>1. CASE against
          <6>1. q.confirmations = 0 /\ ~fresh
            BY <1>12, <2>4, <2>14, <4>2, <4>3, <5>1 DEF Levels, Low
          <6> HIDE DEF fresh
          <6> QED BY <1>6, <6>1
        <5>2. CASE ~against /\ counts
          BY <1>4, <1>6, <2>3, <4>1, <5>2 DEF Lesser
        <5>3. CASE ~against /\ ~counts
          <6>1. (earned'.judged /\ fresh) => earned.judged /\ Fresh
            BY <1>4, <1>5, <1>7, <2>5, <2>7, <2>8, <4>1, <5>3
          <6> HIDE DEF fresh
          <6> QED BY <1>4, <1>6, <2>3, <4>1, <5>3, <6>1
        <5> QED BY <5>1, <5>2, <5>3
      <4>5. q.confirmations > 0 =>
               q.first # None /\ \A i \in Streams : q.feedback[i] < q.first \/ q.first = Never
        BY <1>6, <2>3, <2>8, <4>1
      <4> HIDE DEF fresh
      <4> QED BY <1>5, <1>6, <2>1, <2>2, <2>3, <2>9, <2>10, <2>11, <2>12, <2>14, <3>1, <4>1, <4>4, <4>5
    <3>4. CASE Unmoved(q, r, x)
      <4>1. /\ q.feedback = x.stamps /\ q.confirmations = 0 /\ q.relief = r.relief
            /\ q.retry = r.retry /\ q.proposed = Unset
        BY <3>4 DEF Unmoved
      <4>2. ~fresh
        BY <1>5, <4>1
      <4> HIDE DEF fresh
      <4> QED BY <1>5, <1>6, <2>1, <2>3, <2>9, <2>10, <2>11, <2>12, <2>14, <3>1, <4>1, <4>2
    <3>5. ASSUME Backed(r, x)
          PROVE  /\ earned'.count >= r.confirmations + 1 \/ earned'.count >= 3
                 /\ baseline + r.relief < Normal /\ ceiling = baseline + r.relief
                 /\ q.first # None /\ \A i \in Streams : x.stamps[i] < q.first
      <4>1. /\ x.level = "saturated" /\ x.responds /\ r.command < Normal
            /\ q.first # None /\ Oldest(x.stamps) < q.first /\ AllAfter(x.stamps, r.feedback)
        BY <2>1, <3>5 DEF Backed, MorningRead
      <4>2. baseline + r.relief < Normal /\ ceiling = baseline + r.relief
        BY <1>6, <2>1, <4>1 DEF Lesser
      <4>3. ~against
        BY <2>4, <2>14, <4>1
      <4>4. r.first # None /\ q.first = r.first
        BY <1>5, <2>7, <2>8, <3>2, <4>1
      <4>5. Qualifies(x)
        BY <1>5, <2>3, <2>6, <3>2, <4>1, <4>4 DEF Qualifies
      <4>6. \A i \in Streams : x.stamps[i] < q.first
        BY <1>5, <3>2, <4>1
      <4>7. (same /\ earned.judged) => earned.judged /\ Fresh
        BY <1>7, <2>5, <4>1, <4>4, <4>6 DEF AllAfter
      <4>8. CASE counts
        <5>1. earned'.count = Lesser(earned.count + 1, 3) /\ earned.count >= r.confirmations
          BY <1>4, <1>6, <2>3, <4>3, <4>8
        <5>2. earned'.count = IF earned.count + 1 < 3 THEN earned.count + 1 ELSE 3
          BY <5>1 DEF Lesser
        <5> QED BY <1>6, <4>1, <4>2, <4>6, <5>1, <5>2
      <4>9. CASE ~counts
        <5>1. earned.judged /\ Fresh
          BY <4>1, <4>3, <4>5, <4>7, <4>9 DEF counts
        <5> QED BY <1>4, <1>6, <2>3, <4>1, <4>2, <4>3, <4>6, <4>9, <5>1
      <4> QED BY <4>8, <4>9
    <3>6. CASE Seconded(q, r, x)
      <4>1. q.feedback = x.stamps /\ q.confirmations = r.confirmations + 1 /\ q.relief = r.relief
            /\ q.retry = r.retry /\ q.proposed = Unset /\ Backed(r, x)
        BY <3>6 DEF Seconded
      <4>2. ~fresh
        BY <1>5, <4>1
      <4>3. earned'.count >= q.confirmations
        BY <1>6, <3>5, <4>1
      <4> HIDE DEF fresh
      <4> QED BY <1>5, <1>6, <2>1, <2>3, <2>9, <2>10, <2>11, <2>12, <2>14, <3>1, <3>5, <4>1, <4>2, <4>3
    <3>7. CASE Proposed(q, r, x)
      <4>1. q.feedback = x.stamps /\ q.confirmations = 0 /\ Backed(r, x)
            /\ q.proposed = r.relief + 1 /\ r.confirmations + 1 >= Required(r)
        BY <3>7 DEF Proposed
      <4>2. ~fresh
        BY <1>5, <4>1
      <4>3. Total(q) = ceiling + 1
        <5>1. Total(q) = Lesser(Normal, baseline + (r.relief + 1))
          BY <1>6, <1>8, <4>1 DEF Unset
        <5> QED BY <1>6, <3>5, <4>1, <5>1 DEF Lesser
      <4>4. earned'.count >= NeededFor(earned'.owed)
        BY <1>6, <3>1, <3>5, <4>1 DEF NeededFor, Required
      <4>5. Total(q) > ceiling /\ Total(q) <= Greater(ceiling, baseline') + 1
        <5>1. Greater(ceiling, baseline') \in Int /\ Greater(ceiling, baseline') >= ceiling
          BY <1>1, <1>6, Extremes
        <5> QED BY <1>6, <4>3, <5>1
      <4>6. q.command # Total(q)
        BY <1>6, <2>1, <4>3
      <4> HIDE DEF fresh
      <4> QED BY <1>5, <1>6, <2>1, <2>3, <2>9, <2>10, <2>12, <2>14, <4>1, <4>2, <4>4, <4>5, <4>6
    <3> QED BY <2>2, <2>14, <3>3, <3>4, <3>6, <3>7 DEF Fell
  <2> QED BY <2>13, <2>14
<1> QED BY <1>14, <1>15

-----------------------------------------------------------------------------
(* The steps after the decision                                            *)

\* All of a relief that its conditions speak of.
Alike ==
  /\ r'.on = r.on /\ r'.command = r.command /\ r'.at = r.at /\ r'.target = r.target
  /\ r'.relief = r.relief /\ r'.confirmations = r.confirmations /\ r'.retry = r.retry
  /\ r'.feedback = r.feedback /\ r'.context = r.context
  /\ Solar => r'.baseline = r.baseline
  /\ ~Solar => r'.first = r.first /\ r'.proposed = r.proposed
Standing == policy' = policy /\ context' = context /\ baseline' = baseline /\ s' = s
SameCount ==
  /\ earned'.count = earned.count /\ earned'.judged = earned.judged
  /\ earned'.since = earned.since /\ earned'.read = earned.read

\* A relief that a step leaves alone.
LEMMA HoldsAgain ==
  ASSUME Holds, Standing, Alike,
         phase' # "idle" => plan'.ceiling = r.target /\ plan'.owned,
         r.command = ceiling' => ceiling' = ceiling /\ SameCount,
         Recorded',
         (~Solar /\ r.proposed # Unset) => phase' # "idle"
  PROVE  Holds'
<1> USE DEF Standing, Alike, SameCount
<1>1. Solar' = Solar
  BY DEF Solar
<1>2. Due' = Due /\ Gate' = Gate /\ (Fresh' <=> Fresh)
  BY <1>1 DEF Due, Gate, Fresh
<1>3. Matches' /\ Older' /\ LowSeen' /\ Gated'
  BY <1>1, <1>2 DEF Holds, Matches, Older, LowSeen, Gated, Low
<1>4. ReadSeen' /\ Proposal'
  BY <1>1 DEF Holds, ReadSeen, Proposal, Low
<1>5. Planned'
  BY DEF Planned
<1>6. Counted'
  BY <1>1, <1>2 DEF Holds, Counted
<1> QED BY <1>3, <1>4, <1>5, <1>6 DEF Holds

\* What giving the inverter a ceiling leaves of the history.
LEMMA GivenWell ==
  ASSUME IInv, TypeInv', Standing, NEW kw \in Steps, Give(kw), phase' # "decided",
         phase' = "idle" => ~plan'.relieved,
         phase' # "idle" => \/ plan'.sent \in {None, 0}
                            \/ /\ phase # "idle" /\ plan'.sent = plan.sent
                               /\ r'.on => r.on /\ kw = ceiling,
         r'.on => /\ r.on /\ (r.retry => r'.retry)
                  /\ phase = "decided" => kw = plan.ceiling
  PROVE  /\ earned' \in Histories /\ ceiling' = kw
         /\ kw = ceiling => SameCount
         /\ Sent' /\ Readable' /\ Owing' /\ AtRest' /\ Earned'
<1>1. /\ Typed /\ earned \in Histories /\ ceiling \in Steps /\ r'.on \in BOOLEAN
      /\ Sent /\ Readable /\ Owing
  <2>1. r' \in Reliefs' /\ Reliefs' = Reliefs
    BY PolicyKept DEF TypeInv, Typed, Standing
  <2> QED BY <2>1, SolarFields, MorningFields DEF IInv, TypeInv, Typed, Earning, Reliefs
<1>2. /\ ceiling' = kw /\ earned' \in Histories
      /\ earned'.owed = (r'.on /\ earned.owed /\ kw <= ceiling)
      /\ kw = ceiling => /\ earned'.count = earned.count /\ earned'.judged = earned.judged
                         /\ earned'.since = earned.since /\ earned'.read = earned.read
      /\ kw # ceiling => /\ earned'.count = 0 /\ ~earned'.judged
                         /\ earned'.since = 0 /\ earned'.read = None
  BY <1>1, GiveFacts
<1>3. /\ s.stamps["export"] \in Nat /\ s.stamps["others"] \in Nat /\ s.readback.at \in Nat
      /\ earned'.since \in Nat /\ kw \in Nat /\ ceiling \in Nat
  <2>1. s.stamps \in Stamps /\ s.readback.at \in Ages /\ earned'.since \in Ages
    BY <1>1, <1>2 DEF Typed, Snapshots, Histories
  <2> QED BY <1>1, <2>1, AgesNat DEF Stamps, Steps
<1>4. Sent'
  BY <1>1, <1>2, <1>3 DEF Sent, Standing
<1>5. Readable'
  BY <1>1, <1>2 DEF Readable, Standing
<1>6. Owing'
  <2> SUFFICES ASSUME earned'.owed PROVE r'.on /\ r'.retry
    BY DEF Owing
  <2>1. r'.on /\ earned.owed /\ kw <= ceiling
    BY <1>2
  <2>2. ~(phase = "decided" /\ plan.ceiling > ceiling)
    BY <1>3, <2>1
  <2>3. r.retry
    BY <1>1, <2>1, <2>2 DEF Owing
  <2> QED BY <2>1, <2>3
<1>7. AtRest' /\ Earned'
  BY DEF AtRest, Earned
<1> QED BY <1>2, <1>4, <1>5, <1>6, <1>7 DEF SameCount

\* The relief is given up.
LEMMA GivenUp ==
  ASSUME IInv, TypeInv', Standing, NEW kw \in Steps, Give(kw), r' = NoRelief,
         phase' # "decided", phase' = "idle" => ~plan'.relieved,
         phase' # "idle" => \/ plan'.sent \in {None, 0}
                            \/ phase # "idle" /\ plan'.sent = plan.sent
  PROVE  earned' \in Histories /\ Earning'
<1>1. ~r'.on /\ NoRelief' = NoRelief
  BY PolicyKept DEF Standing, NoRelief, NoSolar, NoMorning
<1>2. Held' /\ Off'
  BY <1>1 DEF Held, Off
<1> QED BY <1>1, <1>2, GivenWell DEF Earning

\* A relief that a recheck leaves.
LEMMA RecheckedEither ==
  ASSUME IInv, phase # "idle"
  PROVE  LET c == Rechecked
         IN /\ c.plan \in Plans /\ c.plan.ceiling \in Steps /\ c.plan.sent = plan.sent
            /\ c.r = NoRelief \/ (c.r = r /\ c.plan = plan /\ r.on /\ Holds)
            /\ plan.ceiling \in Steps
            /\ r.on => plan.ceiling = r.target /\ plan.owned /\ plan.ceiling # Unset
<1> DEFINE c == Rechecked
<1>1. Typed /\ Followed /\ Held /\ Off
  BY DEF IInv, TypeInv, Earning
<1>2. /\ c.plan \in Plans /\ c.plan.ceiling \in Steps /\ c.plan.sent = plan.sent
      /\ c.r = NoRelief \/ (c.r = r /\ c.plan = plan)
  BY <1>1, RecheckedTyped DEF Followed
<1> HIDE DEF c
<1>3. r.on => plan.ceiling = r.target /\ plan.owned
  BY <1>1 DEF Held, Holds, Planned
<1>4. plan.ceiling \in Steps /\ plan.ceiling # Unset
  BY <1>1, Numbers DEF Followed
<1> QED BY <1>1, <1>2, <1>3, <1>4 DEF Off, Held, c

LEMMA WriteEarns ==
  ASSUME IInv, TypeInv', Write PROVE earned' \in Histories /\ Earning'
<1> DEFINE c == Rechecked
<1>1. /\ phase = "decided" /\ phase' = "written" /\ plan' = [c.plan EXCEPT !.sent = 0]
      /\ r' = c.r /\ Give(plan'.ceiling) /\ Standing
  BY DEF Write, Standing
<1>2. /\ c.plan \in Plans /\ c.plan.ceiling \in Steps
      /\ c.r = NoRelief \/ (c.r = r /\ c.plan = plan /\ r.on /\ Holds)
      /\ r.on => plan.ceiling = r.target /\ plan.owned /\ plan.ceiling # Unset
  BY <1>1, RecheckedEither
<1> HIDE DEF c
<1>3. plan'.ceiling = c.plan.ceiling /\ plan'.sent = 0 /\ plan'.owned = c.plan.owned
  BY <1>1, <1>2 DEF Plans
<1>4. CASE c.r = NoRelief
  BY <1>1, <1>2, <1>3, <1>4, GivenUp
<1>5. CASE c.r = r /\ c.plan = plan /\ r.on /\ Holds
  <2>1. /\ earned' \in Histories /\ ceiling' = plan.ceiling
        /\ plan.ceiling = ceiling => SameCount
        /\ Sent' /\ Readable' /\ Owing' /\ AtRest' /\ Earned'
    BY <1>1, <1>2, <1>3, <1>5, GivenWell
  <2>2. r.command = ceiling' => ceiling' = ceiling /\ SameCount
    BY <1>1, <1>2, <1>5, <2>1 DEF IInv, TypeInv, Followed
  <2>3. Alike /\ Recorded'
    BY <1>1, <1>5 DEF Alike, Recorded
  <2>4. Holds'
    BY <1>1, <1>2, <1>3, <1>5, <2>2, <2>3, HoldsAgain
  <2>5. Held' /\ Off'
    BY <1>1, <1>5, <2>4 DEF Held, Off
  <2> QED BY <2>1, <2>5 DEF Earning
<1> QED BY <1>2, <1>4, <1>5

\* A relief whose command is recorded starts to wait for what came after it.
LEMMA SettleEarns ==
  ASSUME IInv, TypeInv', Settle PROVE earned' \in Histories /\ Earning'
<1> DEFINE c == Rechecked
           p == Restored(c.plan)
<1>1. /\ phase = "written" /\ phase' = "settled"
      /\ plan' = IF Solar THEN c.plan ELSE p
      /\ r' = IF Solar /\ c.plan.owned THEN SolarRecorded(c.r, c.plan.ceiling, plan.sent) ELSE c.r
      /\ Give(plan'.ceiling) /\ Standing
  BY DEF Settle, Standing
<1>2. /\ c.plan \in Plans /\ c.plan.ceiling \in Steps /\ c.plan.sent = plan.sent
      /\ c.r = NoRelief \/ (c.r = r /\ c.plan = plan /\ r.on /\ Holds)
      /\ r.on => plan.ceiling = r.target /\ plan.owned /\ plan.ceiling # Unset
  BY <1>1, RecheckedEither
<1>3. plan.ceiling = ceiling /\ plan.sent # None /\ plan.sent \in Ages
  BY <1>1, PlanUpdate DEF IInv, TypeInv, Typed, Followed
<1> HIDE DEF c
<1>4. /\ p.ceiling = c.plan.ceiling /\ p.sent \in {plan.sent, None}
      /\ c.plan = plan => p = plan
  <2>1. (p = c.plan /\ c.plan.ceiling = ceiling) \/ (p = [c.plan EXCEPT !.sent = None] /\ c.plan.ceiling # ceiling)
    BY DEF Restored
  <2> HIDE DEF p
  <2> QED BY <1>2, <1>3, <2>1 DEF Plans
<1> HIDE DEF p
<1>5. CASE c.r = NoRelief
  <2>1. r' = NoRelief
    <3>1. CASE Solar /\ c.plan.owned
      <4>1. NoRelief = NoSolar /\ NoSolar.target # c.plan.ceiling
        BY <1>2, <3>1, Numbers DEF NoRelief, NoSolar
      <4> QED BY <1>1, <1>5, <3>1, <4>1 DEF SolarRecorded
    <3>2. CASE ~(Solar /\ c.plan.owned)
      BY <1>1, <1>5, <3>2
    <3> QED BY <3>1, <3>2
  <2> QED BY <1>1, <1>2, <1>4, <2>1, GivenUp
<1>6. CASE c.r = r /\ c.plan = plan /\ r.on /\ Holds
  <2>1. plan' = plan /\ plan.owned /\ r.target = ceiling
        /\ ceiling \in Steps /\ Give(ceiling) /\ r \in Reliefs
    BY <1>1, <1>2, <1>3, <1>4, <1>6 DEF IInv, TypeInv, Typed
  <2>2. ASSUME r'.on = r.on, r'.retry = r.retry
        PROVE  /\ earned' \in Histories /\ ceiling' = ceiling /\ SameCount
               /\ Sent' /\ Readable' /\ Owing' /\ AtRest' /\ Earned'
    BY <1>1, <1>6, <2>1, <2>2, GivenWell
  <2>3. CASE Solar /\ (r.command # ceiling \/ r.at = None)
    <3>1. r' = [r EXCEPT !.total = Unset, !.command = ceiling, !.at = plan.sent, !.confirmations = 0]
      BY <1>1, <1>3, <1>6, <2>1, <2>3 DEF SolarRecorded
    <3>2. r \in SolarReliefs
      BY <2>1, <2>3 DEF Reliefs
    <3>3. /\ r'.on = r.on /\ r'.command = ceiling /\ r'.at = plan.sent /\ r'.target = r.target
          /\ r'.relief = r.relief /\ r'.confirmations = 0 /\ r'.retry = r.retry
          /\ r'.feedback = r.feedback /\ r'.context = r.context /\ r'.baseline = r.baseline
      BY <3>1, <3>2 DEF SolarReliefs
    <3>4. Solar' /\ Due' = Due /\ Gate' = plan.sent
      BY <1>1, <2>3, <3>3 DEF Standing, Solar, Due, Gate
    <3>5. Matches' /\ Older' /\ LowSeen' /\ Gated'
      <4>1. 0 \in Int /\ ~(0 > 0)
        OBVIOUS
      <4> QED BY <1>1, <1>6, <2>3, <3>3, <3>4, <4>1
                 DEF Holds, Matches, Older, LowSeen, Gated, Low, Standing
    <3>6. ReadSeen' /\ Proposal' /\ Recorded' /\ Planned'
      BY <1>1, <1>3, <2>1, <3>3, <3>4 DEF ReadSeen, Proposal, Recorded, Planned
    <3>7. earned' \in Histories /\ ceiling' = ceiling /\ SameCount
      BY <2>2, <3>3
    <3>8. plan.sent <= earned.since /\ plan.sent <= s.stamps["export"]
      BY <1>1, <1>3, <1>6 DEF IInv, Earning, Sent
    <3>9. ~Fresh'
      <4>1. s.stamps["export"] \in Nat /\ plan.sent \in Nat
        <5>1. s.stamps["export"] \in Ages
          BY DEF IInv, TypeInv, Typed, Snapshots, Stamps
        <5> QED BY <1>3, <5>1, AgesNat
      <4> QED BY <1>1, <3>4, <3>8, <4>1 DEF Fresh, Standing
    <3>10. earned'.count \in Nat
      BY <3>7 DEF Histories
    <3>11. Counted'
      BY <3>3, <3>4, <3>7, <3>8, <3>9, <3>10 DEF Counted, SameCount
    <3>12. Held' /\ Off'
      BY <1>6, <3>3, <3>5, <3>6, <3>11 DEF Held, Holds, Off
    <3> QED BY <2>2, <3>3, <3>12 DEF Earning
  <2>4. CASE ~Solar \/ ~(r.command # ceiling \/ r.at = None)
    <3>1. r' = r
      BY <1>1, <1>3, <1>6, <2>1, <2>4 DEF SolarRecorded
    <3>2. Alike /\ Recorded'
      BY <1>1, <2>1, <2>4, <3>1 DEF Alike, Recorded, Standing, Solar
    <3>3. Holds'
      BY <1>1, <1>3, <1>6, <2>1, <2>2, <3>1, <3>2, HoldsAgain
    <3>4. Held' /\ Off'
      BY <1>6, <3>1, <3>3 DEF Held, Off
    <3> QED BY <2>2, <3>1, <3>4 DEF Earning
  <2> QED BY <2>3, <2>4
<1> QED BY <1>2, <1>5, <1>6

LEMMA NoTotal == [NoSolar EXCEPT !.total = Unset] = NoSolar
<1>1. NoSolar \in SolarReliefs /\ NoSolar.total = Unset
  BY NoReliefTyped DEF NoSolar
<1>2. \A q \in SolarReliefs : q.total = Unset => [q EXCEPT !.total = Unset] = q
  BY DEF SolarReliefs
<1> QED BY <1>1, <1>2

LEMMA CompleteEarns ==
  ASSUME IInv, TypeInv', Complete PROVE earned' \in Histories /\ Earning'
<1> DEFINE c == Rechecked
           p == Restored(c.plan)
<1>1. /\ phase = "settled" /\ phase' = "idle" /\ plan' = NoPlan /\ Standing
      /\ ~plan'.relieved
  BY DEF Complete, Over, Standing, NoPlan
<1>2. /\ c.plan \in Plans /\ c.plan.ceiling \in Steps /\ c.plan.sent = plan.sent
      /\ c.r = NoRelief \/ (c.r = r /\ c.plan = plan /\ r.on /\ Holds)
      /\ r.on => plan.ceiling = r.target /\ plan.owned /\ plan.ceiling # Unset
  BY <1>1, RecheckedEither
<1>3. /\ plan.ceiling = ceiling /\ ceiling \in Steps /\ r \in Reliefs /\ plan.sent \in Ages
      /\ (~Solar /\ plan.sent = None) => r = NoRelief
      /\ r.on \/ r = NoRelief
      /\ r.on => Holds
      /\ Known(r)
  BY <1>1, PlanUpdate DEF IInv, TypeInv, Typed, Followed, Earning, Off, Held
<1> HIDE DEF c
<1>4. /\ p.ceiling = c.plan.ceiling
      /\ c.plan = plan => p = plan
  <2>1. (p = c.plan /\ c.plan.ceiling = ceiling) \/ (p = [c.plan EXCEPT !.sent = None] /\ c.plan.ceiling # ceiling)
    BY DEF Restored
  <2> HIDE DEF p
  <2> QED BY <1>2, <1>3, <2>1 DEF Plans
<1> HIDE DEF p
<1>5. /\ Solar => IF plan.on /\ plan.owned
                  THEN /\ \E t \in {p.ceiling, Unset} :
                            /\ r' = [c.r EXCEPT !.total = t]
                            /\ t # Unset => c.r.on
                       /\ Give(p.ceiling)
                  ELSE r' = r /\ Give(ceiling)
      /\ ~Solar => IF plan.sent # None /\ r.target # Unset
                   THEN /\ r' = IF p.sent # None THEN MorningRecorded(c.r, p.ceiling, p.sent) ELSE c.r
                        /\ Give(p.ceiling)
                   ELSE r' = r /\ Give(ceiling)
  BY DEF Complete, CompleteSolar, CompleteMorning, c, p
\* An unchanged ceiling leaves what was counted.
<1>6. ASSUME Give(ceiling), r.on, r'.on = r.on, r'.retry = r.retry
      PROVE  /\ earned' \in Histories /\ ceiling' = ceiling /\ SameCount
             /\ Sent' /\ Readable' /\ Owing' /\ AtRest' /\ Earned'
  BY <1>1, <1>3, <1>6, GivenWell
<1>7. ASSUME Give(ceiling), r.on, Alike, Recorded', ~Solar => r.proposed = Unset
      PROVE  earned' \in Histories /\ Earning'
  <2>1. r'.on = r.on /\ r'.retry = r.retry
    BY <1>7 DEF Alike
  <2>2. Holds'
    BY <1>1, <1>3, <1>6, <1>7, <2>1, HoldsAgain
  <2>3. Held' /\ Off'
    BY <1>7, <2>1, <2>2 DEF Held, Off
  <2> QED BY <1>6, <1>7, <2>1, <2>3 DEF Earning
<1>8. ASSUME r' = NoRelief, NEW kw \in Steps, Give(kw) PROVE earned' \in Histories /\ Earning'
  BY <1>1, <1>8, GivenUp
<1>9. CASE ~r.on
  <2>1. r = NoRelief /\ c.r = NoRelief /\ r.target = Unset
    BY <1>2, <1>3, <1>9 DEF NoRelief, NoSolar, NoMorning
  <2>2. CASE Solar /\ plan.on /\ plan.owned
    <3>1. PICK t \in {p.ceiling, Unset} : r' = [NoSolar EXCEPT !.total = t] /\ (t # Unset => NoSolar.on)
      BY <1>5, <2>1, <2>2 DEF NoRelief
    <3>2. t = Unset
      BY <3>1 DEF NoSolar
    <3>3. r' = NoRelief
      BY <2>2, <3>1, <3>2, NoTotal DEF NoRelief
    <3> QED BY <1>2, <1>4, <1>5, <1>8, <2>2, <3>3
  <2>3. CASE ~(Solar /\ plan.on /\ plan.owned)
    BY <1>3, <1>5, <1>8, <2>1, <2>3
  <2> QED BY <2>2, <2>3
<1>10. CASE r.on /\ Solar
  <2>1. Recorded /\ r.at # None /\ r.command = r.target /\ r.target = ceiling
    BY <1>1, <1>2, <1>3, <1>10 DEF Holds, Recorded
  <2>2. CASE ~(plan.on /\ plan.owned)
    <3>1. r' = r /\ Give(ceiling)
      BY <1>5, <1>10, <2>2
    <3>2. Alike /\ Recorded'
      BY <2>1, <3>1 DEF Alike, Recorded
    <3> QED BY <1>7, <1>10, <3>1, <3>2
  <2>3. CASE plan.on /\ plan.owned
    <3>1. PICK t \in {p.ceiling, Unset} : r' = [c.r EXCEPT !.total = t] /\ (t # Unset => c.r.on)
      BY <1>5, <1>10, <2>3
    <3>2. Give(p.ceiling)
      BY <1>5, <1>10, <2>3
    <3>3. CASE c.r = NoRelief
      <4>1. t = Unset /\ c.r = NoSolar
        BY <1>10, <3>1, <3>3 DEF NoSolar, NoRelief
      <4>2. r' = NoRelief
        BY <1>10, <3>1, <4>1, NoTotal DEF NoRelief
      <4> QED BY <1>2, <1>4, <1>8, <3>2, <4>2
    <3>4. CASE c.r = r /\ c.plan = plan
      <4>1. Give(ceiling)
        BY <1>3, <1>4, <3>2, <3>4
      <4>2. r \in SolarReliefs
        BY <1>3, <1>10 DEF Reliefs
      <4>3. Alike
        BY <1>10, <3>1, <3>4, <4>2 DEF Alike, SolarReliefs
      <4>4. Recorded'
        BY <2>1, <4>3 DEF Alike, Recorded
      <4> QED BY <1>7, <1>10, <4>1, <4>3, <4>4
    <3> QED BY <1>2, <3>3, <3>4
  <2> QED BY <2>2, <2>3
<1>11. CASE r.on /\ ~Solar
  <2>1. plan.sent # None /\ r.target # Unset /\ r.target = ceiling
    <3>1. r # NoRelief
      BY <1>11 DEF NoRelief, NoSolar, NoMorning
    <3> QED BY <1>2, <1>3, <1>11, <3>1
  <2>2. /\ r' = IF p.sent # None THEN MorningRecorded(c.r, p.ceiling, p.sent) ELSE c.r
        /\ Give(p.ceiling)
    BY <1>5, <1>11, <2>1
  <2>3. CASE c.r = NoRelief
    <3>1. NoRelief = NoMorning /\ NoMorning.target # p.ceiling
      BY <1>2, <1>4, <1>11, Numbers DEF NoRelief, NoMorning
    <3>2. r' = NoRelief
      BY <2>2, <2>3, <3>1 DEF MorningRecorded
    <3> QED BY <1>2, <1>4, <1>8, <2>2, <3>2
  <2>4. CASE c.r = r /\ c.plan = plan /\ r.command = ceiling
    <3>1. r' = r /\ Give(ceiling)
      BY <1>3, <1>4, <2>1, <2>2, <2>4 DEF MorningRecorded
    <3>2. Alike
      BY <3>1 DEF Alike
    <3>3. r.proposed = Unset
      BY <1>3, <1>11, <2>1, <2>4 DEF Holds, Proposal
    <3>4. Recorded'
      BY <1>3, <2>1, <2>4, <3>1, Numbers DEF Known, Recorded
    <3> QED BY <1>7, <1>11, <3>1, <3>2, <3>3, <3>4
  <2>5. CASE c.r = r /\ c.plan = plan /\ r.command # ceiling
    <3> DEFINE d == IF r.proposed # Unset THEN r.proposed ELSE r.relief
    <3>1. /\ r' = [r EXCEPT !.relief = d,
                   !.proposed = Unset, !.previous = r.command, !.command = ceiling, !.at = plan.sent,
                   !.first = None, !.high = None, !.confirmations = 0]
          /\ Give(ceiling)
      <4>1. r' = MorningRecorded(r, ceiling, plan.sent) /\ Give(ceiling)
        BY <1>3, <1>4, <2>1, <2>2, <2>5
      <4>2. r \in MorningReliefs
        BY <1>3, <1>11 DEF Reliefs
      <4> QED BY <2>1, <2>5, <4>1, <4>2 DEF MorningRecorded, MorningReliefs
    <3>2. r \in MorningReliefs
      BY <1>3, <1>11 DEF Reliefs
    <3> HIDE DEF d
    <3>3. /\ r'.on = r.on /\ r'.command = ceiling /\ r'.at = plan.sent /\ r'.target = r.target
          /\ r'.relief = d /\ r'.proposed = Unset /\ r'.confirmations = 0 /\ r'.retry = r.retry
          /\ r'.feedback = r.feedback /\ r'.context = r.context /\ r'.first = None
      BY <3>1, <3>2 DEF MorningReliefs
    <3>4. ~Solar' /\ Due' = Due /\ Gate' = None
      BY <1>1, <1>11, <3>3 DEF Standing, Solar, Due, Gate, d
    <3>5. r.confirmations \in 0..2 /\ r.relief \in Steps
      BY <3>2, MorningFields
    <3>6. (Low(s) /\ d > 0) => r.retry
      BY <1>3, <1>11 DEF Holds, Proposal, LowSeen, d
    <3>7. Matches' /\ Older' /\ LowSeen' /\ Gated'
      <4>1. 0 \in Int /\ ~(0 > 0)
        OBVIOUS
      <4> QED BY <1>1, <1>3, <1>11, <3>3, <3>4, <3>6, <4>1
                 DEF Holds, Matches, Older, LowSeen, Gated, Low, Standing
    <3>8. earned' \in Histories /\ ceiling' = ceiling /\ SameCount
      BY <1>6, <1>11, <3>1, <3>3
    <3>9. /\ plan.sent <= earned.since /\ plan.sent <= s.readback.at
      BY <1>1, <1>11, <2>1 DEF IInv, Earning, Sent
    <3>10. plan.sent \in Nat /\ s.readback.at \in Nat /\ earned'.count \in Nat
      <4>1. s.readback.at \in Ages
        BY DEF IInv, TypeInv, Typed, Snapshots
      <4> QED BY <1>3, <3>8, <4>1, AgesNat DEF Histories
    <3>11. ReadSeen' /\ Proposal' /\ Recorded' /\ Planned'
      BY <1>1, <2>1, <3>3, <3>4, <3>9, <3>10 DEF ReadSeen, Proposal, Recorded, Planned, Standing
    <3>12. Counted'
      BY <3>3, <3>4, <3>8, <3>9, <3>10 DEF Counted, SameCount, Fresh
    <3>13. Held' /\ Off'
      BY <1>11, <3>3, <3>7, <3>11, <3>12 DEF Held, Holds, Off
    <3> QED BY <1>6, <1>11, <3>1, <3>3, <3>13 DEF Earning
  <2> QED BY <1>2, <2>3, <2>4, <2>5
<1> QED BY <1>9, <1>10, <1>11

LEMMA FailEarns ==
  ASSUME IInv, TypeInv', Fail PROVE earned' \in Histories /\ Earning'
<1>1. /\ phase # "idle" /\ phase' = "idle" /\ plan' = NoPlan /\ r' = NoRelief /\ Standing
      /\ ~NoPlan.relieved
  BY DEF Fail, Over, Standing, NoPlan
<1>2. PICK kw \in {ceiling, plan.ceiling} : Give(kw)
  BY DEF Fail
<1>3. kw \in Steps
  BY <1>1 DEF IInv, TypeInv, Typed, Followed
<1> QED BY <1>1, <1>2, <1>3, GivenUp

LEMMA ConfigureEarns ==
  ASSUME IInv, TypeInv', Configure PROVE earned' \in Histories /\ Earning'
<1>1. /\ phase = "idle" /\ phase' = phase /\ plan' = plan /\ r' = NoRelief /\ Standing
      /\ Give(ceiling) /\ ceiling \in Steps /\ ~plan.relieved
  BY DEF Configure, Standing, IInv, TypeInv, Typed, Earning, AtRest
<1> QED BY <1>1, GivenUp

LEMMA NothingEarns ==
  ASSUME IInv, UNCHANGED <<policy, tick, phase, plan, r, ceiling, earned>>
  PROVE  earned' \in Histories /\ Earning'
<1>1. Solar' = Solar /\ NoRelief' = NoRelief /\ Histories' = Histories
  BY PolicyKept DEF Histories
<1>2. Due' = Due /\ Gate' = Gate /\ (Fresh' <=> Fresh)
  BY <1>1 DEF Due, Gate, Fresh
<1>3. Matches' = Matches /\ Older' = Older /\ LowSeen' = LowSeen /\ Gated' = Gated
  BY <1>1, <1>2 DEF Matches, Older, LowSeen, Gated, Low
<1>4. ReadSeen' = ReadSeen /\ Proposal' = Proposal /\ Recorded' = Recorded /\ Planned' = Planned
  BY <1>1 DEF ReadSeen, Proposal, Recorded, Planned, Low
<1>5. Counted => Counted'
  BY <1>1, <1>2 DEF Counted
<1>6. Held'
  BY <1>3, <1>4, <1>5 DEF IInv, Earning, Held, Holds
<1>7. Off' /\ Sent' /\ Readable' /\ Owing' /\ AtRest' /\ Earned'
  BY <1>1 DEF IInv, Earning, Off, Sent, Readable, Owing, AtRest, Earned
<1> QED BY <1>1, <1>6, <1>7 DEF IInv, Earning

\* Time keeps the order of what was reported and commanded.
LEMMA AdvanceEarns ==
  ASSUME IInv, TypeInv', Advance PROVE earned' \in Histories /\ Earning'
<1>1. /\ s' = [s EXCEPT !.stamps = BothAged(@), !.readback.at = Aged(@)]
      /\ plan' = [plan EXCEPT !.sent = Aged(@)]
      /\ earned' = [earned EXCEPT !.since = Aged(@), !.read = Aged(@)]
      /\ policy' = policy /\ context' = context
      /\ baseline' = baseline /\ phase' = phase /\ ceiling' = ceiling
  BY DEF Advance
<1>2. /\ s \in Snapshots /\ plan \in Plans /\ earned \in Histories /\ r \in Reliefs
      /\ Solar' = Solar /\ NoRelief' = NoRelief /\ Histories' = Histories
  BY <1>1, PolicyKept DEF IInv, TypeInv, Typed, Histories
<1>3. /\ \A i \in Streams : s'.stamps[i] = Aged(s.stamps[i])
      /\ s'.level = s.level /\ s'.readback.at = Aged(s.readback.at) /\ s'.readback.kw = s.readback.kw
  BY <1>1, <1>2 DEF Snapshots, Stamps, BothAged
<1>4. /\ plan'.sent = Aged(plan.sent) /\ plan'.ceiling = plan.ceiling /\ plan'.owned = plan.owned
      /\ plan'.relieved = plan.relieved
  BY <1>1, <1>2 DEF Plans
<1>5. /\ earned' \in Histories /\ earned'.count = earned.count /\ earned'.judged = earned.judged
      /\ earned'.since = Aged(earned.since) /\ earned'.read = Aged(earned.read)
      /\ earned'.owed = earned.owed
  <2>1. earned.since \in Ages /\ earned.read \in Ages
    BY <1>2 DEF Histories
  <2>2. Aged(earned.since) \in Ages /\ Aged(earned.read) \in Ages
    BY <2>1, AgedTyped
  <2> QED BY <1>1, <1>2, <2>2 DEF Histories
<1>6. /\ r'.on = r.on /\ r'.command = r.command /\ r'.at = Aged(r.at) /\ r'.target = r.target
      /\ r'.relief = r.relief /\ r'.confirmations = r.confirmations /\ r'.retry = r.retry
      /\ r'.context = r.context
      /\ \A i \in Streams : r'.feedback[i] = Aged(r.feedback[i])
      /\ Solar => r'.baseline = r.baseline
      /\ ~Solar => r'.first = Aged(r.first) /\ r'.proposed = r.proposed
  <2>1. CASE Solar
    <3>1. r' = [r EXCEPT !.at = Aged(@), !.feedback = BothAged(@)] /\ r \in SolarReliefs
      BY <1>2, <2>1 DEF Advance, Reliefs
    <3>2. /\ r'.on = r.on /\ r'.command = r.command /\ r'.at = Aged(r.at) /\ r'.target = r.target
          /\ r'.relief = r.relief /\ r'.confirmations = r.confirmations /\ r'.retry = r.retry
          /\ r'.context = r.context /\ r'.feedback = BothAged(r.feedback) /\ r'.baseline = r.baseline
      BY <3>1 DEF SolarReliefs
    <3> QED BY <2>1, <3>2 DEF BothAged
  <2>2. CASE ~Solar
    <3>1. r' = [r EXCEPT !.at = Aged(@), !.feedback = BothAged(@),
                         !.first = Aged(@), !.high = Aged(@)] /\ r \in MorningReliefs
      BY <1>2, <2>2 DEF Advance, Reliefs
    <3>2. /\ r'.on = r.on /\ r'.command = r.command /\ r'.at = Aged(r.at) /\ r'.target = r.target
          /\ r'.relief = r.relief /\ r'.confirmations = r.confirmations /\ r'.retry = r.retry
          /\ r'.context = r.context /\ r'.feedback = BothAged(r.feedback)
          /\ r'.first = Aged(r.first) /\ r'.proposed = r.proposed
      BY <3>1 DEF MorningReliefs
    <3> QED BY <2>2, <3>2 DEF BothAged
  <2> QED BY <2>1, <2>2
<1>7. r = NoRelief => r' = NoRelief
  <2>1. Aged(None) = None
    BY PhysicalReliefAssumption DEF Aged, None, Never
  <2>2. BothAged(NoStamps) = NoStamps
    BY <2>1 DEF BothAged, NoStamps
  <2>3. CASE Solar
    <3>1. /\ r' = [r EXCEPT !.at = Aged(@), !.feedback = BothAged(@)] /\ NoRelief = NoSolar
          /\ r \in SolarReliefs
      BY <1>2, <2>3 DEF Advance, NoRelief, Reliefs
    <3>2. (r.at = None /\ r.feedback = NoStamps) => r' = r
      BY <2>1, <2>2, <3>1 DEF SolarReliefs
    <3>3. NoSolar.at = None /\ NoSolar.feedback = NoStamps
      BY DEF NoSolar
    <3> QED BY <3>1, <3>2, <3>3
  <2>4. CASE ~Solar
    <3>1. /\ r' = [r EXCEPT !.at = Aged(@), !.feedback = BothAged(@),
                            !.first = Aged(@), !.high = Aged(@)]
          /\ NoRelief = NoMorning /\ r \in MorningReliefs
      BY <1>2, <2>4 DEF Advance, NoRelief, Reliefs
    <3>2. (r.at = None /\ r.feedback = NoStamps /\ r.first = None /\ r.high = None) => r' = r
      BY <2>1, <2>2, <3>1 DEF MorningReliefs
    <3>3. NoMorning.at = None /\ NoMorning.feedback = NoStamps
          /\ NoMorning.first = None /\ NoMorning.high = None
      BY DEF NoMorning
    <3> QED BY <3>1, <3>2, <3>3
  <2> QED BY <2>3, <2>4
<1>8. /\ \A i \in Streams : s.stamps[i] \in Ages /\ r.feedback[i] \in Ages
      /\ s.readback.at \in Ages /\ plan.sent \in Ages /\ r.at \in Ages
      /\ earned.since \in Ages /\ earned.read \in Ages
      /\ ~Solar => r.first \in Ages
      /\ Gate \in Ages /\ Gate' = Aged(Gate)
  <2>1. r.at \in Ages /\ r.feedback \in Stamps /\ (~Solar => r.first \in Ages)
    BY <1>2, SolarFields, MorningFields DEF Reliefs
  <2>2. Gate \in Ages /\ Gate' = Aged(Gate)
    BY <1>2, <1>6, <2>1 DEF Gate
  <2> QED BY <1>2, <2>1, <2>2 DEF Snapshots, Stamps, Plans, Histories
<1>9. \A a, b \in Ages : /\ a <= b => Aged(a) <= Aged(b)
                         /\ Aged(a) < Aged(b) => a < b
                         /\ (a < b \/ b = Never) => (Aged(a) < Aged(b) \/ Aged(b) = Never)
                         /\ Aged(a) \in Ages /\ (Aged(a) = None <=> a = None)
  BY AgedOrder, AgedTyped
<1> HIDE DEF Gate
<1>10. Due' = Due
  BY <1>1, <1>2, <1>6 DEF Due
<1>11. ASSUME r.on PROVE Holds'
  <2>1. Holds
    BY <1>11 DEF IInv, Earning, Held
  <2>2. Matches' /\ Older'
    BY <1>1, <1>2, <1>3, <1>6, <1>8, <1>9, <1>10, <2>1 DEF Holds, Matches, Older
  <2>3. LowSeen'
    BY <1>3, <1>6, <2>1 DEF Holds, LowSeen, Low
  <2>4. Gated'
    BY <1>6, <1>8, <1>9, <2>1 DEF Holds, Gated
  <2>5. ReadSeen'
    BY <1>2, <1>3, <1>6, <1>8, <1>9, <2>1 DEF Holds, ReadSeen
  <2>6. Proposal' /\ Recorded' /\ Planned'
    BY <1>1, <1>2, <1>3, <1>4, <1>6, <1>8, <1>9, <2>1 DEF Holds, Proposal, Recorded, Planned, Low
  <2>7. Fresh' => Fresh
    BY <1>3, <1>6, <1>8, <1>9 DEF Fresh
  <2>8. Counted'
    <3> SUFFICES ASSUME r.command = ceiling PROVE Counted'
      BY <1>1, <1>6 DEF Counted
    <3>1. /\ r.at <= earned.since
          /\ (~Solar /\ r.first # None) => earned.read # None /\ r.first <= earned.read
          /\ earned.count >= r.confirmations + IF earned.judged /\ Fresh THEN 1 ELSE 0
      BY <2>1 DEF Holds, Counted
    <3>2. r'.at <= earned'.since
      BY <1>5, <1>6, <1>8, <1>9, <3>1
    <3>3. (~Solar' /\ r'.first # None) => earned'.read # None /\ r'.first <= earned'.read
      BY <1>2, <1>5, <1>6, <1>8, <1>9, <3>1
    <3>4. earned'.count >= r'.confirmations + IF earned'.judged /\ Fresh' THEN 1 ELSE 0
      <4>1. earned.count \in 0..3 /\ r.confirmations \in 0..2
        BY <1>2, SolarFields, MorningFields DEF Histories, Reliefs
      <4>2. (earned'.judged /\ Fresh') => earned.judged /\ Fresh
        BY <1>5, <2>7
      <4> QED BY <1>5, <1>6, <3>1, <4>1, <4>2
    <3> QED BY <3>2, <3>3, <3>4 DEF Counted
  <2> QED BY <2>2, <2>3, <2>4, <2>5, <2>6, <2>8 DEF Holds
<1>12. Held' /\ Off'
  BY <1>2, <1>6, <1>7, <1>11 DEF IInv, Earning, Held, Off
<1>13. Sent'
  <2> SUFFICES ASSUME phase # "idle", plan.sent # None PROVE Sent'
    BY <1>1, <1>4, <1>8, <1>9 DEF Sent
  <2>1. /\ \A i \in Streams : plan.sent <= s.stamps[i]
        /\ plan.sent <= s.readback.at
        /\ r.on => plan.sent <= earned.since
    BY DEF IInv, Earning, Sent
  <2> QED BY <1>3, <1>4, <1>5, <1>6, <1>8, <1>9, <2>1 DEF Sent
<1>14. Readable'
  BY <1>3, <1>5, <1>8, <1>9 DEF IInv, Earning, Readable
<1>15. Owing' /\ AtRest' /\ Earned'
  BY <1>1, <1>4, <1>5, <1>6 DEF IInv, Earning, Owing, AtRest, Earned
<1> QED BY <1>2, <1>5, <1>12, <1>13, <1>14, <1>15 DEF Earning

LEMMA EarnedAtStart == Init => IInv
<1> SUFFICES ASSUME Init PROVE IInv
  OBVIOUS
<1>1. /\ phase = "idle" /\ plan = NoPlan /\ r = NoRelief /\ earned = NothingEarned
      /\ s = NoReport
  BY DEF Init
<1>2. ~NoRelief.on /\ ~NoPlan.relieved
  BY DEF NoRelief, NoSolar, NoMorning, NoPlan
<1>3. earned \in Histories /\ earned.read = None /\ ~earned.owed
  BY <1>1, Numbers DEF NothingEarned, Histories
<1>4. Earning
  BY <1>1, <1>2, <1>3 DEF Earning, Held, Off, Sent, Readable, Owing, AtRest, Earned
<1> QED BY <1>3, <1>4, TypesStart DEF IInv

LEMMA EarnedKept == IInv /\ [Next]_vars => IInv'
<1> SUFFICES ASSUME IInv, [Next]_vars PROVE IInv'
  OBVIOUS
<1>1. TypeInv'
  BY TypesKept DEF IInv
<1>2. SUFFICES earned' \in Histories /\ Earning'
  BY <1>1 DEF IInv, Histories
<1>3. CASE UNCHANGED vars
  BY <1>3, NothingEarns DEF vars
<1>4. CASE LoseAuthority
  BY <1>4, NothingEarns DEF LoseAuthority
<1>5. ASSUME NEW owned \in BOOLEAN, NEW kind, Tick(owned, kind)
      PROVE  earned' \in Histories /\ Earning'
  <2> SUFFICES ASSUME owned, Trusted(s'), Judged(s').on PROVE JudgedWell(Judged(s'), s')
    BY <1>5, TickEarns
  <2>1. Tick(TRUE, kind)
    BY <1>5
  <2>2. CASE Solar
    <3>1. Judged(s') = SolarJudged(s')
      BY <2>2 DEF Judged
    <3> QED BY <2>1, <2>2, <3>1, SolarJudgedWell
  <2>3. CASE ~Solar
    <3>1. Judged(s') = MorningJudged(s')
      BY <2>3 DEF Judged
    <3> QED BY <2>1, <2>3, <3>1, MorningJudgedWell
  <2> QED BY <2>2, <2>3
<1> QED BY <1>1, <1>3, <1>4, <1>5, AdvanceEarns, WriteEarns, SettleEarns, CompleteEarns,
           FailEarns, ConfigureEarns DEF Next

\* A charge ceiling is raised one step at a time above what the fill trajectory
\* asks for, and only by what the reports after its last change have earned.
THEOREM RisesEarned == Spec => RiseEarned
<1>1. IInv /\ [Next]_vars =>
        [plan.relieved /\ ceiling' = plan.ceiling /\ ceiling' > Greater(ceiling, baseline)
           => /\ earned.count >= IF earned.owed THEN 3 ELSE 2
              /\ ceiling' <= Greater(ceiling, baseline) + 1]_vars
  <2> SUFFICES ASSUME IInv, [Next]_vars, plan.relieved, ceiling' = plan.ceiling,
                      ceiling' > Greater(ceiling, baseline)
               PROVE  /\ earned.count >= IF earned.owed THEN 3 ELSE 2
                      /\ ceiling' <= Greater(ceiling, baseline) + 1
    OBVIOUS
  <2>1. ceiling \in Int /\ baseline \in Int
    BY Numbers DEF IInv, TypeInv, Typed, Steps
  <2>2. ceiling' # ceiling
    <3>1. Greater(ceiling, baseline) \in Int /\ Greater(ceiling, baseline) >= ceiling
      BY <2>1, Extremes
    <3> QED BY <2>1, <3>1
  \* A ceiling that was written, or a tick that rests, raises nothing.
  <2>3. phase = "decided"
    BY <2>2 DEF IInv, TypeInv, Typed, Followed, Earning, AtRest
  <2> QED BY <2>3 DEF IInv, Earning, Earned, NeededFor
<1> QED BY <1>1, EarnedAtStart, EarnedKept, PTL DEF Spec, RiseEarned
=============================================================================
