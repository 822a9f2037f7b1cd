------------------------ MODULE SolarProvider_proofs -------------------------
(***************************************************************************)
(* Proofs about SolarProvider, for every length of the day, interval,      *)
(* heartbeat, debounce, queue and set of faults: the types, that a sleeping *)
(* loop wakes with the end of the authority, that the loop does not keep   *)
(* itself awake, and that a forecast's ceiling is commanded only under     *)
(* current proof.                                                          *)
(***************************************************************************)
EXTENDS SolarProvider, TLAPS

USE DEF world, channel, loop, history, None, Times

-----------------------------------------------------------------------------
(* The inductive invariant                                                 *)

Ticking == {"reading", "read", "decided"}
States == {"UNVERIFIED", "VALID", "EXPIRED"}
Evidences == [polled : Instants, version : Instants, sunset : Instants]
Authorities ==
  [source : {1, 2}, state : States, highWater : Instants, wsHighWater : Instants,
   verified : Instants, deadline : Instants, day : Instants, evidence : Evidences,
   baselined : BOOLEAN, urgent : BOOLEAN, same : BOOLEAN, wake : BOOLEAN, lost : BOOLEAN]
Snapshots ==
  [continuity : BOOLEAN, polled : Instants, next : Instants, version : Instants,
   day : Instants, ok : BOOLEAN, sun : BOOLEAN]
Events ==
  [entity : {"poll"}, of : {1, 2}, old : Polls, new : Polls]
    \cup [entity : {"forecast"}, of : {1, 2}, old : Forecasts, new : Forecasts]
Items == {"provider", "entity", "time"}

OutsideTyped ==
  /\ clock \in Times
  /\ poll \in Polls /\ forecast \in Forecasts
  /\ wire \in Seq(Events) /\ Len(wire) <= WireSize /\ connected \in BOOLEAN
  /\ configured \in {1, 2}
  /\ faults \in Nat
LoopTyped ==
  /\ queue \in Seq(Items) /\ Len(queue) <= QueueSize
  /\ phase \in Phases /\ until \in Nat /\ lastTick \in Times
  /\ s \in Snapshots
  /\ ceiling \in {"none", "planned", "commanded"}
  /\ success \in BOOLEAN /\ promise \in Instants /\ ticks \in Nat

\* What the fields of an authority say of each other: a baseline has a day and
\* a deadline, and only a baseline has evidence, which is of its day.
Consistent(q) ==
  /\ q.baselined <=> q.deadline # None
  /\ q.baselined <=> q.day # None
  /\ q.evidence # NoEvidence =>
       /\ q.baselined /\ q.evidence.polled # None
       /\ q.verified = q.evidence.polled /\ Day(q.evidence.polled) = q.day
  /\ q.state = "VALID" => q.evidence # NoEvidence

AuthorityInv ==
  /\ p \in Authorities /\ ~p.wake /\ ~p.lost
  /\ p.source = configured
  /\ Consistent(p)
  /\ p.deadline = promise

\* The snapshot in hand and the epoch it was begun in.
TickInv ==
  phase \in Ticking =>
    /\ ~p.same => ~p.baselined
    /\ p.same /\ s.continuity => connected
    /\ phase = "decided" /\ p.same /\ s.next # None => p.deadline <= s.next

\* There is no evidence before a success, and until then no poll is later than
\* the one on record.
SuccessInv ==
  /\ p.evidence # NoEvidence => success
  /\ ~success =>
       /\ p.highWater # None => poll.at <= p.highWater
       /\ phase = "read" /\ p.same =>
            /\ poll.at <= s.polled
            /\ p.highWater # None => s.polled <= p.highWater

AwakeInv ==
  phase \in {"waiting", "collecting"} =>
    /\ p.urgent => queue # <<>>
    /\ queue = <<>> /\ p.state = "VALID" => until <= p.deadline /\ until <= Midnight(clock)

\* The cycles that can still start when nothing more happens outside: one for
\* every queued item, a wake kept in the authority, its end, and the next alarm.
One(b) == IF b THEN 1 ELSE 0
Late(q, now) == q.state = "VALID" /\ now >= q.deadline
Count(ph, n, urgent, late, alarm, over) ==
  CASE ph \in Ticking   -> n + One(urgent) + One(late)
    [] ph = "idle"      -> n + One(urgent \/ late \/ alarm)
    [] ph = "waiting"   -> (IF n = 0 THEN One(over) ELSE n) + One(late)
    [] OTHER            -> 1 + n + One(late)
Reasons == Count(phase, Len(queue), p.urgent, Late(p, clock),
                 lastTick + Heartbeat <= clock, clock >= until)
Bounded == ticks + Reasons <= QueueSize + 2

\* An authority that was granted within the cycle is still that of its snapshot.
Calm ==
  phase = "decided" /\ ceiling = "planned" /\ ticks > 0 =>
    p.same /\ s.continuity /\ p.day \in {None, Day(clock)}

IInv ==
  /\ OutsideTyped /\ LoopTyped
  /\ AuthorityInv /\ TickInv /\ SuccessInv
  /\ AwakeInv /\ Bounded /\ Calm

-----------------------------------------------------------------------------
(* Instants, days and least elements                                       *)

LEMMA Scale ==
  ASSUME NEW a \in Int, NEW b \in Int, NEW n \in Nat, a <= b
  PROVE  a * n <= b * n
OBVIOUS
LEMMA Quotient ==
  ASSUME NEW t \in Nat, NEW n \in Nat \ {0}
  PROVE  /\ t \div n \in Nat
         /\ (t \div n) * n <= t /\ t < (t \div n + 1) * n
OBVIOUS
LEMMA QuotientMonotone ==
  ASSUME NEW t \in Nat, NEW u \in Nat, NEW n \in Nat \ {0}, t <= u
  PROVE  t \div n <= u \div n
<1>1. CASE u \div n < t \div n
  <2>1. (u \div n + 1) * n <= (t \div n) * n
     BY <1>1, Quotient, Scale
  <2> QED BY <2>1, Quotient
<1> QED BY <1>1, Quotient
LEMMA QuotientSmall ==
  ASSUME NEW t \in Nat, NEW n \in Nat \ {0}
  PROVE  t \div n <= t
<1>1. (t \div n) * 1 <= (t \div n) * n
  BY Quotient
<1> QED BY <1>1, Quotient
LEMMA Least ==
  ASSUME NEW S \in SUBSET Nat, NEW x \in S, \A y \in S : x <= y
  PROVE  Min(S) \in S /\ \A y \in S : Min(S) <= y
<1>1. \E z \in S : \A y \in S : z <= y
  OBVIOUS
<1> QED
  BY <1>1, Zenon DEF Min
LEMMA Least2 ==
  ASSUME NEW a \in Nat, NEW b \in Nat
  PROVE  /\ Min({a, b}) \in {a, b} /\ Min({a, b}) <= a /\ Min({a, b}) <= b
<1> DEFINE S == {a, b}
<1>1. \E x \in S : \A y \in S : x <= y
  OBVIOUS
<1>2. S \in SUBSET Nat /\ a \in S /\ b \in S
  OBVIOUS
<1> HIDE DEF S
<1>3. Min(S) \in S /\ \A y \in S : Min(S) <= y
  BY <1>1, <1>2, Least
<1> QED
  BY <1>2, <1>3 DEF S
LEMMA Least3 ==
  ASSUME NEW a \in Nat, NEW b \in Nat, NEW c \in Nat
  PROVE  /\ Min({a, b, c}) \in {a, b, c}
         /\ Min({a, b, c}) <= a /\ Min({a, b, c}) <= b /\ Min({a, b, c}) <= c
<1> DEFINE S == {a, b, c}
<1>1. \E x \in S : \A y \in S : x <= y
  <2>1. CASE a <= b /\ a <= c
    BY <2>1
  <2>2. CASE b <= a /\ b <= c
    BY <2>2
  <2>3. CASE c <= a /\ c <= b
    BY <2>3
  <2> QED
    BY <2>1, <2>2, <2>3
<1>2. S \in SUBSET Nat /\ a \in S /\ b \in S /\ c \in S
  OBVIOUS
<1> HIDE DEF S
<1>3. Min(S) \in S /\ \A y \in S : Min(S) <= y
  BY <1>1, <1>2, Least
<1> QED
  BY <1>2, <1>3 DEF S
LEMMA ConstantsTyped ==
  /\ MaxTime \in Nat \ {0} /\ DayLength \in Nat \ {0} /\ Interval \in Nat \ {0}
  /\ Heartbeat \in Nat \ {0} /\ Debounce \in Nat \ {0} /\ QueueSize \in Nat \ {0}
  /\ WireSize \in Nat \ {0}
BY SolarProviderAssumption
LEMMA InstantsTyped ==
  /\ Instants \subseteq Nat /\ 0 \in Instants
  /\ \A t \in Times : t \in Nat \ {0} /\ t \in Instants /\ t + Interval \in Instants
  /\ \A t \in Times : t + 1 \in Instants /\ t - 1 \in Instants
BY ConstantsTyped DEF Instants
LEMMA DayFacts ==
  ASSUME NEW t \in Nat \ {0}
  PROVE  /\ Day(t) \in Nat \ {0} /\ Day(t) <= t
         /\ Midnight(t) \in Nat /\ t < Midnight(t)
<1>1. t - 1 \in Nat /\ DayLength \in Nat \ {0}
  BY ConstantsTyped
<1>2. /\ (t - 1) \div DayLength \in Nat /\ (t - 1) \div DayLength <= t - 1
      /\ t - 1 < ((t - 1) \div DayLength + 1) * DayLength
  BY <1>1, Quotient, QuotientSmall
<1>3. ((t - 1) \div DayLength + 1) * DayLength \in Nat
  BY <1>1, <1>2
<1> QED
  BY <1>2, <1>3 DEF Day, Midnight
LEMMA DayTyped == \A t \in Times : Day(t) \in Instants /\ Day(t) # 0
BY DayFacts, ConstantsTyped DEF Instants
LEMMA MidnightLater ==
  ASSUME NEW t \in Nat \ {0}, NEW u \in Nat \ {0}, t <= u
  PROVE  Midnight(t) <= Midnight(u)
<1>1. /\ t - 1 \in Nat /\ u - 1 \in Nat /\ t - 1 <= u - 1 /\ DayLength \in Nat \ {0}
  BY ConstantsTyped
<1>2. /\ (t - 1) \div DayLength \in Nat /\ (u - 1) \div DayLength \in Nat
      /\ (t - 1) \div DayLength <= (u - 1) \div DayLength
  BY <1>1, Quotient, QuotientMonotone
<1>3. ((t - 1) \div DayLength + 1) * DayLength <= ((u - 1) \div DayLength + 1) * DayLength
  BY <1>1, <1>2, Scale
<1>4. /\ ((t - 1) \div DayLength + 1) * DayLength \in Nat
      /\ ((u - 1) \div DayLength + 1) * DayLength \in Nat
  BY <1>1, <1>2
<1> QED
  BY <1>3, <1>4 DEF Midnight, Day

-----------------------------------------------------------------------------
(* What the functions of the authority return                              *)

LEMMA NothingTyped ==
  /\ NoEvidence \in Evidences /\ NoSnapshot \in Snapshots
  /\ \A n \in {1, 2} : Fresh(n) \in Authorities
BY InstantsTyped DEF NoEvidence, Evidences, NoSnapshot, Snapshots, Fresh, Authorities, States
LEMMA RetiredFacts ==
  ASSUME NEW q \in Authorities, NEW w \in BOOLEAN
  PROVE  LET r == Retired(q, w)
         IN /\ r \in Authorities /\ r.source = q.source /\ r.state = "UNVERIFIED"
            /\ r.evidence = NoEvidence /\ r.deadline = 0 /\ r.day = 0 /\ ~r.baselined
            /\ r.highWater = 0 /\ r.wsHighWater = 0 /\ ~r.same /\ r.lost
            /\ r.wake = (q.wake \/ w) /\ r.urgent = (q.urgent \/ w)
            /\ Consistent(r)
<1> DEFINE r == Retired(q, w)
<1>1. /\ r.source = q.source /\ r.state = "UNVERIFIED"
      /\ r.evidence = NoEvidence /\ r.deadline = 0 /\ r.day = 0 /\ r.baselined = FALSE
      /\ r.highWater = 0 /\ r.wsHighWater = 0 /\ r.same = FALSE /\ r.lost = TRUE
      /\ r.wake = (q.wake \/ w) /\ r.urgent = (q.urgent \/ w)
  BY DEF Retired, Fresh
<1>2. r \in Authorities
  <2>1. Fresh(q.source) \in Authorities /\ q.urgent \in BOOLEAN /\ q.wake \in BOOLEAN
    BY NothingTyped DEF Authorities
  <2>2. (q.urgent \/ w) \in BOOLEAN /\ (q.wake \/ w) \in BOOLEAN
    OBVIOUS
  <2> QED
    BY <2>1, <2>2 DEF Retired, Authorities
<1>3. Consistent(r)
  BY <1>1 DEF Consistent
<1> QED
  BY <1>1, <1>2, <1>3

\* The earlier of a deadline and a promise, where there are both.
Nearer(deadline, next) ==
  IF next = None \/ deadline = None THEN deadline ELSE IF next < deadline THEN next ELSE deadline
LEMMA ShortenedFacts ==
  ASSUME NEW q \in Authorities, NEW next \in Instants
  PROVE  /\ Shortened(q, next) = [q EXCEPT !.deadline = Nearer(q.deadline, next)]
         /\ Nearer(q.deadline, next) \in Instants
         /\ Nearer(q.deadline, next) = 0 <=> q.deadline = 0
         /\ next # 0 => Nearer(q.deadline, next) <= next
         /\ Nearer(q.deadline, next) <= q.deadline
<1>1. q.deadline \in Instants /\ q.deadline \in Nat /\ next \in Nat
  BY InstantsTyped DEF Authorities
<1>2. CASE next = 0 \/ q.deadline = 0
  <2>1. [q EXCEPT !.deadline = q.deadline] = q
    BY DEF Authorities
  <2> QED
    BY <1>1, <1>2, <2>1 DEF Shortened, Nearer
<1>3. CASE ~(next = 0 \/ q.deadline = 0)
  BY <1>1, <1>3 DEF Shortened, Nearer
<1> QED
  BY <1>2, <1>3
LEMMA RefreshedFacts ==
  ASSUME NEW q, q.source = configured
  PROVE  Refreshed(q) = q
BY DEF Refreshed
LEMMA EvidenceTyped ==
  ASSUME NEW snap \in Snapshots
  PROVE  Evidence(snap) \in Evidences /\ Evidence(snap).polled = snap.polled
BY InstantsTyped DEF Evidence, Evidences, Snapshots

\* A snapshot leaves a matching epoch of its day as it is, but for what it
\* shows of the deadline and the evidence.
Fits(q, snap, now) == (q.day # 0 => Day(now) = q.day) /\ (q.same => snap.continuity)
Applies(q, snap, now) == Fits(q, snap, now) /\ q.same /\ ~Older(q, snap)
Holds(q, snap, now) ==
  Evidence(snap) = q.evidence /\ PayloadValid(snap, now) /\ snap.next > now

LEMMA CurrentStays ==
  ASSUME NEW q \in Authorities, NEW snap \in Snapshots, NEW now \in Times,
         q.source = configured
  PROVE  /\ ~Fits(q, snap, now) => Current(q, snap, now) = Retired(q, TRUE)
         /\ Fits(q, snap, now) /\ ~Applies(q, snap, now) => Current(q, snap, now) = q
<1>1. Refreshed(q) = q
  BY RefreshedFacts
<1>2. CASE q.day # 0 /\ Day(now) # q.day
  <2>1. ~Retired(q, TRUE).same
    BY RetiredFacts
  <2> QED
    BY <1>1, <1>2, <2>1 DEF Current, SameEpoch, Fits
<1>3. CASE ~(q.day # 0 /\ Day(now) # q.day)
  BY <1>1, <1>3 DEF Current, SameEpoch, Fits, Applies
<1> QED
  BY <1>2, <1>3
LEMMA CurrentApplied ==
  ASSUME NEW q \in Authorities, NEW snap \in Snapshots, NEW now \in Times,
         q.source = configured, Applies(q, snap, now)
  PROVE  LET due == [q EXCEPT !.deadline = Nearer(q.deadline, snap.next)]
             late == due.deadline # 0 /\ now >= due.deadline
             expired == IF late THEN [due EXCEPT !.state = "EXPIRED"] ELSE due
         IN Current(q, snap, now) =
              IF expired.state # "VALID" \/ Holds(expired, snap, now) THEN expired
              ELSE [expired EXCEPT !.state = "UNVERIFIED",
                      !.evidence = IF MetadataLossOnly(expired, snap) /\ snap.next > now
                                     THEN @ ELSE NoEvidence]
<1>1. Refreshed(q) = q
  BY RefreshedFacts
<1>2. snap.next \in Instants
  BY DEF Snapshots
<1>3. Shortened(q, snap.next) = [q EXCEPT !.deadline = Nearer(q.deadline, snap.next)]
  BY <1>2, ShortenedFacts
<1>4. ~(q.day # 0 /\ Day(now) # q.day) /\ SameEpoch(q, snap) /\ ~Older(q, snap)
  BY DEF Applies, Fits, SameEpoch
<1> QED
  BY <1>1, <1>3, <1>4 DEF Current, Holds

LEMMA CurrentFacts ==
  ASSUME NEW q \in Authorities, NEW snap \in Snapshots, NEW now \in Times,
         q.source = configured, Applies(q, snap, now)
  PROVE  LET r == Current(q, snap, now)
         IN /\ r \in Authorities
            /\ r.source = q.source /\ r.highWater = q.highWater /\ r.verified = q.verified
            /\ r.day = q.day /\ r.baselined = q.baselined /\ r.urgent = q.urgent
            /\ r.same = q.same /\ r.wake = q.wake /\ r.lost = q.lost
            /\ r.deadline = Nearer(q.deadline, snap.next)
            /\ r.evidence \in {q.evidence, NoEvidence}
            /\ r.state = "VALID" =>
                 /\ q.state = "VALID" /\ r.evidence = q.evidence /\ Holds(q, snap, now)
                 /\ r.deadline # 0 => now < r.deadline
            /\ q.state = "VALID" /\ Holds(q, snap, now) /\ (r.deadline # 0 => now < r.deadline)
                 => r.state = "VALID"
<1> DEFINE r == Current(q, snap, now)
           near == Nearer(q.deadline, snap.next)
           due == [q EXCEPT !.deadline = near]
           late == due.deadline # 0 /\ now >= due.deadline
           over == [due EXCEPT !.state = "EXPIRED"]
           expired == IF late THEN over ELSE due
           kept == MetadataLossOnly(expired, snap) /\ snap.next > now
           left == [expired EXCEPT !.state = "UNVERIFIED",
                      !.evidence = IF kept THEN @ ELSE NoEvidence]
           Same(x) == /\ x.source = q.source /\ x.highWater = q.highWater /\ x.verified = q.verified
                      /\ x.day = q.day /\ x.baselined = q.baselined /\ x.urgent = q.urgent
                      /\ x.same = q.same /\ x.wake = q.wake /\ x.lost = q.lost
                      /\ x.deadline = near
<1>1. r = IF expired.state # "VALID" \/ Holds(expired, snap, now) THEN expired ELSE left
  BY CurrentApplied, Zenon
<1>2. near \in Instants /\ q.deadline \in Instants
  <2>1. q.deadline \in Instants /\ snap.next \in Instants
    BY DEF Authorities, Snapshots
  <2> QED
    BY <2>1, ShortenedFacts
<1>3. due \in Authorities /\ Same(due) /\ due.evidence = q.evidence /\ due.state = q.state
  BY <1>2 DEF Authorities
<1>4. over \in Authorities /\ Same(over) /\ over.evidence = q.evidence /\ over.state = "EXPIRED"
  <2> HIDE DEF due
  <2>1. /\ over \in Authorities /\ over.state = "EXPIRED" /\ over.evidence = due.evidence
        /\ over.source = due.source /\ over.highWater = due.highWater
        /\ over.verified = due.verified /\ over.day = due.day /\ over.baselined = due.baselined
        /\ over.urgent = due.urgent /\ over.same = due.same /\ over.wake = due.wake
        /\ over.lost = due.lost /\ over.deadline = due.deadline
    BY <1>3 DEF Authorities, States
  <2> QED
    BY <1>3, <2>1
<1>5. expired \in Authorities /\ Same(expired) /\ expired.evidence = q.evidence
  BY <1>3, <1>4
<1>6. /\ left \in Authorities /\ Same(left) /\ left.state = "UNVERIFIED"
      /\ left.evidence \in {q.evidence, NoEvidence}
  <2> HIDE DEF expired, kept
  <2>1. NoEvidence \in Evidences /\ "UNVERIFIED" \in States
    BY NothingTyped DEF States
  <2>2. /\ left \in Authorities /\ left.state = "UNVERIFIED"
        /\ left.evidence = IF kept THEN expired.evidence ELSE NoEvidence
        /\ left.source = expired.source /\ left.highWater = expired.highWater
        /\ left.verified = expired.verified /\ left.day = expired.day
        /\ left.baselined = expired.baselined
        /\ left.urgent = expired.urgent /\ left.same = expired.same /\ left.wake = expired.wake
        /\ left.lost = expired.lost /\ left.deadline = expired.deadline
    BY <1>5, <2>1 DEF Authorities
  <2> QED
    BY <1>5, <2>2
<1>7. Holds(expired, snap, now) <=> Holds(q, snap, now)
  <2> HIDE DEF expired
  <2> QED
    BY <1>5 DEF Holds
<1>8. /\ expired.state = "VALID" <=> ~late /\ q.state = "VALID"
      /\ late <=> near # 0 /\ now >= near
  BY <1>3, <1>4
<1>9. near \in Nat /\ now \in Nat
  BY <1>2, InstantsTyped
<1> HIDE DEF expired, left, kept, over, due, late, r, near
<1>10. r \in Authorities /\ Same(r) /\ r.evidence \in {q.evidence, NoEvidence}
  BY <1>1, <1>5, <1>6
<1>11. r.state = "VALID" =>
         /\ q.state = "VALID" /\ r.evidence = q.evidence /\ Holds(q, snap, now) /\ ~late
  BY <1>1, <1>5, <1>6, <1>7, <1>8
<1>12. q.state = "VALID" /\ Holds(q, snap, now) /\ ~late => r.state = "VALID"
  BY <1>1, <1>5, <1>6, <1>7, <1>8
<1>13. ~late <=> (near # 0 => now < near)
  BY <1>8, <1>9
<1> QED
  BY <1>10, <1>11, <1>12, <1>13 DEF r, near
LEMMA CurrentConsistent ==
  ASSUME NEW q \in Authorities, NEW snap \in Snapshots, NEW now \in Times,
         q.source = configured, Applies(q, snap, now), Consistent(q)
  PROVE  Consistent(Current(q, snap, now))
<1> DEFINE r == Current(q, snap, now)
<1>1. /\ r.verified = q.verified /\ r.day = q.day /\ r.baselined = q.baselined
      /\ r.deadline = Nearer(q.deadline, snap.next)
      /\ r.evidence \in {q.evidence, NoEvidence}
      /\ r.state = "VALID" => q.state = "VALID" /\ r.evidence = q.evidence
  BY CurrentFacts
<1>2. r.deadline = 0 <=> q.deadline = 0
  BY <1>1, ShortenedFacts DEF Snapshots
<1> HIDE DEF r
<1>3. r.baselined <=> r.deadline # None
  BY <1>1, <1>2 DEF Consistent
<1>4. r.baselined <=> r.day # None
  BY <1>1 DEF Consistent
<1>5. r.evidence # NoEvidence =>
        /\ r.baselined /\ r.evidence.polled # None
        /\ r.verified = r.evidence.polled /\ Day(r.evidence.polled) = r.day
  BY <1>1 DEF Consistent
<1>6. r.state = "VALID" => r.evidence # NoEvidence
  BY <1>1 DEF Consistent
<1>7. Consistent(r)
  BY <1>3, <1>4, <1>5, <1>6 DEF Consistent
<1> QED
  BY <1>7 DEF r

\* What a coherent reading makes of the authority: the deadline is the one that
\* was promised last and not met, and new evidence is of an advance.
Advanced(q, snap) == q.highWater # 0 /\ snap.polled > q.highWater
Met(q, snap, now, j) ==
  q.deadline = 0 \/ (j.state = "VALID" /\ now >= q.deadline /\ snap.polled >= q.deadline)
Judges(q, snap, now, j) ==
  /\ j \in Authorities /\ Consistent(j)
  /\ j.source = q.source /\ j.same = q.same /\ j.wake = q.wake /\ j.lost = q.lost
  /\ j.urgent = q.urgent
  /\ j.highWater = snap.polled /\ j.day \in {0, Day(now)}
  /\ j.deadline # 0 /\ snap.next # 0 => j.deadline <= snap.next
  /\ j.state = "VALID" => Holds(j, snap, now) /\ now < j.deadline
  /\ j.evidence # NoEvidence => q.evidence # NoEvidence \/ Advanced(q, snap)
  /\ j.baselined => j.deadline = IF Met(q, snap, now, j) THEN snap.next
                                 ELSE Nearer(q.deadline, snap.next)

\* The authority a coherent reading can be judged by.
Coherent(q, snap, now) ==
  /\ q \in Authorities /\ q.source = configured /\ Consistent(q)
  /\ q.day \in {0, Day(now)}
  /\ q.same /\ snap.continuity /\ snap.polled \in 1..now
Read(q, snap) == [q EXCEPT !.deadline = Nearer(q.deadline, snap.next), !.highWater = snap.polled]
Consumed(q, snap) ==
  IF Advanced(q, snap) THEN [Read(q, snap) EXCEPT !.evidence = NoEvidence] ELSE Read(q, snap)
Like(x, q, snap) ==
  /\ x \in Authorities
  /\ x.source = q.source /\ x.same = q.same /\ x.wake = q.wake /\ x.lost = q.lost
  /\ x.urgent = q.urgent /\ x.verified = q.verified /\ x.day = q.day
  /\ x.baselined = q.baselined /\ x.highWater = snap.polled
  /\ x.deadline = Nearer(q.deadline, snap.next)
LEMMA ReadFacts ==
  ASSUME NEW q \in Authorities, NEW snap \in Snapshots
  PROVE  /\ Like(Read(q, snap), q, snap)
         /\ Read(q, snap).evidence = q.evidence /\ Read(q, snap).state = q.state
         /\ Like(Consumed(q, snap), q, snap)
         /\ Consumed(q, snap).evidence = (IF Advanced(q, snap) THEN NoEvidence ELSE q.evidence)
         /\ Consumed(q, snap).state = q.state
         /\ [Shortened(q, snap.next) EXCEPT !.highWater = snap.polled] = Read(q, snap)
<1>1. Nearer(q.deadline, snap.next) \in Instants /\ snap.polled \in Instants
  BY ShortenedFacts DEF Snapshots
<1>2. /\ Like(Read(q, snap), q, snap)
      /\ Read(q, snap).evidence = q.evidence /\ Read(q, snap).state = q.state
  BY <1>1 DEF Read, Like, Authorities
<1>3. [Shortened(q, snap.next) EXCEPT !.highWater = snap.polled] = Read(q, snap)
  <2>1. Shortened(q, snap.next) = [q EXCEPT !.deadline = Nearer(q.deadline, snap.next)]
    BY ShortenedFacts DEF Snapshots
  <2> QED
    BY <2>1, <1>1 DEF Read, Authorities
<1> DEFINE x == [Read(q, snap) EXCEPT !.evidence = NoEvidence]
<1>4. Like(x, q, snap) /\ x.evidence = NoEvidence /\ x.state = q.state
  BY <1>2, NothingTyped DEF Like, Authorities
<1> QED
  BY <1>2, <1>3, <1>4 DEF Consumed

Rejects(q, snap, now) ==
  \/ snap.next <= now \/ ~PayloadValid(snap, now)
  \/ ~Advanced(q, snap) /\ q.evidence # NoEvidence /\ Evidence(snap) # q.evidence
Expires(q, snap, now) ==
  Nearer(q.deadline, snap.next) # 0 /\ now >= Nearer(q.deadline, snap.next)
Baselining(q, snap, now) ==
  [Consumed(q, snap) EXCEPT !.baselined = TRUE, !.day = Day(now), !.state = "UNVERIFIED",
                            !.deadline = IF @ = None THEN snap.next ELSE @]
Verifying(q, snap, now) ==
  [Consumed(q, snap) EXCEPT !.deadline = Discharged(Read(q, snap), snap, now), !.state = "VALID",
                            !.verified = snap.polled, !.evidence = Evidence(snap)]
Revalidating(q, snap, now) ==
  [Read(q, snap) EXCEPT
     !.state = IF Evidence(snap) = q.evidence /\ ~Expires(q, snap, now) THEN "VALID" ELSE @]

\* Judged, of the authority r into which q has taken the reading.
JudgedBy(r, q, snap, now) ==
  LET consumed == IF Advanced(q, snap) THEN [r EXCEPT !.evidence = NoEvidence] ELSE r
      expired == r.deadline # None /\ now >= r.deadline
  IN IF \/ snap.next <= now
        \/ ~PayloadValid(snap, now)
        \/ ~Advanced(q, snap) /\ r.evidence # NoEvidence /\ ~(Evidence(snap) = r.evidence)
       THEN [consumed EXCEPT
               !.evidence = IF MetadataLossOnly(r, snap) /\ snap.next > now /\ ~expired
                              THEN @ ELSE NoEvidence,
               !.state = IF expired THEN "EXPIRED" ELSE "UNVERIFIED"]
     ELSE IF ~r.baselined
       THEN [consumed EXCEPT !.baselined = TRUE, !.day = Day(now), !.state = "UNVERIFIED",
                             !.deadline = IF @ = None THEN snap.next ELSE @]
     ELSE IF Advanced(q, snap) /\ Day(snap.polled) # Day(now)
       THEN [consumed EXCEPT !.state = "UNVERIFIED"]
     ELSE IF Advanced(q, snap)
       THEN Current([consumed EXCEPT !.deadline = Discharged(r, snap, now), !.state = "VALID",
                                     !.verified = snap.polled, !.evidence = Evidence(snap)],
                    snap, now)
     ELSE Current([r EXCEPT !.state = IF Evidence(snap) = r.evidence /\ ~expired
                                        THEN "VALID" ELSE @], snap, now)
LEMMA JudgedCases ==
  ASSUME NEW q \in Authorities, NEW snap \in Snapshots, NEW now \in Times
  PROVE  Judged(q, snap, now) =
           IF Rejects(q, snap, now)
             THEN [Consumed(q, snap) EXCEPT
                     !.evidence = IF /\ MetadataLossOnly(Read(q, snap), snap) /\ snap.next > now
                                     /\ ~Expires(q, snap, now)
                                    THEN @ ELSE NoEvidence,
                     !.state = IF Expires(q, snap, now) THEN "EXPIRED" ELSE "UNVERIFIED"]
           ELSE IF ~q.baselined THEN Baselining(q, snap, now)
           ELSE IF Advanced(q, snap) /\ Day(snap.polled) # Day(now)
             THEN [Consumed(q, snap) EXCEPT !.state = "UNVERIFIED"]
           ELSE IF Advanced(q, snap) THEN Current(Verifying(q, snap, now), snap, now)
           ELSE Current(Revalidating(q, snap, now), snap, now)
<1>1. [Shortened(q, snap.next) EXCEPT !.highWater = snap.polled] = Read(q, snap)
  BY ReadFacts
<1>2. /\ Read(q, snap).evidence = q.evidence /\ Read(q, snap).baselined = q.baselined
      /\ Read(q, snap).deadline = Nearer(q.deadline, snap.next)
  BY ReadFacts DEF Like
<1> DEFINE shortened == [Shortened(q, snap.next) EXCEPT !.highWater = snap.polled]
<1>3. Judged(q, snap, now) = JudgedBy(shortened, q, snap, now)
  BY Zenon DEF Judged, JudgedBy, Advanced
<1>4. shortened = Read(q, snap)
  BY <1>1
<1> HIDE DEF shortened
<1>5. Judged(q, snap, now) = JudgedBy(Read(q, snap), q, snap, now)
  BY <1>3, <1>4
<1> QED
  BY <1>2, <1>5, Zenon DEF JudgedBy, Consumed, Rejects, Expires, Baselining, Verifying, Revalidating

LEMMA SnapshotTyped ==
  ASSUME NEW q \in Authorities, NEW snap \in Snapshots, NEW now \in Times
  PROVE  /\ snap.next \in Instants /\ snap.polled \in Instants /\ q.deadline \in Instants
         /\ snap.next \in Nat /\ snap.polled \in Nat /\ q.deadline \in Nat
         /\ now \in Nat /\ now # 0
<1>1. snap.next \in Instants /\ snap.polled \in Instants /\ q.deadline \in Instants
  BY DEF Snapshots, Authorities
<1> QED
  BY <1>1, InstantsTyped
LEMMA Accepted ==
  ASSUME NEW q \in Authorities, NEW snap \in Snapshots, NEW now \in Times,
         ~Rejects(q, snap, now)
  PROVE  now < snap.next /\ snap.next # 0 /\ PayloadValid(snap, now)
BY SnapshotTyped DEF Rejects

LEMMA RejectedJudges ==
  ASSUME NEW q, NEW snap \in Snapshots, NEW now \in Times, Coherent(q, snap, now),
         NEW state \in {"EXPIRED", "UNVERIFIED"}, NEW keeps \in BOOLEAN
  PROVE  Judges(q, snap, now,
           [Consumed(q, snap) EXCEPT !.evidence = IF keeps THEN @ ELSE NoEvidence,
                                     !.state = state])
<1> DEFINE c == Consumed(q, snap)
           j == [c EXCEPT !.evidence = IF keeps THEN c.evidence ELSE NoEvidence, !.state = state]
<1>1. /\ Like(c, q, snap)
      /\ c.evidence = (IF Advanced(q, snap) THEN NoEvidence ELSE q.evidence)
  BY ReadFacts DEF Coherent
<1> HIDE DEF c
<1>2. /\ Like(j, q, snap) /\ j.state = state
      /\ j.evidence = (IF keeps THEN c.evidence ELSE NoEvidence)
  <2>1. NoEvidence \in Evidences /\ state \in States
    BY NothingTyped DEF States
  <2> QED
    BY <1>1, <2>1 DEF Like, Authorities
<1> HIDE DEF j
<1>3. j.evidence \in {q.evidence, NoEvidence}
  BY <1>1, <1>2
<1>4. q \in Authorities /\ snap.next \in Instants /\ q.deadline \in Instants
  BY DEF Coherent, Snapshots, Authorities
<1>5. /\ j.deadline = 0 <=> q.deadline = 0
      /\ snap.next # 0 => j.deadline <= snap.next
  BY <1>2, <1>4, ShortenedFacts DEF Like
<1>6. Consistent(j)
  BY <1>2, <1>3, <1>5 DEF Like, Coherent, Consistent
<1>7. j.state # "VALID"
  BY <1>2
<1>8. j.baselined => q.deadline # 0
  BY <1>2 DEF Like, Coherent, Consistent
<1>9. Judges(q, snap, now, j)
  BY <1>2, <1>3, <1>5, <1>6, <1>7, <1>8 DEF Judges, Like, Coherent, Met
<1> QED
  BY <1>9 DEF j, c

LEMMA WrongDayJudges ==
  ASSUME NEW q, NEW snap \in Snapshots, NEW now \in Times, Coherent(q, snap, now)
  PROVE  Judges(q, snap, now, [Consumed(q, snap) EXCEPT !.state = "UNVERIFIED"])
<1> DEFINE c == Consumed(q, snap)
           j == [c EXCEPT !.evidence = IF TRUE THEN c.evidence ELSE NoEvidence,
                          !.state = "UNVERIFIED"]
<1>1. c \in Authorities
  BY ReadFacts DEF Coherent, Like
<1>2. Judges(q, snap, now, j)
  BY RejectedJudges
<1> HIDE DEF c
<1>3. j = [c EXCEPT !.state = "UNVERIFIED"]
  BY <1>1 DEF Authorities
<1> QED
  BY <1>2, <1>3 DEF c

LEMMA BaseliningJudges ==
  ASSUME NEW q, NEW snap \in Snapshots, NEW now \in Times, Coherent(q, snap, now),
         ~Rejects(q, snap, now), ~q.baselined
  PROVE  Judges(q, snap, now, Baselining(q, snap, now))
<1> DEFINE c == Consumed(q, snap)
           j == [c EXCEPT !.baselined = TRUE, !.day = Day(now), !.state = "UNVERIFIED",
                          !.deadline = IF c.deadline = None THEN snap.next ELSE c.deadline]
<1>1. q.deadline = 0 /\ q.day = 0 /\ q.evidence = NoEvidence /\ q \in Authorities
  BY DEF Coherent, Consistent
<1>2. /\ Like(c, q, snap) /\ c.evidence = NoEvidence
  BY <1>1, ReadFacts
<1>3. c.deadline = 0
  BY <1>1, <1>2 DEF Like, Nearer
<1>4. snap.next \in Instants /\ snap.next # 0 /\ Day(now) \in Instants /\ Day(now) # 0
      /\ snap.next \in Nat
  BY <1>1, DayTyped, SnapshotTyped, Accepted
<1> HIDE DEF c
<1>5. /\ j \in Authorities /\ j.baselined /\ j.day = Day(now) /\ j.state = "UNVERIFIED"
      /\ j.deadline = snap.next /\ j.evidence = NoEvidence
      /\ j.source = q.source /\ j.same = q.same /\ j.wake = q.wake /\ j.lost = q.lost
      /\ j.urgent = q.urgent /\ j.highWater = snap.polled
  BY <1>2, <1>3, <1>4 DEF Like, Authorities, States
<1>6. Judges(q, snap, now, j)
  <2> HIDE DEF j
  <2>1. Consistent(j)
    BY <1>4, <1>5 DEF Consistent
  <2> QED
    BY <1>1, <1>4, <1>5, <2>1 DEF Judges, Met
<1> QED
  BY <1>6 DEF Baselining, c

LEMMA VerifyingJudges ==
  ASSUME NEW q, NEW snap \in Snapshots, NEW now \in Times, Coherent(q, snap, now),
         ~Rejects(q, snap, now), q.baselined, Advanced(q, snap), Day(snap.polled) = Day(now)
  PROVE  Judges(q, snap, now, Current(Verifying(q, snap, now), snap, now))
<1> DEFINE c == Consumed(q, snap)
           near == Nearer(q.deadline, snap.next)
           met == Discharged(Read(q, snap), snap, now)
           v == [c EXCEPT !.deadline = met, !.state = "VALID",
                          !.verified = snap.polled, !.evidence = Evidence(snap)]
           j == Current(v, snap, now)
<1>1. /\ q \in Authorities /\ q.deadline # 0 /\ q.day = Day(now) /\ q.source = configured
      /\ q.same /\ snap.continuity /\ snap.polled # 0
  BY InstantsTyped DEF Coherent, Consistent
<1>2. Like(c, q, snap) /\ Read(q, snap).deadline = near
  BY <1>1, ReadFacts DEF Like
<1>3. /\ snap.next \in Nat /\ snap.polled \in Nat /\ now \in Nat /\ q.deadline \in Nat
      /\ snap.next \in Instants /\ snap.polled \in Instants /\ q.deadline \in Instants
      /\ now < snap.next /\ snap.next # 0
  BY <1>1, SnapshotTyped, Accepted
<1>4. /\ near \in Instants /\ near \in Nat /\ near # 0 /\ near <= snap.next /\ near <= q.deadline
      /\ near \in {q.deadline, snap.next}
  BY <1>1, <1>3, ShortenedFacts, InstantsTyped DEF Nearer
<1>5. met = IF now >= near /\ snap.polled >= near THEN snap.next ELSE near
  BY <1>2, <1>4 DEF Discharged
<1>6. met \in Instants /\ met # 0 /\ met <= snap.next /\ met \in Nat
  BY <1>3, <1>4, <1>5
<1> HIDE DEF c, near, met
<1>7. /\ v \in Authorities /\ v.deadline = met /\ v.state = "VALID" /\ v.verified = snap.polled
      /\ v.evidence = Evidence(snap) /\ v.source = q.source /\ v.same = q.same
      /\ v.wake = q.wake /\ v.lost = q.lost /\ v.urgent = q.urgent
      /\ v.highWater = snap.polled /\ v.day = q.day /\ v.baselined = q.baselined
  <2>1. Evidence(snap) \in Evidences
    BY EvidenceTyped
  <2> QED
    BY <1>2, <1>3, <1>6, <2>1 DEF Like, Authorities, States
<1> HIDE DEF v
<1>8. Evidence(snap).polled = snap.polled /\ Evidence(snap) # NoEvidence
  BY <1>1, EvidenceTyped DEF NoEvidence
<1>9. Consistent(v)
  <2>1. v.baselined /\ v.deadline # 0 /\ v.day # 0
    BY <1>1, <1>6, <1>7 DEF Coherent, Consistent
  <2>2. v.evidence.polled # 0 /\ v.verified = v.evidence.polled /\ Day(v.evidence.polled) = v.day
    BY <1>1, <1>7, <1>8
  <2> QED
    BY <1>7, <1>8, <2>1, <2>2 DEF Consistent
<1>10. Applies(v, snap, now) /\ Holds(v, snap, now)
  BY <1>1, <1>3, <1>7 DEF Applies, Fits, Older, Holds, Rejects
<1>11. Nearer(met, snap.next) = met
  BY <1>3, <1>6 DEF Nearer
<1>12. /\ j \in Authorities
       /\ j.source = q.source /\ j.highWater = snap.polled
       /\ j.day = q.day /\ j.baselined = q.baselined /\ j.urgent = q.urgent
       /\ j.same = q.same /\ j.wake = q.wake /\ j.lost = q.lost
       /\ j.deadline = met
       /\ j.state = "VALID" <=> now < met
       /\ j.state = "VALID" => j.evidence = v.evidence
  <2>1. v.source = configured
    BY <1>1, <1>7
  <2>2. /\ j \in Authorities
        /\ j.source = v.source /\ j.highWater = v.highWater
        /\ j.day = v.day /\ j.baselined = v.baselined /\ j.urgent = v.urgent
        /\ j.same = v.same /\ j.wake = v.wake /\ j.lost = v.lost
        /\ j.deadline = Nearer(v.deadline, snap.next)
        /\ j.state = "VALID" => j.evidence = v.evidence /\ (j.deadline # 0 => now < j.deadline)
        /\ v.state = "VALID" /\ Holds(v, snap, now) /\ (j.deadline # 0 => now < j.deadline)
             => j.state = "VALID"
    BY <1>7, <1>10, <2>1, CurrentFacts
  <2> HIDE DEF j
  <2> QED
    BY <1>6, <1>7, <1>10, <1>11, <2>2
<1>13. Consistent(j)
  BY <1>1, <1>7, <1>9, <1>10, CurrentConsistent
<1> HIDE DEF j
<1>14. j.state = "VALID" => Holds(j, snap, now) /\ now < j.deadline
  BY <1>10, <1>12 DEF Holds
<1>15. j.deadline = IF Met(q, snap, now, j) THEN snap.next ELSE near
  <2>1. CASE now >= near /\ snap.polled >= near
    <3>1. near = q.deadline /\ met = snap.next
      BY <1>3, <1>4, <1>5, <2>1
    <3> QED
      BY <1>3, <1>12, <2>1, <3>1 DEF Met
  <2>2. CASE ~(now >= near /\ snap.polled >= near)
    <3>1. met = near
      BY <1>5, <2>2
    <3>2. ~Met(q, snap, now, j)
      BY <1>1, <1>3, <1>4, <1>12, <3>1 DEF Met
    <3> QED
      BY <1>12, <3>1, <3>2
  <2> QED
    BY <2>1, <2>2
<1>16. Judges(q, snap, now, j)
  BY <1>1, <1>6, <1>12, <1>13, <1>14, <1>15 DEF Judges, near
<1> QED
  BY <1>16 DEF Verifying, j, v, c, met

LEMMA RevalidatingJudges ==
  ASSUME NEW q, NEW snap \in Snapshots, NEW now \in Times, Coherent(q, snap, now),
         ~Rejects(q, snap, now), q.baselined, ~Advanced(q, snap)
  PROVE  Judges(q, snap, now, Current(Revalidating(q, snap, now), snap, now))
<1> DEFINE r == Read(q, snap)
           near == Nearer(q.deadline, snap.next)
           valid == Evidence(snap) = q.evidence /\ ~Expires(q, snap, now)
           v == [r EXCEPT !.state = IF valid THEN "VALID" ELSE r.state]
           j == Current(v, snap, now)
<1>1. /\ q \in Authorities /\ q.deadline # 0 /\ q.day = Day(now) /\ q.source = configured
      /\ q.same /\ snap.continuity /\ snap.polled # 0
  BY InstantsTyped DEF Coherent, Consistent
<1>2. Like(r, q, snap) /\ r.evidence = q.evidence /\ r.state = q.state
  BY <1>1, ReadFacts
<1>3. /\ snap.next \in Nat /\ snap.polled \in Nat /\ now \in Nat /\ q.deadline \in Nat
      /\ snap.next \in Instants /\ snap.polled \in Instants /\ q.deadline \in Instants
      /\ now < snap.next /\ snap.next # 0
  BY <1>1, SnapshotTyped, Accepted
<1>4. /\ near \in Instants /\ near \in Nat /\ near # 0 /\ near <= snap.next /\ near <= q.deadline
  BY <1>1, <1>3, ShortenedFacts, InstantsTyped
<1> HIDE DEF r, valid, near
<1>5. /\ Like(v, q, snap) /\ v.evidence = q.evidence
      /\ v.state = (IF valid THEN "VALID" ELSE q.state)
  BY <1>2 DEF Like, Authorities, States
<1> HIDE DEF v
<1>6. Evidence(snap).polled = snap.polled /\ Evidence(snap) # NoEvidence
  BY <1>1, EvidenceTyped DEF NoEvidence
<1>7. q.evidence # NoEvidence => Evidence(snap) = q.evidence
  BY DEF Rejects
<1>8. v.state = "VALID" => v.evidence = Evidence(snap) /\ v.verified = snap.polled
  <2>1. v.state = "VALID" => q.evidence # NoEvidence
    BY <1>5, <1>6 DEF Coherent, Consistent, valid
  <2> QED
    BY <1>5, <1>6, <1>7, <2>1 DEF Coherent, Consistent, Like
<1>9. Consistent(v)
  <2>1. v.state = "VALID" => v.evidence # NoEvidence
    BY <1>6, <1>8
  <2> QED
    BY <1>1, <1>4, <1>5, <2>1 DEF Like, Coherent, Consistent, near
<1>10. Fits(v, snap, now) /\ v.source = configured /\ v \in Authorities /\ v.deadline = near
       /\ v.same
  BY <1>1, <1>5 DEF Like, Fits, near
<1>11. Nearer(near, snap.next) = near
  BY <1>3, <1>4 DEF Nearer
<1>12. ASSUME Applies(v, snap, now) PROVE Judges(q, snap, now, j)
  <2>1. /\ j \in Authorities
        /\ j.source = v.source /\ j.highWater = v.highWater
        /\ j.day = v.day /\ j.baselined = v.baselined /\ j.urgent = v.urgent
        /\ j.same = v.same /\ j.wake = v.wake /\ j.lost = v.lost
        /\ j.deadline = Nearer(v.deadline, snap.next)
        /\ j.evidence \in {v.evidence, NoEvidence}
        /\ j.state = "VALID" => /\ j.evidence = v.evidence /\ Holds(v, snap, now)
                                /\ j.deadline # 0 => now < j.deadline
    BY <1>10, <1>12, CurrentFacts
  <2>2. Consistent(j)
    BY <1>9, <1>10, <1>12, CurrentConsistent
  <2> HIDE DEF j
  <2>3. j.deadline = near
    BY <1>10, <1>11, <2>1
  <2>4. j.state = "VALID" => Holds(j, snap, now) /\ now < j.deadline
    BY <1>4, <2>1, <2>3 DEF Holds
  <2>5. ~Met(q, snap, now, j)
    BY <1>1, <1>3, <1>4, <2>3, <2>4 DEF Met
  <2>6. /\ j.source = q.source /\ j.same = q.same /\ j.wake = q.wake /\ j.lost = q.lost
        /\ j.urgent = q.urgent /\ j.highWater = snap.polled /\ j.day = Day(now)
        /\ j.evidence \in {q.evidence, NoEvidence}
    BY <1>1, <1>5, <2>1 DEF Like
  <2> QED
    BY <1>4, <2>1, <2>2, <2>3, <2>4, <2>5, <2>6 DEF Judges, near
<1>13. ASSUME ~Applies(v, snap, now) PROVE Judges(q, snap, now, j)
  <2>1. j = v
    BY <1>10, <1>13, CurrentStays
  <2>2. Older(v, snap)
    BY <1>10, <1>13 DEF Applies
  <2>3. v.state # "VALID"
    BY <1>3, <1>8, <2>2 DEF Older
  <2>4. ~Met(q, snap, now, v)
    BY <1>1, <2>3 DEF Met
  <2>5. /\ v.source = q.source /\ v.same = q.same /\ v.wake = q.wake /\ v.lost = q.lost
        /\ v.urgent = q.urgent /\ v.highWater = snap.polled /\ v.day = Day(now)
        /\ v.evidence = q.evidence
    BY <1>1, <1>5 DEF Like
  <2>6. Judges(q, snap, now, v)
    BY <1>4, <1>9, <1>10, <2>3, <2>4, <2>5 DEF Judges, near
  <2> HIDE DEF j
  <2> QED
    BY <2>1, <2>6
<1> HIDE DEF j
<1>14. Judges(q, snap, now, j)
  BY <1>12, <1>13
<1> QED
  BY <1>14 DEF Revalidating, j, v, r, valid

LEMMA JudgedFacts ==
  ASSUME NEW q, NEW snap \in Snapshots, NEW now \in Times, Coherent(q, snap, now)
  PROVE  Judges(q, snap, now, Judged(q, snap, now))
<1> DEFINE j == Judged(q, snap, now)
           keeps == /\ MetadataLossOnly(Read(q, snap), snap) /\ snap.next > now
                    /\ ~Expires(q, snap, now)
           state == IF Expires(q, snap, now) THEN "EXPIRED" ELSE "UNVERIFIED"
<1>1. q \in Authorities
  BY DEF Coherent
<1>2. CASE Rejects(q, snap, now)
  <2>1. j = [Consumed(q, snap) EXCEPT !.evidence = IF keeps THEN @ ELSE NoEvidence,
                                      !.state = state]
    BY <1>1, <1>2, JudgedCases, Zenon
  <2>2. keeps \in BOOLEAN /\ state \in {"EXPIRED", "UNVERIFIED"}
    BY DEF MetadataLossOnly
  <2> HIDE DEF j, keeps, state
  <2>3. Judges(q, snap, now, j)
    BY <2>1, <2>2, RejectedJudges
  <2> QED
    BY <2>3 DEF j
<1>3. CASE ~Rejects(q, snap, now) /\ ~q.baselined
  BY <1>1, <1>3, JudgedCases, BaseliningJudges
<1>4. CASE ~Rejects(q, snap, now) /\ q.baselined /\ Advanced(q, snap)
             /\ Day(snap.polled) # Day(now)
  <2>1. j = [Consumed(q, snap) EXCEPT !.state = "UNVERIFIED"]
    BY <1>1, <1>4, JudgedCases, Zenon
  <2> QED
    BY <2>1, WrongDayJudges
<1>5. CASE ~Rejects(q, snap, now) /\ q.baselined /\ Advanced(q, snap)
             /\ ~(Day(snap.polled) # Day(now))
  BY <1>1, <1>5, JudgedCases, VerifyingJudges
<1>6. CASE ~Rejects(q, snap, now) /\ q.baselined /\ ~Advanced(q, snap)
  BY <1>1, <1>6, JudgedCases, RevalidatingJudges
<1> QED
  BY <1>2, <1>3, <1>4, <1>5, <1>6

\* An authority that was retired, whatever it was.
Gone(q, r) ==
  /\ r \in Authorities /\ Consistent(r) /\ r.source = q.source /\ r.state = "UNVERIFIED"
  /\ r.evidence = NoEvidence /\ r.deadline = 0 /\ ~r.baselined
  /\ r.highWater = 0 /\ ~r.same /\ r.lost /\ r.day = 0
LEMMA RetiredGone ==
  ASSUME NEW q \in Authorities, NEW w \in BOOLEAN
  PROVE  /\ Gone(q, Retired(q, w))
         /\ Retired(q, w).wake = (q.wake \/ w) /\ Retired(q, w).urgent = (q.urgent \/ w)
BY RetiredFacts DEF Gone

\* An authority that kept its state through a snapshot of another epoch.
Passed(q, snap, now, r) ==
  /\ ~q.same /\ q.day \in {0, Day(now)}
  /\ r = [q EXCEPT !.state = "UNVERIFIED"]

\* What an update and a decision make of an authority.
LEMMA UpdatedFacts ==
  ASSUME NEW q \in Authorities, NEW snap \in Snapshots, NEW now \in Times,
         q.source = configured, Consistent(q)
  PROVE  LET u == Updated(q, snap, now)
         IN \/ Gone(q, u) /\ u.wake = q.wake /\ u.urgent = q.urgent
            \/ Passed(q, snap, now, u)
            \/ Coherent(q, snap, now) /\ u = Judged(q, snap, now)
<1> DEFINE u == Updated(q, snap, now)
           r == Retired(q, FALSE)
<1>1. Refreshed(q) = q
  BY RefreshedFacts
<1>2. Gone(q, r) /\ r.wake = q.wake /\ r.urgent = q.urgent
  BY RetiredGone DEF Authorities
<1>3. r \in Authorities /\ r.state = "UNVERIFIED" /\ ~r.same
  BY <1>2 DEF Gone
<1> HIDE DEF r
<1>4. [r EXCEPT !.state = "UNVERIFIED"] = r
  BY <1>3 DEF Authorities
<1>5. CASE q.day # 0 /\ Day(now) # q.day
  <2>1. u = [r EXCEPT !.state = "UNVERIFIED"]
    BY <1>1, <1>3, <1>5 DEF Updated, SameEpoch, r
  <2> HIDE DEF u
  <2> QED
    BY <1>2, <1>4, <2>1 DEF u
<1>6. CASE q.day \in {0, Day(now)}
  <2>1. CASE ~SameEpoch(q, snap)
    <3>1. u = IF q.same THEN [r EXCEPT !.state = "UNVERIFIED"] ELSE [q EXCEPT !.state = "UNVERIFIED"]
      BY <1>1, <1>6, <2>1 DEF Updated, r
    <3> HIDE DEF u
    <3> QED
      BY <1>2, <1>4, <1>6, <3>1 DEF Passed, u
  <2>2. CASE SameEpoch(q, snap)
    <3>1. u = r \/ (snap.polled \in 1..now /\ u = Judged(q, snap, now))
      BY <1>1, <1>6, <2>2 DEF Updated, r
    <3> HIDE DEF u
    <3> QED
      BY <1>2, <1>6, <2>2, <3>1 DEF Coherent, SameEpoch, u
  <2> QED
    BY <2>1, <2>2
<1> QED
  BY <1>5, <1>6

LEMMA CurrentJudges ==
  ASSUME NEW q, NEW snap \in Snapshots, NEW now \in Times, Coherent(q, snap, now),
         NEW u, Judges(q, snap, now, u)
  PROVE  Judges(q, snap, now, Current(u, snap, now))
<1> DEFINE r == Current(u, snap, now)
<1>1. /\ u \in Authorities /\ Consistent(u) /\ u.source = configured /\ u.same /\ snap.continuity
      /\ q \in Authorities
  BY DEF Judges, Coherent
<1>2. Fits(u, snap, now)
  BY <1>1 DEF Judges, Fits
<1>3. u.deadline \in Nat /\ snap.next \in Nat
  BY <1>1, SnapshotTyped
<1>4. Nearer(u.deadline, snap.next) = u.deadline
  BY <1>3 DEF Judges, Nearer
<1>5. ASSUME Applies(u, snap, now) PROVE Judges(q, snap, now, r)
  <2>1. /\ r \in Authorities
        /\ r.source = u.source /\ r.highWater = u.highWater
        /\ r.day = u.day /\ r.baselined = u.baselined /\ r.urgent = u.urgent
        /\ r.same = u.same /\ r.wake = u.wake /\ r.lost = u.lost
        /\ r.deadline = Nearer(u.deadline, snap.next)
        /\ r.evidence \in {u.evidence, NoEvidence}
        /\ r.state = "VALID" => u.state = "VALID" /\ r.evidence = u.evidence
        /\ u.state = "VALID" /\ Holds(u, snap, now) /\ (r.deadline # 0 => now < r.deadline)
             => r.state = "VALID"
    BY <1>1, <1>5, CurrentFacts
  <2>2. Consistent(r)
    BY <1>1, <1>5, CurrentConsistent
  <2> HIDE DEF r
  <2>3. r.deadline = u.deadline
    BY <1>4, <2>1
  <2>4. r.state = "VALID" <=> u.state = "VALID"
    BY <2>1, <2>3 DEF Judges
  <2>5. r.state = "VALID" => Holds(r, snap, now) /\ now < r.deadline
    BY <2>1, <2>3 DEF Judges, Holds
  <2>6. Met(q, snap, now, r) <=> Met(q, snap, now, u)
    BY <2>4 DEF Met
  <2> QED
    BY <2>1, <2>2, <2>3, <2>5, <2>6 DEF Judges
<1>6. ASSUME ~Applies(u, snap, now) PROVE Judges(q, snap, now, r)
  <2>1. r = u
    BY <1>1, <1>2, <1>6, CurrentStays
  <2> HIDE DEF r
  <2> QED
    BY <2>1
<1> HIDE DEF r
<1>7. Judges(q, snap, now, r)
  BY <1>5, <1>6
<1> QED
  BY <1>7 DEF r

LEMMA DecidedFacts ==
  ASSUME NEW q \in Authorities, NEW snap \in Snapshots, NEW now \in Times,
         q.source = configured, Consistent(q)
  PROVE  LET u == Updated(q, snap, now)
             r == Current(u, snap, now)
         IN /\ \/ Gone(q, r) /\ r.wake = q.wake /\ r.urgent = q.urgent
               \/ Passed(q, snap, now, r)
               \/ Coherent(q, snap, now) /\ Judges(q, snap, now, r)
            /\ Granted(u, snap) => Coherent(q, snap, now) /\ Judges(q, snap, now, r)
<1> DEFINE u == Updated(q, snap, now)
           r == Current(u, snap, now)
<1>1. \/ Gone(q, u) /\ u.wake = q.wake /\ u.urgent = q.urgent
      \/ Passed(q, snap, now, u)
      \/ Coherent(q, snap, now) /\ u = Judged(q, snap, now)
  BY UpdatedFacts
<1> HIDE DEF u
<1>2. CASE Gone(q, u) /\ u.wake = q.wake /\ u.urgent = q.urgent
  <2>1. u \in Authorities /\ u.source = configured /\ ~u.same /\ Fits(u, snap, now)
    BY <1>2 DEF Gone, Fits
  <2>2. r = u
    BY <2>1, CurrentStays DEF Applies
  <2>3. ~Granted(u, snap)
    BY <2>1 DEF Granted, SameEpoch
  <2> QED
    BY <1>2, <2>2, <2>3 DEF u
<1>3. CASE Passed(q, snap, now, u)
  <2>1. u \in Authorities /\ u.source = configured /\ ~u.same /\ Fits(u, snap, now)
    BY <1>3 DEF Passed, Fits, Authorities, States
  <2>2. r = u
    BY <2>1, CurrentStays DEF Applies
  <2>3. ~Granted(u, snap)
    BY <2>1 DEF Granted, SameEpoch
  <2> QED
    BY <1>3, <2>2, <2>3 DEF u
<1>4. CASE Coherent(q, snap, now) /\ u = Judged(q, snap, now)
  <2>1. Judges(q, snap, now, u)
    BY <1>4, JudgedFacts
  <2>2. Judges(q, snap, now, r)
    BY <1>4, <2>1, CurrentJudges
  <2> QED
    BY <1>4, <2>2 DEF u
<1> QED
  BY <1>1, <1>2, <1>3, <1>4

\* What an event makes of it: nothing, an end, or an earlier deadline with a wake.
Heard(q, event) ==
  IF event.entity = "poll" /\ event.of = q.source /\ q.deadline # 0
       /\ event.new.next \in 1..q.deadline
    THEN event.new.next ELSE q.deadline
Noticed(q, event, r) ==
  /\ r \in Authorities /\ Consistent(r) /\ r.source = q.source /\ r.state = q.state
  /\ r.evidence = q.evidence /\ r.highWater = q.highWater /\ r.same = q.same
  /\ r.baselined = q.baselined /\ r.day = q.day /\ r.lost = q.lost
  /\ r.deadline = Heard(q, event)
  /\ r.wake \/ (r.deadline = q.deadline /\ r.urgent = q.urgent)
LEMMA PollObservedFacts ==
  ASSUME NEW q \in Authorities, Consistent(q), clock \in Times, NEW event \in Events,
         event.entity = "poll", event.of = q.source
  PROVE  LET r == PollObserved(q, event.old, event.new)
         IN (Gone(q, r) /\ r.wake) \/ Noticed(q, event, r)
<1> DEFINE new == event.new
           seen == [q EXCEPT !.wsHighWater = new.at]
           r == PollObserved(q, event.old, new)
           sooner == [seen EXCEPT !.deadline = new.next, !.urgent = TRUE, !.wake = TRUE]
<1>1. new.at \in Instants /\ new.next \in Instants /\ new.next \in Nat
  BY InstantsTyped DEF Events, Polls
<1>2. q.deadline \in Nat
  BY InstantsTyped DEF Authorities
<1> HIDE DEF new
<1>3. seen \in Authorities
  BY <1>1 DEF Authorities
<1>4. /\ seen.source = q.source /\ seen.state = q.state /\ seen.evidence = q.evidence
      /\ seen.highWater = q.highWater /\ seen.same = q.same /\ seen.baselined = q.baselined
      /\ seen.day = q.day /\ seen.lost = q.lost /\ seen.deadline = q.deadline
      /\ seen.urgent = q.urgent /\ seen.wake = q.wake /\ seen.verified = q.verified
  BY DEF Authorities
<1>5. \/ r = Retired(q, TRUE) \/ r = Retired(seen, TRUE)
      \/ /\ q.deadline # 0 /\ new.next < q.deadline /\ new.next # 0
         /\ r = [Shortened(seen, new.next) EXCEPT !.urgent = TRUE, !.wake = TRUE]
      \/ ~(q.deadline # 0 /\ new.next < q.deadline) /\ r = seen
  BY Zenon DEF PollObserved
<1> HIDE DEF seen
<1>6. Gone(q, Retired(q, TRUE)) /\ Gone(q, Retired(seen, TRUE))
      /\ Retired(q, TRUE).wake /\ Retired(seen, TRUE).wake
  <2>1. Gone(seen, Retired(seen, TRUE))
    BY <1>3, RetiredGone
  <2> QED
    BY <1>3, <1>4, <2>1, RetiredGone DEF Gone
<1>7. ASSUME q.deadline # 0, new.next < q.deadline, new.next # 0,
             r = [Shortened(seen, new.next) EXCEPT !.urgent = TRUE, !.wake = TRUE]
      PROVE  Noticed(q, event, r)
  <2>1. Shortened(seen, new.next) = [seen EXCEPT !.deadline = new.next]
    <3>1. Nearer(seen.deadline, new.next) = new.next
      BY <1>4, <1>7 DEF Nearer
    <3> QED
      BY <1>1, <1>3, <3>1, ShortenedFacts
  <2>2. r = sooner
    BY <1>3, <1>7, <2>1 DEF Authorities
  <2>3. /\ sooner \in Authorities /\ sooner.wake /\ sooner.deadline = new.next
        /\ sooner.source = q.source /\ sooner.state = q.state /\ sooner.evidence = q.evidence
        /\ sooner.highWater = q.highWater /\ sooner.same = q.same
        /\ sooner.baselined = q.baselined
        /\ sooner.day = q.day /\ sooner.lost = q.lost /\ sooner.verified = q.verified
    BY <1>1, <1>3, <1>4 DEF Authorities
  <2>4. Heard(q, event) = new.next
    BY <1>1, <1>2, <1>7 DEF Heard, new
  <2> HIDE DEF r, sooner
  <2>5. Consistent(sooner)
    BY <1>7, <2>3 DEF Consistent
  <2> QED
    BY <2>2, <2>3, <2>4, <2>5 DEF Noticed
<1>8. ASSUME ~(q.deadline # 0 /\ new.next < q.deadline), r = seen
      PROVE  Noticed(q, event, r)
  <2>1. Heard(q, event) = q.deadline
    BY <1>1, <1>2, <1>8 DEF Heard, new
  <2>2. Consistent(seen)
    BY <1>4 DEF Consistent
  <2> HIDE DEF r
  <2> QED
    BY <1>3, <1>4, <1>8, <2>1, <2>2 DEF Noticed
<1> HIDE DEF r
<1>9. (Gone(q, r) /\ r.wake) \/ Noticed(q, event, r)
  BY <1>5, <1>6, <1>7, <1>8
<1> QED
  BY <1>9 DEF r, new
LEMMA ObservedFacts ==
  ASSUME NEW q \in Authorities, q.source = configured, Consistent(q), clock \in Times,
         NEW event \in Events
  PROVE  LET r == Observed(q, event)
         IN (Gone(q, r) /\ r.wake) \/ Noticed(q, event, r)
<1>1. Refreshed(q) = q
  BY RefreshedFacts
<1>2. CASE event.of = q.source /\ event.entity = "poll"
  BY <1>1, <1>2, PollObservedFacts DEF Observed
<1>3. CASE ~(event.of = q.source /\ event.entity = "poll")
  <2>1. Heard(q, event) = q.deadline
    BY <1>3 DEF Heard
  <2>2. Noticed(q, event, q)
    BY <2>1 DEF Noticed
  <2>3. Gone(q, Retired(q, TRUE)) /\ Retired(q, TRUE).wake
    BY RetiredGone
  <2>4. Observed(q, event) = q \/ Observed(q, event) = Retired(q, TRUE)
    BY <1>1, <1>3 DEF Observed
  <2> QED
    BY <2>2, <2>3, <2>4
<1> QED
  BY <1>2, <1>3

-----------------------------------------------------------------------------
(* The queue, the count and the wait                                       *)

LEMMA EmptyQueue == ASSUME NEW items \in Seq(Items) PROVE items = <<>> <=> Len(items) = 0
OBVIOUS
LEMMA PutFacts ==
  ASSUME NEW items \in Seq(Items), Len(items) <= QueueSize, NEW item \in Items
  PROVE  /\ Put(items, item) \in Seq(Items) /\ Len(Put(items, item)) <= QueueSize
         /\ Put(items, item) # <<>>
BY ConstantsTyped DEF Put
LEMMA TailFacts ==
  ASSUME NEW items \in Seq(Items), items # <<>>
  PROVE  /\ Tail(items) \in Seq(Items) /\ Len(Tail(items)) = Len(items) - 1
         /\ Head(items) \in Items /\ Len(items) \in Nat \ {0}
OBVIOUS
LEMMA CountFacts ==
  ASSUME NEW ph \in Phases, NEW n \in Nat, NEW urgent \in BOOLEAN, NEW late \in BOOLEAN,
         NEW alarm \in BOOLEAN, NEW over \in BOOLEAN
  PROVE  LET c == Count(ph, n, urgent, late, alarm, over)
         IN /\ c \in Nat /\ c <= n + 2
            /\ ph \in Ticking => c = n + One(urgent) + One(late)
            /\ ph = "idle" => c = n + One(urgent \/ late \/ alarm)
            /\ ph = "waiting" => c = (IF n = 0 THEN One(over) ELSE n) + One(late)
            /\ ph \in {"draining", "collecting"} => c = 1 + n + One(late)
<1>1. CASE ph \in Ticking
  BY <1>1 DEF Count, Ticking, One
<1>2. CASE ph = "idle"
  BY <1>2 DEF Count, Ticking, One
<1>3. CASE ph = "waiting"
  BY <1>3 DEF Count, Ticking, One
<1>4. CASE ph \in {"draining", "collecting"}
  BY <1>4 DEF Count, Ticking, One
<1> QED
  BY <1>1, <1>2, <1>3, <1>4 DEF Phases, Ticking
LEMMA LateBoolean == \A q, now : Late(q, now) \in BOOLEAN
BY DEF Late
LEMMA DueFacts ==
  ASSUME NEW q \in Authorities, clock \in Times
  PROVE  Due(q) <=> Late(q, clock)
<1>1. q.deadline \in Nat /\ clock \in Nat /\ clock # 0
  BY InstantsTyped DEF Authorities
<1>2. Midnight(clock) \in Nat /\ clock < Midnight(clock)
  BY <1>1, DayFacts
<1> DEFINE m == Min({q.deadline, Midnight(clock)})
<1>3. m \in {q.deadline, Midnight(clock)} /\ m <= q.deadline /\ m <= Midnight(clock)
  BY <1>1, <1>2, Least2
<1> HIDE DEF m
<1>4. clock >= m <=> clock >= q.deadline
  BY <1>1, <1>2, <1>3
<1> QED
  BY <1>4 DEF Due, Late, m
LEMMA WokenFacts ==
  ASSUME NEW q \in Authorities, clock \in Times
  PROVE  LET w == Woken(q)
         IN /\ w \in Authorities /\ ~Late(w, clock) /\ w.source = q.source
            /\ w.deadline = q.deadline /\ w.evidence = q.evidence /\ w.highWater = q.highWater
            /\ w.wake = q.wake /\ w.lost = q.lost
            /\ Consistent(q) => Consistent(w)
<1>1. Woken(q) = IF Late(q, clock) THEN [q EXCEPT !.state = "EXPIRED"] ELSE q
  <2>1. Woken(q) = IF Due(q) THEN [q EXCEPT !.state = "EXPIRED"] ELSE q
    BY Zenon DEF Woken, Due
  <2> QED
    BY <2>1, DueFacts
<1> DEFINE x == [q EXCEPT !.state = "EXPIRED"]
<1>2. /\ x \in Authorities /\ x.state = "EXPIRED" /\ x.source = q.source
      /\ x.deadline = q.deadline /\ x.evidence = q.evidence /\ x.highWater = q.highWater
      /\ x.wake = q.wake /\ x.lost = q.lost /\ x.baselined = q.baselined /\ x.day = q.day
      /\ x.verified = q.verified
  BY DEF Authorities, States
<1> HIDE DEF x
<1>3. ~Late(x, clock) /\ (Consistent(q) => Consistent(x))
  BY <1>2 DEF Late, Consistent
<1>4. (Woken(q) = q /\ ~Late(q, clock)) \/ Woken(q) = x
  BY <1>1 DEF x
<1> QED
  BY <1>2, <1>3, <1>4
LEMMA WaitUntilFacts ==
  ASSUME NEW q \in Authorities, clock \in Times, NEW limit \in Nat
  PROVE  LET w == WaitUntil(q, limit)
         IN /\ w \in Nat
            /\ q.state = "VALID" => w <= q.deadline /\ w <= Midnight(clock)
            /\ ~Late(q, clock) => (clock >= w <=> clock >= limit)
<1>1. q.deadline \in Nat /\ clock \in Nat /\ clock # 0
  BY InstantsTyped DEF Authorities
<1>2. Midnight(clock) \in Nat /\ clock < Midnight(clock)
  BY <1>1, DayFacts
<1> DEFINE m == Min({limit, q.deadline, Midnight(clock)})
<1>3. /\ m \in {limit, q.deadline, Midnight(clock)} /\ m <= limit /\ m <= q.deadline
      /\ m <= Midnight(clock)
  BY <1>1, <1>2, Least3
<1> HIDE DEF m
<1>4. m \in Nat /\ (clock < q.deadline => (clock >= m <=> clock >= limit))
  BY <1>1, <1>2, <1>3
<1> QED
  BY <1>1, <1>3, <1>4 DEF WaitUntil, Late, m

-----------------------------------------------------------------------------
(* What every action keeps                                                 *)

Settled(q) == [q EXCEPT !.wake = FALSE, !.lost = FALSE]
LEMMA SettledFacts ==
  ASSUME NEW q \in Authorities
  PROVE  LET r == Settled(q)
         IN /\ r \in Authorities /\ ~r.wake /\ ~r.lost
            /\ r.source = q.source /\ r.state = q.state /\ r.highWater = q.highWater
            /\ r.verified = q.verified /\ r.deadline = q.deadline /\ r.day = q.day
            /\ r.evidence = q.evidence /\ r.baselined = q.baselined /\ r.urgent = q.urgent
            /\ r.same = q.same
            /\ Consistent(q) => Consistent(r)
<1>1. LET r == Settled(q)
      IN /\ r \in Authorities /\ ~r.wake /\ ~r.lost
         /\ r.source = q.source /\ r.state = q.state /\ r.highWater = q.highWater
         /\ r.verified = q.verified /\ r.deadline = q.deadline /\ r.day = q.day
         /\ r.evidence = q.evidence /\ r.baselined = q.baselined /\ r.urgent = q.urgent
         /\ r.same = q.same
  BY DEF Settled, Authorities
<1> QED
  BY <1>1 DEF Consistent

\* What happens outside is a new reason for cycles, and ends the count of them.
LEMMA Outward ==
  ASSUME ticks' = 0, LoopTyped', OutsideTyped', AuthorityInv'
  PROVE  Bounded' /\ Calm'
<1>1. /\ phase' \in Phases /\ Len(queue') \in Nat /\ Len(queue') <= QueueSize
      /\ p'.urgent \in BOOLEAN
  BY DEF LoopTyped, AuthorityInv, Authorities
<1>2. Late(p', clock') \in BOOLEAN
  BY LateBoolean
<1> DEFINE alarm == lastTick' + Heartbeat <= clock'
           over == clock' >= until'
<1>3. Reasons' = Count(phase', Len(queue'), p'.urgent, Late(p', clock'), alarm, over)
  BY DEF Reasons
<1>4. alarm \in BOOLEAN /\ over \in BOOLEAN
  OBVIOUS
<1> HIDE DEF alarm, over
<1>5. Reasons' \in Nat /\ Reasons' <= Len(queue') + 2
  BY <1>1, <1>2, <1>3, <1>4, CountFacts
<1>6. ticks' + Reasons' <= QueueSize + 2
  <2>1. ASSUME NEW c \in Nat, NEW n \in Nat, NEW t, t = 0, n <= QueueSize, c <= n + 2
        PROVE  t + c <= QueueSize + 2
    BY <2>1, ConstantsTyped
  <2> QED
    BY <1>1, <1>5, <2>1, Zenon
<1>7. Bounded'
  BY <1>6 DEF Bounded
<1> QED
  BY <1>7 DEF Calm

\* Once the authority is lost, nothing is owed to it.
LEMMA Lost ==
  ASSUME NEW q \in Authorities, NEW r, Gone(q, r), q.source = configured', p' = Settled(r),
         success' = FALSE, promise' = 0, phase' \in Phases
  PROVE  /\ AuthorityInv' /\ TickInv' /\ SuccessInv'
         /\ queue' # <<>> => AwakeInv'
<1>1. r \in Authorities /\ Consistent(r)
  BY DEF Gone
<1>2. /\ p' \in Authorities /\ ~p'.wake /\ ~p'.lost /\ Consistent(p')
      /\ p'.source = configured' /\ p'.state = "UNVERIFIED" /\ p'.evidence = NoEvidence
      /\ p'.deadline = 0 /\ ~p'.baselined /\ p'.highWater = 0 /\ ~p'.same
  BY <1>1, SettledFacts DEF Gone
<1> QED
  BY <1>2 DEF AuthorityInv, TickInv, SuccessInv, AwakeInv

\* The count in each phase, before and after a step.
LEMMA ReasonsNow ==
  ASSUME LoopTyped, OutsideTyped, AuthorityInv
  PROVE  /\ Reasons \in Nat
         /\ phase \in Ticking => Reasons = Len(queue) + One(p.urgent) + One(Late(p, clock))
         /\ phase = "idle" =>
              Reasons = Len(queue) + One(p.urgent \/ Late(p, clock) \/ lastTick + Heartbeat <= clock)
         /\ phase = "waiting" =>
              Reasons = (IF Len(queue) = 0 THEN One(clock >= until) ELSE Len(queue))
                          + One(Late(p, clock))
         /\ phase \in {"draining", "collecting"} => Reasons = 1 + Len(queue) + One(Late(p, clock))
<1> DEFINE alarm == lastTick + Heartbeat <= clock
           over == clock >= until
           n == Len(queue)
           urgent == p.urgent
           late == Late(p, clock)
<1>1. phase \in Phases /\ n \in Nat /\ urgent \in BOOLEAN
  BY DEF LoopTyped, AuthorityInv, Authorities
<1>2. late \in BOOLEAN
  BY LateBoolean
<1>3. Reasons = Count(phase, n, urgent, late, alarm, over)
  BY DEF Reasons
<1>4. alarm \in BOOLEAN /\ over \in BOOLEAN
  OBVIOUS
<1> HIDE DEF alarm, over, n, urgent, late
<1>5. /\ Reasons \in Nat
      /\ phase \in Ticking => Reasons = n + One(urgent) + One(late)
      /\ phase = "idle" => Reasons = n + One(urgent \/ late \/ alarm)
      /\ phase = "waiting" =>
           Reasons = (IF n = 0 THEN One(over) ELSE n) + One(late)
      /\ phase \in {"draining", "collecting"} => Reasons = 1 + n + One(late)
  BY <1>1, <1>2, <1>3, <1>4, CountFacts
<1> QED
  BY <1>5 DEF alarm, over, n, urgent, late
LEMMA ReasonsThen ==
  ASSUME LoopTyped', OutsideTyped', AuthorityInv'
  PROVE  /\ Reasons' \in Nat
         /\ phase' \in Ticking => Reasons' = Len(queue') + One(p'.urgent) + One(Late(p', clock'))
         /\ phase' = "idle" =>
              Reasons' = Len(queue')
                + One(p'.urgent \/ Late(p', clock') \/ lastTick' + Heartbeat <= clock')
         /\ phase' = "waiting" =>
              Reasons' = (IF Len(queue') = 0 THEN One(clock' >= until') ELSE Len(queue'))
                          + One(Late(p', clock'))
         /\ phase' \in {"draining", "collecting"} =>
              Reasons' = 1 + Len(queue') + One(Late(p', clock'))
<1> DEFINE alarm == lastTick' + Heartbeat <= clock'
           over == clock' >= until'
           n == Len(queue')
           urgent == p'.urgent
           late == Late(p', clock')
<1>1. phase' \in Phases /\ n \in Nat /\ urgent \in BOOLEAN
  BY DEF LoopTyped, AuthorityInv, Authorities
<1>2. late \in BOOLEAN
  BY LateBoolean
<1>3. Reasons' = Count(phase', n, urgent, late, alarm, over)
  BY DEF Reasons
<1>4. alarm \in BOOLEAN /\ over \in BOOLEAN
  OBVIOUS
<1> HIDE DEF alarm, over, n, urgent, late
<1>5. /\ Reasons' \in Nat
      /\ phase' \in Ticking => Reasons' = n + One(urgent) + One(late)
      /\ phase' = "idle" => Reasons' = n + One(urgent \/ late \/ alarm)
      /\ phase' = "waiting" =>
           Reasons' = (IF n = 0 THEN One(over) ELSE n) + One(late)
      /\ phase' \in {"draining", "collecting"} =>
           Reasons' = 1 + n + One(late)
  BY <1>1, <1>2, <1>3, <1>4, CountFacts
<1> QED
  BY <1>5 DEF alarm, over, n, urgent, late
LEMMA NoMoreReasons ==
  ASSUME Bounded, LoopTyped, ticks' = ticks, Reasons \in Nat, Reasons' \in Nat, Reasons' <= Reasons
  PROVE  Bounded'
<1>1. ASSUME NEW t \in Nat, NEW c \in Nat, NEW d \in Nat, d <= c, t + c <= QueueSize + 2
      PROVE  t + d <= QueueSize + 2
  BY <1>1, ConstantsTyped
<1>2. ticks \in Nat /\ ticks + Reasons <= QueueSize + 2
  BY DEF LoopTyped, Bounded
<1>3. ticks' + Reasons' <= QueueSize + 2
  BY <1>1, <1>2, Zenon
<1> QED
  BY <1>3 DEF Bounded

-----------------------------------------------------------------------------
(* The steps outside                                                       *)

\* An event reaches the wire of a connected client, and only there.
LEMMA Announced ==
  ASSUME OutsideTyped, NEW event \in Events, Len(wire) < WireSize, Announce(event)
  PROVE  wire' \in Seq(Events) /\ Len(wire') <= WireSize
BY ConstantsTyped DEF OutsideTyped, Announce

LEMMA PollStep ==
  ASSUME IInv, NEW new \in Polls, NEW tracked \in BOOLEAN, tracked \/ new.at <= poll.at,
         PollBecomes(new, tracked), faults' \in Nat
  PROVE  IInv'
<1>1. OutsideTyped /\ LoopTyped /\ AuthorityInv /\ TickInv /\ SuccessInv /\ AwakeInv
  BY DEF IInv
<1> DEFINE event == [entity |-> "poll", of |-> configured, old |-> poll, new |-> new]
<1>2. event \in Events
  BY <1>1 DEF OutsideTyped, Events
<1>3. /\ poll' = new /\ Announce(event) /\ Len(wire) < WireSize
      /\ success' = (success \/ tracked) /\ ticks' = 0
      /\ UNCHANGED <<clock, connected, p, queue, phase, until, lastTick, s, ceiling, promise,
                     forecast, configured>>
  BY DEF PollBecomes, Outside
<1> HIDE DEF event
<1>4. wire' \in Seq(Events) /\ Len(wire') <= WireSize
  BY <1>1, <1>2, <1>3, Announced
<1>5. OutsideTyped'
  BY <1>1, <1>3, <1>4 DEF OutsideTyped
<1>6. LoopTyped'
  BY <1>1, <1>3 DEF LoopTyped
<1>7. AuthorityInv'
  BY <1>1, <1>3 DEF AuthorityInv, Consistent
<1>8. TickInv'
  BY <1>1, <1>3 DEF TickInv
<1>9. SuccessInv'
  <2>1. poll.at \in Nat /\ new.at \in Nat /\ p.highWater \in Nat /\ s.polled \in Nat
    BY <1>1, InstantsTyped DEF OutsideTyped, Polls, AuthorityInv, Authorities, LoopTyped, Snapshots
  <2>2. CASE success' = TRUE
    BY <2>2 DEF SuccessInv
  <2>3. CASE ~success /\ ~tracked
    <3>1. p.evidence = NoEvidence /\ poll'.at <= poll.at
      BY <1>1, <1>3, <2>3 DEF SuccessInv
    <3>2. p.highWater # None => poll'.at <= p.highWater
      BY <1>1, <1>3, <2>1, <2>3, <3>1 DEF SuccessInv
    <3>3. phase = "read" /\ p.same => /\ poll'.at <= s.polled
                                      /\ p.highWater # None => s.polled <= p.highWater
      BY <1>1, <1>3, <2>1, <2>3, <3>1 DEF SuccessInv
    <3> QED
      BY <1>3, <3>1, <3>2, <3>3 DEF SuccessInv
  <2> QED
    BY <1>3, <2>2, <2>3
<1>10. AwakeInv'
  BY <1>1, <1>3 DEF AwakeInv, Midnight, Day
<1>11. Bounded' /\ Calm'
  BY <1>3, <1>5, <1>6, <1>7, Outward
<1> QED
  BY <1>5, <1>6, <1>7, <1>8, <1>9, <1>10, <1>11 DEF IInv

LEMMA FaultTyped == ASSUME OutsideTyped, NEW kind PROVE /\ Fault(kind) => faults' \in Nat
                                                        /\ NoFault => faults' \in Nat
BY DEF OutsideTyped, Fault, NoFault

LEMMA PublishPollStep == ASSUME IInv, PublishPoll PROVE IInv'
<1>1. OutsideTyped
  BY DEF IInv
<1> DEFINE new == [at |-> clock, next |-> clock + Interval]
<1>2. new \in Polls
  BY <1>1, InstantsTyped DEF OutsideTyped, Polls
<1>3. PollBecomes(new, TRUE) /\ faults' \in Nat
  BY <1>1, FaultTyped DEF PublishPoll
<1> HIDE DEF new
<1> QED
  BY <1>2, <1>3, PollStep

LEMMA DisturbPollStep == ASSUME IInv, DisturbPoll PROVE IInv'
<1>1. OutsideTyped
  BY DEF IInv
<1>2. poll \in Polls /\ poll.at \in Instants /\ poll.at \in Nat /\ clock \in Times
  BY <1>1, InstantsTyped DEF OutsideTyped, Polls
<1>3. faults' \in Nat
  BY <1>1, FaultTyped DEF DisturbPoll
<1>4. CASE poll.at > 1 /\ PollBecomes([poll EXCEPT !.at = @ - 1], FALSE)
  <2> DEFINE new == [poll EXCEPT !.at = poll.at - 1]
  <2>1. poll.at - 1 \in Instants /\ poll.at - 1 <= poll.at
    BY <1>2, <1>4, ConstantsTyped DEF Instants
  <2>2. new \in Polls /\ new.at <= poll.at
    BY <1>2, <2>1 DEF Polls
  <2>3. PollBecomes(new, FALSE)
    BY <1>4
  <2> HIDE DEF new
  <2> QED
    BY <1>3, <2>2, <2>3, PollStep
<1>5. CASE PollBecomes([at |-> None, next |-> None], FALSE)
  <2> DEFINE new == [at |-> None, next |-> None]
  <2>1. new \in Polls /\ new.at <= poll.at
    BY <1>2, InstantsTyped DEF Polls
  <2>2. PollBecomes(new, FALSE)
    BY <1>5
  <2> HIDE DEF new
  <2> QED
    BY <1>3, <2>1, <2>2, PollStep
<1>6. CASE PollBecomes([poll EXCEPT !.next = clock + 1], FALSE)
  <2> DEFINE new == [poll EXCEPT !.next = clock + 1]
  <2>1. clock + 1 \in Instants
    BY <1>2, InstantsTyped
  <2>2. new \in Polls /\ new.at <= poll.at
    BY <1>2, <2>1 DEF Polls
  <2>3. PollBecomes(new, FALSE)
    BY <1>6
  <2> HIDE DEF new
  <2> QED
    BY <1>3, <2>2, <2>3, PollStep
<1>7. CASE PollBecomes([poll EXCEPT !.next = None], FALSE)
  <2> DEFINE new == [poll EXCEPT !.next = None]
  <2>1. new \in Polls /\ new.at <= poll.at
    BY <1>2, InstantsTyped DEF Polls
  <2>2. PollBecomes(new, FALSE)
    BY <1>7
  <2> HIDE DEF new
  <2> QED
    BY <1>3, <2>1, <2>2, PollStep
<1> QED
  BY <1>4, <1>5, <1>6, <1>7 DEF DisturbPoll

LEMMA ForecastStep ==
  ASSUME IInv, NEW new \in Forecasts, ForecastBecomes(new), faults' \in Nat
  PROVE  IInv'
<1>1. OutsideTyped /\ LoopTyped /\ AuthorityInv /\ TickInv /\ SuccessInv /\ AwakeInv
  BY DEF IInv
<1> DEFINE event == [entity |-> "forecast", of |-> configured, old |-> forecast, new |-> new]
<1>2. event \in Events
  BY <1>1 DEF OutsideTyped, Events
<1>3. /\ forecast' = new /\ Announce(event) /\ Len(wire) < WireSize /\ ticks' = 0
      /\ UNCHANGED <<clock, connected, p, queue, phase, until, lastTick, s, ceiling, promise,
                     poll, configured, success>>
  BY DEF ForecastBecomes, Outside
<1> HIDE DEF event
<1>4. wire' \in Seq(Events) /\ Len(wire') <= WireSize
  BY <1>1, <1>2, <1>3, Announced
<1>5. OutsideTyped'
  BY <1>1, <1>3, <1>4 DEF OutsideTyped
<1>6. LoopTyped'
  BY <1>1, <1>3 DEF LoopTyped
<1>7. AuthorityInv'
  BY <1>1, <1>3 DEF AuthorityInv, Consistent
<1>8. TickInv'
  BY <1>1, <1>3 DEF TickInv
<1>9. SuccessInv'
  BY <1>1, <1>3 DEF SuccessInv
<1>10. AwakeInv'
  BY <1>1, <1>3 DEF AwakeInv, Midnight, Day
<1>11. Bounded' /\ Calm'
  BY <1>3, <1>5, <1>6, <1>7, Outward
<1> QED
  BY <1>5, <1>6, <1>7, <1>8, <1>9, <1>10, <1>11 DEF IInv

LEMMA PublishForecastStep == ASSUME IInv, PublishForecast PROVE IInv'
<1>1. OutsideTyped
  BY DEF IInv
<1> DEFINE new == [version |-> poll.at, day |-> Day(clock), ok |-> TRUE]
<1>2. new \in Forecasts
  BY <1>1, DayTyped DEF OutsideTyped, Polls, Forecasts
<1>3. ForecastBecomes(new) /\ faults' \in Nat
  BY <1>1, FaultTyped DEF PublishForecast
<1> HIDE DEF new
<1> QED
  BY <1>2, <1>3, ForecastStep
LEMMA DisturbForecastStep == ASSUME IInv, DisturbForecast PROVE IInv'
<1>1. OutsideTyped
  BY DEF IInv
<1> DEFINE bad == [forecast EXCEPT !.ok = FALSE]
           other == [forecast EXCEPT !.version = clock]
<1>2. bad \in Forecasts /\ other \in Forecasts
  BY <1>1, InstantsTyped DEF OutsideTyped, Forecasts
<1>3. (ForecastBecomes(bad) \/ ForecastBecomes(other)) /\ faults' \in Nat
  BY <1>1, FaultTyped DEF DisturbForecast
<1> HIDE DEF bad, other
<1> QED
  BY <1>2, <1>3, ForecastStep

LEMMA ReassignStep == ASSUME IInv, Reassign PROVE IInv'
<1>1. OutsideTyped /\ LoopTyped /\ AuthorityInv
  BY DEF IInv
<1> DEFINE q == [p EXCEPT !.source = configured']
           r == Retired(q, TRUE)
<1>2. configured' \in {1, 2}
  BY <1>1 DEF Reassign, OutsideTyped
<1>3. q \in Authorities /\ q.source = configured'
  BY <1>1, <1>2 DEF AuthorityInv, Authorities
<1>4. /\ p' = Settled(r)
      /\ poll' \in {poll, [at |-> None, next |-> None]}
                     \cup {[at |-> clock, next |-> clock + Interval]}
      /\ queue' = Put(Put(queue, "provider"), "entity")
      /\ ticks' = 0 /\ success' = FALSE /\ promise' = None /\ faults' = faults + 1
      /\ UNCHANGED <<clock, forecast, wire, connected, phase, until, lastTick, s, ceiling>>
  BY DEF Reassign, Settled, Fault
<1> HIDE DEF q
<1>5. Gone(q, r)
  BY <1>3, RetiredGone
<1> HIDE DEF r
<1>6. poll' \in Polls
  BY <1>1, <1>4, InstantsTyped DEF OutsideTyped, Polls
<1>7. OutsideTyped'
  BY <1>1, <1>2, <1>4, <1>6 DEF OutsideTyped
<1>8. queue' \in Seq(Items) /\ Len(queue') <= QueueSize /\ queue' # <<>>
  <2>1. "provider" \in Items /\ "entity" \in Items
    BY DEF Items
  <2>2. Put(queue, "provider") \in Seq(Items) /\ Len(Put(queue, "provider")) <= QueueSize
    BY <1>1, <2>1, PutFacts DEF LoopTyped
  <2> QED
    BY <1>4, <2>1, <2>2, PutFacts
<1>9. LoopTyped'
  BY <1>1, <1>4, <1>8, InstantsTyped DEF LoopTyped
<1>10. AuthorityInv' /\ TickInv' /\ SuccessInv' /\ AwakeInv'
  <2>1. phase' \in Phases
    BY <1>9 DEF LoopTyped
  <2> QED
    BY <1>3, <1>4, <1>5, <1>8, <2>1, Lost
<1>11. Bounded' /\ Calm'
  BY <1>4, <1>7, <1>9, <1>10, Outward
<1> QED
  BY <1>7, <1>9, <1>10, <1>11 DEF IInv

LEMMA NoiseStep == ASSUME IInv, NEW item \in {"entity", "time"}, Noise(item) PROVE IInv'
<1>1. OutsideTyped /\ LoopTyped /\ AuthorityInv /\ TickInv /\ SuccessInv /\ AwakeInv
  BY DEF IInv
<1>2. /\ queue' = Put(queue, item) /\ ticks' = 0 /\ faults' = faults + 1
      /\ UNCHANGED <<clock, poll, forecast, configured, wire, connected, p, phase, until,
                     lastTick, s, ceiling, success, promise>>
  BY DEF Noise, Fault
<1>3. queue' \in Seq(Items) /\ Len(queue') <= QueueSize /\ queue' # <<>>
  <2>1. item \in Items
    BY DEF Items
  <2> QED
    BY <1>1, <1>2, <2>1, PutFacts DEF LoopTyped
<1>4. OutsideTyped'
  BY <1>1, <1>2 DEF OutsideTyped
<1>5. LoopTyped'
  BY <1>1, <1>2, <1>3 DEF LoopTyped
<1>6. AuthorityInv'
  BY <1>1, <1>2 DEF AuthorityInv, Consistent
<1>7. TickInv' /\ SuccessInv'
  BY <1>1, <1>2 DEF TickInv, SuccessInv
<1>8. AwakeInv'
  BY <1>3 DEF AwakeInv
<1>9. Bounded' /\ Calm'
  BY <1>2, <1>4, <1>5, <1>6, Outward
<1> QED
  BY <1>4, <1>5, <1>6, <1>7, <1>8, <1>9 DEF IInv

LEMMA AdvanceStep == ASSUME IInv, Advance PROVE IInv'
<1>1. OutsideTyped /\ LoopTyped /\ AuthorityInv /\ TickInv /\ SuccessInv /\ AwakeInv
  BY DEF IInv
<1>2. /\ clock < MaxTime /\ clock' = clock + 1 /\ ticks' = 0 /\ faults' = faults
      /\ UNCHANGED <<poll, forecast, configured, wire, connected, p, queue, phase, until,
                     lastTick, s, ceiling, success, promise>>
  BY DEF Advance, NoFault
<1>3. clock \in Times /\ clock' \in Times /\ clock <= clock'
  BY <1>1, <1>2, ConstantsTyped DEF OutsideTyped
<1>4. OutsideTyped'
  BY <1>1, <1>2, <1>3 DEF OutsideTyped
<1>5. LoopTyped'
  BY <1>1, <1>2 DEF LoopTyped
<1>6. AuthorityInv'
  BY <1>1, <1>2 DEF AuthorityInv, Consistent
<1>7. TickInv' /\ SuccessInv'
  BY <1>1, <1>2 DEF TickInv, SuccessInv
<1>8. AwakeInv'
  <2>1. Midnight(clock) <= Midnight(clock') /\ Midnight(clock) \in Nat /\ Midnight(clock') \in Nat
    BY <1>3, MidnightLater, InstantsTyped, DayFacts
  <2>2. until \in Nat
    BY <1>1 DEF LoopTyped
  <2>3. until <= Midnight(clock) => until <= Midnight(clock')
    BY <2>1, <2>2
  <2> QED
    BY <1>1, <1>2, <2>3 DEF AwakeInv
<1>9. Bounded' /\ Calm'
  BY <1>2, <1>4, <1>5, <1>6, Outward
<1> QED
  BY <1>4, <1>5, <1>6, <1>7, <1>8, <1>9 DEF IInv

\* The connection was made or broken.
LEMMA ReconnectStep ==
  ASSUME IInv, connected' \in BOOLEAN, wire' \in {wire, <<>>}, faults' \in Nat,
         Becomes(Retired(p, TRUE), queue), Unsettled([Retired(p, TRUE) EXCEPT !.lost = TRUE]),
         UNCHANGED <<clock, poll, forecast, configured, phase, until, lastTick, s, ceiling>>
  PROVE  IInv'
<1>1. OutsideTyped /\ LoopTyped /\ AuthorityInv
  BY DEF IInv
<1> DEFINE r == Retired(p, TRUE)
<1>2. p \in Authorities /\ p.source = configured
  BY <1>1 DEF AuthorityInv
<1>3. Gone(p, r) /\ r.wake
  BY <1>2, RetiredGone
<1>4. p' = Settled(r) /\ queue' = IF r.wake THEN Put(queue, "provider") ELSE queue
  BY DEF Becomes, Settled
<1>5. ticks' = 0 /\ success' = FALSE /\ promise' = 0
  <2>1. r \in Authorities
    BY <1>3 DEF Gone
  <2> HIDE DEF r
  <2>2. [r EXCEPT !.lost = TRUE].lost = TRUE
    BY <2>1 DEF Authorities
  <2> QED
    BY <2>2 DEF Unsettled, r
<1> HIDE DEF r
<1>6. OutsideTyped'
  <2>1. wire \in Seq(Events) /\ Len(wire) <= WireSize
    BY <1>1 DEF OutsideTyped
  <2>2. <<>> \in Seq(Events) /\ Len(<<>>) <= WireSize
    BY ConstantsTyped
  <2>3. wire' \in Seq(Events) /\ Len(wire') <= WireSize
    BY <2>1, <2>2
  <2> QED
    BY <1>1, <2>3 DEF OutsideTyped
<1>7. queue' \in Seq(Items) /\ Len(queue') <= QueueSize /\ queue' # <<>>
  <2>1. "provider" \in Items
    BY DEF Items
  <2> QED
    BY <1>1, <1>3, <1>4, <2>1, PutFacts DEF LoopTyped
<1>8. LoopTyped'
  BY <1>1, <1>5, <1>7, InstantsTyped DEF LoopTyped
<1>9. AuthorityInv' /\ TickInv' /\ SuccessInv' /\ AwakeInv'
  <2>1. phase' \in Phases /\ p.source = configured'
    BY <1>2, <1>8 DEF LoopTyped
  <2> QED
    BY <1>2, <1>3, <1>4, <1>5, <1>7, <2>1, Lost
<1>10. Bounded' /\ Calm'
  BY <1>5, <1>6, <1>8, <1>9, Outward
<1> QED
  BY <1>6, <1>8, <1>9, <1>10 DEF IInv
LEMMA ConnectStep == ASSUME IInv, Connect PROVE IInv'
<1>1. faults' \in Nat
  BY FaultTyped DEF IInv, Connect
<1> QED
  BY <1>1, ReconnectStep DEF Connect
LEMMA DisconnectStep == ASSUME IInv, Disconnect PROVE IInv'
<1>1. faults' \in Nat
  BY FaultTyped DEF IInv, Disconnect
<1> QED
  BY <1>1, ReconnectStep DEF Disconnect

LEMMA DeliverStep == ASSUME IInv, Deliver PROVE IInv'
<1>1. OutsideTyped /\ LoopTyped /\ AuthorityInv /\ TickInv /\ SuccessInv /\ AwakeInv
  BY DEF IInv
<1> DEFINE event == Head(wire)
           r == Observed(p, event)
           shorter == IF event.entity = "poll" /\ event.of = r.source /\ promise # None
                         /\ event.new.next \in 1..promise
                      THEN event.new.next ELSE promise
           woken == IF r.wake THEN Put(queue, "provider") ELSE queue
<1>2. /\ wire # <<>> /\ wire' = Tail(wire) /\ ticks' = 0 /\ faults' = faults
      /\ p' = Settled(r)
      /\ queue' = IF event.of = configured THEN Put(woken, "entity") ELSE woken
      /\ success' = (success /\ ~r.lost)
      /\ promise' = IF r.lost THEN None ELSE shorter
      /\ UNCHANGED <<clock, poll, forecast, configured, connected, phase, until, lastTick, s,
                     ceiling>>
  BY DEF Deliver, Settled, NoFault
<1>3. /\ event \in Events /\ wire' \in Seq(Events) /\ Len(wire') <= WireSize
  BY <1>1, <1>2, ConstantsTyped DEF OutsideTyped
<1>4. /\ p \in Authorities /\ p.source = configured /\ Consistent(p) /\ ~p.lost /\ ~p.wake
      /\ p.deadline = promise /\ clock \in Times /\ promise \in Instants /\ promise \in Nat
  BY <1>1, InstantsTyped DEF AuthorityInv, OutsideTyped, LoopTyped
<1> HIDE DEF event
<1>5. (Gone(p, r) /\ r.wake) \/ Noticed(p, event, r)
  BY <1>3, <1>4, ObservedFacts
<1> HIDE DEF r
<1>6. r \in Authorities /\ Consistent(r) /\ r.source = p.source
  BY <1>5 DEF Gone, Noticed
<1>7. /\ p' \in Authorities /\ ~p'.wake /\ ~p'.lost /\ Consistent(p')
      /\ p'.source = r.source /\ p'.state = r.state /\ p'.highWater = r.highWater
      /\ p'.deadline = r.deadline /\ p'.day = r.day
      /\ p'.evidence = r.evidence /\ p'.baselined = r.baselined /\ p'.urgent = r.urgent
      /\ p'.same = r.same
  BY <1>2, <1>6, SettledFacts
<1>8. /\ woken \in Seq(Items) /\ Len(woken) <= QueueSize /\ (r.wake => woken # <<>>)
      /\ (~r.wake => woken = queue)
      /\ queue' \in Seq(Items) /\ Len(queue') <= QueueSize
      /\ queue' = <<>> => woken = <<>>
  <2>1. "provider" \in Items /\ "entity" \in Items
    BY DEF Items
  <2>2. /\ woken \in Seq(Items) /\ Len(woken) <= QueueSize /\ (r.wake => woken # <<>>)
        /\ (~r.wake => woken = queue)
    BY <1>1, <2>1, PutFacts DEF LoopTyped
  <2> HIDE DEF woken
  <2> QED
    BY <1>2, <2>1, <2>2, PutFacts
<1>9. queue' = <<>> => queue = <<>> /\ ~r.wake
  BY <1>8
<1>10. OutsideTyped'
  BY <1>1, <1>2, <1>3 DEF OutsideTyped
<1>11. promise' \in Instants
  <2>1. shorter \in Instants
    BY <1>3, <1>4 DEF Events, Polls
  <2> QED
    BY <1>2, <2>1, InstantsTyped
<1>12. LoopTyped'
  BY <1>1, <1>2, <1>8, <1>11 DEF LoopTyped
<1>13. CASE Gone(p, r) /\ r.wake
  <2>1. success' = FALSE /\ promise' = 0 /\ phase' \in Phases /\ p.source = configured'
    BY <1>2, <1>4, <1>12, <1>13 DEF Gone, LoopTyped
  <2>2. queue' # <<>>
    BY <1>9, <1>13
  <2>3. AuthorityInv' /\ TickInv' /\ SuccessInv' /\ AwakeInv'
    BY <1>2, <1>4, <1>13, <2>1, <2>2, Lost
  <2>4. Bounded' /\ Calm'
    BY <1>2, <1>10, <1>12, <2>3, Outward
  <2> QED
    BY <1>10, <1>12, <2>3, <2>4 DEF IInv
<1>14. CASE Noticed(p, event, r)
  <2>1. promise' = r.deadline
    BY <1>2, <1>4, <1>6, <1>14 DEF Noticed, Heard
  <2>2. AuthorityInv'
    BY <1>2, <1>4, <1>6, <1>7, <2>1 DEF AuthorityInv
  <2>3. r.deadline \in Nat /\ r.deadline <= p.deadline /\ p.deadline \in Nat
    BY <1>3, <1>4, <1>14, InstantsTyped DEF Noticed, Heard, Events, Polls
  <2>4. TickInv'
    <3>1. s.next \in Nat
      BY <1>1, InstantsTyped DEF LoopTyped, Snapshots
    <3> QED
      BY <1>1, <1>2, <1>7, <1>14, <2>3, <3>1 DEF TickInv, Noticed
  <2>5. SuccessInv'
    BY <1>1, <1>2, <1>4, <1>7, <1>14 DEF SuccessInv, Noticed
  <2>6. AwakeInv'
    <3>1. queue' = <<>> => p'.deadline = p.deadline /\ p'.urgent = p.urgent /\ queue = <<>>
      BY <1>7, <1>9, <1>14 DEF Noticed
    <3>2. p'.state = p.state
      BY <1>7, <1>14 DEF Noticed
    <3> QED
      BY <1>1, <1>2, <3>1, <3>2 DEF AwakeInv, Midnight, Day
  <2>7. Bounded' /\ Calm'
    BY <1>2, <1>10, <1>12, <2>2, Outward
  <2> QED
    BY <1>10, <1>12, <2>2, <2>4, <2>5, <2>6, <2>7 DEF IInv
<1> QED
  BY <1>5, <1>13, <1>14

-----------------------------------------------------------------------------
(* The event loop                                                          *)

LEMMA OneFacts == \A b : One(b) \in {0, 1} /\ (b => One(b) = 1) /\ (~b => One(b) = 0)
BY DEF One
LEMMA StartTickStep ==
  ASSUME IInv, NEW q \in Authorities, q.source = configured, Consistent(q),
         q.deadline = promise, ~q.wake, ~q.lost,
         q.evidence = p.evidence, q.highWater = p.highWater,
         NEW items \in Seq(Items), Len(items) <= QueueSize,
         Len(items) + One(Late(q, clock)) < Reasons,
         StartTick(q, items)
  PROVE  IInv'
<1>1. OutsideTyped /\ LoopTyped /\ AuthorityInv /\ TickInv /\ SuccessInv /\ AwakeInv /\ Bounded
  BY DEF IInv
<1> DEFINE calm == [q EXCEPT !.urgent = FALSE]
           r == [calm EXCEPT !.same = TRUE]
<1>2. /\ calm \in Authorities /\ calm.source = configured
      /\ r \in Authorities /\ r.source = configured /\ r.state = q.state /\ ~r.urgent /\ r.same
      /\ r.highWater = q.highWater /\ r.deadline = q.deadline /\ r.day = q.day
      /\ r.evidence = q.evidence /\ r.baselined = q.baselined /\ r.verified = q.verified
      /\ ~r.wake /\ ~r.lost /\ ~calm.lost
  BY DEF Authorities
<1>3. Refreshed(calm) = calm
  BY <1>2, RefreshedFacts
<1>4. /\ phase' = "reading" /\ ticks' = ticks + 1
      /\ Becomes([Refreshed(calm) EXCEPT !.same = TRUE], items)
      /\ success' = (success /\ ~Refreshed(calm).lost)
      /\ promise' = IF Refreshed(calm).lost THEN None ELSE promise
      /\ s' = [NoSnapshot EXCEPT !.continuity = connected]
      /\ ceiling' = "none" /\ until' = None
      /\ UNCHANGED <<clock, poll, forecast, configured, wire, connected, lastTick>>
      /\ faults' = faults
  BY Zenon DEF StartTick, NoFault
<1>5. Becomes(r, items) /\ success' = success /\ promise' = promise
  <2>1. success \in BOOLEAN
    BY <1>1 DEF LoopTyped
  <2> HIDE DEF calm
  <2> QED
    BY <1>2, <1>3, <1>4, <2>1
<1> HIDE DEF r
<1>6. p' = Settled(r) /\ queue' = items
  BY <1>2, <1>5 DEF Becomes, Settled
<1>7. Consistent(r)
  BY <1>2 DEF Consistent
<1>8. /\ p' \in Authorities /\ ~p'.wake /\ ~p'.lost /\ Consistent(p')
      /\ p'.source = configured /\ p'.state = q.state /\ p'.highWater = q.highWater
      /\ p'.deadline = q.deadline /\ p'.evidence = q.evidence
      /\ p'.urgent = FALSE /\ p'.same = TRUE
  <2>1. p'.urgent \in BOOLEAN /\ p'.same \in BOOLEAN /\ r.urgent \in BOOLEAN /\ r.same \in BOOLEAN
    BY <1>2, <1>6, SettledFacts DEF Authorities
  <2> QED
    BY <1>2, <1>6, <1>7, <2>1, SettledFacts
<1>9. s' \in Snapshots /\ s'.continuity = connected
  BY <1>1, <1>4, NothingTyped DEF NoSnapshot, Snapshots, OutsideTyped
<1>10. OutsideTyped'
  BY <1>1, <1>4 DEF OutsideTyped
<1>11. LoopTyped'
  <2>1. phase' \in Phases /\ ceiling' \in {"none", "planned", "commanded"} /\ until' \in Nat
        /\ ticks' \in Nat
    BY <1>1, <1>4 DEF LoopTyped, Phases
  <2> QED
    BY <1>1, <1>4, <1>5, <1>6, <1>9, <2>1 DEF LoopTyped
<1>12. AuthorityInv'
  BY <1>4, <1>5, <1>8 DEF AuthorityInv
<1>13. TickInv'
  BY <1>4, <1>8, <1>9 DEF TickInv
<1>14. SuccessInv'
  BY <1>1, <1>4, <1>5, <1>8 DEF SuccessInv
<1>15. AwakeInv' /\ Calm'
  BY <1>4 DEF AwakeInv, Calm
<1>16. Bounded'
  <2>1. Reasons' = Len(items) + One(FALSE) + One(Late(p', clock'))
    BY <1>4, <1>6, <1>8, <1>10, <1>11, <1>12, ReasonsThen DEF Ticking
  <2>2. Late(p', clock') <=> Late(q, clock)
    BY <1>4, <1>8 DEF Late
  <2>3. One(Late(p', clock')) = One(Late(q, clock)) /\ One(FALSE) = 0
    BY <2>2 DEF One
  <2>4. Reasons \in Nat /\ ticks \in Nat /\ Len(items) \in Nat /\ One(Late(q, clock)) \in Nat
    <3>1. Reasons \in Nat
      BY <1>1, ReasonsNow
    <3>2. ticks \in Nat /\ Len(items) \in Nat
      BY <1>1 DEF LoopTyped
    <3>3. One(Late(q, clock)) \in Nat
      BY OneFacts
    <3> QED
      BY <3>1, <3>2, <3>3
  <2>5. ASSUME NEW a \in Nat, NEW b \in Nat, NEW c \in Nat, NEW t \in Nat, a + b < c,
               t + c <= QueueSize + 2
        PROVE  t + 1 + (a + 0 + b) <= QueueSize + 2
    BY <2>5, ConstantsTyped
  <2>6. ticks + Reasons <= QueueSize + 2
    BY <1>1 DEF Bounded
  <2>7. ticks + 1 + (Len(items) + 0 + One(Late(q, clock))) <= QueueSize + 2
    BY <2>4, <2>5, <2>6, Zenon
  <2>8. ticks' + Reasons' <= QueueSize + 2
    BY <1>4, <2>1, <2>3, <2>7, Zenon
  <2> QED
    BY <2>8 DEF Bounded
<1> QED
  BY <1>10, <1>11, <1>12, <1>13, <1>14, <1>15, <1>16 DEF IInv

\* A step of the loop that does not begin a cycle.
Loops ==
  /\ ticks' = ticks /\ faults' = faults
  /\ UNCHANGED <<clock, poll, forecast, configured, wire, connected, p, lastTick, s, ceiling,
                 success, promise>>
LEMMA LoopStep ==
  ASSUME IInv, Loops, phase \notin Ticking, phase' \in Phases \ Ticking, until' \in Nat,
         queue' \in Seq(Items), Len(queue') <= QueueSize, AwakeInv', Reasons' <= Reasons
  PROVE  IInv'
<1>1. OutsideTyped /\ LoopTyped /\ AuthorityInv /\ TickInv /\ SuccessInv /\ Bounded
  BY DEF IInv
<1>2. OutsideTyped'
  BY <1>1 DEF OutsideTyped, Loops
<1>3. LoopTyped'
  BY <1>1 DEF LoopTyped, Loops
<1>4. AuthorityInv'
  BY <1>1 DEF AuthorityInv, Consistent, Loops
<1>5. TickInv' /\ Calm'
  BY DEF TickInv, Calm, Ticking
<1>6. SuccessInv'
  BY <1>1 DEF SuccessInv, Loops, Ticking
<1>7. Bounded'
  <2>1. Reasons \in Nat /\ Reasons' \in Nat
    BY <1>1, <1>2, <1>3, <1>4, ReasonsNow, ReasonsThen
  <2> QED
    BY <1>1, <2>1, NoMoreReasons DEF Loops
<1> QED
  BY <1>2, <1>3, <1>4, <1>5, <1>6, <1>7 DEF IInv

\* The authority as the loop holds it, and after its end was noticed.
LEMMA Held ==
  ASSUME IInv
  PROVE  /\ p \in Authorities /\ p.source = configured /\ Consistent(p) /\ p.deadline = promise
         /\ ~p.wake /\ ~p.lost /\ clock \in Times
         /\ queue \in Seq(Items) /\ Len(queue) <= QueueSize /\ Len(queue) \in Nat
         /\ lastTick \in Nat /\ until \in Nat /\ clock \in Nat
BY InstantsTyped DEF IInv, AuthorityInv, OutsideTyped, LoopTyped
LEMMA WokenTick ==
  ASSUME IInv, StartTick(Woken(p), queue), Len(queue) < Reasons
  PROVE  IInv'
<1> DEFINE w == Woken(p)
<1>1. /\ w \in Authorities /\ ~Late(w, clock) /\ w.source = p.source
      /\ w.deadline = p.deadline /\ w.evidence = p.evidence /\ w.highWater = p.highWater
      /\ w.wake = p.wake /\ w.lost = p.lost /\ Consistent(w)
  BY Held, WokenFacts
<1> HIDE DEF w
<1>2. One(Late(w, clock)) = 0
  BY <1>1, OneFacts
<1>3. Len(queue) + One(Late(w, clock)) < Reasons
  BY <1>2, Held
<1>4. StartTick(w, queue)
  BY DEF w
<1> QED
  BY <1>1, <1>3, <1>4, Held, StartTickStep

LEMMA SleepStep == ASSUME IInv, Sleep PROVE IInv'
<1>1. phase = "idle" /\ LoopTyped /\ OutsideTyped /\ AuthorityInv
  BY DEF Sleep, IInv
<1> DEFINE alarm == lastTick + Heartbeat <= clock
<1>2. Reasons = Len(queue) + One(p.urgent \/ Late(p, clock) \/ alarm)
  BY <1>1, ReasonsNow
<1>3. Due(p) <=> Late(p, clock)
  BY Held, DueFacts
<1>4. CASE (p.urgent \/ Due(p)) /\ StartTick(Woken(p), queue)
  <2>1. Reasons = Len(queue) + 1
    BY <1>2, <1>3, <1>4, OneFacts
  <2>2. Len(queue) < Reasons
    BY <2>1, Held
  <2> QED
    BY <1>4, <2>2, WokenTick
<1>5. CASE /\ ~(p.urgent \/ Due(p)) /\ phase' = "waiting"
           /\ until' = WaitUntil(p, Later(clock, lastTick + Heartbeat))
           /\ UNCHANGED <<clock, world, channel, p, queue, lastTick, s, ceiling, history>>
           /\ NoFault
  <2> DEFINE limit == Later(clock, lastTick + Heartbeat)
  <2>1. limit \in Nat /\ (clock >= limit <=> alarm)
    BY Held, ConstantsTyped DEF Later
  <2>2. /\ until' \in Nat
        /\ p.state = "VALID" => until' <= p.deadline /\ until' <= Midnight(clock)
        /\ clock >= until' <=> clock >= limit
    BY <1>3, <1>5, <2>1, Held, WaitUntilFacts
  <2>3. Loops /\ queue' = queue
    BY <1>5 DEF Loops, NoFault
  <2>4. AwakeInv'
    BY <1>5, <2>2, <2>3 DEF AwakeInv, Loops, Midnight, Day
  <2>5. phase' \in Phases \ Ticking /\ phase \notin Ticking
    BY <1>1, <1>5 DEF Phases, Ticking
  <2>6. LoopTyped' /\ OutsideTyped' /\ AuthorityInv'
    <3>1. LoopTyped'
      BY <1>1, <2>2, <2>3, <2>5 DEF LoopTyped, Loops
    <3>2. OutsideTyped'
      BY <1>1, <2>3 DEF OutsideTyped, Loops
    <3>3. AuthorityInv'
      BY <1>1, <2>3 DEF AuthorityInv, Consistent, Loops
    <3> QED
      BY <3>1, <3>2, <3>3
  <2>7. Reasons' = (IF Len(queue) = 0 THEN One(clock' >= until') ELSE Len(queue))
                     + One(Late(p', clock'))
    BY <1>5, <2>3, <2>6, ReasonsThen
  <2>8. ~Late(p', clock') /\ (clock' >= until' <=> alarm)
    BY <1>3, <1>5, <2>1, <2>2, <2>3 DEF Loops
  <2>9. /\ One(Late(p', clock')) = 0
        /\ One(clock' >= until') = One(p.urgent \/ Late(p, clock) \/ alarm)
    BY <1>3, <1>5, <2>8 DEF One
  <2>10. One(p.urgent \/ Late(p, clock) \/ alarm) \in Nat
    BY OneFacts
  <2> HIDE DEF alarm
  <2>11. Reasons' <= Reasons
    BY <1>2, <2>7, <2>9, <2>10, Held
  <2> QED
    BY <2>2, <2>3, <2>4, <2>5, <2>11, Held, LoopStep
<1> QED
  BY <1>4, <1>5 DEF Sleep

\* A step of the loop that leaves the authority and does not wait.
LEMMA UnwaitingStep ==
  ASSUME IInv, Loops, phase \notin Ticking, phase' \in {"idle", "draining"}, until' \in Nat,
         queue' \in Seq(Items), Len(queue') <= QueueSize,
         phase' = "idle" =>
           Len(queue') + One(p.urgent \/ Late(p, clock) \/ lastTick + Heartbeat <= clock) <= Reasons,
         phase' = "draining" => 1 + Len(queue') + One(Late(p, clock)) <= Reasons
  PROVE  IInv'
<1>1. LoopTyped /\ OutsideTyped /\ AuthorityInv
  BY DEF IInv
<1>2. phase' \in Phases \ Ticking /\ phase' \notin {"waiting", "collecting"}
  BY DEF Phases, Ticking
<1>3. AwakeInv'
  BY <1>2 DEF AwakeInv
<1>4. LoopTyped' /\ OutsideTyped' /\ AuthorityInv'
  <2>1. LoopTyped'
    BY <1>1, <1>2 DEF LoopTyped, Loops
  <2>2. OutsideTyped'
    BY <1>1 DEF OutsideTyped, Loops
  <2>3. AuthorityInv'
    BY <1>1 DEF AuthorityInv, Consistent, Loops
  <2> QED
    BY <2>1, <2>2, <2>3
<1>5. /\ Late(p', clock') = Late(p, clock) /\ p'.urgent = p.urgent
      /\ (lastTick' + Heartbeat <= clock') = (lastTick + Heartbeat <= clock)
  BY DEF Loops
<1>6. CASE phase' = "idle"
  <2>1. Reasons' = Len(queue')
                     + One(p'.urgent \/ Late(p', clock') \/ lastTick' + Heartbeat <= clock')
    BY <1>4, <1>6, ReasonsThen
  <2>2. Reasons' <= Reasons
    BY <1>5, <1>6, <2>1
  <2> QED
    BY <1>2, <1>3, <2>2, LoopStep
<1>7. CASE phase' = "draining"
  <2>1. Reasons' = 1 + Len(queue') + One(Late(p', clock'))
    BY <1>4, <1>7, ReasonsThen
  <2>2. Reasons' <= Reasons
    BY <1>5, <1>7, <2>1
  <2> QED
    BY <1>2, <1>3, <2>2, LoopStep
<1> QED
  BY <1>6, <1>7

LEMMA TakeItemStep == ASSUME IInv, TakeItem PROVE IInv'
<1>1. phase = "waiting" /\ queue # <<>> /\ LoopTyped /\ OutsideTyped /\ AuthorityInv
  BY DEF TakeItem, IInv
<1>2. /\ Tail(queue) \in Seq(Items) /\ Len(Tail(queue)) = Len(queue) - 1
      /\ Len(queue) \in Nat \ {0}
  BY <1>1, Held, TailFacts
<1>3. Reasons = Len(queue) + One(Late(p, clock))
  BY <1>1, <1>2, ReasonsNow
<1>4. One(Late(p, clock)) \in Nat
  BY OneFacts
<1>5. Len(Tail(queue)) <= QueueSize /\ Len(Tail(queue)) + One(Late(p, clock)) < Reasons
  BY <1>2, <1>3, <1>4, Held, ConstantsTyped
<1>6. phase \notin Ticking
  BY <1>1 DEF Ticking
<1>7. CASE StartTick([p EXCEPT !.urgent = IF Head(queue) = "provider" THEN FALSE ELSE @], Tail(queue))
  <2> DEFINE q == [p EXCEPT !.urgent = IF Head(queue) = "provider" THEN FALSE ELSE p.urgent]
  <2>1. /\ q \in Authorities /\ q.source = p.source /\ q.deadline = p.deadline
        /\ q.evidence = p.evidence /\ q.highWater = p.highWater /\ q.wake = p.wake
        /\ q.lost = p.lost /\ q.state = p.state /\ q.baselined = p.baselined /\ q.day = p.day
        /\ q.verified = p.verified
    BY Held DEF Authorities
  <2>2. StartTick(q, Tail(queue))
    BY <1>7
  <2> HIDE DEF q
  <2>3. Consistent(q)
    BY <2>1, Held DEF Consistent
  <2>4. Late(q, clock) = Late(p, clock)
    BY <2>1 DEF Late
  <2> QED
    BY <1>2, <1>5, <2>1, <2>2, <2>3, <2>4, Held, StartTickStep
<1>8. CASE /\ clock - lastTick < Heartbeat /\ phase' = "idle" /\ queue' = Tail(queue)
           /\ UNCHANGED <<clock, world, channel, p, until, lastTick, s, ceiling, history>>
           /\ NoFault
  <2>1. Loops /\ until' = until
    BY <1>8 DEF Loops, NoFault
  <2>2. ~(lastTick + Heartbeat <= clock)
    BY <1>8, Held, ConstantsTyped
  <2>3. One(p.urgent \/ Late(p, clock) \/ lastTick + Heartbeat <= clock) \in {0, 1}
    BY OneFacts
  <2>4. Len(queue') + One(p.urgent \/ Late(p, clock) \/ lastTick + Heartbeat <= clock) <= Reasons
    BY <1>2, <1>3, <1>4, <1>8, <2>3
  <2> QED
    BY <1>2, <1>5, <1>6, <1>8, <2>1, <2>4, Held, UnwaitingStep
<1>9. CASE /\ phase' = "draining" /\ until' = clock + Debounce /\ queue' = Tail(queue)
           /\ UNCHANGED <<clock, world, channel, p, lastTick, s, ceiling, history>>
           /\ NoFault
  <2>1. Loops
    BY <1>9 DEF Loops, NoFault
  <2>2. until' \in Nat
    BY <1>9, Held, ConstantsTyped
  <2>3. 1 + Len(queue') + One(Late(p, clock)) <= Reasons
    BY <1>2, <1>3, <1>4, <1>9
  <2> QED
    BY <1>2, <1>5, <1>6, <1>9, <2>1, <2>2, <2>3, UnwaitingStep
<1> QED
  BY <1>7, <1>8, <1>9 DEF TakeItem

LEMMA DrainStep == ASSUME IInv, Drain PROVE IInv'
<1>1. phase = "draining" /\ LoopTyped /\ OutsideTyped /\ AuthorityInv
  BY DEF Drain, IInv
<1>2. Reasons = 1 + Len(queue) + One(Late(p, clock)) /\ One(Late(p, clock)) \in Nat
  BY <1>1, ReasonsNow, OneFacts
<1>3. CASE StartTick(p, queue)
  <2>1. Len(queue) + One(Late(p, clock)) < Reasons
    BY <1>2, Held
  <2> QED
    BY <1>3, <2>1, Held, StartTickStep
<1>4. CASE StartTick(Woken(p), queue)
  <2>1. Len(queue) < Reasons
    BY <1>2, Held
  <2> QED
    BY <1>4, <2>1, WokenTick
<1>5. CASE /\ ~p.urgent /\ phase' = "collecting" /\ until' = WaitUntil(p, until)
           /\ UNCHANGED <<clock, world, channel, p, queue, lastTick, s, ceiling, history>>
           /\ NoFault
  <2>1. /\ until' \in Nat
        /\ p.state = "VALID" => until' <= p.deadline /\ until' <= Midnight(clock)
    BY <1>5, Held, WaitUntilFacts
  <2>2. Loops /\ queue' = queue
    BY <1>5 DEF Loops, NoFault
  <2>3. AwakeInv'
    BY <1>5, <2>1, <2>2 DEF AwakeInv, Loops, Midnight, Day
  <2>4. phase' \in Phases \ Ticking /\ phase \notin Ticking
    BY <1>1, <1>5 DEF Phases, Ticking
  <2>5. LoopTyped' /\ OutsideTyped' /\ AuthorityInv'
    <3>1. LoopTyped'
      BY <1>1, <2>1, <2>2, <2>4 DEF LoopTyped, Loops
    <3>2. OutsideTyped'
      BY <1>1, <2>2 DEF OutsideTyped, Loops
    <3>3. AuthorityInv'
      BY <1>1, <2>2 DEF AuthorityInv, Consistent, Loops
    <3> QED
      BY <3>1, <3>2, <3>3
  <2>6. Reasons' = 1 + Len(queue) + One(Late(p', clock'))
    BY <1>5, <2>2, <2>5, ReasonsThen
  <2>7. Late(p', clock') = Late(p, clock)
    BY <2>2 DEF Loops
  <2>8. Reasons' <= Reasons
    BY <1>2, <2>6, <2>7, Held
  <2> QED
    BY <2>1, <2>2, <2>3, <2>4, <2>8, Held, LoopStep
<1> QED
  BY <1>3, <1>4, <1>5 DEF Drain

LEMMA CollectStep == ASSUME IInv, Collect PROVE IInv'
<1>1. phase = "collecting" /\ queue # <<>> /\ LoopTyped /\ OutsideTyped /\ AuthorityInv
  BY DEF Collect, IInv
<1>2. /\ Tail(queue) \in Seq(Items) /\ Len(Tail(queue)) = Len(queue) - 1
      /\ Len(queue) \in Nat \ {0}
  BY <1>1, Held, TailFacts
<1>3. Reasons = 1 + Len(queue) + One(Late(p, clock)) /\ One(Late(p, clock)) \in Nat
  BY <1>1, ReasonsNow, OneFacts
<1>4. /\ Len(Tail(queue)) <= QueueSize /\ Len(Tail(queue)) + One(Late(p, clock)) < Reasons
      /\ 1 + Len(Tail(queue)) + One(Late(p, clock)) <= Reasons
  BY <1>2, <1>3, Held, ConstantsTyped
<1>5. CASE StartTick(p, Tail(queue))
  BY <1>2, <1>4, <1>5, Held, StartTickStep
<1>6. CASE /\ phase' = "draining" /\ queue' = Tail(queue)
           /\ UNCHANGED <<clock, world, channel, p, until, lastTick, s, ceiling, history>>
           /\ NoFault
  <2>1. Loops /\ until' = until /\ phase \notin Ticking
    BY <1>1, <1>6 DEF Loops, NoFault, Ticking
  <2> QED
    BY <1>2, <1>4, <1>6, <2>1, Held, UnwaitingStep
<1> QED
  BY <1>5, <1>6 DEF Collect

LEMMA TimeoutStep == ASSUME IInv, Timeout PROVE IInv'
<1>1. /\ phase \in {"waiting", "collecting"} /\ queue = <<>> /\ clock >= until
      /\ StartTick(p, queue) /\ LoopTyped /\ OutsideTyped /\ AuthorityInv
  BY DEF Timeout, IInv
<1>2. Len(queue) = 0 /\ One(Late(p, clock)) \in Nat
  BY <1>1, OneFacts
<1>3. Reasons = 1 + One(Late(p, clock))
  <2>1. CASE phase = "waiting"
    <3>1. Reasons = One(clock >= until) + One(Late(p, clock))
      BY <1>1, <1>2, <2>1, ReasonsNow
    <3>2. One(clock >= until) = 1
      BY <1>1 DEF One
    <3> QED
      BY <3>1, <3>2
  <2>2. CASE phase = "collecting"
    <3>1. Reasons = 1 + Len(queue) + One(Late(p, clock))
      BY <1>1, <2>2, ReasonsNow
    <3> QED
      BY <1>2, <3>1
  <2> QED
    BY <1>1, <2>1, <2>2
<1>4. Len(queue) + One(Late(p, clock)) < Reasons
  BY <1>2, <1>3
<1> QED
  BY <1>1, <1>4, Held, StartTickStep

-----------------------------------------------------------------------------
(* The tick                                                                *)

LEMMA FinishReadStep == ASSUME IInv, FinishRead PROVE IInv'
<1>1. OutsideTyped /\ LoopTyped /\ AuthorityInv /\ TickInv /\ SuccessInv /\ Bounded
  BY DEF IInv
<1>2. /\ phase = "reading" /\ phase' \in {"read", "idle"} /\ faults' \in Nat
      /\ UNCHANGED <<clock, poll, forecast, configured, wire, connected, p, queue, ceiling,
                     success, promise, ticks, until>>
  BY <1>1, FaultTyped DEF FinishRead, Finish
<1>3. /\ phase' = "read" => /\ s' \in Snapshots /\ s'.continuity = s.continuity
                            /\ s'.polled = poll.at /\ lastTick' = lastTick
      /\ phase' = "idle" => s' \in Snapshots /\ lastTick' = clock
  <2>1. CASE /\ phase' = "read" /\ UNCHANGED lastTick
             /\ \E sun \in BOOLEAN :
                  s' = [continuity |-> s.continuity, polled |-> poll.at, next |-> poll.next,
                        version |-> forecast.version, day |-> forecast.day,
                        ok |-> forecast.ok, sun |-> sun]
    BY <1>1, <2>1 DEF OutsideTyped, LoopTyped, Snapshots, Polls, Forecasts
  <2>2. CASE Finish
    BY <2>2, NothingTyped DEF Finish
  <2> QED
    BY <2>1, <2>2 DEF FinishRead
<1>4. OutsideTyped'
  BY <1>1, <1>2 DEF OutsideTyped
<1>5. LoopTyped'
  <2>1. lastTick' \in Times /\ s' \in Snapshots /\ phase' \in Phases
    BY <1>1, <1>2, <1>3 DEF LoopTyped, OutsideTyped, Phases
  <2> QED
    BY <1>1, <1>2, <2>1 DEF LoopTyped
<1>6. AuthorityInv'
  BY <1>1, <1>2 DEF AuthorityInv, Consistent
<1>7. TickInv' /\ AwakeInv' /\ Calm'
  BY <1>1, <1>2, <1>3 DEF TickInv, AwakeInv, Calm, Ticking
<1>8. SuccessInv'
  <2>1. poll.at \in Nat
    BY <1>1, InstantsTyped DEF OutsideTyped, Polls
  <2> QED
    BY <1>1, <1>2, <1>3, <2>1 DEF SuccessInv
<1>9. Bounded'
  <2>1. Reasons = Len(queue) + One(p.urgent) + One(Late(p, clock)) /\ Reasons \in Nat
    BY <1>1, <1>2, ReasonsNow DEF Ticking
  <2>2. Reasons' \in Nat
    BY <1>4, <1>5, <1>6, ReasonsThen
  <2>3. Late(p', clock') = Late(p, clock) /\ p'.urgent = p.urgent /\ queue' = queue
    BY <1>2 DEF Late
  <2>4. CASE phase' = "read"
    <3>1. Reasons' = Len(queue') + One(p'.urgent) + One(Late(p', clock'))
      BY <1>4, <1>5, <1>6, <2>4, ReasonsThen DEF Ticking
    <3>2. Reasons' = Reasons
      BY <2>1, <2>3, <3>1
    <3> QED
      BY <1>1, <1>2, <2>1, <3>2, NoMoreReasons
  <2>5. CASE phase' = "idle"
    <3>1. Reasons' = Len(queue')
                       + One(p'.urgent \/ Late(p', clock') \/ lastTick' + Heartbeat <= clock')
      BY <1>4, <1>5, <1>6, <2>5, ReasonsThen
    <3>2. ~(lastTick' + Heartbeat <= clock')
      BY <1>2, <1>3, <2>5, Held, ConstantsTyped
    <3>3. One(p'.urgent \/ Late(p', clock') \/ lastTick' + Heartbeat <= clock')
            <= One(p.urgent) + One(Late(p, clock))
      BY <2>3, <3>2 DEF One
    <3>4. One(p'.urgent \/ Late(p', clock') \/ lastTick' + Heartbeat <= clock') \in Nat
          /\ One(p.urgent) \in Nat /\ One(Late(p, clock)) \in Nat
      BY OneFacts
    <3>5. Reasons' <= Reasons
      BY <2>1, <2>3, <3>1, <3>3, <3>4, Held
    <3> QED
      BY <1>1, <1>2, <2>1, <2>2, <3>5, NoMoreReasons
  <2> QED
    BY <1>2, <2>4, <2>5
<1> QED
  BY <1>4, <1>5, <1>6, <1>7, <1>8, <1>9 DEF IInv

\* The decision keeps every cycle's account of the promise.
LEMMA DecideStep == ASSUME IInv, Decide PROVE IInv'
<1>1. OutsideTyped /\ LoopTyped /\ AuthorityInv /\ TickInv /\ SuccessInv /\ Bounded
  BY DEF IInv
<1> DEFINE u == Updated(p, s, clock)
           r == Current(u, s, clock)
<1>2. /\ phase = "read" /\ phase' = "decided"
      /\ p' = Settled(r) /\ queue' = (IF r.wake THEN Put(queue, "provider") ELSE queue)
      /\ ceiling' = (IF Granted(u, s) THEN "planned" ELSE "none")
      /\ success' = (success /\ ~r.lost)
      /\ promise' = (IF r.lost \/ ~r.baselined THEN None
                     ELSE IF promise = None
                          \/ (r.state = "VALID" /\ clock >= promise /\ s.polled >= promise)
                       THEN s.next
                     ELSE IF s.next \in 1..promise THEN s.next ELSE promise)
      /\ UNCHANGED <<clock, poll, forecast, configured, wire, connected, until, lastTick, s, ticks>>
      /\ faults' = faults
  BY Zenon DEF Decide, Becomes, Settled, EpochOfRead, NoFault
<1>3. /\ s \in Snapshots /\ s.next \in Instants /\ s.polled \in Nat /\ s.next \in Nat
      /\ promise \in Nat /\ promise \in Instants /\ success \in BOOLEAN
  BY <1>1, InstantsTyped DEF LoopTyped, Snapshots
<1>4. /\ \/ Gone(p, r) /\ r.wake = p.wake /\ r.urgent = p.urgent
         \/ Passed(p, s, clock, r)
         \/ Coherent(p, s, clock) /\ Judges(p, s, clock, r)
      /\ Granted(u, s) => Coherent(p, s, clock) /\ Judges(p, s, clock, r)
  BY <1>3, Held, DecidedFacts
<1> HIDE DEF u, r
<1>5. OutsideTyped'
  BY <1>1, <1>2 DEF OutsideTyped
<1>6. AwakeInv' /\ phase' \in Phases /\ phase' \in Ticking /\ phase \in Ticking
  BY <1>2 DEF AwakeInv, Phases, Ticking
<1>7. /\ r \in Authorities /\ Consistent(r) /\ r.source = configured /\ r.wake = FALSE
      /\ r.urgent = p.urgent /\ ~Late(r, clock)
      /\ r.deadline = promise' /\ (r.evidence # NoEvidence => success')
  <2>1. CASE Gone(p, r) /\ r.wake = p.wake /\ r.urgent = p.urgent
    BY <1>2, <2>1, Held DEF Gone, Late, Authorities
  <2>2. CASE Passed(p, s, clock, r)
    <3>1. /\ r \in Authorities /\ r.source = p.source /\ r.wake = p.wake /\ r.lost = p.lost
          /\ r.urgent = p.urgent /\ r.state = "UNVERIFIED" /\ r.deadline = p.deadline
          /\ r.evidence = p.evidence /\ r.baselined = p.baselined /\ r.day = p.day
          /\ r.verified = p.verified
      BY <2>2, Held DEF Passed, Authorities, States
    <3>2. ~p.baselined
      BY <1>1, <1>6, <2>2 DEF Passed, TickInv
    <3>3. p.deadline = 0 /\ p.evidence = NoEvidence
      BY <3>2, Held DEF Consistent
    <3>4. Consistent(r)
      BY <3>1, Held DEF Consistent
    <3> QED
      BY <1>2, <3>1, <3>2, <3>3, <3>4, Held DEF Late, Authorities
  <2>3. CASE Coherent(p, s, clock) /\ Judges(p, s, clock, r)
    <3>1. /\ r \in Authorities /\ Consistent(r) /\ r.source = configured /\ r.wake = p.wake
          /\ r.lost = p.lost /\ r.urgent = p.urgent
      BY <2>3 DEF Judges, Coherent
    <3>2. r.deadline \in Nat /\ clock \in Nat
      BY <3>1, Held, InstantsTyped DEF Authorities
    <3>3. ~Late(r, clock)
      BY <2>3, <3>2 DEF Judges, Late
    <3>4. r.deadline = promise'
      <4>1. CASE ~r.baselined
        BY <1>2, <3>1, <4>1 DEF Consistent
      <4>2. CASE r.baselined
        <5>1. r.deadline = IF Met(p, s, clock, r) THEN s.next ELSE Nearer(promise, s.next)
          BY <2>3, <4>2, Held DEF Judges
        <5>2. promise # 0 =>
                Nearer(promise, s.next) = IF s.next \in 1..promise THEN s.next ELSE promise
          BY <1>3 DEF Nearer
        <5>3. Met(p, s, clock, r) <=>
                promise = None \/ (r.state = "VALID" /\ clock >= promise /\ s.polled >= promise)
          BY Held DEF Met
        <5>4. promise' = IF promise = None
                            \/ (r.state = "VALID" /\ clock >= promise /\ s.polled >= promise)
                         THEN s.next
                         ELSE IF s.next \in 1..promise THEN s.next ELSE promise
          BY <1>2, <3>1, <4>2, Held, Zenon
        <5> QED
          BY <5>1, <5>2, <5>3, <5>4
      <4> QED
        BY <4>1, <4>2
    <3>5. r.evidence # NoEvidence => success'
      <4>1. r.evidence # NoEvidence => p.evidence # NoEvidence \/ Advanced(p, s)
        BY <2>3 DEF Judges
      <4>2. p.highWater \in Nat /\ p.same
        BY <2>3, Held, InstantsTyped DEF Authorities, Coherent
      <4>3. Advanced(p, s) => success
        BY <1>1, <1>2, <1>3, <4>2 DEF Advanced, SuccessInv
      <4>4. p.evidence # NoEvidence => success
        BY <1>1 DEF SuccessInv
      <4> QED
        BY <1>2, <3>1, <4>1, <4>3, <4>4, Held
    <3> QED
      BY <3>1, <3>3, <3>4, <3>5, Held DEF Authorities
  <2> QED
    BY <1>4, <2>1, <2>2, <2>3
<1>8. /\ p' \in Authorities /\ ~p'.wake /\ ~p'.lost /\ Consistent(p')
      /\ p'.source = r.source /\ p'.state = r.state /\ p'.highWater = r.highWater
      /\ p'.deadline = r.deadline /\ p'.day = r.day
      /\ p'.evidence = r.evidence /\ p'.baselined = r.baselined /\ p'.urgent = r.urgent
      /\ p'.same = r.same
  BY <1>2, <1>7, SettledFacts
<1>9. queue' = queue
  BY <1>2, <1>7
<1>10. AuthorityInv'
  BY <1>2, <1>7, <1>8 DEF AuthorityInv
<1>11. LoopTyped'
  <2>1. success' \in BOOLEAN
    BY <1>2
  <2>2. promise' \in Instants
    BY <1>7 DEF Authorities
  <2>3. ceiling' \in {"none", "planned", "commanded"}
    BY <1>2
  <2> QED
    BY <1>1, <1>2, <1>6, <1>9, <2>1, <2>2, <2>3 DEF LoopTyped
<1>12. TickInv'
  <2>1. CASE Gone(p, r)
    BY <1>8, <2>1 DEF Gone, TickInv
  <2>2. CASE Passed(p, s, clock, r)
    <3>1. r.same = p.same /\ r.baselined = p.baselined
      BY <2>2, Held DEF Passed, Authorities
    <3> QED
      BY <1>1, <1>6, <1>8, <2>2, <3>1 DEF Passed, TickInv
  <2>3. CASE Coherent(p, s, clock) /\ Judges(p, s, clock, r)
    <3>1. r.same /\ p.same /\ s.continuity
      BY <2>3 DEF Coherent, Judges
    <3>2. connected
      BY <1>1, <1>6, <3>1 DEF TickInv
    <3>3. s.next # 0 => r.deadline <= s.next
      BY <1>3, <2>3 DEF Judges
    <3> QED
      BY <1>2, <1>8, <3>1, <3>2, <3>3 DEF TickInv
  <2> QED
    BY <1>4, <2>1, <2>2, <2>3
<1>13. SuccessInv'
  <2>1. ~success' => (p'.highWater # None => poll'.at <= p'.highWater)
    <3>1. CASE Gone(p, r)
      BY <1>8, <3>1 DEF Gone
    <3>2. CASE Passed(p, s, clock, r)
      <4>1. r.highWater = p.highWater /\ r.lost = p.lost
        BY <3>2, Held DEF Passed, Authorities
      <4> QED
        BY <1>1, <1>2, <1>8, <4>1, Held DEF SuccessInv
    <3>3. CASE Coherent(p, s, clock) /\ Judges(p, s, clock, r)
      <4>1. r.highWater = s.polled /\ r.lost = p.lost /\ p.same
        BY <3>3 DEF Coherent, Judges
      <4> QED
        BY <1>1, <1>2, <1>8, <4>1, Held DEF SuccessInv
    <3> QED
      BY <1>4, <3>1, <3>2, <3>3
  <2> QED
    BY <1>2, <1>7, <1>8, <2>1 DEF SuccessInv
<1>14. Bounded'
  <2>1. Reasons = Len(queue) + One(p.urgent) + One(Late(p, clock)) /\ Reasons \in Nat
    BY <1>1, <1>6, ReasonsNow
  <2>2. Reasons' = Len(queue') + One(p'.urgent) + One(Late(p', clock')) /\ Reasons' \in Nat
    BY <1>5, <1>6, <1>10, <1>11, ReasonsThen
  <2>3. ~Late(p', clock') /\ p'.urgent = p.urgent
    BY <1>2, <1>7, <1>8 DEF Late
  <2>4. One(Late(p', clock')) = 0 /\ One(p.urgent) \in Nat /\ One(Late(p, clock)) \in Nat
    BY <2>3, OneFacts
  <2>5. Reasons' <= Reasons
    BY <1>9, <2>1, <2>2, <2>3, <2>4, Held
  <2> QED
    BY <1>1, <1>2, <2>1, <2>2, <2>5, NoMoreReasons
<1>15. Calm'
  <2>1. CASE Granted(u, s)
    <3>1. Coherent(p, s, clock) /\ Judges(p, s, clock, r)
      BY <1>4, <2>1
    <3>2. r.same /\ s.continuity /\ r.day \in {0, Day(clock)}
      BY <3>1 DEF Coherent, Judges
    <3> QED
      BY <1>2, <1>8, <3>2 DEF Calm, Day
  <2>2. CASE ~Granted(u, s)
    BY <1>2, <2>2 DEF Calm
  <2> QED
    BY <2>1, <2>2
<1> QED
  BY <1>5, <1>6, <1>10, <1>11, <1>12, <1>13, <1>14, <1>15 DEF IInv

\* What the recheck of a dispatch leaves of the authority of the decision.
LEMMA RecheckFacts ==
  ASSUME IInv, phase = "decided"
  PROVE  LET r == AuthorityAtDispatch(p, s, clock)
         IN \/ /\ ~Fits(p, s, clock) /\ Gone(p, r) /\ r.wake
            \/ /\ Fits(p, s, clock)
               /\ r \in Authorities /\ Consistent(r) /\ r.source = configured
               /\ ~r.wake /\ ~r.lost /\ r.urgent = p.urgent /\ r.highWater = p.highWater
               /\ r.deadline = p.deadline /\ r.evidence \in {p.evidence, NoEvidence}
               /\ r.same = p.same /\ r.verified = p.verified
               /\ r.state = "VALID" => p.state = "VALID"
               /\ Applies(p, s, clock) /\ r.state = "VALID" =>
                    Holds(p, s, clock) /\ clock < p.deadline
<1> DEFINE r == AuthorityAtDispatch(p, s, clock)
<1>1. r = Current(p, s, clock)
  BY DEF AuthorityAtDispatch
<1>2. s \in Snapshots /\ TickInv
  BY DEF IInv, LoopTyped
<1>3. CASE ~Fits(p, s, clock)
  <2>1. r = Retired(p, TRUE)
    BY <1>1, <1>2, <1>3, Held, CurrentStays
  <2>2. Gone(p, Retired(p, TRUE)) /\ Retired(p, TRUE).wake
    BY Held, RetiredGone
  <2> HIDE DEF r
  <2>3. Gone(p, r) /\ r.wake
    BY <2>1, <2>2
  <2> QED
    BY <1>3, <2>3 DEF r
<1>4. CASE Fits(p, s, clock) /\ ~Applies(p, s, clock)
  <2>1. r = p
    BY <1>1, <1>2, <1>4, Held, CurrentStays
  <2> HIDE DEF r
  <2>2. /\ r \in Authorities /\ Consistent(r) /\ r.source = configured /\ ~r.wake /\ ~r.lost
    BY <2>1, Held
  <2> QED
    BY <1>4, <2>1, <2>2 DEF r
<1>5. CASE Fits(p, s, clock) /\ Applies(p, s, clock)
  <2>1. /\ r \in Authorities
        /\ r.source = p.source /\ r.highWater = p.highWater /\ r.verified = p.verified
        /\ r.urgent = p.urgent /\ r.same = p.same /\ r.wake = p.wake /\ r.lost = p.lost
        /\ r.deadline = Nearer(p.deadline, s.next)
        /\ r.evidence \in {p.evidence, NoEvidence}
        /\ r.state = "VALID" =>
             /\ p.state = "VALID" /\ Holds(p, s, clock) /\ (r.deadline # 0 => clock < r.deadline)
    BY <1>1, <1>2, <1>5, Held, CurrentFacts
  <2>2. Consistent(r)
    BY <1>1, <1>2, <1>5, Held, CurrentConsistent
  <2>3. Nearer(p.deadline, s.next) = p.deadline
    <3>1. p.deadline \in Nat /\ s.next \in Nat /\ p.same
      BY <1>2, <1>5, Held, SnapshotTyped DEF Applies
    <3> QED
      BY <1>2, <3>1 DEF TickInv, Ticking, Nearer
  <2>4. p.state = "VALID" => p.deadline # 0
    BY Held DEF Consistent
  <2> HIDE DEF r
  <2> QED
    BY <1>5, <2>1, <2>2, <2>3, <2>4, Held DEF r
<1> QED
  BY <1>3, <1>4, <1>5 DEF Applies

LEMMA DispatchStep == ASSUME IInv, Dispatch PROVE IInv'
<1>1. OutsideTyped /\ LoopTyped /\ AuthorityInv /\ TickInv /\ SuccessInv /\ Bounded /\ Calm
  BY DEF IInv
<1> DEFINE r == AuthorityAtDispatch(p, s, clock)
<1>2. /\ phase = "decided" /\ phase' = "idle" /\ lastTick' = clock /\ s' = NoSnapshot
      /\ UNCHANGED <<clock, poll, forecast, configured, wire, connected, ticks, until>>
      /\ faults' = faults
  BY DEF Dispatch, Finish, NoFault
<1>3. \/ /\ ceiling = "planned" /\ p' = Settled(r)
         /\ queue' = (IF r.wake THEN Put(queue, "provider") ELSE queue)
         /\ ceiling' \in {"commanded", "none"}
         /\ success' = (success /\ ~r.lost)
         /\ promise' = (IF r.lost THEN None ELSE promise)
      \/ UNCHANGED <<p, queue, ceiling, success, promise>>
  BY Zenon DEF Dispatch, Becomes, Settled
<1>4. \/ /\ ~Fits(p, s, clock) /\ Gone(p, r) /\ r.wake
      \/ /\ r \in Authorities /\ Consistent(r) /\ r.source = configured
         /\ ~r.wake /\ ~r.lost /\ r.urgent = p.urgent /\ r.highWater = p.highWater
         /\ r.deadline = p.deadline /\ r.evidence \in {p.evidence, NoEvidence}
         /\ r.state = "VALID" => p.state = "VALID"
  BY <1>2, RecheckFacts
<1> HIDE DEF r
<1>5. OutsideTyped'
  BY <1>1, <1>2 DEF OutsideTyped
<1>6. AwakeInv' /\ Calm' /\ TickInv' /\ phase' \in Phases
  BY <1>2 DEF AwakeInv, Calm, TickInv, Phases, Ticking
<1>7. s' \in Snapshots /\ lastTick' \in Times
  BY <1>1, <1>2, NothingTyped DEF OutsideTyped
<1>8. CASE Gone(p, r) /\ r.wake /\ ~Fits(p, s, clock) /\ ceiling = "planned" /\ p' = Settled(r)
           /\ queue' = (IF r.wake THEN Put(queue, "provider") ELSE queue)
           /\ ceiling' \in {"commanded", "none"}
           /\ success' = (success /\ ~r.lost)
           /\ promise' = (IF r.lost THEN None ELSE promise)
  <2>1. queue' \in Seq(Items) /\ Len(queue') <= QueueSize
    <3>1. "provider" \in Items
      BY DEF Items
    <3> QED
      BY <1>8, <3>1, Held, PutFacts
  <2>2. success' = FALSE /\ promise' = 0
    BY <1>8 DEF Gone
  <2>3. LoopTyped'
    BY <1>1, <1>2, <1>6, <1>7, <1>8, <2>1, <2>2, InstantsTyped DEF LoopTyped
  <2>4. AuthorityInv' /\ SuccessInv'
    <3>1. p.source = configured'
      BY <1>2, Held
    <3> QED
      BY <1>6, <1>8, <2>2, <3>1, Held, Lost
  <2>5. ticks' = 0
    <3>1. ticks \in Nat
      BY <1>1 DEF LoopTyped
    <3>2. ~(ticks > 0)
      BY <1>1, <1>2, <1>8 DEF Calm, Fits
    <3> QED
      BY <1>2, <3>1, <3>2
  <2>6. Bounded'
    BY <1>5, <2>3, <2>4, <2>5, Outward
  <2> QED
    BY <1>5, <1>6, <2>3, <2>4, <2>6 DEF IInv
\* The authority stays, with no more evidence than it had.
<1> DEFINE Stays(q) ==
             /\ q \in Authorities /\ Consistent(q) /\ q.source = configured
             /\ ~q.wake /\ ~q.lost /\ q.urgent = p.urgent /\ q.highWater = p.highWater
             /\ q.deadline = p.deadline /\ q.evidence \in {p.evidence, NoEvidence}
             /\ q.state = "VALID" => p.state = "VALID"
<1>9. ASSUME Stays(p'), queue' = queue, ceiling' \in {"none", "planned", "commanded"},
             success' = success, promise' = promise
      PROVE  IInv'
  <2>1. LoopTyped'
    BY <1>1, <1>2, <1>6, <1>7, <1>9 DEF LoopTyped
  <2>2. AuthorityInv'
    BY <1>2, <1>9, Held DEF AuthorityInv
  <2>3. SuccessInv'
    BY <1>1, <1>2, <1>9 DEF SuccessInv
  <2>4. Bounded'
    <3>1. Reasons = Len(queue) + One(p.urgent) + One(Late(p, clock)) /\ Reasons \in Nat
      BY <1>1, <1>2, ReasonsNow DEF Ticking
    <3>2. Reasons' = Len(queue')
                       + One(p'.urgent \/ Late(p', clock') \/ lastTick' + Heartbeat <= clock')
          /\ Reasons' \in Nat
      BY <1>2, <1>5, <2>1, <2>2, ReasonsThen
    <3>3. ~(lastTick' + Heartbeat <= clock')
      BY <1>2, Held, ConstantsTyped
    <3>4. p'.urgent = p.urgent /\ (Late(p', clock') => Late(p, clock))
      BY <1>2, <1>9 DEF Late
    <3>5. One(p'.urgent \/ Late(p', clock') \/ lastTick' + Heartbeat <= clock')
            <= One(p.urgent) + One(Late(p, clock))
      BY <3>3, <3>4 DEF One
    <3>6. One(p'.urgent \/ Late(p', clock') \/ lastTick' + Heartbeat <= clock') \in Nat
          /\ One(p.urgent) \in Nat /\ One(Late(p, clock)) \in Nat
      BY OneFacts
    <3>7. Reasons' <= Reasons
      BY <1>9, <3>1, <3>2, <3>5, <3>6, Held
    <3> QED
      BY <1>1, <1>2, <3>1, <3>2, <3>7, NoMoreReasons
  <2> QED
    BY <1>5, <1>6, <2>1, <2>2, <2>3, <2>4 DEF IInv
<1>10. CASE /\ Stays(r) /\ p' = Settled(r)
            /\ queue' = (IF r.wake THEN Put(queue, "provider") ELSE queue)
            /\ ceiling' \in {"commanded", "none"}
            /\ success' = (success /\ ~r.lost)
            /\ promise' = (IF r.lost THEN None ELSE promise)
  <2>1. Stays(p')
    BY <1>10, SettledFacts
  <2>2. queue' = queue /\ success' = success /\ promise' = promise
    <3>1. success \in BOOLEAN
      BY <1>1 DEF LoopTyped
    <3> QED
      BY <1>10, <3>1
  <2> HIDE DEF Stays
  <2> QED
    BY <1>9, <1>10, <2>1, <2>2
<1>11. CASE UNCHANGED <<p, queue, ceiling, success, promise>>
  <2>1. Stays(p')
    <3>1. Stays(p)
      BY Held
    <3> QED
      BY <1>11, <3>1
  <2>2. ceiling' \in {"none", "planned", "commanded"}
    BY <1>1, <1>11 DEF LoopTyped
  <2> HIDE DEF Stays
  <2> QED
    BY <1>9, <1>11, <2>1, <2>2
<1> QED
  BY <1>3, <1>4, <1>8, <1>10, <1>11

-----------------------------------------------------------------------------
(* The theorems                                                            *)

LEMMA InitIInv == Init => IInv
<1> SUFFICES ASSUME Init PROVE IInv
  OBVIOUS
<1> USE DEF Init
<1>1. 1 \in Times /\ 1 \in Instants /\ 1 + Interval \in Instants
  BY ConstantsTyped, InstantsTyped
<1>2. p \in Authorities /\ p = Fresh(1)
  BY NothingTyped
<1>3. /\ p.source = 1 /\ p.state = "UNVERIFIED" /\ p.highWater = 0 /\ p.evidence = NoEvidence
      /\ p.deadline = 0 /\ p.day = 0 /\ p.baselined = FALSE /\ p.urgent = FALSE
      /\ p.same = FALSE /\ p.wake = FALSE /\ p.lost = FALSE
  BY <1>2 DEF Fresh
<1>4. OutsideTyped
  <2>1. wire \in Seq(Events) /\ Len(wire) <= WireSize
    BY ConstantsTyped
  <2>2. poll \in Polls /\ forecast \in Forecasts
    BY <1>1 DEF Polls, Forecasts
  <2> QED
    BY <1>1, <2>1, <2>2 DEF OutsideTyped
<1>5. LoopTyped
  <2>1. queue \in Seq(Items) /\ Len(queue) <= QueueSize
    BY ConstantsTyped
  <2> QED
    BY <1>1, <2>1, NothingTyped, InstantsTyped DEF LoopTyped, Phases
<1>6. AuthorityInv
  BY <1>2, <1>3 DEF AuthorityInv, Consistent
<1>7. TickInv /\ SuccessInv /\ AwakeInv /\ Calm
  BY <1>3 DEF TickInv, SuccessInv, AwakeInv, Calm, Ticking
<1>8. Bounded
  <2>1. Reasons = One(clock >= until) + One(Late(p, clock))
    BY <1>4, <1>5, <1>6, ReasonsNow
  <2>2. One(clock >= until) \in {0, 1} /\ One(Late(p, clock)) \in {0, 1}
    BY OneFacts
  <2> QED
    BY <2>1, <2>2, ConstantsTyped DEF Bounded
<1> QED
  BY <1>4, <1>5, <1>6, <1>7, <1>8 DEF IInv

LEMMA StutterStep == ASSUME IInv, UNCHANGED vars PROVE IInv'
<1> USE DEF vars
<1>1. OutsideTyped' /\ LoopTyped'
  BY DEF IInv, OutsideTyped, LoopTyped
<1>2. AuthorityInv'
  BY DEF IInv, AuthorityInv, Consistent
<1>3. TickInv' /\ SuccessInv' /\ AwakeInv' /\ Calm'
  BY DEF IInv, TickInv, SuccessInv, AwakeInv, Calm, Midnight, Day
<1>4. Bounded'
  <2>1. Reasons' = Reasons
    BY DEF Reasons, Late
  <2> QED
    BY <2>1 DEF IInv, Bounded
<1> QED
  BY <1>1, <1>2, <1>3, <1>4 DEF IInv

LEMMA NextIInv == IInv /\ [Next]_vars => IInv'
<1> SUFFICES ASSUME IInv, [Next]_vars PROVE IInv'
  OBVIOUS
<1>1. CASE Next
  BY <1>1, PublishPollStep, DisturbPollStep, PublishForecastStep, DisturbForecastStep, ReassignStep,
     NoiseStep, AdvanceStep, ConnectStep, DisconnectStep, DeliverStep, SleepStep, TakeItemStep,
     DrainStep, CollectStep, TimeoutStep, FinishReadStep, DecideStep, DispatchStep, Zenon DEF Next
<1> QED
  BY <1>1, StutterStep
LEMMA Invariance == Spec => []IInv
BY InitIInv, NextIInv, PTL DEF Spec

\* Every watermark, promise and queue of the provider's authority
\* keeps its type through every wait, event and cycle, and the trigger queue its
\* maxsize (app/optimizer.py:668-681, 845-850).
THEOREM TypesCorrect == Spec => []TypeOK
<1>1. IInv => TypeOK
  <2> SUFFICES ASSUME IInv PROVE TypeOK
    OBVIOUS
  <2>1. OutsideTyped /\ LoopTyped /\ p \in Authorities /\ ~p.wake /\ ~p.lost
    BY DEF IInv, AuthorityInv
  <2>2. p \in [source : {1, 2}, state : {"UNVERIFIED", "VALID", "EXPIRED"}, highWater : Instants,
               wsHighWater : Instants, verified : Instants, deadline : Instants, day : Instants,
               evidence : [polled : Instants, version : Instants, sunset : Instants],
               baselined : BOOLEAN, urgent : BOOLEAN, same : BOOLEAN, wake : {FALSE}, lost : {FALSE}]
    BY <2>1 DEF Authorities, States, Evidences
  <2> QED
    BY <2>1, <2>2 DEF TypeOK, OutsideTyped, LoopTyped
<1> QED
  BY <1>1, Invariance, PTL

\* A loop that sleeps with nothing queued is owed no wake, and its wait ends no
\* later than the authority does: a promise shortened while it slept is a wake in
\* the queue, and midnight ends every wait (app/optimizer.py:899-913, 1706-1718,
\* 1993-2006).
THEOREM WokenInTime == Spec => []WakesInTime
<1>1. IInv => WakesInTime
  BY DEF IInv, AwakeInv, WakesInTime, Asleep
<1> QED
  BY <1>1, Invariance, PTL

\* The loop cannot keep itself awake on an unusable source: while nothing happens
\* outside, each cycle consumes a queued item, a sticky wake or the end of the
\* authority, and none of them puts one back (app/optimizer.py:970-999, 1714-1718).
THEOREM CyclesBounded == Spec => []NoBusyLoop
<1>1. IInv => NoBusyLoop
  <2> SUFFICES ASSUME IInv PROVE NoBusyLoop
    OBVIOUS
  <2>1. Reasons \in Nat /\ ticks \in Nat
    BY ReasonsNow DEF IInv, LoopTyped
  <2>2. ticks + Reasons <= QueueSize + 2
    BY DEF IInv, Bounded
  <2>3. ticks <= QueueSize + 2
    BY <2>1, <2>2, ConstantsTyped
  <2> QED
    BY <2>3 DEF NoBusyLoop
<1> QED
  BY <1>1, Invariance, PTL

\* What is granted at a dispatch was proven, is current and belongs to the day.
Proven ==
  /\ success' /\ connected
  /\ clock < promise'
  /\ s.day = Day(clock) /\ Day(s.polled) = Day(clock)
LEMMA GrantProven ==
  ASSUME IInv, Dispatch, ceiling' = "commanded", ceiling # "commanded"
  PROVE  Proven
<1> DEFINE r == AuthorityAtDispatch(p, s, clock)
<1>1. /\ phase = "decided" /\ ceiling = "planned" /\ Granted(r, s)
      /\ success' = (success /\ ~r.lost)
      /\ promise' = (IF r.lost THEN None ELSE promise)
  BY Zenon DEF Dispatch
<1>2. s \in Snapshots /\ TickInv /\ SuccessInv
  BY DEF IInv, LoopTyped
<1>3. \/ /\ ~Fits(p, s, clock) /\ Gone(p, r)
      \/ /\ Fits(p, s, clock)
         /\ ~r.lost /\ r.same = p.same /\ r.verified = p.verified
         /\ r.state = "VALID" => p.state = "VALID"
         /\ Applies(p, s, clock) /\ r.state = "VALID" =>
              Holds(p, s, clock) /\ clock < p.deadline
  BY <1>1, RecheckFacts
<1> HIDE DEF r
<1>4. r.state = "VALID" /\ r.same /\ s.continuity /\ ~Older(r, s)
  BY <1>1 DEF Granted, SameEpoch
<1>5. /\ Fits(p, s, clock) /\ p.same /\ p.state = "VALID" /\ ~r.lost
      /\ Applies(p, s, clock)
  BY <1>3, <1>4 DEF Gone, Applies, Older
<1>6. Holds(p, s, clock) /\ clock < p.deadline
  BY <1>3, <1>4, <1>5
<1>7. /\ p.evidence # NoEvidence /\ p.day # 0 /\ Day(p.evidence.polled) = p.day
  BY <1>5, Held DEF Consistent
<1>8. p.day = Day(clock)
  BY <1>5, <1>7 DEF Fits
<1>9. p.evidence.polled = s.polled /\ s.day = Day(clock)
  BY <1>2, <1>6, EvidenceTyped DEF Holds, PayloadValid
<1>10. success /\ connected
  BY <1>1, <1>2, <1>4, <1>5, <1>7 DEF SuccessInv, TickInv, Ticking
<1> QED
  BY <1>1, <1>5, <1>6, <1>7, <1>8, <1>9, <1>10, Held DEF Proven

\* Only a dispatch commands.
LEMMA OnlyDispatchCommands ==
  ASSUME Next, ceiling' = "commanded", ceiling # "commanded"
  PROVE  Dispatch
<1>1. ASSUME NEW q, NEW items, StartTick(q, items) PROVE FALSE
  BY <1>1 DEF StartTick
<1>2. ~Sleep /\ ~TakeItem /\ ~Drain /\ ~Collect /\ ~Timeout
  BY <1>1, Zenon DEF Sleep, TakeItem, Drain, Collect, Timeout
<1>3. ~FinishRead /\ ~Decide
  BY DEF FinishRead, Decide
<1>4. ~Connect /\ ~Disconnect /\ ~Deliver /\ ~Reassign /\ ~Advance
  BY DEF Connect, Disconnect, Deliver, Reassign, Advance
<1>5. ASSUME NEW item, Noise(item) PROVE FALSE
  BY <1>5 DEF Noise
<1>6. ASSUME NEW new, NEW tracked, PollBecomes(new, tracked) PROVE FALSE
  BY <1>6 DEF PollBecomes, Outside
<1>7. ASSUME NEW new, ForecastBecomes(new) PROVE FALSE
  BY <1>7 DEF ForecastBecomes, Outside
<1>8. ~PublishPoll /\ ~DisturbPoll
  BY <1>6, Zenon DEF PublishPoll, DisturbPoll
<1>9. ~PublishForecast /\ ~DisturbForecast
  BY <1>7, Zenon DEF PublishForecast, DisturbForecast
<1> QED
  BY <1>2, <1>3, <1>4, <1>5, <1>8, <1>9, Zenon DEF Next

\* A ceiling is commanded from the forecast only with a success seen since the last
\* discontinuity, on a live connection, before every promise known and not met, and
\* with a forecast and a poll of the day (app/optimizer.py:1059-1103, 1129-1162).
THEOREM CommandsProven == Spec => CeilingProven
<1>1. IInv /\ [Next]_vars =>
        [ceiling' = "commanded" /\ ceiling # "commanded" =>
           /\ success' /\ connected
           /\ clock < promise'
           /\ s.day = Day(clock) /\ Day(s.polled) = Day(clock)]_vars
  <2> SUFFICES ASSUME IInv, Next, ceiling' = "commanded", ceiling # "commanded"
               PROVE  Proven
    BY DEF Proven
  <2> QED
    BY GrantProven, OnlyDispatchCommands
<1> QED
  BY <1>1, Invariance, PTL DEF Spec, CeilingProven
=============================================================================
