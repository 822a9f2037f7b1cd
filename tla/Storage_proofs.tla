--------------------------- MODULE Storage_proofs ---------------------------
(***************************************************************************)
(* Proofs about what stores the program's state.                           *)
(*                                                                         *)
(* DecisionTrace, for any rows, retention and faults: what the archive     *)
(* keeps, what a download sees of it and which gaps it is told of.         *)
(* StorageWorker, for any callers and any capacity: its counters, the slot *)
(* it keeps for the ledger, and that it implements the StorageService its  *)
(* callers rely on.                                                        *)
(***************************************************************************)
EXTENDS DecisionTrace, StorageWorker, FiniteSetTheorems, TLAPS

-----------------------------------------------------------------------------
(* What the operators of DecisionTrace return                              *)

LEMMA LeastIs ==
  ASSUME NEW S \in SUBSET Nat, S # {}
  PROVE  Min(S) \in S /\ \A n \in S : Min(S) <= n
<1> DEFINE R == OpToRel(<, Nat)
<1>1. IsWellFoundedOn(R, Nat)
  BY NatLessThanWellFounded DEF OpToRel
<1>2. PICK m \in S : \A n \in S : ~(<<n, m>> \in R)
  <2> HIDE DEF R
  <2> QED BY <1>1, WFMin
<1>3. ASSUME NEW n \in S PROVE m <= n
  <2>1. n < m => <<n, m>> \in R
    BY DEF OpToRel
  <2>2. ~(n < m)
    <3> HIDE DEF R
    <3> QED BY <1>2, <2>1
  <2> QED BY <2>2
<1> QED BY <1>3 DEF Min

\* A finite set of numbers can be listed in its order: each of its members is
\* known by how many do not exceed it.
LEMMA OrderExists ==
  ASSUME NEW S, \A x \in S : x \in Nat, IsFiniteSet(S)
  PROVE  /\ Cardinality(S) \in Nat
         /\ \E s \in [1..Cardinality(S) -> S] :
              /\ \A m, n \in 1..Cardinality(S) : m < n => s[m] < s[n]
              /\ \A x \in S : \E n \in 1..Cardinality(S) : s[n] = x
<1> DEFINE N    == Cardinality(S)
           B(x) == {y \in S : y <= x}
           f    == [x \in S |-> Cardinality(B(x))]
<1>1. N \in Nat
  BY FS_CardinalityType
<1>2. \A x \in S : IsFiniteSet(B(x)) /\ f[x] \in 1..N
  <2> SUFFICES ASSUME NEW x \in S PROVE IsFiniteSet(B(x)) /\ f[x] \in 1..N
    OBVIOUS
  <2>1. B(x) \in SUBSET S /\ x \in B(x)
    OBVIOUS
  <2>2. IsFiniteSet(B(x)) /\ Cardinality(B(x)) <= N
    BY <2>1, FS_Subset
  <2>3. Cardinality(B(x)) \in Nat /\ Cardinality(B(x)) # 0
    BY <2>1, <2>2, FS_CardinalityType, FS_EmptySet
  <2> QED BY <1>1, <2>2, <2>3
<1>3. \A x, y \in S : x < y => f[x] < f[y]
  <2> SUFFICES ASSUME NEW x \in S, NEW y \in S, x < y PROVE f[x] < f[y]
    OBVIOUS
  <2>1. B(x) \in SUBSET B(y) /\ y \in B(y) /\ y \notin B(x)
    <3>1. \A z \in S : z \in Nat /\ (z <= x => z <= y)
      OBVIOUS
    <3> QED BY <3>1
  <2>2. Cardinality(B(x)) <= Cardinality(B(y)) /\ Cardinality(B(x)) # Cardinality(B(y))
    BY <1>2, <2>1, FS_Subset
  <2> QED BY <1>2, <2>2
<1>4. f \in Injection(S, 1..N)
  <2> HIDE DEF N
  <2>1. f \in [S -> 1..N]
    BY <1>2
  <2>2. \A x, y \in S : f[x] = f[y] => x = y
    <3>1. \A x \in S : f[x] \in Nat
      <4>1. \A x \in S : f[x] \in 1..N
        BY <1>2
      <4> HIDE DEF f
      <4> QED BY <1>1, <4>1
    <3> HIDE DEF f
    <3>2. \A x, y \in S : x < y \/ y < x \/ x = y
      OBVIOUS
    <3> QED BY <1>3, <3>1, <3>2
  <2> QED BY <2>1, <2>2 DEF Injection, IsInjective
<1>5. f \in Surjection(S, 1..N)
  <2>1. IsFiniteSet(1..N) /\ Cardinality(1..N) = N
    BY <1>1, FS_Interval
  <2> HIDE DEF f
  <2> QED BY <1>4, <2>1, FS_Injection
<1> DEFINE s == [k \in 1..N |-> CHOOSE x \in S : f[x] = k]
<1>6. \A k \in 1..N : s[k] \in S /\ f[s[k]] = k
  <2>1. \A k \in 1..N : \E x \in S : f[x] = k
    <3> HIDE DEF f, N
    <3> QED BY <1>5 DEF Surjection
  <2> HIDE DEF f, N
  <2> QED BY <2>1
<1>7. s \in [1..N -> S]
  <2> HIDE DEF f, N
  <2> QED BY <1>6
<1>8. \A m, n \in 1..N : m < n => s[m] < s[n]
  <2> HIDE DEF f, N, s
  <2> SUFFICES ASSUME NEW m \in 1..N, NEW n \in 1..N, m < n PROVE s[m] < s[n]
    OBVIOUS
  <2>1. s[m] \in Nat /\ s[n] \in Nat /\ f[s[m]] = m /\ f[s[n]] = n
    BY <1>6
  <2>2. ~(s[n] < s[m]) /\ s[m] # s[n]
    BY <1>1, <1>3, <1>6, <2>1
  <2> QED BY <2>1, <2>2
<1>9. \A x \in S : \E n \in 1..N : s[n] = x
  <2> HIDE DEF f, N, s
  <2>1. \A x, y \in S : f[x] = f[y] => x = y
    BY <1>4 DEF Injection, IsInjective
  <2> QED BY <1>2, <1>6, <2>1
<1> HIDE DEF s
<1> QED BY <1>1, <1>7, <1>8, <1>9

LEMMA InOrderIs ==
  ASSUME NEW S, \A x \in S : x \in Nat, IsFiniteSet(S)
  PROVE  /\ Cardinality(S) \in Nat
         /\ InOrder(S) \in [1..Cardinality(S) -> S]
         /\ \A m, n \in 1..Cardinality(S) : m < n => InOrder(S)[m] < InOrder(S)[n]
         /\ \A x \in S : \E n \in 1..Cardinality(S) : InOrder(S)[n] = x
<1> DEFINE N == Cardinality(S)
<1>1. PICK s \in [1..N -> S] : \A m, n \in 1..N : m < n => s[m] < s[n]
  BY OrderExists
<1>2. N \in Nat
  BY OrderExists
<1>3. s \in SetToSeqs(S) /\ \A m, n \in DOMAIN s : m < n => s[m] < s[n]
  <2> HIDE DEF N
  <2>1. \A m, n \in 1..N : m # n => s[m] # s[n]
    <3>1. \A m \in 1..N : m \in Nat /\ s[m] \in Nat
      BY <1>1, <1>2
    <3>2. \A m, n \in 1..N : m < n \/ n < m \/ m = n
      BY <1>2
    <3> QED BY <1>1, <3>1, <3>2
  <2>2. s \in {g \in [1..N -> S] : \A i, j \in 1..N : i # j => g[i] # g[j]}
    BY <2>1
  <2> QED BY <1>1, <2>2 DEF SetToSeqs, N
<1> DEFINE o == InOrder(S)
<1>4. o \in SetToSeqs(S) /\ \A m, n \in DOMAIN o : m < n => o[m] < o[n]
  <2>1. o = CHOOSE r \in SetToSeqs(S) : \A m, n \in DOMAIN r : m < n => r[m] < r[n]
    BY Zenon DEF InOrder
  <2> HIDE DEF o
  <2> QED BY <1>3, <2>1
<1>5. o \in [1..N -> S] /\ \A m, n \in 1..N : m # n => o[m] # o[n]
  <2> HIDE DEF o
  <2> QED BY <1>4 DEF SetToSeqs
<1>6. o \in Injection(1..N, S)
  <2> HIDE DEF o, N
  <2> QED BY <1>5 DEF Injection, IsInjective
<1>7. o \in Surjection(1..N, S)
  <2>1. Cardinality(1..N) = N /\ IsFiniteSet(1..N)
    BY <1>2, FS_Interval
  <2> HIDE DEF o
  <2> QED BY <1>6, <2>1, FS_Injection
<1>8. \A x \in S : \E n \in 1..N : o[n] = x
  <2> HIDE DEF o, N
  <2> QED BY <1>7 DEF Surjection
<1>9. \A m, n \in 1..N : m < n => o[m] < o[n]
  <2> HIDE DEF o, N
  <2> QED BY <1>4, <1>5
<1> QED BY <1>2, <1>5, <1>8, <1>9

\* A sequence lists each of its elements once.
Distinct(s) == \A m, n \in DOMAIN s : s[m] = s[n] => m = n

LEMMA PrefixIs ==
  ASSUME NEW D, NEW s \in Seq(D), NEW n \in 0..Len(s)
  PROVE  /\ SubSeq(s, 1, n) \in Seq(D) /\ Len(SubSeq(s, 1, n)) = n
         /\ \A i \in 1..n : SubSeq(s, 1, n)[i] = s[i]
         /\ ToSet(SubSeq(s, 1, n)) = {s[i] : i \in 1..n}
<1>1. /\ SubSeq(s, 1, n) \in Seq(D) /\ Len(SubSeq(s, 1, n)) = n
      /\ \A i \in 1..n : SubSeq(s, 1, n)[i] = s[i]
  OBVIOUS
<1>2. DOMAIN SubSeq(s, 1, n) = 1..n
  BY <1>1
<1> DEFINE p == SubSeq(s, 1, n)
<1>3. ToSet(p) = {p[i] : i \in 1..n}
  BY <1>2 DEF ToSet
<1> HIDE DEF p
<1>4. {p[i] : i \in 1..n} = {s[i] : i \in 1..n}
  BY <1>1 DEF p
<1> QED BY <1>1, <1>3, <1>4 DEF p

LEMMA FirstNumbers ==
  ASSUME NEW N \in Nat
  PROVE  IsFiniteSet(1..N) /\ Cardinality(1..N) = N
BY FS_Interval

LEMMA DistinctSize ==
  ASSUME NEW D, NEW s \in Seq(D), Distinct(s)
  PROVE  IsFiniteSet(ToSet(s)) /\ Cardinality(ToSet(s)) = Len(s)
<1> DEFINE f == [i \in 1..Len(s) |-> s[i]]
<1>1. Len(s) \in Nat /\ DOMAIN s = 1..Len(s)
  OBVIOUS
<1>2. f \in Bijection(1..Len(s), ToSet(s))
  <2>1. f \in [1..Len(s) -> ToSet(s)]
    BY <1>1 DEF ToSet
  <2>2. \A i, j \in 1..Len(s) : f[i] = f[j] => i = j
    BY <1>1 DEF Distinct
  <2>3. \A x \in ToSet(s) : \E i \in 1..Len(s) : f[i] = x
    BY <1>1 DEF ToSet
  <2> HIDE DEF f
  <2> QED BY <2>1, <2>2, <2>3 DEF Bijection, Injection, Surjection, IsInjective
<1>3. IsFiniteSet(1..Len(s)) /\ Cardinality(1..Len(s)) = Len(s)
  BY <1>1, FirstNumbers
<1> HIDE DEF f
<1> QED BY <1>2, <1>3, FS_Bijection DEF ExistsBijection

LEMMA DistinctBound ==
  ASSUME NEW N \in Nat, NEW s \in Seq(1..N), Distinct(s)
  PROVE  Len(s) <= N
<1>1. ToSet(s) \in SUBSET (1..N)
  BY DEF ToSet
<1> QED BY <1>1, FirstNumbers, DistinctSize, FS_Subset

LEMMA PickedIs ==
  ASSUME NEW D, NEW s \in Seq(D), NEW at \in SUBSET DOMAIN s
  PROVE  /\ Picked(s, at) \in Seq(D)
         /\ ToSet(Picked(s, at)) = {s[n] : n \in at}
         /\ Distinct(s) => Distinct(Picked(s, at))
<1> DEFINE o == InOrder(at)
           N == Cardinality(at)
           p == Picked(s, at)
<1>1. DOMAIN s = 1..Len(s) /\ Len(s) \in Nat
  OBVIOUS
<1>2. at \in SUBSET (1..Len(s)) /\ \A n \in at : n \in Nat
  BY <1>1
<1>3. IsFiniteSet(at)
  BY <1>1, <1>2, FirstNumbers, FS_Subset
<1>4. /\ N \in Nat /\ o \in [1..N -> at]
      /\ \A m, n \in 1..N : m < n => o[m] < o[n]
      /\ \A x \in at : \E n \in 1..N : o[n] = x
  BY <1>2, <1>3, InOrderIs
<1>5. p = [k \in 1..N |-> s[o[k]]]
  <2>1. p = [k \in DOMAIN o |-> s[o[k]]]
    BY DEF Picked
  <2> HIDE DEF o, p
  <2> QED BY <1>4, <2>1
<1> HIDE DEF o, N, p
<1>6. \A k \in 1..N : o[k] \in at /\ o[k] \in DOMAIN s /\ s[o[k]] \in D
  BY <1>1, <1>2, <1>4
<1>7. p \in Seq(D) /\ DOMAIN p = 1..N
  BY <1>4, <1>5, <1>6
<1>8. ToSet(p) = {s[n] : n \in at}
  <2>1. ToSet(p) = {p[k] : k \in 1..N}
    BY <1>7 DEF ToSet
  <2>2. \A k \in 1..N : p[k] = s[o[k]]
    BY <1>5
  <2> QED BY <1>4, <1>6, <2>1, <2>2
<1>9. ASSUME Distinct(s) PROVE Distinct(p)
  <2> SUFFICES ASSUME NEW m \in 1..N, NEW n \in 1..N, p[m] = p[n] PROVE m = n
    BY <1>7 DEF Distinct
  <2>1. o[m] = o[n]
    BY <1>5, <1>6, <1>9 DEF Distinct
  <2>2. o[m] \in Nat /\ o[n] \in Nat /\ m \in Nat /\ n \in Nat
    BY <1>2, <1>4, <1>6
  <2>3. ~(m < n) /\ ~(n < m)
    BY <1>4, <2>1, <2>2
  <2> QED BY <2>2, <2>3
<1> QED BY <1>7, <1>8, <1>9 DEF p

LEMMA ConcatIs ==
  ASSUME NEW D, NEW r \in Seq(D), NEW s \in Seq(D)
  PROVE  /\ r \o s \in Seq(D) /\ Len(r \o s) = Len(r) + Len(s)
         /\ \A i \in 1..Len(r) : (r \o s)[i] = r[i]
         /\ \A i \in 1..Len(s) : (r \o s)[Len(r) + i] = s[i]
         /\ ToSet(r \o s) = ToSet(r) \cup ToSet(s)
         /\ Distinct(r) /\ Distinct(s) /\ ToSet(r) \cap ToSet(s) = {} => Distinct(r \o s)
<1> DEFINE c == r \o s
<1>1. /\ c \in Seq(D) /\ Len(c) = Len(r) + Len(s)
      /\ Len(r) \in Nat /\ Len(s) \in Nat
      /\ DOMAIN r = 1..Len(r) /\ DOMAIN s = 1..Len(s) /\ DOMAIN c = 1..(Len(r) + Len(s))
  OBVIOUS
<1>2. \A i \in 1..(Len(r) + Len(s)) : c[i] = IF i <= Len(r) THEN r[i] ELSE s[i - Len(r)]
  OBVIOUS
<1>3. \A i \in 1..Len(r) : c[i] = r[i]
  BY <1>1, <1>2
<1>4. \A i \in 1..Len(s) : c[Len(r) + i] = s[i]
  <2> HIDE DEF c
  <2> SUFFICES ASSUME NEW i \in 1..Len(s) PROVE c[Len(r) + i] = s[i]
    OBVIOUS
  <2>1. Len(r) + i \in 1..(Len(r) + Len(s)) /\ ~(Len(r) + i <= Len(r)) /\ Len(r) + i - Len(r) = i
    BY <1>1
  <2> QED BY <1>2, <2>1
<1>5. \A i \in 1..(Len(r) + Len(s)) :
        \/ i \in 1..Len(r) /\ c[i] = r[i]
        \/ i - Len(r) \in 1..Len(s) /\ c[i] = s[i - Len(r)]
  <2> HIDE DEF c
  <2> QED BY <1>1, <1>2
<1> HIDE DEF c
<1>6. ToSet(c) = ToSet(r) \cup ToSet(s)
  <2>1. \A x \in ToSet(c) : x \in ToSet(r) \/ x \in ToSet(s)
    BY <1>1, <1>5 DEF ToSet
  <2>2. \A x \in ToSet(r) : x \in ToSet(c)
    <3>1. \A i \in 1..Len(r) : i \in 1..(Len(r) + Len(s))
      BY <1>1
    <3> QED BY <1>1, <1>3, <3>1 DEF ToSet
  <2>3. \A x \in ToSet(s) : x \in ToSet(c)
    <3>1. \A i \in 1..Len(s) : Len(r) + i \in 1..(Len(r) + Len(s))
      BY <1>1
    <3> QED BY <1>1, <1>4, <3>1 DEF ToSet
  <2> QED BY <2>1, <2>2, <2>3
<1>7. ASSUME Distinct(r), Distinct(s), ToSet(r) \cap ToSet(s) = {} PROVE Distinct(c)
  <2> SUFFICES ASSUME NEW m \in 1..(Len(r) + Len(s)), NEW n \in 1..(Len(r) + Len(s)), c[m] = c[n]
               PROVE  m = n
    BY <1>1 DEF Distinct
  <2>1. m \in Nat /\ n \in Nat
    BY <1>1
  <2>2. CASE m \in 1..Len(r) /\ n \in 1..Len(r)
    BY <1>1, <1>3, <1>7, <2>2 DEF Distinct
  <2>3. CASE m - Len(r) \in 1..Len(s) /\ n - Len(r) \in 1..Len(s)
    <3>1. c[m] = s[m - Len(r)] /\ c[n] = s[n - Len(r)]
      BY <1>1, <1>5, <2>1, <2>3
    <3>2. m - Len(r) = n - Len(r)
      BY <1>1, <1>7, <2>3, <3>1 DEF Distinct
    <3> QED BY <1>1, <2>1, <3>2
  <2>4. CASE m \in 1..Len(r) /\ n - Len(r) \in 1..Len(s)
    <3>1. c[m] = r[m] /\ c[n] = s[n - Len(r)]
      BY <1>1, <1>5, <2>1, <2>4
    <3>2. c[m] \in ToSet(r) /\ c[n] \in ToSet(s)
      BY <1>1, <2>4, <3>1 DEF ToSet
    <3> QED BY <1>7, <3>2
  <2>5. CASE n \in 1..Len(r) /\ m - Len(r) \in 1..Len(s)
    <3>1. c[n] = r[n] /\ c[m] = s[m - Len(r)]
      BY <1>1, <1>5, <2>1, <2>5
    <3>2. c[n] \in ToSet(r) /\ c[m] \in ToSet(s)
      BY <1>1, <2>5, <3>1 DEF ToSet
    <3> QED BY <1>7, <3>2
  <2> QED BY <1>5, <2>2, <2>3, <2>4, <2>5
<1> QED BY <1>1, <1>3, <1>4, <1>6, <1>7 DEF c

-----------------------------------------------------------------------------
(* The inductive invariant                                                 *)

Hours  == 0..(MaxTime + Jump)
Row    == [born : 0..MaxTime, ts : 0..(MaxTime + Jump)]
Halves == {"uncertain", "attest"}

\* A row that the right clock stamped, and one that need not be kept any more.
Right(i) == rows[i].ts = rows[i].born
Lost(i)  == i \in copied \/ t - rows[i].born > Retention

\* A pass that goes by the wall clock.
Trusting ==
  \/ worker.step \in {"select", "write", "prune"}
  \/ worker.step = "recover" /\ worker.then = "select"

Held(seg) == ToSet(SubSeq(seg.rows, 1, seg.synced))

\* A segment lists rows of its own hour, once.
SegmentOK(seg, h) ==
  /\ seg \in [rows : Seq(DOMAIN rows), torn : BOOLEAN, synced : Nat]
  /\ seg.synced <= Len(seg.rows) /\ Distinct(seg.rows)
  /\ \A n \in DOMAIN seg.rows : Hour(seg.rows[n]) = h

WorldOK ==
  /\ t \in 0..MaxTime /\ offset \in {0, Jump}
  /\ rows \in Seq(Row) /\ Len(rows) <= MaxRows
  /\ \A i \in DOMAIN rows : rows[i].ts \in {rows[i].born, rows[i].born + Jump} /\ rows[i].born <= t
  /\ first \in 1..(Len(rows) + 1)
  /\ faults \in 0..FaultLimit

DiskOK ==
  /\ disk = [h \in DOMAIN disk |-> disk[h]]
  /\ DOMAIN disk \subseteq Hours
  /\ \A h \in DOMAIN disk : SegmentOK(disk[h], h)

SessionOK ==
  /\ lengths = [h \in DOMAIN lengths |-> lengths[h]]
  /\ DOMAIN lengths \subseteq Hours
  /\ \A h \in DOMAIN lengths : lengths[h] \in 0..MaxRows
  /\ copied \subseteq DOMAIN rows /\ observed \subseteq DOMAIN rows
  /\ committed \subseteq DOMAIN rows

\* A pass knows of rows of its own session, and writes those that are on no disk.
WorkerOK ==
  /\ worker \in [step : Steps, rows : SUBSET (first..Len(rows)), left : SUBSET Hours,
                 then : {"idle", "time", "select"}]
  /\ worker.step = "recover" => worker.then # "idle"
  /\ worker.step = "write" => worker.rows \cap OnDisk = {}

\* What the flags say of the pass and of the downloads.
FlagsOK ==
  /\ flags \subseteq Flags
  /\ "attest" \in flags => "uncertain" \in flags
  /\ ~ LockFree => "lease" \in flags
  /\ (\E d \in Downloads : phase[d] # "idle") => "lease" \in flags
  /\ "ready" \in flags /\ "stopping" \notin flags => "lease" \in flags
  /\ "scheduled" \in flags \/ "closed" \in flags => "stopping" \in flags
  /\ "scheduled" \in flags \/ "closed" \in flags => \A d \in Downloads : phase[d] = "idle"
  /\ worker.step \in {"time", "prove", "select", "write"} => "recovery" \notin flags
  /\ worker.step = "recover" /\ worker.then = "select" => "recovery" \notin flags

\* A session that has not read the status file knows nothing.
FreshOK ==
  "loaded" \notin flags =>
    /\ "ready" \notin flags /\ "recovery" \in flags /\ LockFree /\ anchor = {}
    /\ \A d \in Downloads : phase[d] = "idle"

ViewOK ==
  /\ phase \in [Downloads -> Phases]
  /\ pins \in [Downloads -> SUBSET DOMAIN disk]
  /\ \A d \in Downloads : pins[d] = {} \/ phase[d] \in {"open", "closing"}

\* Unless a recovery is due, the index of the session is that of the disk, and
\* all of the disk is durable.
IndexOK ==
  "recovery" \notin flags =>
    /\ DOMAIN lengths = DOMAIN disk /\ committed = OnDisk
    /\ \A h \in DOMAIN disk : lengths[h] = Len(disk[h].rows) /\ disk[h].synced = Len(disk[h].rows)

\* What a recovery has seen of the disk is durable.
RecoverOK ==
  worker.step = "recover" =>
    \A h \in DOMAIN disk \ worker.left : disk[h].synced = Len(disk[h].rows)

CommittedOK == \A i \in committed : i \in Durable \/ Lost(i)

StatusOK ==
  /\ anchor \in Anchors
  /\ \/ status = {}
     \/ \E a \in Anchors, b \in BOOLEAN, ds \in SUBSET Halves :
          /\ status = {[anchor |-> a, boot |-> b, doubts |-> ds]}
          /\ "attest" \in ds => "uncertain" \in ds

TrustOK == Trusting => anchor = {offset} /\ \A s \in status : s.anchor = {offset}

\* An anchor that a clock that is ahead would be told from.
Unlike(a) == a \notin {{}, {Jump}}

SyncOK == "loaded" \in flags /\ (\E s \in status : Unlike(s.anchor)) => Unlike(anchor)

\* What could take the clock that is ahead for the right one has no row of this
\* session that the right one stamped, nor has the disk.
Blind == IF "loaded" \in flags THEN ~ Unlike(anchor)
                               ELSE \A s \in status : ~ Unlike(s.anchor)
BlindOK == offset = Jump /\ Blind => \A i \in first..Len(rows) : ~ Right(i)
RightOK == (\E i \in OnDisk : Right(i)) => anchor # {Jump} /\ \A s \in status : s.anchor # {Jump}

\* An archive whose clock nothing tells is in doubt.
DoubtOK == "loaded" \in flags /\ anchor = {} /\ DOMAIN disk # {} => "uncertain" \in flags

ClockOK == TrustOK /\ SyncOK /\ BlindOK /\ RightOK /\ DoubtOK

ArchiveInv ==
  /\ WorldOK /\ DiskOK /\ SessionOK /\ WorkerOK /\ FlagsOK /\ FreshOK /\ ViewOK
  /\ IndexOK /\ RecoverOK /\ CommittedOK /\ StatusOK /\ ClockOK

LEMMA Amounts ==
  /\ Deque \in Nat /\ Retention \in Nat /\ Jump \in Nat /\ Jump > 0
  /\ MaxTime \in Nat /\ MaxRows \in Nat /\ FaultLimit \in Nat /\ Downloads # {}
BY DecisionTraceAssumption

\* What a segment holds.
LEMMA SegmentIs ==
  ASSUME NEW h, NEW seg, SegmentOK(seg, h)
  PROVE  /\ Len(seg.rows) \in Nat /\ DOMAIN seg.rows = 1..Len(seg.rows)
         /\ seg.synced \in 0..Len(seg.rows)
         /\ ToSet(seg.rows) = {seg.rows[n] : n \in 1..Len(seg.rows)}
         /\ Held(seg) = {seg.rows[n] : n \in 1..seg.synced}
         /\ Held(seg) \subseteq ToSet(seg.rows) /\ ToSet(seg.rows) \subseteq DOMAIN rows
         /\ \A i \in ToSet(seg.rows) : Hour(i) = h
         /\ seg.synced = Len(seg.rows) => Held(seg) = ToSet(seg.rows)
<1>1. seg.rows \in Seq(DOMAIN rows) /\ seg.synced \in Nat /\ seg.synced <= Len(seg.rows)
  BY DEF SegmentOK
<1>2. Len(seg.rows) \in Nat /\ DOMAIN seg.rows = 1..Len(seg.rows) /\ seg.synced \in 0..Len(seg.rows)
  BY <1>1
<1>3. ToSet(seg.rows) = {seg.rows[n] : n \in 1..Len(seg.rows)}
  BY <1>2 DEF ToSet
<1>4. Held(seg) = {seg.rows[n] : n \in 1..seg.synced}
  BY <1>1, <1>2, PrefixIs DEF Held
<1>5. \A n \in 1..seg.synced : n \in 1..Len(seg.rows)
  BY <1>2
<1>6. \A n \in 1..Len(seg.rows) : seg.rows[n] \in DOMAIN rows /\ Hour(seg.rows[n]) = h
  BY <1>1, <1>2 DEF SegmentOK
<1> QED BY <1>2, <1>3, <1>4, <1>5, <1>6

LEMMA DurableIs == Durable = UNION {Held(disk[h]) : h \in DOMAIN disk}
BY DEF Durable, Held

\* A set of rows that was written back whole.
LEMMA SyncedIs ==
  ASSUME NEW h, NEW seg, SegmentOK(seg, h)
  PROVE  SegmentOK(Synced(seg), h) /\ Held(Synced(seg)) = ToSet(seg.rows)
         /\ Synced(seg).rows = seg.rows /\ Synced(seg).synced = Len(seg.rows)
<1>1. /\ seg \in [rows : Seq(DOMAIN rows), torn : BOOLEAN, synced : Nat] /\ Len(seg.rows) \in Nat
  BY SegmentIs DEF SegmentOK
<1> DEFINE x == Synced(seg)
<1>2. /\ x \in [rows : Seq(DOMAIN rows), torn : BOOLEAN, synced : Nat]
      /\ x.rows = seg.rows /\ x.synced = Len(seg.rows)
  BY <1>1 DEF Synced
<1> HIDE DEF x
<1>3. SegmentOK(x, h)
  BY <1>1, <1>2 DEF SegmentOK
<1> QED BY <1>2, <1>3, SegmentIs DEF x

-----------------------------------------------------------------------------
(* The disk, one segment at a time                                         *)

LEMMA RowsPlaced ==
  ASSUME DiskOK
  PROVE  /\ \A i \in OnDisk : i \in DOMAIN rows /\ Hour(i) \in DOMAIN disk /\ i \in RowsOf(Hour(i))
         /\ \A i \in Durable : i \in OnDisk /\ i \in Held(disk[Hour(i)])
         /\ \A h \in DOMAIN disk : \A i \in RowsOf(h) : i \in OnDisk /\ Hour(i) = h
         /\ \A h \in DOMAIN disk : \A i \in Held(disk[h]) : i \in Durable /\ Hour(i) = h
<1>1. \A h \in DOMAIN disk : /\ Held(disk[h]) \subseteq RowsOf(h) /\ RowsOf(h) \subseteq DOMAIN rows
                             /\ \A i \in RowsOf(h) : Hour(i) = h
  BY SegmentIs DEF DiskOK, RowsOf
<1>2. \A i : i \in OnDisk <=> \E h \in DOMAIN disk : i \in RowsOf(h)
  BY DEF OnDisk
<1>3. \A i : i \in Durable <=> \E h \in DOMAIN disk : i \in Held(disk[h])
  BY DurableIs
<1> QED BY <1>1, <1>2, <1>3

LEMMA PutDisk ==
  ASSUME DiskOK, NEW h \in Hours, NEW seg, SegmentOK(seg, h),
         rows' = rows, disk' = With(disk, h, seg)
  PROVE  /\ DiskOK' /\ DOMAIN disk' = DOMAIN disk \cup {h}
         /\ disk'[h] = seg /\ \A g \in DOMAIN disk \ {h} : disk'[g] = disk[g]
         /\ \A i : i \in OnDisk' <=> (i \in OnDisk /\ Hour(i) # h) \/ i \in ToSet(seg.rows)
         /\ \A i : i \in Durable' <=> (i \in Durable /\ Hour(i) # h) \/ i \in Held(seg)
<1>1. /\ DOMAIN disk' = DOMAIN disk \cup {h} /\ disk' = [g \in DOMAIN disk' |-> disk'[g]]
      /\ disk'[h] = seg /\ \A g \in DOMAIN disk \ {h} : disk'[g] = disk[g]
  BY DEF With
<1>2. \A s, g : SegmentOK(s, g)' <=> SegmentOK(s, g)
  BY DEF SegmentOK, Hour
<1>3. \A g \in DOMAIN disk' : SegmentOK(disk'[g], g)
  BY <1>1 DEF DiskOK
<1>4. DiskOK'
  <2>1. \A g \in DOMAIN disk' : SegmentOK(disk[g], g)'
    BY <1>3 DEF SegmentOK, Hour
  <2> QED BY <1>1, <2>1 DEF DiskOK, Hours
<1>5. \A i : i \in OnDisk' <=> \E g \in DOMAIN disk' : i \in ToSet(disk'[g].rows)
  BY DEF OnDisk, RowsOf
<1>6. \A i : i \in Durable' <=> \E g \in DOMAIN disk' : i \in Held(disk'[g])
  BY DurableIs DEF Durable, Held
<1>7. \A i : i \in OnDisk <=> \E g \in DOMAIN disk : i \in ToSet(disk[g].rows)
  BY DEF OnDisk, RowsOf
<1>8. \A i : i \in Durable <=> \E g \in DOMAIN disk : i \in Held(disk[g])
  BY DurableIs
<1>9. \A g \in DOMAIN disk : \A i \in ToSet(disk[g].rows) \cup Held(disk[g]) : Hour(i) = g
  BY SegmentIs DEF DiskOK
<1> QED BY <1>1, <1>4, <1>5, <1>6, <1>7, <1>8, <1>9

LEMMA DropDisk ==
  ASSUME DiskOK, NEW h \in DOMAIN disk, rows' = rows, disk' = Without(disk, h)
  PROVE  /\ DiskOK' /\ DOMAIN disk' = DOMAIN disk \ {h}
         /\ \A g \in DOMAIN disk \ {h} : disk'[g] = disk[g]
         /\ \A i : i \in OnDisk' <=> i \in OnDisk /\ Hour(i) # h
         /\ \A i : i \in Durable' <=> i \in Durable /\ Hour(i) # h
<1>1. /\ DOMAIN disk' = DOMAIN disk \ {h} /\ disk' = [g \in DOMAIN disk' |-> disk'[g]]
      /\ \A g \in DOMAIN disk \ {h} : disk'[g] = disk[g]
  BY DEF Without
<1>3. \A g \in DOMAIN disk' : SegmentOK(disk'[g], g)
  BY <1>1 DEF DiskOK
<1>4. DiskOK'
  <2>1. \A g \in DOMAIN disk' : SegmentOK(disk[g], g)'
    BY <1>3 DEF SegmentOK, Hour
  <2> QED BY <1>1, <2>1 DEF DiskOK, Hours
<1>5. \A i : i \in OnDisk' <=> \E g \in DOMAIN disk' : i \in ToSet(disk'[g].rows)
  BY DEF OnDisk, RowsOf
<1>6. \A i : i \in Durable' <=> \E g \in DOMAIN disk' : i \in Held(disk'[g])
  BY DurableIs DEF Durable, Held
<1>7. \A i : i \in OnDisk <=> \E g \in DOMAIN disk : i \in ToSet(disk[g].rows)
  BY DEF OnDisk, RowsOf
<1>8. \A i : i \in Durable <=> \E g \in DOMAIN disk : i \in Held(disk[g])
  BY DurableIs
<1>9. \A g \in DOMAIN disk : \A i \in ToSet(disk[g].rows) \cup Held(disk[g]) : Hour(i) = g
  BY SegmentIs DEF DiskOK
<1> QED BY <1>1, <1>4, <1>5, <1>6, <1>7, <1>8, <1>9

\* An assignment to one segment of the disk.
LEMMA ExceptDisk ==
  ASSUME DiskOK, NEW h \in DOMAIN disk, NEW seg
  PROVE  h \in Hours /\ SegmentOK(disk[h], h) /\ [disk EXCEPT ![h] = seg] = With(disk, h, seg)
<1>1. [disk EXCEPT ![h] = seg] = [g \in DOMAIN disk |-> IF g = h THEN seg ELSE disk[g]]
  BY DEF DiskOK
<1> QED BY <1>1 DEF DiskOK, With

\* The rows a segment keeps, at some of their places.
LEMMA PickedSegment ==
  ASSUME NEW h, NEW seg, SegmentOK(seg, h), NEW at \in SUBSET DOMAIN seg.rows,
         NEW new, new = Rewritten(seg, at)
  PROVE  /\ SegmentOK(new, h) /\ ToSet(new.rows) = {seg.rows[n] : n \in at}
         /\ Held(new) = ToSet(new.rows) /\ new.synced = Len(new.rows)
<1> DEFINE S   == [rows : Seq(DOMAIN rows), torn : BOOLEAN, synced : Nat]
           p   == Picked(seg.rows, at)
           y   == [seg EXCEPT !.rows = p]
           x   == [y EXCEPT !.torn = FALSE]
<1>1. seg \in S /\ seg.rows \in Seq(DOMAIN rows) /\ Distinct(seg.rows)
  BY DEF SegmentOK
<1>2. p \in Seq(DOMAIN rows) /\ ToSet(p) = {seg.rows[n] : n \in at} /\ Distinct(p)
  BY <1>1, PickedIs
<1>3. Len(p) \in Nat /\ \A n \in DOMAIN p : Hour(p[n]) = h
  <2>1. \A i \in ToSet(p) : Hour(i) = h
    BY <1>2 DEF SegmentOK
  <2> HIDE DEF p
  <2> QED BY <1>2, <2>1 DEF ToSet
<1>0. new = Synced(x)
  BY DEF Rewritten
<1> HIDE DEF p
<1>4. y \in S /\ y.rows = p
  BY <1>1, <1>2
<1> HIDE DEF y
<1>5. x \in S /\ x.rows = p
  BY <1>4
<1> HIDE DEF x
<1>8. new \in S /\ new.rows = p /\ new.synced = Len(p)
  BY <1>0, <1>3, <1>5 DEF Synced
<1>6. SegmentOK(new, h)
  BY <1>2, <1>3, <1>8 DEF SegmentOK
<1>7. Held(new) = ToSet(new.rows)
  BY <1>8, <1>6, SegmentIs
<1> QED BY <1>2, <1>8, <1>6, <1>7 DEF p

LEMMA RepairIs ==
  ASSUME NEW h, NEW seg, SegmentOK(seg, h)
  PROVE  /\ SegmentOK(Repair(seg), h) /\ ToSet(Repair(seg).rows) = ToSet(seg.rows)
         /\ Held(Repair(seg)) = ToSet(seg.rows)
         /\ Repair(seg).synced = Len(Repair(seg).rows) /\ Len(Repair(seg).rows) = Len(seg.rows)
<1> DEFINE at  == FirstSeen(seg.rows)
           new == Repair(seg)
<1>1. at = DOMAIN seg.rows
  <2>1. \A n \in DOMAIN seg.rows : \A m \in 1..(n - 1) : m \in DOMAIN seg.rows /\ m # n
    BY SegmentIs
  <2> QED BY <2>1 DEF FirstSeen, SegmentOK, Distinct
<1>2. {seg.rows[n] : n \in at} = ToSet(seg.rows) /\ at \in SUBSET DOMAIN seg.rows
  BY <1>1 DEF ToSet
<1>3. new = Rewritten(seg, at)
  BY DEF Repair
<1> HIDE DEF at, new
<1>4. /\ SegmentOK(new, h) /\ ToSet(new.rows) = {seg.rows[n] : n \in at}
      /\ Held(new) = ToSet(new.rows) /\ new.synced = Len(new.rows)
  BY <1>2, <1>3, PickedSegment
<1>5. Len(new.rows) = Len(seg.rows)
  BY <1>2, <1>4, DistinctSize DEF SegmentOK
<1> QED BY <1>2, <1>4, <1>5 DEF new

-----------------------------------------------------------------------------
(* What the writer appends, and what a crash leaves                        *)

Appended(h) == Extended(h, Cardinality(Batch))
Blank       == [rows |-> <<>>, torn |-> FALSE, synced |-> 0]

LEMMA HourIs ==
  ASSUME WorldOK, NEW i \in DOMAIN rows
  PROVE  /\ rows[i].ts \in Nat /\ rows[i].born \in Nat /\ rows[i].ts <= MaxTime + Jump
         /\ Hour(i) \in Hours /\ 2 * Hour(i) <= rows[i].ts /\ rows[i].ts <= 2 * Hour(i) + 1
<1>1. rows[i] \in Row
  BY DEF WorldOK
<1>2. rows[i].ts \in 0..(MaxTime + Jump) /\ rows[i].born \in 0..MaxTime
  BY <1>1 DEF Row
<1> QED BY <1>2, Amounts DEF Hour, Hours

\* The batch of a pass: rows of one hour, in their order.
LEMMA BatchIs ==
  ASSUME WorldOK, WorkerOK, worker.rows # {}, NEW n \in 0..Cardinality(Batch)
  PROVE  LET h == Hour(Min(worker.rows))
             b == SubSeq(InOrder(Batch), 1, n)
         IN  /\ h \in Hours /\ Cardinality(Batch) \in Nat
             /\ Batch \subseteq worker.rows /\ Batch \subseteq DOMAIN rows /\ Min(worker.rows) \in Batch
             /\ \A i \in Batch : Hour(i) = h
             /\ b \in Seq(DOMAIN rows) /\ Distinct(b) /\ ToSet(b) \subseteq Batch
             /\ n = Cardinality(Batch) => ToSet(b) = Batch
             /\ \A i \in Batch, k \in ToSet(b) : i < k => i \in ToSet(b)
<1> DEFINE h == Hour(Min(worker.rows))
           b == SubSeq(InOrder(Batch), 1, n)
           N == Cardinality(Batch)
<1>1. /\ worker.rows \subseteq first..Len(rows) /\ first \in Nat /\ first >= 1 /\ Len(rows) \in Nat
      /\ DOMAIN rows = 1..Len(rows)
  BY DEF WorkerOK, WorldOK
<1>2. worker.rows \in SUBSET Nat /\ worker.rows \subseteq DOMAIN rows /\ DOMAIN rows \subseteq Nat
  BY <1>1
<1>3. Min(worker.rows) \in worker.rows
  BY <1>2, LeastIs
<1>4. /\ Batch \subseteq worker.rows /\ Batch \subseteq DOMAIN rows /\ Min(worker.rows) \in Batch
      /\ \A i \in Batch : Hour(i) = h
  BY <1>2, <1>3 DEF Batch
<1>5. IsFiniteSet(Batch)
  BY <1>1, <1>4, FirstNumbers, FS_Subset
<1>6. /\ N \in Nat /\ InOrder(Batch) \in [1..N -> Batch]
      /\ \A k, m \in 1..N : k < m => InOrder(Batch)[k] < InOrder(Batch)[m]
      /\ \A x \in Batch : \E k \in 1..N : InOrder(Batch)[k] = x
  <2>1. \A x \in Batch : x \in Nat
    BY <1>2, <1>4
  <2> QED BY <2>1, <1>5, InOrderIs
<1> DEFINE o == InOrder(Batch)
<1>7. /\ o \in Seq(DOMAIN rows) /\ Len(o) = N
      /\ \A k, m \in 1..N : (o[k] = o[m] => k = m) /\ (k < m => o[k] < o[m])
      /\ \A k \in 1..N : o[k] \in Batch /\ o[k] \in Nat
      /\ \A x \in Batch : \E k \in 1..N : o[k] = x
  <2> HIDE DEF N
  <2>1. \A k \in 1..N : o[k] \in Batch /\ o[k] \in DOMAIN rows /\ o[k] \in Nat
    BY <1>2, <1>4, <1>6
  <2>2. o \in [1..N -> DOMAIN rows]
    BY <2>1, <1>6
  <2>3. \A k, m \in 1..N : o[k] = o[m] => k = m
    <3>1. SUFFICES ASSUME NEW k \in 1..N, NEW m \in 1..N, k < m PROVE o[k] # o[m]
      BY <1>6
    <3>2. o[k] < o[m]
      BY <3>1, <1>6
    <3> QED BY <3>2, <2>1
  <2> QED BY <2>1, <2>2, <2>3, <1>6
<1> HIDE DEF o
<1>8. /\ b \in Seq(DOMAIN rows) /\ Len(b) = n /\ \A k \in 1..n : b[k] = o[k]
      /\ ToSet(b) = {o[k] : k \in 1..n}
  <2> HIDE DEF N
  <2>1. n \in 0..Len(o) /\ b = SubSeq(o, 1, n)
    BY <1>7 DEF N, o
  <2> HIDE DEF b
  <2> QED BY <2>1, <1>7, PrefixIs
<1>9. \A k \in 1..n : k \in 1..N
  BY <1>6
<1> HIDE DEF N, b
<1>10. Distinct(b)
  BY <1>7, <1>8, <1>9 DEF Distinct
<1>11. ToSet(b) \subseteq Batch /\ (n = N => ToSet(b) = Batch)
  BY <1>6, <1>7, <1>8, <1>9 DEF o
<1>13. ASSUME NEW i \in Batch, NEW k \in ToSet(b), i < k PROVE i \in ToSet(b)
  <2>1. PICK m \in 1..n : k = o[m]
    BY <1>8
  <2>2. PICK j \in 1..N : i = o[j]
    BY <1>7
  <2>3. m \in 1..N /\ ~ (m < j) /\ m # j
    BY <1>7, <1>9, <1>13, <2>1, <2>2
  <2>4. j \in 1..n
    BY <1>6, <2>3
  <2> QED BY <1>8, <2>2, <2>4
<1>12. h \in Hours
  BY <1>2, <1>3, HourIs
<1> QED BY <1>4, <1>6, <1>8, <1>10, <1>11, <1>12, <1>13 DEF N, b

\* A segment with some of the batch appended to it: whether it was on the disk
\* or begins with the batch.
LEMMA ExtendedIs ==
  ASSUME WorldOK, DiskOK, WorkerOK, worker.rows # {}, worker.rows \cap OnDisk = {},
         NEW n \in 0..Cardinality(Batch), NEW h, h = Hour(Min(worker.rows))
  PROVE  LET seg == IF h \in DOMAIN disk THEN disk[h] ELSE Blank
             ext == Extended(h, n)
         IN  /\ SegmentOK(ext, h) /\ Held(ext) = Held(seg) /\ SegmentOK(seg, h)
             /\ ToSet(seg.rows) \subseteq ToSet(ext.rows)
             /\ ToSet(ext.rows) \subseteq ToSet(seg.rows) \cup Batch
             /\ ToSet(ext.rows) = ToSet(seg.rows) \cup ToSet(SubSeq(InOrder(Batch), 1, n))
             /\ \A k \in 1..Len(seg.rows) : k \in 1..Len(ext.rows) /\ ext.rows[k] = seg.rows[k]
             /\ n = Cardinality(Batch) => ToSet(ext.rows) = ToSet(seg.rows) \cup Batch
             /\ IsPrefix(seg.rows, ext.rows)
<1> DEFINE S   == [rows : Seq(DOMAIN rows), torn : BOOLEAN, synced : Nat]
           seg == IF h \in DOMAIN disk THEN disk[h] ELSE Blank
           b   == SubSeq(InOrder(Batch), 1, n)
           r   == seg.rows \o b
           ext == Extended(h, n)
<1>1. SegmentOK(seg, h)
  <2>1. CASE h \in DOMAIN disk
    BY <2>1 DEF DiskOK
  <2>2. CASE h \notin DOMAIN disk
    <3>1. Blank \in S /\ Blank.rows = <<>> /\ Blank.synced = 0
      BY DEF Blank
    <3> QED BY <2>2, <3>1 DEF SegmentOK, Distinct
  <2> QED BY <2>1, <2>2
<1>2. /\ h \in Hours /\ \A i \in Batch : Hour(i) = h
      /\ b \in Seq(DOMAIN rows) /\ Distinct(b) /\ ToSet(b) \subseteq Batch
      /\ n = Cardinality(Batch) => ToSet(b) = Batch
  BY BatchIs
<1>3. ToSet(seg.rows) \cap Batch = {}
  <2>1. CASE h \in DOMAIN disk
    BY <2>1, BatchIs DEF OnDisk, RowsOf
  <2>2. CASE h \notin DOMAIN disk
    BY <2>2 DEF Blank, ToSet
  <2> QED BY <2>1, <2>2
<1>4. ext = [seg EXCEPT !.rows = r]
  BY DEF Extended, Blank
<1> HIDE DEF seg, b, ext
<1>5. /\ seg \in S /\ seg.rows \in Seq(DOMAIN rows) /\ Distinct(seg.rows)
      /\ Len(seg.rows) \in Nat /\ seg.synced \in 0..Len(seg.rows)
  BY <1>1, SegmentIs DEF SegmentOK
<1>6. /\ r \in Seq(DOMAIN rows) /\ Len(r) = Len(seg.rows) + Len(b) /\ Len(b) \in Nat
      /\ \A i \in 1..Len(seg.rows) : r[i] = seg.rows[i]
      /\ ToSet(r) = ToSet(seg.rows) \cup ToSet(b) /\ Distinct(r)
  BY <1>2, <1>3, <1>5, ConcatIs
<1> HIDE DEF r
<1>7. ext \in S /\ ext.rows = r /\ ext.synced = seg.synced
  BY <1>4, <1>5, <1>6
<1>8. Len(seg.rows) <= Len(r) /\ \A k \in 1..Len(seg.rows) : k \in 1..Len(r)
  BY <1>5, <1>6
<1>9. \A k \in 1..seg.synced : k \in 1..Len(seg.rows)
  BY <1>5
<1>10. SegmentOK(ext, h)
  <2>1. \A i \in ToSet(r) : Hour(i) = h
    BY <1>1, <1>2, <1>6, SegmentIs
  <2>2. ext.synced <= Len(ext.rows)
    BY <1>5, <1>7, <1>8, <1>6
  <2>3. \A k \in DOMAIN r : Hour(r[k]) = h
    BY <2>1 DEF ToSet
  <2> QED BY <1>6, <1>7, <2>2, <2>3 DEF SegmentOK
<1>11. Held(ext) = Held(seg)
  <2>1. Held(ext) = {r[k] : k \in 1..seg.synced}
    BY <1>10, <1>7, SegmentIs
  <2>2. Held(seg) = {seg.rows[k] : k \in 1..seg.synced}
    BY <1>1, SegmentIs
  <2> QED BY <2>1, <2>2, <1>6, <1>9
<1>12. IsPrefix(seg.rows, ext.rows)
  <2> DEFINE u == SubSeq(seg.rows, 1, Len(seg.rows))
             v == SubSeq(r, 1, Len(seg.rows))
  <2>1. /\ u \in Seq(DOMAIN rows) /\ Len(u) = Len(seg.rows)
        /\ \A k \in 1..Len(seg.rows) : u[k] = seg.rows[k]
    BY <1>5, PrefixIs
  <2>2. Len(seg.rows) \in 0..Len(r)
    BY <1>5, <1>6
  <2>3. /\ v \in Seq(DOMAIN rows) /\ Len(v) = Len(seg.rows)
        /\ \A k \in 1..Len(seg.rows) : v[k] = r[k]
    BY <1>6, <2>2, PrefixIs
  <2> HIDE DEF u, v
  <2>4. u = [k \in 1..Len(seg.rows) |-> seg.rows[k]] /\ v = [k \in 1..Len(seg.rows) |-> r[k]]
    BY <2>1, <2>3
  <2>5. u = v
    BY <2>4, <1>6
  <2>6. IsPrefix(seg.rows, r)
    BY <2>5, <1>8 DEF IsPrefix, u, v
  <2> QED BY <2>6, <1>7
<1> QED BY <1>1, <1>2, <1>6, <1>7, <1>8, <1>10, <1>11, <1>12 DEF seg, ext, b

LEMMA SamePrefix ==
  ASSUME NEW s
  PROVE  Len(s) \in Nat => IsPrefix(s, s)
BY DEF IsPrefix

\* A pass that has appended a part of its batch, with a torn tail or without.
LEMMA TornIs ==
  ASSUME NEW h, NEW seg, SegmentOK(seg, h), NEW torn \in BOOLEAN
  PROVE  LET new == [seg EXCEPT !.torn = torn]
         IN  SegmentOK(new, h) /\ Held(new) = Held(seg) /\ new.rows = seg.rows
<1> DEFINE S   == [rows : Seq(DOMAIN rows), torn : BOOLEAN, synced : Nat]
           new == [seg EXCEPT !.torn = torn]
<1>1. seg \in S
  BY DEF SegmentOK
<1>2. new \in S /\ new.rows = seg.rows /\ new.synced = seg.synced
  BY <1>1
<1> HIDE DEF new
<1>3. SegmentOK(new, h)
  BY <1>2 DEF SegmentOK
<1> QED BY <1>2, <1>3 DEF new, Held

\* After a crash a segment has its durable rows and a part of the others.
LEMMA SurvivorIs ==
  ASSUME NEW h, NEW seg, SegmentOK(seg, h), NEW new \in Survivors(seg)
  PROVE  /\ SegmentOK(new, h) /\ Held(seg) \subseteq Held(new)
         /\ ToSet(new.rows) \subseteq ToSet(seg.rows)
<1>1. PICK n \in seg.synced..Len(seg.rows), torn \in BOOLEAN :
        new = [rows |-> SubSeq(seg.rows, 1, n), torn |-> torn, synced |-> n]
  BY DEF Survivors
<1>2. /\ seg.rows \in Seq(DOMAIN rows) /\ Distinct(seg.rows) /\ Len(seg.rows) \in Nat
      /\ DOMAIN seg.rows = 1..Len(seg.rows) /\ seg.synced \in 0..Len(seg.rows)
      /\ \A k \in 1..Len(seg.rows) : Hour(seg.rows[k]) = h
  BY SegmentIs DEF SegmentOK
<1>3. n \in 0..Len(seg.rows) /\ n \in Nat /\ \A k \in 1..n : k \in 1..Len(seg.rows)
  BY <1>2
<1> DEFINE p == SubSeq(seg.rows, 1, n)
<1>4. /\ p \in Seq(DOMAIN rows) /\ Len(p) = n /\ DOMAIN p = 1..n
      /\ \A k \in 1..n : p[k] = seg.rows[k]
  BY <1>2, <1>3, PrefixIs
<1> HIDE DEF p
<1>5. /\ new \in [rows : Seq(DOMAIN rows), torn : BOOLEAN, synced : Nat]
      /\ new.rows = p /\ new.synced = n
  BY <1>1, <1>3, <1>4 DEF p
<1>6. Distinct(p) /\ \A k \in DOMAIN p : Hour(p[k]) = h
  BY <1>2, <1>3, <1>4 DEF Distinct
<1>7. SegmentOK(new, h)
  BY <1>3, <1>4, <1>5, <1>6 DEF SegmentOK
<1>8. /\ Held(new) = {seg.rows[k] : k \in 1..n} /\ ToSet(new.rows) = {seg.rows[k] : k \in 1..n}
  BY <1>3, <1>4, <1>5, <1>7, SegmentIs
<1>9. Held(seg) = {seg.rows[k] : k \in 1..seg.synced} /\ ToSet(seg.rows) = {seg.rows[k] : k \in 1..Len(seg.rows)}
  BY SegmentIs
<1>10. \A k \in 1..seg.synced : k \in 1..n
  BY <1>2
<1> QED BY <1>3, <1>7, <1>8, <1>9, <1>10

-----------------------------------------------------------------------------
(* What a step leaves alone                                                *)

\* The two action properties, as far as the invariant does not imply them.
KeptRows   == \A i \in Durable : i \in Durable' \/ Lost(i)
GrownViews == \A h \in Pinned \cap Pinned' : IsPrefix(disk[h].rows, disk'[h].rows)

LEMMA WorldFrame ==
  ASSUME WorldOK, UNCHANGED <<t, offset, rows>>, first' \in 1..(Len(rows) + 1),
         NoFault \/ \E kind : Fault(kind)
  PROVE  WorldOK'
<1>1. faults' \in 0..FaultLimit
  BY Amounts DEF WorldOK, NoFault, Fault
<1> QED BY <1>1 DEF WorldOK, Row

LEMMA PinnedIs ==
  ASSUME ViewOK
  PROVE  Pinned \subseteq DOMAIN disk
BY DEF ViewOK, Pinned

LEMMA SameDisk ==
  ASSUME DiskOK, ViewOK, UNCHANGED disk
  PROVE  KeptRows /\ GrownViews
<1>1. \A h \in Pinned : IsPrefix(disk[h].rows, disk[h].rows)
  BY PinnedIs, SegmentIs, SamePrefix DEF DiskOK
<1> QED BY <1>1 DEF KeptRows, GrownViews, Durable

LEMMA DiskFrame ==
  ASSUME DiskOK, UNCHANGED <<disk, rows>>
  PROVE  DiskOK'
<1>1. \A h \in DOMAIN disk : SegmentOK(disk[h], h)'
  BY DEF DiskOK, SegmentOK, Hour
<1> QED BY <1>1 DEF DiskOK

\* What counts as committed is what counted as committed or is durable.
LEMMA CommittedFrame ==
  ASSUME WorldOK, SessionOK, CommittedOK, KeptRows, rows' = rows, t <= t',
         t' \in Nat, copied \subseteq copied',
         \A i \in committed' : i \in committed \/ i \in Durable'
  PROVE  CommittedOK'
<1>1. SUFFICES ASSUME NEW i \in committed', i \notin Durable' PROVE Lost(i)'
  BY DEF CommittedOK
<1>2. i \in committed /\ i \in DOMAIN rows
  BY <1>1 DEF SessionOK
<1>3. Lost(i)
  BY <1>1, <1>2 DEF CommittedOK, KeptRows
<1>4. rows[i].born \in Nat /\ t \in Nat /\ Retention \in Nat
  BY <1>2, HourIs, Amounts DEF WorldOK
<1> QED BY <1>3, <1>4 DEF Lost

\* The clock's invariants speak of the clock, the disk and the rows.
LEMMA ClockFrame ==
  ASSUME ClockOK, UNCHANGED <<offset, rows, first, disk, status, anchor>>,
         Trusting' => Trusting, "loaded" \in flags' <=> "loaded" \in flags,
         "uncertain" \in flags => "uncertain" \in flags'
  PROVE  ClockOK'
<1>1. TrustOK'
  BY DEF ClockOK, TrustOK
<1>2. SyncOK' /\ BlindOK' /\ DoubtOK'
  BY DEF ClockOK, SyncOK, BlindOK, DoubtOK, Blind, Unlike, Right
<1>3. RightOK'
  BY DEF ClockOK, RightOK, OnDisk, RowsOf, Right
<1> QED BY <1>1, <1>2, <1>3 DEF ClockOK

\* A step of the control: it changes what is known of the pass, of the downloads
\* or of the stop.
LEMMA ControlFrame ==
  ASSUME ArchiveInv,
         UNCHANGED <<t, offset, rows, first, disk, status, copied, committed, lengths, anchor>>,
         NoFault \/ \E kind : Fault(kind), observed' \subseteq DOMAIN rows,
         "recovery" \in flags => "recovery" \in flags',
         "loaded" \in flags' <=> "loaded" \in flags,
         "uncertain" \in flags => "uncertain" \in flags', Trusting' => Trusting
  PROVE  /\ WorldOK' /\ DiskOK' /\ SessionOK' /\ IndexOK' /\ CommittedOK' /\ StatusOK' /\ ClockOK'
         /\ KeptRows /\ GrownViews
<1>1. WorldOK' /\ DiskOK' /\ KeptRows /\ GrownViews
  BY WorldFrame, DiskFrame, SameDisk DEF ArchiveInv, WorldOK
<1>2. SessionOK' /\ StatusOK'
  BY DEF ArchiveInv, SessionOK, StatusOK, Hours
<1>3. IndexOK'
  BY DEF ArchiveInv, IndexOK, OnDisk, RowsOf
<1>4. CommittedOK'
  BY <1>1, CommittedFrame DEF ArchiveInv, WorldOK
<1>5. ClockOK'
  BY ClockFrame DEF ArchiveInv
<1> QED BY <1>1, <1>2, <1>3, <1>4, <1>5

\* A stop is scheduled once it is asked for and no download is left.
LEMMA ScheduleStopIs ==
  ASSUME NEW fl, NEW ph \in [Downloads -> Phases]
  PROVE  /\ fl \subseteq ScheduleStop(fl, ph) /\ ScheduleStop(fl, ph) \subseteq fl \cup {"scheduled"}
         /\ "scheduled" \in ScheduleStop(fl, ph) \ fl =>
              "stopping" \in fl /\ \A d \in Downloads : ph[d] = "idle"
<1> QED BY DEF ScheduleStop, Active

\* The end of a pass: it may leave a recovery due or a gap noted.
LEMMA EndPassIs ==
  ASSUME ArchiveInv, NEW fl, flags \subseteq fl, fl \subseteq flags \cup {"recovery", "gap"},
         EndPass(fl), UNCHANGED <<rows, first, phase, anchor>>
  PROVE  /\ WorkerOK' /\ FlagsOK' /\ FreshOK' /\ RecoverOK' /\ ~ Trusting'
         /\ "recovery" \in fl => "recovery" \in flags'
         /\ "loaded" \in flags' <=> "loaded" \in flags
         /\ "uncertain" \in flags' <=> "uncertain" \in flags
<1>1. worker' = Idle /\ flags' = ScheduleStop(fl, phase) /\ phase \in [Downloads -> Phases]
  BY DEF EndPass, ArchiveInv, ViewOK
<1>2. /\ fl \subseteq flags' /\ flags' \subseteq fl \cup {"scheduled"}
      /\ "scheduled" \in flags' \ fl => "stopping" \in fl /\ \A d \in Downloads : phase[d] = "idle"
  BY <1>1, ScheduleStopIs
<1>3. worker'.step = "idle" /\ WorkerOK'
  BY <1>1 DEF Idle, WorkerOK, Steps
<1>4. \A f : f \in flags' <=> f \in flags \/ (f \in {"recovery", "gap"} /\ f \in fl)
                                        \/ (f = "scheduled" /\ f \in flags')
  BY <1>2
<1>5. FlagsOK'
  <2>1. FlagsOK
    BY DEF ArchiveInv
  <2>2. flags' \subseteq Flags
    BY <2>1, <1>2 DEF FlagsOK, Flags
  <2>3. "scheduled" \in flags' \/ "closed" \in flags' =>
          "stopping" \in flags' /\ \A d \in Downloads : phase[d] = "idle"
    BY <2>1, <1>2, <1>4 DEF FlagsOK
  <2> QED BY <2>1, <2>2, <2>3, <1>3, <1>4 DEF FlagsOK, LockFree
<1>6. FreshOK' /\ RecoverOK' /\ ~ Trusting'
  BY <1>3, <1>4 DEF ArchiveInv, FreshOK, RecoverOK, Trusting, LockFree
<1> QED BY <1>2, <1>3, <1>4, <1>5, <1>6

-----------------------------------------------------------------------------
(* The world                                                               *)

LEMMA TickKeeps ==
  ASSUME ArchiveInv, Tick
  PROVE  ArchiveInv' /\ KeptRows /\ GrownViews
<1> USE DEF Tick, durable, session
<1>1. WorldOK' /\ t' \in Nat /\ t <= t'
  <2>1. t \in 0..MaxTime /\ t' \in 0..MaxTime /\ t' = t + 1
    BY Amounts DEF ArchiveInv, WorldOK
  <2>2. \A i \in DOMAIN rows : rows[i].born \in Nat /\ rows[i].born <= t
    BY HourIs DEF ArchiveInv, WorldOK
  <2>3. \A i \in DOMAIN rows : rows[i].born <= t'
    BY <2>1, <2>2
  <2> QED BY <2>1, <2>3, Amounts DEF ArchiveInv, WorldOK, Row
<1>2. DiskOK' /\ KeptRows /\ GrownViews
  BY DiskFrame, SameDisk DEF ArchiveInv
<1>3. SessionOK' /\ StatusOK' /\ ViewOK'
  BY DEF ArchiveInv, SessionOK, StatusOK, ViewOK, Hours
<1>4. WorkerOK' /\ FlagsOK' /\ FreshOK' /\ RecoverOK'
  BY DEF ArchiveInv, WorkerOK, FlagsOK, FreshOK, RecoverOK, LockFree, OnDisk, RowsOf, Hours
<1>5. IndexOK'
  BY DEF ArchiveInv, IndexOK, OnDisk, RowsOf
<1>6. CommittedOK'
  BY <1>1, <1>2, CommittedFrame DEF ArchiveInv
<1>7. ClockOK'
  BY ClockFrame DEF ArchiveInv, Trusting
<1> QED BY <1>1, <1>2, <1>3, <1>4, <1>5, <1>6, <1>7 DEF ArchiveInv

\* A cycle adds a row that no set of rows in the archive has yet.
LEMMA CycleKeeps ==
  ASSUME ArchiveInv, Cycle
  PROVE  ArchiveInv' /\ KeptRows /\ GrownViews
<1> USE DEF Cycle, world, session
<1> DEFINE new == [born |-> t, ts |-> Wall]
<1>1. /\ rows \in Seq(Row) /\ Len(rows) \in Nat /\ DOMAIN rows = 1..Len(rows) /\ new \in Row
      /\ new.born = t /\ new.ts = t + offset
  BY Amounts DEF ArchiveInv, WorldOK, Row, Wall
<1> HIDE DEF new
<1>2. /\ rows' \in Seq(Row) /\ Len(rows') = Len(rows) + 1 /\ DOMAIN rows' = 1..(Len(rows) + 1)
      /\ \A i \in DOMAIN rows : rows'[i] = rows[i]
      /\ rows'[Len(rows) + 1] = new
  BY <1>1 DEF new
<1>3. DOMAIN rows \subseteq DOMAIN rows'
  BY <1>1, <1>2
<1>4. WorldOK'
  <2>1. \A i \in DOMAIN rows' : rows'[i].ts \in {rows'[i].born, rows'[i].born + Jump} /\ rows'[i].born <= t
    <3>1. SUFFICES ASSUME NEW i \in DOMAIN rows'
                   PROVE  rows'[i].ts \in {rows'[i].born, rows'[i].born + Jump} /\ rows'[i].born <= t
      OBVIOUS
    <3>2. CASE i \in DOMAIN rows
      BY <3>2, <1>2 DEF ArchiveInv, WorldOK
    <3>3. CASE i = Len(rows) + 1
      BY <3>3, <1>1, <1>2, Amounts DEF ArchiveInv, WorldOK
    <3> QED BY <1>1, <1>2, <3>2, <3>3
  <2>2. Len(rows') <= MaxRows /\ first' \in 1..(Len(rows') + 1)
    BY <1>1, <1>2, Amounts DEF ArchiveInv, WorldOK
  <2>3. t' \in 0..MaxTime /\ offset' \in {0, Jump} /\ faults' \in 0..FaultLimit
    BY DEF ArchiveInv, WorldOK
  <2> QED BY <2>1, <2>2, <2>3, <1>2 DEF WorldOK, Row
<1>5. DiskOK'
  <2>1. ASSUME NEW h \in DOMAIN disk PROVE SegmentOK(disk[h], h)'
    <3>1. SegmentOK(disk[h], h) /\ Len(disk[h].rows) \in Nat /\ disk[h].rows \in Seq(DOMAIN rows)
      BY SegmentIs DEF ArchiveInv, DiskOK, SegmentOK
    <3>2. disk[h].rows \in Seq(DOMAIN rows')
      BY <3>1, <1>3
    <3>3. \A n \in DOMAIN disk[h].rows : disk[h].rows[n] \in DOMAIN rows
      BY <3>1
    <3>4. \A n \in DOMAIN disk[h].rows : Hour(disk[h].rows[n])' = h
      BY <3>1, <3>3, <1>2 DEF SegmentOK, Hour
    <3> QED BY <3>1, <3>2, <3>4 DEF SegmentOK
  <2> QED BY <2>1 DEF ArchiveInv, DiskOK, Hours
<1>6. KeptRows /\ GrownViews
  BY SameDisk DEF ArchiveInv
<1>7. SessionOK' /\ StatusOK' /\ ViewOK'
  BY <1>3 DEF ArchiveInv, SessionOK, StatusOK, ViewOK, Hours
<1>8. WorkerOK'
  <2>1. \A i \in first..Len(rows) : i \in first'..Len(rows')
    BY <1>1, <1>2 DEF ArchiveInv, WorldOK
  <2> QED BY <2>1, <1>2 DEF ArchiveInv, WorkerOK, OnDisk, RowsOf, Hours
<1>9. FlagsOK' /\ FreshOK' /\ RecoverOK' /\ IndexOK'
  BY DEF ArchiveInv, FlagsOK, FreshOK, RecoverOK, LockFree, IndexOK, OnDisk, RowsOf
<1>10. CommittedOK'
  BY <1>2 DEF ArchiveInv, CommittedOK, Lost, Durable, SessionOK
<1>11. TrustOK' /\ SyncOK' /\ DoubtOK'
  BY DEF ArchiveInv, ClockOK, TrustOK, Trusting, SyncOK, DoubtOK, Unlike
<1>12. BlindOK'
  <2>1. SUFFICES ASSUME offset = Jump, Blind, NEW i \in first..Len(rows') PROVE ~ Right(i)'
    BY DEF BlindOK, Blind, Unlike
  <2>2. \A k \in first..Len(rows) : ~ Right(k)
    BY <2>1 DEF ArchiveInv, ClockOK, BlindOK
  <2>3. CASE i = Len(rows) + 1
    BY <2>1, <2>3, <1>1, <1>2, Amounts DEF Right, ArchiveInv, WorldOK
  <2>4. CASE i \in first..Len(rows)
    BY <2>2, <2>4, <1>1, <1>2 DEF Right, ArchiveInv, WorldOK
  <2> QED BY <2>1, <2>3, <2>4, <1>1, <1>2 DEF ArchiveInv, WorldOK
<1>13. RightOK'
  <2>1. \A i \in OnDisk : i \in DOMAIN rows
    BY RowsPlaced DEF ArchiveInv
  <2> QED BY <2>1, <1>2 DEF ArchiveInv, ClockOK, RightOK, OnDisk, RowsOf, Right
<1> QED BY <1>4, <1>5, <1>6, <1>7, <1>8, <1>9, <1>10, <1>11, <1>12, <1>13 DEF ArchiveInv, ClockOK

\* A clock that runs ahead of an anchor unlike it is told from the right one.
LEMMA ClockMovesKeeps ==
  ASSUME ArchiveInv, ClockMoves
  PROVE  ArchiveInv' /\ KeptRows /\ GrownViews
<1> USE DEF ClockMoves, durable, session
<1>1. WorldOK'
  BY Amounts DEF ArchiveInv, WorldOK, Row, Fault, NoFault
<1>2. DiskOK' /\ KeptRows /\ GrownViews
  BY DiskFrame, SameDisk DEF ArchiveInv
<1>3. SessionOK' /\ StatusOK' /\ ViewOK'
  BY DEF ArchiveInv, SessionOK, StatusOK, ViewOK, Hours
<1>4. WorkerOK' /\ FlagsOK' /\ FreshOK' /\ RecoverOK'
  BY DEF ArchiveInv, WorkerOK, FlagsOK, FreshOK, RecoverOK, LockFree, OnDisk, RowsOf, Hours
<1>5. IndexOK'
  BY DEF ArchiveInv, IndexOK, OnDisk, RowsOf
<1>6. CommittedOK'
  BY DEF ArchiveInv, CommittedOK, Lost, Durable
<1>7. TrustOK' /\ SyncOK' /\ DoubtOK'
  BY DEF ArchiveInv, ClockOK, TrustOK, Trusting, LockFree, SyncOK, DoubtOK, Unlike
<1>8. BlindOK'
  <2>1. SUFFICES ASSUME offset' = Jump, Blind, NEW i \in first..Len(rows) PROVE ~ Right(i)
    BY DEF BlindOK, Blind, Unlike, Right
  <2>2. CASE rows = <<>>
    <3>1. Len(rows) = 0 /\ first \in Nat /\ first >= 1
      BY <2>2 DEF ArchiveInv, WorldOK
    <3> QED BY <3>1
  <2>3. ~ \E s \in status : s.anchor \notin {{}, {Jump}}
    BY <2>1 DEF ArchiveInv, ClockOK, SyncOK, Blind, Unlike
  <2> QED BY <2>1, <2>2, <2>3, Amounts
<1>9. RightOK'
  BY DEF ArchiveInv, ClockOK, RightOK, OnDisk, RowsOf, Right
<1> QED BY <1>1, <1>2, <1>3, <1>4, <1>5, <1>6, <1>7, <1>8, <1>9 DEF ArchiveInv, ClockOK

-----------------------------------------------------------------------------
(* The event loop: the capture of a pass, the downloads, the stop          *)

LEMMA CaptureKeeps ==
  ASSUME ArchiveInv, Capture
  PROVE  ArchiveInv' /\ KeptRows /\ GrownViews
<1> USE DEF Capture, world, durable
<1>1. Live \subseteq first..Len(rows) /\ Live \subseteq DOMAIN rows
  BY DEF Live, ArchiveInv, WorldOK
<1>2. /\ worker'.step = "queued" /\ worker'.rows \subseteq Live /\ worker'.left = {} /\ worker'.then = "idle"
      /\ worker' = [step |-> "queued", rows |-> worker'.rows, left |-> {}, then |-> "idle"]
  BY DEF Flush, Idle
<1>3. flags \subseteq flags' /\ flags' \subseteq flags \cup {"gap"} /\ observed' \subseteq DOMAIN rows
  BY <1>1 DEF ArchiveInv, SessionOK
<1>4. ~ Trusting'
  BY <1>2 DEF Trusting
<1>5. /\ WorldOK' /\ DiskOK' /\ SessionOK' /\ IndexOK' /\ CommittedOK' /\ StatusOK' /\ ClockOK'
      /\ KeptRows /\ GrownViews
  <2>1. UNCHANGED <<t, offset, rows, first, disk, status, copied, committed, lengths, anchor>> /\ NoFault
    BY DEF NoFault
  <2>2. /\ "recovery" \in flags => "recovery" \in flags'
        /\ "loaded" \in flags' <=> "loaded" \in flags
        /\ "uncertain" \in flags => "uncertain" \in flags'
    BY <1>3
  <2> QED BY <2>1, <2>2, <1>3, <1>4, ControlFrame
<1>6. WorkerOK' /\ RecoverOK' /\ ViewOK'
  <2>1. worker' \in [step : Steps, rows : SUBSET (first..Len(rows)), left : SUBSET Hours,
                     then : {"idle", "time", "select"}]
    BY <1>1, <1>2 DEF Steps
  <2> QED BY <2>1, <1>2 DEF ArchiveInv, WorkerOK, RecoverOK, ViewOK, Hours
<1>7. FlagsOK' /\ FreshOK'
  BY <1>2, <1>3 DEF ArchiveInv, FlagsOK, FreshOK, LockFree, Flags
<1> QED BY <1>5, <1>6, <1>7 DEF ArchiveInv

\* What the steps of the downloads leave of the pass.
LEMMA PassFrame ==
  ASSUME WorkerOK, RecoverOK, UNCHANGED <<worker, rows, first, disk>>
  PROVE  WorkerOK' /\ RecoverOK' /\ (Trusting' <=> Trusting)
BY DEF WorkerOK, RecoverOK, Trusting, OnDisk, RowsOf, Hours

LEMMA ReserveKeeps ==
  ASSUME ArchiveInv, NEW d \in Downloads, Reserve(d)
  PROVE  ArchiveInv' /\ KeptRows /\ GrownViews
<1> USE DEF Reserve, world, durable, session
<1>1. /\ WorldOK' /\ DiskOK' /\ SessionOK' /\ IndexOK' /\ CommittedOK' /\ StatusOK' /\ ClockOK'
      /\ KeptRows /\ GrownViews /\ WorkerOK' /\ RecoverOK'
  BY PassFrame, ControlFrame DEF ArchiveInv, NoFault, SessionOK
<1>2. ViewOK' /\ FlagsOK' /\ FreshOK'
  BY DEF ArchiveInv, ViewOK, FlagsOK, FreshOK, LockFree, Phases
<1> QED BY <1>1, <1>2 DEF ArchiveInv

LEMMA FinishDownloadKeeps ==
  ASSUME ArchiveInv, NEW d \in Downloads, FinishDownload(d)
  PROVE  ArchiveInv' /\ KeptRows /\ GrownViews
<1> USE DEF FinishDownload, world, durable, session
<1>1. /\ WorldOK' /\ DiskOK' /\ SessionOK' /\ IndexOK' /\ CommittedOK' /\ StatusOK' /\ ClockOK'
      /\ KeptRows /\ GrownViews /\ WorkerOK' /\ RecoverOK'
  BY PassFrame, ControlFrame DEF ArchiveInv, NoFault, SessionOK
<1>2. ViewOK' /\ FlagsOK' /\ FreshOK'
  BY DEF ArchiveInv, ViewOK, FlagsOK, FreshOK, LockFree, Phases
<1> QED BY <1>1, <1>2 DEF ArchiveInv

\* A stop that is scheduled once a download has ended.
LEMMA StopFlags ==
  ASSUME FlagsOK, FreshOK, NEW fl, fl \subseteq Flags, flags \ {"uncertain", "scheduled"} \subseteq fl,
         \A f \in {"recovery", "loaded", "ready", "lease", "closed", "attest"} : f \in fl => f \in flags,
         "scheduled" \in fl => "scheduled" \in flags, "attest" \in fl => "uncertain" \in fl,
         phase \in [Downloads -> Phases], phase' \in [Downloads -> Phases],
         flags' = ScheduleStop(fl, phase'), worker' = worker, "loaded" \in flags \/ anchor' = anchor,
         \A d \in Downloads : phase[d] = "idle" => phase'[d] = "idle"
  PROVE  /\ FlagsOK' /\ FreshOK'
         /\ "recovery" \in flags' <=> "recovery" \in flags
         /\ "loaded" \in flags' <=> "loaded" \in flags
         /\ "uncertain" \in flags' <=> "uncertain" \in fl
<1>1. /\ fl \subseteq flags' /\ flags' \subseteq fl \cup {"scheduled"}
      /\ "scheduled" \in flags' \ fl => "stopping" \in fl /\ \A d \in Downloads : phase'[d] = "idle"
  BY ScheduleStopIs
<1>2. \A f : f # "scheduled" => (f \in flags' <=> f \in fl)
  BY <1>1
<1>3. FlagsOK'
  <2>1. flags' \subseteq Flags /\ ("attest" \in flags' => "uncertain" \in flags')
    BY <1>1, <1>2 DEF Flags
  <2>2. "scheduled" \in flags' \/ "closed" \in flags' =>
          "stopping" \in flags' /\ \A d \in Downloads : phase'[d] = "idle"
    BY <1>1, <1>2 DEF FlagsOK
  <2>3. "ready" \in flags' /\ "stopping" \notin flags' => "lease" \in flags'
    BY <1>1, <1>2 DEF FlagsOK
  <2> QED BY <2>1, <2>2, <2>3, <1>2 DEF FlagsOK, LockFree
<1>4. FreshOK'
  BY <1>2 DEF FreshOK, LockFree
<1> QED BY <1>2, <1>3, <1>4

LEMMA CloseDownloadKeeps ==
  ASSUME ArchiveInv, NEW d \in Downloads, CloseDownload(d)
  PROVE  ArchiveInv' /\ KeptRows /\ GrownViews
<1> USE DEF CloseDownload, world, durable, session
<1>1. ViewOK'
  BY DEF ArchiveInv, ViewOK, Phases
<1>2. FlagsOK' /\ FreshOK' /\ ("recovery" \in flags' <=> "recovery" \in flags)
      /\ ("loaded" \in flags' <=> "loaded" \in flags) /\ ("uncertain" \in flags' <=> "uncertain" \in flags)
  <2>1. phase \in [Downloads -> Phases] /\ phase' \in [Downloads -> Phases]
    BY <1>1 DEF ArchiveInv, ViewOK
  <2>2. /\ FlagsOK /\ FreshOK /\ flags \subseteq Flags /\ ("attest" \in flags => "uncertain" \in flags)
        /\ \A x \in Downloads : phase[x] = "idle" => phase'[x] = "idle"
    BY <2>1 DEF ArchiveInv, FlagsOK
  <2> QED BY <2>1, <2>2, StopFlags
<1>3. /\ WorldOK' /\ DiskOK' /\ SessionOK' /\ IndexOK' /\ CommittedOK' /\ StatusOK' /\ ClockOK'
      /\ KeptRows /\ GrownViews /\ WorkerOK' /\ RecoverOK'
  BY <1>2, PassFrame, ControlFrame DEF ArchiveInv, NoFault, SessionOK
<1> QED BY <1>1, <1>2, <1>3 DEF ArchiveInv

LEMMA StopKeeps ==
  ASSUME ArchiveInv, Stop
  PROVE  ArchiveInv' /\ KeptRows /\ GrownViews
<1> USE DEF Stop, world, durable, session
<1>1. ViewOK' /\ phase \in [Downloads -> Phases]
  BY DEF ArchiveInv, ViewOK
<1>2. FlagsOK' /\ FreshOK' /\ ("recovery" \in flags' <=> "recovery" \in flags)
      /\ ("loaded" \in flags' <=> "loaded" \in flags) /\ ("uncertain" \in flags' <=> "uncertain" \in flags)
  <2>1. FlagsOK /\ FreshOK
    BY DEF ArchiveInv
  <2> DEFINE fl == flags \cup {"stopping"}
  <2>2. /\ fl \subseteq Flags /\ flags \ {"uncertain", "scheduled"} \subseteq fl
        /\ ("attest" \in fl => "uncertain" \in fl) /\ ("uncertain" \in fl <=> "uncertain" \in flags)
        /\ \A f \in {"recovery", "loaded", "ready", "lease", "closed", "attest"} : f \in fl => f \in flags
        /\ "scheduled" \in fl => "scheduled" \in flags
    BY <2>1 DEF FlagsOK, Flags
  <2>3. flags' = ScheduleStop(fl, phase')
    OBVIOUS
  <2> HIDE DEF fl
  <2> QED BY <1>1, <2>1, <2>2, <2>3, StopFlags
<1>3. /\ WorldOK' /\ DiskOK' /\ SessionOK' /\ IndexOK' /\ CommittedOK' /\ StatusOK' /\ ClockOK'
      /\ KeptRows /\ GrownViews /\ WorkerOK' /\ RecoverOK'
  BY <1>2, PassFrame, ControlFrame DEF ArchiveInv, NoFault, SessionOK
<1> QED BY <1>1, <1>2, <1>3 DEF ArchiveInv

LEMMA FinishStopKeeps ==
  ASSUME ArchiveInv, FinishStop
  PROVE  ArchiveInv' /\ KeptRows /\ GrownViews
<1> USE DEF FinishStop, world, durable, session
<1>1. /\ WorldOK' /\ DiskOK' /\ SessionOK' /\ IndexOK' /\ CommittedOK' /\ StatusOK' /\ ClockOK'
      /\ KeptRows /\ GrownViews /\ WorkerOK' /\ RecoverOK'
  BY PassFrame, ControlFrame DEF ArchiveInv, NoFault, SessionOK
<1>2. ViewOK' /\ FlagsOK' /\ FreshOK'
  BY DEF ArchiveInv, ViewOK, FlagsOK, FreshOK, LockFree, Flags
<1> QED BY <1>1, <1>2 DEF ArchiveInv

-----------------------------------------------------------------------------
(* The pass, where it changes neither the disk nor the clock               *)

\* A pass that ends early.
LEMMA EndPassKeeps ==
  ASSUME ArchiveInv, NEW fl, flags \subseteq fl, fl \subseteq flags \cup {"recovery", "gap"},
         EndPass(fl), NoFault \/ \E kind : Fault(kind),
         UNCHANGED <<world, durable, session, phase, pins>>
  PROVE  ArchiveInv' /\ KeptRows /\ GrownViews
<1> USE DEF world, durable, session
<1>1. /\ WorkerOK' /\ FlagsOK' /\ FreshOK' /\ RecoverOK' /\ ~ Trusting'
      /\ "recovery" \in fl => "recovery" \in flags'
      /\ "loaded" \in flags' <=> "loaded" \in flags
      /\ "uncertain" \in flags' <=> "uncertain" \in flags
  BY EndPassIs
<1>2. /\ WorldOK' /\ DiskOK' /\ SessionOK' /\ IndexOK' /\ CommittedOK' /\ StatusOK' /\ ClockOK'
      /\ KeptRows /\ GrownViews
  BY <1>1, ControlFrame DEF ArchiveInv, SessionOK
<1>3. ViewOK'
  BY DEF ArchiveInv, ViewOK
<1> QED BY <1>1, <1>2, <1>3 DEF ArchiveInv

LEMMA EndingsKeep ==
  ASSUME ArchiveInv, RecoveryPinned \/ Unproved \/ Halt \/ Pruned \/ PassFails
  PROVE  ArchiveInv' /\ KeptRows /\ GrownViews
<1>1. UNCHANGED <<world, durable, session, phase, pins>> /\ (NoFault \/ \E kind : Fault(kind))
  BY DEF RecoveryPinned, Unproved, Halt, Pruned, PassFails, NoFault
<1>2. CASE EndPass(flags)
  BY <1>1, <1>2, EndPassKeeps
<1>3. CASE EndPass(flags \cup {"recovery"})
  BY <1>1, <1>3, EndPassKeeps
<1>4. CASE EndPass(flags \cup {"recovery", "gap"})
  BY <1>1, <1>4, EndPassKeeps
<1> QED BY <1>2, <1>3, <1>4 DEF RecoveryPinned, Unproved, Halt, Pruned, PassFails, Failing

LEMMA WrittenKeeps ==
  ASSUME ArchiveInv, Written
  PROVE  ArchiveInv' /\ KeptRows /\ GrownViews
<1> USE DEF Written, world, durable, session
<1>1. worker'.step = "prune" /\ WorkerOK' /\ RecoverOK'
  BY DEF ArchiveInv, SessionOK, WorkerOK, RecoverOK, Steps, Hours
<1>2. Trusting
  BY DEF Trusting
<1>3. /\ WorldOK' /\ DiskOK' /\ SessionOK' /\ IndexOK' /\ CommittedOK' /\ StatusOK' /\ ClockOK'
      /\ KeptRows /\ GrownViews
  BY <1>2, ControlFrame DEF ArchiveInv, SessionOK, NoFault
<1>4. ViewOK' /\ FlagsOK' /\ FreshOK'
  BY <1>1 DEF ArchiveInv, ViewOK, FlagsOK, FreshOK, LockFree
<1> QED BY <1>1, <1>3, <1>4 DEF ArchiveInv

\* A pass at its next step, with other rows.
Moved(step, rs) == [worker EXCEPT !.step = step, !.rows = rs]

LEMMA MovedIs ==
  ASSUME WorkerOK, NEW s \in Steps, NEW rs \in SUBSET (first..Len(rows))
  PROVE  /\ Moved(s, rs) = [step |-> s, rows |-> rs, left |-> worker.left, then |-> worker.then]
         /\ Moved(s, rs) \in [step : Steps, rows : SUBSET (first..Len(rows)), left : SUBSET Hours,
                              then : {"idle", "time", "select"}]
<1> DEFINE W == [step : Steps, rows : SUBSET (first..Len(rows)), left : SUBSET Hours,
                 then : {"idle", "time", "select"}]
           x == [worker EXCEPT !.step = s]
           y == [x EXCEPT !.rows = rs]
<1>1. x \in W /\ x = [step |-> s, rows |-> worker.rows, left |-> worker.left, then |-> worker.then]
  BY DEF WorkerOK
<1>2. Moved(s, rs) = y
  BY DEF Moved
<1> HIDE DEF x
<1>3. y \in W /\ y = [step |-> s, rows |-> rs, left |-> worker.left, then |-> worker.then]
  BY <1>1
<1> QED BY <1>2, <1>3

\* What a pass selects is not committed, so it is not on the disk.
LEMMA SelectKeeps ==
  ASSUME ArchiveInv, Select
  PROVE  ArchiveInv' /\ KeptRows /\ GrownViews
<1> USE DEF world, durable, session
<1> DEFINE early == {i \in worker.rows : rows[i].ts > Wall}
           fresh == {i \in worker.rows \ (early \cup committed \cup Unserializable) :
                       rows[i].ts >= Cutoff(Wall)}
<1>1. /\ worker' = Moved("write", fresh)
      /\ flags' = (IF early = {} THEN flags ELSE flags \cup {"gap"})
      /\ worker.step = "select" /\ UNCHANGED <<world, durable, session, phase, pins>> /\ NoFault
  BY DEF Select, NoFault, Moved
<1>2. fresh \in SUBSET worker.rows /\ fresh \cap committed = {}
  OBVIOUS
<1> HIDE DEF early, fresh
<1>3. flags \subseteq flags' /\ flags' \subseteq flags \cup {"gap"}
  BY <1>1
<1>4. worker'.step = "write" /\ WorkerOK' /\ RecoverOK'
  <2>1. fresh \cap OnDisk = {}
    BY <1>1, <1>2 DEF ArchiveInv, IndexOK, FlagsOK
  <2>2. worker' \in [step : Steps, rows : SUBSET (first..Len(rows)), left : SUBSET Hours,
                     then : {"idle", "time", "select"}] /\ worker'.step = "write" /\ worker'.rows = fresh
    <3>1. worker.rows \subseteq first..Len(rows) /\ WorkerOK /\ "write" \in Steps
      BY DEF ArchiveInv, WorkerOK, Steps
    <3>2. fresh \in SUBSET (first..Len(rows))
      BY <1>2, <3>1
    <3>3. /\ Moved("write", fresh) = [step |-> "write", rows |-> fresh, left |-> worker.left,
                                     then |-> worker.then]
          /\ Moved("write", fresh) \in [step : Steps, rows : SUBSET (first..Len(rows)),
                                       left : SUBSET Hours, then : {"idle", "time", "select"}]
      BY <3>1, <3>2, MovedIs
    <3>4. worker' = Moved("write", fresh)
      BY <1>1
    <3> HIDE DEF Moved
    <3> QED BY <3>3, <3>4
  <2>3. WorkerOK'
    BY <1>1, <2>1, <2>2 DEF WorkerOK, OnDisk, RowsOf, Hours
  <2> QED BY <2>2, <2>3 DEF RecoverOK
<1>5. Trusting
  BY <1>1 DEF Trusting
<1>6. /\ WorldOK' /\ DiskOK' /\ SessionOK' /\ IndexOK' /\ CommittedOK' /\ StatusOK' /\ ClockOK'
      /\ KeptRows /\ GrownViews
  BY <1>1, <1>3, <1>5, ControlFrame DEF ArchiveInv, SessionOK, NoFault
<1>7. ViewOK' /\ FlagsOK' /\ FreshOK'
  BY <1>1, <1>3, <1>4 DEF ArchiveInv, ViewOK, FlagsOK, FreshOK, LockFree, Flags
<1> QED BY <1>4, <1>6, <1>7 DEF ArchiveInv

-----------------------------------------------------------------------------
(* The clock: the status file, the comparison, the proof                   *)

Doubted(fl) == fl \cap Halves

LEMMA SavedIs ==
  ASSUME NEW a \in Anchors, NEW fl, "attest" \in fl => "uncertain" \in fl, status' = Saved(a, fl), anchor' = a
  PROVE  /\ StatusOK' /\ \A s \in status' : s.anchor = a
<1>1. status' = {[anchor |-> a, boot |-> TRUE, doubts |-> Doubted(fl)]}
  BY DEF Saved, Doubted, Halves
<1>2. Doubted(fl) \in SUBSET Halves /\ ("attest" \in Doubted(fl) => "uncertain" \in Doubted(fl))
  BY DEF Doubted, Halves
<1>3. Halves' = Halves /\ Anchors' = Anchors
  BY DEF Halves, Anchors
<1> HIDE DEF Halves, Anchors
<1>4. \E x \in Anchors, b \in BOOLEAN, ds \in SUBSET Halves :
        /\ status' = {[anchor |-> x, boot |-> b, doubts |-> ds]}
        /\ "attest" \in ds => "uncertain" \in ds
  BY <1>1, <1>2
<1>5. StatusOK'
  BY <1>3, <1>4 DEF StatusOK
<1>6. \A s \in status' : s.anchor = a
  BY <1>1
<1> QED BY <1>5, <1>6

LEMMA StatusIs ==
  ASSUME StatusOK, NEW s \in status
  PROVE  /\ s.anchor \in Anchors /\ s.boot \in BOOLEAN /\ s.doubts \in SUBSET Halves
         /\ "attest" \in s.doubts => "uncertain" \in s.doubts
         /\ status = {s}
<1>1. PICK a \in Anchors, b \in BOOLEAN, ds \in SUBSET Halves :
        /\ status = {[anchor |-> a, boot |-> b, doubts |-> ds]}
        /\ "attest" \in ds => "uncertain" \in ds
  BY DEF StatusOK
<1>2. s = [anchor |-> a, boot |-> b, doubts |-> ds]
  BY <1>1
<1> HIDE DEF Anchors, Halves
<1> QED BY <1>1, <1>2

LEMMA CheckedIs ==
  ASSUME FlagsOK
  PROVE  /\ Checked(flags) \subseteq Flags /\ flags \ {"uncertain"} \subseteq Checked(flags)
         /\ Checked(flags) \subseteq flags \cup {"uncertain", "gap"}
         /\ "uncertain" \in Checked(flags) <=> ~ Sane
         /\ "attest" \in Checked(flags) => ~ Sane
BY DEF Checked, Sane, FlagsOK, Flags

\* A clock that is compared: what the session then knows of it.
LEMMA AnchoredIs ==
  ASSUME ArchiveInv
  PROVE  /\ Anchored \in Anchors
         /\ Sane => Anchored = {offset}
         /\ ~ Sane => Anchored = anchor
         /\ Unlike(anchor) => Unlike(Anchored)
         /\ Unlike(Anchored) => Unlike(anchor) \/ offset # Jump
<1>1. anchor \in Anchors /\ {offset} \in Anchors
  <2>1. offset \in -MaxTime..Jump
    BY Amounts DEF ArchiveInv, WorldOK
  <2> QED BY <2>1 DEF ArchiveInv, StatusOK, Anchors
<1> QED BY <1>1 DEF Anchored, Sane, Unlike

LEMMA ComparedKeeps ==
  ASSUME ArchiveInv, "loaded" \in flags, "loaded" \in flags', UNCHANGED <<offset, rows, first, disk>>,
         anchor' = Anchored, ~ Sane => "uncertain" \in flags',
         \/ status' = status /\ ~ Trusting'
         \/ status' = Saved(Anchored, flags') /\ (Trusting' => Sane) /\ ("attest" \in flags' => ~ Sane)
         \/ \E fl : status' = Saved(Anchored, fl) /\ ~ Trusting' /\ ("attest" \in fl => "uncertain" \in fl)
  PROVE  StatusOK' /\ ClockOK'
<1>1. /\ anchor' \in Anchors /\ StatusOK
      /\ ClockOK /\ DiskOK /\ WorldOK
  BY AnchoredIs DEF ArchiveInv
<1>2. StatusOK' /\ (status' = status \/ \A s \in status' : s.anchor = anchor')
                /\ (Trusting' => Sane /\ \A s \in status' : s.anchor = anchor')
  <2>1. CASE status' = status /\ ~ Trusting'
    BY <2>1, <1>1 DEF StatusOK, Anchors, Halves
  <2>2. CASE status' = Saved(Anchored, flags') /\ (Trusting' => Sane) /\ ("attest" \in flags' => ~ Sane)
    BY <2>2, <1>1, SavedIs
  <2>3. CASE \E fl : status' = Saved(Anchored, fl) /\ ~ Trusting' /\ ("attest" \in fl => "uncertain" \in fl)
    BY <2>3, <1>1, SavedIs
  <2> QED BY <2>1, <2>2, <2>3
<1>3. TrustOK'
  BY <1>2, AnchoredIs DEF TrustOK
<1>4. SyncOK'
  BY <1>1, <1>2, AnchoredIs DEF ClockOK, SyncOK, Unlike
<1>5. BlindOK'
  <2>1. SUFFICES ASSUME offset = Jump, ~ Unlike(anchor'), NEW i \in first..Len(rows) PROVE ~ Right(i)
    BY DEF BlindOK, Blind, Unlike, Right
  <2>2. ~ Unlike(anchor)
    BY <2>1, AnchoredIs
  <2> QED BY <2>1, <2>2, <1>1 DEF ClockOK, BlindOK, Blind
<1>6. RightOK'
  <2>1. SUFFICES ASSUME NEW i \in OnDisk, Right(i)
                 PROVE  anchor' # {Jump} /\ \A s \in status' : s.anchor # {Jump}
    BY DEF RightOK, OnDisk, RowsOf, Right
  <2>2. anchor # {Jump} /\ (\A s \in status : s.anchor # {Jump}) /\ DOMAIN disk # {}
    BY <2>1, <1>1 DEF ClockOK, RightOK, OnDisk
  <2>3. anchor' # {Jump}
    <3>1. CASE Sane
      BY <3>1, <2>2, <1>1 DEF Sane, Anchored, ClockOK, DoubtOK
    <3>2. CASE ~ Sane
      BY <3>2, <2>2, AnchoredIs
    <3> QED BY <3>1, <3>2
  <2> QED BY <2>2, <2>3, <1>2
<1>7. DoubtOK'
  BY AnchoredIs DEF DoubtOK
<1> QED BY <1>2, <1>3, <1>4, <1>5, <1>6, <1>7 DEF ClockOK

LEMMA RecoveringIs ==
  ASSUME WorkerOK, DiskOK, NEW then \in {"time", "select"}, Recovering(then)
  PROVE  /\ worker' = [step |-> "recover", rows |-> worker.rows, left |-> DOMAIN disk, then |-> then]
         /\ worker' \in [step : Steps, rows : SUBSET (first..Len(rows)), left : SUBSET Hours,
                         then : {"idle", "time", "select"}]
<1> DEFINE W == [step : Steps, rows : SUBSET (first..Len(rows)), left : SUBSET Hours,
                 then : {"idle", "time", "select"}]
           x == [worker EXCEPT !.step = "recover"]
           y == [x EXCEPT !.left = DOMAIN disk]
           z == [y EXCEPT !.then = then]
<1>1. x \in W /\ x = [step |-> "recover", rows |-> worker.rows, left |-> worker.left, then |-> worker.then]
  BY DEF WorkerOK, Steps
<1>2. worker' = z
  BY DEF Recovering
<1> HIDE DEF x
<1>3. y \in W /\ y = [step |-> "recover", rows |-> worker.rows, left |-> DOMAIN disk, then |-> worker.then]
  BY <1>1 DEF DiskOK
<1> HIDE DEF y
<1>4. z \in W /\ z = [step |-> "recover", rows |-> worker.rows, left |-> DOMAIN disk, then |-> then]
  BY <1>3
<1> QED BY <1>2, <1>4

\* Where a pass goes once it has begun: to a recovery, which has all of the disk
\* before it, or to its next step.
LEMMA MovesOn ==
  ASSUME WorkerOK, DiskOK, UNCHANGED <<rows, first, disk>>,
         \/ \E then \in {"time", "select"} : Recovering(then)
         \/ \E s \in {"time", "prove", "select"} : worker' = [worker EXCEPT !.step = s]
  PROVE  WorkerOK' /\ RecoverOK' /\ ~ LockFree'
<1>1. CASE \E then \in {"time", "select"} : Recovering(then)
  <2>1. PICK then \in {"time", "select"} : Recovering(then)
    BY <1>1
  <2>2. /\ worker' = [step |-> "recover", rows |-> worker.rows, left |-> DOMAIN disk, then |-> then]
        /\ worker' \in [step : Steps, rows : SUBSET (first..Len(rows)), left : SUBSET Hours,
                        then : {"idle", "time", "select"}]
    BY <2>1, RecoveringIs
  <2>3. worker'.step = "recover" /\ worker'.left = DOMAIN disk /\ worker'.then # "idle"
    BY <2>2
  <2> QED BY <2>2, <2>3 DEF WorkerOK, RecoverOK, LockFree, Hours
<1>2. CASE \E s \in {"time", "prove", "select"} : worker' = [worker EXCEPT !.step = s]
  <2>1. PICK s \in {"time", "prove", "select"} : worker' = [worker EXCEPT !.step = s]
    BY <1>2
  <2>2. /\ worker'.step = s
        /\ worker' \in [step : Steps, rows : SUBSET (first..Len(rows)), left : SUBSET Hours,
                        then : {"idle", "time", "select"}]
    BY <2>1 DEF WorkerOK, Steps
  <2> QED BY <2>2 DEF WorkerOK, RecoverOK, LockFree, Hours
<1> QED BY <1>1, <1>2

\* The parts of the invariant that a step of the clock leaves alone.
LEMMA ClockStepFrame ==
  ASSUME ArchiveInv, UNCHANGED <<t, offset, rows, first, disk, lengths, observed, committed>>,
         NoFault \/ \E kind : Fault(kind), copied \subseteq copied', copied' \subseteq DOMAIN rows,
         "recovery" \in flags => "recovery" \in flags'
  PROVE  WorldOK' /\ DiskOK' /\ SessionOK' /\ IndexOK' /\ CommittedOK' /\ KeptRows /\ GrownViews
<1>1. WorldOK' /\ DiskOK' /\ KeptRows /\ GrownViews
  BY WorldFrame, DiskFrame, SameDisk DEF ArchiveInv, WorldOK
<1>2. SessionOK'
  BY DEF ArchiveInv, SessionOK, Hours
<1>3. IndexOK'
  BY DEF ArchiveInv, IndexOK, OnDisk, RowsOf
<1>4. CommittedOK'
  BY <1>1, CommittedFrame DEF ArchiveInv, WorldOK
<1> QED BY <1>1, <1>2, <1>3, <1>4

\* The flags of a pass that goes on, once it has read the status file.
LEMMA PassFlags ==
  ASSUME FlagsOK, "loaded" \in flags', ~ LockFree', flags' \subseteq Flags,
         "attest" \in flags' => "uncertain" \in flags', "lease" \in flags',
         UNCHANGED phase, \A f \in {"stopping", "scheduled", "closed"} : f \in flags' <=> f \in flags,
         worker'.step = "recover" /\ worker'.then = "select" => "recovery" \notin flags',
         worker'.step # "recover" => "recovery" \notin flags'
  PROVE  FlagsOK' /\ FreshOK'
BY DEF FlagsOK, FreshOK, LockFree

LEMMA CheckTimeKeeps ==
  ASSUME ArchiveInv, CheckTime
  PROVE  ArchiveInv' /\ KeptRows /\ GrownViews
<1> USE DEF world
<1>1. /\ worker.step = "time" /\ NoFault /\ anchor' = Anchored /\ status' = Saved(Anchored, flags')
      /\ flags' = Checked(flags) \ (IF Sane THEN {"deferred"} ELSE {})
      /\ UNCHANGED <<world, rows, disk, copied, first, observed, committed, lengths, phase, pins>>
      /\ \/ ~ Sane /\ worker' = [worker EXCEPT !.step = "prove"]
         \/ Sane /\ Recovering("select")
         \/ Sane /\ worker' = [worker EXCEPT !.step = "select"]
  BY DEF CheckTime
<1>2. /\ "loaded" \in flags /\ "lease" \in flags /\ "recovery" \notin flags
      /\ FlagsOK
  BY <1>1 DEF ArchiveInv, FlagsOK, FreshOK, LockFree
<1>3. /\ flags' \subseteq Flags /\ flags' \subseteq flags \cup {"uncertain", "gap"}
      /\ flags \ {"uncertain", "deferred"} \subseteq flags'
      /\ "uncertain" \in flags' <=> ~ Sane
      /\ "attest" \in flags' => ~ Sane
  BY <1>1, <1>2, CheckedIs
<1>4. WorkerOK' /\ RecoverOK' /\ ~ LockFree' /\ (Trusting' => Sane)
  <2>1. WorkerOK' /\ RecoverOK' /\ ~ LockFree'
    BY <1>1, MovesOn DEF ArchiveInv
  <2>2. ~ Sane => worker'.step = "prove"
    BY <1>1 DEF ArchiveInv, WorkerOK
  <2> QED BY <2>1, <2>2 DEF Trusting
<1>5. /\ WorldOK' /\ DiskOK' /\ SessionOK' /\ IndexOK' /\ CommittedOK' /\ KeptRows /\ GrownViews
  BY <1>1, <1>2, ClockStepFrame DEF ArchiveInv, SessionOK
<1>6. StatusOK' /\ ClockOK'
  BY <1>1, <1>2, <1>3, <1>4, ComparedKeeps
<1>7. FlagsOK' /\ FreshOK'
  BY <1>1, <1>2, <1>3, <1>4, PassFlags
<1>8. ViewOK'
  BY <1>1 DEF ArchiveInv, ViewOK
<1> QED BY <1>4, <1>5, <1>6, <1>7, <1>8 DEF ArchiveInv

\* A clock that is vouched for is the right one.
LEMMA ProveKeeps ==
  ASSUME ArchiveInv, Prove
  PROVE  ArchiveInv' /\ KeptRows /\ GrownViews
<1> USE DEF world
<1>1. /\ worker.step = "prove" /\ NoFault /\ offset = 0 /\ anchor' = {offset}
      /\ status' = Saved(anchor', flags') /\ flags' = flags \ {"uncertain", "attest", "deferred"}
      /\ copied' = copied \cup UNION {RowsOf(h) : h \in DOMAIN lengths} /\ Recovering("select")
      /\ UNCHANGED <<world, rows, disk, first, observed, committed, lengths, phase, pins>>
  BY DEF Prove, Vouched
<1>2. /\ "loaded" \in flags /\ "lease" \in flags /\ "recovery" \notin flags
      /\ FlagsOK
  BY <1>1 DEF ArchiveInv, FlagsOK, FreshOK, LockFree
<1>3. copied \subseteq copied' /\ copied' \subseteq DOMAIN rows
  <2>1. DOMAIN lengths = DOMAIN disk
    BY <1>2 DEF ArchiveInv, IndexOK
  <2>2. \A h \in DOMAIN lengths : \A i \in RowsOf(h) : i \in DOMAIN rows
    BY <2>1, RowsPlaced DEF ArchiveInv
  <2> QED BY <1>1, <2>2 DEF ArchiveInv, SessionOK
<1>4. WorkerOK' /\ RecoverOK' /\ ~ LockFree'
  BY <1>1, MovesOn DEF ArchiveInv
<1>5. /\ WorldOK' /\ DiskOK' /\ SessionOK' /\ IndexOK' /\ CommittedOK' /\ KeptRows /\ GrownViews
  BY <1>1, <1>2, <1>3, ClockStepFrame
<1>6. StatusOK' /\ ClockOK'
  <2>1. {offset} \in Anchors /\ Unlike({offset})
    BY <1>1, Amounts DEF Anchors, Unlike
  <2>2. StatusOK' /\ \A s \in status' : s.anchor = {offset}
    BY <1>1, <2>1, SavedIs
  <2>3. TrustOK' /\ SyncOK' /\ BlindOK' /\ RightOK' /\ DoubtOK'
    BY <1>1, <2>1, <2>2, Amounts DEF TrustOK, SyncOK, BlindOK, RightOK, DoubtOK, Unlike
  <2> QED BY <2>2, <2>3 DEF ClockOK
<1>7. FlagsOK' /\ FreshOK'
  <2>1. flags' \subseteq Flags
    BY <1>1, <1>2 DEF FlagsOK
  <2> QED BY <1>1, <1>2, <1>4, <2>1, PassFlags
<1>8. ViewOK'
  BY <1>1 DEF ArchiveInv, ViewOK
<1> QED BY <1>4, <1>5, <1>6, <1>7, <1>8 DEF ArchiveInv

\* A recovery that is over has read the whole disk.
LEMMA RecoveredKeeps ==
  ASSUME ArchiveInv, Recovered
  PROVE  ArchiveInv' /\ KeptRows /\ GrownViews
<1> USE DEF world
<1>1. /\ worker.step = "recover" /\ worker.left = {} /\ NoFault
      /\ lengths' = [h \in DOMAIN disk |-> Len(disk[h].rows)] /\ committed' = OnDisk
      /\ status' = Saved(anchor, flags) /\ flags' = (flags \ {"recovery"}) \cup {"ready"}
      /\ worker' = [worker EXCEPT !.step = worker.then]
      /\ UNCHANGED <<world, rows, disk, copied, first, observed, anchor, phase, pins>>
  BY DEF Recovered
<1>2. /\ "loaded" \in flags /\ "lease" \in flags /\ FlagsOK /\ worker.then \in {"time", "select"}
      /\ \A h \in DOMAIN disk : disk[h].synced = Len(disk[h].rows)
  BY <1>1 DEF ArchiveInv, FlagsOK, FreshOK, LockFree, WorkerOK, RecoverOK
<1>3. /\ WorldOK' /\ DiskOK' /\ KeptRows /\ GrownViews
  BY <1>1, WorldFrame, DiskFrame, SameDisk DEF ArchiveInv, WorldOK
<1>4. \A i \in OnDisk : i \in Durable /\ i \in DOMAIN rows
  <2>1. \A h \in DOMAIN disk : Held(disk[h]) = RowsOf(h)
    BY <1>2, SegmentIs DEF ArchiveInv, DiskOK, RowsOf
  <2> QED BY <2>1, DurableIs, RowsPlaced DEF ArchiveInv, OnDisk
<1>5. SessionOK'
  <2>1. ASSUME NEW h \in DOMAIN disk PROVE Len(disk[h].rows) \in 0..MaxRows
    <3>1. disk[h].rows \in Seq(1..Len(rows)) /\ Distinct(disk[h].rows) /\ Len(rows) \in Nat
          /\ Len(rows) <= MaxRows
      BY DEF ArchiveInv, DiskOK, SegmentOK, WorldOK
    <3>2. Len(disk[h].rows) <= Len(rows) /\ Len(disk[h].rows) \in Nat
      BY <3>1, DistinctBound
    <3> QED BY <3>1, <3>2, Amounts
  <2>2. /\ DOMAIN lengths' = DOMAIN disk
        /\ \A h \in DOMAIN disk : lengths'[h] = Len(disk[h].rows)
        /\ lengths' = [h \in DOMAIN lengths' |-> lengths'[h]]
    BY <1>1
  <2>3. DOMAIN disk \subseteq Hours /\ copied \subseteq DOMAIN rows /\ observed \subseteq DOMAIN rows
    BY DEF ArchiveInv, DiskOK, SessionOK
  <2> QED BY <1>1, <1>4, <2>1, <2>2, <2>3 DEF SessionOK, Hours
<1>6. IndexOK'
  BY <1>1, <1>2 DEF IndexOK, OnDisk, RowsOf
<1>7. CommittedOK'
  BY <1>1, <1>3, <1>4, CommittedFrame DEF ArchiveInv, WorldOK, Durable
<1>8. WorkerOK' /\ RecoverOK' /\ ~ LockFree' /\ (Trusting' => Trusting) /\ worker'.step = worker.then
  <2>1. WorkerOK' /\ RecoverOK' /\ ~ LockFree'
    BY <1>1, <1>2, MovesOn DEF ArchiveInv
  <2>2. worker'.step = worker.then
    BY <1>1 DEF ArchiveInv, WorkerOK
  <2> QED BY <1>1, <1>2, <2>1, <2>2 DEF Trusting
<1>9. StatusOK' /\ ClockOK'
  <2>1. anchor \in Anchors /\ ("attest" \in flags => "uncertain" \in flags) /\ ClockOK
    BY <1>2 DEF ArchiveInv, StatusOK, FlagsOK
  <2>2. StatusOK' /\ \A s \in status' : s.anchor = anchor
    BY <1>1, <2>1, SavedIs
  <2>3. TrustOK' /\ SyncOK' /\ DoubtOK'
    BY <1>1, <1>2, <1>8, <2>1, <2>2 DEF ClockOK, TrustOK, SyncOK, DoubtOK, Unlike
  <2>4. BlindOK' /\ RightOK'
    BY <1>1, <1>2, <2>1, <2>2 DEF ClockOK, BlindOK, Blind, RightOK, Unlike, Right, OnDisk, RowsOf
  <2> QED BY <2>2, <2>3, <2>4 DEF ClockOK
<1>10. FlagsOK' /\ FreshOK'
  <2>1. flags' \subseteq Flags /\ "recovery" \notin flags'
    BY <1>1, <1>2 DEF FlagsOK, Flags
  <2>2. "loaded" \in flags' /\ "lease" \in flags' /\ ("attest" \in flags' => "uncertain" \in flags')
        /\ \A f \in {"stopping", "scheduled", "closed"} : f \in flags' <=> f \in flags
    BY <1>1, <1>2 DEF FlagsOK
  <2> QED BY <1>1, <1>2, <1>8, <2>1, <2>2, PassFlags
<1>11. ViewOK'
  BY <1>1 DEF ArchiveInv, ViewOK
<1> QED BY <1>3, <1>5, <1>6, <1>7, <1>8, <1>9, <1>10, <1>11 DEF ArchiveInv

LEMMA OpenKeeps ==
  ASSUME ArchiveInv, NEW d \in Downloads, Open(d)
  PROVE  ArchiveInv' /\ KeptRows /\ GrownViews
<1> USE DEF world
<1>1. /\ phase[d] = "opening" /\ LockFree
      /\ UNCHANGED <<world, rows, disk, copied, first, observed, committed, lengths, worker>>
  BY DEF Open
<1>2. /\ "loaded" \in flags /\ ~ Trusting /\ FlagsOK /\ FreshOK /\ phase \in [Downloads -> Phases]
      /\ pins[d] = {} /\ flags \subseteq Flags /\ ("attest" \in flags => "uncertain" \in flags)
  BY <1>1 DEF ArchiveInv, FlagsOK, FreshOK, ViewOK, Trusting, LockFree
<1>3. WorkerOK' /\ RecoverOK' /\ ~ Trusting'
  BY <1>1, <1>2, PassFrame DEF ArchiveInv
<1>4. CASE "stopping" \in flags
  <2>1. /\ phase' = [phase EXCEPT ![d] = "idle"] /\ flags' = ScheduleStop(flags, phase')
        /\ UNCHANGED <<pins, status, anchor>> /\ NoFault
    BY <1>4 DEF Open, Unopened
  <2>2. /\ phase' \in [Downloads -> Phases] /\ phase'[d] = "idle"
        /\ \A x \in Downloads : x # d => phase'[x] = phase[x]
    BY <2>1, <1>2 DEF Phases
  <2>3. FlagsOK' /\ FreshOK' /\ ("recovery" \in flags' <=> "recovery" \in flags)
        /\ ("loaded" \in flags' <=> "loaded" \in flags) /\ ("uncertain" \in flags' <=> "uncertain" \in flags)
    BY <1>1, <1>2, <2>1, <2>2, StopFlags
  <2>4. /\ WorldOK' /\ DiskOK' /\ SessionOK' /\ IndexOK' /\ CommittedOK' /\ StatusOK' /\ ClockOK'
        /\ KeptRows /\ GrownViews
    BY <1>1, <1>3, <2>1, <2>3, ControlFrame DEF ArchiveInv, SessionOK
  <2>5. ViewOK'
    BY <1>1, <1>2, <2>1, <2>2 DEF ArchiveInv, ViewOK
  <2> QED BY <1>3, <2>3, <2>4, <2>5 DEF ArchiveInv
<1>5. CASE "stopping" \notin flags
  <2> DEFINE fl == Checked(flags)
  <2>1. /\ anchor' = Anchored /\ status' \in {status, Saved(Anchored, fl)}
        /\ NoFault \/ \E kind : Fault(kind)
        /\ \/ /\ \E p \in {"open", "closing"} : phase' = [phase EXCEPT ![d] = p]
              /\ View \subseteq DOMAIN disk /\ pins' = [pins EXCEPT ![d] = View] /\ flags' = fl
           \/ /\ phase' = [phase EXCEPT ![d] = "idle"] /\ pins' = pins
              /\ flags' = ScheduleStop(fl, phase')
    <3>1. \/ /\ Viewable /\ NoFault /\ status' = Saved(anchor', fl)
             /\ \E p \in {"open", "closing"} : phase' = [phase EXCEPT ![d] = p]
             /\ pins' = [pins EXCEPT ![d] = View] /\ flags' = fl /\ anchor' = Anchored
          \/ NoFault /\ status' = Saved(anchor', fl) /\ Unopened(d, fl) /\ anchor' = Anchored
          \/ Fault("io") /\ status' \in {status, Saved(anchor', fl)} /\ Unopened(d, fl) /\ anchor' = Anchored
      BY <1>5 DEF Open
    <3> HIDE DEF fl
    <3> QED BY <3>1 DEF Unopened, Viewable
  <2>2. /\ fl \subseteq Flags /\ flags \ {"uncertain"} \subseteq fl /\ fl \subseteq flags \cup {"uncertain", "gap"}
        /\ "uncertain" \in fl <=> ~ Sane
        /\ "attest" \in fl => "uncertain" \in fl
    BY <1>2, CheckedIs
  <2> HIDE DEF fl
  <2>3. flags' = ScheduleStop(fl, phase')
    BY <1>5, <2>1, <2>2 DEF ScheduleStop
  <2>4. /\ phase' \in [Downloads -> Phases] /\ \A x \in Downloads : x # d => phase'[x] = phase[x]
    BY <2>1, <1>2 DEF Phases
  <2>5. FlagsOK' /\ FreshOK' /\ ("recovery" \in flags' <=> "recovery" \in flags)
        /\ ("loaded" \in flags' <=> "loaded" \in flags) /\ ("uncertain" \in flags' <=> "uncertain" \in fl)
    <3>1. /\ \A f \in {"recovery", "loaded", "ready", "lease", "closed", "attest"} : f \in fl => f \in flags
          /\ "scheduled" \in fl => "scheduled" \in flags
          /\ flags \ {"uncertain", "scheduled"} \subseteq fl
      BY <2>2
    <3>2. \A x \in Downloads : phase[x] = "idle" => phase'[x] = "idle"
      BY <1>1, <2>4
    <3> QED BY <1>1, <1>2, <2>2, <2>3, <2>4, <3>1, <3>2, StopFlags
  <2>6. /\ WorldOK' /\ DiskOK' /\ SessionOK' /\ IndexOK' /\ CommittedOK' /\ KeptRows /\ GrownViews
    BY <1>1, <2>1, <2>5, ClockStepFrame DEF ArchiveInv, SessionOK
  <2>7. StatusOK' /\ ClockOK'
    BY <1>1, <1>2, <1>3, <2>1, <2>2, <2>5, ComparedKeeps
  <2>8. ViewOK'
    BY <1>1, <1>2, <2>1, <2>4 DEF ArchiveInv, ViewOK
  <2> QED BY <1>3, <2>5, <2>6, <2>7, <2>8 DEF ArchiveInv
<1> QED BY <1>4, <1>5

\* What a session makes of the status file: an archive without a clock is in doubt.
LEMMA LoadIs ==
  ASSUME StatusOK, NEW fl, "attest" \in fl => "uncertain" \in fl
  PROVE  /\ fl \cup {"loaded"} \subseteq Load(fl)
         /\ Load(fl) \subseteq fl \cup {"loaded", "uncertain", "attest", "gap"}
         /\ "attest" \in Load(fl) => "uncertain" \in Load(fl)
         /\ DOMAIN disk # {} /\ (status = {} \/ \E s \in status : s.anchor = {}) => "uncertain" \in Load(fl)
<1>1. \A s \in status : s.doubts \subseteq Halves /\ ("attest" \in s.doubts => "uncertain" \in s.doubts)
  BY StatusIs
<1> DEFINE unknown == DOMAIN disk # {} /\ (status = {} \/ \E s \in status : s.anchor = {})
           reboot  == \E s \in status : s.anchor # {} /\ ~ s.boot
           told    == UNION {s.doubts : s \in status}
           more    == IF unknown \/ reboot THEN {"uncertain", "attest"} ELSE {}
           gap     == IF status # {} \/ DOMAIN disk # {} THEN {"gap"} ELSE {}
<1>2. told \subseteq Halves /\ ("attest" \in told => "uncertain" \in told)
  BY <1>1
<1>3. Load(fl) = fl \cup {"loaded"} \cup (told \cup more) \cup gap
  BY DEF Load
<1>4. more \subseteq Halves /\ ("attest" \in more => "uncertain" \in more) /\ gap \subseteq {"gap"}
      /\ (unknown => "uncertain" \in more)
  BY DEF Halves
<1> HIDE DEF told, more, gap
<1> QED BY <1>2, <1>3, <1>4 DEF Halves

\* The anchor a session takes over: never later than the one that was saved.
LEMMA LoadedIs ==
  ASSUME WorldOK, StatusOK, NEW s \in status, NEW a \in Loaded(s)
  PROVE  /\ a \in Anchors /\ (a = {} <=> s.anchor = {})
         /\ Unlike(s.anchor) => Unlike(a)
         /\ a = {Jump} => s.anchor = {Jump}
<1>1. s.anchor \in Anchors /\ s.boot \in BOOLEAN
  BY StatusIs
<1>2. CASE s.boot \/ s.anchor = {}
  BY <1>1, <1>2 DEF Loaded
<1>3. CASE ~ s.boot /\ s.anchor # {}
  <2>1. PICK b \in -MaxTime..Jump : s.anchor = {b}
    BY <1>1, <1>3 DEF Anchors
  <2>2. Max({b}) = b
    BY <2>1 DEF Max
  <2>3. PICK c \in -t..b : a = {c}
    BY <1>3, <2>1, <2>2 DEF Loaded
  <2>4. c \in -MaxTime..Jump /\ c <= b
    BY <2>1, <2>3, Amounts DEF WorldOK
  <2> QED BY <2>1, <2>3, <2>4, Amounts DEF Anchors, Unlike
<1> QED BY <1>2, <1>3

LEMMA BeginKeeps ==
  ASSUME ArchiveInv, Begin
  PROVE  ArchiveInv' /\ KeptRows /\ GrownViews
<1> USE DEF world
<1>1. /\ worker.step = "queued" /\ NoFault
      /\ UNCHANGED <<world, rows, disk, copied, first, observed, committed, lengths, phase, pins>>
  BY DEF Begin, NoFault
<1>2. ~ Trusting /\ FlagsOK /\ StatusOK
  BY <1>1 DEF Trusting, ArchiveInv
<1>3. ViewOK'
  BY <1>1 DEF ArchiveInv, ViewOK
<1>4. CASE "stopping" \in flags
  <2>1. EndPass(flags) /\ UNCHANGED <<anchor, status>>
    BY <1>4 DEF Begin
  <2> QED BY <1>1, <2>1, EndPassKeeps DEF durable, session
<1>5. CASE "stopping" \notin flags /\ ~ ("recovery" \in flags /\ "loaded" \notin flags)
  <2>1. /\ UNCHANGED <<anchor, status>> /\ "loaded" \in flags
        /\ \/ "recovery" \in flags /\ Recovering("time") /\ flags' = (flags \cup {"lease"}) \ {"deferred"}
           \/ /\ "recovery" \notin flags /\ worker' = [worker EXCEPT !.step = "time"]
              /\ flags' = flags \cup {"lease"}
    BY <1>5 DEF Begin, ArchiveInv, FreshOK
  <2>2. WorkerOK' /\ RecoverOK' /\ ~ LockFree'
    BY <1>1, <2>1, MovesOn DEF ArchiveInv
  <2>3. \/ worker'.step = "recover" /\ worker'.then = "time"
        \/ worker'.step = "time" /\ "recovery" \notin flags'
    <3>1. CASE "recovery" \in flags
      BY <2>1, <3>1, RecoveringIs DEF ArchiveInv
    <3>2. CASE "recovery" \notin flags
      BY <2>1, <3>2 DEF ArchiveInv, WorkerOK
    <3> QED BY <3>1, <3>2
  <2>4. ~ Trusting'
    BY <2>3 DEF Trusting
  <2>5. /\ WorldOK' /\ DiskOK' /\ SessionOK' /\ IndexOK' /\ CommittedOK' /\ StatusOK' /\ ClockOK'
        /\ KeptRows /\ GrownViews
    BY <1>1, <2>1, <2>4, ControlFrame DEF ArchiveInv, SessionOK
  <2>6. FlagsOK' /\ FreshOK'
    <3>1. /\ flags' \subseteq Flags /\ "lease" \in flags' /\ "loaded" \in flags'
          /\ "attest" \in flags' => "uncertain" \in flags'
          /\ \A f \in {"stopping", "scheduled", "closed"} : f \in flags' <=> f \in flags
      BY <1>2, <2>1 DEF FlagsOK, Flags
    <3> QED BY <1>1, <1>2, <2>2, <2>3, <3>1, PassFlags
  <2> QED BY <1>3, <2>2, <2>5, <2>6 DEF ArchiveInv
<1>6. CASE "stopping" \notin flags /\ "recovery" \in flags /\ "loaded" \notin flags
  <2> DEFINE fl == flags \cup {"lease"}
  <2>1. /\ Recovering("time") /\ flags' = Load(fl) /\ status' = status
        /\ anchor' \in (IF status = {} THEN {{}} ELSE UNION {Loaded(s) : s \in status})
    BY <1>6 DEF Begin
  <2>2. "attest" \in fl => "uncertain" \in fl
    BY <1>2 DEF FlagsOK
  <2>3. /\ fl \cup {"loaded"} \subseteq flags'
        /\ flags' \subseteq fl \cup {"loaded", "uncertain", "attest", "gap"}
        /\ "attest" \in flags' => "uncertain" \in flags'
        /\ DOMAIN disk # {} /\ (status = {} \/ \E s \in status : s.anchor = {}) => "uncertain" \in flags'
    <3> HIDE DEF fl
    <3> QED BY <1>2, <2>1, <2>2, LoadIs
  <2>4. WorkerOK' /\ RecoverOK' /\ ~ LockFree' /\ worker'.step = "recover" /\ worker'.then = "time"
    BY <1>1, <2>1, MovesOn, RecoveringIs DEF ArchiveInv
  <2>5. \/ status = {} /\ anchor' = {}
        \/ \E s \in status : /\ anchor' \in Anchors /\ (anchor' = {} <=> s.anchor = {})
                             /\ Unlike(s.anchor) => Unlike(anchor')
                             /\ anchor' = {Jump} => s.anchor = {Jump}
    <3>1. CASE status = {}
      BY <2>1, <3>1
    <3>2. CASE status # {}
      <4>1. PICK s \in status : anchor' \in Loaded(s)
        BY <2>1, <3>2
      <4> QED BY <4>1, <1>2, LoadedIs DEF ArchiveInv
    <3> QED BY <3>1, <3>2
  <2>6. /\ WorldOK' /\ DiskOK' /\ SessionOK' /\ IndexOK' /\ CommittedOK' /\ KeptRows /\ GrownViews
    BY <1>1, <2>3, ClockStepFrame DEF ArchiveInv, SessionOK
  <2>7. StatusOK'
    <3>1. anchor' \in Anchors
      BY <2>5 DEF Anchors
    <3> QED BY <2>1, <1>2, <3>1 DEF StatusOK, Anchors, Halves
  <2>8. ClockOK'
    <3>1. \A s, x \in status : s = x
      BY <1>2, StatusIs
    <3>2. TrustOK' /\ SyncOK' /\ DoubtOK'
      BY <1>1, <2>1, <2>3, <2>4, <2>5, <3>1 DEF TrustOK, Trusting, SyncOK, DoubtOK, Unlike
    <3>3. BlindOK'
      <4>1. ~ Unlike(anchor') => Blind
        BY <1>6, <2>5, <3>1 DEF Blind
      <4> QED BY <4>1, <1>1, <2>3 DEF ArchiveInv, ClockOK, BlindOK, Blind, Unlike, Right
    <3>4. RightOK'
      BY <1>1, <2>1, <2>5, Amounts DEF ArchiveInv, ClockOK, RightOK, OnDisk, RowsOf, Right
    <3> QED BY <3>2, <3>3, <3>4 DEF ClockOK
  <2>9. FlagsOK' /\ FreshOK'
    <3>1. /\ flags' \subseteq Flags /\ "lease" \in flags' /\ "loaded" \in flags'
          /\ \A f \in {"stopping", "scheduled", "closed"} : f \in flags' <=> f \in flags
      BY <1>2, <2>3 DEF FlagsOK, Flags
    <3> QED BY <1>1, <1>2, <2>3, <2>4, <3>1, PassFlags
  <2> QED BY <1>3, <2>4, <2>6, <2>7, <2>8, <2>9 DEF ArchiveInv
<1> QED BY <1>4, <1>5, <1>6

-----------------------------------------------------------------------------
(* The disk                                                                *)

LEMMA SegmentBound ==
  ASSUME WorldOK, NEW h, NEW seg, SegmentOK(seg, h)
  PROVE  Len(seg.rows) \in 0..MaxRows
<1>1. seg.rows \in Seq(1..Len(rows)) /\ Distinct(seg.rows) /\ Len(rows) \in Nat /\ Len(rows) <= MaxRows
  BY DEF SegmentOK, WorldOK
<1>2. Len(seg.rows) <= Len(rows) /\ Len(seg.rows) \in Nat
  BY <1>1, DistinctBound
<1> QED BY <1>1, <1>2, Amounts

LEMMA LeavingIs ==
  ASSUME WorkerOK, NEW h, worker' = [worker EXCEPT !.left = @ \ {h}]
  PROVE  /\ worker'.step = worker.step /\ worker'.rows = worker.rows /\ worker'.then = worker.then
         /\ worker'.left = worker.left \ {h}
         /\ worker' \in [step : Steps, rows : SUBSET (first..Len(rows)), left : SUBSET Hours,
                         then : {"idle", "time", "select"}]
BY DEF WorkerOK

\* A segment that only gains rows and durability.
LEMMA PutKeeps ==
  ASSUME DiskOK, ViewOK, NEW h \in Hours, NEW seg, SegmentOK(seg, h),
         rows' = rows, disk' = With(disk, h, seg),
         h \in DOMAIN disk => Held(disk[h]) \subseteq Held(seg),
         h \in Pinned => IsPrefix(disk[h].rows, seg.rows)
  PROVE  KeptRows /\ GrownViews
<1>1. /\ DOMAIN disk' = DOMAIN disk \cup {h}
      /\ disk'[h] = seg /\ \A g \in DOMAIN disk \ {h} : disk'[g] = disk[g]
      /\ \A i : i \in Durable' <=> (i \in Durable /\ Hour(i) # h) \/ i \in Held(seg)
  BY PutDisk
<1>2. KeptRows
  BY <1>1, RowsPlaced DEF KeptRows
<1>3. GrownViews
  <2>1. \A g \in DOMAIN disk : IsPrefix(disk[g].rows, disk[g].rows)
    BY SegmentIs, SamePrefix DEF DiskOK
  <2> QED BY <1>1, <2>1, PinnedIs DEF GrownViews
<1> QED BY <1>2, <1>3

\* The clock's invariants, for a step that adds nothing to the disk.
LEMMA ClockDiskFrame ==
  ASSUME ClockOK, UNCHANGED <<offset, rows, first, status, anchor>>,
         \A i : i \in OnDisk' => i \in OnDisk, DOMAIN disk' \subseteq DOMAIN disk,
         Trusting' => Trusting, "loaded" \in flags' <=> "loaded" \in flags,
         "uncertain" \in flags => "uncertain" \in flags'
  PROVE  ClockOK'
<1>1. TrustOK' /\ SyncOK' /\ BlindOK' /\ DoubtOK'
  BY DEF ClockOK, TrustOK, SyncOK, BlindOK, DoubtOK, Blind, Unlike, Right
<1>2. RightOK'
  BY DEF ClockOK, RightOK, Right
<1> QED BY <1>1, <1>2 DEF ClockOK

LEMMA RecoverKeeps ==
  ASSUME ArchiveInv, NEW h \in DOMAIN disk, Recover(h)
  PROVE  ArchiveInv' /\ KeptRows /\ GrownViews
<1> USE DEF world, session
<1> DEFINE keep == Intact(disk[h]) \/ "uncertain" \in flags
           seg  == IF keep THEN Synced(disk[h]) ELSE Repair(disk[h])
<1>1. /\ worker.step = "recover" /\ h \in worker.left /\ NoFault
      /\ flags \subseteq flags' /\ flags' \subseteq flags \cup {"gap", "deferred"}
      /\ keep \/ h \notin Pinned
      /\ disk' = [disk EXCEPT ![h] = seg]
      /\ worker' = [worker EXCEPT !.left = @ \ {h}]
      /\ UNCHANGED <<world, rows, status, copied, session, phase, pins>>
  BY DEF Recover
<1>2. /\ h \in Hours /\ SegmentOK(disk[h], h) /\ DiskOK /\ ViewOK /\ WorkerOK /\ FlagsOK
      /\ Len(disk[h].rows) \in Nat
  BY SegmentIs DEF ArchiveInv, DiskOK
<1>3. /\ SegmentOK(seg, h) /\ ToSet(seg.rows) = RowsOf(h) /\ Held(seg) = RowsOf(h)
      /\ seg.synced = Len(seg.rows) /\ Len(seg.rows) = Len(disk[h].rows)
      /\ keep => seg.rows = disk[h].rows
  BY <1>2, SyncedIs, RepairIs DEF RowsOf
<1> HIDE DEF keep, seg
<1>4. disk' = With(disk, h, seg)
  BY <1>1, <1>2, ExceptDisk
<1>5. /\ DiskOK' /\ DOMAIN disk' = DOMAIN disk
      /\ disk'[h] = seg /\ \A g \in DOMAIN disk \ {h} : disk'[g] = disk[g]
      /\ \A i : i \in OnDisk' <=> i \in OnDisk
  <2>1. /\ DiskOK' /\ DOMAIN disk' = DOMAIN disk \cup {h}
        /\ disk'[h] = seg /\ \A g \in DOMAIN disk \ {h} : disk'[g] = disk[g]
        /\ \A i : i \in OnDisk' <=> (i \in OnDisk /\ Hour(i) # h) \/ i \in ToSet(seg.rows)
    BY <1>1, <1>2, <1>3, <1>4, PutDisk
  <2>2. \A i : i \in RowsOf(h) <=> i \in OnDisk /\ Hour(i) = h
    BY <1>2, RowsPlaced
  <2> QED BY <1>3, <2>1, <2>2
<1>6. KeptRows /\ GrownViews
  <2>1. Held(disk[h]) \subseteq Held(seg)
    BY <1>2, <1>3, SegmentIs DEF RowsOf
  <2>2. h \in Pinned => IsPrefix(disk[h].rows, seg.rows)
    BY <1>1, <1>2, <1>3, SamePrefix
  <2> QED BY <1>1, <1>2, <1>3, <1>4, <2>1, <2>2, PutKeeps
<1>7. /\ worker'.step = "recover" /\ worker'.then = worker.then /\ worker'.left = worker.left \ {h}
      /\ WorkerOK'
  <2>1. /\ worker'.step = "recover" /\ worker'.then = worker.then /\ worker'.left = worker.left \ {h}
        /\ worker' \in [step : Steps, rows : SUBSET (first..Len(rows)), left : SUBSET Hours,
                        then : {"idle", "time", "select"}]
    BY <1>1, <1>2, LeavingIs
  <2> QED BY <1>1, <1>2, <2>1 DEF WorkerOK, Hours
<1>8. WorldOK' /\ SessionOK' /\ StatusOK' /\ ViewOK'
  BY <1>1, <1>5, WorldFrame DEF ArchiveInv, SessionOK, StatusOK, ViewOK, Hours, WorldOK
<1>9. FlagsOK' /\ FreshOK'
  BY <1>1, <1>7 DEF ArchiveInv, FlagsOK, FreshOK, LockFree, Flags
<1>10. RecoverOK'
  BY <1>1, <1>3, <1>5, <1>7 DEF ArchiveInv, RecoverOK
<1>11. IndexOK'
  BY <1>1, <1>3, <1>5 DEF ArchiveInv, IndexOK
<1>12. CommittedOK'
  BY <1>1, <1>6, CommittedFrame DEF ArchiveInv, WorldOK
<1>13. ClockOK'
  BY <1>1, <1>5, <1>7, ClockDiskFrame DEF ArchiveInv, Trusting
<1> QED BY <1>5, <1>6, <1>7, <1>8, <1>9, <1>10, <1>11, <1>12, <1>13 DEF ArchiveInv

\* What a pass that writes knows of the clock covers the rows that it appends.
LEMMA WrittenClock ==
  ASSUME ArchiveInv, worker.step = "write", UNCHANGED <<offset, rows, first, status, anchor>>,
         \A i : i \in OnDisk' => i \in OnDisk \/ i \in worker.rows,
         "loaded" \in flags' <=> "loaded" \in flags
  PROVE  ClockOK'
<1>1. /\ anchor = {offset} /\ (\A s \in status : s.anchor = {offset}) /\ "loaded" \in flags
      /\ worker.rows \subseteq first..Len(rows) /\ ClockOK /\ offset \in {0, Jump}
  BY DEF ArchiveInv, ClockOK, TrustOK, Trusting, FreshOK, LockFree, WorkerOK, WorldOK
<1>2. TrustOK' /\ SyncOK' /\ BlindOK' /\ DoubtOK'
  BY <1>1 DEF ClockOK, TrustOK, SyncOK, BlindOK, DoubtOK, Blind, Unlike, Right
<1>3. RightOK'
  <2>1. CASE offset = 0
    <3>1. {offset} # {Jump}
      BY <2>1, Amounts
    <3> QED BY <3>1, <1>1 DEF RightOK
  <2>2. CASE offset = Jump
    <3>1. \A i \in OnDisk \cup worker.rows : ~ Right(i)
      BY <2>2, <1>1 DEF ClockOK, RightOK, BlindOK, Blind, Unlike
    <3> QED BY <3>1 DEF RightOK, Right
  <2> QED BY <1>1, <2>1, <2>2
<1> QED BY <1>2, <1>3 DEF ClockOK

LEMMA WriteKeeps ==
  ASSUME ArchiveInv, Write
  PROVE  ArchiveInv' /\ KeptRows /\ GrownViews
<1> USE DEF world
<1> DEFINE h   == Hour(Min(worker.rows))
           N   == Cardinality(Batch)
           old == IF h \in DOMAIN disk THEN disk[h] ELSE Blank
           ext == Extended(h, N)
           seg == Synced(ext)
<1>1. /\ worker.step = "write" /\ worker.rows # {} /\ NoFault
      /\ disk' = With(disk, h, seg) /\ lengths' = With(lengths, h, Len(disk'[h].rows))
      /\ committed' = committed \cup Batch /\ worker' = [worker EXCEPT !.rows = @ \ Batch]
      /\ UNCHANGED <<world, rows, status, copied, first, observed, anchor, flags, phase, pins>>
  BY DEF Write
<1>2. /\ WorldOK /\ DiskOK /\ ViewOK /\ WorkerOK /\ FlagsOK
      /\ worker.rows \cap OnDisk = {} /\ "recovery" \notin flags
  BY <1>1 DEF ArchiveInv, WorkerOK, FlagsOK
<1>3. /\ h \in Hours /\ N \in Nat /\ N \in 0..N /\ Batch \subseteq worker.rows /\ Batch \subseteq DOMAIN rows
      /\ \A i \in Batch : Hour(i) = h
  <2>1. N \in Nat
    <3>1. worker.rows \subseteq 1..Len(rows) /\ Len(rows) \in Nat
      BY <1>2 DEF WorldOK, WorkerOK
    <3>2. IsFiniteSet(Batch)
      BY <3>1, FirstNumbers, FS_Subset DEF Batch
    <3> QED BY <3>2, FS_CardinalityType
  <2> QED BY <1>1, <1>2, <2>1, BatchIs
<1> HIDE DEF N, h
<1>4. /\ SegmentOK(ext, h) /\ Held(ext) = Held(old) /\ SegmentOK(old, h)
      /\ ToSet(ext.rows) = ToSet(old.rows) \cup Batch /\ IsPrefix(old.rows, ext.rows)
  BY <1>1, <1>2, <1>3, ExtendedIs DEF N, h
<1> HIDE DEF ext
<1>5. /\ SegmentOK(seg, h) /\ Held(seg) = ToSet(ext.rows) /\ seg.rows = ext.rows
      /\ seg.synced = Len(seg.rows)
  BY <1>4, SyncedIs
<1> HIDE DEF seg
<1>6. /\ DiskOK' /\ DOMAIN disk' = DOMAIN disk \cup {h}
      /\ disk'[h] = seg /\ \A g \in DOMAIN disk \ {h} : disk'[g] = disk[g]
      /\ \A i : i \in OnDisk' <=> (i \in OnDisk /\ Hour(i) # h) \/ i \in ToSet(seg.rows)
      /\ \A i : i \in Durable' <=> (i \in Durable /\ Hour(i) # h) \/ i \in Held(seg)
  BY <1>1, <1>2, <1>3, <1>5, PutDisk
<1>7. \A i : i \in ToSet(old.rows) <=> i \in OnDisk /\ Hour(i) = h
  <2>1. CASE h \in DOMAIN disk
    BY <2>1, <1>2, RowsPlaced DEF RowsOf
  <2>2. CASE h \notin DOMAIN disk
    <3>1. ToSet(old.rows) = {}
      BY <2>2 DEF Blank, ToSet
    <3> QED BY <2>2, <3>1, <1>2, RowsPlaced
  <2> QED BY <2>1, <2>2
<1>8. \A i : i \in OnDisk' <=> i \in OnDisk \/ i \in Batch
  BY <1>3, <1>4, <1>5, <1>6, <1>7
<1>9. KeptRows /\ GrownViews
  <2>1. h \in DOMAIN disk => old = disk[h]
    OBVIOUS
  <2>2. h \in DOMAIN disk => Held(disk[h]) \subseteq Held(seg)
    BY <1>4, <1>5, <2>1, SegmentIs
  <2>3. h \in Pinned => IsPrefix(disk[h].rows, seg.rows)
    BY <1>2, <1>4, <1>5, <2>1, PinnedIs
  <2> QED BY <1>1, <1>2, <1>3, <1>5, <2>2, <2>3, PutKeeps
<1>10. worker'.step = "write" /\ worker'.rows = worker.rows \ Batch /\ WorkerOK'
  <2>1. /\ worker'.step = "write" /\ worker'.rows = worker.rows \ Batch
        /\ worker' \in [step : Steps, rows : SUBSET (first..Len(rows)), left : SUBSET Hours,
                        then : {"idle", "time", "select"}]
    BY <1>1, <1>2 DEF WorkerOK
  <2>2. worker'.rows \cap OnDisk' = {}
    BY <2>1, <1>2, <1>8
  <2> QED BY <1>1, <2>1, <2>2 DEF WorkerOK, Hours
<1>11. WorldOK' /\ StatusOK' /\ ViewOK'
  BY <1>1, <1>6, WorldFrame DEF ArchiveInv, StatusOK, ViewOK, WorldOK
<1>12. FlagsOK' /\ FreshOK' /\ RecoverOK'
  BY <1>1, <1>10 DEF ArchiveInv, FlagsOK, FreshOK, RecoverOK, LockFree
<1>13. SessionOK' /\ IndexOK'
  <2>1. Len(seg.rows) \in 0..MaxRows
    BY <1>2, <1>5, SegmentBound
  <2>2. /\ DOMAIN lengths' = DOMAIN lengths \cup {h} /\ lengths'[h] = Len(seg.rows)
        /\ \A g \in DOMAIN lengths \ {h} : lengths'[g] = lengths[g]
        /\ lengths' = [g \in DOMAIN lengths' |-> lengths'[g]]
    BY <1>1, <1>6 DEF With
  <2>3. SessionOK'
    <3>1. SessionOK
      BY DEF ArchiveInv
    <3> QED BY <1>1, <1>3, <2>1, <2>2, <3>1 DEF SessionOK, Hours
  <2>4. IndexOK'
    <3>1. /\ DOMAIN lengths = DOMAIN disk /\ committed = OnDisk
          /\ \A g \in DOMAIN disk : lengths[g] = Len(disk[g].rows) /\ disk[g].synced = Len(disk[g].rows)
      BY <1>2 DEF ArchiveInv, IndexOK
    <3>2. committed' = OnDisk'
      BY <1>1, <1>8, <3>1
    <3> QED BY <1>5, <1>6, <2>2, <3>1, <3>2 DEF IndexOK
  <2> QED BY <2>3, <2>4
<1>14. CommittedOK'
  <2>1. \A i \in Batch : i \in Durable'
    BY <1>4, <1>5, <1>6
  <2> QED BY <1>1, <1>2, <1>9, <2>1, CommittedFrame DEF ArchiveInv, WorldOK
<1>15. ClockOK'
  BY <1>1, <1>3, <1>8, WrittenClock
<1> QED BY <1>6, <1>9, <1>10, <1>11, <1>12, <1>13, <1>14, <1>15 DEF ArchiveInv

LEMMA WriteFailsKeeps ==
  ASSUME ArchiveInv, WriteFails
  PROVE  ArchiveInv' /\ KeptRows /\ GrownViews
<1> USE DEF world, session
<1>1. PICK n \in 0..Cardinality(Batch), torn \in BOOLEAN :
        disk' = With(disk, Hour(Min(worker.rows)),
                     [Extended(Hour(Min(worker.rows)), n) EXCEPT !.torn = torn])
  BY DEF WriteFails
<1> DEFINE h   == Hour(Min(worker.rows))
           old == IF h \in DOMAIN disk THEN disk[h] ELSE Blank
           ext == Extended(h, n)
           seg == [ext EXCEPT !.torn = torn]
<1>2. /\ worker.step = "write" /\ worker.rows # {} /\ Fault("io") /\ EndPass(flags \cup {"recovery"})
      /\ disk' = With(disk, h, seg)
      /\ UNCHANGED <<world, rows, status, copied, session, phase, pins>>
  BY <1>1 DEF WriteFails, Failing
<1>3. /\ WorldOK /\ DiskOK /\ ViewOK /\ WorkerOK /\ worker.rows \cap OnDisk = {}
  BY <1>2 DEF ArchiveInv, WorkerOK
<1>4. h \in Hours /\ Batch \subseteq worker.rows
  BY <1>2, <1>3, BatchIs
<1> HIDE DEF h
<1>5. /\ SegmentOK(ext, h) /\ Held(ext) = Held(old) /\ SegmentOK(old, h)
      /\ ToSet(ext.rows) \subseteq ToSet(old.rows) \cup Batch /\ IsPrefix(old.rows, ext.rows)
  BY <1>2, <1>3, ExtendedIs DEF h
<1> HIDE DEF ext
<1>6. SegmentOK(seg, h) /\ Held(seg) = Held(ext) /\ seg.rows = ext.rows
  BY <1>5, TornIs
<1> HIDE DEF seg
<1>7. /\ DiskOK' /\ DOMAIN disk' = DOMAIN disk \cup {h}
      /\ \A i : i \in OnDisk' <=> (i \in OnDisk /\ Hour(i) # h) \/ i \in ToSet(seg.rows)
  BY <1>2, <1>3, <1>4, <1>6, PutDisk
<1>8. \A i : i \in OnDisk' => i \in OnDisk \/ i \in worker.rows
  <2>1. \A i \in ToSet(old.rows) : i \in OnDisk
    BY <1>3, RowsPlaced DEF RowsOf, Blank, ToSet
  <2> QED BY <1>4, <1>5, <1>6, <1>7, <2>1
<1>9. KeptRows /\ GrownViews
  <2>1. h \in DOMAIN disk => old = disk[h]
    OBVIOUS
  <2>2. h \in DOMAIN disk => Held(disk[h]) \subseteq Held(seg)
    BY <1>5, <1>6, <2>1
  <2>3. h \in Pinned => IsPrefix(disk[h].rows, seg.rows)
    BY <1>3, <1>5, <1>6, <2>1, PinnedIs
  <2> QED BY <1>2, <1>3, <1>4, <1>6, <2>2, <2>3, PutKeeps
<1>10. /\ WorkerOK' /\ FlagsOK' /\ FreshOK' /\ RecoverOK' /\ "recovery" \in flags'
       /\ "loaded" \in flags' <=> "loaded" \in flags
  BY <1>2, EndPassIs
<1>11. WorldOK' /\ SessionOK' /\ StatusOK' /\ ViewOK' /\ IndexOK'
  <2>1. WorldOK'
    BY <1>2, <1>3, WorldFrame DEF WorldOK
  <2> QED BY <1>2, <1>7, <1>10, <2>1 DEF ArchiveInv, SessionOK, StatusOK, ViewOK, IndexOK, Hours
<1>12. CommittedOK'
  BY <1>2, <1>9, CommittedFrame DEF ArchiveInv, WorldOK
<1>13. ClockOK'
  BY <1>2, <1>8, <1>10, WrittenClock
<1> QED BY <1>7, <1>9, <1>10, <1>11, <1>12, <1>13 DEF ArchiveInv

\* A row that a trusting pass finds expired has been kept for as long as it must:
\* a clock that is ahead is trusted only with a disk that no right clock wrote.
LEMMA ExpiredIsLost ==
  ASSUME ArchiveInv, Trusting, NEW i \in OnDisk, ~ (rows[i].ts >= Cutoff(Wall))
  PROVE  Lost(i)
<1>1. /\ i \in DOMAIN rows /\ rows[i].ts \in Nat /\ rows[i].born \in Nat
      /\ rows[i].ts \in {rows[i].born, rows[i].born + Jump} /\ offset \in {0, Jump} /\ t \in Nat
  BY RowsPlaced, HourIs DEF ArchiveInv, WorldOK
<1>2. rows[i].ts < t + offset - Retention
  BY <1>1, Amounts DEF Cutoff, Wall
<1>3. CASE offset = 0
  BY <1>1, <1>2, <1>3, Amounts DEF Lost
<1>4. CASE offset = Jump
  <2>1. ~ Right(i)
    BY <1>4 DEF ArchiveInv, ClockOK, TrustOK, RightOK
  <2> QED BY <1>1, <1>2, <1>4, <2>1, Amounts DEF Lost, Right
<1> QED BY <1>1, <1>3, <1>4

\* A segment whose expired rows go, with its file once all of them have.
LEMMA ExpireIs ==
  ASSUME ArchiveInv, worker.step = "prune", NEW h \in DOMAIN disk, h \notin Pinned, Expire(h), rows' = rows
  PROVE  /\ DiskOK' /\ DOMAIN disk' \subseteq DOMAIN disk /\ DOMAIN disk \ {h} \subseteq DOMAIN disk'
         /\ \A g \in DOMAIN disk \ {h} : disk'[g] = disk[g]
         /\ h \in DOMAIN disk' => /\ disk'[h].synced = Len(disk'[h].rows)
                                  /\ Len(disk'[h].rows) \in 0..MaxRows
         /\ \A i : i \in OnDisk' <=> i \in OnDisk /\ ~ (i \in RowsOf(h) /\ i \notin Kept(h))
         /\ KeptRows /\ GrownViews
<1>1. /\ WorldOK /\ DiskOK /\ ViewOK /\ h \in Hours /\ SegmentOK(disk[h], h) /\ Trusting
  BY DEF ArchiveInv, DiskOK, Trusting
<1>2. \A i : i \in RowsOf(h) <=> i \in OnDisk /\ Hour(i) = h
  BY <1>1, RowsPlaced
<1>3. \A i \in RowsOf(h) : i \in Kept(h) \/ Lost(i)
  BY <1>1, <1>2, ExpiredIsLost DEF Kept
<1>4. \A i \in Durable : i \in OnDisk
  BY <1>1, RowsPlaced
<1>5. (\A g \in DOMAIN disk \ {h} : disk'[g] = disk[g]) => GrownViews
  <2>1. \A g \in DOMAIN disk : IsPrefix(disk[g].rows, disk[g].rows)
    BY <1>1, SegmentIs, SamePrefix DEF DiskOK
  <2> QED BY <1>1, <2>1, PinnedIs DEF GrownViews
<1>6. CASE 2 * h + 2 <= Cutoff(Wall)
  <2>1. disk' = Without(disk, h)
    BY <1>6 DEF Expire
  <2>2. /\ DiskOK' /\ DOMAIN disk' = DOMAIN disk \ {h}
        /\ \A g \in DOMAIN disk \ {h} : disk'[g] = disk[g]
        /\ \A i : i \in OnDisk' <=> i \in OnDisk /\ Hour(i) # h
        /\ \A i : i \in Durable' <=> i \in Durable /\ Hour(i) # h
    BY <1>1, <2>1, DropDisk
  <2>3. \A i \in RowsOf(h) : i \notin Kept(h)
    <3>1. SUFFICES ASSUME NEW i \in RowsOf(h) PROVE ~ (rows[i].ts >= Cutoff(Wall))
      BY DEF Kept
    <3>2. /\ i \in DOMAIN rows /\ Hour(i) = h
      BY <1>1, <1>2, RowsPlaced
    <3>3. rows[i].ts \in Nat /\ rows[i].ts <= 2 * h + 1 /\ h \in Nat
      BY <1>1, <3>2, HourIs DEF Hours
    <3>4. Cutoff(Wall) \in Int
      BY <1>1, Amounts DEF Cutoff, Wall, WorldOK
    <3> QED BY <1>6, <3>3, <3>4
  <2>4. KeptRows
    BY <1>2, <1>3, <1>4, <2>2, <2>3 DEF KeptRows
  <2> QED BY <1>2, <1>5, <2>2, <2>3, <2>4
<1>7. CASE ~ (2 * h + 2 <= Cutoff(Wall))
  <2> DEFINE at  == KeptAt(h)
             seg == Rewritten(disk[h], at)
  <2>1. disk' = [disk EXCEPT ![h] = seg]
    BY <1>7 DEF Expire
  <2>2. at \in SUBSET DOMAIN disk[h].rows /\ {disk[h].rows[n] : n \in at} = Kept(h)
    BY DEF KeptAt, Kept, RowsOf, ToSet
  <2> HIDE DEF at
  <2>3. seg = Rewritten(disk[h], at)
    OBVIOUS
  <2> HIDE DEF seg
  <2>4. /\ SegmentOK(seg, h) /\ ToSet(seg.rows) = Kept(h) /\ Held(seg) = Kept(h)
        /\ seg.synced = Len(seg.rows)
    <3>1. /\ SegmentOK(seg, h) /\ ToSet(seg.rows) = {disk[h].rows[n] : n \in at}
          /\ Held(seg) = ToSet(seg.rows) /\ seg.synced = Len(seg.rows)
      BY <1>1, <2>2, <2>3, PickedSegment
    <3> QED BY <3>1, <2>2
  <2>5. disk' = With(disk, h, seg)
    BY <1>1, <2>1, ExceptDisk
  <2>6. /\ DiskOK' /\ DOMAIN disk' = DOMAIN disk \cup {h}
        /\ disk'[h] = seg /\ \A g \in DOMAIN disk \ {h} : disk'[g] = disk[g]
        /\ \A i : i \in OnDisk' <=> (i \in OnDisk /\ Hour(i) # h) \/ i \in ToSet(seg.rows)
        /\ \A i : i \in Durable' <=> (i \in Durable /\ Hour(i) # h) \/ i \in Held(seg)
    BY <1>1, <2>4, <2>5, PutDisk
  <2>7. Len(seg.rows) \in 0..MaxRows
    BY <1>1, <2>4, SegmentBound
  <2>8. KeptRows
    BY <1>2, <1>3, <1>4, <2>4, <2>6 DEF KeptRows
  <2>9. \A i \in Kept(h) : i \in RowsOf(h)
    BY DEF Kept
  <2>10. \A i : i \in OnDisk' <=> i \in OnDisk /\ ~ (i \in RowsOf(h) /\ i \notin Kept(h))
    BY <1>2, <2>4, <2>6, <2>9
  <2> QED BY <1>5, <2>4, <2>6, <2>7, <2>8, <2>10
<1> QED BY <1>6, <1>7

\* What a step of the pruning leaves alone, whatever becomes of the segment.
LEMMA PruneFrame ==
  ASSUME ArchiveInv, worker.step = "prune", NEW h, worker' = [worker EXCEPT !.left = @ \ {h}],
         UNCHANGED <<t, offset, rows, first, status, copied, observed, anchor, phase, pins>>,
         NoFault \/ \E kind : Fault(kind), flags' \in {flags, flags \cup {"recovery"}},
         KeptRows, DOMAIN disk' \subseteq DOMAIN disk, Pinned \subseteq DOMAIN disk',
         \A i : i \in OnDisk' => i \in OnDisk, committed' \subseteq committed
  PROVE  /\ WorldOK' /\ WorkerOK' /\ FlagsOK' /\ FreshOK' /\ ViewOK' /\ RecoverOK'
         /\ CommittedOK' /\ StatusOK' /\ ClockOK'
<1>1. /\ worker'.step = "prune"
      /\ worker' \in [step : Steps, rows : SUBSET (first..Len(rows)), left : SUBSET Hours,
                      then : {"idle", "time", "select"}]
  BY LeavingIs DEF ArchiveInv
<1>2. WorkerOK' /\ RecoverOK'
  BY <1>1 DEF WorkerOK, RecoverOK, Hours
<1>3. FlagsOK' /\ FreshOK'
  BY <1>1 DEF ArchiveInv, FlagsOK, FreshOK, LockFree, Flags
<1>4. WorldOK' /\ StatusOK'
  BY WorldFrame DEF ArchiveInv, StatusOK, WorldOK
<1>5. ViewOK'
  <2>1. \A d \in Downloads : pins[d] \in SUBSET DOMAIN disk'
    BY DEF Pinned, ArchiveInv, ViewOK
  <2>2. pins \in [Downloads -> SUBSET DOMAIN disk']
    BY <2>1 DEF ArchiveInv, ViewOK
  <2> QED BY <2>2 DEF ArchiveInv, ViewOK
<1>6. CommittedOK'
  BY CommittedFrame DEF ArchiveInv, WorldOK
<1>7. ClockOK'
  BY ClockDiskFrame DEF ArchiveInv, Trusting
<1> QED BY <1>2, <1>3, <1>4, <1>5, <1>6, <1>7

LEMMA PruneKeeps ==
  ASSUME ArchiveInv, NEW h \in DOMAIN lengths, Prune(h)
  PROVE  ArchiveInv' /\ KeptRows /\ GrownViews
<1> USE DEF world
<1>1. /\ worker.step = "prune" /\ worker' = [worker EXCEPT !.left = @ \ {h}]
      /\ UNCHANGED <<world, rows, status, copied, first, observed, anchor, phase, pins>>
  BY DEF Prune
<1>2. DiskOK /\ ViewOK /\ SessionOK /\ Pinned \subseteq DOMAIN disk
  BY PinnedIs DEF ArchiveInv
<1>3. CASE /\ UNCHANGED <<disk, lengths, committed>> /\ flags' \in {flags, flags \cup {"recovery"}}
           /\ NoFault \/ \E kind : Fault(kind)
  <2>1. DiskOK' /\ KeptRows /\ GrownViews /\ OnDisk' = OnDisk
    BY <1>1, <1>2, <1>3, DiskFrame, SameDisk DEF OnDisk, RowsOf
  <2>2. /\ WorldOK' /\ WorkerOK' /\ FlagsOK' /\ FreshOK' /\ ViewOK' /\ RecoverOK'
        /\ CommittedOK' /\ StatusOK' /\ ClockOK'
    BY <1>1, <1>2, <1>3, <2>1, PruneFrame
  <2>3. SessionOK' /\ IndexOK'
    BY <1>1, <1>3, <2>1 DEF ArchiveInv, SessionOK, IndexOK, Hours
  <2> QED BY <2>1, <2>2, <2>3 DEF ArchiveInv
<1>4. CASE /\ ~ Spared(h) /\ h \in DOMAIN disk /\ Expire(h)
           /\ \/ /\ NoFault /\ UNCHANGED flags
                 /\ lengths' = IF h \in DOMAIN disk' THEN [lengths EXCEPT ![h] = Len(disk'[h].rows)]
                               ELSE Without(lengths, h)
                 /\ committed' = committed \ (RowsOf(h) \ Kept(h))
              \/ /\ Fault("io") /\ flags' = flags \cup {"recovery"} /\ UNCHANGED <<lengths, committed>>
  <2>1. h \notin Pinned
    BY <1>4 DEF Spared
  <2>2. /\ DiskOK' /\ DOMAIN disk' \subseteq DOMAIN disk /\ DOMAIN disk \ {h} \subseteq DOMAIN disk'
        /\ \A g \in DOMAIN disk \ {h} : disk'[g] = disk[g]
        /\ h \in DOMAIN disk' => /\ disk'[h].synced = Len(disk'[h].rows)
                                 /\ Len(disk'[h].rows) \in 0..MaxRows
        /\ \A i : i \in OnDisk' <=> i \in OnDisk /\ ~ (i \in RowsOf(h) /\ i \notin Kept(h))
        /\ KeptRows /\ GrownViews
    BY <1>1, <1>4, <2>1, ExpireIs
  <2>3. /\ WorldOK' /\ WorkerOK' /\ FlagsOK' /\ FreshOK' /\ ViewOK' /\ RecoverOK'
        /\ CommittedOK' /\ StatusOK' /\ ClockOK'
    <3>1. /\ Pinned \subseteq DOMAIN disk' /\ committed' \subseteq committed
          /\ flags' \in {flags, flags \cup {"recovery"}} /\ (NoFault \/ \E kind : Fault(kind))
      BY <1>2, <1>4, <2>1, <2>2
    <3> QED BY <1>1, <2>2, <3>1, PruneFrame
  <2>4. SessionOK' /\ IndexOK'
    <3>1. CASE /\ UNCHANGED flags
               /\ lengths' = IF h \in DOMAIN disk' THEN [lengths EXCEPT ![h] = Len(disk'[h].rows)]
                             ELSE Without(lengths, h)
               /\ committed' = committed \ (RowsOf(h) \ Kept(h))
      <4>1. /\ DOMAIN lengths' = (DOMAIN lengths \ {h}) \cup (IF h \in DOMAIN disk' THEN {h} ELSE {})
            /\ \A g \in DOMAIN lengths \ {h} : lengths'[g] = lengths[g]
            /\ h \in DOMAIN disk' => lengths'[h] = Len(disk'[h].rows)
            /\ lengths' = [g \in DOMAIN lengths' |-> lengths'[g]]
        <5>1. CASE h \in DOMAIN disk'
          BY <3>1, <5>1, <1>2 DEF SessionOK
        <5>2. CASE h \notin DOMAIN disk'
          BY <3>1, <5>2 DEF Without
        <5> QED BY <5>1, <5>2
      <4>2. SessionOK'
        BY <1>1, <1>2, <2>2, <3>1, <4>1 DEF SessionOK, Hours
      <4>3. IndexOK'
        <5>1. SUFFICES ASSUME "recovery" \notin flags PROVE IndexOK'
          BY <3>1 DEF IndexOK
        <5>2. /\ DOMAIN lengths = DOMAIN disk /\ committed = OnDisk
              /\ \A g \in DOMAIN disk : lengths[g] = Len(disk[g].rows) /\ disk[g].synced = Len(disk[g].rows)
          BY <5>1 DEF ArchiveInv, IndexOK
        <5>3. committed' = OnDisk'
          BY <3>1, <5>2, <2>2
        <5>4. DOMAIN lengths' = DOMAIN disk'
          BY <4>1, <5>2, <2>2
        <5>5. \A g \in DOMAIN disk' : lengths'[g] = Len(disk'[g].rows) /\ disk'[g].synced = Len(disk'[g].rows)
          BY <4>1, <5>2, <2>2
        <5> QED BY <5>3, <5>4, <5>5 DEF IndexOK
      <4> QED BY <4>2, <4>3
    <3>2. CASE flags' = flags \cup {"recovery"} /\ UNCHANGED <<lengths, committed>>
      BY <1>1, <1>2, <3>2 DEF SessionOK, IndexOK, Hours
    <3> QED BY <1>4, <3>1, <3>2
  <2> QED BY <2>2, <2>3, <2>4 DEF ArchiveInv
<1> QED BY <1>3, <1>4 DEF Prune, NoFault

\* The next session finds what was durable, and nothing that was not there.
LEMMA CrashKeeps ==
  ASSUME ArchiveInv, Crash
  PROVE  ArchiveInv' /\ KeptRows /\ GrownViews
<1> USE DEF world
<1>1. /\ status' = status \/ status' = {[s EXCEPT !.boot = FALSE] : s \in status} \/ status' = {}
      /\ \E kind : Fault(kind)
      /\ disk' \in [DOMAIN disk -> UNION {Survivors(disk[h]) : h \in DOMAIN disk}]
      /\ \A h \in DOMAIN disk : disk'[h] \in Survivors(disk[h])
      /\ first' = Len(rows) + 1
      /\ observed' = {} /\ committed' = {} /\ lengths' = <<>> /\ anchor' = {}
      /\ flags' = {"recovery"} /\ worker' = Flush({})
      /\ phase' = [d \in Downloads |-> "idle"] /\ pins' = [d \in Downloads |-> {}]
      /\ UNCHANGED <<world, rows, copied>>
  BY DEF Crash
<1>2. WorldOK /\ DiskOK /\ StatusOK /\ Len(rows) \in Nat
  BY DEF ArchiveInv, WorldOK
<1>3. DOMAIN disk' = DOMAIN disk /\ disk' = [h \in DOMAIN disk' |-> disk'[h]]
  BY <1>1
<1>4. \A h \in DOMAIN disk : /\ SegmentOK(disk'[h], h) /\ Held(disk[h]) \subseteq Held(disk'[h])
                             /\ ToSet(disk'[h].rows) \subseteq RowsOf(h)
  BY <1>1, <1>2, SurvivorIs DEF DiskOK, RowsOf
<1>5. DiskOK'
  <2>1. \A h \in DOMAIN disk' : SegmentOK(disk[h], h)'
    BY <1>1, <1>3, <1>4 DEF SegmentOK, Hour
  <2> QED BY <1>2, <1>3, <2>1 DEF DiskOK, Hours
<1>6. (\A i : i \in OnDisk' => i \in OnDisk) /\ (\A i \in Durable : i \in Durable')
  <2>1. \A i : i \in OnDisk' <=> \E g \in DOMAIN disk' : i \in ToSet(disk'[g].rows)
    BY DEF OnDisk, RowsOf
  <2>2. \A i : i \in Durable' <=> \E g \in DOMAIN disk' : i \in Held(disk'[g])
    BY DEF Durable, Held
  <2>3. \A i : i \in OnDisk <=> \E g \in DOMAIN disk : i \in RowsOf(g)
    BY DEF OnDisk
  <2>4. \A i : i \in Durable <=> \E g \in DOMAIN disk : i \in Held(disk[g])
    BY DurableIs
  <2> QED BY <1>3, <1>4, <2>1, <2>2, <2>3, <2>4
<1>7. KeptRows /\ GrownViews
  BY <1>1, <1>6 DEF KeptRows, GrownViews, Pinned
<1>8. WorldOK' /\ ViewOK'
  <2>1. WorldOK'
    BY <1>1, <1>2, WorldFrame
  <2> QED BY <1>1, <2>1 DEF ViewOK, Phases
<1>9. SessionOK'
  <2>1. DOMAIN lengths' = {} /\ lengths' = [h \in {} |-> lengths'[h]]
    BY <1>1
  <2> QED BY <1>1, <2>1 DEF ArchiveInv, SessionOK, Hours
<1>10. worker'.step = "queued" /\ WorkerOK' /\ RecoverOK' /\ ~ Trusting'
  <2>1. worker' = [step |-> "queued", rows |-> {}, left |-> {}, then |-> "idle"]
    BY <1>1 DEF Flush, Idle
  <2> QED BY <2>1 DEF WorkerOK, RecoverOK, Trusting, Steps
<1>11. FlagsOK' /\ FreshOK' /\ IndexOK' /\ CommittedOK'
  BY <1>1, <1>10 DEF FlagsOK, FreshOK, IndexOK, CommittedOK, LockFree, Flags
<1>12. StatusOK' /\ \A s \in status' : \E x \in status : s.anchor = x.anchor
  <2>1. anchor' \in Anchors
    BY <1>1 DEF Anchors
  <2>2. CASE status' = status \/ status' = {}
    BY <1>2, <2>1, <2>2 DEF StatusOK, Anchors, Halves
  <2>3. CASE status' = {[s EXCEPT !.boot = FALSE] : s \in status} /\ status # {}
    <3>1. PICK a \in Anchors, b \in BOOLEAN, ds \in SUBSET Halves :
            /\ status = {[anchor |-> a, boot |-> b, doubts |-> ds]}
            /\ "attest" \in ds => "uncertain" \in ds
      BY <1>2, <2>3 DEF StatusOK
    <3>2. status' = {[anchor |-> a, boot |-> FALSE, doubts |-> ds]}
      BY <2>3, <3>1
    <3>3. Halves' = Halves /\ Anchors' = Anchors
      BY DEF Halves, Anchors
    <3> HIDE DEF Anchors, Halves
    <3>4. \E x \in Anchors, c \in BOOLEAN, es \in SUBSET Halves :
            /\ status' = {[anchor |-> x, boot |-> c, doubts |-> es]}
            /\ "attest" \in es => "uncertain" \in es
      BY <3>1, <3>2
    <3>5. StatusOK'
      BY <2>1, <3>3, <3>4 DEF StatusOK
    <3> QED BY <3>1, <3>2, <3>5
  <2> QED BY <1>1, <2>2, <2>3
<1>13. ClockOK'
  <2>1. TrustOK' /\ SyncOK' /\ DoubtOK'
    BY <1>1, <1>10 DEF TrustOK, SyncOK, DoubtOK
  <2>2. BlindOK'
    <3>1. first' \in Nat /\ first' > Len(rows')
      BY <1>1, <1>2
    <3>2. \A i \in first'..Len(rows') : FALSE
      BY <3>1, <1>1, <1>2
    <3> QED BY <3>2 DEF BlindOK
  <2>3. RightOK'
    <3>1. anchor' # {Jump}
      BY <1>1
    <3> QED BY <3>1, <1>1, <1>6, <1>12 DEF ArchiveInv, ClockOK, RightOK, Right
  <2> QED BY <2>1, <2>2, <2>3 DEF ClockOK
<1> QED BY <1>5, <1>7, <1>8, <1>9, <1>10, <1>11, <1>12, <1>13 DEF ArchiveInv

-----------------------------------------------------------------------------
(* The theorems of the archive                                             *)

LEMMA ArchiveInit == TraceInit => ArchiveInv
<1> SUFFICES ASSUME TraceInit PROVE ArchiveInv
  OBVIOUS
<1> USE Amounts DEF TraceInit
<1>1. DOMAIN disk = {} /\ DOMAIN lengths = {} /\ Len(rows) = 0 /\ DOMAIN rows = {}
  OBVIOUS
<1>2. disk = [h \in DOMAIN disk |-> disk[h]] /\ lengths = [h \in DOMAIN lengths |-> lengths[h]]
  BY <1>1
<1>3. worker = [step |-> "queued", rows |-> {}, left |-> {}, then |-> "idle"]
  BY DEF Flush, Idle
<1>4. WorldOK
  <2>1. rows \in Seq(Row)
    OBVIOUS
  <2> QED BY <1>1, <2>1 DEF WorldOK
<1>5. DiskOK /\ SessionOK
  BY <1>1, <1>2 DEF DiskOK, SessionOK
<1>6. WorkerOK /\ RecoverOK /\ LockFree /\ ~ Trusting
  BY <1>3 DEF WorkerOK, RecoverOK, LockFree, Trusting, Steps
<1>7. FlagsOK /\ FreshOK /\ ViewOK
  BY <1>3, <1>6 DEF FlagsOK, FreshOK, ViewOK, Flags, Phases
<1>8. IndexOK /\ CommittedOK /\ StatusOK
  BY DEF IndexOK, CommittedOK, StatusOK, Anchors
<1>9. ClockOK
  <2>1. TrustOK /\ SyncOK /\ DoubtOK /\ BlindOK
    BY <1>6 DEF TrustOK, SyncOK, DoubtOK, BlindOK
  <2>2. OnDisk = {}
    BY <1>1 DEF OnDisk
  <2> QED BY <2>1, <2>2 DEF ClockOK, RightOK
<1> QED BY <1>4, <1>5, <1>6, <1>7, <1>8, <1>9 DEF ArchiveInv

LEMMA TraceStep ==
  ASSUME ArchiveInv, TraceNext
  PROVE  ArchiveInv' /\ KeptRows /\ GrownViews
<1>1. CASE Tick \/ Cycle \/ ClockMoves \/ Capture
  BY <1>1, TickKeeps, CycleKeeps, ClockMovesKeeps, CaptureKeeps
<1>2. CASE Begin \/ Recovered \/ CheckTime \/ Prove \/ \E h \in DOMAIN disk : Recover(h)
  BY <1>2, BeginKeeps, RecoveredKeeps, CheckTimeKeeps, ProveKeeps, RecoverKeeps
<1>3. CASE RecoveryPinned \/ Unproved \/ Halt \/ Pruned \/ PassFails
  BY <1>3, EndingsKeep
<1>4. CASE Select \/ Write \/ WriteFails \/ Written \/ \E h \in DOMAIN lengths : Prune(h)
  BY <1>4, SelectKeeps, WriteKeeps, WriteFailsKeeps, WrittenKeeps, PruneKeeps
<1>5. CASE \E d \in Downloads : Reserve(d) \/ Open(d) \/ FinishDownload(d) \/ CloseDownload(d)
  BY <1>5, ReserveKeeps, OpenKeeps, FinishDownloadKeeps, CloseDownloadKeeps
<1>6. CASE Stop \/ FinishStop \/ Crash
  BY <1>6, StopKeeps, FinishStopKeeps, CrashKeeps
<1> QED BY <1>1, <1>2, <1>3, <1>4, <1>5, <1>6 DEF TraceNext, Writer

\* A step that changes nothing.
LEMMA TraceStutter ==
  ASSUME ArchiveInv, UNCHANGED traceVars
  PROVE  ArchiveInv' /\ KeptRows /\ GrownViews
<1> USE DEF traceVars
<1>1. /\ WorldOK' /\ DiskOK' /\ SessionOK' /\ IndexOK' /\ CommittedOK' /\ StatusOK' /\ ClockOK'
      /\ KeptRows /\ GrownViews /\ WorkerOK' /\ RecoverOK'
  BY PassFrame, ControlFrame DEF ArchiveInv, NoFault, SessionOK
<1>2. ViewOK' /\ FlagsOK' /\ FreshOK'
  BY DEF ArchiveInv, ViewOK, FlagsOK, FreshOK, LockFree
<1> QED BY <1>1, <1>2 DEF ArchiveInv

LEMMA ArchiveInvariant == TraceSpec => []ArchiveInv
<1>1. ArchiveInv /\ [TraceNext]_traceVars => ArchiveInv'
  BY TraceStep, TraceStutter
<1> QED BY <1>1, ArchiveInit, PTL DEF TraceSpec

\* The archive's state has the shape that its code relies on: a segment lists rows
\* of the optimizer and has no more durable ones than rows, the index knows of no
\* hour the clock cannot have shown, an anchor is one clock or none, a view pins
\* segments only while it is open, and a pass that has begun holds the archive's
\* lease.
THEOREM TraceShape == TraceSpec => []TraceTypeOK
<1>1. ArchiveInv => TraceTypeOK
  <2> SUFFICES ASSUME ArchiveInv PROVE TraceTypeOK
    OBVIOUS
  <2>1. /\ t \in 0..MaxTime /\ offset \in {0, Jump} /\ rows \in Seq(Row) /\ Len(rows) <= MaxRows
        /\ first \in 1..(MaxRows + 1) /\ faults \in 0..FaultLimit
    BY Amounts DEF ArchiveInv, WorldOK
  <2>2. ASSUME NEW h \in DOMAIN disk PROVE disk[h] \in Segment /\ disk[h].synced <= Len(disk[h].rows)
    <3>1. /\ SegmentOK(disk[h], h) /\ Len(disk[h].rows) \in 0..MaxRows
      BY SegmentBound DEF ArchiveInv, DiskOK
    <3>2. /\ disk[h] \in [rows : Seq(DOMAIN rows), torn : BOOLEAN, synced : Nat]
          /\ disk[h].synced <= Len(disk[h].rows)
      BY <3>1 DEF SegmentOK
    <3>3. disk[h].rows \in Seq(1..MaxRows)
      <4>1. Len(rows) \in Nat /\ DOMAIN rows = 1..Len(rows) /\ DOMAIN rows \subseteq 1..MaxRows
        BY <2>1, Amounts
      <4>2. disk[h].rows \in Seq(DOMAIN rows)
        BY <3>2
      <4> DEFINE D == DOMAIN rows
                 E == 1..MaxRows
      <4>3. D \subseteq E /\ disk[h].rows \in Seq(D)
        BY <4>1, <4>2
      <4> HIDE DEF D, E
      <4>4. disk[h].rows \in Seq(E)
        BY <4>3
      <4> QED BY <4>4 DEF E
    <3>4. disk[h].synced \in 0..MaxRows
      BY <3>1, <3>2, Amounts
    <3> QED BY <3>2, <3>3, <3>4 DEF Segment
  <2>3. /\ DOMAIN disk \cup DOMAIN lengths \subseteq 0..(MaxTime + Jump)
        /\ \A h \in DOMAIN lengths : lengths[h] \in 0..MaxRows
        /\ observed \cup committed \cup copied \subseteq DOMAIN rows
    BY DEF ArchiveInv, DiskOK, SessionOK, Hours
  <2>4. /\ anchor \in Anchors
        /\ \A s \in status : s.anchor \in Anchors /\ s.doubts \subseteq {"uncertain", "attest"}
    BY StatusIs DEF ArchiveInv, StatusOK, Halves
  <2>5. Cardinality(status) <= 1
    <3>1. status = {} \/ \E s \in status : status = {s}
      BY StatusIs DEF ArchiveInv
    <3> QED BY <3>1, FS_EmptySet, FS_Singleton
  <2>6. /\ flags \subseteq Flags /\ ("attest" \in flags => "uncertain" \in flags)
        /\ worker.step \in Steps /\ (LockFree \/ "lease" \in flags)
    BY DEF ArchiveInv, FlagsOK, WorkerOK
  <2>7. /\ phase \in [Downloads -> Phases]
        /\ \A d \in Downloads : pins[d] = {} \/ phase[d] \in {"open", "closing"}
    BY DEF ArchiveInv, ViewOK
  <2> QED BY <2>1, <2>2, <2>3, <2>4, <2>5, <2>6, <2>7 DEF TraceTypeOK, Row
<1> QED BY <1>1, ArchiveInvariant, PTL

\* What the archive has told a pass it holds, and what a crash could not take from
\* it, is durable after every step, unless it is preserved in a copy or has been
\* kept, in true time, for the whole retention; and no segment ever lists a row
\* twice.  So neither a failed append, nor a crash, nor a repair, nor a clock that
\* was wrong and is believed again, loses a row early or doubles one.
THEOREM RowsAreKept == TraceSpec => KeptOnce
<1> DEFINE Step == /\ \A i \in committed \cup Durable :
                        i \in Durable' \/ i \in copied \/ t - rows[i].born > Retention
                   /\ \A h \in DOMAIN disk' : Cardinality(ToSet(disk'[h].rows)) = Len(disk'[h].rows)
<1>1. ArchiveInv /\ ArchiveInv' /\ [TraceNext]_traceVars => [Step]_traceVars
  <2> SUFFICES ASSUME ArchiveInv, ArchiveInv', TraceNext PROVE Step
    OBVIOUS
  <2>1. KeptRows
    BY TraceStep
  <2>2. \A i \in committed \cup Durable : i \in Durable' \/ Lost(i)
    BY <2>1 DEF KeptRows, ArchiveInv, CommittedOK
  <2>3. \A h \in DOMAIN disk' : Cardinality(ToSet(disk'[h].rows)) = Len(disk'[h].rows)
    <3>1. ASSUME NEW h \in DOMAIN disk' PROVE Cardinality(ToSet(disk'[h].rows)) = Len(disk'[h].rows)
      <4>1. disk'[h].rows \in Seq(DOMAIN rows') /\ Distinct(disk'[h].rows)
        BY DEF ArchiveInv, DiskOK, SegmentOK
      <4> QED BY <4>1, DistinctSize
    <3> QED BY <3>1
  <2> QED BY <2>2, <2>3 DEF Lost
<1> QED BY <1>1, ArchiveInvariant, PTL DEF TraceSpec, KeptOnce

\* While a download has a segment open the file stays, and what is in it stays
\* where it is: a recovery neither repairs it, nor does pruning shorten or remove
\* it, and an append only adds to its end.  Whoever has one open, the archive's
\* lease is held, even after the program has been told to stop.
THEOREM ViewsAreStable == TraceSpec => ViewsStable
<1> DEFINE Step == /\ \A h \in Pinned \cap Pinned' :
                        h \in DOMAIN disk' /\ IsPrefix(disk[h].rows, disk'[h].rows)
                   /\ Pinned' # {} => "lease" \in flags'
<1>1. ArchiveInv /\ ArchiveInv' /\ [TraceNext]_traceVars => [Step]_traceVars
  <2> SUFFICES ASSUME ArchiveInv, ArchiveInv', TraceNext PROVE Step
    OBVIOUS
  <2>1. GrownViews
    BY TraceStep
  <2>2. \A h \in Pinned' : h \in DOMAIN disk'
    BY DEF ArchiveInv, ViewOK, Pinned
  <2>3. Pinned' # {} => "lease" \in flags'
    BY DEF ArchiveInv, ViewOK, FlagsOK, Pinned, Phases
  <2> QED BY <2>1, <2>2, <2>3 DEF GrownViews
<1> QED BY <1>1, ArchiveInvariant, PTL DEF TraceSpec, ViewsStable

-----------------------------------------------------------------------------
(* The gaps a download is told of, where the wall clock is right           *)

ThisSession == first..Len(rows)
Expired(i)  == ~ (rows[i].ts >= Cutoff(Wall))
Waiting(i)  == i \in Unserializable \cap observed
Listed(h)   == {disk[h].rows[n] : n \in (1..lengths[h]) \cap DOMAIN disk[h].rows}
Sure        == "gap" \notin flags

\* The right clock stamps the rows in the order of their birth.
CalmOK ==
  /\ offset = 0 /\ \A i \in DOMAIN rows : Right(i)
  /\ \A i, k \in DOMAIN rows : i < k => rows[i].ts <= rows[k].ts

NewOK == "loaded" \notin flags =>
  /\ observed = {} /\ committed = {} /\ worker.rows = {} /\ DOMAIN lengths = {}
  /\ "uncertain" \notin flags
  /\ worker.step = "queued" \/ "stopping" \in flags

\* A session that knows of no gap began the archive, and its clock was never in doubt.
SureOK == Sure /\ "loaded" \in flags =>
  /\ anchor \in {{}, {0}} /\ "uncertain" \notin flags /\ worker.step # "prove"
  /\ OnDisk \subseteq ThisSession

\* The last capture saw the end of the rows there were; what it did not see had
\* been committed before.
CapturedOK == Sure => \E last \in (first - 1)..Len(rows) :
  /\ observed = {i \in first..last : i > last - Deque}
  /\ \A i \in first..last : i \in observed \/ i \in committed \/ Expired(i)

\* Before a row that a pass is to write there is none it does not know of.
PassedOK == Sure =>
  /\ worker.rows \subseteq observed
  /\ \A k \in worker.rows : \A i \in ThisSession :
       i < k => i \in worker.rows \/ i \in committed \/ Expired(i) \/ Waiting(i)

\* Nor before a row that is committed, or on the disk.
Seamless(S) == \A k \in S : \A i \in ThisSession : i < k => i \in S \/ Expired(i) \/ Waiting(i)
SeamlessOK  == Sure => Seamless(committed) /\ ("loaded" \in flags => Seamless(OnDisk))

\* What the index lists is committed, and what is committed it lists until it expires.
ListedOK == Sure =>
  /\ \A h \in DOMAIN lengths \cap DOMAIN disk : Listed(h) \subseteq committed
  /\ \A i \in committed :
       Expired(i) \/ (Hour(i) \in DOMAIN lengths \cap DOMAIN disk /\ i \in Listed(Hour(i)))

PruningOK == Sure /\ worker.step = "prune" =>
  \A h \in DOMAIN disk : h \in DOMAIN lengths /\ Len(disk[h].rows) <= lengths[h]

GapInv ==
  CalmOK /\ NewOK /\ SureOK /\ CapturedOK /\ PassedOK /\ SeamlessOK /\ ListedOK /\ PruningOK

\* While no recovery is due the index lists the disk, as a step leaves both.
LEMMA IndexTold ==
  ASSUME DiskOK', IndexOK', "recovery" \notin flags', rows' = rows
  PROVE  ListedOK' /\ PruningOK'
<1>1. /\ DOMAIN lengths' = DOMAIN disk' /\ committed' = OnDisk'
      /\ \A h \in DOMAIN disk' : lengths'[h] = Len(disk'[h].rows)
  BY DEF IndexOK
<1>2. ASSUME NEW h \in DOMAIN disk'
      PROVE  /\ Listed(h)' = RowsOf(h)' /\ Len(disk'[h].rows) <= lengths'[h]
             /\ \A i \in RowsOf(h)' : Hour(i)' = h
  <2>1. SegmentOK(disk'[h], h)
    BY DEF DiskOK, SegmentOK, Hour
  <2>2. /\ Len(disk'[h].rows) \in Nat /\ DOMAIN disk'[h].rows = 1..Len(disk'[h].rows)
        /\ \A i \in ToSet(disk'[h].rows) : Hour(i) = h
    BY <2>1, SegmentIs
  <2>3. (1..lengths'[h]) \cap DOMAIN disk'[h].rows = DOMAIN disk'[h].rows
    BY <1>1, <2>2
  <2> QED BY <1>1, <2>2, <2>3 DEF Listed, RowsOf, ToSet, Hour
<1>3. \A i \in OnDisk' : \E h \in DOMAIN disk' : i \in RowsOf(h)'
  BY DEF OnDisk
<1>4. \A h \in DOMAIN disk' : RowsOf(h)' \subseteq OnDisk'
  BY DEF OnDisk
<1> QED BY <1>1, <1>2, <1>3, <1>4 DEF ListedOK, PruningOK

\* A step of a pass, or of a download, in a session that has begun: what it takes
\* from the committed rows has expired, and what it takes from the pass is
\* committed, has expired or cannot be written.
LEMMA WorkTold ==
  ASSUME GapInv, UNCHANGED <<t, offset, rows, first, observed>>,
         "gap" \in flags => "gap" \in flags', "loaded" \in flags', "loaded" \in flags,
         Sure => \A i \in committed : i \in committed' \/ Expired(i), worker'.rows \subseteq worker.rows,
         Sure => worker'.rows = {} \/ \A i \in worker.rows :
            i \in worker'.rows \/ i \in committed' \/ Expired(i) \/ Waiting(i)
  PROVE  CalmOK' /\ NewOK' /\ CapturedOK' /\ PassedOK'
<1>1. CalmOK' /\ NewOK'
  BY DEF GapInv, CalmOK, NewOK, Right
<1>2. \A i : Expired(i)' <=> Expired(i)
  BY DEF Expired, Cutoff, Wall
<1>3. CapturedOK'
  BY <1>2 DEF GapInv, CapturedOK, Sure
<1>4. PassedOK'
  BY <1>2 DEF GapInv, PassedOK, Sure, Waiting, ThisSession
<1> QED BY <1>1, <1>3, <1>4

\* A step that changes neither the disk nor the index.
LEMMA ControlTold ==
  ASSUME GapInv, UNCHANGED <<t, offset, rows, first, disk, lengths, committed, observed>>,
         "gap" \in flags => "gap" \in flags', "loaded" \in flags' <=> "loaded" \in flags,
         worker'.rows \in {worker.rows, {}},
         "loaded" \notin flags => "uncertain" \notin flags',
         "loaded" \notin flags => worker'.step = "queued" \/ "stopping" \in flags',
         Sure' /\ "loaded" \in flags =>
           anchor' \in {{}, {0}} /\ "uncertain" \notin flags' /\ worker'.step # "prove",
         Sure' /\ worker'.step = "prune" => PruningOK /\ worker.step = "prune"
  PROVE  GapInv'
<1>1. CalmOK' /\ NewOK'
  BY DEF GapInv, CalmOK, NewOK, Right
<1>2. \A i : Expired(i)' <=> Expired(i)
  BY DEF Expired, Cutoff, Wall
<1>3. CapturedOK' /\ PassedOK'
  BY <1>2 DEF GapInv, CapturedOK, PassedOK, Sure, Waiting, ThisSession
<1>4. SureOK' /\ SeamlessOK'
  BY <1>2 DEF GapInv, SureOK, SeamlessOK, Sure, Seamless, Waiting, ThisSession, OnDisk, RowsOf
<1>5. ListedOK' /\ PruningOK'
  BY <1>2 DEF GapInv, ListedOK, PruningOK, Sure, Listed, Hour
<1> QED BY <1>1, <1>3, <1>4, <1>5 DEF GapInv

\* A session that knows of a gap promises nothing.
LEMMA GapIsTold ==
  ASSUME GapInv, ~ Sure', "loaded" \in flags', UNCHANGED <<t, offset, rows>>
  PROVE  GapInv'
BY DEF GapInv, CalmOK, NewOK, SureOK, CapturedOK, PassedOK, SeamlessOK, ListedOK, PruningOK, Right

\* A session that knows of no gap finds its clock right.
LEMMA SureIsSane ==
  ASSUME ArchiveInv, GapInv, Sure, "loaded" \in flags
  PROVE  Sane
BY DEF ArchiveInv, FlagsOK, GapInv, CalmOK, SureOK, Sane

\* The steps of the control.
LEMMA ControlSteps ==
  ASSUME ArchiveInv, GapInv,
         RecoveryPinned \/ Unproved \/ Halt \/ Pruned \/ PassFails \/ Stop \/ FinishStop
           \/ \E d \in Downloads : Reserve(d) \/ FinishDownload(d) \/ CloseDownload(d)
  PROVE  GapInv'
<1>1. UNCHANGED <<t, offset, rows, first, disk, lengths, committed, observed, anchor>>
  BY DEF RecoveryPinned, Unproved, Halt, Pruned, PassFails, Stop, FinishStop, Reserve,
         FinishDownload, CloseDownload, world, durable, session
<1>2. /\ flags \ {"lease"} \subseteq flags'
      /\ flags' \subseteq flags \cup {"recovery", "gap", "scheduled", "stopping", "closed"}
  BY DEF RecoveryPinned, Unproved, Halt, Pruned, PassFails, Stop, FinishStop, Reserve,
         FinishDownload, CloseDownload, Failing, EndPass, ScheduleStop
<1>3. worker' = worker \/ (worker' = Idle /\ ~ LockFree)
  BY DEF RecoveryPinned, Unproved, Halt, Pruned, PassFails, Stop, FinishStop, Reserve,
         FinishDownload, CloseDownload, Failing, EndPass, LockFree
<1>4. Idle.rows = {} /\ Idle.step = "idle"
  BY DEF Idle
<1>5. "loaded" \notin flags => LockFree
  BY DEF ArchiveInv, FreshOK
<1>6. worker'.rows \in {worker.rows, {}} /\ (worker'.step = worker.step \/ worker'.step = "idle")
  BY <1>3, <1>4
<1>7. "loaded" \notin flags =>
        "uncertain" \notin flags' /\ (worker'.step = "queued" \/ "stopping" \in flags')
  BY <1>2, <1>3, <1>5 DEF GapInv, NewOK
<1>8. Sure' /\ "loaded" \in flags =>
        anchor' \in {{}, {0}} /\ "uncertain" \notin flags' /\ worker'.step # "prove"
  BY <1>1, <1>2, <1>6 DEF GapInv, SureOK, Sure
<1>9. Sure' /\ worker'.step = "prune" => PruningOK /\ worker.step = "prune"
  BY <1>6 DEF GapInv
<1> QED BY <1>1, <1>2, <1>6, <1>7, <1>8, <1>9, ControlTold

LEMMA OpenTold ==
  ASSUME ArchiveInv, GapInv, NEW d \in Downloads, Open(d)
  PROVE  GapInv'
<1>1. /\ UNCHANGED <<t, offset, rows, first, disk, lengths, committed, observed, worker>>
      /\ phase[d] = "opening"
  BY DEF Open, world
<1>2. "loaded" \in flags /\ LockFree
  BY <1>1 DEF ArchiveInv, FreshOK, Open
<1>3. flags \ {"uncertain"} \subseteq flags' /\ "loaded" \in flags'
  BY <1>2 DEF Open, Unopened, ScheduleStop, Checked
<1>4. Sure' => anchor' \in {{}, {0}} /\ "uncertain" \notin flags' /\ worker'.step # "prove"
  <2>1. SUFFICES ASSUME Sure' PROVE anchor' \in {{}, {0}} /\ "uncertain" \notin flags'
    BY <1>1, <1>2 DEF LockFree
  <2>2. Sure /\ Sane /\ offset = 0
    BY <1>2, <1>3, <2>1, SureIsSane DEF Sure, GapInv, CalmOK
  <2>3. anchor \in {{}, {0}} /\ "uncertain" \notin flags
    BY <1>2, <2>2 DEF GapInv, SureOK
  <2> QED BY <2>2, <2>3 DEF Open, Unopened, ScheduleStop, Checked, Anchored
<1>5. worker'.step # "prune"
  BY <1>1, <1>2 DEF LockFree
<1> QED BY <1>1, <1>2, <1>3, <1>4, <1>5, ControlTold

LEMMA BeginTold ==
  ASSUME ArchiveInv, GapInv, Begin
  PROVE  GapInv'
<1>1. /\ worker.step = "queued"
      /\ UNCHANGED <<t, offset, rows, first, disk, lengths, committed, observed>>
  BY DEF Begin, world
<1>2. CASE "stopping" \in flags
  <2>1. worker' = Idle /\ UNCHANGED anchor /\ flags' = ScheduleStop(flags, phase)
    BY <1>2 DEF Begin, EndPass
  <2>2. flags \subseteq flags' /\ flags' \subseteq flags \cup {"scheduled"}
    BY <2>1 DEF ScheduleStop
  <2>3. worker'.rows = {} /\ worker'.step = "idle"
    BY <2>1 DEF Idle
  <2>4. ("loaded" \notin flags => "uncertain" \notin flags') /\ "stopping" \in flags'
    BY <1>2, <2>2 DEF GapInv, NewOK
  <2>5. Sure' /\ "loaded" \in flags => anchor' \in {{}, {0}} /\ "uncertain" \notin flags'
    BY <2>1, <2>2 DEF GapInv, SureOK, Sure
  <2>6. UNCHANGED <<t, offset, rows, first, disk, lengths, committed, observed>>
    BY <1>1
  <2> QED BY <2>2, <2>3, <2>4, <2>5, <2>6, ControlTold
<1>3. CASE "stopping" \notin flags /\ ~ ("recovery" \in flags /\ "loaded" \notin flags)
  <2>1. /\ UNCHANGED anchor /\ "loaded" \in flags
        /\ flags \ {"deferred"} \subseteq flags' /\ flags' \subseteq flags \cup {"lease"}
        /\ Recovering("time") \/ worker' = [worker EXCEPT !.step = "time"]
    BY <1>3 DEF Begin, ArchiveInv, FreshOK
  <2>2. worker'.rows = worker.rows /\ worker'.step \in {"recover", "time"}
    <3>1. CASE Recovering("time")
      BY <3>1, RecoveringIs DEF ArchiveInv
    <3>2. CASE worker' = [worker EXCEPT !.step = "time"]
      BY <3>2 DEF ArchiveInv, WorkerOK
    <3> QED BY <2>1, <3>1, <3>2
  <2> QED BY <1>1, <2>1, <2>2, ControlTold DEF GapInv, SureOK, Sure
<1>4. CASE "stopping" \notin flags /\ "recovery" \in flags /\ "loaded" \notin flags
  <2> DEFINE fl == flags \cup {"lease"}
  <2>1. /\ Recovering("time") /\ flags' = Load(fl)
        /\ anchor' \in (IF status = {} THEN {{}} ELSE UNION {Loaded(s) : s \in status})
    BY <1>4 DEF Begin
  <2>2. /\ fl \cup {"loaded"} \subseteq flags'
        /\ flags' \subseteq fl \cup {"loaded", "uncertain", "attest", "gap"}
    <3> HIDE DEF fl
    <3>1. "attest" \in fl => "uncertain" \in fl
      BY DEF fl, ArchiveInv, FlagsOK
    <3> QED BY <2>1, <3>1, LoadIs DEF ArchiveInv
  <2>3. worker'.rows = {} /\ worker'.step = "recover"
    BY <1>4, <2>1, RecoveringIs DEF ArchiveInv, GapInv, NewOK
  <2>4. CalmOK' /\ NewOK' /\ PassedOK' /\ PruningOK'
    BY <1>1, <2>2, <2>3 DEF GapInv, CalmOK, NewOK, PassedOK, PruningOK, Right
  <2>5. \A i : Expired(i)' <=> Expired(i)
    BY <1>1 DEF Expired, Cutoff, Wall
  <2>6. CapturedOK' /\ ListedOK'
    BY <1>1, <2>2, <2>5 DEF GapInv, CapturedOK, ListedOK, Sure, Listed, Hour
  <2>7. Sure' => status = {} /\ DOMAIN disk = {} /\ "uncertain" \notin flags'
    <3> HIDE DEF fl
    <3>1. SUFFICES ASSUME "gap" \notin Load(fl) PROVE status = {} /\ DOMAIN disk = {} /\ "uncertain" \notin Load(fl)
      BY <2>1 DEF Sure
    <3>2. status = {} /\ DOMAIN disk = {}
      BY <3>1 DEF Load
    <3>3. "uncertain" \notin fl
      <4>1. "uncertain" \notin flags
        BY <1>4 DEF GapInv, NewOK
      <4> QED BY <4>1 DEF fl
    <3> QED BY <3>2, <3>3 DEF Load
  <2>8. SureOK' /\ SeamlessOK'
    <3>1. Sure' => OnDisk' = {} /\ anchor' = {} /\ Sure /\ committed = {}
      BY <1>1, <1>4, <2>1, <2>2, <2>7 DEF OnDisk, Sure, GapInv, NewOK
    <3> QED BY <1>1, <2>3, <2>7, <3>1 DEF SureOK, SeamlessOK, Seamless, ThisSession
  <2> QED BY <2>4, <2>6, <2>8 DEF GapInv
<1> QED BY <1>2, <1>3, <1>4

LEMMA CheckTimeTold ==
  ASSUME ArchiveInv, GapInv, CheckTime \/ Prove
  PROVE  GapInv'
<1>1. /\ worker.step \in {"time", "prove"}
      /\ UNCHANGED <<t, offset, rows, first, disk, lengths, committed, observed>>
      /\ flags \ {"uncertain", "attest", "deferred"} \subseteq flags'
  BY DEF CheckTime, Prove, world, Checked
<1>2. "loaded" \in flags /\ "loaded" \in flags'
  BY <1>1 DEF ArchiveInv, FreshOK, LockFree
<1>3. /\ worker'.rows = worker.rows /\ worker'.step \in {"recover", "prove", "select"}
      /\ worker'.step = "prove" => ~ Sane
  <2>1. \/ Recovering("select") \/ (worker' = [worker EXCEPT !.step = "select"])
        \/ (worker' = [worker EXCEPT !.step = "prove"] /\ ~ Sane)
    BY DEF CheckTime, Prove
  <2>2. CASE Recovering("select")
    BY <2>2, RecoveringIs DEF ArchiveInv
  <2>3. CASE worker' = [worker EXCEPT !.step = "select"]
    BY <2>3 DEF ArchiveInv, WorkerOK
  <2>4. CASE worker' = [worker EXCEPT !.step = "prove"] /\ ~ Sane
    BY <2>4 DEF ArchiveInv, WorkerOK
  <2> QED BY <2>1, <2>2, <2>3, <2>4
<1>4. Sure' => anchor' \in {{}, {0}} /\ "uncertain" \notin flags' /\ worker'.step # "prove"
  <2>1. SUFFICES ASSUME Sure' PROVE anchor' \in {{}, {0}} /\ "uncertain" \notin flags' /\ worker'.step # "prove"
    OBVIOUS
  <2>2. Sure /\ Sane /\ offset = 0 /\ worker.step # "prove"
    BY <1>1, <1>2, <2>1, SureIsSane DEF Sure, GapInv, CalmOK, SureOK
  <2>3. CheckTime
    BY <2>2 DEF Prove
  <2> QED BY <1>3, <2>2, <2>3 DEF CheckTime, Checked, Anchored
<1> QED BY <1>1, <1>2, <1>3, <1>4, ControlTold

LEMMA WrittenTold ==
  ASSUME ArchiveInv, GapInv, Written
  PROVE  GapInv'
<1>1. /\ worker.step = "write" /\ worker.rows = {}
      /\ worker' = [worker EXCEPT !.step = "prune", !.left = DOMAIN lengths]
      /\ UNCHANGED <<t, offset, rows, first, disk, lengths, committed, observed, anchor, flags>>
  BY DEF Written, world, durable, session
<1>2. "loaded" \in flags /\ "recovery" \notin flags
  BY <1>1 DEF ArchiveInv, FreshOK, LockFree, FlagsOK
<1>3. worker'.rows = worker.rows /\ worker'.step = "prune"
  BY <1>1 DEF ArchiveInv, WorkerOK
<1>4. CalmOK' /\ NewOK' /\ CapturedOK' /\ PassedOK'
  BY <1>1, <1>2, <1>3, WorkTold
<1>5. \A i : Expired(i)' <=> Expired(i)
  BY <1>1 DEF Expired, Cutoff, Wall
<1>6. SureOK' /\ SeamlessOK' /\ ListedOK'
  BY <1>1, <1>3, <1>5 DEF GapInv, SureOK, SeamlessOK, ListedOK, Sure, Seamless, Waiting,
                          ThisSession, OnDisk, RowsOf, Listed, Hour
<1>7. PruningOK'
  <2>1. DOMAIN lengths = DOMAIN disk /\ \A h \in DOMAIN disk : lengths[h] = Len(disk[h].rows) /\ Len(disk[h].rows) \in Nat
    BY <1>2, SegmentIs DEF ArchiveInv, IndexOK, DiskOK
  <2> QED BY <1>1, <2>1 DEF PruningOK
<1> QED BY <1>4, <1>6, <1>7 DEF GapInv

\* Time only makes more rows expire.
LEMMA TickTold ==
  ASSUME ArchiveInv, GapInv, Tick
  PROVE  GapInv'
<1>1. /\ t' = t + 1
      /\ UNCHANGED <<offset, rows, first, disk, lengths, committed, observed, anchor, flags, worker>>
  BY DEF Tick, durable, session
<1>2. \A i \in DOMAIN rows : Expired(i) => Expired(i)'
  <2>1. t \in Int /\ offset \in Int /\ Retention \in Int /\ \A i \in DOMAIN rows : rows[i].ts \in Int
    BY Amounts, HourIs DEF ArchiveInv, WorldOK
  <2> QED BY <1>1, <2>1 DEF Expired, Cutoff, Wall
<1>3. ThisSession \subseteq DOMAIN rows /\ committed \subseteq DOMAIN rows
  BY DEF ThisSession, ArchiveInv, WorldOK, SessionOK
<1>4. CalmOK' /\ NewOK' /\ SureOK' /\ PruningOK'
  BY <1>1 DEF GapInv, CalmOK, NewOK, SureOK, PruningOK, Right, Sure, OnDisk, RowsOf, ThisSession
<1>5. CapturedOK'
  <2>1. SUFFICES ASSUME Sure PROVE CapturedOK'
    BY <1>1 DEF CapturedOK, Sure
  <2>2. PICK last \in (first - 1)..Len(rows) :
          /\ observed = {i \in first..last : i > last - Deque}
          /\ \A i \in first..last : i \in observed \/ i \in committed \/ Expired(i)
    BY <2>1 DEF GapInv, CapturedOK
  <2>3. \A i \in first..last : i \in ThisSession
    BY DEF ThisSession, ArchiveInv, WorldOK
  <2>4. \A i \in first..last : i \in observed' \/ i \in committed' \/ Expired(i)'
    BY <1>1, <1>2, <1>3, <2>2, <2>3
  <2> QED BY <1>1, <2>2, <2>4 DEF CapturedOK
<1>6. PassedOK' /\ SeamlessOK'
  BY <1>1, <1>2, <1>3 DEF GapInv, PassedOK, SeamlessOK, Seamless, Sure, Waiting, ThisSession, OnDisk, RowsOf
<1>7. ListedOK'
  BY <1>1, <1>2, <1>3 DEF GapInv, ListedOK, Sure, Listed, Hour
<1> QED BY <1>4, <1>5, <1>6, <1>7 DEF GapInv

\* A new row comes after every other.
LEMMA CycleTold ==
  ASSUME ArchiveInv, GapInv, Cycle
  PROVE  GapInv'
<1> DEFINE n   == Len(rows) + 1
           row == [born |-> t, ts |-> Wall]
<1>1. /\ rows' = Append(rows, row)
      /\ UNCHANGED <<t, offset, first, disk, lengths, committed, observed, anchor, flags, worker>>
  BY DEF Cycle, world, session
<1>2. /\ Len(rows) \in Nat /\ DOMAIN rows = 1..Len(rows) /\ Len(rows') = n /\ DOMAIN rows' = 1..n
      /\ rows'[n] = row /\ \A i \in DOMAIN rows : rows'[i] = rows[i]
  BY <1>1 DEF ArchiveInv, WorldOK
<1>3. /\ first \in 1..n /\ ThisSession \subseteq DOMAIN rows /\ ThisSession' = ThisSession \cup {n}
      /\ committed \subseteq DOMAIN rows /\ observed \subseteq DOMAIN rows
      /\ worker.rows \subseteq DOMAIN rows /\ OnDisk \subseteq DOMAIN rows
  <2>1. OnDisk \subseteq DOMAIN rows
    BY RowsPlaced DEF ArchiveInv
  <2>2. first \in 1..n /\ first \in Nat
    BY <1>2 DEF ArchiveInv, WorldOK
  <2> QED BY <1>1, <1>2, <2>1, <2>2 DEF ThisSession, ArchiveInv, SessionOK, WorkerOK
<1>4. \A i \in DOMAIN rows : Expired(i)' <=> Expired(i)
  BY <1>1, <1>2 DEF Expired, Cutoff, Wall
<1>5. CalmOK'
  <2>1. offset = 0 /\ Wall = t
    BY DEF GapInv, CalmOK, Wall, ArchiveInv, WorldOK
  <2>2. \A i \in DOMAIN rows' : Right(i)'
    BY <1>2, <2>1 DEF GapInv, CalmOK, Right
  <2>3. \A i \in DOMAIN rows : rows[i].ts <= t
    BY DEF GapInv, CalmOK, Right, ArchiveInv, WorldOK
  <2>4. \A i, k \in DOMAIN rows' : i < k => rows'[i].ts <= rows'[k].ts
    BY <1>2, <2>1, <2>3 DEF GapInv, CalmOK
  <2> QED BY <1>1, <2>1, <2>2, <2>4 DEF CalmOK
<1> HIDE DEF row
<1>6. NewOK' /\ SureOK' /\ PruningOK'
  BY <1>1, <1>3 DEF GapInv, NewOK, SureOK, PruningOK, Sure, OnDisk, RowsOf
<1>7. CapturedOK'
  <2>1. SUFFICES ASSUME Sure PROVE CapturedOK'
    BY <1>1 DEF CapturedOK, Sure
  <2>2. PICK last \in (first - 1)..Len(rows) :
          /\ observed = {i \in first..last : i > last - Deque}
          /\ \A i \in first..last : i \in observed \/ i \in committed \/ Expired(i)
    BY <2>1 DEF GapInv, CapturedOK
  <2>3. last \in (first - 1)..Len(rows')
    BY <1>2, <1>3
  <2>4. \A i \in first..last : i \in DOMAIN rows
    BY <1>2, <1>3
  <2>5. \A i \in first..last : i \in observed' \/ i \in committed' \/ Expired(i)'
    BY <1>1, <1>4, <2>2, <2>4
  <2>6. observed' = {i \in first'..last : i > last - Deque} /\ last \in (first' - 1)..Len(rows')
    BY <1>1, <2>2, <2>3
  <2> QED BY <1>1, <2>5, <2>6 DEF CapturedOK
<1>8. \A k \in DOMAIN rows : \A i \in ThisSession' :
        i < k => i \in ThisSession /\ (Expired(i)' <=> Expired(i)) /\ (Waiting(i)' <=> Waiting(i))
  BY <1>1, <1>2, <1>3, <1>4 DEF Waiting
<1>9. PassedOK' /\ SeamlessOK'
  BY <1>1, <1>3, <1>8 DEF GapInv, PassedOK, SeamlessOK, Seamless, Sure, OnDisk, RowsOf
<1>10. ListedOK'
  <2>1. \A i \in committed : Hour(i)' = Hour(i)
    BY <1>2, <1>3 DEF Hour
  <2> QED BY <1>1, <1>3, <1>4, <2>1 DEF GapInv, ListedOK, Sure, Listed
<1> QED BY <1>5, <1>6, <1>7, <1>9, <1>10 DEF GapInv

\* A clock that is right and cannot jump stays right.
LEMMA ClockStays ==
  ASSUME GapInv, "jump" \notin Adversity
  PROVE  ~ ClockMoves
BY DEF GapInv, CalmOK, ClockMoves, Fault

\* A capture that misses nothing continues the one before.
LEMMA CaptureTold ==
  ASSUME ArchiveInv, GapInv, Capture
  PROVE  GapInv'
<1>1. /\ "loaded" \in flags /\ flags \subseteq flags' /\ flags' \subseteq flags \cup {"gap"}
      /\ UNCHANGED <<t, offset, rows, first, disk, lengths, committed, anchor>>
  BY DEF Capture, GapInv, NewOK, world, durable
<1>2. /\ Flush({}).rows = {} /\ Flush({}).step = "queued"
      /\ Flush(Live \ committed).rows = Live \ committed /\ Flush(Live \ committed).step = "queued"
  BY DEF Flush, Idle
<1>3. CASE "uncertain" \in flags
  <2>1. ~ Sure
    BY <1>1, <1>3 DEF GapInv, SureOK
  <2>2. worker' = Flush({}) /\ UNCHANGED <<observed, flags>>
    BY <1>3 DEF Capture
  <2> QED BY <1>1, <1>2, <2>1, <2>2, ControlTold DEF Sure
<1>4. CASE "uncertain" \notin flags
  <2>1. /\ observed' = Live /\ worker' = Flush(Live \ committed)
        /\ Sure' => Sure /\ ~ Missed
    BY <1>1, <1>4 DEF Capture, Sure
  <2>2. worker'.rows = Live \ committed /\ worker'.step = "queued"
    BY <1>2, <2>1
  <2>3. \A i : Expired(i)' <=> Expired(i)
    BY <1>1 DEF Expired, Cutoff, Wall
  <2>4. CalmOK' /\ NewOK' /\ SureOK' /\ ListedOK' /\ PruningOK'
    BY <1>1, <2>2, <2>3 DEF GapInv, CalmOK, NewOK, SureOK, ListedOK, PruningOK, Right, Sure,
                            OnDisk, RowsOf, Listed, Hour, ThisSession
  <2>5. ASSUME Sure' PROVE \A i \in ThisSession : i \in Live \/ i \in committed \/ Expired(i)
    <3>1. SUFFICES ASSUME NEW i \in ThisSession, i \notin Live, i \notin committed, ~ Expired(i)
                   PROVE  FALSE
      OBVIOUS
    <3>2. Sure /\ ~ Missed
      BY <2>1, <2>5
    <3>3. PICK last \in (first - 1)..Len(rows) :
            /\ observed = {j \in first..last : j > last - Deque}
            /\ \A j \in first..last : j \in observed \/ j \in committed \/ Expired(j)
      BY <3>2 DEF GapInv, CapturedOK
    <3>4. first \in Int /\ Len(rows) \in Int /\ Deque \in Nat \ {0} /\ last \in Int /\ i \in Int
      BY DecisionTraceAssumption DEF ArchiveInv, WorldOK, ThisSession
    <3>5. i \in first..Len(rows) /\ i <= Len(rows) - Deque
      BY <3>1, <3>4 DEF ThisSession, Live
    <3>6. i > last
      <4>1. i \notin observed
        BY <3>1, <3>2 DEF Missed
      <4> QED BY <3>1, <3>3, <3>4, <3>5, <4>1
    <3>7. CASE last < first
      <4>1. observed = {}
        BY <3>3, <3>4, <3>7
      <4>2. Live = (Len(rows) - Deque + 1)..Len(rows)
        BY <3>4, <3>5 DEF Live
      <4>3. Cardinality((Len(rows) - Deque + 1)..Len(rows)) = Deque
        <5>1. /\ Len(rows) - Deque + 1 \in Int /\ Len(rows) - Deque + 1 <= Len(rows)
              /\ Len(rows) - (Len(rows) - Deque + 1) + 1 = Deque
          BY <3>4
        <5> QED BY <3>4, <5>1, FS_Interval
      <4> QED BY <3>2, <4>1, <4>2, <4>3 DEF Missed
    <3>8. CASE last >= first
      <4>1. last \in observed /\ \A j \in observed : j \in Int /\ j <= last
        BY <3>3, <3>4, <3>8
      <4>2. Max(observed) \in observed /\ Max(observed) >= last
        BY <3>4, <4>1 DEF Max
      <4>3. Max(observed) = last
        <5> DEFINE m == Max(observed)
        <5>1. m \in Int /\ m <= last /\ m >= last
          BY <4>1, <4>2
        <5>2. m = last
          <6> HIDE DEF m
          <6> QED BY <3>4, <5>1
        <5> QED BY <5>2
      <4>4. Len(rows) \in Live
        BY <3>4, <3>5 DEF Live
      <4>5. last \in Live
        BY <3>2, <4>1, <4>3, <4>4 DEF Missed
      <4> QED BY <3>4, <3>5, <3>6, <4>5 DEF Live
    <3> QED BY <3>4, <3>7, <3>8
  <2>6. CapturedOK'
    <3>1. SUFFICES ASSUME Sure' PROVE CapturedOK'
      BY DEF CapturedOK
    <3>2. Len(rows) \in (first - 1)..Len(rows)
      BY DEF ArchiveInv, WorldOK
    <3>3. observed' = {i \in first..Len(rows) : i > Len(rows) - Deque}
      BY <2>1 DEF Live
    <3>4. \A i \in first..Len(rows) : i \in observed' \/ i \in committed' \/ Expired(i)'
      BY <1>1, <2>1, <2>3, <2>5, <3>1 DEF ThisSession
    <3> QED BY <1>1, <3>2, <3>3, <3>4 DEF CapturedOK
  <2>7. PassedOK'
    <3>1. Sure' => \A i \in ThisSession : i \in Live \ committed \/ i \in committed \/ Expired(i)
      BY <2>5
    <3> QED BY <1>1, <2>1, <2>2, <2>3, <3>1 DEF PassedOK, ThisSession
  <2>8. ASSUME Sure', NEW S, NEW k \in S, NEW i \in ThisSession, i < k, Seamless(S)
        PROVE  i \in S \/ i \in committed \/ Expired(i)' \/ Waiting(i)'
    <3>1. observed \subseteq Live \cup committed
      BY <2>1, <2>8 DEF Missed
    <3> QED BY <2>1, <2>3, <2>8, <3>1 DEF Seamless, Waiting
  <2>9. SeamlessOK'
    <3>1. SUFFICES ASSUME Sure' PROVE Seamless(committed)' /\ Seamless(OnDisk)'
      BY DEF SeamlessOK
    <3>2. Seamless(committed) /\ Seamless(OnDisk)
      BY <1>1, <2>1, <3>1 DEF GapInv, SeamlessOK
    <3>3. \A i \in committed : i \in OnDisk \/ Expired(i)
      BY <2>1, <3>1 DEF GapInv, ListedOK, Listed, OnDisk, RowsOf, ToSet
    <3>4. Seamless(committed)'
      BY <1>1, <2>8, <3>1, <3>2 DEF Seamless, ThisSession
    <3>5. OnDisk' = OnDisk /\ ThisSession' = ThisSession
      BY <1>1 DEF OnDisk, RowsOf, ThisSession
    <3>6. Seamless(OnDisk)'
      BY <2>3, <2>8, <3>1, <3>2, <3>3, <3>5 DEF Seamless
    <3> QED BY <3>4, <3>6
  <2> QED BY <2>4, <2>6, <2>7, <2>9 DEF GapInv
<1> QED BY <1>3, <1>4

LEMMA SelectTold ==
  ASSUME ArchiveInv, GapInv, Select
  PROVE  GapInv'
<1> DEFINE early == {i \in worker.rows : rows[i].ts > Wall}
           fresh == {i \in worker.rows \ (early \cup committed \cup Unserializable) :
                       rows[i].ts >= Cutoff(Wall)}
<1>1. /\ worker.step = "select" /\ worker' = Moved("write", fresh)
      /\ flags' = (IF early = {} THEN flags ELSE flags \cup {"gap"})
      /\ UNCHANGED <<t, offset, rows, first, disk, lengths, committed, observed, anchor>>
  BY DEF Select, Moved, world, durable, session
<1>2. "loaded" \in flags /\ "loaded" \in flags'
  BY <1>1 DEF ArchiveInv, FreshOK, LockFree
<1>3. early = {}
  <2>1. /\ t \in Int /\ offset = 0 /\ worker.rows \subseteq DOMAIN rows
        /\ \A i \in DOMAIN rows : rows[i].ts = rows[i].born /\ rows[i].born <= t /\ rows[i].born \in Int
    BY HourIs DEF ArchiveInv, WorldOK, WorkerOK, GapInv, CalmOK, Right
  <2> QED BY <2>1 DEF Wall
<1>4. worker'.rows = fresh /\ worker'.step = "write"
  <2>1. worker.rows \subseteq first..Len(rows) /\ WorkerOK /\ "write" \in Steps
    BY DEF ArchiveInv, WorkerOK, Steps
  <2>2. fresh \in SUBSET (first..Len(rows))
    BY <2>1
  <2> HIDE DEF fresh
  <2> QED BY <1>1, <2>1, <2>2, MovedIs
<1>5. Sure => \A i \in worker.rows : i \in fresh \/ i \in committed \/ Expired(i) \/ Waiting(i)
  BY <1>3 DEF GapInv, PassedOK, Expired, Waiting
<1>6. fresh \subseteq worker.rows
  OBVIOUS
<1> HIDE DEF early, fresh
<1>7. CalmOK' /\ NewOK' /\ CapturedOK' /\ PassedOK'
  BY <1>1, <1>2, <1>3, <1>4, <1>5, <1>6, WorkTold
<1>8. \A i : Expired(i)' <=> Expired(i)
  BY <1>1 DEF Expired, Cutoff, Wall
<1>9. SureOK' /\ SeamlessOK' /\ ListedOK' /\ PruningOK'
  BY <1>1, <1>3, <1>4, <1>8 DEF GapInv, SureOK, SeamlessOK, ListedOK, PruningOK, Sure, Seamless,
                          Waiting, ThisSession, OnDisk, RowsOf, Listed, Hour
<1> QED BY <1>7, <1>9 DEF GapInv

LEMMA RecoverTold ==
  ASSUME ArchiveInv, GapInv, NEW h \in DOMAIN disk, Recover(h)
  PROVE  GapInv'
<1>1. /\ worker.step = "recover" /\ flags \subseteq flags' /\ flags' \subseteq flags \cup {"gap", "deferred"}
      /\ worker' = [worker EXCEPT !.left = @ \ {h}]
      /\ UNCHANGED <<t, offset, rows, first, lengths, committed, observed, anchor>>
  BY DEF Recover, world, session
<1>2. "loaded" \in flags /\ "loaded" \in flags'
  BY <1>1 DEF ArchiveInv, FreshOK, LockFree
<1>3. CASE ~ Intact(disk[h])
  BY <1>1, <1>2, <1>3, GapIsTold DEF Recover, Sure
<1>4. CASE Intact(disk[h])
  <2>1. disk' = [disk EXCEPT ![h] = Synced(@)] /\ flags' = flags
    BY <1>4 DEF Recover
  <2>2. DOMAIN disk' = DOMAIN disk /\ \A g \in DOMAIN disk : disk'[g].rows = disk[g].rows
    <3>1. Synced(disk[h]).rows = disk[h].rows
      BY SyncedIs DEF ArchiveInv, DiskOK
    <3> QED BY <2>1, <3>1 DEF ArchiveInv, DiskOK
  <2>3. worker'.rows = worker.rows /\ worker'.step = "recover"
    BY <1>1, LeavingIs DEF ArchiveInv
  <2>4. CalmOK' /\ NewOK' /\ CapturedOK' /\ PassedOK'
    BY <1>1, <1>2, <2>3, WorkTold
  <2>5. (\A i : Expired(i)' <=> Expired(i)) /\ OnDisk' = OnDisk
    BY <1>1, <2>2 DEF Expired, Cutoff, Wall, OnDisk, RowsOf
  <2>6. \A g \in DOMAIN disk : Listed(g)' = Listed(g)
    BY <1>1, <2>2 DEF Listed
  <2>7. SureOK' /\ SeamlessOK'
    BY <1>1, <2>1, <2>3, <2>5 DEF GapInv, SureOK, SeamlessOK, Sure, Seamless, Waiting, ThisSession
  <2>8. ListedOK' /\ PruningOK'
    BY <1>1, <2>1, <2>2, <2>3, <2>5, <2>6 DEF GapInv, ListedOK, PruningOK, Sure, Hour
  <2> QED BY <2>4, <2>7, <2>8 DEF GapInv
<1> QED BY <1>3, <1>4

LEMMA RecoveredTold ==
  ASSUME ArchiveInv, ArchiveInv', GapInv, Recovered
  PROVE  GapInv'
<1>1. /\ worker.step = "recover" /\ flags' = (flags \ {"recovery"}) \cup {"ready"}
      /\ lengths' = [h \in DOMAIN disk |-> Len(disk[h].rows)] /\ committed' = OnDisk
      /\ worker' = [worker EXCEPT !.step = worker.then]
      /\ UNCHANGED <<t, offset, rows, disk, first, observed, anchor>>
  BY DEF Recovered, world
<1>2. "loaded" \in flags /\ "loaded" \in flags'
  BY <1>1 DEF ArchiveInv, FreshOK, LockFree
<1>3. worker'.rows = worker.rows /\ worker'.step \in {"time", "select"}
  BY <1>1 DEF ArchiveInv, WorkerOK
<1>4. Sure => \A i \in committed : i \in OnDisk \/ Expired(i)
  BY DEF GapInv, ListedOK, Listed, OnDisk, RowsOf, ToSet
<1>5. CalmOK' /\ NewOK' /\ CapturedOK' /\ PassedOK'
  BY <1>1, <1>2, <1>3, <1>4, WorkTold
<1>6. (\A i : Expired(i)' <=> Expired(i)) /\ OnDisk' = OnDisk
  BY <1>1 DEF Expired, Cutoff, Wall, OnDisk, RowsOf
<1>7. SureOK' /\ SeamlessOK'
  BY <1>1, <1>2, <1>3, <1>6 DEF GapInv, SureOK, SeamlessOK, Sure, Seamless, Waiting, ThisSession
<1>8. ListedOK' /\ PruningOK'
  BY <1>1, IndexTold DEF ArchiveInv
<1> QED BY <1>5, <1>7, <1>8 DEF GapInv

-----------------------------------------------------------------------------
(* The gaps, where the disk changes                                        *)

\* The rows that a pass has before a row of its batch are of the batch.
LEMMA BatchOrder ==
  ASSUME WorldOK, WorkerOK, CalmOK, worker.rows # {}, NEW k \in Batch, NEW i \in worker.rows, i < k
  PROVE  i \in Batch
<1> DEFINE m == Min(worker.rows)
<1>1. worker.rows \subseteq DOMAIN rows /\ DOMAIN rows \subseteq Nat /\ k \in worker.rows
  BY DEF WorldOK, WorkerOK, Batch
<1>2. m \in worker.rows /\ m <= i /\ Hour(k) = Hour(m)
  BY <1>1, LeastIs DEF Batch
<1> HIDE DEF m
<1>3. rows[m].ts <= rows[i].ts /\ rows[i].ts <= rows[k].ts
  <2>1. \A n \in {m, i, k} : rows[n].ts \in Nat
    BY <1>1, <1>2, HourIs
  <2>2. m = i \/ m < i
    BY <1>1, <1>2
  <2> QED BY <1>1, <1>2, <2>1, <2>2 DEF CalmOK
<1>4. \A n \in {m, i, k} : /\ Hour(n) \in Nat /\ rows[n].ts \in Nat
                           /\ 2 * Hour(n) <= rows[n].ts /\ rows[n].ts <= 2 * Hour(n) + 1
  BY <1>1, <1>2, HourIs, Amounts DEF Hours
<1>5. Hour(i) = Hour(m)
  <2> DEFINE a == Hour(m)
             b == Hour(i)
  <2>1. /\ a \in Nat /\ b \in Nat /\ Hour(k) = a
        /\ 2 * a <= rows[m].ts /\ rows[i].ts <= 2 * b + 1
        /\ 2 * b <= rows[i].ts /\ rows[k].ts <= 2 * a + 1
        /\ rows[m].ts \in Nat /\ rows[i].ts \in Nat /\ rows[k].ts \in Nat
    BY <1>2, <1>4
  <2>2. a = b
    <3> HIDE DEF a, b
    <3> QED BY <1>3, <2>1
  <2> QED BY <2>2
<1> QED BY <1>1, <1>5 DEF Batch, m

LEMMA WriteTold ==
  ASSUME ArchiveInv, ArchiveInv', GapInv, Write
  PROVE  GapInv'
<1> DEFINE h   == Hour(Min(worker.rows))
           seg == Synced(Extended(h, Cardinality(Batch)))
<1>1. /\ worker.step = "write" /\ worker.rows # {} /\ disk' = With(disk, h, seg)
      /\ committed' = committed \cup Batch /\ worker' = [worker EXCEPT !.rows = @ \ Batch]
      /\ UNCHANGED <<t, offset, rows, first, observed, anchor, flags>>
  BY DEF Write, world
<1>2. /\ "loaded" \in flags /\ "recovery" \notin flags /\ WorldOK /\ WorkerOK
      /\ "loaded" \in flags'
  BY <1>1 DEF ArchiveInv, FreshOK, LockFree, FlagsOK
<1> HIDE DEF seg, h
<1>3. Batch \subseteq worker.rows
  BY DEF Batch
<1>4. worker'.rows = worker.rows \ Batch /\ worker'.step = "write"
  BY <1>1, <1>2 DEF WorkerOK
<1>5. committed = OnDisk /\ committed' = OnDisk'
  BY <1>1, <1>2 DEF ArchiveInv, IndexOK
<1>6. CalmOK' /\ NewOK' /\ CapturedOK' /\ PassedOK'
  BY <1>1, <1>2, <1>4, WorkTold
<1>7. ListedOK' /\ PruningOK'
  BY <1>1, <1>2, IndexTold DEF ArchiveInv
<1>8. SureOK'
  <2>1. worker.rows \subseteq ThisSession /\ ThisSession' = ThisSession
    BY <1>1, <1>2 DEF WorkerOK, ThisSession
  <2> QED BY <1>1, <1>3, <1>4, <1>5, <2>1 DEF GapInv, SureOK, Sure
<1>9. SeamlessOK'
  <2>1. SUFFICES ASSUME Sure' PROVE Seamless(committed)'
    BY <1>5 DEF SeamlessOK
  <2>2. Seamless(committed) /\ Sure
    BY <1>1, <2>1 DEF GapInv, SeamlessOK, Sure
  <2>3. \A i : (Expired(i)' <=> Expired(i)) /\ (Waiting(i)' <=> Waiting(i))
    BY <1>1 DEF Expired, Cutoff, Wall, Waiting
  <2>4. ASSUME NEW k \in committed', NEW i \in ThisSession, i < k
        PROVE  i \in committed' \/ Expired(i) \/ Waiting(i)
    <3>1. CASE k \in committed
      BY <1>1, <2>2, <2>4, <3>1 DEF Seamless
    <3>2. CASE k \in Batch
      <4>1. i \in worker.rows \/ i \in committed \/ Expired(i) \/ Waiting(i)
        BY <1>3, <2>2, <2>4, <3>2 DEF GapInv, PassedOK
      <4>2. i \in worker.rows => i \in Batch
        BY <1>1, <1>2, <2>4, <3>2, BatchOrder DEF GapInv
      <4> QED BY <1>1, <4>1, <4>2
    <3> QED BY <1>1, <3>1, <3>2
  <2>5. ThisSession' = ThisSession
    BY <1>1 DEF ThisSession
  <2> QED BY <2>3, <2>4, <2>5 DEF Seamless
<1> QED BY <1>6, <1>7, <1>8, <1>9 DEF GapInv

LEMMA WriteFailsTold ==
  ASSUME ArchiveInv, GapInv, WriteFails
  PROVE  GapInv'
<1>1. PICK n \in 0..Cardinality(Batch), torn \in BOOLEAN :
        disk' = With(disk, Hour(Min(worker.rows)),
                     [Extended(Hour(Min(worker.rows)), n) EXCEPT !.torn = torn])
  BY DEF WriteFails
<1> DEFINE h   == Hour(Min(worker.rows))
           old == IF h \in DOMAIN disk THEN disk[h] ELSE Blank
           b   == ToSet(SubSeq(InOrder(Batch), 1, n))
           ext == Extended(h, n)
           seg == [ext EXCEPT !.torn = torn]
<1>2. /\ worker.step = "write" /\ worker.rows # {} /\ EndPass(flags \cup {"recovery"})
      /\ disk' = With(disk, h, seg)
      /\ UNCHANGED <<t, offset, rows, first, observed, committed, lengths, anchor, phase>>
  BY <1>1 DEF WriteFails, Failing, world, session
<1>3. /\ WorldOK /\ DiskOK /\ WorkerOK /\ worker.rows \cap OnDisk = {}
      /\ "loaded" \in flags /\ "recovery" \notin flags
  BY <1>2 DEF ArchiveInv, WorkerOK, FreshOK, LockFree, FlagsOK
<1>4. /\ h \in Hours /\ b \subseteq Batch /\ Batch \subseteq worker.rows
      /\ \A i \in Batch, k \in b : i < k => i \in b
  BY <1>2, <1>3, BatchIs
<1>5. /\ SegmentOK(ext, h) /\ SegmentOK(old, h) /\ ToSet(ext.rows) = ToSet(old.rows) \cup b
      /\ \A k \in 1..Len(old.rows) : k \in 1..Len(ext.rows) /\ ext.rows[k] = old.rows[k]
  BY <1>2, <1>3, ExtendedIs
<1> HIDE DEF h, b, ext
<1>6. SegmentOK(seg, h) /\ seg.rows = ext.rows
  BY <1>5, TornIs
<1> HIDE DEF seg
<1>7. /\ DOMAIN disk' = DOMAIN disk \cup {h}
      /\ disk'[h] = seg /\ \A g \in DOMAIN disk \ {h} : disk'[g] = disk[g]
      /\ \A i : i \in OnDisk' <=> (i \in OnDisk /\ Hour(i) # h) \/ i \in ToSet(seg.rows)
  BY <1>2, <1>3, <1>4, <1>6, PutDisk
<1>8. \A i : i \in ToSet(old.rows) <=> i \in OnDisk /\ Hour(i) = h
  <2>1. CASE h \in DOMAIN disk
    BY <2>1, <1>3, RowsPlaced DEF RowsOf
  <2>2. CASE h \notin DOMAIN disk
    <3>1. ToSet(old.rows) = {}
      BY <2>2 DEF Blank, ToSet
    <3> QED BY <2>2, <3>1, <1>3, RowsPlaced
  <2> QED BY <2>1, <2>2
<1>9. \A i : i \in OnDisk' <=> i \in OnDisk \/ i \in b
  BY <1>5, <1>6, <1>7, <1>8
<1>10. /\ worker'.rows = {} /\ worker'.step = "idle"
       /\ flags \subseteq flags' /\ flags' \subseteq flags \cup {"recovery", "scheduled"}
  BY <1>2 DEF EndPass, Idle, ScheduleStop
<1>11. CalmOK' /\ NewOK' /\ CapturedOK' /\ PassedOK'
  BY <1>2, <1>3, <1>10, WorkTold
<1>12. /\ \A i : (Expired(i)' <=> Expired(i)) /\ (Waiting(i)' <=> Waiting(i))
       /\ ThisSession' = ThisSession /\ Sure' = Sure
  BY <1>2, <1>10 DEF Expired, Cutoff, Wall, Waiting, ThisSession, Sure
<1>13. SureOK'
  <2>1. worker.rows \subseteq ThisSession
    BY <1>3 DEF WorkerOK, ThisSession
  <2> QED BY <1>2, <1>3, <1>4, <1>9, <1>10, <1>12, <2>1 DEF GapInv, SureOK
<1>14. SeamlessOK'
  <2>1. SUFFICES ASSUME Sure PROVE Seamless(committed)' /\ Seamless(OnDisk)'
    BY <1>12 DEF SeamlessOK
  <2>2. Seamless(committed) /\ Seamless(OnDisk) /\ committed = OnDisk
    BY <1>3, <2>1 DEF GapInv, SeamlessOK, ArchiveInv, IndexOK
  <2>3. ASSUME NEW k \in OnDisk', NEW i \in ThisSession, i < k
        PROVE  i \in OnDisk' \/ Expired(i) \/ Waiting(i)
    <3>1. CASE k \in OnDisk
      BY <1>9, <2>2, <2>3, <3>1 DEF Seamless
    <3>2. CASE k \in b
      <4>1. i \in worker.rows \/ i \in committed \/ Expired(i) \/ Waiting(i)
        BY <1>4, <2>1, <2>3, <3>2 DEF GapInv, PassedOK
      <4>2. i \in worker.rows => i \in Batch
        BY <1>2, <1>3, <1>4, <2>3, <3>2, BatchOrder DEF GapInv
      <4>3. i \in Batch => i \in b
        BY <1>4, <2>3, <3>2
      <4> QED BY <1>9, <2>2, <4>1, <4>2, <4>3
    <3> QED BY <1>9, <3>1, <3>2
  <2>4. Seamless(OnDisk)'
    BY <1>12, <2>3 DEF Seamless
  <2>5. Seamless(committed)'
    BY <1>2, <1>12, <2>2 DEF Seamless
  <2> QED BY <2>4, <2>5
<1>15. ListedOK' /\ PruningOK'
  <2>1. /\ DOMAIN lengths = DOMAIN disk
        /\ \A g \in DOMAIN disk : lengths[g] = Len(disk[g].rows)
    BY <1>3 DEF ArchiveInv, IndexOK
  <2>2. ASSUME NEW g \in DOMAIN disk PROVE Listed(g)' = Listed(g)
    <3>1. CASE g # h
      BY <1>2, <1>7, <3>1 DEF Listed
    <3>2. CASE g = h
      <4>1. old = disk[g] /\ disk'[g].rows = ext.rows /\ lengths'[g] = Len(old.rows)
        BY <1>2, <1>6, <1>7, <2>1, <3>2
      <4>2. /\ Len(old.rows) \in Nat /\ DOMAIN old.rows = 1..Len(old.rows)
            /\ Len(ext.rows) \in Nat /\ DOMAIN ext.rows = 1..Len(ext.rows)
        BY <1>5, SegmentIs
      <4>3. /\ (1..Len(old.rows)) \cap DOMAIN ext.rows = 1..Len(old.rows)
            /\ (1..Len(old.rows)) \cap DOMAIN old.rows = 1..Len(old.rows)
        BY <1>5, <4>2
      <4>4. Listed(g)' = {ext.rows[k] : k \in 1..Len(old.rows)}
        BY <4>1, <4>3 DEF Listed
      <4>5. Listed(g) = {old.rows[k] : k \in 1..Len(old.rows)}
        BY <2>1, <4>1, <4>3 DEF Listed
      <4> QED BY <1>5, <4>4, <4>5
    <3> QED BY <3>1, <3>2
  <2>3. ListedOK'
    BY <1>2, <1>7, <1>12, <2>1, <2>2 DEF GapInv, ListedOK, Hour
  <2> QED BY <1>10, <2>3 DEF PruningOK
<1> QED BY <1>11, <1>13, <1>14, <1>15 DEF GapInv

\* A segment that lost its expired rows: the index lists what is left of it.
LEMMA PrunedTold ==
  ASSUME ArchiveInv, ArchiveInv', GapInv, worker.step = "prune", NEW h \in DOMAIN disk, h \notin Pinned,
         Expire(h), worker' = [worker EXCEPT !.left = @ \ {h}],
         UNCHANGED <<t, offset, rows, first, observed, anchor>>,
         flags' \in {flags, flags \cup {"recovery"}},
         DOMAIN lengths \ {h} \subseteq DOMAIN lengths', h \in DOMAIN disk' => h \in DOMAIN lengths',
         DOMAIN lengths' \subseteq DOMAIN lengths,
         \A g \in DOMAIN lengths \ {h} : lengths'[g] = lengths[g],
         h \in DOMAIN disk' => lengths'[h] = Len(disk'[h].rows) \/ lengths'[h] = lengths[h],
         committed' \in {committed, committed \ (RowsOf(h) \ Kept(h))}
  PROVE  GapInv'
<1>1. /\ "loaded" \in flags /\ "loaded" \in flags' /\ DiskOK /\ DiskOK'
      /\ worker'.rows = worker.rows /\ worker'.step = "prune"
  BY LeavingIs DEF ArchiveInv, FreshOK, LockFree
<1>2. /\ DOMAIN disk' \subseteq DOMAIN disk /\ DOMAIN disk \ {h} \subseteq DOMAIN disk'
      /\ \A g \in DOMAIN disk \ {h} : disk'[g] = disk[g]
      /\ \A i : i \in OnDisk' <=> i \in OnDisk /\ ~ (i \in RowsOf(h) /\ i \notin Kept(h))
  BY ExpireIs
<1>3. \A i \in RowsOf(h) \ Kept(h) : Expired(i)
  BY DEF Kept, Expired
<1>4. \A i : i \in committed' \/ Expired(i) <=> i \in committed \/ Expired(i)
  BY <1>3
<1>5. /\ \A i : (Expired(i)' <=> Expired(i)) /\ (Waiting(i)' <=> Waiting(i)) /\ Hour(i)' = Hour(i)
      /\ ThisSession' = ThisSession /\ Sure' = Sure
  BY DEF Expired, Cutoff, Wall, Waiting, Hour, ThisSession, Sure
<1>6. CalmOK' /\ NewOK' /\ CapturedOK' /\ PassedOK'
  BY <1>1, <1>4, WorkTold
<1>7. SureOK'
  BY <1>1, <1>2, <1>5 DEF GapInv, SureOK
<1>8. SeamlessOK'
  <2>1. SUFFICES ASSUME Sure PROVE Seamless(committed)' /\ Seamless(OnDisk)'
    BY <1>5 DEF SeamlessOK
  <2>2. Seamless(committed) /\ Seamless(OnDisk)
    BY <1>1, <2>1 DEF GapInv, SeamlessOK
  <2>3. committed' \subseteq committed /\ OnDisk' \subseteq OnDisk
    BY <1>2
  <2>4. \A i : i \in OnDisk => i \in OnDisk' \/ Expired(i)
    BY <1>2, <1>3
  <2> QED BY <1>4, <1>5, <2>2, <2>3, <2>4 DEF Seamless
<1>9. ListedOK' /\ PruningOK'
  <2>1. SUFFICES ASSUME Sure PROVE ListedOK' /\ PruningOK'
    BY <1>5 DEF ListedOK, PruningOK
  <2>2. \A g \in DOMAIN disk : g \in DOMAIN lengths /\ Len(disk[g].rows) <= lengths[g]
    BY <2>1 DEF GapInv, PruningOK
  <2>3. \A g \in DOMAIN lengths : lengths[g] \in Nat
    BY Amounts DEF ArchiveInv, SessionOK
  <2>4. ASSUME NEW g \in DOMAIN disk PROVE Listed(g) = RowsOf(g) /\ RowsOf(g) \subseteq committed
    <3>1. Len(disk[g].rows) \in Nat /\ DOMAIN disk[g].rows = 1..Len(disk[g].rows)
      BY <1>1, SegmentIs DEF DiskOK
    <3>2. (1..lengths[g]) \cap DOMAIN disk[g].rows = DOMAIN disk[g].rows
      BY <2>2, <2>3, <3>1
    <3>3. Listed(g) = RowsOf(g)
      BY <3>1, <3>2 DEF Listed, RowsOf, ToSet
    <3> QED BY <2>1, <2>2, <3>3 DEF GapInv, ListedOK
  <2>5. \A g \in DOMAIN disk : \A i \in RowsOf(g) : i \in OnDisk /\ Hour(i) = g
    BY <1>1, RowsPlaced
  <2>6. \A g \in DOMAIN disk \ {h} : g \in DOMAIN disk' /\ Listed(g)' = Listed(g)
    BY <1>2, <2>2 DEF Listed
  <2>7. ASSUME h \in DOMAIN disk'
        PROVE  /\ Listed(h)' = RowsOf(h)' /\ Len(disk'[h].rows) <= lengths'[h]
               /\ RowsOf(h)' \subseteq RowsOf(h) /\ \A i \in RowsOf(h)' : i \in OnDisk'
    <3>1. SegmentOK(disk'[h], h) /\ SegmentOK(disk[h], h)
      BY <1>1, <2>7 DEF DiskOK, SegmentOK, Hour
    <3>2. /\ Len(disk'[h].rows) \in Nat /\ DOMAIN disk'[h].rows = 1..Len(disk'[h].rows)
          /\ \A i \in ToSet(disk'[h].rows) : Hour(i) = h
      BY <3>1, SegmentIs
    <3>3. \A i \in RowsOf(h)' : i \in OnDisk'
      BY <2>7 DEF OnDisk
    <3>4. RowsOf(h)' \subseteq RowsOf(h)
      BY <1>1, <1>2, <3>2, <3>3, RowsPlaced DEF RowsOf
    <3>5. Len(disk'[h].rows) <= Len(disk[h].rows)
      <4>1. ToSet(disk'[h].rows) \subseteq ToSet(disk[h].rows)
        BY <3>4 DEF RowsOf
      <4>2. /\ Cardinality(ToSet(disk'[h].rows)) = Len(disk'[h].rows)
            /\ Cardinality(ToSet(disk[h].rows)) = Len(disk[h].rows) /\ IsFiniteSet(ToSet(disk[h].rows))
        BY <3>1, DistinctSize DEF SegmentOK
      <4> QED BY <4>1, <4>2, FS_Subset
    <3>6. Len(disk'[h].rows) <= lengths'[h] /\ lengths'[h] \in Nat
      <4>1. Len(disk[h].rows) \in Nat /\ Len(disk[h].rows) <= lengths[h] /\ lengths[h] \in Nat
        BY <2>2, <2>3, <3>1, SegmentIs
      <4> QED BY <2>7, <3>2, <3>5, <4>1
    <3>7. (1..lengths'[h]) \cap DOMAIN disk'[h].rows = DOMAIN disk'[h].rows
      BY <3>2, <3>6
    <3>8. Listed(h)' = RowsOf(h)'
      BY <3>2, <3>7 DEF Listed, RowsOf, ToSet
    <3> QED BY <3>3, <3>4, <3>6, <3>8
  <2>8. PruningOK'
    BY <1>2, <2>2, <2>6, <2>7 DEF PruningOK
  <2>9. ASSUME NEW g \in DOMAIN disk' PROVE Listed(g)' \subseteq committed'
    <3>1. CASE g = h
      BY <1>2, <2>4, <2>7, <2>9, <3>1
    <3>2. CASE g # h
      BY <1>2, <2>4, <2>5, <2>6, <2>9, <3>2
    <3> QED BY <3>1, <3>2
  <2>10. ASSUME NEW i \in committed', ~ Expired(i)
         PROVE  \E g \in DOMAIN lengths' \cap DOMAIN disk' : Hour(i) = g /\ i \in Listed(g)'
    <3>1. Hour(i) \in DOMAIN lengths \cap DOMAIN disk /\ i \in Listed(Hour(i))
      BY <2>1, <2>10 DEF GapInv, ListedOK
    <3>2. CASE Hour(i) # h
      BY <2>2, <2>6, <3>1, <3>2
    <3>3. CASE Hour(i) = h
      <4>1. i \in OnDisk'
        BY <1>2, <1>3, <2>4, <2>5, <2>10, <3>1, <3>3
      <4>2. PICK g \in DOMAIN disk' : i \in RowsOf(g)'
        BY <4>1 DEF OnDisk
      <4>3. g = h
        <5>1. SegmentOK(disk'[g], g)
          BY <1>1, <4>2 DEF DiskOK, SegmentOK, Hour
        <5>2. i \in ToSet(disk'[g].rows)
          BY <4>2 DEF RowsOf
        <5> QED BY <3>3, <5>1, <5>2, SegmentIs
      <4> QED BY <2>7, <3>3, <4>2, <4>3
    <3> QED BY <3>2, <3>3
  <2>11. \A i : Hour(i)' = Hour(i) /\ (Expired(i)' <=> Expired(i))
    BY <1>5
  <2>12. ListedOK'
    BY <2>9, <2>10, <2>11 DEF ListedOK
  <2> QED BY <2>8, <2>12
<1> QED BY <1>6, <1>7, <1>8, <1>9 DEF GapInv

LEMMA PruneTold ==
  ASSUME ArchiveInv, ArchiveInv', GapInv, NEW h \in DOMAIN lengths, Prune(h)
  PROVE  GapInv'
<1>1. /\ worker.step = "prune" /\ worker' = [worker EXCEPT !.left = @ \ {h}]
      /\ UNCHANGED <<t, offset, rows, first, observed, anchor>>
  BY DEF Prune, world
<1>2. /\ "loaded" \in flags /\ worker'.rows = worker.rows /\ worker'.step = "prune"
  BY <1>1, LeavingIs DEF ArchiveInv, FreshOK, LockFree
<1>3. CASE UNCHANGED <<disk, lengths, committed>> /\ flags' \in {flags, flags \cup {"recovery"}}
  <2>1. Sure' /\ "loaded" \in flags =>
          anchor' \in {{}, {0}} /\ "uncertain" \notin flags' /\ worker'.step # "prove"
    BY <1>1, <1>2, <1>3 DEF GapInv, SureOK, Sure
  <2> QED BY <1>1, <1>2, <1>3, <2>1, ControlTold DEF GapInv
<1>4. CASE /\ ~ Spared(h) /\ h \in DOMAIN disk /\ Expire(h) /\ UNCHANGED flags
           /\ lengths' = IF h \in DOMAIN disk' THEN [lengths EXCEPT ![h] = Len(disk'[h].rows)]
                         ELSE Without(lengths, h)
           /\ committed' = committed \ (RowsOf(h) \ Kept(h))
  <2>1. /\ DOMAIN lengths' = (DOMAIN lengths \ {h}) \cup (IF h \in DOMAIN disk' THEN {h} ELSE {})
        /\ \A g \in DOMAIN lengths \ {h} : lengths'[g] = lengths[g]
        /\ h \in DOMAIN disk' => lengths'[h] = Len(disk'[h].rows)
    <3>1. CASE h \in DOMAIN disk'
      BY <1>4, <3>1
    <3>2. CASE h \notin DOMAIN disk'
      BY <1>4, <3>2 DEF Without
    <3> QED BY <3>1, <3>2
  <2>2. h \notin Pinned
    BY <1>4 DEF Spared
  <2>3. DOMAIN lengths' \subseteq DOMAIN lengths /\ DOMAIN lengths \ {h} \subseteq DOMAIN lengths'
    BY <2>1
  <2> QED BY <1>1, <1>4, <2>1, <2>2, <2>3, PrunedTold
<1>5. CASE /\ ~ Spared(h) /\ h \in DOMAIN disk /\ Expire(h) /\ flags' = flags \cup {"recovery"}
           /\ UNCHANGED <<lengths, committed>>
  <2>1. h \notin Pinned
    BY <1>5 DEF Spared
  <2> QED BY <1>1, <1>5, <2>1, PrunedTold
<1> QED BY <1>3, <1>4, <1>5 DEF Prune

\* A session begins with nothing seen, and knows of no gap until it has loaded.
LEMMA CrashTold ==
  ASSUME ArchiveInv, GapInv, Crash
  PROVE  GapInv'
<1>1. /\ first' = Len(rows) + 1 /\ observed' = {} /\ committed' = {} /\ DOMAIN lengths' = {}
      /\ flags' = {"recovery"} /\ worker' = Flush({}) /\ UNCHANGED <<t, offset, rows>>
  BY DEF Crash, world
<1>2. worker'.rows = {} /\ worker'.step = "queued"
  BY <1>1 DEF Flush, Idle
<1>3. CalmOK' /\ NewOK' /\ SureOK' /\ PassedOK' /\ SeamlessOK' /\ ListedOK' /\ PruningOK'
  BY <1>1, <1>2 DEF GapInv, CalmOK, NewOK, SureOK, PassedOK, SeamlessOK, Seamless, ListedOK,
                    PruningOK, Right
<1>4. CapturedOK'
  <2>1. /\ Len(rows) \in (first' - 1)..Len(rows') /\ \A i \in first'..Len(rows) : FALSE
    BY <1>1 DEF ArchiveInv, WorldOK
  <2>2. observed' = {i \in first'..Len(rows) : i > Len(rows) - Deque}
    BY <1>1, <2>1
  <2> QED BY <2>1, <2>2 DEF CapturedOK
<1> QED BY <1>3, <1>4 DEF GapInv

LEMMA GapInit ==
  ASSUME TraceInit
  PROVE  GapInv
<1>1. /\ t = 0 /\ offset = 0 /\ rows = <<>> /\ first = 1 /\ observed = {} /\ committed = {}
      /\ DOMAIN lengths = {} /\ flags = {"recovery"} /\ worker = Flush({})
  BY DEF TraceInit
<1>2. worker.rows = {} /\ worker.step = "queued" /\ DOMAIN rows = {} /\ Len(rows) = 0
  BY <1>1 DEF Flush, Idle
<1>3. CalmOK /\ NewOK /\ SureOK /\ PassedOK /\ SeamlessOK /\ ListedOK /\ PruningOK
  BY <1>1, <1>2 DEF CalmOK, NewOK, SureOK, PassedOK, SeamlessOK, Seamless, ListedOK, PruningOK
<1>4. CapturedOK
  <2>1. 0 \in (first - 1)..Len(rows) /\ \A i \in first..0 : FALSE
    BY <1>1, <1>2
  <2>2. observed = {i \in first..0 : i > 0 - Deque}
    BY <1>1, <2>1
  <2> QED BY <2>1, <2>2 DEF CapturedOK
<1> QED BY <1>3, <1>4 DEF GapInv

LEMMA GapStep ==
  ASSUME ArchiveInv, ArchiveInv', GapInv, TraceNext, "jump" \notin Adversity
  PROVE  GapInv'
<1>1. CASE Tick \/ Cycle \/ ClockMoves \/ Capture
  BY <1>1, TickTold, CycleTold, ClockStays, CaptureTold
<1>2. CASE Begin \/ Recovered \/ CheckTime \/ Prove \/ \E h \in DOMAIN disk : Recover(h)
  BY <1>2, BeginTold, RecoveredTold, CheckTimeTold, RecoverTold
<1>3. CASE RecoveryPinned \/ Unproved \/ Halt \/ Pruned \/ PassFails \/ Stop \/ FinishStop
  BY <1>3, ControlSteps
<1>4. CASE Select \/ Write \/ WriteFails \/ Written \/ \E h \in DOMAIN lengths : Prune(h)
  BY <1>4, SelectTold, WriteTold, WriteFailsTold, WrittenTold, PruneTold
<1>5. CASE \E d \in Downloads : Reserve(d) \/ Open(d) \/ FinishDownload(d) \/ CloseDownload(d)
  <2>1. CASE \E d \in Downloads : Open(d)
    BY <2>1, OpenTold
  <2>2. CASE \E d \in Downloads : Reserve(d) \/ FinishDownload(d) \/ CloseDownload(d)
    BY <2>2, ControlSteps
  <2> QED BY <1>5, <2>1, <2>2
<1>6. CASE Crash
  BY <1>6, CrashTold
<1> QED BY <1>1, <1>2, <1>3, <1>4, <1>5, <1>6 DEF TraceNext, Writer

LEMMA GapStutter ==
  ASSUME GapInv, UNCHANGED traceVars
  PROVE  GapInv'
<1>1. /\ UNCHANGED <<t, offset, rows, first, disk, lengths, committed, observed, anchor, flags, worker>>
  BY DEF traceVars
<1> QED BY <1>1, ControlTold DEF GapInv, NewOK, SureOK, Sure

\* Only the job that opens a download opens it.
LEMMA OpensIs ==
  ASSUME ArchiveInv, TraceNext, NEW d \in Downloads, phase[d] # "open", phase'[d] = "open"
  PROVE  Open(d)
<1>1. phase \in [Downloads -> Phases]
  BY DEF ArchiveInv, ViewOK
<1>2. CASE Tick \/ Cycle \/ ClockMoves \/ Capture \/ Stop \/ FinishStop
  BY <1>2 DEF Tick, Cycle, ClockMoves, Capture, Stop, FinishStop
<1>3. CASE Begin \/ Recovered \/ CheckTime \/ Prove \/ \E h \in DOMAIN disk : Recover(h)
  BY <1>3 DEF Begin, Recovered, CheckTime, Prove, Recover
<1>4. CASE RecoveryPinned \/ Unproved \/ Halt \/ Pruned \/ PassFails
  BY <1>4 DEF RecoveryPinned, Unproved, Halt, Pruned, PassFails
<1>5. CASE Select \/ Write \/ WriteFails \/ Written \/ \E h \in DOMAIN lengths : Prune(h)
  BY <1>5 DEF Select, Write, WriteFails, Written, Prune
<1>6. CASE \E e \in Downloads : Reserve(e) \/ FinishDownload(e) \/ CloseDownload(e)
  <2>1. PICK e \in Downloads, p \in {"opening", "closing", "idle"} : phase' = [phase EXCEPT ![e] = p]
    BY <1>6 DEF Reserve, FinishDownload, CloseDownload
  <2> QED BY <1>1, <2>1
<1>7. CASE \E e \in Downloads : Open(e)
  <2>1. PICK e \in Downloads : Open(e)
    BY <1>7
  <2>2. \E p \in Phases : phase' = [phase EXCEPT ![e] = p]
    BY <2>1 DEF Open, Unopened, Phases
  <2>3. d = e
    BY <1>1, <2>2
  <2> QED BY <2>1, <2>3
<1>8. CASE Crash
  <2>1. phase' = [x \in Downloads |-> "idle"]
    BY <1>8 DEF Crash
  <2> QED BY <2>1
<1> QED BY <1>2, <1>3, <1>4, <1>5, <1>6, <1>7, <1>8 DEF TraceNext, Writer

\* What a download shows that is told of no gap.
LEMMA WholeShown ==
  ASSUME ArchiveInv, GapInv, NEW d \in Downloads, Open(d), phase'[d] = "open", "gap" \notin flags'
  PROVE  Whole(Shown(pins'[d]), Cutoff(SafeNow))
<1>1. phase \in [Downloads -> Phases] /\ pins \in [Downloads -> SUBSET DOMAIN disk] /\ phase[d] = "opening"
  BY DEF ArchiveInv, ViewOK, Open
<1>2. Viewable /\ pins' = [pins EXCEPT ![d] = View] /\ flags' = Checked(flags)
  BY <1>1 DEF Open, Unopened
<1>3. Sure /\ Sane /\ "loaded" \in flags
  BY <1>1, <1>2 DEF Checked, Sure, ArchiveInv, FreshOK
<1>4. pins'[d] = View
  BY <1>1, <1>2
<1>5. SafeNow = Wall /\ Wall = t
  BY <1>3 DEF SafeNow, Wall, GapInv, CalmOK, ArchiveInv, WorldOK
<1>6. View \subseteq DOMAIN lengths \cap DOMAIN disk
  BY <1>2 DEF Viewable, View
<1>7. \A h \in View : Listed(h) \subseteq committed /\ Listed(h) \subseteq OnDisk
  BY <1>3, <1>6 DEF GapInv, ListedOK, Listed, OnDisk, RowsOf, ToSet
<1>8. Shown(View) = UNION {Listed(h) : h \in View}
  BY DEF Shown, Listed
<1>9. Shown(View) \subseteq committed /\ Shown(View) \subseteq ThisSession
  BY <1>3, <1>7, <1>8 DEF GapInv, SureOK
<1>10. ASSUME NEW i \in ThisSession, NEW k \in Shown(View), i < k, rows[i].ts >= Cutoff(Wall)
       PROVE  i \in Shown(View) \/ i \in Unserializable \cap observed
  <2>1. i \in committed \/ Waiting(i)
    BY <1>3, <1>9, <1>10 DEF GapInv, SeamlessOK, Seamless, Expired
  <2>2. ASSUME i \in committed PROVE i \in Shown(View)
    <3>1. Hour(i) \in DOMAIN lengths \cap DOMAIN disk /\ i \in Listed(Hour(i))
      BY <1>3, <1>10, <2>2 DEF GapInv, ListedOK, Expired
    <3>2. /\ i \in DOMAIN rows /\ rows[i].ts = rows[i].born /\ rows[i].born <= t
      BY <2>2 DEF ArchiveInv, SessionOK, WorldOK, GapInv, CalmOK, Right
    <3>3. /\ Hour(i) \in Nat /\ rows[i].ts \in Nat
          /\ 2 * Hour(i) <= rows[i].ts /\ rows[i].ts <= 2 * Hour(i) + 1
      BY <3>2, HourIs, Amounts DEF ArchiveInv, Hours
    <3>4. t \in Nat /\ Cutoff(Wall) \in Int /\ rows[i].ts >= Cutoff(Wall)
      BY <1>5, <1>10, Amounts DEF ArchiveInv, WorldOK, Cutoff
    <3>5. 2 * Hour(i) + 2 > Cutoff(Wall) /\ 2 * Hour(i) <= t
      <4> DEFINE h == Hour(i)
                 c == Cutoff(Wall)
      <4>1. /\ h \in Nat /\ c \in Int /\ rows[i].ts \in Nat /\ t \in Nat /\ rows[i].ts <= t
            /\ 2 * h <= rows[i].ts /\ rows[i].ts <= 2 * h + 1 /\ rows[i].ts >= c
        BY <3>2, <3>3, <3>4
      <4> HIDE DEF h, c
      <4>2. 2 * h + 2 > c /\ 2 * h <= t
        BY <4>1
      <4> QED BY <4>2 DEF h, c
    <3>6. Hour(i) \in View
      BY <1>5, <3>1, <3>5 DEF View
    <3> QED BY <1>8, <3>1, <3>6
  <2> QED BY <2>1, <2>2 DEF Waiting
<1> QED BY <1>4, <1>5, <1>9, <1>10 DEF Whole, ThisSession

\* Where the wall clock does not jump, whatever else goes wrong: a download that
\* says "no possible gaps" shows the rows of one session up to its last one, but
\* for those that expired and those that could not be written and are still in the
\* last capture.  A row that the deque lost, a crash, a torn or half-written
\* segment, a failed pass and a predecessor's archive are always told.
THEOREM GapsAreTold == ASSUME "jump" \notin Adversity PROVE TraceSpec => GapsTold
<1> DEFINE Step == \A d \in Downloads :
                     phase[d] # "open" /\ phase'[d] = "open" /\ "gap" \notin flags'
                       => Whole(Shown(pins'[d]), Cutoff(SafeNow))
<1>1. ArchiveInv /\ ArchiveInv' /\ GapInv /\ [TraceNext]_traceVars => GapInv'
  BY GapStep, GapStutter
<1>2. ArchiveInv /\ GapInv /\ [TraceNext]_traceVars => [Step]_traceVars
  <2> SUFFICES ASSUME ArchiveInv, GapInv, TraceNext PROVE Step
    OBVIOUS
  <2> QED BY OpensIs, WholeShown
<1> QED BY <1>1, <1>2, ArchiveInvariant, GapInit, PTL DEF TraceSpec, GapsTold

USE DEF admission, owner, callers

-----------------------------------------------------------------------------
(* The inductive invariant                                                 *)

\* The thread is busy exactly with the job it has taken.
ThreadOK ==
  /\ active # None <=> thread \in {"executing", "settled"}
  /\ thread = "executing" => future[active] = "running"

\* Every queued job is pending and queued once.
QueueOK == \A i \in DOMAIN queue :
             /\ future[queue[i]] = "pending"
             /\ \A j \in DOMAIN queue : queue[i] = queue[j] => i = j

Exact == outstanding = Len(queue) + Busy

\* Until shutdown what is not ordinary is the ledger's: its pending job and the
\* one the thread still holds.
LedgerShare ==
  ~stopping =>
    /\ ordinary < Capacity
    /\ outstanding = ordinary + (IF future[Ledger] = "pending" THEN 1 ELSE 0)
                              + (IF active = Ledger THEN 1 ELSE 0)

Inv == TypeOK /\ ThreadOK /\ QueueOK /\ Exact /\ LedgerShare

LEMMA InitInv == Init => Inv
<1> SUFFICES ASSUME Init PROVE Inv
  OBVIOUS
<1>1. TypeOK
  <2>1. queue \in Seq(Slots) /\ outstanding \in 0..Capacity /\ ordinary \in Int
    BY StorageWorkerAssumption DEF Init
  <2>2. ran \in [Slots -> Nat]
    BY DEF Init
  <2> QED BY <2>1, <2>2 DEF Init, TypeOK
<1>2. ThreadOK
  BY DEF Init, ThreadOK
<1>3. QueueOK /\ Exact /\ LedgerShare
  BY StorageWorkerAssumption DEF Init, QueueOK, Exact, LedgerShare, Busy, Slots
<1> QED BY <1>1, <1>2, <1>3 DEF Inv

LEMMA SubmitInv == ASSUME Inv, NEW c \in Slots, Submit(c) PROVE Inv'
<1> USE StorageWorkerAssumption DEF Inv, Submit, Asks, Admits
<1>1. TypeOK'
  BY DEF TypeOK, Slots
<1>2. ThreadOK'
  BY DEF TypeOK, ThreadOK
<1>3. QueueOK'
  BY DEF TypeOK, QueueOK
<1>4. Exact'
  BY DEF TypeOK, Exact, Busy
<1>5. LedgerShare'
  BY DEF TypeOK, LedgerShare, Slots
<1> QED BY <1>1, <1>2, <1>3, <1>4, <1>5

LEMMA DeliverInv == ASSUME Inv, NEW c \in Slots, Deliver(c) PROVE Inv'
<1> USE DEF Inv, Deliver
<1>1. TypeOK'
  BY DEF TypeOK
<1>2. ThreadOK' /\ QueueOK'
  BY DEF TypeOK, ThreadOK, QueueOK
<1>3. Exact'
  BY DEF Exact, Busy
<1>4. LedgerShare'
  BY DEF TypeOK, LedgerShare, Slots
<1> QED BY <1>1, <1>2, <1>3, <1>4

LEMMA CloseInv == ASSUME Inv, Close PROVE Inv'
<1> USE StorageWorkerAssumption DEF Inv, Close, CancelQueued
<1>1. Cardinality({i \in DOMAIN queue : queue[i] # Ledger}) \in Int
  <2>1. IsFiniteSet(1..Len(queue))
    BY FS_Interval DEF TypeOK
  <2>2. {i \in DOMAIN queue : queue[i] # Ledger} \subseteq 1..Len(queue)
    BY DEF TypeOK
  <2> QED BY <2>1, <2>2, FS_Subset, FS_CardinalityType
<1>2. TypeOK'
  BY <1>1 DEF TypeOK, Exact, Busy
<1>3. ThreadOK'
  BY DEF TypeOK, ThreadOK, QueueOK, Queued
<1>4. QueueOK' /\ Exact' /\ LedgerShare'
  BY DEF TypeOK, QueueOK, Exact, LedgerShare, Busy
<1> QED BY <1>2, <1>3, <1>4

LEMMA TakeInv == ASSUME Inv, Take PROVE Inv'
<1> USE DEF Inv, Take
<1>1. Head(queue) \in Slots /\ future[Head(queue)] = "pending" /\ Head(queue) # None
  BY StorageWorkerAssumption DEF TypeOK, QueueOK, Slots
<1>2. TypeOK'
  BY <1>1 DEF TypeOK
<1>3. ThreadOK'
  BY <1>1 DEF TypeOK, ThreadOK
<1>4. QueueOK'
  <2>1. \A i \in DOMAIN queue' : i + 1 \in DOMAIN queue /\ queue'[i] = queue[i + 1]
    BY DEF TypeOK
  <2>2. 1 \in DOMAIN queue /\ Head(queue) = queue[1]
    BY DEF TypeOK
  <2>3. \A i \in DOMAIN queue' : queue'[i] # Head(queue) /\ queue'[i] \in Slots
    BY <2>1, <2>2 DEF TypeOK, QueueOK
  <2>4. \A i \in DOMAIN queue' : future'[queue'[i]] = "pending"
    BY <2>1, <2>3 DEF TypeOK, QueueOK
  <2>5. \A i, j \in DOMAIN queue' : queue'[i] = queue'[j] => i = j
    BY <2>1 DEF TypeOK, QueueOK
  <2> QED BY <2>4, <2>5 DEF QueueOK
<1>5. Exact'
  BY <1>1 DEF TypeOK, ThreadOK, Exact, Busy
<1>6. LedgerShare'
  <2>1. active = None /\ active' = Head(queue) /\ Ledger \in Slots /\ Ledger # None
    BY StorageWorkerAssumption DEF ThreadOK, Slots
  <2>2. CASE Head(queue) = Ledger
    BY <1>1, <2>1, <2>2 DEF TypeOK, LedgerShare
  <2>3. CASE Head(queue) # Ledger
    BY <1>1, <2>1, <2>3 DEF TypeOK, LedgerShare
  <2> QED BY <2>2, <2>3
<1> QED BY <1>2, <1>3, <1>4, <1>5, <1>6

LEMMA FinishInv == ASSUME Inv, NEW ok \in BOOLEAN, Finish(ok) PROVE Inv'
<1>1. active \in Slots
  BY DEF Inv, Finish, TypeOK, ThreadOK
<1> QED
  BY <1>1 DEF Inv, Finish, TypeOK, ThreadOK, QueueOK, Exact, LedgerShare, Busy

LEMMA ReleaseInv == ASSUME Inv, Release PROVE Inv'
BY StorageWorkerAssumption
DEF Inv, Release, TypeOK, ThreadOK, QueueOK, Exact, LedgerShare, Busy, Slots

LEMMA OtherInv ==
  ASSUME Inv,
         \/ Opened \/ Left \/ CloseStore
         \/ \E c \in Slots : GiveUp(c)
         \/ \E ok \in BOOLEAN : OpenStore(ok)
         \/ UNCHANGED vars
  PROVE  Inv'
<1>1. CASE Opened \/ Left
  BY <1>1 DEF Opened, Left, Inv, TypeOK, ThreadOK, QueueOK, Exact, LedgerShare, Busy
<1>2. CASE CloseStore \/ \E ok \in BOOLEAN : OpenStore(ok)
  BY <1>2 DEF CloseStore, OpenStore, Inv, TypeOK, ThreadOK, QueueOK, Exact, LedgerShare, Busy
<1>3. ASSUME NEW c \in Slots, GiveUp(c) PROVE Inv'
  BY <1>3 DEF GiveUp, Inv, TypeOK, ThreadOK, QueueOK, Exact, LedgerShare, Busy
<1>4. CASE UNCHANGED vars
  BY <1>4 DEF vars, Inv, TypeOK, ThreadOK, QueueOK, Exact, LedgerShare, Busy
<1> QED BY <1>1, <1>2, <1>3, <1>4

LEMMA NextInv == Inv /\ [Next]_vars => Inv'
BY SubmitInv, DeliverInv, CloseInv, TakeInv, FinishInv, ReleaseInv, OtherInv
DEF Next, Thread, Loop

LEMMA Invariance == Spec => []Inv
BY InitInv, NextInv, PTL DEF Spec

-----------------------------------------------------------------------------
(* The count of ordinary jobs                                              *)

OrdinaryAt(q) == {i \in DOMAIN q : q[i] # Ledger}
OrdinaryExact ==
  ordinary = Cardinality(OrdinaryAt(queue)) + IF active \in Callers THEN 1 ELSE 0

LEMMA OrdinaryFinite ==
  ASSUME NEW q \in Seq(Slots)
  PROVE  IsFiniteSet(OrdinaryAt(q)) /\ Cardinality(OrdinaryAt(q)) \in Nat
<1>1. IsFiniteSet(1..Len(q)) /\ OrdinaryAt(q) \subseteq 1..Len(q)
  BY FS_Interval DEF OrdinaryAt
<1> QED BY <1>1, FS_Subset, FS_CardinalityType

LEMMA AppendOrdinary ==
  ASSUME NEW q \in Seq(Slots), NEW c \in Slots
  PROVE  Cardinality(OrdinaryAt(Append(q, c)))
           = Cardinality(OrdinaryAt(q)) + IF c = Ledger THEN 0 ELSE 1
<1>1. IsFiniteSet(OrdinaryAt(q)) /\ Len(q) + 1 \notin OrdinaryAt(q)
  BY OrdinaryFinite DEF OrdinaryAt
<1>2. CASE c = Ledger
  <2>1. OrdinaryAt(Append(q, c)) = OrdinaryAt(q)
    BY <1>2 DEF OrdinaryAt
  <2> QED BY <1>2, <2>1, OrdinaryFinite
<1>3. CASE c # Ledger
  <2>1. OrdinaryAt(Append(q, c)) = OrdinaryAt(q) \cup {Len(q) + 1}
    BY <1>3 DEF OrdinaryAt
  <2> QED BY <1>1, <1>3, <2>1, FS_AddElement
<1> QED BY <1>2, <1>3

LEMMA TailOrdinary ==
  ASSUME NEW q \in Seq(Slots), q # <<>>
  PROVE  Cardinality(OrdinaryAt(q))
           = Cardinality(OrdinaryAt(Tail(q))) + IF Head(q) = Ledger THEN 0 ELSE 1
<1> DEFINE T == OrdinaryAt(Tail(q))
           U == OrdinaryAt(q) \ {1}
           f == [i \in T |-> i + 1]
<1>1. Tail(q) \in Seq(Slots) /\ 1 \in DOMAIN q /\ Head(q) = q[1] /\ Len(Tail(q)) = Len(q) - 1
      /\ \A i \in 1..Len(Tail(q)) : Tail(q)[i] = q[i + 1]
  OBVIOUS
<1>2. \A j \in U : j - 1 \in T
  BY <1>1 DEF OrdinaryAt
<1>3. \A i \in T : i \in Nat /\ i + 1 \in U
  BY <1>1 DEF OrdinaryAt
<1>4. f \in Bijection(T, U)
  <2>1. f \in [T -> U] /\ \A x, y \in T : f[x] = f[y] => x = y
    BY <1>3
  <2>2. \A j \in U : \E i \in T : f[i] = j
    <3>1. \A j \in U : j \in Int /\ f[j - 1] = j
      BY <1>2 DEF OrdinaryAt
    <3> QED BY <1>2, <3>1
  <2> QED BY <2>1, <2>2 DEF Bijection, Injection, Surjection, IsInjective
<1>5. Cardinality(U) = Cardinality(T)
  BY <1>1, <1>4, OrdinaryFinite, FS_Bijection DEF ExistsBijection
<1>6. Cardinality(U) = IF 1 \in OrdinaryAt(q) THEN Cardinality(OrdinaryAt(q)) - 1
                                              ELSE Cardinality(OrdinaryAt(q))
  BY OrdinaryFinite, FS_RemoveElement
<1>7. 1 \in OrdinaryAt(q) <=> Head(q) # Ledger
  BY <1>1 DEF OrdinaryAt
<1> HIDE DEF T, U
<1> QED BY <1>1, <1>5, <1>6, <1>7, OrdinaryFinite DEF T

LEMMA OrdinaryInit == Init => OrdinaryExact
<1> SUFFICES ASSUME Init PROVE OrdinaryExact
  OBVIOUS
<1>1. OrdinaryAt(queue) = {} /\ active \notin Callers /\ ordinary = 0
  BY StorageWorkerAssumption DEF Init, OrdinaryAt
<1> QED BY <1>1, FS_EmptySet DEF OrdinaryExact

LEMMA OrdinaryStep ==
  ASSUME Inv, OrdinaryExact, [Next]_vars
  PROVE  OrdinaryExact'
<1> USE DEF OrdinaryExact
<1>1. queue \in Seq(Slots) /\ ordinary \in Int /\ Cardinality(OrdinaryAt(queue)) \in Nat
  BY OrdinaryFinite DEF Inv, TypeOK
<1>2. ASSUME NEW c \in Slots, Submit(c) PROVE OrdinaryExact'
  <2>1. queue' = Append(queue, c) /\ active' = active
        /\ ordinary' = ordinary + IF c = Ledger THEN 0 ELSE 1
    BY <1>2 DEF Submit
  <2>2. OrdinaryAt(queue)' = OrdinaryAt(queue')
    BY DEF OrdinaryAt
  <2> QED BY <1>1, <2>1, <2>2, AppendOrdinary
<1>3. CASE Take
  <2>1. queue # <<>> /\ queue' = Tail(queue) /\ active' = Head(queue) /\ ordinary' = ordinary
    BY <1>3 DEF Take
  <2>2. active \notin Callers
    BY <1>3, StorageWorkerAssumption DEF Take, Inv, ThreadOK
  <2>3. Tail(queue) \in Seq(Slots) /\ (Head(queue) \in Callers <=> Head(queue) # Ledger)
    BY <1>1, <2>1, StorageWorkerAssumption DEF Slots
  <2>4. OrdinaryAt(queue)' = OrdinaryAt(queue')
    BY DEF OrdinaryAt
  <2> QED BY <1>1, <2>1, <2>2, <2>3, <2>4, TailOrdinary, OrdinaryFinite
<1>4. CASE Release
  <2>1. active' = None /\ queue' = queue /\ ordinary' = ordinary - IF active = Ledger THEN 0 ELSE 1
    BY <1>4 DEF Release
  <2>2. (active \in Callers <=> active # Ledger) /\ None \notin Callers
    BY <1>4, StorageWorkerAssumption DEF Release, Inv, TypeOK, ThreadOK, Slots
  <2> QED BY <1>1, <2>1, <2>2 DEF OrdinaryAt
<1>5. CASE Close
  <2>1. queue' = <<>> /\ active' = active /\ ordinary' = ordinary - Cardinality(OrdinaryAt(queue))
    BY <1>5 DEF Close, CancelQueued, OrdinaryAt
  <2>2. OrdinaryAt(queue') = {} /\ Cardinality({}) = 0
    BY <2>1, FS_EmptySet DEF OrdinaryAt
  <2>3. Cardinality(OrdinaryAt(queue))' = 0
    BY <2>2 DEF OrdinaryAt
  <2> QED BY <1>1, <2>1, <2>3
<1>6. ASSUME UNCHANGED <<queue, ordinary, active>> PROVE OrdinaryExact'
  BY <1>6 DEF OrdinaryAt
<1>7. CASE \/ Opened \/ Left \/ CloseStore \/ UNCHANGED vars
           \/ \E c \in Slots : GiveUp(c) \/ Deliver(c)
           \/ \E ok \in BOOLEAN : OpenStore(ok) \/ Finish(ok)
  BY <1>6, <1>7 DEF Opened, Left, CloseStore, vars, GiveUp, Deliver, OpenStore, Finish
<1> QED
  BY <1>2, <1>3, <1>4, <1>5, <1>7 DEF Next, Thread, Loop

-----------------------------------------------------------------------------
(* What follows                                                            *)

\* The worker's counters, futures and phases keep their shape, and no more than
\* the capacity is ever outstanding.
THEOREM WorkerTyping == Spec => []TypeOK
<1>1. Inv => TypeOK
  BY DEF Inv
<1> QED BY <1>1, Invariance, PTL

\* The counters that admission rests on are exact after any sequence of
\* failures, abandoned waits and cancellations: no slot leaks.
THEOREM CountersStayExact == Spec => []CountersExact
<1>1. Inv /\ OrdinaryExact => CountersExact
  BY DEF Inv, Exact, OrdinaryExact, OrdinaryAt, CountersExact
<1> QED BY <1>1, OrdinaryInit, OrdinaryStep, Invariance, PTL DEF Spec

\* Until shutdown the ledger is admitted whenever none of its own jobs is left in
\* the worker, whatever the ordinary callers do.
THEOREM LedgerSlotKept == Spec => []AccountingSlotKept
<1>1. Inv => AccountingSlotKept
  BY StorageWorkerAssumption DEF Inv, TypeOK, LedgerShare, AccountingSlotKept
<1> QED BY <1>1, Invariance, PTL

\* The worker implements the storage service: what it accepts it performs at
\* most once, and what its shutdown drops it never performs.
THEOREM WorkerImplementsService == Spec => ServiceSpec
<1>1. Init => Service!Init
  BY DEF Init, Service!Init, CallOf
<1>2. Inv /\ [Next]_vars => [Service!Next]_(Service!vars)
  <2> SUFFICES ASSUME Inv, [Next]_vars PROVE [Service!Next]_(Service!vars)
    OBVIOUS
  <2> USE DEF Inv, TypeOK
  <2>1. ASSUME NEW c \in Slots, Submit(c) PROVE Service!Request(c)
    <3>1. ~stopping /\ CallOf(c) = "none" /\ stopping' = stopping
      BY <2>1 DEF Submit, Asks, Admits, CallOf
    <3>2. \A x \in Slots : CallOf(x)' = IF x = c THEN "accepted" ELSE CallOf(x)
      BY <2>1 DEF Submit, CallOf
    <3>3. \A x \in Slots : ran'[x] > 0 <=> ran[x] > 0 /\ x # c
      BY <2>1 DEF Submit
    <3> QED BY <3>1, <3>2, <3>3 DEF Service!Request
  <2>2. ASSUME NEW c \in Slots, Deliver(c) PROVE Service!Collect(c)
    BY <2>2 DEF Deliver, Service!Collect, Service!Outcomes, CallOf
  <2>3. CASE Close
    <3>1. Queued \subseteq {c \in Slots : CallOf(c) = "accepted"}
      BY DEF Queued, QueueOK, CallOf
    <3>2. \A c \in Slots : CallOf(c)' = IF c \in Queued THEN "dropped" ELSE CallOf(c)
      BY <2>3 DEF Close, CancelQueued, CallOf
    <3>3. stopping' = TRUE /\ ran' = ran
      BY <2>3 DEF Close
    <3>4. Service!Stop
      BY <3>1, <3>2, <3>3 DEF Service!Stop
    <3> QED BY <3>4 DEF Service!Next
  <2>4. ASSUME NEW ok \in BOOLEAN, Finish(ok) PROVE Service!Next
    <3>1. PICK job \in Slots : job = active
      BY <2>4 DEF Finish, ThreadOK
    <3>2. CallOf(job) = "accepted" /\ stopping' = stopping
      BY <2>4, <3>1 DEF Finish, ThreadOK, CallOf
    <3>3. PICK outcome \in Service!Outcomes :
            \A c \in Slots : CallOf(c)' = IF c = job THEN outcome ELSE CallOf(c)
      BY <2>4, <3>1 DEF Finish, CallOf, Service!Outcomes
    <3>4. \A c \in Slots : ran'[c] > 0 <=> ran[c] > 0 \/ c = job
      BY <2>4, <3>1 DEF Finish
    <3>5. Service!Perform(job)
      BY <3>2, <3>3, <3>4 DEF Service!Perform
    <3> QED BY <3>5 DEF Service!Next
  <2>5. CASE Take
    BY <2>5 DEF Take, QueueOK, CallOf, Service!vars
  <2>6. CASE \/ Release \/ CloseStore \/ Opened \/ Left \/ UNCHANGED vars
             \/ \E c \in Slots : GiveUp(c)
             \/ \E ok \in BOOLEAN : OpenStore(ok)
    BY <2>6 DEF Release, CloseStore, Opened, Left, GiveUp, OpenStore, vars, CallOf, Service!vars
  <2>7. ASSUME Thread PROVE [Service!Next]_(Service!vars)
    BY <2>4, <2>5, <2>6, <2>7 DEF Thread
  <2>8. ASSUME Loop PROVE [Service!Next]_(Service!vars)
    BY <2>1, <2>2, <2>3, <2>6, <2>8 DEF Loop, Service!Next
  <2> QED BY <2>6, <2>7, <2>8 DEF Next
<1> QED
  BY <1>1, <1>2, Invariance, PTL DEF Spec, ServiceSpec, Service!Spec
=============================================================================
