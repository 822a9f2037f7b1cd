--------------------------- MODULE Control_proofs ---------------------------
(***************************************************************************)
(* Proofs about Control, for any modes, targets, horizon and faults: no    *)
(* write mixes two configurations, a preset's target is written only for   *)
(* the operator's last verified intent, and an automatic write only while  *)
(* that intent is Automated.                                               *)
(***************************************************************************)
EXTENDS Control, FiniteSetTheorems, TLAPS

USE DEF world, memory, history

-----------------------------------------------------------------------------
(* The inductive invariant                                                 *)

ModesOrNone == Modes \cup {None}
Times == 0..MaxTime
Reads == [mode: ModesOrNone, changed: Times, on: BOOLEAN, moved: BOOLEAN, switched: BOOLEAN]
Jobs == [kind: {None, "tick", "request"}, mode: ModesOrNone, config: Configs, at: Times,
         prev: ModesOrNone, observed: BOOLEAN, revoked: BOOLEAN, restrictive: BOOLEAN,
         target: DOMAIN Tries, attempt: Nat]

Shape ==
  /\ remote \in BOOLEAN
  /\ landing \in [config: Configs, mode: ModesOrNone]
  /\ landing # NoLanding => landing.mode \in Modes
  /\ IsFiniteSet(waiting)
  /\ job \in Jobs /\ read \in Reads
  /\ intent \in Modes /\ known \in ModesOrNone
  /\ asOf \in [intent: ModesOrNone, remote: BOOLEAN] /\ clean \in BOOLEAN

Reading == {"reading", "entering", "asking", "refreshing", "owning", "confirming", "verifying"}
Owning == {"refreshing", "owning", "writing", "confirming"}
Applying == {"applying", "asking", "sent"}

\* A request that is pinned hides every selection that is not newer than it.
Pinned(changed) == pin # NoPin /\ changed <= Later(pin.at, activated)
Meant(mode, changed) == IF Pinned(changed) THEN pin.mode ELSE mode

Past ==
  /\ activated <= clock /\ pin.at <= clock
  /\ \A c \in Configs : selector[c].changed <= clock

\* The newest intent is the pinned request or a newer selection.
IntentOK == intent = Meant(selector[config].mode, selector[config].changed)

\* A read in progress still shows what was meant when it began.
ReadOK ==
  read # NoRead =>
    /\ pc \in Reading
    /\ read.mode \in Modes /\ read.changed \in 1..selector[config].changed
    /\ asOf = [intent |-> Meant(read.mode, read.changed), remote |-> read.on]

JobOK ==
  /\ pc # "free" => job.kind # None /\ job.config = config
  /\ pc = "selecting" => job.mode \in Modes /\ job.at \in 1..clock /\ activated <= job.at

\* While a preset's targets are written a request that is still pinned is theirs,
\* and was the last intent that was verified.
OwningOK ==
  pc \in Owning =>
    /\ job.mode \in Modes \ {"auto"}
    /\ pin # NoPin => pin.mode = job.mode /\ known = job.mode

\* Automatic writes begin without a request, and what is remembered since was read.
ApplyingOK ==
  pc \in Applying =>
    /\ pin = NoPin /\ known # None /\ remembered = known
    /\ ~job.revoked => clean

Inv == TypeOK /\ Shape /\ Past /\ IntentOK /\ ReadOK /\ JobOK /\ OwningOK /\ ApplyingOK

LEMMA NoneIsNoMode == None \notin Modes
BY ControlAssumption DEF None, Modes

LEMMA InitInv == Init => Inv
<1> SUFFICES ASSUME Init PROVE Inv
  OBVIOUS
<1> USE ControlAssumption, NoneIsNoMode
<1>1. 1 \in DOMAIN Tries /\ Tries[1] \in Nat \ {0} /\ config \in Configs
  BY DEF Init, Configs
<1>2. job \in Jobs /\ read \in Reads
  BY <1>1 DEF Init, NoJob, NoRead, Jobs, Reads, ModesOrNone, Times, NoTime, Configs
<1>3. TypeOK
  BY <1>1, <1>2, FS_EmptySet DEF Init, TypeOK, NoJob, NoTime, Modes, Phases, Configs
<1>4. Shape
  BY <1>1, <1>2, FS_EmptySet
  DEF Init, Shape, NoLanding, NoAsOf, ModesOrNone, Configs
<1>5. Past /\ IntentOK /\ ReadOK /\ JobOK /\ OwningOK /\ ApplyingOK
  BY <1>1 DEF Init, Past, IntentOK, Meant, Pinned, ReadOK, JobOK, OwningOK, ApplyingOK,
              NoPin, NoTime, Owning, Applying, Configs
<1> QED BY <1>3, <1>4, <1>5 DEF Inv

-----------------------------------------------------------------------------
(* Home Assistant and its operator                                         *)

\* A selection is newer than any pin, configuration and read.
LEMMA SelectedInv ==
  ASSUME Inv, NEW c \in Configs, NEW mode \in Modes, Selected(c, mode),
         remote' \in BOOLEAN, WorldOnly,
         landing' = landing \/ landing' = NoLanding
  PROVE  Inv'
<1> USE NoneIsNoMode DEF Inv, Selected, WorldOnly
<1>1. /\ clock \in 1..MaxTime /\ clock' = clock + 1 /\ clock' \in 1..MaxTime
      /\ MaxTime \in Nat /\ config \in Configs
      /\ selector'[c] = [mode |-> mode, changed |-> clock']
      /\ \A d \in Configs : d # c => selector'[d] = selector[d]
      /\ selector' \in [Configs -> [mode: Modes, changed: 1..MaxTime]]
  BY ControlAssumption DEF TypeOK
<1>2. read' \in Reads /\ (read' # NoRead <=> read # NoRead)
      /\ read'.mode = read.mode /\ read'.changed = read.changed /\ read'.on = read.on
  BY DEF Shape, Reads, NoRead
<1>3. TypeOK'
  BY <1>1 DEF TypeOK
<1>4. Shape'
  BY <1>1, <1>2 DEF Shape, NoLanding, Configs, ModesOrNone
<1>5. activated \in Nat /\ pin.at \in Nat
  BY DEF TypeOK, NoPin, NoTime
<1>6. Past'
  BY <1>1, <1>5 DEF Past, TypeOK
<1>7. IntentOK'
  BY <1>1, <1>5 DEF Past, IntentOK, Meant, Pinned, Later, TypeOK
<1>8. ReadOK'
  BY <1>1, <1>2, <1>5 DEF Past, ReadOK, Meant, Pinned, Later, TypeOK
<1>9. JobOK' /\ OwningOK' /\ ApplyingOK'
  BY <1>1 DEF JobOK, OwningOK, ApplyingOK, Shape, Jobs
<1> QED BY <1>3, <1>4, <1>6, <1>7, <1>8, <1>9

LEMMA WorldInv ==
  ASSUME Inv,
         \/ \E c \in Configs, mode \in Modes : OperatorSelects(c, mode)
         \/ Land \/ Lose \/ Switch
  PROVE  Inv'
<1>1. CASE \E c \in Configs, mode \in Modes : OperatorSelects(c, mode)
  BY <1>1, SelectedInv DEF OperatorSelects, Inv, Shape
<1>2. CASE Land /\ selector[landing.config].mode # landing.mode
  BY <1>2, SelectedInv DEF Land, Inv, Shape
<1>3. CASE Lose \/ (Land /\ selector[landing.config].mode = landing.mode)
  <2> USE <1>3 DEF Lose, Land, WorldOnly, Inv
  <2>1. TypeOK' /\ Past' /\ IntentOK' /\ ReadOK'
    BY DEF TypeOK, Past, IntentOK, ReadOK, Meant, Pinned, Later
  <2>2. Shape'
    BY DEF Shape, NoLanding, Configs, ModesOrNone
  <2>3. JobOK' /\ OwningOK' /\ ApplyingOK'
    BY DEF JobOK, OwningOK, ApplyingOK
  <2> QED BY <2>1, <2>2, <2>3
<1>4. CASE Switch
  <2> USE <1>4 DEF Switch, WorldOnly, Inv
  <2>1. read' \in Reads /\ (read' # NoRead <=> read # NoRead)
        /\ read'.mode = read.mode /\ read'.changed = read.changed /\ read'.on = read.on
    BY DEF Shape, Reads, NoRead
  <2>2. TypeOK' /\ Past' /\ IntentOK' /\ Shape'
    BY <2>1 DEF TypeOK, Shape, Past, IntentOK, Meant, Pinned, Later
  <2>3. ReadOK'
    BY <2>1 DEF ReadOK, Meant, Pinned, Later
  <2>4. JobOK' /\ OwningOK' /\ ApplyingOK'
    BY DEF JobOK, OwningOK, ApplyingOK
  <2> QED BY <2>2, <2>3, <2>4
<1> QED BY <1>1, <1>2, <1>3, <1>4

LEMMA BeginReadInv == ASSUME Inv, BeginRead PROVE Inv'
<1> USE NoneIsNoMode DEF Inv, BeginRead
<1>1. /\ config \in Configs /\ selector[config].mode \in Modes
      /\ selector[config].changed \in 1..MaxTime /\ MaxTime \in Nat
  BY ControlAssumption DEF TypeOK
<1>2. read' = [mode |-> selector[config].mode, changed |-> selector[config].changed,
               on |-> remote, moved |-> FALSE, switched |-> FALSE]
  BY DEF NoRead
<1>3. TypeOK' /\ Past' /\ IntentOK'
  BY DEF TypeOK, Past, IntentOK, Meant, Pinned, Later
<1>4. Shape'
  <2>1. read' \in Reads
    <3>1. remote \in BOOLEAN /\ selector[config].changed \in Times
      BY <1>1 DEF Shape, Times
    <3> HIDE DEF BeginRead, Inv
    <3> QED BY <1>1, <1>2, <3>1 DEF Reads, ModesOrNone
  <2>2. asOf' \in [intent: ModesOrNone, remote: BOOLEAN]
    BY DEF Shape, ModesOrNone
  <2> QED BY <2>1, <2>2 DEF Shape
<1>5. ReadOK'
  <2>1. Meant(read.mode, read.changed)' = intent
    BY <1>2 DEF IntentOK, Meant, Pinned, Later
  <2>2. (read.changed \in 1..selector[config].changed /\ read.mode \in Modes)'
    BY <1>1, <1>2
  <2>3. pc' \in Reading /\ asOf' = [intent |-> intent, remote |-> read'.on]
    BY <1>2 DEF Reading
  <2> QED BY <2>1, <2>2, <2>3 DEF ReadOK
<1>6. JobOK' /\ OwningOK' /\ ApplyingOK'
  BY DEF JobOK, OwningOK, ApplyingOK
<1> QED BY <1>3, <1>4, <1>5, <1>6

-----------------------------------------------------------------------------
(* Reading who controls                                                    *)

\* What the end of a read verifies.  Another mode than the pinned one is either
\* newer than the request, which it ends, or is hidden by it.
LEMMA EndReadFacts ==
  ASSUME Inv, NEW o \in Outcomes, NEW here, EndRead(here, o)
  PROVE  /\ pc = here /\ o.mode \in ModesOrNone /\ o.on \in BOOLEAN
         /\ pin' \in {pin, NoPin} /\ remembered' \in ModesOrNone /\ known' \in ModesOrNone
         /\ o.on => asOf.remote
         /\ o.mode = None => pin' = pin /\ remembered' = remembered /\ known' = known
         /\ o.mode # None /\ pin' = NoPin =>
              remembered' = o.mode /\ known' = o.mode /\ asOf.intent = o.mode
         /\ pin' # NoPin => known' \in {known, pin.mode}
         /\ pin' # NoPin /\ o.mode = pin.mode => known' = pin.mode
<1> USE NoneIsNoMode DEF Inv, EndRead
<1>1. /\ read # NoRead /\ read.mode \in Modes /\ read.changed \in Nat \ {0}
      /\ asOf.remote = read.on /\ asOf.intent = Meant(read.mode, read.changed)
      /\ read.on \in BOOLEAN
  BY ControlAssumption DEF ReadOK, Shape, Reads, TypeOK
<1>2. /\ o.mode \in {read.mode, None} /\ o.on \in BOOLEAN /\ o.changed \in {read.changed, 0}
      /\ o.on => read.on
  <2>1. o.mode \in {read.mode, None} /\ o.on \in BOOLEAN /\ o.changed \in {read.changed, 0}
    <3>1. CASE o = NotObserved
      BY <3>1 DEF NotObserved, NoTime
    <3>2. CASE o \in [mode: {read.mode, None}, on: BOOLEAN, changed: {read.changed, NoTime}]
      BY <3>2 DEF NoTime
    <3> QED BY <3>1, <3>2 DEF Outcomes
  <2>2. o.on => read.on
    <3> DEFINE selected == [mode |-> read.mode, on |-> read.on, changed |-> read.changed]
    <3>1. \/ o = [selected EXCEPT !.mode = IF read.moved THEN None ELSE @,
                                 !.on = @ /\ ~read.switched]
          \/ o = selected \/ o = [selected EXCEPT !.changed = NoTime] \/ o = NotObserved
      BY DEF Observes
    <3>2. CASE o = [selected EXCEPT !.mode = IF read.moved THEN None ELSE @,
                                    !.on = @ /\ ~read.switched]
      <4>1. o.on = (selected.on /\ ~read.switched)
        BY <3>2
      <4> QED BY <4>1
    <3>3. CASE o # [selected EXCEPT !.mode = IF read.moved THEN None ELSE @,
                                    !.on = @ /\ ~read.switched]
      <4>1. CASE o = selected \/ o = [selected EXCEPT !.changed = NoTime]
        BY <4>1
      <4>2. CASE o = NotObserved
        BY <4>2 DEF NotObserved
      <4> QED BY <3>1, <3>3, <4>1, <4>2
    <3> QED BY <3>2, <3>3
  <2> QED BY <2>1, <2>2
<1>3. /\ activated \in Nat /\ pin.at \in Nat
      /\ pin # NoPin => pin.mode \in Modes
      /\ pin = NoPin => pin.mode = None
  BY DEF TypeOK, NoPin, NoTime
<1>4. remembered \in ModesOrNone /\ known \in ModesOrNone
  BY DEF TypeOK, Shape, ModesOrNone
<1>5. CASE o.mode = None
  BY <1>1, <1>2, <1>3, <1>4, <1>5 DEF Remember, ModesOrNone
<1>6. CASE o.mode # None /\ pin = NoPin
  BY <1>1, <1>2, <1>3, <1>4, <1>6 DEF Remember, Meant, Pinned, ModesOrNone
<1>7. CASE o.mode # None /\ pin # NoPin /\ o.mode = pin.mode
  BY <1>1, <1>2, <1>3, <1>4, <1>7 DEF Remember, Meant, Pinned, ModesOrNone
<1>8. CASE o.mode # None /\ pin # NoPin /\ o.mode # pin.mode
  <2>1. CASE Yields(o)
    <3>1. pin' = NoPin /\ remembered' = o.mode
      BY <1>8, <2>1 DEF Remember
    <3>2. o.changed = read.changed /\ o.mode = read.mode /\ o.changed # NoTime
      BY <1>1, <1>2, <1>3, <1>8, <2>1 DEF Yields, Later, NoTime
    <3>3. known' = asOf.intent /\ asOf.intent = read.mode
      BY <1>1, <1>3, <1>8, <2>1, <3>2 DEF Yields, Meant, Pinned, Later
    <3> QED BY <1>1, <1>2, <1>4, <1>8, <3>1, <3>2, <3>3 DEF ModesOrNone
  <2>2. CASE ~Yields(o)
    BY <1>1, <1>2, <1>3, <1>4, <1>8, <2>2
    DEF Remember, Yields, Meant, Pinned, Later, ModesOrNone, NoTime
  <2> QED BY <2>1, <2>2
<1> QED BY <1>5, <1>6, <1>7, <1>8

\* What any end of a read keeps, wherever its reader goes on.
LEMMA EndReadInv ==
  ASSUME Inv, NEW o \in Outcomes, NEW here, EndRead(here, o),
         job' \in Jobs, job'.attempt \in 1..Tries[job'.target],
         pc' \in Phases, pc' = "free" <=> job' = NoJob,
         last' \in ModesOrNone, clean' \in BOOLEAN,
         JobOK', OwningOK', ApplyingOK'
  PROVE  Inv'
<1> USE NoneIsNoMode DEF Inv, EndRead
<1>1. pin' \in {pin, NoPin} /\ remembered' \in ModesOrNone /\ known' \in ModesOrNone
  BY EndReadFacts
<1>2. /\ activated \in Nat /\ pin.at \in Nat /\ read.changed \in Nat
      /\ config \in Configs /\ selector[config].changed \in Nat
      /\ clock \in Nat
  BY ControlAssumption DEF TypeOK, NoPin, NoTime, Shape, Reads, Times
<1>3. TypeOK'
  BY <1>1 DEF TypeOK, ModesOrNone, Jobs
<1>4. Shape'
  <2>1. read' \in Reads /\ asOf' \in [intent: ModesOrNone, remote: BOOLEAN]
    BY ControlAssumption DEF Reads, NoRead, NoAsOf, ModesOrNone, Times, NoTime
  <2> QED BY <1>1, <2>1 DEF Shape
<1>5. Past'
  BY <1>1, <1>2 DEF Past, NoPin, NoTime
<1>6. IntentOK'
  <2>1. CASE pin' = pin
    BY <2>1 DEF IntentOK, Meant, Pinned, Later
  <2>2. CASE pin # NoPin /\ pin' = NoPin
    <3>1. o.changed > Later(pin.at, activated) /\ o.changed \in {read.changed, 0}
      BY <2>2 DEF Remember, Yields, Outcomes, NotObserved, NoTime
    <3>2. selector[config].changed >= read.changed
      BY <1>2 DEF ReadOK
    <3> QED BY <1>2, <2>2, <3>1, <3>2 DEF IntentOK, Meant, Pinned, Later
  <2> QED BY <1>1, <2>1, <2>2
<1>7. ReadOK'
  BY DEF ReadOK
<1> QED BY <1>3, <1>4, <1>5, <1>6, <1>7

\* The job of no transaction is well formed.
JobShape == /\ job \in Jobs /\ job.attempt \in 1..Tries[job.target]
            /\ pc \in Phases /\ (pc = "free" <=> job = NoJob)

LEMMA NoJobShape == NoJob \in Jobs /\ NoJob.attempt \in 1..Tries[NoJob.target]
<1>1. 1 \in DOMAIN Tries /\ Tries[1] \in Nat \ {0} /\ MaxTime \in Nat
  BY ControlAssumption
<1> QED BY <1>1 DEF NoJob, Jobs, ModesOrNone, Times, NoTime, Configs

LEMMA ShapedJob == ASSUME Inv PROVE JobShape
BY DEF Inv, TypeOK, Shape, JobShape

LEMMA LeaveShape ==
  ASSUME Leave PROVE JobShape' /\ JobOK' /\ OwningOK' /\ ApplyingOK'
BY NoJobShape DEF Leave, JobShape, JobOK, OwningOK, ApplyingOK, Owning, Applying, Phases

\* A transaction that goes on with its job is at work on it.
LEMMA SameJob ==
  ASSUME Inv, pc # "free", pc' \in Phases \ {"free", "selecting"},
         UNCHANGED <<job, config>>
  PROVE  JobShape' /\ JobOK'
BY DEF Inv, TypeOK, Shape, JobShape, JobOK

LEMMA EndStateReadInv == ASSUME Inv, NEW o \in Outcomes, EndStateRead(o) PROVE Inv'
<1> USE DEF EndStateRead
<1>1. /\ pc = "reading" /\ pin' \in {pin, NoPin} /\ o.mode \in ModesOrNone
      /\ remembered' \in ModesOrNone /\ EndRead("reading", o) /\ config' = config
  BY EndReadFacts DEF EndRead
<1>2. pin'.mode \in ModesOrNone /\ last \in ModesOrNone
  BY <1>1 DEF Inv, TypeOK, NoPin, ModesOrNone
<1>3. last' \in ModesOrNone
  BY <1>1, <1>2 DEF OrElse, ModesOrNone, Modes
<1>4. job' = [job EXCEPT !.observed = job'.observed] /\ job'.observed \in BOOLEAN
  BY ShapedJob DEF JobShape, Jobs
<1>5. JobShape' /\ JobOK'
  BY <1>1, <1>4, ShapedJob DEF Inv, JobShape, Jobs, JobOK, Phases, NoJob
<1>6. OwningOK' /\ ApplyingOK' /\ clean' \in BOOLEAN
  BY DEF OwningOK, ApplyingOK, Owning, Applying, Inv, Shape
<1> QED BY <1>1, <1>3, <1>5, <1>6, EndReadInv DEF JobShape

LEMMA EnterInv == ASSUME Inv, NEW o \in Outcomes, Enter(o) PROVE Inv'
<1> USE NoneIsNoMode DEF Enter
<1>1. EndRead("entering", o) /\ pc = "entering" /\ config' = config
  BY DEF EndRead
<1>2. last \in ModesOrNone /\ job.prev \in ModesOrNone /\ asOf.intent \in ModesOrNone
  BY DEF Inv, TypeOK, Shape, Jobs, ModesOrNone
<1>3. clean' \in BOOLEAN
  OBVIOUS
<1>4. CASE Leave
  <2>1. last' \in ModesOrNone
    BY <1>2 DEF Failed
  <2> QED BY <1>1, <1>3, <1>4, <2>1, LeaveShape, EndReadInv DEF JobShape
<1>5. CASE pc' = "applying" /\ UNCHANGED <<job, last>> /\ o.mode = "auto"
           /\ ~(pin' # NoPin /\ o.mode # pin'.mode)
  <2>1. pin' = NoPin
    <3>1. pin' = NoPin \/ pin'.mode # "auto"
      BY <1>1, EndReadFacts DEF Inv, TypeOK
    <3> QED BY <1>5, <3>1
  <2>2. JobShape' /\ JobOK'
    BY <1>1, <1>5, SameJob DEF Phases
  <2>3. known' = "auto" /\ remembered' = "auto" /\ asOf.intent = "auto"
    BY <1>1, <1>5, <2>1, EndReadFacts DEF None
  <2>4. OwningOK' /\ ApplyingOK'
    BY <1>5, <2>1, <2>3 DEF OwningOK, ApplyingOK, Owning, Applying, None
  <2> QED BY <1>1, <1>2, <1>3, <1>5, <2>2, <2>4, EndReadInv DEF JobShape
<1>6. CASE /\ pc' = "owning" /\ job' = [job EXCEPT !.mode = o.mode] /\ UNCHANGED last
           /\ o.mode \in Presets /\ ~(pin' # NoPin /\ o.mode # pin'.mode)
  <2>1. o.mode \in Modes \ {"auto"}
    BY <1>6, ControlAssumption DEF Modes
  <2>2. JobShape' /\ JobOK' /\ job'.mode = o.mode
    BY <1>1, <1>6, <2>1, ShapedJob
    DEF Inv, JobShape, Jobs, JobOK, Phases, NoJob, ModesOrNone
  <2>3. pin' # NoPin => pin'.mode = o.mode /\ known' = o.mode
    BY <1>1, <1>6, EndReadFacts
  <2>4. OwningOK' /\ ApplyingOK'
    BY <1>6, <2>1, <2>2, <2>3 DEF OwningOK, ApplyingOK, Owning, Applying
  <2> QED BY <1>1, <1>2, <1>3, <1>6, <2>2, <2>4, EndReadInv DEF JobShape
<1> QED BY <1>4, <1>5, <1>6 DEF Failed

\* What an automatic write is permitted by: the last read, or where it only
\* restricts, the last one that showed a mode.
LEMMA PermitFacts ==
  ASSUME Inv, NEW o \in Outcomes, Permit(o)
  PROVE  /\ pin = NoPin /\ pin' = NoPin /\ remembered' = known' /\ known' # None
         /\ ~job'.revoked => clean'
         /\ pc' = "sent" =>
              /\ asOf.remote /\ known' = "auto"
              /\ job.restrictive \/ (clean' /\ asOf.intent = "auto")
<1> USE NoneIsNoMode DEF Permit
<1>1. EndRead("asking", o) /\ pc = "asking"
  BY DEF EndRead
<1>2. pin = NoPin /\ remembered = known /\ known # None /\ (~job.revoked => clean)
  BY <1>1 DEF Inv, ApplyingOK, Applying
<1>3. pin' = NoPin
  BY <1>1, <1>2, EndReadFacts
<1>4. /\ o.mode = None => remembered' = remembered /\ known' = known
      /\ o.mode # None => remembered' = o.mode /\ known' = o.mode /\ asOf.intent = o.mode
  BY <1>1, <1>3, EndReadFacts
<1>5. o.on => asOf.remote
  BY <1>1, EndReadFacts
<1> DEFINE shown == o.mode = "auto" /\ pin' = NoPin /\ o.on
           revoked == job.revoked \/ ~shown
<1>6. job'.revoked = revoked
  BY DEF Inv, Shape, Jobs
<1>7. ~job'.revoked => ~job.revoked /\ shown
  BY <1>6
<1>8. ~job'.revoked => clean' /\ asOf.intent = "auto"
  BY <1>2, <1>4, <1>7 DEF None
<1>9. ASSUME pc' = "sent"
      PROVE  /\ o.on /\ known' = "auto"
             /\ job.restrictive \/ ~job'.revoked
  <2>1. Permits(o, revoked) \/ (job.restrictive /\ Restricts(o))
    BY <1>9
  <2>2. CASE Permits(o, revoked)
    <3>1. shown /\ ~revoked
      BY <2>2 DEF Permits
    <3> QED BY <1>4, <1>6, <3>1 DEF None
  <2>3. CASE job.restrictive /\ Restricts(o)
    BY <1>2, <1>3, <1>4, <2>3 DEF Restricts, OrElse, NoPin, None
  <2> QED BY <2>1, <2>2, <2>3
<1> QED BY <1>2, <1>3, <1>4, <1>5, <1>8, <1>9

LEMMA PermitInv == ASSUME Inv, NEW o \in Outcomes, Permit(o) PROVE Inv'
<1> USE DEF Permit
<1>1. EndRead("asking", o) /\ pc = "asking" /\ config' = config /\ last' \in ModesOrNone
  BY DEF EndRead, Inv, TypeOK, ModesOrNone
<1>2. pc' \in {"sent", "applying"}
  OBVIOUS
<1>3. /\ job' = [job EXCEPT !.revoked = job'.revoked] /\ job'.revoked \in BOOLEAN
      /\ clean' \in BOOLEAN
  BY ShapedJob DEF JobShape, Jobs
<1>4. JobShape' /\ JobOK'
  BY <1>1, <1>2, <1>3, ShapedJob DEF Inv, JobShape, Jobs, JobOK, Phases, NoJob
<1>5. OwningOK' /\ ApplyingOK'
  BY <1>2, PermitFacts DEF OwningOK, ApplyingOK, Owning
<1> QED BY <1>1, <1>3, <1>4, <1>5, EndReadInv DEF JobShape

\* A request that is still pinned when its targets are asked about stays verified.
LEMMA PinnedStays ==
  ASSUME Inv, NEW o \in Outcomes, NEW here \in Owning, EndRead(here, o), job' = job
  PROVE  /\ pc = here /\ job.mode \in Modes \ {"auto"}
         /\ pin' # NoPin => pin'.mode = job'.mode /\ known' = job'.mode
         /\ StillOwned(o) => known' = job.mode
<1>1. /\ pc = here /\ job.mode \in Modes \ {"auto"}
      /\ pin # NoPin => pin.mode = job.mode /\ known = job.mode
  BY DEF EndRead, Inv, OwningOK
<1>2. pin' # NoPin => pin'.mode = job'.mode /\ known' = job'.mode
  BY <1>1, EndReadFacts
<1>3. CASE pin'.mode = job.mode
  BY <1>1, <1>2, <1>3, NoneIsNoMode DEF NoPin
<1>4. CASE o.mode = job.mode
  <2>1. o.mode # None
    BY <1>1, <1>4, NoneIsNoMode
  <2> QED BY <1>1, <1>2, <1>4, <2>1, EndReadFacts
<1> QED BY <1>1, <1>2, <1>3, <1>4 DEF StillOwned

LEMMA NextShape ==
  ASSUME Inv, pc \in Owning, NextTarget \/ Retry, UNCHANGED config
  PROVE  JobShape' /\ JobOK' /\ pc' \in {"owning", "ended"} /\ job'.mode = job.mode
<1> USE ControlAssumption DEF NextTarget, Retry
<1>1. /\ job \in Jobs /\ job.attempt \in 1..Tries[job.target]
      /\ job.kind # None /\ job.config = config
  BY DEF Inv, TypeOK, Shape, JobOK, Owning
<1>2. job.target \in 1..Len(Tries) /\ Tries[job.target] \in Nat \ {0}
  BY <1>1 DEF Jobs
<1>3. CASE UNCHANGED job /\ pc' = "ended"
  BY <1>1, <1>3 DEF JobShape, JobOK, Phases, NoJob
<1>4. CASE /\ pc' = "owning" /\ job.target # Len(Tries)
           /\ job' = [job EXCEPT !.target = @ + 1, !.attempt = 1]
  <2>1. job.target + 1 \in DOMAIN Tries /\ Tries[job.target + 1] \in Nat \ {0}
    BY <1>2, <1>4
  <2>2. job' \in Jobs /\ job'.kind = job.kind /\ job'.config = job.config
        /\ job'.mode = job.mode
    BY <1>1, <1>4, <2>1 DEF Jobs
  <2>3. job'.attempt \in 1..Tries[job'.target]
    BY <1>1, <1>4, <2>1 DEF Jobs
  <2> QED BY <1>1, <1>4, <2>2, <2>3 DEF JobShape, JobOK, Phases, NoJob
<1>5. CASE /\ pc' = "owning" /\ job.attempt < Tries[job.target]
           /\ job' = [job EXCEPT !.attempt = @ + 1]
  BY <1>1, <1>2, <1>5 DEF JobShape, JobOK, Jobs, Phases, NoJob
<1> QED BY <1>3, <1>4, <1>5

LEMMA ReadTargetsInv ==
  ASSUME Inv, NEW o \in Outcomes, Owned(o) \/ Confirmed(o) \/ Refreshed(o) \/ Verified(o)
  PROVE  Inv'
<1>1. PICK here \in {"owning", "confirming", "refreshing", "verifying"} : EndRead(here, o)
  BY DEF Owned, Confirmed, Refreshed, Verified
<1>2. /\ pc = here /\ clean' \in BOOLEAN /\ config' = config /\ last \in ModesOrNone
      /\ job.mode \in ModesOrNone
  BY <1>1 DEF EndRead, Owned, Confirmed, Refreshed, Verified, Inv, TypeOK, Shape, Jobs,
              ModesOrNone
<1>3. last' \in ModesOrNone
  BY <1>2 DEF Owned, Confirmed, Refreshed, Verified
<1>4. CASE Leave
  BY <1>1, <1>2, <1>3, <1>4, LeaveShape, EndReadInv DEF JobShape
<1>5. CASE pc' \in {"writing", "ended", "owning"} /\ UNCHANGED job /\ here \in Owning
  <2>1. JobShape' /\ JobOK'
    BY <1>2, <1>5, SameJob DEF Owning, Phases
  <2>2. OwningOK' /\ ApplyingOK'
    BY <1>1, <1>5, PinnedStays DEF OwningOK, ApplyingOK, Applying
  <2> QED BY <1>1, <1>2, <1>3, <2>1, <2>2, EndReadInv DEF JobShape
<1>6. CASE Confirmed(o) /\ (NextTarget \/ Retry)
  <2>1. EndRead("confirming", o) /\ pc \in Owning
    BY <1>6 DEF Confirmed, EndRead, Owning
  <2>2. JobShape' /\ JobOK' /\ pc' \in {"owning", "ended"} /\ job'.mode = job.mode
    BY <1>2, <1>6, <2>1, NextShape
  <2>3. /\ job.mode \in Modes \ {"auto"}
        /\ pin' # NoPin => pin'.mode = job.mode /\ known' = job.mode
    BY <2>1, EndReadFacts DEF Inv, OwningOK, EndRead
  <2>4. OwningOK' /\ ApplyingOK'
    BY <2>2, <2>3 DEF OwningOK, ApplyingOK, Applying
  <2> QED BY <1>2, <1>3, <2>1, <2>2, <2>4, EndReadInv DEF JobShape
<1>7. \/ Leave
      \/ pc' \in {"writing", "ended", "owning"} /\ UNCHANGED job /\ here \in Owning
      \/ Confirmed(o) /\ (NextTarget \/ Retry)
  BY <1>1, <1>2 DEF Owned, Confirmed, Refreshed, Verified, EndRead, Owning
<1> QED BY <1>4, <1>5, <1>6, <1>7

-----------------------------------------------------------------------------
(* Ticks, targets and requests                                             *)

\* A step that only moves its transaction on.
LEMMA MovesOn ==
  ASSUME Inv, JobShape', JobOK', OwningOK', ApplyingOK',
         UNCHANGED <<clock, selector, remote, landing, config, activated, pin, remembered,
                     intent, known, waiting>>,
         \/ read' = NoRead /\ asOf' \in {asOf, NoAsOf}
         \/ UNCHANGED <<read, asOf, pc>>,
         last' \in ModesOrNone, clean' \in BOOLEAN
  PROVE  Inv'
<1> USE DEF Inv
<1>1. read' \in Reads /\ asOf' \in [intent: ModesOrNone, remote: BOOLEAN]
  <2>1. NoRead \in Reads /\ NoAsOf \in [intent: ModesOrNone, remote: BOOLEAN]
    BY ControlAssumption DEF Reads, NoRead, NoAsOf, ModesOrNone, Times, NoTime
  <2>2. read \in Reads /\ asOf \in [intent: ModesOrNone, remote: BOOLEAN]
    BY DEF Shape
  <2> QED BY <2>1, <2>2
<1>2. TypeOK'
  BY DEF TypeOK, JobShape, ModesOrNone, Jobs
<1>3. Shape' /\ Past'
  BY <1>1 DEF Shape, JobShape, Past
<1>4. IntentOK' /\ ReadOK'
  BY DEF IntentOK, ReadOK, Meant, Pinned, Later
<1> QED BY <1>2, <1>3, <1>4

LEMMA NoReadElsewhere == ASSUME Inv, pc \notin Reading PROVE read = NoRead
BY DEF Inv, ReadOK

LEMMA TickInv ==
  ASSUME Inv,
         \/ StartTick \/ Answered \/ EndTick \/ Abort \/ EndTargets \/ Refuse
         \/ \E restrictive \in BOOLEAN : Ask(restrictive)
  PROVE  Inv'
<1>1. /\ last \in ModesOrNone /\ job.prev \in ModesOrNone /\ clean \in BOOLEAN
      /\ config \in Configs
  BY DEF Inv, TypeOK, Shape, Jobs, ModesOrNone
<1>2. CASE StartTick
  <2> USE <1>2 DEF StartTick
  <2>1. read' = NoRead
    BY NoReadElsewhere DEF Reading
  <2>2. job' \in Jobs /\ job'.kind = "tick" /\ job'.config = config
        /\ job'.attempt = NoJob.attempt /\ job'.target = NoJob.target
        /\ pc' = "reading" /\ config' = config
    BY <1>1, NoJobShape DEF Jobs, NoJob
  <2>3. JobShape' /\ JobOK'
    <3> HIDE DEF StartTick
    <3>1. job'.kind # None /\ job' # NoJob
      BY <2>2 DEF NoJob, None
    <3> QED BY <2>2, <3>1, NoJobShape DEF JobShape, JobOK, Phases
  <2>4. OwningOK' /\ ApplyingOK'
    BY DEF OwningOK, ApplyingOK, Owning, Applying
  <2> QED BY <1>1, <2>1, <2>3, <2>4, MovesOn
<1>3. CASE EndTick \/ Abort \/ Refuse \/ (EndTargets /\ Leave)
  <2>1. read' = NoRead /\ asOf' \in {asOf, NoAsOf}
    BY <1>3, NoReadElsewhere DEF EndTick, Abort, Refuse, EndTargets, Reading
  <2>2. Leave /\ last' \in ModesOrNone /\ clean' \in BOOLEAN
    BY <1>1, <1>3 DEF EndTick, Abort, Refuse, EndTargets, Failed
  <2>3. UNCHANGED <<clock, selector, remote, landing, config, activated, pin, remembered,
                    intent, known, waiting>>
    BY <1>3 DEF EndTick, Abort, Refuse, EndTargets
  <2> QED BY <2>1, <2>2, <2>3, LeaveShape, MovesOn
<1>4. CASE EndTargets /\ ~Leave
  <2> USE <1>4 DEF EndTargets, Failed
  <2>1. read' = NoRead /\ pc' = "verifying" /\ UNCHANGED job
    BY NoReadElsewhere DEF Reading
  <2>2. JobShape' /\ JobOK'
    BY <2>1, SameJob DEF Phases
  <2>3. OwningOK' /\ ApplyingOK'
    BY <2>1 DEF OwningOK, ApplyingOK, Owning, Applying
  <2> QED BY <1>1, <2>1, <2>2, <2>3, MovesOn
<1>5. CASE Answered \/ \E restrictive \in BOOLEAN : Ask(restrictive)
  <2> USE <1>5 DEF Answered, Ask
  <2>1. read' = NoRead /\ pc' \in {"applying", "asking"} /\ pc \in Applying
    BY NoReadElsewhere DEF Reading, Applying
  <2>2. /\ job' \in Jobs /\ job'.attempt = job.attempt /\ job'.target = job.target
        /\ job'.kind = job.kind /\ job'.config = job.config /\ job'.revoked = job.revoked
    BY ShapedJob DEF JobShape, Jobs
  <2>3. JobShape' /\ JobOK'
    BY <2>1, <2>2, ShapedJob DEF Inv, JobShape, JobOK, Phases, NoJob, Applying
  <2>4. OwningOK' /\ ApplyingOK'
    BY <2>1, <2>2 DEF Inv, OwningOK, ApplyingOK, Owning, Applying
  <2> QED BY <1>1, <2>1, <2>3, <2>4, MovesOn
<1> QED BY <1>2, <1>3, <1>4, <1>5

LEMMA WrittenInv == ASSUME Inv, Written PROVE Inv'
<1> USE DEF Written
<1>1. /\ read' = NoRead /\ asOf' = asOf /\ last' \in ModesOrNone /\ clean' \in BOOLEAN
      /\ pc \in Owning
  BY NoReadElsewhere DEF Reading, Owning, Inv, TypeOK, Shape, ModesOrNone
<1>2. JobShape' /\ JobOK' /\ pc' \in {"owning", "ended", "confirming"} /\ job'.mode = job.mode
  <2>1. CASE NextTarget \/ Retry
    BY <1>1, <2>1, NextShape
  <2>2. CASE pc' = "confirming" /\ UNCHANGED job
    BY <2>2, SameJob DEF Phases
  <2> QED BY <2>1, <2>2
<1>3. OwningOK' /\ ApplyingOK'
  BY <1>1, <1>2 DEF Inv, OwningOK, ApplyingOK, Applying
<1> QED BY <1>1, <1>2, <1>3, MovesOn

LEMMA RequestInv == ASSUME Inv, NEW mode \in Modes, Request(mode) PROVE Inv'
<1> USE DEF Inv, Request
<1>1. IsFiniteSet(waiting') /\ Cardinality(waiting') <= MaxWaiting
  <2> DEFINE r == [mode |-> mode, config |-> config]
  <2>1. IsFiniteSet(waiting) /\ Cardinality(waiting) < MaxWaiting /\ waiting' = waiting \cup {r}
    BY DEF Shape
  <2>2. /\ IsFiniteSet(waiting \cup {r})
        /\ Cardinality(waiting \cup {r})
             = IF r \in waiting THEN Cardinality(waiting) ELSE Cardinality(waiting) + 1
    BY <2>1, FS_AddElement
  <2>3. Cardinality(waiting) \in Nat /\ MaxWaiting \in Nat
    BY <2>1, FS_CardinalityType, ControlAssumption
  <2> HIDE DEF r, Inv, Request
  <2> QED BY <2>1, <2>2, <2>3
<1>2. waiting' \subseteq [mode: Modes, config: Configs]
  BY DEF TypeOK
<1>3. TypeOK' /\ Shape'
  BY <1>1, <1>2 DEF TypeOK, Shape
<1>4. Past' /\ IntentOK' /\ ReadOK' /\ JobOK' /\ OwningOK' /\ ApplyingOK'
  BY DEF Past, IntentOK, ReadOK, JobOK, OwningOK, ApplyingOK, Meant, Pinned, Later
<1> QED BY <1>3, <1>4

LEMMA StartRequestInv == ASSUME Inv, NEW r \in waiting, StartRequest(r) PROVE Inv'
<1> USE DEF Inv, StartRequest
<1>1. /\ IsFiniteSet(waiting') /\ Cardinality(waiting') <= MaxWaiting
      /\ waiting' \subseteq [mode: Modes, config: Configs]
  <2>1. IsFiniteSet(waiting) /\ waiting' = waiting \ {r}
    BY DEF Shape
  <2>2. IsFiniteSet(waiting') /\ Cardinality(waiting') = Cardinality(waiting) - 1
    BY <2>1, FS_RemoveElement
  <2>3. Cardinality(waiting) \in Nat /\ MaxWaiting \in Nat /\ Cardinality(waiting) <= MaxWaiting
    BY <2>1, FS_CardinalityType, ControlAssumption DEF TypeOK
  <2>4. waiting' \subseteq [mode: Modes, config: Configs]
    BY <2>1 DEF TypeOK
  <2> QED BY <2>2, <2>3, <2>4
<1>2. /\ read = NoRead /\ r.mode \in Modes /\ config \in Configs /\ activated <= clock
      /\ clock \in 1..MaxTime /\ MaxTime \in Nat
  BY NoReadElsewhere, ControlAssumption DEF TypeOK, Past, Reading
<1>3. JobShape' /\ JobOK' /\ OwningOK' /\ ApplyingOK'
  <2>1. CASE SameMeaning(r)
    <3>1. /\ job' \in Jobs /\ job'.kind = "request" /\ job'.config = config
          /\ job'.mode = r.mode /\ job'.at = clock
          /\ job'.attempt = NoJob.attempt /\ job'.target = NoJob.target
          /\ pc' = "selecting" /\ config' = config /\ clock' = clock /\ activated' = activated
      <4>1. /\ job' = [NoJob EXCEPT !.kind = "request", !.mode = r.mode, !.config = r.config,
                                    !.at = clock]
            /\ r.config = config /\ pc' = "selecting"
            /\ config' = config /\ clock' = clock /\ activated' = activated
        BY <2>1 DEF SameMeaning
      <4>2. clock \in Times /\ r.mode \in ModesOrNone
        BY <1>2 DEF Times, ModesOrNone
      <4> HIDE DEF StartRequest, Inv
      <4>3. job' \in Jobs
        BY <1>2, <4>1, <4>2, NoJobShape DEF Jobs
      <4>4. /\ job'.kind = "request" /\ job'.config = config /\ job'.mode = r.mode
            /\ job'.at = clock /\ job'.attempt = NoJob.attempt /\ job'.target = NoJob.target
        BY <4>1 DEF NoJob
      <4> QED BY <4>1, <4>3, <4>4
    <3> HIDE DEF StartRequest, Inv
    <3>2. job'.kind # None /\ job' # NoJob
      BY <3>1 DEF NoJob, None
    <3> QED
      BY <1>2, <3>1, <3>2, NoJobShape
      DEF JobShape, JobOK, OwningOK, ApplyingOK, Phases, Owning, Applying
  <2>2. CASE ~SameMeaning(r)
    BY <2>2, ShapedJob DEF JobShape, JobOK, OwningOK, ApplyingOK, Owning, Applying
  <2> QED BY <2>1, <2>2
<1>4. landing' \in [config: Configs, mode: ModesOrNone]
      /\ (landing' # NoLanding => landing'.mode \in Modes)
  BY <1>2 DEF Shape, ModesOrNone
<1>5. TypeOK'
  BY <1>1, <1>3 DEF TypeOK, JobShape, Jobs
<1>6. Shape' /\ Past'
  BY <1>1, <1>3, <1>4 DEF Shape, Past, JobShape
<1>7. IntentOK' /\ ReadOK'
  BY <1>2 DEF IntentOK, ReadOK, Meant, Pinned, Later
<1> QED BY <1>3, <1>5, <1>6, <1>7

\* The service accepted: the request is pinned at the instant it was made, which
\* no change of configuration follows, unless the operator selected since.
LEMMA AcceptInv == ASSUME Inv, Accept PROVE Inv'
<1> USE NoneIsNoMode DEF Inv, Accept
<1>1. /\ read = NoRead /\ read' = read /\ pc = "selecting"
      /\ job.mode \in Modes /\ job.at \in 1..clock /\ activated <= job.at
      /\ clock \in 1..MaxTime /\ MaxTime \in Nat /\ config \in Configs
      /\ activated \in Nat /\ selector[config].changed \in Nat
      /\ selector[config].mode \in Modes
      /\ job # NoJob
  BY NoReadElsewhere, ControlAssumption DEF TypeOK, JobOK, Reading
<1>2. last' \in ModesOrNone /\ clean \in BOOLEAN /\ known \in ModesOrNone
  BY <1>1 DEF ModesOrNone, Shape
<1>3. CASE job.mode = "auto"
  <2> USE <1>3
  <2>1. JobShape' /\ JobOK' /\ OwningOK' /\ ApplyingOK'
    BY LeaveShape
  <2>2. TypeOK'
    BY <1>2, <2>1 DEF TypeOK, JobShape, Jobs, ModesOrNone
  <2>3. Shape'
    BY <1>1, <2>1 DEF Shape, JobShape
  <2>4. Past'
    BY <1>1 DEF Past, NoPin, NoTime
  <2>5. IntentOK' /\ ReadOK'
    BY <1>1 DEF IntentOK, ReadOK, Meant, Pinned
  <2> QED BY <2>1, <2>2, <2>3, <2>4, <2>5
<1>4. CASE job.mode # "auto"
  <2> USE <1>4
  <2>1. /\ pin' = [mode |-> job.mode, at |-> job.at] /\ known' = job.mode
        /\ pc' = "refreshing" /\ UNCHANGED <<job, config, activated, selector, clock>>
        /\ intent' = NewestIntent
    OBVIOUS
  <2>2. JobShape' /\ JobOK'
    BY <1>1, <2>1, SameJob DEF Phases
  <2>3. OwningOK' /\ ApplyingOK'
    BY <1>1, <2>1 DEF OwningOK, ApplyingOK, Applying
  <2>4. NewestIntent \in Modes
    BY <1>1 DEF NewestIntent
  <2>5. TypeOK'
    BY <1>1, <1>2, <2>1, <2>2 DEF TypeOK, JobShape, ModesOrNone
  <2>6. Shape' /\ Past'
    BY <1>1, <1>2, <2>1, <2>2, <2>4 DEF Shape, JobShape, Past, ModesOrNone
  <2>7. IntentOK' /\ ReadOK'
    <3>1. pin' # NoPin
      BY <1>1, <2>1 DEF NoPin
    <3>2. IntentOK'
      BY <1>1, <2>1, <3>1 DEF IntentOK, Meant, Pinned, Later, NewestIntent
    <3> QED BY <1>1, <3>2 DEF ReadOK
  <2> QED BY <2>2, <2>3, <2>5, <2>6, <2>7
<1> QED BY <1>3, <1>4

\* A new configuration is younger than every selection there is.
LEMMA ConfigureInv == ASSUME Inv, Configure PROVE Inv'
<1> USE NoneIsNoMode DEF Inv, Configure
<1>1. /\ read = NoRead /\ read' = read /\ config' \in Configs /\ clock \in Nat
      /\ clock \in 1..MaxTime
      /\ \A c \in Configs : selector[c].changed \in Nat /\ selector[c].mode \in Modes
      /\ pin.at \in Nat /\ (pin # NoPin => pin.mode \in Modes)
  BY NoReadElsewhere, ControlAssumption DEF TypeOK, Configs, NoPin, NoTime, Reading
<1>2. intent' \in Modes
  BY <1>1
<1>3. TypeOK'
  BY <1>1, ControlAssumption DEF TypeOK
<1>4. Shape'
  BY <1>1, <1>2 DEF Shape, ModesOrNone
<1>5. Past'
  BY <1>1 DEF Past
<1>6. IntentOK'
  BY <1>1 DEF IntentOK, Meant, Pinned, Later, Past
<1>7. ReadOK' /\ JobOK' /\ OwningOK' /\ ApplyingOK'
  BY <1>1 DEF ReadOK, JobOK, OwningOK, ApplyingOK, Owning, Applying
<1> QED BY <1>3, <1>4, <1>5, <1>6, <1>7

LEMMA RestartInv == ASSUME Inv, Restart PROVE Inv'
<1> USE NoneIsNoMode DEF Inv, Restart
<1>1. /\ config \in Configs /\ selector[config].mode \in Modes /\ clock \in 1..MaxTime
      /\ MaxTime \in Nat
  BY ControlAssumption DEF TypeOK
<1>2. JobShape' /\ JobOK' /\ OwningOK' /\ ApplyingOK'
  BY LeaveShape
<1>3. waiting' = {} /\ IsFiniteSet(waiting') /\ Cardinality(waiting') <= MaxWaiting
  BY FS_EmptySet, ControlAssumption
<1>4. TypeOK'
  <2>1. activated' \in 0..MaxTime /\ pin' = NoPin
    BY <1>1 DEF NoTime
  <2>2. job'.target \in DOMAIN Tries /\ job'.attempt \in 1..Tries[job'.target]
        /\ pc' \in Phases /\ (pc' = "free" <=> job' = NoJob)
    BY <1>2 DEF JobShape, Jobs
  <2> QED BY <1>3, <2>1, <2>2 DEF TypeOK
<1>5. Shape'
  <2>1. NoRead \in Reads /\ NoAsOf \in [intent: ModesOrNone, remote: BOOLEAN]
    BY ControlAssumption DEF Reads, NoRead, NoAsOf, ModesOrNone, Times, NoTime
  <2> QED BY <1>1, <1>2, <1>3, <2>1 DEF Shape, JobShape, ModesOrNone
<1>6. Past'
  BY <1>1 DEF Past, NoTime, NoPin
<1>7. IntentOK' /\ ReadOK'
  BY DEF IntentOK, ReadOK, Meant, Pinned
<1> QED BY <1>2, <1>4, <1>5, <1>6, <1>7

-----------------------------------------------------------------------------
(* The theorems                                                            *)

LEMMA NextInv == Inv /\ [Next]_vars => Inv'
<1> SUFFICES ASSUME Inv, [Next]_vars PROVE Inv'
  OBVIOUS
<1>1. CASE Next
  <2>1. CASE \E o \in Outcomes : EndsRead(o)
    BY <2>1, EndStateReadInv, EnterInv, PermitInv, ReadTargetsInv DEF EndsRead
  <2>2. CASE \/ \E mode \in Modes : Request(mode)
             \/ \E r \in waiting : StartRequest(r)
    BY <2>2, RequestInv, StartRequestInv
  <2>3. CASE \/ StartTick \/ Answered \/ EndTick \/ Abort \/ EndTargets \/ Refuse
             \/ \E restrictive \in BOOLEAN : Ask(restrictive)
    BY <2>3, TickInv
  <2>4. CASE \/ \E c \in Configs, mode \in Modes : OperatorSelects(c, mode)
             \/ Land \/ Lose \/ Switch
    BY <2>4, WorldInv
  <2>5. CASE BeginRead \/ Written \/ Accept \/ Configure \/ Restart
    BY <2>5, BeginReadInv, WrittenInv, AcceptInv, ConfigureInv, RestartInv
  <2> QED BY <1>1, <2>1, <2>2, <2>3, <2>4, <2>5 DEF Next
<1>2. CASE UNCHANGED vars
  <2> USE <1>2 DEF vars, Inv
  <2>1. TypeOK' /\ Shape' /\ Past'
    BY DEF TypeOK, Shape, Past
  <2>2. IntentOK' /\ ReadOK'
    BY DEF IntentOK, ReadOK, Meant, Pinned, Later
  <2>3. JobOK' /\ OwningOK' /\ ApplyingOK'
    BY DEF JobOK, OwningOK, ApplyingOK
  <2> QED BY <2>1, <2>2, <2>3
<1> QED BY <1>1, <1>2

\* Selectors, pin, transaction and history keep their shape for any modes, targets,
\* horizon and faults.
THEOREM ControlTyping == Spec => []TypeOK
<1>1. Inv => TypeOK
  BY DEF Inv
<1> QED BY <1>1, InitInv, NextInv, PTL DEF Spec

\* Which steps write, and which change the configuration.
LEMMA Dispatchers ==
  ASSUME Inv, Next
  PROVE  /\ Dispatched("writing") => \E o \in Outcomes : Owned(o)
         /\ Dispatched("sent") => \E o \in Outcomes : Permit(o)
         /\ config' = config \/ pc' = "free"
<1>1. CASE \/ \E c \in Configs, mode \in Modes : OperatorSelects(c, mode)
           \/ Land \/ Lose \/ Switch
  BY <1>1 DEF OperatorSelects, Land, Lose, Switch, WorldOnly, Dispatched
<1>2. CASE BeginRead \/ Accept \/ Configure \/ Restart \/ Written
  BY <1>2 DEF BeginRead, Accept, Configure, Restart, Written, NextTarget, Retry, Leave, Dispatched
<1>3. CASE \/ StartTick \/ Answered \/ EndTick \/ Abort \/ EndTargets \/ Refuse
           \/ \E restrictive \in BOOLEAN : Ask(restrictive)
  BY <1>3
  DEF StartTick, Answered, EndTick, Abort, EndTargets, Refuse, Ask, Failed, Leave, Dispatched
<1>4. CASE \/ \E mode \in Modes : Request(mode)
           \/ \E r \in waiting : StartRequest(r)
  BY <1>4 DEF Request, StartRequest, Dispatched
<1>5. ASSUME NEW o \in Outcomes, EndsRead(o)
      PROVE  /\ Dispatched("writing") => Owned(o)
             /\ Dispatched("sent") => Permit(o)
             /\ config' = config
  BY <1>5
  DEF EndsRead, EndRead, EndStateRead, Enter, Permit, Owned, Confirmed, Refreshed, Verified,
      NextTarget, Retry, Failed, Leave, Dispatched
<1> QED BY <1>1, <1>2, <1>3, <1>4, <1>5 DEF Next

Automatic ==
  Dispatched("sent") =>
    /\ asOf.remote
    /\ job.restrictive \/ (clean' /\ asOf.intent = "auto")
    /\ known' = "auto"

OfPreset == Dispatched("writing") => known' = job.mode

OneMeaning ==
  \A here \in {"selecting", "writing", "sent"} : Dispatched(here) => job'.config = config

LEMMA NextOwned == Inv /\ [Next]_vars => Automatic /\ OfPreset /\ OneMeaning
<1> SUFFICES ASSUME Inv, [Next]_vars PROVE Automatic /\ OfPreset /\ OneMeaning
  OBVIOUS
<1>1. CASE UNCHANGED vars
  BY <1>1 DEF vars, Automatic, OfPreset, OneMeaning, Dispatched
<1>2. CASE Next
  <2>1. Automatic
    BY <1>2, Dispatchers, PermitFacts DEF Automatic, Dispatched
  <2>2. OfPreset
    <3> SUFFICES ASSUME Dispatched("writing") PROVE known' = job.mode
      BY DEF OfPreset
    <3>1. PICK o \in Outcomes : Owned(o)
      BY <1>2, Dispatchers
    <3>2. EndRead("owning", o) /\ job' = job /\ StillOwned(o)
      BY <3>1 DEF Owned, Dispatched
    <3> QED BY <3>2, PinnedStays DEF Owning
  <2>3. OneMeaning
    <3>1. config' = config \/ pc' = "free"
      BY <1>2, Dispatchers
    <3>2. pc' # "free" => job'.config = config'
      BY NextInv DEF Inv, JobOK
    <3> QED BY <3>1, <3>2 DEF OneMeaning, Dispatched
  <2> QED BY <2>1, <2>2, <2>3
<1> QED BY <1>1, <1>2

\* An automatic write that gives permission is sent only while the operator meant
\* Automated with the switch on, as its read began and in every earlier read of the
\* application; one that restricts while no other intent was verified.
THEOREM AutomaticWritesOwned == Spec => AutomaticOwned
<1>1. [Automatic]_vars =>
        [Dispatched("sent") =>
           /\ asOf.remote
           /\ job.restrictive \/ (clean' /\ asOf.intent = "auto")
           /\ known' = "auto"]_vars
  BY DEF Automatic
<1> QED BY <1>1, InitInv, NextInv, NextOwned, PTL DEF Spec, AutomaticOwned

\* A preset's target is written only while the last verified intent of the operator
\* is that preset.
THEOREM PresetWritesOwned == Spec => ManualOwned
<1>1. [OfPreset]_vars => [Dispatched("writing") => known' = job.mode]_vars
  BY DEF OfPreset
<1> QED BY <1>1, InitInv, NextInv, NextOwned, PTL DEF Spec, ManualOwned

\* No transaction writes under another configuration than the one it began with.
THEOREM OneConfiguration == Spec => OwnConfiguration
<1>1. [OneMeaning]_vars =>
        [\A here \in {"selecting", "writing", "sent"} :
           Dispatched(here) => job'.config = config]_vars
  BY DEF OneMeaning
<1> QED BY <1>1, InitInv, NextInv, NextOwned, PTL DEF Spec, OwnConfiguration

=============================================================================
