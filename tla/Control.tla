------------------------------- MODULE Control -------------------------------
(***************************************************************************)
(* Who controls the inverter (app/optimizer.py): the operator's mode       *)
(* selector in Home Assistant, the modes requested through the API, the    *)
(* optimizer's ticks, and changes of the configuration that says which     *)
(* selector it is.  Ticks, requests and changes of settings take turns     *)
(* under the control lock; Home Assistant and its operator do not.         *)
(*                                                                         *)
(* A read of the selector is two reads, its state and later the metadata   *)
(* of it; a write is permitted by a read that precedes it.  An accepted    *)
(* request pins its mode until the selector shows a newer selection.       *)
(*                                                                         *)
(* The order of the automatic writes, their values and whether they        *)
(* restrict are arbitrary; so is whether manual targets have drifted.  The *)
(* instants are those of a change of a selector, and None is no instant,   *)
(* no mode and no call.  The selector is an input_select, whose reports    *)
(* do not age.                                                             *)
(***************************************************************************)
EXTENDS Naturals, Sequences, FiniteSets

CONSTANTS
  Presets,    \* the modes with targets; "block" is one whose limits the operator may keep
  Tries,      \* attempts at each target: the EMS mode, then the limits
  MaxTime,    \* bound: instants 1..MaxTime
  MaxWaiting, \* bound: requests waiting for the lock
  Adversity,  \* what may go wrong
  FaultLimit  \* and how often

Faults == {"unread", "unavailable", "undated", "switch", "configure", "abort", "restart",
           "late", "refused"}

ASSUME ControlAssumption ==
  /\ Presets # {} /\ Presets \cap {"auto", "manual", "none"} = {}
  /\ Tries \in Seq(Nat \ {0}) /\ Len(Tries) > 0
  /\ {MaxTime, MaxWaiting} \subseteq Nat \ {0}
  /\ Adversity \subseteq Faults /\ FaultLimit \in Nat

VARIABLES
  clock,
  selector,   \* external: the two mode selectors a configuration may name
  remote,     \* external: the Remote EMS switch is on
  landing,    \* external: a selection Home Assistant was asked to make
  config,     \* cfg.sigenergy_mode_select and the options
  activated,  \* self._control_identity_activated_at
  pin,        \* self._manual_mode_override and _manual_mode_requested_at
  remembered, \* self._last_observed_control_mode
  last,       \* self._last_state.sigenergy_mode
  waiting,    \* requests that wait for self._control_lock
  pc,         \* of the transaction that holds the lock
  read,       \* the state read, before its metadata is
  job,        \* the variables of that transaction
  intent,     \* history: the newest selection of the operator
  asOf,       \* history: the intent and the switch when the read in progress began
  known,      \* history: the intent last shown by a verified read
  clean,      \* history: every authority read of the application showed Automated
  faults

world   == <<clock, selector, remote, landing>>
memory  == <<config, activated, pin, remembered, last>>
history == <<intent, asOf, known, clean>>
vars    == <<world, memory, waiting, pc, read, job, history, faults>>

None == "none"
NoTime == 0
Modes == {"auto", "manual"} \cup Presets
Configs == {1, 2}
NoPin == [mode |-> None, at |-> NoTime]
NoRead == [mode |-> None, changed |-> NoTime, on |-> FALSE, moved |-> FALSE, switched |-> FALSE]
NoAsOf == [intent |-> None, remote |-> FALSE]
NoLanding == [config |-> 1, mode |-> None]
NoJob == [kind |-> None, mode |-> None, config |-> 1, at |-> NoTime, prev |-> None,
          observed |-> FALSE, revoked |-> FALSE, restrictive |-> FALSE,
          target |-> 1, attempt |-> 1]

Fault(kind) == kind \in Adversity /\ faults < FaultLimit /\ faults' = faults + 1
NoFault == UNCHANGED faults
Later(x, y) == IF x > y THEN x ELSE y

-----------------------------------------------------------------------------
(* Home Assistant and its operator                                         *)

WorldOnly == UNCHANGED <<memory, waiting, pc, job, asOf, known, clean>>

\* Selector c comes to show mode; a read in progress will find it moved.
Selected(c, mode) ==
  /\ clock < MaxTime /\ clock' = clock + 1
  /\ selector' = [selector EXCEPT ![c] = [mode |-> mode, changed |-> clock + 1]]
  /\ read' = IF c = config /\ read # NoRead THEN [read EXCEPT !.moved = TRUE] ELSE read
  /\ intent' = IF c = config THEN mode ELSE intent

OperatorSelects(c, mode) ==
  /\ mode # selector[c].mode
  /\ Selected(c, mode)
  /\ UNCHANGED <<remote, landing>> /\ WorldOnly /\ NoFault

\* What the service was asked for happens, before its answer or long after it.
Land ==
  /\ landing # NoLanding /\ landing' = NoLanding
  /\ IF selector[landing.config].mode = landing.mode
       THEN UNCHANGED <<clock, selector, read, intent>>
       ELSE Selected(landing.config, landing.mode)
  /\ IF pc = "selecting" THEN NoFault ELSE Fault("late")
  /\ UNCHANGED remote /\ WorldOnly

\* It never happens, whatever was answered.
Lose ==
  /\ landing # NoLanding /\ pc # "selecting"
  /\ landing' = NoLanding
  /\ UNCHANGED <<clock, selector, remote, read, intent>> /\ WorldOnly /\ NoFault

Switch ==
  /\ Fault("switch")
  /\ remote' = ~remote
  /\ read' = IF read # NoRead THEN [read EXCEPT !.switched = TRUE] ELSE read
  /\ UNCHANGED <<clock, selector, landing, intent>> /\ WorldOnly

-----------------------------------------------------------------------------
(* Reading who controls                                                    *)

\* bulk_states of a read
BeginRead ==
  /\ pc \in {"reading", "entering", "asking", "refreshing", "owning", "confirming", "verifying"}
  /\ read = NoRead
  /\ read' = [NoRead EXCEPT !.mode = selector[config].mode, !.changed = selector[config].changed,
                            !.on = remote]
  /\ asOf' = [intent |-> intent, remote |-> remote]
  /\ UNCHANGED <<world, memory, waiting, pc, job, intent, known, clean>> /\ NoFault

NotObserved == [mode |-> None, on |-> FALSE, changed |-> NoTime]

\* _enrich_state_report_metadata and _control_mode_observation: a selector that
\* moved between the two reads shows nothing, unless the metadata was not read.
Observes(o) ==
  LET selected == [mode |-> read.mode, on |-> read.on, changed |-> read.changed]
  IN \/ /\ o = [selected EXCEPT !.mode = IF read.moved THEN None ELSE @,
                                !.on = @ /\ ~read.switched]
        /\ NoFault
     \/ o = selected /\ Fault("unread")
     \/ o = [selected EXCEPT !.changed = NoTime] /\ ~read.moved /\ ~read.switched /\ Fault("undated")
     \/ o = NotObserved /\ Fault("unavailable")

\* Mutant: any report of another mode ends the request.
YieldsToReport(o) == TRUE

\* A request yields only to a selection newer than it and than the configuration.
Yields(o) == o.changed > Later(pin.at, activated)

\* _remember_control_mode
Remember(o) ==
  IF o.mode = None THEN UNCHANGED <<pin, remembered>>
  ELSE IF pin # NoPin /\ o.mode # pin.mode /\ ~Yields(o) THEN UNCHANGED <<pin, remembered>>
  ELSE /\ pin' = IF pin # NoPin /\ o.mode # pin.mode THEN NoPin ELSE pin
       /\ remembered' = o.mode

\* The end of a read, and what its reader learns from it.
EndRead(here, o) ==
  /\ pc = here /\ read # NoRead /\ read' = NoRead
  /\ Observes(o) /\ Remember(o)
  /\ known' = IF o.mode # None /\ (o.changed # NoTime \/ pin = NoPin \/ o.mode = pin.mode)
                THEN asOf.intent ELSE known
  /\ asOf' = NoAsOf
  /\ UNCHANGED <<world, config, activated, waiting, intent>>

\* What a read may return: the selector as read or not at all.
Outcomes == {NotObserved} \cup [mode: {read.mode, None}, on: BOOLEAN, changed: {read.changed, NoTime}]

\* The lock is released.
Leave == pc' = "free" /\ job' = NoJob

-----------------------------------------------------------------------------
(* A tick                                                                  *)

StartTick ==
  /\ pc = "free" /\ pc' = "reading"
  /\ job' = [NoJob EXCEPT !.kind = "tick", !.config = config, !.prev = last]
  /\ UNCHANGED <<world, memory, waiting, read, history>> /\ NoFault

OrElse(mode, other) == IF mode # None THEN mode ELSE other

\* The mode of the snapshot: the observed one, or what is remembered of it; a pin
\* that another mode contradicts is not observed.
EndStateRead(o) ==
  LET shown == OrElse(o.mode, OrElse(pin'.mode, OrElse(remembered', OrElse(last, "auto"))))
  IN /\ EndRead("reading", o)
     /\ last' = IF pin' # NoPin THEN pin'.mode ELSE shown
     /\ job' = [job EXCEPT !.observed = o.mode # None /\ last' = shown]
     /\ pc' = "entering"
     /\ UNCHANGED clean

\* A tick that fails restores the state it replaced.
Failed == Leave /\ last' = job.prev

\* The entry of _apply: ownership decides between a pause, the operator's targets
\* and automatic writes.
Enter(o) ==
  /\ EndRead("entering", o)
  /\ IF \/ o.mode = None
        \/ pin' # NoPin /\ o.mode # pin'.mode
        \/ last # o.mode \/ ~job.observed
       THEN Failed
     ELSE IF o.mode = "auto" /\ o.on
       THEN pc' = "applying" /\ UNCHANGED <<job, last>>
     ELSE \/ Leave /\ UNCHANGED last
          \/ /\ o.mode \in Presets
             /\ pc' = "owning" /\ job' = [job EXCEPT !.mode = o.mode]
             /\ UNCHANGED last
  /\ clean' = (pc' = "applying" => asOf.intent = "auto")

\* The next of the automatic writes asks for permission.
Ask(restrictive) ==
  /\ pc = "applying" /\ pc' = "asking"
  /\ job' = [job EXCEPT !.restrictive = restrictive]
  /\ UNCHANGED <<world, memory, waiting, read, history>> /\ NoFault

\* Mutant: authority that was lost and returned permits again.
PermitsAnew(o, revoked) == o.mode = "auto" /\ pin' = NoPin /\ o.on

\* _authority_permits of a write that gives permission
Permits(o, revoked) == o.mode = "auto" /\ pin' = NoPin /\ o.on /\ ~revoked

\* Mutant: a restriction needs only the switch.
RestrictsAnyway(o) == o.on

\* ... and of one that only restricts, unless an operator's mode was ever seen.
Restricts(o) ==
  /\ o.on /\ o.mode \in {None, "auto"}
  /\ OrElse(pin'.mode, OrElse(remembered', last)) \in {None, "auto"}

Permit(o) ==
  LET revoked == job.revoked \/ ~(o.mode = "auto" /\ pin' = NoPin /\ o.on)
      allowed == Permits(o, revoked) \/ (job.restrictive /\ Restricts(o))
  IN /\ EndRead("asking", o)
     /\ pc' = IF allowed THEN "sent" ELSE "applying"
     /\ job' = [job EXCEPT !.revoked = revoked]
     /\ clean' = (clean /\ o.mode = "auto" /\ o.on /\ asOf.intent = "auto")
     /\ UNCHANGED last

Answered ==
  /\ pc = "sent" /\ pc' = "applying"
  /\ UNCHANGED <<world, memory, waiting, read, job, history>> /\ NoFault

\* The application completes, or fails as one that lost its authority does.
EndTick ==
  /\ pc = "applying"
  /\ IF job.revoked THEN Failed ELSE (Leave /\ UNCHANGED last) \/ Failed
  /\ clean' = TRUE
  /\ UNCHANGED <<world, config, activated, pin, remembered, waiting, read, intent,
                 asOf, known>>
  /\ NoFault

\* An exception or a cancellation ends a tick between two of its awaits.
Abort ==
  /\ job.kind = "tick" /\ Fault("abort")
  /\ Failed /\ read' = NoRead /\ asOf' = NoAsOf /\ clean' = TRUE
  /\ UNCHANGED <<world, config, activated, pin, remembered, waiting, intent, known>>

-----------------------------------------------------------------------------
(* The targets of a preset                                                 *)

\* Mutant: what a tick enforces is not asked about again.
OwnedByTick(o) == job.kind = "tick" \/ pin'.mode = job.mode

\* _still_owned
StillOwned(o) == o.mode = job.mode \/ pin'.mode = job.mode

\* Ownership is asked before every attempt, and is lost for good.
Owned(o) ==
  /\ EndRead("owning", o)
  /\ pc' = IF StillOwned(o) THEN "writing" ELSE "ended"
  /\ UNCHANGED <<job, last, clean>>

\* Mutant: one target too many.
NextTargetPastLast ==
  pc' = "owning" /\ job' = [job EXCEPT !.target = @ + 1, !.attempt = 1]

NextTarget ==
  IF job.target = Len(Tries)
    THEN pc' = "ended" /\ UNCHANGED job
    ELSE pc' = "owning" /\ job' = [job EXCEPT !.target = @ + 1, !.attempt = 1]
Retry ==
  IF job.attempt < Tries[job.target]
    THEN pc' = "owning" /\ job' = [job EXCEPT !.attempt = @ + 1]
    ELSE NextTarget

\* The answer to an attempt.  An accepted EMS mode is waited for.
Written ==
  /\ pc = "writing"
  /\ \/ job.target > 1 /\ NextTarget
     \/ job.target = 1 /\ pc' = "confirming" /\ UNCHANGED job
     \/ Retry
  /\ UNCHANGED <<world, memory, waiting, read, history>> /\ NoFault

\* Ownership is asked again after the wait, whether the mode settled or not.
Confirmed(o) ==
  /\ EndRead("confirming", o)
  /\ IF StillOwned(o) THEN NextTarget \/ Retry ELSE pc' = "ended" /\ UNCHANGED job
  /\ UNCHANGED <<last, clean>>

\* All targets were tried or given up.
EndTargets ==
  /\ pc = "ended"
  /\ IF job.kind = "tick"
       THEN (Leave /\ UNCHANGED last) \/ Failed
       ELSE pc' = "verifying" /\ UNCHANGED <<job, last>>
  /\ UNCHANGED <<world, config, activated, pin, remembered, waiting, read, history>> /\ NoFault

-----------------------------------------------------------------------------
(* A request, and a change of configuration                                *)

\* apply_manual_mode is called, and waits for the lock.
Request(mode) ==
  /\ Cardinality(waiting) < MaxWaiting
  /\ waiting' = waiting \cup {[mode |-> mode, config |-> config]}
  /\ UNCHANGED <<world, memory, pc, read, job, history>> /\ NoFault

\* Mutant: a request is applied under any configuration.
AnyMeaning(r) == TRUE

\* The labels and the selector are those the request was made with.
SameMeaning(r) == r.config = config

\* It has the lock: it is refused, or the selector is told.
StartRequest(r) ==
  /\ pc = "free" /\ landing = NoLanding
  /\ waiting' = waiting \ {r}
  /\ IF SameMeaning(r)
       THEN /\ pc' = "selecting"
            /\ job' = [NoJob EXCEPT !.kind = "request", !.mode = r.mode, !.config = r.config,
                                    !.at = clock]
            /\ landing' = [config |-> config, mode |-> r.mode]
       ELSE UNCHANGED <<pc, job, landing>>
  /\ UNCHANGED <<clock, selector, remote, memory, read, history>> /\ NoFault

\* The selector's service answers.
Refuse ==
  /\ pc = "selecting" /\ Fault("refused")
  /\ Leave
  /\ UNCHANGED <<world, memory, waiting, read, history>>

\* An operator who selected since is heard by the next read.
NewestIntent ==
  IF selector[config].changed > job.at THEN selector[config].mode ELSE job.mode

Accept ==
  /\ pc = "selecting"
  /\ last' = IF last = None THEN None ELSE job.mode
  /\ IF job.mode = "auto"
       THEN /\ pin' = NoPin
            /\ Leave
            /\ intent' = selector[config].mode /\ UNCHANGED known
       ELSE /\ pin' = [mode |-> job.mode, at |-> job.at]
            /\ pc' = "refreshing" /\ UNCHANGED job
            /\ intent' = NewestIntent /\ known' = job.mode
  /\ UNCHANGED <<world, config, activated, remembered, waiting, read, asOf, clean>> /\ NoFault

\* _read_state before the targets; a newer selection supersedes the request.
Refreshed(o) ==
  /\ EndRead("refreshing", o)
  /\ IF pin'.mode # job.mode THEN Leave /\ UNCHANGED last
     ELSE IF job.mode = "manual" THEN Leave /\ last' = job.mode
     ELSE pc' = "owning" /\ UNCHANGED <<job, last>>
  /\ UNCHANGED clean

\* _read_state after them
Verified(o) ==
  /\ EndRead("verifying", o)
  /\ Leave
  /\ last' = IF pin'.mode = job.mode THEN job.mode ELSE last
  /\ UNCHANGED clean

\* configuration_transaction: another selector, or other labels.
Configure ==
  /\ pc = "free" /\ Fault("configure")
  /\ config' = 3 - config
  /\ activated' = clock
  /\ remembered' = None /\ last' = None
  /\ intent' = IF pin # NoPin THEN pin.mode ELSE selector[config'].mode
  /\ known' = None
  /\ UNCHANGED <<world, pin, waiting, pc, read, job, asOf, clean>>

\* The process ends, and with it all it remembers.
Restart ==
  /\ Fault("restart")
  /\ activated' = NoTime /\ pin' = NoPin
  /\ remembered' = None /\ last' = None
  /\ waiting' = {} /\ Leave /\ read' = NoRead
  /\ intent' = selector[config].mode /\ known' = None
  /\ asOf' = NoAsOf /\ clean' = TRUE
  /\ UNCHANGED <<world, config>>

-----------------------------------------------------------------------------
Init ==
  /\ clock = 1
  /\ selector \in [Configs -> [mode: Modes, changed: {1}]]
  /\ remote = TRUE /\ landing = NoLanding
  /\ config = 1 /\ activated = NoTime /\ pin = NoPin
  /\ remembered = None /\ last = None
  /\ waiting = {} /\ pc = "free" /\ read = NoRead /\ job = NoJob
  /\ intent = selector[config].mode /\ known = None
  /\ asOf = NoAsOf /\ clean = TRUE
  /\ faults = 0

EndsRead(o) ==
  EndStateRead(o) \/ Enter(o) \/ Permit(o) \/ Owned(o) \/ Confirmed(o) \/ Refreshed(o) \/ Verified(o)

Next ==
  \/ \E c \in Configs, mode \in Modes : OperatorSelects(c, mode)
  \/ Land \/ Lose \/ Switch
  \/ BeginRead
  \/ \E o \in Outcomes : EndsRead(o)
  \/ StartTick \/ \E restrictive \in BOOLEAN : Ask(restrictive)
  \/ Answered \/ EndTick \/ Abort
  \/ Written \/ EndTargets
  \/ \E mode \in Modes : Request(mode)
  \/ \E r \in waiting : StartRequest(r)
  \/ Accept \/ Refuse \/ Configure \/ Restart

Spec == Init /\ [][Next]_vars

-----------------------------------------------------------------------------
Phases == {"free", "reading", "entering", "applying", "asking", "sent", "owning", "writing",
           "confirming", "ended", "selecting", "refreshing", "verifying"}

TypeOK ==
  /\ clock \in 1..MaxTime
  /\ selector \in [Configs -> [mode: Modes, changed: 1..MaxTime]]
  /\ config \in Configs /\ activated \in 0..MaxTime
  /\ pin = NoPin \/ pin \in [mode: Modes \ {"auto"}, at: 1..MaxTime]
  /\ remembered \in Modes \cup {None} /\ last \in Modes \cup {None}
  /\ waiting \subseteq [mode: Modes, config: Configs] /\ Cardinality(waiting) <= MaxWaiting
  /\ pc \in Phases /\ (pc = "free" <=> job = NoJob)
  /\ job.target \in DOMAIN Tries /\ job.attempt \in 1..Tries[job.target]

Dispatched(here) == pc' = here /\ pc # here

\* An automatic write that gives permission is sent only when the operator's newest
\* intent was Automated with the switch on as its last read began, and no earlier
\* authority read of the same application showed anything else.  A restriction is
\* sent only while no verified read or request showed another intent.
AutomaticOwned ==
  [][Dispatched("sent") =>
       /\ asOf.remote
       /\ job.restrictive \/ (clean' /\ asOf.intent = "auto")
       /\ known' = "auto"]_vars

\* A target of a preset is written only while no verified read has shown that the
\* operator meant something newer.
ManualOwned == [][Dispatched("writing") => known' = job.mode]_vars

\* No write mixes the meaning of two configurations: every one is sent under the
\* configuration its tick read, or its request named.
OwnConfiguration ==
  [][\A here \in {"selecting", "writing", "sent"} : Dispatched(here) => job'.config = config]_vars
=============================================================================
