---------------------------- MODULE SolarProvider ----------------------------
(***************************************************************************)
(* The solar forecast provider's authority over the battery charge         *)
(* ceiling (app/optimizer.py, "_solar_provider_*"), together with the      *)
(* websocket client (app/ha_ws_client.py) and the event loop of the        *)
(* optimizer (run_forever), whose waits end when authority does.           *)
(*                                                                         *)
(* A forecast may lower the ceiling only after the optimizer saw the       *)
(* provider succeed: a poll later than the first one it saw since the last *)
(* discontinuity, before the update the provider promised next.  The tick  *)
(* reads Home Assistant over REST, over several awaits, while websocket    *)
(* events arrive late and in order, or not at all.                         *)
(*                                                                         *)
(* The forecast itself is its day, its version and whether its periods are *)
(* valid.  An epoch number is only ever compared with that of the snapshot *)
(* in hand, so the model keeps the comparison: "same".  An instant is a    *)
(* positive number and None is no instant.  The 5 s of tolerated clock     *)
(* skew are none, and the event loop itself takes no time.                 *)
(***************************************************************************)
EXTENDS Naturals, Sequences, FiniteSetsExt

CONSTANTS
  MaxTime,   \* bound: instants 1..MaxTime
  DayLength, \* instants of a day
  Interval,  \* from a provider success to its promised next update
  Heartbeat, \* _HEARTBEAT_INTERVAL
  Debounce,  \* _DEBOUNCE_SECONDS
  QueueSize, \* maxsize of trigger_queue
  WireSize,  \* bound: undelivered websocket events
  Adversity, \* what may go wrong
  FaultLimit \* and how often

Faults == {"disconnect", "refused", "unreadable", "regress", "unavailable", "malformed",
           "shorten", "silent", "metadata", "rewrite", "reassign", "noise"}

ASSUME SolarProviderAssumption ==
  /\ {MaxTime, DayLength, Interval, Heartbeat, Debounce, QueueSize, WireSize} \subseteq Nat \ {0}
  /\ Adversity \subseteq Faults /\ FaultLimit \in Nat

VARIABLES
  clock,
  poll, forecast,   \* external: the two provider entities as HA has them
  wire, connected,  \* of the websocket client
  configured,       \* the provider entities the settings name
  p,                \* self._solar_provider_*
  queue,            \* trigger_queue
  phase, until,     \* of run_forever and its tick, and when its wait ends
  lastTick,         \* last_tick_ts
  s,                \* the snapshot of the tick
  ceiling,          \* the forecast's charge ceiling: none, planned or commanded
  success,          \* history: the provider succeeded since the last discontinuity
  promise,          \* history: the earliest update promised with the verified poll
  ticks,            \* history: cycles since anything changed outside
  faults

world   == <<poll, forecast, configured>>
channel == <<wire, connected>>
loop    == <<phase, until, lastTick>>
history == <<success, promise, ticks>>
vars    == <<clock, world, channel, p, queue, loop, s, ceiling, history, faults>>

None == 0
Times == 1..MaxTime
Day(t) == (t - 1) \div DayLength + 1
Midnight(t) == Day(t) * DayLength + 1
Later(x, y) == IF x > y THEN x ELSE y

Fault(kind) == kind \in Adversity /\ faults < FaultLimit /\ faults' = faults + 1
NoFault == UNCHANGED faults

NoEvidence == [polled |-> None, version |-> None, sunset |-> None]
NoSnapshot == [continuity |-> FALSE, polled |-> None, next |-> None, version |-> None,
               day |-> None, ok |-> FALSE, sun |-> FALSE]

Fresh(source) ==
  [source |-> source, state |-> "UNVERIFIED", highWater |-> None, wsHighWater |-> None,
   verified |-> None, evidence |-> NoEvidence, deadline |-> None, day |-> None,
   baselined |-> FALSE, urgent |-> FALSE, same |-> FALSE, wake |-> FALSE, lost |-> FALSE]

-----------------------------------------------------------------------------
(* The authority's state as functions of it, composed as the code does     *)

\* Mutant: the numbers of the old epoch survive an invalidation.
RetiredButRemembered(q, wake) ==
  [q EXCEPT !.state = "UNVERIFIED", !.evidence = NoEvidence, !.deadline = None, !.day = None,
            !.verified = None, !.urgent = q.urgent \/ wake, !.same = FALSE,
            !.wake = q.wake \/ wake, !.lost = TRUE]

\* _invalidate_solar_provider
Retired(q, wake) ==
  [Fresh(q.source) EXCEPT !.urgent = q.urgent \/ wake, !.wake = q.wake \/ wake, !.lost = TRUE]

\* _refresh_solar_provider_source
Refreshed(q) ==
  IF configured = q.source THEN q ELSE Retired([q EXCEPT !.source = configured], TRUE)

\* Mutant: a snapshot is judged whatever happened since it was begun.
AnyEpoch(q, snap) == snap.continuity

\* The snapshot was begun in the epoch of today's state.
SameEpoch(q, snap) == q.same /\ snap.continuity

Evidence(snap) ==
  [polled |-> snap.polled, version |-> snap.version,
   sunset |-> IF snap.sun THEN snap.day ELSE None]

\* _solar_provider_payload_valid: trusted, regular and covering the rest of today.
PayloadValid(snap, now) == snap.ok /\ snap.sun /\ snap.day = Day(now)

\* _solar_provider_metadata_loss_only
MetadataLossOnly(q, snap) ==
  /\ q.evidence # NoEvidence /\ ~snap.sun
  /\ [Evidence(snap) EXCEPT !.sunset = None] = [q.evidence EXCEPT !.sunset = None]

\* Mutant: an early success discharges the outstanding promise.
DischargedBySuccess(q, snap, now) == snap.next

\* Only a success at or after it discharges an outstanding promise.
Discharged(q, snap, now) ==
  IF q.deadline = None \/ (now >= q.deadline /\ snap.polled >= q.deadline)
    THEN snap.next ELSE q.deadline

\* A promise may only be brought forward by a later reading of it.
Shortened(q, next) ==
  IF next = None \/ q.deadline = None THEN q
  ELSE [q EXCEPT !.deadline = IF next < q.deadline THEN next ELSE q.deadline]

\* The snapshot is of an older poll than the proof of its epoch.
Older(q, snap) == snap.polled # None /\ snap.polled < q.verified

\* _solar_provider_authority_current, which every later dispatch asks again.
Current(q0, snap, now) ==
  LET q1 == Refreshed(q0)
      q == IF q1.day # None /\ Day(now) # q1.day THEN Retired(q1, TRUE) ELSE q1
      due == Shortened(q, snap.next)
      expired == IF due.deadline # None /\ now >= due.deadline
                   THEN [due EXCEPT !.state = "EXPIRED"] ELSE due
      holds == /\ Evidence(snap) = expired.evidence /\ PayloadValid(snap, now)
               /\ snap.next > now
  IN IF ~SameEpoch(q, snap)
       THEN IF q.same THEN Retired(q, TRUE) ELSE q
     ELSE IF Older(q, snap) THEN q
     ELSE IF expired.state # "VALID" \/ holds THEN expired
     ELSE [expired EXCEPT !.state = "UNVERIFIED",
             !.evidence = IF MetadataLossOnly(expired, snap) /\ snap.next > now
                            THEN @ ELSE NoEvidence]

Granted(q, snap) == q.state = "VALID" /\ SameEpoch(q, snap) /\ ~Older(q, snap)

\* The part of _update_solar_provider that judges one coherent reading.
Judged(q0, snap, now) ==
  LET q == [Shortened(q0, snap.next) EXCEPT !.highWater = snap.polled]
      advanced == q0.highWater # None /\ snap.polled > q0.highWater
      expired == q.deadline # None /\ now >= q.deadline
      unchanged == Evidence(snap) = q.evidence
      rejected == \/ snap.next <= now  \* also when there is none
                  \/ ~PayloadValid(snap, now)
                  \/ ~advanced /\ q.evidence # NoEvidence /\ ~unchanged
      consumed == IF advanced THEN [q EXCEPT !.evidence = NoEvidence] ELSE q
      kept == MetadataLossOnly(q, snap) /\ snap.next > now /\ ~expired
  IN IF rejected
       THEN [consumed EXCEPT !.evidence = IF kept THEN @ ELSE NoEvidence,
                             !.state = IF expired THEN "EXPIRED" ELSE "UNVERIFIED"]
     ELSE IF ~q.baselined
       THEN [consumed EXCEPT !.baselined = TRUE, !.day = Day(now), !.state = "UNVERIFIED",
                             !.deadline = IF @ = None THEN snap.next ELSE @]
     ELSE IF advanced /\ Day(snap.polled) # Day(now)
       THEN [consumed EXCEPT !.state = "UNVERIFIED"]
     ELSE IF advanced
       THEN Current([consumed EXCEPT !.deadline = Discharged(q, snap, now), !.state = "VALID",
                                     !.verified = snap.polled, !.evidence = Evidence(snap)],
                    snap, now)
     ELSE Current([q EXCEPT !.state = IF unchanged /\ ~expired THEN "VALID" ELSE @], snap, now)

\* Mutant: an unusable reading wakes the loop for another one.
UpdatedWaking(q0, snap, now) ==
  LET q == Refreshed(q0)
  IN IF ~SameEpoch(q, snap) THEN [q EXCEPT !.state = "UNVERIFIED"]
     ELSE IF snap.polled \notin 1..now THEN Retired(q, TRUE)
     ELSE Judged(q, snap, now)

\* _update_solar_provider
Updated(q0, snap, now) ==
  LET q1 == Refreshed(q0)
      q == IF q1.day # None /\ Day(now) # q1.day THEN Retired(q1, FALSE) ELSE q1
      regressed == snap.polled < Later(q.highWater, q.wsHighWater)
  IN IF ~SameEpoch(q, snap)
       THEN [(IF q.same THEN Retired(q, FALSE) ELSE q) EXCEPT !.state = "UNVERIFIED"]
     ELSE IF snap.polled \notin 1..now \/ snap.version = None \/ regressed
       THEN Retired(q, FALSE)
     ELSE Judged(q, snap, now)

-----------------------------------------------------------------------------
(* The queue and what happens outside                                      *)

\* Mutant: the queue has no maxsize.
PutUnbounded(items, item) == Append(items, item)

\* put_nowait: a full queue loses the item.
Put(items, item) == IF Len(items) < QueueSize THEN Append(items, item) ELSE items

\* The authority becomes q, and the loop is woken if q asks for it.
Becomes(q, items) ==
  /\ p' = [q EXCEPT !.wake = FALSE, !.lost = FALSE]
  /\ queue' = IF q.wake THEN Put(items, "provider") ELSE items

Unsettled(q) == ticks' = 0 /\ success' = (success /\ ~q.lost)
                /\ promise' = IF q.lost THEN None ELSE promise

\* Home Assistant says that an entity of the provider changed.
Announce(event) == wire' = IF connected THEN Append(wire, event) ELSE wire

Outside == UNCHANGED <<clock, connected, p, queue, loop, s, ceiling, promise>>

PollBecomes(new, tracked) ==
  /\ Len(wire) < WireSize
  /\ poll' = new
  /\ Announce([entity |-> "poll", of |-> configured, old |-> poll, new |-> new])
  /\ success' = (success \/ tracked)
  /\ ticks' = 0
  /\ Outside /\ UNCHANGED <<forecast, configured>>

\* The provider succeeds and promises its next update.
PublishPoll ==
  /\ poll.at < clock
  /\ PollBecomes([at |-> clock, next |-> clock + Interval], TRUE)
  /\ NoFault

\* The poll entity is reloaded, withdrawn, or changes its promise.
DisturbPoll ==
  \/ poll.at > 1 /\ PollBecomes([poll EXCEPT !.at = @ - 1], FALSE) /\ Fault("regress")
  \/ poll.at # None /\ PollBecomes([at |-> None, next |-> None], FALSE) /\ Fault("unavailable")
  \/ poll.next > clock + 1 /\ PollBecomes([poll EXCEPT !.next = clock + 1], FALSE) /\ Fault("shorten")
  \/ poll.next # None /\ PollBecomes([poll EXCEPT !.next = None], FALSE) /\ Fault("silent")

ForecastBecomes(new) ==
  /\ Len(wire) < WireSize
  /\ forecast' = new
  /\ Announce([entity |-> "forecast", of |-> configured, old |-> forecast, new |-> new])
  /\ ticks' = 0
  /\ Outside /\ UNCHANGED <<poll, configured, success>>

\* The forecast of a success is an entity of its own and changes apart from it.
PublishForecast ==
  /\ forecast.version # poll.at \/ forecast.day # Day(clock) \/ ~forecast.ok
  /\ poll.at # None
  /\ ForecastBecomes([version |-> poll.at, day |-> Day(clock), ok |-> TRUE])
  /\ NoFault

DisturbForecast ==
  \/ forecast.ok /\ ForecastBecomes([forecast EXCEPT !.ok = FALSE]) /\ Fault("malformed")
  \/ forecast.version # clock /\ ForecastBecomes([forecast EXCEPT !.version = clock]) /\ Fault("rewrite")

\* The settings name another provider, whose entities are as they are.  The
\* handler refreshes the source before the transaction wakes the loop itself.
Reassign ==
  /\ phase \notin {"reading", "read", "decided"} \* configuration_transaction takes the lock
  /\ Fault("reassign")
  /\ configured' = 3 - configured
  /\ poll' \in {poll, [at |-> None, next |-> None]} \cup {[at |-> clock, next |-> clock + Interval]}
  /\ p' = [Retired([p EXCEPT !.source = configured'], TRUE) EXCEPT !.wake = FALSE, !.lost = FALSE]
  /\ queue' = Put(Put(queue, "provider"), "entity")
  /\ ticks' = 0 /\ success' = FALSE /\ promise' = None
  /\ UNCHANGED <<clock, forecast, channel, loop, s, ceiling>>

\* time_changed, and a watched entity that is not the provider's.
Noise(item) ==
  /\ connected /\ Fault("noise")
  /\ queue' = Put(queue, item)
  /\ ticks' = 0
  /\ UNCHANGED <<clock, world, channel, p, loop, s, ceiling, success, promise>>

\* Time passes while the loop sleeps or waits for Home Assistant.
Asleep == phase \in {"waiting", "collecting"} /\ queue = <<>> /\ clock < until
Advance ==
  /\ clock < MaxTime
  /\ Asleep \/ phase \in {"reading", "read", "decided"}
  /\ clock' = clock + 1
  /\ ticks' = 0
  /\ UNCHANGED <<world, channel, p, queue, loop, s, ceiling, success, promise>>
  /\ NoFault

-----------------------------------------------------------------------------
(* The websocket client                                                    *)

\* on_ws_connect after authentication and subscription.
Connect ==
  /\ ~connected
  /\ connected' = TRUE
  /\ Becomes(Retired(p, TRUE), queue) /\ Unsettled([Retired(p, TRUE) EXCEPT !.lost = TRUE])
  /\ UNCHANGED <<clock, world, wire, loop, s, ceiling>>
  /\ NoFault

\* The connection breaks or is refused, undelivered events are lost, and
\* run_forever reports it either way.
Disconnect ==
  /\ Fault(IF connected THEN "disconnect" ELSE "refused")
  /\ connected' = FALSE /\ wire' = <<>>
  /\ Becomes(Retired(p, TRUE), queue) /\ Unsettled([Retired(p, TRUE) EXCEPT !.lost = TRUE])
  /\ UNCHANGED <<clock, world, loop, s, ceiling>>

\* The poll entity's part of on_provider_state_observation.
PollObserved(q, old, new) ==
  LET watermark == Later(old.at, Later(q.highWater, q.wsHighWater))
      seen == [q EXCEPT !.wsHighWater = new.at]
  IN IF new.at \notin 1..clock \/ old.at = None \/ new.at < watermark THEN Retired(q, TRUE)
     ELSE IF new.next = None THEN Retired(seen, TRUE)
     ELSE IF q.deadline # None /\ new.next < q.deadline
       THEN [Shortened(seen, new.next) EXCEPT !.urgent = TRUE, !.wake = TRUE]
     ELSE seen

\* on_provider_state_observation
Observed(q0, event) ==
  LET q == Refreshed(q0)
  IN IF event.of # q.source THEN q
     ELSE IF event.entity = "poll" THEN PollObserved(q, event.old, event.new)
     ELSE IF event.new.version = None \/ event.old.version = None \/ ~event.new.ok
       THEN Retired(q, TRUE)
     ELSE q

\* _handle_message: the observation is taken before the lossy queue.
Deliver ==
  /\ connected /\ wire # <<>>
  /\ LET event == Head(wire)
         q == Observed(p, event)
         shorter == IF event.entity = "poll" /\ event.of = q.source /\ promise # None
                       /\ event.new.next \in 1..promise
                      THEN event.new.next ELSE promise
     IN /\ p' = [q EXCEPT !.wake = FALSE, !.lost = FALSE]
        /\ queue' = LET woken == IF q.wake THEN Put(queue, "provider") ELSE queue
                    IN IF event.of = configured THEN Put(woken, "entity") ELSE woken
        /\ success' = (success /\ ~q.lost)
        /\ promise' = IF q.lost THEN None ELSE shorter
  /\ wire' = Tail(wire)
  /\ ticks' = 0
  /\ UNCHANGED <<clock, world, connected, loop, s, ceiling>>
  /\ NoFault

-----------------------------------------------------------------------------
(* The event loop: run_forever, _drain_queue                               *)

\* _solar_provider_wait_seconds consumes the wake of a deadline once.
Woken(q) ==
  IF q.state = "VALID" /\ clock >= Min({q.deadline, Midnight(clock)})
    THEN [q EXCEPT !.state = "EXPIRED"] ELSE q

Due(q) == q.state = "VALID" /\ clock >= Min({q.deadline, Midnight(clock)})

\* Mutant: the end of the day does not end the wait.
WaitOverMidnight(q, limit) ==
  IF q.state = "VALID" THEN Min({limit, q.deadline}) ELSE limit

\* The wait ends with the authority.
WaitUntil(q, limit) ==
  IF q.state = "VALID" THEN Min({limit, q.deadline, Midnight(clock)}) ELSE limit

StartTick(q, items) ==
  /\ phase' = "reading"
  /\ ticks' = ticks + 1
  /\ LET r == Refreshed([q EXCEPT !.urgent = FALSE])
     IN /\ Becomes([r EXCEPT !.same = TRUE], items)
        /\ success' = (success /\ ~r.lost) /\ promise' = IF r.lost THEN None ELSE promise
  /\ s' = [NoSnapshot EXCEPT !.continuity = connected]
  /\ ceiling' = "none"
  /\ until' = None
  /\ UNCHANGED <<clock, world, channel, lastTick>>
  /\ NoFault

\* The wait is computed; what is already due is not waited for.
Sleep ==
  /\ phase = "idle"
  /\ IF p.urgent \/ Due(p) THEN StartTick(Woken(p), queue)
     ELSE /\ phase' = "waiting"
          /\ until' = WaitUntil(p, Later(clock, lastTick + Heartbeat))
          /\ UNCHANGED <<clock, world, channel, p, queue, lastTick, s, ceiling, history>>
          /\ NoFault

TakeItem ==
  /\ phase = "waiting" /\ queue # <<>>
  /\ LET item == Head(queue) IN
     \/ /\ item = "provider" \/ (item = "time" /\ clock - lastTick >= Heartbeat)
        /\ StartTick([p EXCEPT !.urgent = IF item = "provider" THEN FALSE ELSE @], Tail(queue))
     \/ /\ item = "time" /\ clock - lastTick < Heartbeat
        /\ phase' = "idle"
        /\ queue' = Tail(queue)
        /\ UNCHANGED <<clock, world, channel, p, until, lastTick, s, ceiling, history>>
        /\ NoFault
     \/ /\ item = "entity"
        /\ phase' = "draining" /\ until' = clock + Debounce
        /\ queue' = Tail(queue)
        /\ UNCHANGED <<clock, world, channel, p, lastTick, s, ceiling, history>>
        /\ NoFault

\* A burst is coalesced until its window, a wake or the deadline ends it.
Drain ==
  /\ phase = "draining"
  /\ IF p.urgent THEN StartTick(p, queue)
     ELSE IF Due(p) \/ clock >= until THEN StartTick(Woken(p), queue)
     ELSE /\ phase' = "collecting"
          /\ until' = WaitUntil(p, until)
          /\ UNCHANGED <<clock, world, channel, p, queue, lastTick, s, ceiling, history>>
          /\ NoFault

Collect ==
  /\ phase = "collecting" /\ queue # <<>>
  /\ IF Head(queue) = "provider" THEN StartTick(p, Tail(queue))
     ELSE /\ phase' = "draining"
          /\ queue' = Tail(queue)
          /\ UNCHANGED <<clock, world, channel, p, until, lastTick, s, ceiling, history>>
          /\ NoFault

Timeout ==
  /\ phase \in {"waiting", "collecting"} /\ queue = <<>> /\ clock >= until
  /\ StartTick(p, queue)

-----------------------------------------------------------------------------
(* The tick                                                                *)

Finish ==
  /\ phase' = "idle" /\ lastTick' = clock
  /\ s' = NoSnapshot
  /\ UNCHANGED until

\* Home Assistant answers the read: what it has now, or nothing usable.
FinishRead ==
  /\ phase = "reading"
  /\ \/ /\ phase' = "read"
        /\ \E sun \in BOOLEAN :
             /\ s' = [continuity |-> s.continuity, polled |-> poll.at, next |-> poll.next,
                      version |-> forecast.version, day |-> forecast.day,
                      ok |-> forecast.ok, sun |-> sun]
             /\ IF sun THEN NoFault ELSE Fault("metadata")
        /\ UNCHANGED <<until, lastTick>>
     \/ Finish /\ Fault("unreadable")
  /\ UNCHANGED <<clock, world, channel, p, queue, ceiling, history>>

\* Mutant: the snapshot joins the epoch in which the read ended.
EpochAfterRead(q) == [q EXCEPT !.same = TRUE]

\* The epoch of the snapshot is the one its read began in.
EpochOfRead(q) == q

\* _decide, with the trace that asks for current authority once more.
Decide ==
  /\ phase = "read"
  /\ LET updated == Updated(EpochOfRead(p), s, clock)
         q == Current(updated, s, clock)
     IN /\ Becomes(q, queue)
        /\ ceiling' = IF Granted(updated, s) THEN "planned" ELSE "none"
        /\ success' = (success /\ ~q.lost)
        /\ promise' = IF q.lost \/ ~q.baselined THEN None
                      ELSE IF promise = None
                           \/ (q.state = "VALID" /\ clock >= promise /\ s.polled >= promise)
                        THEN s.next
                      ELSE IF s.next \in 1..promise THEN s.next ELSE promise
  /\ phase' = "decided"
  /\ UNCHANGED <<clock, world, channel, until, lastTick, s, ticks>>
  /\ NoFault

\* Mutant: the dispatch relies on the decision.
AuthorityAsDecided(q, snap, now) == q

\* _recheck_solar_charge_authority after every await of the application.
AuthorityAtDispatch(q, snap, now) == Current(q, snap, now)

Dispatch ==
  /\ phase = "decided"
  /\ IF ceiling = "planned"
       THEN LET q == AuthorityAtDispatch(p, s, clock)
            IN /\ Becomes(q, queue)
               /\ ceiling' = IF Granted(q, s) THEN "commanded" ELSE "none"
               /\ success' = (success /\ ~q.lost)
               /\ promise' = IF q.lost THEN None ELSE promise
       ELSE UNCHANGED <<p, queue, ceiling, success, promise>>
  /\ Finish
  /\ UNCHANGED <<clock, world, channel, ticks>>
  /\ NoFault

-----------------------------------------------------------------------------
Init ==
  /\ clock = 1
  /\ poll = [at |-> 1, next |-> 1 + Interval]
  /\ forecast = [version |-> 1, day |-> 1, ok |-> TRUE]
  /\ wire = <<>> /\ connected = FALSE
  /\ configured = 1
  /\ p = Fresh(1)
  /\ queue = <<>>
  /\ phase = "waiting" /\ until = 1 /\ lastTick = 1  \* the startup cycle
  /\ s = NoSnapshot
  /\ ceiling = "none"
  /\ success = FALSE /\ promise = None /\ ticks = 0
  /\ faults = 0

Next ==
  \/ PublishPoll \/ DisturbPoll \/ PublishForecast \/ DisturbForecast \/ Reassign
  \/ \E item \in {"entity", "time"} : Noise(item)
  \/ Advance
  \/ Connect \/ Disconnect \/ Deliver
  \/ Sleep \/ TakeItem \/ Drain \/ Collect \/ Timeout
  \/ FinishRead \/ Decide \/ Dispatch

Spec == Init /\ [][Next]_vars

-----------------------------------------------------------------------------
Phases == {"idle", "waiting", "draining", "collecting", "reading", "read", "decided"}
Instants == 0..(MaxTime + Interval)
Polls == [at : Instants, next : Instants]
Forecasts == [version : Instants, day : Instants, ok : BOOLEAN]

TypeOK ==
  /\ clock \in Times
  /\ poll \in Polls /\ forecast \in Forecasts
  /\ Len(wire) <= WireSize /\ connected \in BOOLEAN
  /\ configured \in {1, 2}
  /\ p \in [source : {1, 2}, state : {"UNVERIFIED", "VALID", "EXPIRED"}, highWater : Instants,
            wsHighWater : Instants, verified : Instants, deadline : Instants, day : Instants,
            evidence : [polled : Instants, version : Instants, sunset : Instants],
            baselined : BOOLEAN, urgent : BOOLEAN, same : BOOLEAN, wake : {FALSE}, lost : {FALSE}]
  /\ Len(queue) <= QueueSize
  /\ phase \in Phases /\ until \in Nat /\ lastTick \in Times
  /\ ceiling \in {"none", "planned", "commanded"}

\* A ceiling taken from the forecast is commanded only after the provider
\* succeeded again since the last discontinuity, before every update it is known
\* to have promised and not met, and with a forecast and a poll of this day.
CeilingProven ==
  [][ceiling' = "commanded" /\ ceiling # "commanded" =>
       /\ success' /\ connected
       /\ clock < promise'
       /\ s.day = Day(clock) /\ Day(s.polled) = Day(clock)]_vars

\* A sleeping loop is asked for nothing, and wakes no later than the authority
\* ends: a wake is not lost with a full queue, nor a promise that was shortened
\* while the loop slept.
WakesInTime ==
  Asleep => /\ ~p.urgent
            /\ p.state = "VALID" => until <= p.deadline /\ until <= Midnight(clock)

\* The loop does not keep itself awake: while nothing happens outside, a source
\* that stays unusable is read no more often than there were reasons queued.
NoBusyLoop == ticks <= QueueSize + 2
=============================================================================
