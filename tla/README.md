# TLA+ verification of the SigEnergy optimizer

The optimizer (`app/`) reads a home battery, solar and tariff snapshot from Home
Assistant (HA), decides an inverter mode and its power limits, and applies the
decision through HA service calls that may be refused, ignored, late or
cancelled. This directory holds TLA+ models of its control core, the TLC runs
that check them and TLAPS proofs of the properties that matter most. Line
numbers refer to `src/app/optimizer.py` unless another file is named.

| Module | What it is |
| --- | --- |
| `MscExport` | how one decision reaches the inverter: the MSC/export barrier, its hold, fallback, reuse and maintenance |
| `MCMscExport` | the decision sets (policies) of its runs |
| `MscExport_proofs` | type correctness, barrier exclusion, target before discharge, no discharge under the ceiling, every opening redeemed |
| `Settlement` | the accepted restrictive settlement: a close that is waited for across ticks |
| `Settlement_proofs` | type correctness, one budget for one close, a new proof before an opening, nothing left permitted late |
| `StorageWorker` | the database thread: admission, queue, detached waits, shutdown |
| `StorageService` | what callers may rely on, implemented by `StorageWorker` |
| `MCStorageWorker` | its callers, for TLC |
| `ImportLedger` | the import-cost ledger between the tick, the worker and the database |
| `ImportLedger_proofs` | type correctness, intervals counted once, events retained, a trusted day complete |
| `SolarProvider` | the forecast provider's authority over the charge ceiling, with the websocket client and the waits of the event loop |
| `SolarProvider_proofs` | type correctness, waking in time, no busy loop, commands that rest on proof |
| `Qualification` | what advancing telemetry earns: solar re-entry (budget, charge), evening boost, the dip hold |
| `Qualification_proofs` | type correctness, permissions earned over an uninterrupted interval, latches released by them, a hold that rests on a measurement |
| `Control` | who controls the inverter: the operator's selector, API requests, ticks, configuration changes and their lock |
| `Control_proofs` | type correctness, ownership of automatic and manual writes, one configuration |
| `PhysicalRelief` | the charge ceilings raised on measured export, of the solar fill and of Morning Slow |
| `PhysicalRelief_proofs` | type correctness, every rise earned by the reports after the last change |
| `DecisionTrace` | the 24-hour archive of decision rows: its writer, downloads, stop and recovery |
| `Storage_proofs` | of `StorageWorker`: type correctness, exact counters, the ledger's slot, the refinement; of `DecisionTrace`: its shape, rows kept once, views that stay, gaps told |
| `MCImportLedger`, `MCSolarProvider`, `MCQualification`, `MCControl`, `MCPhysicalRelief`, `MCDecisionTrace`, `MCSettlement` | their TLC roots |

## 1. Inventory

Each component: its state; its operations; with whom it interacts; what is hard
about it; what makes it correct.

**MSC/export transition and actuator application** (`_apply`,
`_apply_with_msc_proof`, 7969-9814). State: the pending transition
(`_msc_transition`), the baseline, the last accepted export request
(`_number_settlement_requests`), the maintenance candidate
(`_msc_maintenance_epoch`). Operations: apply a decision; hold; fall back; reuse
or maintain a proof; complete. It talks to HA (service calls, live reads), to
the control authority before each dispatch, and is retired by reconnects and
reconfiguration between any two awaits. Correct if the battery never discharges
under the high PV-only ceiling, if a ceiling after a discharge is opened only on
reports later than the requests they confirm, and if a pending handshake does
not wait forever.

**Accepted restrictive settlement** (554-566, 7888-7967, 8577-8612, 9148-9205).
A 15 s budget, kept across ticks, in which an accepted restriction may still be
observed. Timeouts race late reports, reconnects and retries. Correct if one close
gets one budget, if nothing opens again on the proof of a failed attempt, if a
permission does not outlive the deadline, and if every attempt ends.

**Control authority** (3007-3270). Cached ownership, restore after restart,
manual override; stale at the moment of the write it permits. Correct if nothing
is commanded under another owner.

**Event loop** (`run_forever`, `_drain_queue`, `_safe_tick`, `_tick`,
1956-2252; configuration transaction 743-819; manual mode 10147-10254). Trigger
queue, heartbeat, deadlines, the control lock. Bursts, dropped triggers and
cancellation interleave. Correct if a tick always comes, and if no tick mixes
two configurations.

**Websocket and REST clients** (`ha_ws_client.py`, `ha_client.py`). Connection,
subscription and the bounded queue; stateless calls whose result is not evidence.

**Storage worker** (`storage_worker.py`; `_enqueue_storage` 2616-2644). Queue,
two counters, futures, one thread. Callers give up waiting, the factory fails,
shutdown races the thread. Correct if it performs an accepted job at most once,
leaks no slot, keeps one for the ledger and always ends.

**Import ledger and state store** (`import_topup_ledger.py`,
`state_store.py` 243-392; `_reconcile_import_storage` 2646-2675). The last
sample, the applied permission, the pending queue, unknown days, the cached
summary; interval, checkpoint and coverage rows. Acknowledgements are lost, a
day ends between a read and its application, the process ends. Correct if a
history reported complete is complete and no interval counts twice.

**Solar provider authority** (821-1163, 1706-1718). The source, its epoch, the last
verified poll, the promised next update. Websocket events and a REST read race; a
promise is shortened while the loop sleeps. Correct if no ceiling rests on a
provider that has not met its promise, and the loop wakes when authority ends.

**Solar re-entry** (`solar_reentry.py`), **evening boost re-entry** (511-524,
11680-11890), **solar dip hold** (11955-12061). Timed qualifications over reports
that may repeat, stall or go back in time, of two clocks. Correct if each rests on
distinct, later reports that nothing interrupted.

**Morning dump retirement** (8030-8050, 11401-11457). An episode latch: a window
once applied and retired is not opened again.

**Physical relief** (1165-1704 and its rechecks in `_apply`). The earned relief, the
observations of the last command, its readback. Evidence is lost between the
awaits of the write it permits. Correct if the ceiling rises only on what was
observed of the ceiling in force.

**Decision trace store** (`decision_trace_store.py`, `trace_clock.py`). Hourly
segments, status file, index, clock anchor, download views. A crash, a failed
write or a wrong clock falls between any two file operations; views are read while
segments are replaced and pruned. Correct if nothing acknowledged is lost or
doubled, no view changes under its reader and no gap is hidden.

**Policy decision** (`_decide`, 4201-7653): a pure function of the snapshot.
**Evidence recorder, earnings, notifications, configuration, API and UI**: no
control effect of their own, or entered through the control lock.

Interactions: one event loop runs ticks (under `_control_lock`), websocket
callbacks, API requests and storage callbacks; one other thread owns the
database. Every `await` of a tick lets callbacks in, and reports of the inverter
change under it.

## 2. Plan

Modelled: the export barrier, the storage worker with its abstract service, the
accepted restrictive settlement, the import ledger, the provider authority with the event loop's waits, the earned
permissions, control ownership, the physical reliefs and the trace archive. They
are composed where they meet: the worker implements the service its callers rely
on, the ledger runs through the worker's protocol, the provider wakes the loop
through the websocket queue, and ticks, requests and configurations share the
control lock. The other interactions enter as arbitrary inputs: `MscExport` takes
any decision and any control authority, `Qualification` and `PhysicalRelief` any
selection of a policy.

`Settlement` is a module of its own because the settlement would double the clocks
of `MscExport`; it reduces the application to the requests an attempt rests on.

Left: the morning dump's episode latch; an abstract barrier (closed, requested,
proven, open) that both `MscExport` and `Settlement` implement, and an atomic
archive for `DecisionTrace`. Theorems worth proving next: that the barrier
implements the abstract one, and `GapsTold` under a clock that jumps once.

## 3. MscExport

One step is the code between two awaits. `pc` is where the application awaits:
`Read` is `_read_state`, `Begin` the entry of `_apply_with_msc_proof`, `Enter`
its first authority read with the choice between discharge, hold and direct
paths (9223-9339), `Respond` the return of a service call, and each later action
one awaited call of the code, in its order. A dispatch reads the authority
first; refused, failed and ignored calls take the code's own continuation to the
next write, to the fallback or to `Finish*`.

Time is ages: `Tick` makes every age grow, saturating one beyond the freshness
horizon, so that "later than" and "fresh" keep their meaning. `due` (what is
still owed since the last discharge, fallback or retired proof) and `sent` (the
last mode commanded) are history variables; a completion clears `due` only if the
handshake it consumes was redeemed (`Redeem`), so a barrier consumed unproven
stays owed.

What the environment may do is the set `Adversity`: a command `reject`ed,
`ignore`d or carried out late (`lag`); reports `unreadable`, in `silence` or
`slow`; `authority` unreadable; `remote` EMS off; `operator` selection;
`reconnect`, `configure`, `cancel`, `restart`; `drift` (another writer).
`FaultLimit` bounds how often, unless they are `unlimited`.

Assumptions: time does not pass while the inverter still owes a command (the lag
is shorter than the unit of time); a call has taken effect or been lost when its
awaiter resumes or is cancelled. Abstractions: the independent import, ESS and PV
writes are one step (`Rest`, `HoldRest`, `FallbackRest`) that may fail softly; a
decision is its mode and its export limit. Not modelled: manual targets (an
operator ends the application); attempts that outlive a tick are in `Settlement`.

| Property | Says |
| --- | --- |
| `NoDischargeUnderCeiling` | the inverter never discharges under the ceiling |
| `OpeningRedeems` | the ceiling is opened only after a later-reported close and then a later-reported MSC |
| `DischargeAfterTarget` | the discharge mode follows no other export request than its own target |
| `BarrierExcludesPermission` | no baseline or candidate while a handshake is pending |
| `SurplusReopens` | whatever was decided before, once every decision is for surplus the ceiling is opened again and again: no handshake is stuck |

Runs:

- `MscSafety`: surplus and battery-export decisions, any one of nine kinds of
  misbehaviour at any step (1.3 million states). One fault suffices to meet each
  recovery path (hold, fallback, cancelled application, restart, retired proof)
  under a report of either side of its request; horizon 1 already distinguishes
  fresh, equal and stale reports.
- `MscLive` (649 thousand states): fairness, any sequence of surplus and closing
  decisions, one rejected or ignored command, one reconnect, or one
  operator, Remote EMS off or other writer. Horizon 3 is the least in which a
  report, its application and one report period fit.

Charging decisions are in no run, because they break `OpeningRedeems` (section 12).
`Typing`, `BarrierExcludes` and `TargetBeforeDischarge` hold for every decision and
every fault, other writers included; `NeverDischargesUnderCeiling` for every decision,
charging included, and any number of faults of every kind but another writer;
`OpensOnlyRedeemed` for all but the cases of section 12.

Fairness (`FairSpec`): the heartbeat starts ticks (`Cycle`), awaited calls and
waits are bounded (`Application`), time passes, entities report within
`ReportEvery`, and a lagging inverter obeys in the end. The first two are the
code's (`run_forever`, `asyncio.wait_for`), the others what a working
installation does; faults are finite.

## 4. StorageWorker

`Submit` is `submit` under its condition (admission by the two counters);
`GiveUp` a shielded wait that times out; `Deliver` the loop's callbacks; `Close`
and `Opened` the service's shutdown and startup; `OpenStore`, `Take`, `Finish`,
`Release` and `CloseStore` the thread, split where it lets go of the condition,
so that a result is visible before its slot is given back. A refused `submit`
changes nothing and is no action. The operations themselves are opaque: they
return or raise.

`StorageService` is what callers rely on: an accepted call is performed at most
once or dropped unperformed by the shutdown, and its outcome follows.
`ServiceSpec` is the refinement under which `open` is `~stopping` and the
futures are the calls.

`StorageJobs` (75 thousand states): three callers and the ledger share capacity
three, so that the ordinary limit, the ledger's slot and a full queue all occur.
It checks the ledger's slot, the refinement, and that admitted jobs settle and the
thread ends; that the counters are exact is a theorem. Deadlock is not checked
because the service stops. Fairness: a database operation returns, the loop
runs callbacks, startup is noticed, and every tick offers the ledger's job.

## 5. ImportLedger

A tick is `Record` (or `CaptureFails`), `Reconcile`, and the end of its
application: `Confirm` (`set_permission`), `Unconfirmed` (`invalidate`) or
`Abort`. `Look` is the marking that reading `summary` does. `ReadCheckpoint`,
`CommitNext` and `Summarise` are the worker's `_ledger_snapshot`, `Deliver` the
loop's `accept_reconciliation`; the snapshot handed over is immutable, and
`fresh` says whether the ledger's cache key is still the one it was taken under.
`Midnight` and `Restart` fall anywhere. `Operate` is a direct manual mode or a
change of measurement source, which invalidate the accounting under the lock.
A failed database operation may or may not have committed.

Energy is whether the meter shows any; prices, the significance threshold and
the power fallback are left out (a day without a meter is unknown anyway), and
a counter that went backwards is an unavailable one. The permission is changed
by the program only. Revisions of the unknown marks are the sets themselves,
which only grow within a process. The synchronous mode without a worker (tests)
is not modelled.

`due` counts the intervals with import that were measured, `blind` collects the
days with import that nobody measured in time, and `unproven` those whose
midnight found the permission open or unproven; the properties compare what the
code believes with these histories.

| Property | Says |
| --- | --- |
| `TodayTrusted` | when the optimizer trusts today's history, all import of a day that began closed was measured and counted |
| `CountedOnce` | no interval is counted twice |
| `Retained` | the queue lets go of an event only once it is durable; only a process end loses one |
| `Drains` | every queued event becomes durable or is lost with its process |

`ImportToday` (4 million states): two days, two processes, five events each and
one fault of any of ten kinds. Five events are the least that reach a covered
day with a counted interval, a queue of two overflows and holds a partly
acknowledged batch. `ImportLive` (271 thousand states): two faults among refused,
failed and cancelled reconciliations and a crash. Fairness: ticks come and end,
operations return, callbacks run; beyond the bound on events a tick only
reconciles. Deadlock is not checked because the bounds end the behaviours.
`TodayTrusted` leaves out the days of `unproven` (section 12).

## 6. SolarProvider

The forecast may lower the battery's charge ceiling only while its provider is
seen to work. `poll` and `forecast` are the two entities of Home Assistant,
`wire` the websocket events under way, `p` the attributes `_solar_provider_*`,
`queue` the bounded trigger queue and `phase` the place of `run_forever`:
`Sleep`, `TakeItem`, `Drain`, `Collect` and `Timeout` are its waits, `FinishRead`,
`Decide` and `Dispatch` its cycle. `Deliver` is the callback of a websocket
event, which may fall into any of them, `Connect` and `Disconnect` the client's.
Provider and settings publish, are disturbed and are reassigned at any time; a
reassignment retires the authority in its own transaction and wakes the loop.

| Property | Says |
| --- | --- |
| `CeilingProven` | a ceiling from the forecast is commanded only after a success since the last discontinuity, before every promise the provider has not met, and with a poll and a forecast of the day |
| `WakesInTime` | a loop that sleeps has no unserved wake and wakes no later than the authority or the day ends |
| `NoBusyLoop` | while nothing happens outside, the loop makes no more cycles than there were reasons for |

`ProviderTrust` (1.6 million states): two days of three instants, promises of two,
a queue and a wire of one event, so that both overflow, and one of twelve
disturbances. `MaxTime = 5` leaves room for a baseline, a success, the end of its
promise and a midnight. A cycle takes no time of its own, but the clock may
advance at any of its awaits; the 5 s tolerance of skew is none.

Not modelled: a cycle run on demand (`run_once`, `routers/api.py:1186`), after
which the loop sleeps on with the deadline of its earlier wait, a heartbeat at
most; and the shorter wait that `_solar_dip_wait_seconds` asks for.

## 7. Qualification

Four permissions judge when PV and load were last reported, against the wall
clock (which may be set back) and the monotonic one. `Report` is a stream that
reports anew, `Tick` the decision (with the evaluation of the guard), `Dispatch`
the first permissive write with its question whether the proof is still current,
`Finish` the commit of a completed application, `Fail` every other end. The
behaviour follows one `policy`; which of the applications its decision selects is
arbitrary, as are ownership and feedback (`usable`, `context`).

`mark` is the history of the last interruption (another context, clock, unusable
report, pause, failed application), `strong` the measurement a hold may rest on.

| Property | Says |
| --- | --- |
| `PermissionEarned` | a permission that must be earned again is dispatched only after an uninterrupted interval of new reports |
| `LatchReleased` | an armed latch is released only by a completed application of such a permission |
| `HoldRestsOnMeasurement` | a dip is held only while one strong surplus is younger than the hold, and the same reports never renew it |

`Reentry` (2.7 million states): the four permissions, two clocks of five instants,
intervals of two and three, one fault anywhere. The intervals keep the order of
the code's, not their proportions. The charge guard's exception for a full battery
is a selection that is lost.

## 8. Control

`pc` is where the holder of the control lock awaits. A read of the selector is
two (`BeginRead`, then the outcome), and the operator selects, a service call
lands or Remote EMS is switched in between; `Outcomes` are what the reader may
make of it. A tick is `StartTick`, its state read, `Enter`, and any number of
`Ask` with its `Permit` (automatic writes, permissive or restrictive) or the
targets of a preset (`Owned`, `Written`, `Confirmed`). A request is `StartRequest`,
the answer of the selector's service, its refresh, the targets and a last
verification. `Configure` and `Restart` fall between transactions and anywhere.

`intent` is what the operator last meant, `asOf` that as the read in progress
began, `known` what a verified read last showed, `clean` whether every authority
read of the application showed Automated.

| Property | Says |
| --- | --- |
| `AutomaticOwned` | a permissive automatic write is sent only if the newest intent was Automated, with the switch on, when its last read began; a restriction only while no verified read or request showed another intent |
| `ManualOwned` | a preset's target is written only while no verified read has shown something newer |
| `OwnConfiguration` | every write is sent under the configuration its tick read or its request named |

`ControlOwner` (2.5 million states): three modes, two configurations, one waiting
request, two attempts at the mode, one fault of nine kinds; instants 1..3 allow a
selection before, between and after a request and a configuration.

Abstractions: the selector is an `input_select`, whose state does not age; the
data of manual targets and the drift that makes a tick enforce them are
arbitrary; Remote EMS auto-enable is `Switch`; an accepted request for Automated
is not pinned by the code either, and a restart forgets a request not yet landed.
`POST /set_ess` (`routers/api.py:1258`) writes directly and is not modelled.

## 9. PhysicalRelief

While the export is measured at its limit, the charge ceiling is raised step by
step, each step earned by reports later than the last one. `r` is
`_SolarPhysicalReliefState` or `_MorningSlowPhysicalReliefState`; `Tick` is the
decision, `SolarJudged` and `MorningJudged` the two judgements of its snapshot,
`Write`, `Settle` and `Complete` the stretches of `_apply` between the awaits
that question the evidence (`Rechecked`), restore the ceiling and record the
command. `LoseAuthority` is a provider that expires meanwhile, `Fail` any end
without completion. Reports are new or not in either of two streams, the export
and the other flows; the export lies in one of four levels. Times are ages.

The history `earned` counts the export reports that support a rise since the
ceiling last changed or something contradicted, and whether a reduction has to
be made up for.

| Property | Says |
| --- | --- |
| `RiseEarned` | the ceiling rises above its baseline by one step, after two supporting reports (three after a reduction) that came after its last change and, for Morning Slow, after its readback |
| `TypeOK` | also: at rest, the command that observations are taken to be of is the one the inverter was last given |

`Relief` (0.53 million states): both reliefs, a normal request two steps above the
least baseline, one fault of seven kinds. Ages saturate beyond the horizon, so
behaviours are not bounded in time; horizon 1 tells new, old and stale apart. With
it the allowed skew of the flows never binds: reports so far apart are stale.

What the history does not count as a contradiction, because the code deliberately
waits: flows of which only some are new that show the export in its band or no
response (Solar). A retry is forgotten when the state is discarded, and by Morning
Slow in another context. Abstractions: a rise is one step and Solar's reduction
`Reduction` of them (0.4 and 1.2 kW in the code; Morning's measured amounts are
one); normal request, day and capability are the `context`; a change of the limit
is a configuration, which discards everything; Morning's import counts as the
band. Another writer of the ceiling is seen by Morning's readback only.

## 10. DecisionTrace

A pass of the writer is `Capture` on the event loop, then in a worker `Load`,
`Recover`, `CheckTime`/`Prove`, `Select`, `Write`, `Prune` and their failures, under
the store's lock except while queued. Downloads `Reserve` and `Open` a view under
the lock, read it without, and end with `FinishDownload` and `CloseDownload`; `Stop`
waits for all of them. `Crash` loses what was not synced, with or without a reboot.
`rows` are all rows ever decided, `disk` the hourly segments, `flags` the store's
Boolean attributes. A batch is appended `InOrder`; a repair and an expiry are both
`Rewritten` segments, of the rows `Picked` at their `FirstSeen` and `KeptAt` places.

The clock (`ClockMoves`) may run ahead by `Jump` and return. It does so before the
first row, or after another clock has been anchored in the status file: the code
compares a clock with nothing but its anchor, so one that goes wrong between the
first row and the first anchor is taken for the right one, and by it the rows there
are may expire early. That is a limit of the design, not of a step, and the model
states it as an assumption about the environment.

| Property | Says |
| --- | --- |
| `KeptOnce` | what was acknowledged or made durable stays so, once, until it is older than the retention in true time or a copy is preserved |
| `ViewsStable` | the segments of an open view only grow, and the lease is held while one is open |
| `GapsTold` | a view without a gap notice is one session without a hole |
| `Stops` | a stop is carried through |

`TraceArchive` (4.2 million states): four rows in a deque of two, one of them not
serializable, half-hour units with a retention of one, one download, and one
failed write, crash, reboot, lost status, clock jump or missing proof anywhere.
Under two faults, a jump and a failed append, `GapsTold` does not hold: the clock
jumps and returns between cycles, the rows before and after are appended as one hour,
the append of the hour between fails, and a download that opens then shows its
neighbours without it and without a notice; the next pass retries from the deque.
`TraceStops`: two downloads and one fault, under the fairness of the workers and of
the download deadline; with smaller bounds, because only the order of the jobs
matters.

Abstractions: the lock-free time of a row is a tick; a view's reading in chunks is
one step; the worker's 16 slots never bind with four downloads and are left out;
the reason of a gap in the status is left out because another session always
notes one; the first clock reading is trusted, as in the code. At the edges: after
a failed prune `_lengths` may exceed a file, so a later append can enter the range
of an open view (`ViewsStable` says that its bytes only grow); an `OSError` while a
download is reserved during a stop is a server error.

## 11. Settlement

A close that HA accepted and the inverter has not reported yet may be waited for,
across ticks, until 15 s after the application that requested it began.
`attempt` is `_accepted_restrictive_settlement`, `retry` the episode an expired
one leaves, `tr`, `baseline` and `request` the barrier, `budget` the deadline the
application carries on with. `LoopTick` and `ApiTick` begin a tick; `Enter` is the
application up to its branch: `NotAutomated`, `Resume` when an attempt is
outstanding, or `Primary`. `Prove`, `OrdinaryRest` and `OrdinaryOwn` observe the
attempt, `GiveUp` and `Restrict` end it, `Hold*`, `Fallback*` and `SettleClose`
lead to `Begin`, which makes one. The others open and close the grid as in
`MscExport`. `Sound` with `Contradicts` is `_accepted_restrictive_error`, `Barred`
its retirement, `BudgetCurrent` `_accepted_budget_current`, `LoopWait` the wait the
loop chooses.

The environment reports the last command or what it showed before, lets time
`Pass`, and once misbehaves: `reject` (a call fails, carried out or not),
`unread`, `authority`, `operator`, `remote`, `reconnect`, `configure`, `raise` (an
exception or a cancellation). `api` permits cycles on demand beside the loop.

`owed` is the history of what an opening still needs since a proof was lost.

| Property | Says |
| --- | --- |
| `OneBudget` | one close request is waited for once, within a budget no younger than the request |
| `ReopensOnNewProof` | after an attempt that failed, expired or was cut off, the ceiling needs a new close that was reported and then a new MSC that was reported |
| `LateNotKept` | an application whose deadline passed while it worked leaves no permission: the grid was told to close, or the barrier is up |
| `AttemptEnds` | every attempt is proven, fails or expires |

`Attempts` (848 thousand states): surplus, closing and discharging decisions, tick
after tick, one fault of any kind and any number of API cycles. Times are in
rechecks of one second: `Budget = 2` tells the start, the middle and the end of a
budget apart (ages saturate there, since only "within the deadline" is asked), and
`Heartbeat = 1` is any wait longer than none; longer ones only delay the next tick.
Behaviours are not bounded in time. Fairness: awaits of the application are bounded
(every service call and settlement wait has a timeout), time passes, and the loop
runs when its wait is over.

Abstractions: a tick reads, decides and enters its application in one step;
there is no maintenance candidate, which never meets an attempt; the reader is
live and the freshness horizon is longer than a budget, so a report is only earlier
or later than the last request of its entity; the independent writes are one step.

## 12. Divergences

Where the code does other than its documents or comments say. The runs leave
these cases out, and say so; each was found as a counterexample to the quoted
sentence.

- A charge command (9443-9452) leaves a pending handshake and its boundaries in
  place: a report of MSC from before it redeems the opening, although
  `docs/CONTROL_CONTRACT.md:157-159` says that feedback from before a changed
  command cannot. `MscSafety` has no charging decisions.
- A fallback (8667) whose close is refused while Remote EMS is off or an operator
  owns control, and whose MSC request is not, gives the new barrier an identity
  without a close boundary; compare the comment at 8623. `MscSafety` has neither
  Remote EMS changes nor operators.
- An ordinary closed completion (9674-9679) consumes a handshake that a reconnect
  retired while it ran, and the next surplus opens without one; compare
  `docs/CONTROL_CONTRACT.md:160-164`. `MscSafety` has no decision that only closes.
  This and the two cases above are the ones `Undiverted` excludes.
- The ledger is told that its job is over (`storage_worker.py:139`) before the slot
  is given back, so its reserved slot may be missing for a moment;
  `docs/STORAGE_EXECUTION_ISOLATION.md:66` says that it retains one.
  `AccountingSlotKept` speaks of a ledger with no job in the worker.
- The permission confirmed just after midnight (`import_topup_ledger.py:147`,
  249-251) is taken for that of the last sample before it, so a day that began with
  an unproven permission is covered; `docs/IMPORT_LEDGER_INTEGRITY.md:72` says
  unknown. `TodayTrusted` leaves these days out.
- The mark of the day a process end interrupted (`import_topup_ledger.py:320`)
  becomes durable only with the second event of the next process; a second end
  before it loses the mark (same line of the document). Only today's coverage is
  read by the program.
- A cycle on demand (`run_once`, 2100; `routers/api.py:1186`) can begin an attempt
  while `run_forever` stays in the wait it chose before (1998-2015), up to the
  heartbeat of 60 s; `docs/CONTROL_CONTRACT.md:769` says that while an attempt is
  pending the event loop caps idle waits at one second. The attempt expires by its
  deadline all the same (`AttemptEnds`).
- A reconnect during the last awaits of an unreported ordinary close (9198-9203)
  retires the attempt, and the assertion of `_accepted_restrictive_pending_result`
  (7957) fails: the cycle fails closed, with an empty error. `OrdinaryOwn` models
  it.
- An exception while `_safe_fallback` reads the authority, after a handshake was
  consumed past its deadline, leaves the baseline; `LateNotKept` speaks of
  applications that return. A completed closed decision also ends what is owed
  (9674-9679), so `ReopensOnNewProof` does not cover an opening after one.
- A block request that the operator supersedes at the selector still stores its
  limits as overrides (10235), and a block selected later in Home Assistant starts
  from them; compare the comment at 10190. `Control` leaves the overrides out.

## 13. Proofs

Every theorem is for all values of the constants, from the named assumptions of
its module (`MscExportAssumption`, `StorageWorkerAssumption`, `DecisionTraceAssumption`,
`ImportLedgerAssumption`, `ControlAssumption`, `SettlementAssumption`, `QualificationAssumption`,
`SolarProviderAssumption`, `PhysicalReliefAssumption`).

- `Typing` (`TypeOK` of `MscExport`). The inductive invariant `TypeInv` adds that
  the awaited call is one the code can make at that place; one lemma per action.
- `BarrierExcludes` (`BarrierExcludesPermission`): every action that makes a
  transition pending clears baseline and candidate, and completion, the only
  place that grants them, consumes it. Needs the type invariant for the places.
- `TargetBeforeDischarge` (`DischargeAfterTarget`). An action property; its
  invariant `TargetPrepared` says that from the write of a discharge target to
  the mode command the request still holds that target.
- `NeverDischargesUnderCeiling` (`NoDischargeUnderCeiling`), from
  `"drift" \notin Adversity`. The property is about the inverter, which obeys late and
  silently, so it is not inductive; `Apart` says that a discharge and the ceiling are
  not done, told or under way at once (`MayDischarge`, `MayOpen`). An opening ends
  the discharge first: a report of MSC later than the MSC command it rests on shows
  that nothing of it is left to come (`Ended`, for the boundary of a handshake and
  for the direct path's, `Asserted`). A discharge ends the opening first: a report
  of its target later than the request shows what the inverter keeps (`ExportShown`),
  and `TargetPrepared` that this request is the last. `Carried` says which
  application an awaited call belongs to. A tick finds the inverter settled, which is
  what makes "later" mean "afterwards".
- `OpensOnlyRedeemed` (`OpeningRedeems`), from `Undiverted`: no loss of Remote EMS and
  no operator, no charging decision, and no reconnect where a decision only closes;
  without any one of these the property fails (section 12). `Owing` ties the history
  to what the barrier claims. A handshake of the current reader with an accepted
  close no longer owes the request, one in its MSC phase owes at most its report
  (`Claims`); a report or snapshot later than a boundary leaves nothing owed before
  it (`Shown`). An application enters with a handshake of its own reader or one its
  snapshot cannot close (`Entering`), so no proof changes hands, and each command
  finds the phase that it binds (`Binding`). Past the choice of the direct path the
  handshake is redeemed or absent (`Proceeding`), until the opening or the completion
  that consumes it; only a surplus decision borrows one (`Borrowing`). The only
  command for the ceiling is `Open` (`OthersNeverOpen`).
- `WorkerTyping`, `CountersStayExact`, `LedgerSlotKept`. `Inv` relates the thread
  to its job (`ThreadOK`), the queue to pending futures without repetition
  (`QueueOK`), the total to both (`Exact`), and the ordinary count to the ledger's
  own job until shutdown (`LedgerShare`); without the last one the reserve is not
  inductive. That `ordinary` is the number of ordinary jobs needs a bijection
  between the positions of a queue and of its tail (`TailOrdinary`).
- `WorkerImplementsService`: the refinement, step by step, from `Inv`.
- `ControlTyping`, `AutomaticWritesOwned`, `PresetWritesOwned`, `OneConfiguration`.
  The properties speak of the operator's intent, the code only of a mode, a pin and
  two instants; `Inv` says how they correspond. The newest intent is the pinned
  request exactly as long as the selector's change is not newer than the request
  and the configuration (`IntentOK`, with `Past`: nothing is newer than the clock),
  and a read in progress still shows the intent it began with (`ReadOK`). From both,
  `EndReadFacts`: a read that contradicts a pin either ends it and shows the newest
  intent or is hidden by it. While a preset's targets are written, a pin that is left
  is the preset's and was verified (`OwningOK`); automatic writes begin without one,
  what is remembered is what was verified, and authority once lost is revoked for
  the rest of the application (`ApplyingOK`). A transaction keeps the configuration
  it began with (`JobOK`). Each lemma `...Inv` is one action or one kind of read.

- `LedgerTyping`, `IntervalsCountedOnce`, `EventsRetained`. `Inv` relates the job to
  the queue (`HeadOfQueue`): acknowledged and remaining work are together a prefix of
  it, and what is acknowledged is durable. So the event a transaction commits is one
  the queue still owes (`NextOfWork`, `CountedCommit`), and the heads an answer
  retires are durable (`RetiredDurable`). The steps of counting compare the positions
  an interval may still be owed from (`OwedAt`): queueing adds one, a commit removes
  one, an answer only shifts them (`OwedDeliver`, an injection).
- `TodayIsComplete` (`TodayTrusted`). `Trust` says what is known of a day without a
  mark that began closed (`CleanDay`): the permission is known, import under way is
  covered by `applied` or `tail`, so the next measurement counts it, nothing of the
  day is blind, and what is due is counted or owed (`NoneLost`, the converse of
  `CountedOnce`, which needs that no two events share an identity, `IdsFresh`). A
  known permission is the inverter's (`Permission`), so a day that begins with a
  closed one begins without import. A summary on display has nothing queued behind
  it (`Summary`): every event queued retires it. The proof needs neither the
  coverage table nor a sample of today: within a process no mark is ever removed,
  and a restart marks the day, so a day that is not marked is enough.

- `SettlementTyping`, `OneBudgetEach`. `Rules` says of every place where the
  application awaits something what a new wait may rest on: from the places that lead
  to `Begin`, the last close request has not been waited for and is no older than the
  application's clock (`Requested`). The hard case is the retry of an expired attempt,
  which must not find that attempt's request acknowledged: such an episode has no
  attempt, and its barrier no proof of the current reader and a snapshot that may
  not prove closure, so its hold requests the close anew (`Episode`, `GivenUp`).
- `ProofBeforeOpening` (`ReopensOnNewProof`). `Debt` relates the barrier to the
  history `owed`. Acknowledgements that count belong to the current reader and are
  never of a close from before the loss; a proven handshake owes at most the
  report of its MSC (`Acknowledged`), also while the answer of a binding request is
  still under way (`AckComing`), and a report on display is not owed (`Shown`). An
  opening without a handshake has no barrier, hence owes nothing (`Barriers`), and
  what loses an attempt finds none where the barrier is absent (`Unattempted`).
- `OverdueWithdraws` (`LateNotKept`). The deadline an application carries on is its
  attempt's as long as there is one, and what takes the attempt away under it raises
  the barrier (`Carried`); a wait rests on a barrier or on a grid told to close
  (`Closing`). So whatever returns late without either clears the baseline, and a
  completion looks at the deadline last.

- `QualificationTyping`, `EarnedOverInterval` (`PermissionEarned`), `LatchEnds`
  (`LatchReleased`), `HoldMeasured` (`HoldRestsOnMeasurement`). The properties count
  from the last interruption, a history the code does not keep; `GuardSpan` and
  `BoostSpan` say that what counts began no earlier and has lasted as long as it
  says. The hard case is a pause of the reading, which the code never looks at: it
  is an interruption if the wall clock moved by more than the gap between two ticks,
  while the code compares the monotonic clock with the last new report. The invariant
  closes the difference: the wall clock may only be set back, so the monotonic clock
  ran at least as far since the last evaluation (`guard.clock.mono - guard.clock.wall
  <= mono - wall`), and a report counted then is no newer. So a guard that goes on
  over such a pause has exceeded its gap and starts again. `PlanOK` keeps the
  commitment of a latch behind a granted plan, and `DipOK` identifies a dip's proof
  with the strong measurement the history still trusts. `EvaluatedFacts` and
  `BoostEvaluatedFacts` say what one evaluation returns.

- `TypesCorrect`, `WokenInTime` (`WakesInTime`), `CyclesBounded` (`NoBusyLoop`),
  `CommandsProven` (`CeilingProven`). The property's history (`success`, `promise`)
  follows what the provider published; `IInv` ties the authority to it. The
  deadline it retains is the earliest promise not met (`AuthorityInv`): a report
  may only shorten it, until a success takes its place. A baseline has a day
  and a deadline and only a baseline has evidence of that day (`Consistent`). A
  `VALID` state rests on a success of its continuity (`SuccessInv`), except in a
  snapshot that a later event made old, which the epoch refuses. `AwakeInv` says a
  promise never ends before the wait of a loop that no wake is on its way to. For
  the busy loop, `Reasons` counts what may still start a cycle (the queue, a
  deadline not yet judged, the tick under way): without an outside event a cycle
  uses one up and the judgement at its read adds none (`Bounded`, `Calm`).

- `ReliefTyping` (`TypeOK`), `RisesEarned` (`RiseEarned`). The code counts its
  confirmations in the relief, the property counts reports in a history that no
  relief sees, so the invariant relates the two: whatever the relief confirmed is
  counted, and a report judged while other flows were still old may be confirmed later
  without being counted twice (`Counted`, `Fresh`). What it confirmed came after its
  command or Morning's first readback (`Gated`), which are no older than the change
  of the ceiling and the readback of the history (`Sent`, `Readable`, `ReadSeen`). A
  report on display was taken, and a fall was acted on at once (`Older`, `LowSeen`);
  a reduction not made up for is a retry until the rise that it made dearer is
  decided (`Owing`). `SolarOutcome` and `MorningOutcome` list what one judgement may
  return, `SolarJudgedWell` and `MorningJudgedWell` show that each keeps the invariant
  (`JudgedWell`), and `TickEarns` that this is enough for the tick. The decision
  earns the rise (`Earned`); only its write, or a failure of it, gives the ceiling.
  An observation of Solar may leave new flows untaken because they are no later than
  the command; that these cannot speak against what was counted is the hard case.

- `TraceShape` (`TraceTypeOK`), `RowsAreKept` (`KeptOnce`), `ViewsAreStable`
  (`ViewsStable`), from `ArchiveInv`, for any number of faults of every kind. Unless a
  recovery is due the index is that of the disk and all of it is durable (`IndexOK`);
  what is committed is durable, or need not be kept (`CommittedOK`). A pass writes only
  rows that no segment holds, all of one hour, and a recovery makes what it has seen
  durable (`WorkerOK`, `RecoverOK`), so no row is listed twice. The hard case is the
  clock: pruning trusts it only when it agrees with the anchor, and the status file with
  both (`TrustOK`); an anchor of the clock that is ahead excludes rows on disk that the
  right clock stamped, and a session that could mistake the one for the other has none
  (`RightOK`, `BlindOK`, `SyncOK`, `DoubtOK`). So a row that a trusted clock finds
  expired has been kept for the whole retention in true time (`ExpiredIsLost`). A view
  pins what it opened, and repair and pruning spare what is pinned (`GrownViews`).
- `GapsAreTold` (`GapsTold`), from `"jump" \notin Adversity`: any number of failed
  writes, crashes, reboots, lost status files and proofs. `GapInv` says what a session
  may still promise that has noted no gap: it began the archive (`SureOK`), its last
  capture saw the end of the rows and what it did not see was committed or has expired
  (`CapturedOK`), and before a row that a pass is to write, is committed or is on disk
  there is none it does not know of (`PassedOK`, `SeamlessOK`). What is committed the
  index lists until it expires (`ListedOK`), also while a failed append or prune leaves
  it behind the disk. A capture that misses nothing continues the one before
  (`CaptureTold`), and a batch cut short is a first part of the rows in their order
  (`BatchOrder`). That order is the clock's, which is why the theorem excludes jumps:
  with one the rows of an hour need not be neighbours (section 10), and `TraceArchive`
  checks the property under a single fault.

Only model-checked: liveness (TLAPS has neither ENABLED nor fairness here), and
`GapsTold` with a clock that jumps. Induction over data and RECURSIVE operators are out
of the provers' reach; no module uses them.

## 14. Not modelled

The policy decision (arithmetic over tariffs and forecasts; any decision it may
return is an input), the morning dump's episode latch (section 2), earnings,
notifications, the evidence recorder (grants no authority), configuration
parsing, and the HTTP API and UI beyond mode requests and trace downloads. Each
hazard that no property covers says why in `PROJECT.json`.

## Running

`tlc -config MscSafety.cfg MCMscExport` (and so on: the runs of `PROJECT.json`
name their module and configuration); `tlapm MscExport_proofs.tla`,
`tlapm Storage_proofs.tla`, `tlapm ImportLedger_proofs.tla`,
`tlapm SolarProvider_proofs.tla`, `tlapm Control_proofs.tla`,
`tlapm Settlement_proofs.tla`, `tlapm Qualification_proofs.tla` and
`tlapm PhysicalRelief_proofs.tla`.
