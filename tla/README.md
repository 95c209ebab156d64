# Formal models of the telemetry IoT platform

TLA+ modules for the parts of this repository where ordering matters: what the
backend does with the telemetry, status and progress messages of a motor, how
it trips, restarts and recovers the motor, how it judges a sensor faulty and
cures it over the network, how readings reach the database and are condensed
there, how motors are configured, created and deleted, how sessions and demo
accounts live and die, and what the dashboard shows of all this. TLC checks
small instances; TLAPS proves every safety result for every value of the constants.
What the code does not keep under every circumstance is stated with its exceptions by name
(section 3), and no theorem assumes the circumstance away.

Paths below are relative to the repository; `telemetry/` is
`src/backend/src/telemetry/`, `backend/` is `src/backend/src/`, `frontend/` is
`src/frontend/src/`.

## 1. The system

| Component | State | Operations | Talks to |
|---|---|---|---|
| Motor evaluation (`telemetry/motor-evaluation.service.ts`) | maps per motor: status, counters of consecutive anomalies, grace timers, time of the last restart | `pushReading`, `triggerAlarm`, `triggerTrip`, `recoverFromAlarm`, `onGraceExpired`, `resetWindow`, boot | Redis (lock, restart count, grace key), status transitions, command publisher |
| Status transitions (`telemetry/status-transition.service.ts`) | rows of `motors`, `motor_sensors`, `alerts`, history | `transitionMotor`, `transitionMotorSensors`, `transitionSensor`, `createAlert`, `resolveMotorAlerts`, `createSensorFault` | PostgreSQL, event bus |
| Redis state (`backend/cache/cache.service.ts`) | lock of a motor (200 ms TTL), restart count, grace key (180 s TTL), sensor flag (1 h TTL), stuck tracker (10 min TTL), leads | one Redis command each | Redis |
| Telemetry consumer (`telemetry/telemetry-consumer.service.ts`) | `pendingOnlineConfirmation`, `disconnectionTimers` | `handleTelemetry`, `handleStatus`, `handleRestartProgress`, acknowledgements, the watchdog, boot | MQTT, both evaluations |
| Orchestrator (`telemetry/telemetry-evaluation.service.ts`) | thresholds, protection parameters, sensor index | `evaluateReading`, configuration updates, registration of motors | both evaluations |
| Sensor evaluation (`telemetry/sensor-evaluation.service.ts`) | status per sensor, restart timers | `evaluateReading`, `onSensorDisconnected`, `triggerFault`, automatic and manual restart, boot | Redis, database, MQTT |
| Telemetry repository (`telemetry/telemetry.repository.ts`) | buffer, `flushing` | `persistReading`, `flush`, `onModuleDestroy` | PostgreSQL |
| Retention (`telemetry/retention.service.ts`) | aggregates, raw readings, job log | hourly aggregation, purge, sweep of stale alerts | PostgreSQL |
| Command publisher (`backend/command/command.service.ts`) | `pendingCommands` | publish, `trackPending`, `resolveAck`, motors added and removed | MQTT |
| Simulator (`src/simulator/`) | per motor `powered_on`, `shutting_down`, `restarting`, `powered_off`; per sensor a fault mode; the list of motors and its file | telemetry, status, last will, countdown, commands, fault injection, hot reload | MQTT |
| Configuration and provisioning (`backend/config-module/`) | sensor standards, thresholds, protection parameters, overrides; motors and broker credentials | create, delete, change, reset | database, both evaluations, broker files |
| Authentication (`backend/auth/`) | users, refresh tokens, reset tokens | login, refresh, logout, reset of the password | PostgreSQL, mail |
| Landing (`backend/landing/`) | demo users, leads | `subscribe` and its rollback | PostgreSQL, Redis, mail provider |
| Motors and alerts APIs (`backend/motors/`, `backend/alerts/`) | rows of motors and alerts | snapshots, stop, restart, acknowledgement | PostgreSQL, MQTT |
| Realtime gateway (`backend/realtime/`) | rooms | fan-out of events | sockets |
| Configuration page (`frontend/pages/ConfigPage.tsx`) | what it has fetched, the open modal, the forms | fetch after every change of its own, send | APIs |
| Frontend stores (`frontend/store/`, `frontend/services/`) | copy of motors and alerts, the signed-in user, the socket | REST snapshots, events, refreshes | APIs, gateway |
| RAG, pages, dashboards, deployment | none that a protocol depends on | text, presentation | - |

How they interact. The device publishes to the broker; the consumer's handlers
run in one JavaScript thread and are suspended at every `await`; readings go
from the consumer through the orchestrator to the repository's buffer and to
the two evaluations; a trip goes from the evaluation through the transition
service and the command publisher to the device, whose progress and later
telemetry come back to the consumer, which makes the motor healthy and calls
`resetWindow` without awaiting it. The database row, the map in memory and the
keys in Redis describe the same motor and are written at different moments. A
request that changes the configuration writes the database first and the
evaluations' memory after; a motor that is created or deleted is told to the
simulator through one retained message on each of two topics. The browser gets
snapshots over HTTP and events over a socket, which arrive in any relative order.

What is hard: handlers that interleave at awaits; timer callbacks that take no
lock (`onGraceExpired`, the sensor's restart timer, the watchdog); a lock with
a TTL and no owner; promises nobody catches; a process that dies between two
of the writes and rebuilds its memory from the database; commands lost because
the device has no persistent session; retained messages repeated, overwritten
or cleared; read-check-write sequences without a transaction; snapshots that
events have overtaken.

What makes each part correct, in one line each:

- motor evaluation: one evaluation at a time, a bounded number of automatic
  restarts, every alarm ends, memory, row, sensor rows and alerts agree at rest;
- consumer: a motor that falls silent is noticed, a restart concludes, telemetry
  and only telemetry proves health;
- sensor evaluation, on a device: a fault is noticed, there is one automatic
  restart, a persistent fault waits for an operator, no fault lasts by accident,
  no command stays pending without a cause;
- repository and retention: nothing forgotten, nothing out of order, everything
  stored in the end, aggregates exact, nothing purged that is not aggregated;
- configuration: thresholds ordered, memory goes by what the database prescribes, the page
  shows it after its own changes;
- provisioning: rows, credentials, registrations and simulator come to agree;
- authentication: sessions are the cookies that carry them, reuse detection has a
  cause, a reset ends every session, sockets belong to a user;
- landing: no account whose credentials nobody got, what was granted is kept;
- alerts and dashboard: one open alert of a type, one operator per
  acknowledgement, the screen follows the database.

`PROJECT.json` lists the hazards, each at its line, with the properties aimed
at it.

## 2. The modules

| Module | What it is |
|---|---|
| `MotorEvaluation` | one motor: `pushReading` to `resetWindow`, the grace timer, crash and boot |
| `MotorLifecycle` | the abstract motor: five edges, a restart budget, every alarm ends |
| `TelemetryConsumer` | extends `MotorEvaluation` with the consumer, the device and the broker |
| `SensorEvaluation` | one sensor as the backend judges it, with the motor's transitions writing its row |
| `SensorDevice` | extends `SensorEvaluation` with the sensor on its device and the commands between them |
| `TelemetryBuffer` | the repository's buffer |
| `Retention` | extends `TelemetryBuffer` with the hourly job |
| `MotorConfig` | thresholds and protection parameters, in the database and in memory |
| `ConfigPage` | extends `MotorConfig` with the page of an administrator: what it fetches, shows and sends |
| `Provisioning` | motors created and deleted, with the broker and the simulator |
| `Sessions` | refresh tokens, cookies, pages and their sockets |
| `Landing` | signups for demo access, their rollback, and their owners |
| `Dashboard` | alerts, statuses, events and the browser's store |
| `*Proofs` | theorems about the module they are named after: `MotorEvaluationProofs` also about `TelemetryConsumer`, `MotorConfigProofs` also about `ConfigPage`, `SensorProofs` about the two sensor modules, `RetentionProofs` also about `TelemetryBuffer` |
| `MC*` | instances for TLC |

### Granularity

An action is the code from one await to the next. The remote operation that is
awaited takes effect in the step that resumes from it. `Commit` (the
transaction of `transitionMotor`) is a step of its own because other handlers
read the row. A suspended handler or request sits in a slot (`Tasks`, `Slots`):
`pc` names the await it is at, the other fields are the local variables the rest
of its code reads (in `MotorEvaluation`, `target` is `toStatus`, `count` is
`restartCount`, `locked` says that it entered `pushReading` through the lock and
so has a `finally` to run).

`MotorEvaluation`: `ReadingArrives` is `evaluateReading`'s test of the status;
`LockBusy`, `ImmediateTrip`, `CountAnomaly`, `ClearCounter` are `pushReading`
after `acquireMotorLock` has answered, by case; `ReleaseLock` is its `finally`.
`ReadRestartCount`, `Commit`, `SyncSensorRows`,
`AlertWanted`/`AlertSkipped`/`InsertAlert`, `EnterAlarm`, `ClearAlarm`,
`PersistRestartCount` are the awaits of `triggerTrip`, `triggerAlarm` and
`recoverFromAlarm` in the order the code has them. `GraceExpires` is
`onGraceExpired`. `StartReset`, `ResetNextCounter`, `FinishReset` are
`resetWindow`, which nobody awaits, so it runs beside everything else. `LockExpires` is the
lock's TTL, also under an evaluation that is still inside (`MaxOverruns` bounds how often);
`OperationFails` rejects the awaited operation; `CrashAndBoot`
ends the process and runs the boot code. In this module alone, `ReportProgress`
and `ConfirmHealthy` stand for the consumer's handlers, taken in one step.

`TelemetryConsumer` does not use those two: there the handlers have their own
awaits (`read`, `commit`, `sync`, `resolve`, `apply`), the device publishes,
disconnects, restarts and stops, and the retained status is repeated at boot.

`SensorEvaluation`: `PlausibleReading`, `OutOfRange`, `ReadTracker`,
`PersistTracker` are `evaluateReading`; `ReadFlag`, `WriteRow`, `MarkFault` are
`triggerFault`; `TimerFires`, `SetFlag`, `Restore`, `ResetTracker` the automatic
restart, `ManualRestart` and `ClearFlag` the operator's. `SensorDevice` sends it
readings by the sensor's fault mode, splits `Restore` at the broker's
confirmation (`PublishRestart`, `TrackPending`) and carries the command to the
device (`Deliver`, `TakeRestart`, `FinishRestart`, the 5 s sleep of
`handle_sensor_command` between the last two), whose acknowledgement comes back
as `HandleCommandAck`.

`TelemetryBuffer`: `PersistReading`, `FlushTick`, `FlushSucceeds`, `FlushFails`,
`OnModuleDestroy`, `ProcessEnds`. `Retention` gives readings a sensor, an hour
and a verdict and runs `handleRetention` query by query: `CronFires`,
`GroupReadings`, `CountAnomalies`, `Upsert`, `PurgeOldReadings`,
`PurgeOldAlerts`, `LogRun`; `JobFails` rejects any of them; `CronMissed` is an
hour whose minute 5 finds no backend running.

`MotorConfig`: seven requests (`UpdateThresholds`, `ResetThresholds`,
`UpdateSensorStandard`, `UpdateMotor`, `UpdateAlertConfig`,
`UpsertAlertOverride`, `DeleteAlertOverride`), each a chain of queries ended by
the step that changes memory (`ApplyRow`, `ApplyParams`, `ApplyGlobal`); `QueryFails`
rejects any query, before it took effect or after; `Boot` rebuilds memory. `ConfigPage`: `AnswerQuery`, `ShowLoad`, `LoadFails` are `fetchAll`, one query
served at a time; `OpenThresholds`, `OpenRule`, `OpenNewRule`, `OpenOverride`,
`OpenNewOverride` and `Cancel` the modals, `OpenSensorsTab` the form that is filled when its tab
is mounted; `SubmitThresholds`, `SubmitOverride`, `SaveStandard`, `SaveGlobal`, `DeleteRule` and
`DeleteShownOverride` send the requests; `HandleSaved`, `HandleError`, `HandleOverrideCreated`
are what comes after the reply, which `ReplyIsLost`, `QueryFailsUnderPage` and `BootsUnderPage`
keep from the page.
`ServedToPage` and `SentByOthers` are the steps of `MotorConfig`. `Provisioning`: `createMotor` is `CreateMotor`, `Provision`,
`Register`, `PublishAdded`; `deleteMotor` is `DeleteMotor`, `SoftDelete`,
`Unregister`, `PublishRemoved`, `Deprovision`; `CallFails` rejects a query or a publish of
either and `FileFails` lets a credentials file throw, written in part (`Remnants`);
`HandleAdded`, `HandleRemoved`,
`Forget`, `ClearRetained`, `Connects`, `SimulatorRestarts` are the listener of
`src/simulator/main.py` and its file, `ListenerFails` a file error, which ends the listener for
good, and `WriteCut` what a write that does not get to its end has left.

`Sessions`: `SubmitLogin`, `OpenPage`, `Unauthorized`, `ClickLogout`,
`ForgotPassword`, `SubmitReset` are what pages send; `ReadUser` to `RevokeAll`
the queries of `AuthService`; `Answer`, `Refuse`, `LoseReply` what the page makes
of the reply, with the cookie and the socket. `Landing`: `Submit` to `Reply` are
`subscribe`, call by call; `Approach`, `InsertToken`, `ResetPassword` what the
owner of the address does meanwhile.

`Dashboard`: `WriteStatus`/`EmitStatus` and `FindLast`/`InsertAlert`/`EmitAlert`
are `transitionMotor` and `createAlert` with their events;
`FindOpen`/`CloseAlerts`/`EmitClosed` are `resolveMotorAlerts` (by the handler that has
recovered the motor) and the hourly sweep; `InsertFails` and `ClosingFails` reject their
queries; `Resolve` is the operator's acknowledgement. The browser's actions are the
reducers of the two slices and the middleware's socket.

### Abstractions, named

- Every map of the evaluations is keyed by motor (or sensor) and no handler
  touches two, so one motor, or one sensor, is the whole state there.
- Durations are left out: a timer may fire whenever it is armed, a TTL may expire
  whenever the code does not exclude it. In `Retention` the time is the hour, a job
  takes less than one, and a reading is stored before the next minute 5 unless
  `createMany` keeps being rejected.
- Values are classified: `normal`, `anomalous`, `critical`; plausible values of
  a sensor are model values. Counters are capped at the largest number the
  code compares them with. In `MotorConfig` values are natural numbers of a unit of which
  `Hundredth` make 0.01: multipliers of any decimals and rated currents of any size are such
  numbers, and `Effective` rounds as `Math.round` does. Binary fractions are left out.
- `transitionMotorSensors` writes the rows of all sensors in one step;
  `resolveMotorAlerts` is one step with its two queries in `MotorEvaluation` and
  two steps in `Dashboard`. Mixtures of sensor rows are therefore not seen.
- The throttle of `createAlert` is a choice in `MotorEvaluation` and the code's own
  test in `Dashboard`, where an alert ages in three stages.
- The 24 h TTL of the restart count, history rows and the soft deletion of
  motors are left out of the evaluation (the last is in `Provisioning`).
- Further progress messages with `seconds_remaining >= 99` are taken as later
  ones: the row already says `restarting`.
- In `SensorEvaluation` awaits whose effect no property can tell apart (fault and
  alert rows, the command) are joined with the next one. In `SensorDevice` a
  reading is evaluated as soon as it is taken, and only commands wait.
- In `Sessions` there is one user; in `Dashboard` one motor and one browser; in
  `MotorConfig` a motor has one sensor, and two of its four protection parameters.
- In `ConfigPage` one administrator's page stays open throughout, a modal covers the page's other
  buttons, and nothing is opened once the bound on requests is used up. Queries of a
  fetch are served at any time, also right after a restart.
- History variables record what has disturbed the course of things (`late`, `lost`,
  `disturbed`, `slipped`, `carried`, `crossed`, `parted`, `cut`, `displaced`, `rounded`,
  `metaMissed`, `paramsMissed`, `overlapped`, `causes`, `excused`, `granted`, ...). No action
  reads them; properties name through them exactly the cases in which the code does not
  keep a promise. Section 3 says what each of them records.

`onMotorRestarting`, `onMotorHealthy`, `onMotorReactivated` and `resolveAlarm`
are public but nothing under `src/` calls them, so they are not actions. That is
why no action of the model reactivates a motor by hand.

## 3. The runs

| Run | Instance | States | What it shows |
|---|---|---|---|
| `motor_sequential` | 2 sensors, threshold 2, 1 slot | 4.8 k | `ImplementsLifecycle`: without interleaving and failures the code implements `MotorLifecycle`, liveness included |
| `motor_concurrent` | 1 sensor, 2 slots, 1 rejected operation | 854 k | `AlarmEnds` under every interleaving |
| `motor_hostile` | 1 sensor, 2 slots, 1 overrun of the lock, 1 crash, 1 rejected operation | 4.9 M | `EvaluationMutex`, `RestartBudget`, `WritesAgree`, `AlarmIsCovered`, `LifecycleSteps` |
| `consumer_safety` | 2 slots, 1 rejected operation, stalls | 3.1 M | `WatchedUnlessOffline`, `HealthNeedsTelemetry` |
| `consumer_liveness` | 1 slot, 1 crash, lost connections, operators | 139 k | `RestartConcludes`, `TelemetryRestoresHealth` |
| `sensor_device` | 1 slot, 2 values, run of 2, 1 command told apart, 1 crash, 1 rejected operation | 359 k | `OneAutoRestart`, `PersistentIsFinal`, `PendingIsUnanswered`, `FaultsRecoverWhileUp`, `FaultIsNoticed` |
| `retention` | buffer 2, 2 readings, 2 sensors, 3 hours, 1 rejected query, 1 end of the process | 358 k | `NothingForgotten`, `StoredWithoutGaps`, `AggregatesAreExact`, `PurgedAreAggregated`, `EventuallyStored` |
| `motor_config` | 2 motors, a page, 2 requests at once of the page or of others, rejected queries, 1 restart | 1.4 M | `ThresholdsInForce`, `ThresholdsOrdered`, `SettingsInForce`, `PageFollows` |
| `provisioning` | 1 motor of the simulator's own, 3 in all, 3 requests, 2 at once, 2 mishaps | 891 k | `InStep`, `AddIsNotForgotten`, `RestartKeepsMotors`, `RetainedIsServed` |
| `sessions` | 2 browsers, 2 requests at once, 3 tokens, 1 reset, 1 mishap | 2.7 M | `SessionsMatchCookies`, `ReuseHasACause`, `ResetEndsSessions`, `SocketFollowsUser` |
| `landing` | 2 visitors, 2 addresses, 3 accounts, 3 submissions, 1 mishap | 570 k | `NoOrphans`, `GrantedIsLasting`, `LeadsMatchUsers` |
| `dashboard` | 2 handlers, 2 operators, 2 toasts, 2 alerts, three budgets | 1.6 M | `OneOpenPerType`, `AcknowledgedOnce`, `ShownOnce`, `StoreFollows` |

Each asks a question no other run asks; where a module composes an earlier one
(`SensorDevice`, `Retention`, `ConfigPage`) its run checks the earlier one's properties too.

### Bounds, and why they are enough

Two slots show every race of a pair of handlers, and no code path
looks at more than one other handler (through the lock, the row or a map).
One sensor suffices for races, since sensors meet only in the recovery test
"all counters are zero", which `motor_sequential` has with two sensors. A
threshold of 1 lets an alarm happen in one reading; `motor_sequential` has 2,
and 4 in the cooldown, so that counting is seen. One automatic restart is the
default of the code; `consumer_safety` has none, which leaves its two handlers the trip that
disables the motor. One crash, one rejected operation and one overrun of the lock reach every
await of every handler; a second one could only undo what the first left half done.
`StuckReadings` is 2 instead of 20: the code compares with it and does nothing
else. `MaxRestarts` caps a history variable one above what the property allows.
Two readings and a buffer of 2 fill it once and leave two batches to follow each
other; three hours have one to aggregate, one to purge and one to come. Three
motors are one the simulator ships with and two that displace each other's
message. Three tokens are the one without a jti, its successor, and one more
that a race, a second browser or a reuse needs. In `MotorConfig` one motor uses the
standard as it is and with the other's rated current rounding makes two thresholds equal; two requests are one of the page's and one that
disturbs it, or the two that creating an override sends. The budgets of `Dashboard` split
a behaviour's events between alerts, transitions, fetches and lost
connections: alerts among themselves, all four at once, and snapshots against
transitions. The proofs have none of these bounds. Symmetry is declared in runs
without liveness only, for sets whose members nothing distinguishes.

`consumer_liveness` and `sensor_device` run with one slot: one message, timer or request is
dealt with at a time. Two would be millions of states under fairness. What the sensor's
properties say of two handlers (`crossed`) is therefore not seen in its run, only proved; what
the two liveness properties of the consumer say of them is not claimed.

`CHECK_DEADLOCK FALSE` stands in the runs that may really stop: the bounded
readings are stored and the last hour is over, the requests of the bound are
answered and nobody clicks, a device stays without connection.

### What is claimed under which circumstances

The code keeps few of its promises whatever happens. A property therefore says by name, through a
history variable, what may come between, and is checked and proved with all of it in the model.

- `EvaluationMutex`: an evaluation that has outlived the lock's 200 ms, or whose key such a one
  has deleted, is not excluded (`late`, `overruns`).
- `AlarmIsCovered`, `AlarmEnds`: what would end an alarm is lost by a `resetWindow` that ends after
  the alarm began, by a rejected operation of the handler about to start the timer or of the trip,
  or by a boot that finds no timer key (`lost`, which the next alarm clears).
- `WritesAgree`, `LifecycleSteps`: until a transition has another transition or a `resetWindow`
  beside it, or is rejected or lost in a crash on its way (`disturbed`).
- `WatchedUnlessOffline`: a rejected query of a handler that would have armed the watchdog, or the
  transaction of an evaluation over a row that was marked offline meanwhile (`slipped`, until the
  watchdog is armed again).
- `HealthNeedsTelemetry`: a handler that was at work already when "online" was handled (`carried`).
- `RestartConcludes` and `TelemetryRestoresHealth` need no rejected query in the consumer, which
  may leave the motor without a watchdog, and the second needs telemetry that does not stall: after
  a stall nothing but a new "online" brings the motor back.
- `OneAutoRestart`, `PersistentIsFinal`: while the flag's hour lasts, and unless another handler
  tells a fault or restarts the sensor in the middle of the automatic restart (`crossed`, until the
  flag is gone); `FaultsRecoverWhileUp` until a restart.
- `InStep`: motors with a failed or interrupted request, two requests at once, or deleted when the
  backend booted (`parted`); for the simulator lost connections, restarts (`causes`) and failed
  writes of its file (`cut`). `AddIsNotForgotten`: `parted`, `cut`, and motors whose announcement
  another one displaced (`displaced`). `RestartKeepsMotors`: the motor whose removal is under way
  comes back (`Leaving`), those of the simulator's own list do, and `cut`.
- `ThresholdsInForce`, `ThresholdsOrdered`: motors whose requests overlapped (`overlapped`) or
  failed after their write until the next boot (`metaMissed`); after a reset thresholds may be
  equal (`rounded`), never in the wrong order. `SettingsInForce`: before a boot, for parameters
  whose requests did not overlap, motors whose own columns nobody wrote (`edited`) and no failed
  request has missed (`paramsMissed`). `PageFollows`: `behind`.
- `SessionsMatchCookies`, `ReuseHasACause`, `SocketFollowsUser` and the part of `ResetEndsSessions`
  about rejected queries: `causes`; `LeadsMatchUsers` and `NoOrphans`: `excused` accounts and
  addresses; `StoreFollows` and `OneOpenPerType`: `causes`.
- `RestartBudget`, `NothingForgotten`, `StoredWithoutGaps`, `GrantedIsLasting`, `AcknowledgedOnce`
  and `ShownOnce` hold through crashes, rejected operations and overlaps of their models.

That no critical reading trips a motor within the cooldown is not among the properties. The one
test in the code that says so is the guard of `TripsAtOnce`, and what could defeat it does:
`lastRestartTime` is set at the end of `resetWindow`, after a reading may have tripped the motor
again, and is gone after a boot.

### Fairness

Weak fairness on the continuation of a suspended handler: an awaited operation
answers or is rejected. Strong fairness on a timer or a message that needs a
free slot: in the code a due callback is queued and runs however many handlers
are suspended, while in the model the few slots may be taken again and again.
A connected device that is powered on publishes telemetry, takes the commands
it receives and finishes its countdown, and one that is not connected tries
again (`src/simulator/motor_simulator.py`). In `SensorDevice` readings keep coming,
so the motor is not left switched off for ever. In `Retention` the interval of the
flush fires, the database answers in the end, and an application that is closed
is taken down. In `Provisioning` the simulator's listener reads on and
reconnects. No fairness is assumed of operators, of visitors, of lost
connections, of crashes or of rejected calls.

## 4. The proofs

No theorem assumes anything but the named assumptions on the constants in the modules, each as
weak as the code justifies: no bound on handlers, overruns, crashes or rejected operations.

`MotorEvaluationProofs`, for any set of sensors, any slots, thresholds and bounds:

| Theorem | Statement |
|---|---|
| `TypeCorrect` | `Spec => []TypeOK` |
| `BudgetHolds` | `Spec => []RestartBudget` |
| `MutexHolds` | `Spec => []EvaluationMutex` |
| `AlarmCovered` | `Spec => []AlarmIsCovered` |
| `WritesInStep` | `Spec => []WritesAgree` |
| `LifecycleImplemented` | `Spec => Lifecycle!Init /\ LifecycleSteps` |
| `BudgetHoldsWithConsumer` | `ConsumerSpec => []RestartBudget` |
| `MutexHoldsWithConsumer` | `ConsumerSpec => []EvaluationMutex` |
| `HealthFollowsTelemetry` | `ConsumerSpec => HealthNeedsTelemetry` |
| `UnwatchedIsOffline` | `ConsumerSpec => []WatchedUnlessOffline` |

The invariants used, each checked by TLC before it was proved:

- `BudgetInv` adds to the types `HandlersWellFormed`: which targets a handler can
  have at which await, and that a handler on its way to publish a restart carries a
  count below the maximum. `RestartBudget` alone is not inductive, because
  `PersistRestartCount` writes what was read several awaits earlier.
- `MutexInv` adds that a handler inside finds the key in Redis unless it is late, and that only a
  handler inside deletes it. Without the first, `Acquire` could let a second one
  in; without the second, `ReleaseLock` could take the key of one that is not late.
- `AlarmIsCovered` is inductive with `BudgetInv`: it follows the timer through the handlers that
  carry it, `Arming` before and `Tripping` after.
- `SoloInv` says that until a transition is disturbed the one under way is alone (`Alone`), which of
  its four writes (row, sensor rows, memory, alerts) are done at each await (`Stage`), that they
  agree when none is under way, and how the restarts published so far relate to the count in Redis
  and the one a handler carries (`Counted`). `WritesAgree` is its case of no transition. For
  the refinement it gives the step that changes memory the edge it takes: `enter`
  begins healthy, `resolve` in alarm, and `Counted` puts a trip's restart within
  the budget. Every other step stutters in `MotorLifecycle`. Readings, resets and timers of other
  handlers go on beside it.
- `ConsumerInv` is `BudgetInv` with the types of the consumer and `JobMakesSense`,
  which says what kinds of message can be at which stage. The consumer's own steps
  take no lock and change no evaluation (`ConsumerSteps`), except that a confirmation
  starts `resetWindow` in another slot; so `BudgetSteps` and `MutexSteps`, proved of
  the evaluation's steps alone, serve both modules.
- `HeardInv`: a slot that is on its way to declare the motor healthy (`Healing`: a confirmation, or
  an evaluation that waits for the lock or recovers the motor) has begun after telemetry since the
  last "online", or was at work before it.
- `WatchedUnlessOffline` is inductive with `ConsumerInv`: each handler that finds the watchdog off
  is one of those `Watching` names until it has armed it or marked the motor.

`SensorProofs`, for any thresholds, values, commands and bounds:

- `DeviceEvaluates` is `SpecDevice => Spec`: the sensor with its device, broker and
  commands implements the sensor evaluation, step by step. What is proved of
  `SensorEvaluation` therefore holds of `SensorDevice`.
- `OneRestart` is `Spec => []OneAutoRestart`, `PersistentStays` is
  `Spec => PersistentIsFinal`, for any number of handlers, through crashes, rejected
  operations and expiring keys. `RestartInv` says that `crossed` is set whenever another handler
  decides in the middle of an automatic restart, and that until then a restart timer, or a handler
  about to restart, exists only while the flag is not set, and that a handler in
  `restore` nobody asked for belongs to a sensor in `fault`, not `fault_persistent`.
- `PendingUnanswered` is `SpecDevice => []PendingIsUnanswered`, for any number of
  handlers. `CommandsInv`: the `request_id`s of commands that are neither at the
  broker nor tracked yet are all different (`SentApart`), and every command at the
  broker or tracked is waiting in one place or excused (`Accounted`).
- `SensorTyped` types the evaluation.

`RetentionProofs`, for every buffer size, sensors, hours and bounds:

- `NeverForgets` and `NeverGaps` are about `TelemetryBuffer`. `BufferInv` adds that a
  batch exists only while the flag is up, that only received readings are known, and
  that the batch under way continues what is stored (`BatchContinues`); without the
  last a successful `createMany` could leave a gap. `RetentionKeepsReadings` carries
  both over to `Retention`, which deletes rows the repository has written.
- `Aggregates` is `SpecRetention => []AggregatesAreExact`, `Purged` is
  `SpecRetention => []PurgedAreAggregated`. `RetentionInv` has three parts besides the types
  and `BufferInv`. `JobFollows`: the groups a job carries are the stored readings of its
  hour but for late ones, and the sensors it is done with have their aggregate.
  `PurgeFollows`: no reading of the last hour is purged before its own job's purge.
  `HourFollows`: an hour no job has grouped has no aggregate and no late readings.

`ProvisioningProofs`, for any number of motors, slots, requests and mishaps:

- `RestartKeeps` is `Spec => []RestartKeepsMotors`. `FileInv`: the file names the motors that run
  and the one about to be forgotten, but for those whose lines may be lost, and a damaged file
  may have lost every line; `WriteCutKeeps` says what a write that was cut short can touch.
- `StaysInStep` is `Spec => []InStep`, in layers. `RowsTyped` types rows and requests.
  `BackendInv`: at most one request works on a motor that is not parted, the await it is at tells
  which of its writes are done (`Halfway`), and a
  motor without a request is complete or gone. `QueueInv`: the listener never gets a
  motor's removal before its addition. `SimulatorInv`: what the simulator will run
  once it has read its queue (`Fate`) is what it has been told (`Told`). `FollowInv` is
  all of them; an empty queue turns its `Fate` into `InStep`.
- `AddsAreKept` is `Spec => []AddIsNotForgotten`. `NoticesInv`: no motor that exists is
  announced as removed anywhere, and one whose announcement is being cleared runs.
  `AnnouncedInv`: the announcement of a motor that does not run is the retained one, so
  whatever the lost connection took is delivered again.

`MotorConfigProofs`, for any motors, requests, rated currents and thresholds that may
be asked for: `InForce` is `Spec => []ThresholdsInForce`, `StaysOrdered` is
`Spec => []ThresholdsOrdered`. `ConfigInv` has three parts besides the types. `Apart`:
two requests for one target have been noticed in `overlapped`. `MemoryFollows`: memory
lags behind the row by exactly the fields of the request about to apply them, so
merging those gives the row, unless such a request has failed (`metaMissed`). `InOrder`: what
`updateThresholds` checked against a row
read before is still in order when it is written, and what `resetThresholds` computed is not in
the wrong order. `StaysOrdered` rests on
`RoundingKeepsOrder`: `Math.round` of the product with any rated current turns a smaller
multiplier into no larger a threshold. It may make two equal, which is why a reset leaves the
weaker order only.
`SettingsHold` is `Spec => []SettingsInForce`. `SettingsInv` says that a motor whose
parameters in memory are not the ones prescribed has a request that is about to apply
them (`Pending`), and that what this request carries is what the database says by
then (`Carries`); motors whose own columns were written are in `edited`, those a request failed
to reach after its write in `paramsMissed`, and a boot ends it.
`PageShows` is `SpecPage => []PageFollows`, `PageKeepsSettings` the three invariants for
`SpecPage`, whose page sends what it likes of old values. `ConfigInv` and `SettingsInv` are
proved over `Steps`, which both next-state relations imply. `PageInv` adds to the types `Fresh`:
unless a request of the page still owes it a fetch (`Owed`), what the last fetch to begin has
brought so far is what the database has, or else it is marked late; with no fetch under way
what is shown is. The exceptions are in `behind`: another's write, a failed fetch
or reply, a failure or a restart under a request that has written, fetches shown out of their order.

`LandingProofs`, for any visitors, addresses and bounds: `GrantLasts` is
`Spec => []GrantedIsLasting`, `NobodyOrphaned` is `Spec => []NoOrphans`. `GrantInv` says
that addresses are unique among the live accounts and that a signup which has created
an account owns it alone until it is over, so no rollback of another one can delete it.
`OrphanInv` says that every live account is in the hands of such a signup or
accounted for. `LeadsMatch` is `Spec => []LeadsMatchUsers`. `LeadInv` follows an address that
nothing has disturbed through its one signup (`LeadsAt`): which of user and lead exist at each
call, and that a rollback removes the lead only when the user is gone or excused.

`SessionsProofs`, for any browsers, links, requests and bounds: `ResetEnds` is
`Spec => []ResetEndsSessions`. `SessionInv` adds to the live tokens the requests that
will create one: whoever has passed its check holds the password of the day or is
marked as having escaped. While a reset stands between `setPassword` and `revokeAll`
nothing is claimed; `RevokeAll` then establishes everything at once.
`SocketFollows` is `Spec => []SocketFollowsUser`. `SocketInv`: while no requests of a browser
overlap, its page has at most one under way, and a page tidies its socket with its user.
`CookiesAreSessions` is `Spec => []SessionsMatchCookies`, `ReuseIsCaused` is
`Spec => []ReuseHasACause`. `CalmInv` follows each request of an undisturbed browser
(`Stage`): which of the old and the new token live at each query. The tokens of two
browsers are disjoint and every live token is somebody's, so no query of one can revoke
another's, and a token that arrives is never one already revoked.

`DashboardProofs`, for any operators, handlers and bounds: `OneAcknowledges` is
`Spec => []AcknowledgedOnce`, `OneOpen` is `Spec => []OneOpenPerType`. `AlertInv` says that
ids are given out in order, that what was acknowledged is closed, that an open alert is
the last of its type (so the one row `createAlert` looks at is enough), and that none of
a type is open while one is inserted.
`ToastsOnce` is `Spec => []ShownOnce`, `ScreenFollows` is `Spec => []StoreFollows`.
`Followed` types what is on the wire and adds `Following`: unless one of the four causes
has occurred, at most one status event is unsent, it says what the row says, and without one
the last status event on the wire does; with none on the wire the store and the snapshot under
way do. `CopiesSent` keeps this independent of how often the gateway sends an event.

A proof has one step per action; lemmas (`HandlerStep`, `ReturnStep`, `GotoStep`
and their counterparts for each invariant; `RequestAdvances`, `PublishQueues`,
`TakeQueues`) say what replacing one handler, request or queue does.

Every safety invariant and every action property the runs check is stated by one of these
theorems. Model-checked only, because no prover here handles `ENABLED`, which fairness rests
on: `AlarmEnds`, `EventuallyStored`, `RestartConcludes`, `TelemetryRestoresHealth`,
`FaultsRecoverWhileUp`, `FaultIsNoticed`, `RetainedIsServed`, and the liveness half of
`ImplementsLifecycle`, of which `LifecycleImplemented` proves the other half.

## 5. Where code and documentation part

Behaviours of the models that a comment or a document says otherwise of. They are
in the models as they are in the code.

- Motor: every confirmed recovery writes a restart count of 0
  (`telemetry/motor-evaluation.service.ts:210`; `docs/04-anomaly-state-machine.md:70-73`
  has the count lead to `disabled`). A grace timer that expires while a critical
  reading trips the motor publishes a second restart (`:454`; `docs/04:71` "Only 1
  automatic attempt per episode").
- Consumer: telemetry that pauses for longer than the watchdog's window on a live
  connection never restores health (`telemetry/telemetry-consumer.service.ts:376`
  against the comment at `:213`); a lost connection moves a `disabled` motor to
  `manual_shutdown`, and telemetry makes it healthy (`:281`).
- Sensor: boot restores no restart timer (`telemetry/sensor-evaluation.service.ts:54`
  against the comment at `:37`); one silent sensor of a motor that goes on publishing is
  never marked disconnected (`docs/04:97`); readings of the five seconds a restart
  takes (`src/simulator/command_handler.py:77`) make the fault persistent; a command
  that is answered before it is tracked, or lost, stays in `pendingCommands`.
- Configuration: creating an override also saves the whole global configuration as the page
  had it when the override was sent (`frontend/pages/ConfigPage.tsx:873`), over what another
  administrator may have saved since; if that second request fails the new override is not shown.
  The modal of a new rule keeps the first motor's values when another motor is chosen (`:669`).
  Boot ignores the global alert configuration and the overrides
  (`telemetry/telemetry-evaluation.service.ts:92`; `docs/24-config-module.md:41`); a small rated
  current or close multipliers make a reset round two thresholds to the same value, which
  `updateThresholds` would refuse; a query that is rejected after the write leaves memory on the
  old values until the next change or boot (`config-module/motor-config.service.ts:458-465`, `:524-528`).
- Provisioning: boot registers deleted motors again; a motor of the simulator's own
  list returns when the simulator restarts; a motor whose announcement is
  overwritten or cleared in another's place is never simulated. A file that cannot be written or a
  publish that is rejected ends `createMotor` with the row committed
  (`backend/config-module/motor-config.service.ts:150-157`), and a rejected publish keeps the
  credentials of a deleted motor (`:258`). A file error in the simulator ends its listener for good
  (`src/simulator/main.py:158` catches `MqttError` only).
- Sessions: a token that a password reset revoked counts as reuse and ends the new
  sessions as well (`backend/auth/auth.service.ts:93`); a request under way survives
  the reset; nothing closes a socket that was replaced while it was connecting.
- Landing: a reset link or a login that refers to the account keeps the rollback from
  deleting it (`ON DELETE RESTRICT`, `backend/landing/landing.service.ts:107-112`); a
  mail delivered whose answer is lost deletes an account whose credentials were
  mailed; the rollback of one signup removes the lead of another.
- Alerts: `docs/20-retention-guide.md:62` has at most one open alert per motor and type;
  `createAlert` looks, awaits and inserts, so two calls that overlap leave two (`telemetry/status-transition.service.ts:171-192`).
- Dashboard: an operator's acknowledgement sends no event, and the recovery or the sweep
  can overwrite it; the middleware's `reconnect` handler is one that socket.io 4 does not
  call; a toast that was pushed out is shown again by a late seed; an event
  comes once for each room the socket is in.
- Retention: the job aggregates the last hour only (`telemetry/retention.service.ts:128`),
  and an hour it missed is purged all the same; `docs/02-data-model.md:180` has it
  aggregate everything "NOT ... aggregated yet" before the purge. The number of days
  kept differs too (3 there, 7 in the code).

## 6. Not modelled

- RAG and the knowledge base: text assembled around calls of a language model, no state of
  its own beyond rows that are read.
- What pages present, the alert history page, charts, telemetry points and the live
  snapshots in Redis: read-only or replaced at every message.
- Expiry of tokens and rate limits: they only refuse more.
- A signup's `create` that the database commits and answers with an error, a publish the broker
  takes although its answer is an error.
- Counts of sensor faults in the aggregates, what `purgeOldAlerts` deletes, and jobs of
  two hours that overlap.
- Names, locations, MQTT passwords, the noise and episodes of the generated values.
- Grafana, Ansible, Docker: no protocol of their own.

## 7. The plan

Done, in this order: motor evaluation with its abstract lifecycle; the consumer
composed with evaluation, device and broker; the telemetry buffer; the sensor
evaluation; configuration; provisioning; sessions; alerts and the dashboard;
landing; retention composed with the buffer; sensors composed with their
device; the configuration page; the theorems of section 4.

Next, by importance:

1. `AlarmIsCovered` and `WritesAgree` with the consumer's own handlers in place of the stand-ins,
   and the consumer's liveness for two handlers.
2. Sensors under the consumer: the rows of sensors written by both services with the
   motor's own handlers suspended (`SensorDevice` takes the motor's transitions as they like).
3. A browser with several motors and the charts, whose points events may repeat.

Abstract specifications worth stating: a log that only grows with possible
duplicates (for the buffer), a one-shot restart (for the sensor), a request with
one answer (for commands), a session that is revoked once (for authentication).

## 8. Running

    tlc -config MotorSequential.cfg MCMotorEvaluation
    tlapm MotorEvaluationProofs.tla

and so for the other configurations and proof modules; `PROJECT.json` lists
which configuration goes with which module.
