--------------------------- MODULE MotorEvaluation ---------------------------
(***************************************************************************)
(* The alarm/trip evaluation of one motor: MotorEvaluationService, with    *)
(* the calls it makes to StatusTransitionService, CacheService and         *)
(* CommandService.                                                         *)
(*                                                                         *)
(* The backend is one JavaScript thread.  A handler runs without           *)
(* interruption between two awaits, so an action below is the code from    *)
(* one await to the next, and the remote operation that is awaited takes   *)
(* effect in the step that resumes from it.  The exception is the          *)
(* transaction of transitionMotor, whose effect (Commit) is a step apart   *)
(* from the code that runs after it, because other handlers read the row.  *)
(* Any number of handlers may be suspended at their awaits; Tasks are the  *)
(* slots that hold them.  Every map of the service is keyed by motor and   *)
(* no handler touches two motors, so one motor is the whole state.         *)
(*                                                                         *)
(* Timers (grace period, cooldown, lock TTL, Redis TTLs) fire at any time  *)
(* at which the code allows it: durations are not modelled.                *)
(***************************************************************************)
EXTENDS Naturals, FiniteSets

CONSTANTS
  Sensors,          \* the motor_sensor ids of the motor
  Tasks,            \* slots for handlers suspended at an await
  AlarmReadings,    \* motorParams.alarmConsecutiveReadings
  MaxAutoRestarts,  \* motorParams.maxAutoRestarts
  MaxOverruns,      \* bound on locks whose TTL of 200 ms ends before their evaluation does
  MaxCrashes,       \* bound on restarts of the backend process
  MaxFaults         \* bound on rejected database, Redis or broker operations

ASSUME SensorsAssumption == IsFiniteSet(Sensors) /\ Sensors # {}
ASSUME ParamsAssumption  == AlarmReadings \in Nat \ {0} /\ MaxAutoRestarts \in Nat
ASSUME BoundsAssumption  == MaxOverruns \in Nat /\ MaxCrashes \in Nat /\ MaxFaults \in Nat

VARIABLES
  motorStatus,  \* memory: motorStatuses.get(motorId)
  counter,      \* memory: consecutiveCounters, per sensor
  graceTimer,   \* memory: graceTimers.has(motorId), with its Redis key
  cooldown,     \* memory: isInCooldown(motorId)
  lock,         \* Redis: lock:motor:<id> exists
  autoRestarts, \* Redis: state:auto_restart:<id>
  dbStatus,     \* database: motors.status
  sensorRows,   \* database: motor_sensors.status, written alike for all sensors
  openAlerts,   \* database: unresolved alert rows, per type
  task,         \* the suspended handlers
  restartsSent, \* history: restarts published since the last confirmed recovery
  late,         \* history: the handlers whose lock was gone before they were done
  lost,         \* history: what would have ended this alarm was reset, rejected or crashed
  disturbed,    \* history: a transition was overlapped, rejected or lost in a crash
  overruns,     \* how many locks have expired under an evaluation
  crashes,      \* how many times the process has restarted
  faults        \* how many awaited operations have been rejected

memory  == <<motorStatus, counter, graceTimer, cooldown>>
redis   == <<lock, autoRestarts>>
db      == <<dbStatus, sensorRows, openAlerts>>
history == <<restartsSent, late, lost>>
budget  == <<overruns, crashes, faults>>
vars    == <<memory, redis, db, history, disturbed, budget, task>>

Statuses  == {"healthy", "alarm", "shutting_down", "restarting", "disabled",
              "manual_shutdown"}
Readings  == {"normal", "anomalous", "critical"}
AlertOf   == [alarm |-> "motor_alarm", shutting_down |-> "motor_trip",
              disabled |-> "motor_disabled"]
AlertTypes == {"motor_alarm", "motor_trip", "motor_disabled"}

Labels == {"idle", "acquire", "readCount", "commit", "sync", "resolve", "enter",
           "find", "insert", "persist", "release", "resetCounter", "resetCount"}

TaskState == [pc      : Labels,          \* the await the handler is suspended at
              locked  : BOOLEAN,         \* it holds the motor lock
              sensors : SUBSET Sensors,  \* the sensors it still has to deal with
              reading : Readings,        \* pushReading's classification
              target  : Statuses,        \* toStatus of the transition under way
              count   : Nat]             \* restartCount as it was read

\* A handler that waits for the lock with a reading, or that clears counters.
Waiting(label, sensors, reading) ==
  [pc |-> label, locked |-> FALSE, sensors |-> sensors, reading |-> reading,
   target |-> "healthy", count |-> 0]

\* A handler inside the evaluation, with or without the lock.
Inside(label, locked, target, count) ==
  [pc |-> label, locked |-> locked, sensors |-> {}, reading |-> "normal",
   target |-> target, count |-> count]

Idle == Waiting("idle", {}, "normal")

CounterCap == 2 * AlarmReadings  \* counters are compared with at most this value

-----------------------------------------------------------------------------
(* How a handler moves from one await to the next. *)

At(t, label) == task[t].pc = label

Set(t, handler) == task' = [task EXCEPT ![t] = handler]

Goto(t, label) == Set(t, Inside(label, task[t].locked, task[t].target, task[t].count))

\* The evaluation returns; a handler that took the lock goes on to the finally block.
Return(t) ==
  Set(t, IF task[t].locked THEN Inside("release", TRUE, "healthy", 0) ELSE Idle)

\* A handler inside a transition: triggerTrip, triggerAlarm or recoverFromAlarm.
Moving(h) ==
  h.pc \in {"readCount", "commit", "sync", "resolve", "enter", "find", "insert", "persist"}

Resetting(h) == h.pc \in {"resetCounter", "resetCount"}

\* A transition that will take the motor out of its alarm, or start the alarm's timer.
Tripping(h) ==
  \/ h.pc = "readCount"
  \/ /\ h.target \in {"shutting_down", "disabled"}
     /\ h.pc \in {"commit", "sync", "find", "insert"}

Arming(h) == h.target = "alarm" /\ h.pc \in {"find", "insert"}

\* The evaluations that hold the lock, or once held it.
Locked == {t \in Tasks : task[t].locked}

-----------------------------------------------------------------------------
(* Initial state: a booted backend, a healthy motor, nothing in flight. *)

Init ==
  /\ motorStatus = "healthy" /\ dbStatus = "healthy" /\ sensorRows = "ok"
  /\ counter = [s \in Sensors |-> 0]
  /\ graceTimer = FALSE /\ cooldown = FALSE
  /\ lock = FALSE /\ autoRestarts = 0 /\ restartsSent = 0
  /\ openAlerts = [a \in AlertTypes |-> 0]
  /\ task = [t \in Tasks |-> Idle]
  /\ late = {} /\ lost = FALSE /\ disturbed = FALSE
  /\ overruns = 0 /\ crashes = 0 /\ faults = 0

-----------------------------------------------------------------------------
(* pushReading. *)

\* TelemetryEvaluationService.evaluateReading looks at the motor status when the reading
\* comes in; pushReading runs awaits later and only then tries to take the lock.
ReadingArrives(t, s, r) ==
  /\ At(t, "idle")
  /\ motorStatus \notin {"shutting_down", "restarting"}
  /\ Set(t, Waiting("acquire", {s}, r))
  /\ UNCHANGED <<memory, redis, db, history, budget>>

\* SET NX answers nil: the reading is dropped.
LockBusy(t) ==
  /\ At(t, "acquire") /\ lock
  /\ Set(t, Idle)
  /\ UNCHANGED <<memory, redis, db, history, budget>>

Acquire_NoNX(t) == At(t, "acquire") /\ lock' = TRUE

Acquire(t) == At(t, "acquire") /\ ~lock /\ lock' = TRUE

TripsAtOnce(t) ==
  task[t].reading = "critical" /\ motorStatus \in {"healthy", "alarm"} /\ ~cooldown

\* triggerTrip up to its first await: the grace timer is cleared before anything else.
BeginTrip(t, locked) ==
  /\ graceTimer' = FALSE
  /\ Set(t, Inside("readCount", locked, "healthy", 0))

ImmediateTrip(t) ==
  /\ Acquire(t)
  /\ TripsAtOnce(t)
  /\ BeginTrip(t, TRUE)
  /\ UNCHANGED <<motorStatus, counter, cooldown, autoRestarts, db, history, budget>>

AlarmThreshold == IF cooldown THEN 2 * AlarmReadings ELSE AlarmReadings

CountAnomaly(t) ==
  /\ Acquire(t)
  /\ task[t].reading # "normal"
  /\ ~TripsAtOnce(t)
  /\ \E s \in task[t].sensors :
       LET count == counter[s] + 1 IN
       /\ counter' = [counter EXCEPT ![s] = IF count > CounterCap THEN CounterCap ELSE count]
       /\ IF motorStatus = "healthy" /\ count >= AlarmThreshold
            THEN Set(t, Inside("commit", TRUE, "alarm", 0))
            ELSE Set(t, Inside("release", TRUE, "healthy", 0))
  /\ UNCHANGED <<motorStatus, graceTimer, cooldown, autoRestarts, db, history, budget>>

ClearCounter(t) ==
  /\ Acquire(t)
  /\ task[t].reading = "normal"
  /\ counter' = [s \in Sensors |-> IF s \in task[t].sensors THEN 0 ELSE counter[s]]
  /\ IF motorStatus = "alarm" /\ \A s \in Sensors : counter'[s] = 0
       THEN Set(t, Inside("commit", TRUE, "healthy", 0))
       ELSE Set(t, Inside("release", TRUE, "healthy", 0))
  /\ UNCHANGED <<motorStatus, graceTimer, cooldown, autoRestarts, db, history, budget>>

\* The finally block: DEL of the key, whoever owns it.
ReleaseLock(t) ==
  /\ At(t, "release")
  /\ lock' = FALSE
  /\ late' = (late \union Locked) \ {t}
  /\ Set(t, Idle)
  /\ UNCHANGED <<memory, autoRestarts, db, restartsSent, lost, budget>>

-----------------------------------------------------------------------------
(* triggerTrip, triggerAlarm, recoverFromAlarm and transitionMotor. *)

ExhaustedAt_OffByOne(count) == count > MaxAutoRestarts

ExhaustedAt(count) == count >= MaxAutoRestarts

ReadRestartCount(t) ==
  /\ At(t, "readCount")
  /\ Set(t, Inside("commit", task[t].locked,
                   IF ExhaustedAt(autoRestarts) THEN "disabled" ELSE "shutting_down",
                   autoRestarts))
  /\ UNCHANGED <<memory, redis, db, history, budget>>

\* The transaction of transitionMotor. An alarm leaves the sensor rows alone.
Commit(t) ==
  /\ At(t, "commit")
  /\ dbStatus' = task[t].target
  /\ Goto(t, IF task[t].target = "alarm" THEN "enter" ELSE "sync")
  /\ UNCHANGED <<memory, redis, sensorRows, openAlerts, history, budget>>

RowsFor_OnlyDisabled(status) == IF status = "disabled" THEN "fault" ELSE "ok"

RowsFor(status) == IF status = "healthy" THEN "ok" ELSE "fault"

SyncSensorRows(t) ==
  /\ At(t, "sync")
  /\ sensorRows' = RowsFor(task[t].target)
  /\ Goto(t, IF task[t].target = "healthy" THEN "resolve" ELSE "find")
  /\ UNCHANGED <<memory, redis, dbStatus, openAlerts, history, budget>>

\* resolveMotorAlerts, then the rest of recoverFromAlarm.
ClearAlarm(t) ==
  /\ At(t, "resolve")
  /\ openAlerts' = [a \in AlertTypes |-> 0]
  /\ motorStatus' = "healthy"
  /\ graceTimer' = FALSE
  /\ Return(t)
  /\ UNCHANGED <<counter, cooldown, redis, dbStatus, sensorRows, history, budget>>

EnterAlarm(t) ==
  /\ At(t, "enter")
  /\ motorStatus' = "alarm" /\ lost' = FALSE
  /\ Goto(t, "find")
  /\ UNCHANGED <<counter, graceTimer, cooldown, redis, db, restartsSent, late, budget>>

\* What runs after createAlert: triggerAlarm arms the grace timer; triggerTrip sets the
\* status in memory and, unless it disabled the motor, hands the restart to the client.
AfterAlert_NoTimer(t) ==
  /\ motorStatus' = IF task[t].target = "alarm" THEN motorStatus ELSE task[t].target
  /\ graceTimer' = graceTimer
  /\ restartsSent' = restartsSent + IF task[t].target = "shutting_down" THEN 1 ELSE 0
  /\ IF task[t].target = "shutting_down" THEN Goto(t, "persist") ELSE Return(t)

AfterAlert(t) ==
  /\ motorStatus' = IF task[t].target = "alarm" THEN motorStatus ELSE task[t].target
  /\ graceTimer' = (graceTimer \/ task[t].target = "alarm")
  /\ restartsSent' = restartsSent + IF task[t].target = "shutting_down" THEN 1 ELSE 0
  /\ IF task[t].target = "shutting_down" THEN Goto(t, "persist") ELSE Return(t)

\* createAlert reads the latest alert of the type. An open one, or one that is recent
\* enough (the throttle: a resolved one, if need be from before the first state), ends the
\* call; otherwise the insert is another await.
AlertSkipped(t) ==
  /\ At(t, "find")
  /\ AfterAlert(t)
  /\ UNCHANGED <<counter, cooldown, redis, db, late, lost, budget>>

AlertWanted(t) ==
  /\ At(t, "find")
  /\ openAlerts[AlertOf[task[t].target]] = 0
  /\ Goto(t, "insert")
  /\ UNCHANGED <<memory, redis, db, history, budget>>

InsertAlert(t) ==
  LET type == AlertOf[task[t].target] IN
  /\ At(t, "insert")
  /\ openAlerts' = [openAlerts EXCEPT ![type] = @ + 1]
  /\ AfterAlert(t)
  /\ UNCHANGED <<counter, cooldown, redis, dbStatus, sensorRows, late, lost,
                 budget>>

\* The broker has acknowledged the restart; persistAutoRestartUsed(restartCount + 1).
PersistRestartCount(t) ==
  /\ At(t, "persist")
  /\ autoRestarts' = task[t].count + 1
  /\ Return(t)
  /\ UNCHANGED <<memory, lock, db, history, budget>>

-----------------------------------------------------------------------------
(* The grace timer: its callback takes no lock. *)

GraceExpires_GivesUpIfLocked(t) ==
  /\ At(t, "idle") /\ graceTimer
  /\ IF motorStatus = "alarm" /\ ~lock THEN BeginTrip(t, FALSE)
     ELSE graceTimer' = FALSE /\ UNCHANGED task
  /\ UNCHANGED <<motorStatus, counter, cooldown, redis, db, history, budget>>

GraceExpires(t) ==
  /\ At(t, "idle") /\ graceTimer
  /\ IF motorStatus = "alarm" THEN BeginTrip(t, FALSE)
     ELSE graceTimer' = FALSE /\ UNCHANGED task
  /\ UNCHANGED <<motorStatus, counter, cooldown, redis, db, history, budget>>

-----------------------------------------------------------------------------
(* The restart as the telemetry consumer reports it.  Its handlers are      *)
(* taken here as one step each (module TelemetryConsumer has their awaits). *)

\* The motor is known to restart, or to have restarted: a command was published, or the
\* broker repeated its retained "online" to a backend that has just booted.
RestartReported == restartsSent > 0 \/ crashes > 0

\* handleRestartProgress: only the rows change, memory keeps its status.
ReportProgress ==
  /\ restartsSent > 0 /\ dbStatus # "restarting"
  /\ dbStatus' = "restarting" /\ sensorRows' = "fault"
  /\ UNCHANGED <<memory, redis, openAlerts, history, budget, task>>

\* resetWindow, which nobody awaits, up to its first await.
StartReset(t) ==
  \E s \in Sensors :
    /\ counter' = [counter EXCEPT ![s] = 0]
    /\ Set(t, Waiting("resetCounter", Sensors \ {s}, "normal"))

\* handleTelemetry: the first reading after the restart makes the motor healthy.
ConfirmHealthy(t) ==
  /\ At(t, "idle")
  /\ RestartReported
  /\ dbStatus \in {"shutting_down", "restarting"}
  /\ dbStatus' = "healthy" /\ sensorRows' = "ok" /\ motorStatus' = "healthy"
  /\ openAlerts' = [a \in AlertTypes |-> 0]
  /\ StartReset(t)
  /\ restartsSent' = 0
  /\ UNCHANGED <<graceTimer, cooldown, redis, late, lost, budget>>

\* One turn of the loop: clearWindow of the last sensor has answered.
ResetNextCounter(t) ==
  /\ At(t, "resetCounter")
  /\ IF task[t].sensors = {}
       THEN Set(t, Waiting("resetCount", {}, "normal")) /\ UNCHANGED counter
       ELSE \E s \in task[t].sensors :
              /\ counter' = [counter EXCEPT ![s] = 0]
              /\ Set(t, Waiting("resetCounter", task[t].sensors \ {s}, "normal"))
  /\ UNCHANGED <<motorStatus, graceTimer, cooldown, redis, db, history, budget>>

FinishReset_KeepsCount(t) ==
  /\ At(t, "resetCount")
  /\ graceTimer' = FALSE /\ cooldown' = TRUE
  /\ lost' = (lost \/ (graceTimer /\ motorStatus = "alarm"))
  /\ Set(t, Idle)
  /\ UNCHANGED <<motorStatus, counter, redis, db, restartsSent, late, budget>>

\* The end of resetWindow: it also clears the timer of an alarm that has come in between.
FinishReset(t) ==
  /\ At(t, "resetCount")
  /\ autoRestarts' = 0
  /\ graceTimer' = FALSE /\ cooldown' = TRUE
  /\ lost' = (lost \/ (graceTimer /\ motorStatus = "alarm"))
  /\ Set(t, Idle)
  /\ UNCHANGED <<motorStatus, counter, lock, db, restartsSent, late, budget>>

-----------------------------------------------------------------------------
(* Time, faults and crashes. *)

CooldownElapses ==
  /\ cooldown /\ cooldown' = FALSE
  /\ UNCHANGED <<motorStatus, counter, graceTimer, redis, db, history, budget, task>>

\* The TTL removes a lock nobody will release, and one held for longer than 200 ms: the
\* evaluation that took it goes on.
LockExpires ==
  /\ lock /\ lock' = FALSE
  /\ late' = late \union Locked
  /\ IF Locked = {} THEN UNCHANGED overruns
     ELSE overruns < MaxOverruns /\ overruns' = overruns + 1
  /\ UNCHANGED <<memory, autoRestarts, db, restartsSent, lost, crashes, faults, task>>

\* An awaited operation is rejected: the exception leaves the evaluation through the
\* finally block. A rejected DEL leaves the lock to its TTL.
OperationFails(t) ==
  /\ faults < MaxFaults
  /\ task[t].pc \notin {"idle", "resetCounter", "resetCount"}
  /\ IF At(t, "release") THEN Set(t, Idle) /\ late' = late \ {t}
     ELSE Return(t) /\ UNCHANGED late
  /\ lost' = (lost \/ (motorStatus = "alarm" /\ (Tripping(task[t]) \/ Arming(task[t]))))
  /\ faults' = faults + 1
  /\ UNCHANGED <<memory, redis, db, restartsSent, overruns, crashes>>

\* restoreEscalationTimers: the key persistEscalationTimer wrote may have expired.
RestoredTimers == {graceTimer, FALSE}

\* The process dies (also by a rejected resetWindow, which no handler catches) and boots:
\* memory is rebuilt from the database, and the grace timer from its Redis key unless the
\* key's TTL of 180 s has removed it. A timer that ran out in between fires during boot.
CrashAndBoot ==
  /\ crashes < MaxCrashes
  /\ motorStatus' = dbStatus
  /\ counter' = [s \in Sensors |-> 0]
  /\ cooldown' = FALSE
  /\ \/ /\ graceTimer' \in RestoredTimers /\ task' = [t \in Tasks |-> Idle]
        /\ lost' = (dbStatus = "alarm" /\ ~graceTimer')
     \/ /\ graceTimer /\ dbStatus = "alarm" /\ graceTimer' = FALSE /\ lost' = FALSE
        /\ \E t \in Tasks :
             task' = [u \in Tasks |-> IF u = t THEN Inside("readCount", FALSE, "healthy", 0)
                                      ELSE Idle]
  /\ late' = {}
  /\ crashes' = crashes + 1
  /\ UNCHANGED <<redis, db, restartsSent, overruns, faults>>

-----------------------------------------------------------------------------

PushReading(t) ==
  LockBusy(t) \/ ImmediateTrip(t) \/ CountAnomaly(t) \/ ClearCounter(t) \/ ReleaseLock(t)

Escalate(t) ==
  \/ ReadRestartCount(t) \/ Commit(t) \/ SyncSensorRows(t) \/ ClearAlarm(t)
  \/ EnterAlarm(t) \/ AlertSkipped(t) \/ AlertWanted(t) \/ InsertAlert(t)
  \/ PersistRestartCount(t)

Reset(t) == ResetNextCounter(t) \/ FinishReset(t)

Step ==
  \/ \E t \in Tasks :
       \/ \E s \in Sensors, r \in Readings : ReadingArrives(t, s, r)
       \/ PushReading(t) \/ Escalate(t) \/ GraceExpires(t) \/ ConfirmHealthy(t)
       \/ Reset(t) \/ OperationFails(t)
  \/ ReportProgress \/ CooldownElapses \/ LockExpires \/ CrashAndBoot

\* What parts the writes of a transition: another transition or a reset beside it, and a
\* rejected operation or a crash in the middle of it (or of a reset).
Disturbance ==
  \/ \E t, u \in Tasks :
       t # u /\ Moving(task'[t]) /\ (Moving(task'[u]) \/ Resetting(task'[u]))
  \/ faults' # faults /\ \E t \in Tasks : Moving(task[t]) /\ task'[t] # task[t]
  \/ crashes' # crashes /\ \E t \in Tasks : Moving(task[t]) \/ Resetting(task[t])

Record == disturbed' = (disturbed \/ Disturbance)

Next == Step /\ Record

Spec == Init /\ [][Next]_vars

\* An awaited operation answers in the end. A due timer fires however many handlers are
\* suspended: strong fairness makes up for the bounded number of slots.
Fairness ==
  /\ \A t \in Tasks : WF_vars((PushReading(t) \/ Escalate(t) \/ Reset(t)) /\ Record)
  /\ SF_vars((\E t \in Tasks : GraceExpires(t)) /\ Record)

FairSpec == Spec /\ Fairness

-----------------------------------------------------------------------------
(* Properties. *)

\* Types of all variables; counters stay within the comparison range of pushReading.
TypeOK ==
  /\ motorStatus \in Statuses /\ dbStatus \in Statuses
  /\ sensorRows \in {"ok", "fault"}
  /\ counter \in [Sensors -> 0..CounterCap]
  /\ graceTimer \in BOOLEAN /\ cooldown \in BOOLEAN
  /\ lock \in BOOLEAN
  /\ autoRestarts \in Nat /\ restartsSent \in Nat
  /\ openAlerts \in [AlertTypes -> Nat]
  /\ task \in [Tasks -> TaskState]
  /\ late \subseteq Tasks /\ lost \in BOOLEAN /\ disturbed \in BOOLEAN
  /\ overruns \in 0..MaxOverruns /\ crashes \in 0..MaxCrashes /\ faults \in 0..MaxFaults

\* The motor lock of pushReading: two evaluations are inside it together only if one of
\* them has lost its key, by the TTL or by another's DEL, and keys are lost under an
\* evaluation only after one has outlived the TTL.
EvaluationMutex ==
  /\ \A t, u \in Locked : t # u => t \in late \/ u \in late
  /\ late # {} => overruns > 0

\* A motor in alarm always has something that will end the alarm: the grace timer, the
\* handler about to start it, or a trip under way (triggerAlarm, triggerTrip). It is lost only by
\* a resetWindow that ends after the alarm began, a rejected operation of that handler or trip,
\* or a boot that finds no timer key.
AlarmIsCovered ==
  motorStatus = "alarm" =>
    graceTimer \/ lost \/ \E t \in Tasks : Tripping(task[t]) \/ Arming(task[t])

\* The persisted restart count never passes the maximum, whatever is interleaved,
\* rejected or lost in a crash (getAutoRestartUsed, persistAutoRestartUsed).
RestartBudget == autoRestarts <= MaxAutoRestarts

\* What the label of a handler says about its transition: which targets an await can
\* have, and that a restart is under way only within the budget that was read.
WellFormed(h) ==
  /\ h.pc = "sync" => h.target # "alarm"
  /\ h.pc = "enter" => h.target = "alarm"
  /\ h.pc \in {"commit", "sync"} =>
       h.target \in {"healthy", "alarm", "shutting_down", "disabled"}
  /\ h.pc \in {"find", "insert"} => h.target \in {"alarm", "shutting_down", "disabled"}
  /\ h.pc = "persist" => h.count < MaxAutoRestarts
  /\ h.pc \in {"commit", "sync", "find", "insert"} /\ h.target = "shutting_down" =>
       h.count < MaxAutoRestarts

HandlersWellFormed == \A t \in Tasks : WellFormed(task[t])

\* Inductive strengthening of RestartBudget.
BudgetInv == TypeOK /\ HandlersWellFormed /\ RestartBudget

\* The awaits of a handler that has not taken the lock, or has given it back.
Outside == {"idle", "acquire", "resetCounter", "resetCount"}

\* A handler gives back only a lock it took, and waits for nothing outside with one.
LockConsistent(h) == (h.pc = "release" => h.locked) /\ (h.pc \in Outside => ~h.locked)

\* Whoever is inside and not late finds the key in Redis.
KeyIsThere == \A t \in Locked : lock \/ t \in late

\* Inductive strengthening of EvaluationMutex.
MutexInv ==
  /\ EvaluationMutex /\ KeyIsThere
  /\ late \subseteq Locked
  /\ \A t \in Tasks : LockConsistent(task[t])

\* The status in memory that goes with a row: handleRestartProgress writes "restarting" to the
\* database alone, and a boot reads it from there.
StatusesAgree ==
  \/ motorStatus = dbStatus
  \/ motorStatus = "shutting_down" /\ dbStatus = "restarting"

\* The sensor rows follow the motor row (transitionMotor) and a motor that is healthy has
\* no open alert (resolveMotorAlerts).
RowsAgree ==
  /\ sensorRows = "ok" <=> dbStatus \in {"healthy", "alarm"}
  /\ dbStatus = "healthy" => \A a \in AlertTypes : openAlerts[a] = 0

\* A transition is four writes (the row, the sensor rows, the status in memory, the alerts):
\* whenever none is under way they agree, until one has been overlapped by another or by a
\* reset, or has been rejected or lost in a crash on its way.
WritesAgree ==
  ~disturbed /\ (\A t \in Tasks : ~Moving(task[t])) => StatusesAgree /\ RowsAgree

\* The evaluation implements the abstract motor: the status in memory takes only its edges,
\* with its restart budget, and every alarm ends.
LifecycleStatus == IF motorStatus = "restarting" THEN "shutting_down" ELSE motorStatus

Lifecycle == INSTANCE MotorLifecycle WITH status <- LifecycleStatus, used <- restartsSent

ImplementsLifecycle == Lifecycle!Spec

\* With any number of handlers, timers and restarts of the backend the steps remain those of
\* the abstract motor until a transition is disturbed: no second restart in one episode, none
\* beyond the budget, and no motor disabled that has not used it.
LifecycleSteps == [][~disturbed' => [Lifecycle!Next]_Lifecycle!vars]_vars

\* No alarm lasts that keeps what will end it (AlarmIsCovered): readings normalise or the
\* motor is tripped or disabled.
AlarmEnds == motorStatus = "alarm" /\ ~lost ~> motorStatus # "alarm" \/ lost
=============================================================================
