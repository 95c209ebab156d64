--------------------------- MODULE SensorEvaluation ---------------------------
(***************************************************************************)
(* Fault detection of one sensor: SensorEvaluationService, with its state  *)
(* in Redis and its row in the database, which the motor's transitions     *)
(* write too.  Its maps are keyed by sensor and no handler touches two.    *)
(*                                                                         *)
(* As in MotorEvaluation an action is the code from one await to the next, *)
(* and Tasks are the slots of the suspended handlers.  Awaits whose effect *)
(* nothing here can tell (the fault and alert rows, the command) are one   *)
(* await with the next one that matters.                                   *)
(***************************************************************************)
EXTENDS Naturals

CONSTANTS
  Tasks,         \* slots for handlers suspended at an await
  Values,        \* plausible values, rounded to one decimal
  None,          \* the NaN of an empty stuck tracker
  StuckReadings, \* equal readings that make a sensor stuck (20)
  MaxCrashes,    \* bound on restarts of the backend process
  MaxFaults,     \* bound on rejected operations
  MaxRestarts    \* bound of the history of automatic restarts

ASSUME ValuesAssumption == None \notin Values
ASSUME StuckAssumption  == StuckReadings \in Nat \ {0}
ASSUME LimitsAssumption == MaxCrashes \in Nat /\ MaxFaults \in Nat /\ MaxRestarts \in Nat

VARIABLES
  status,       \* memory: sensorStatuses.get(motorSensorId)
  restartTimer, \* memory: restartTimers.has(motorSensorId)
  motorBusy,    \* memory: the motor is shutting_down or restarting
  used,         \* Redis: state:sensor_auto_restart:<id> exists
  tracker,      \* Redis: state:stuck:<id>
  row,          \* database: motor_sensors.status
  motorRow,     \* database: the motor is shutting_down or restarting
  task,         \* the suspended handlers
  autoRestarts, \* history: automatic restarts since the flag was last cleared
  crossed,      \* history: an automatic restart has been crossed by another handler
  crashes,      \* how many times the process has restarted
  faults        \* how many awaited operations have been rejected

memory  == <<status, restartTimer, motorBusy>>
redis   == <<used, tracker>>
db      == <<row, motorRow>>
history == <<autoRestarts>>
budget  == <<crashes, faults>>
evals   == <<memory, redis, db, history, budget, task>>
vars    == <<evals, crossed>>

Statuses == {"ok", "fault", "fault_persistent"}
Trackers == [value : Values \union {None}, count : 0..StuckReadings]
Empty    == [value |-> None, count |-> 0]
Labels   == {"idle", "readTracker", "readFlag", "writeRow", "record", "persist",
             "setFlag", "restore", "resetTracker", "clearFlag"}

HandlerState == [pc      : Labels,    \* the await the handler is suspended at
                 tracker : Trackers,  \* what it will write back, or its reading
                 target  : Statuses,  \* toStatus of triggerFault
                 stuck   : BOOLEAN,   \* triggerFault was called by the stuck check
                 manual  : BOOLEAN]   \* an operator asked for the restart

Handler(label, track, target, stuck, manual) ==
  [pc |-> label, tracker |-> track, target |-> target, stuck |-> stuck, manual |-> manual]

Idle == Handler("idle", Empty, "ok", FALSE, FALSE)

At(t, label) == task[t].pc = label

Set(t, handler) == task' = [task EXCEPT ![t] = handler]

Goto(t, label) == Set(t, [task[t] EXCEPT !.pc = label])

Init ==
  /\ status = "ok" /\ restartTimer = FALSE /\ motorBusy = FALSE
  /\ used = FALSE /\ tracker = Empty
  /\ row = "ok" /\ motorRow = FALSE
  /\ task = [t \in Tasks |-> Idle]
  /\ autoRestarts = 0 /\ crossed = FALSE
  /\ crashes = 0 /\ faults = 0

-----------------------------------------------------------------------------
(* evaluateReading. A sensor in fault, or one of a motor that restarts, is   *)
(* not evaluated at all.                                                     *)

Evaluated(t) == At(t, "idle") /\ status = "ok" /\ ~motorBusy

PlausibleReading(t, v) ==
  /\ Evaluated(t)
  /\ Set(t, Handler("readTracker", [value |-> v, count |-> 0], "ok", FALSE, FALSE))
  /\ UNCHANGED <<memory, redis, db, history, budget>>

BeginFault(t) == Set(t, Handler("readFlag", Empty, "ok", FALSE, FALSE))

OutOfRange(t) ==
  /\ Evaluated(t)
  /\ BeginFault(t)
  /\ UNCHANGED <<memory, redis, db, history, budget>>

\* The tracker after a reading, before it is looked at.
Counted(v) == [value |-> v, count |-> IF v = tracker.value THEN tracker.count + 1 ELSE 1]

\* hgetall has answered. A stuck sensor writes an empty count back after triggerFault.
ReadTracker(t) ==
  /\ At(t, "readTracker")
  /\ LET counted == Counted(task[t].tracker.value) IN
     IF counted.value = tracker.value /\ counted.count >= StuckReadings
       THEN Set(t, Handler("readFlag", [counted EXCEPT !.count = 0], "ok", TRUE, FALSE))
       ELSE Set(t, Handler("persist", counted, "ok", FALSE, FALSE))
  /\ UNCHANGED <<memory, redis, db, history, budget>>

PersistTracker(t) ==
  /\ At(t, "persist")
  /\ tracker' = task[t].tracker
  /\ Set(t, Idle)
  /\ UNCHANGED <<memory, used, db, history, budget>>

\* onSensorDisconnected, which does not ask whether the sensor is in fault already.
Disconnected(t) ==
  /\ At(t, "idle") /\ ~motorBusy
  /\ BeginFault(t)
  /\ UNCHANGED <<memory, redis, db, history, budget>>

-----------------------------------------------------------------------------
(* triggerFault and scheduleAutoRestart. *)

FaultFor_ByStatus == IF status = "fault" THEN "fault_persistent" ELSE "fault"

\* A fault after the automatic restart is persistent.
FaultFor == IF used THEN "fault_persistent" ELSE "fault"

\* triggerFault goes on with the status the flag asks for.
Faulted(t) == Handler("writeRow", task[t].tracker, FaultFor, task[t].stuck, task[t].manual)

ReadFlag_OnceOnly(t) ==
  /\ At(t, "readFlag")
  /\ IF used THEN Set(t, Idle) ELSE Set(t, Faulted(t))
  /\ UNCHANGED <<memory, redis, db, history, budget>>

ReadFlag(t) ==
  /\ At(t, "readFlag")
  /\ Set(t, Faulted(t))
  /\ UNCHANGED <<memory, redis, db, history, budget>>

WriteRow(t) ==
  /\ At(t, "writeRow")
  /\ row' = task[t].target
  /\ Goto(t, "record")
  /\ UNCHANGED <<memory, redis, motorRow, history, budget>>

MarkFault_NoTimer(t) ==
  /\ At(t, "record")
  /\ status' = task[t].target
  /\ restartTimer' = (restartTimer \/ (task[t].target = "fault" /\ ~task[t].stuck))
  /\ IF task[t].stuck THEN Goto(t, "persist") ELSE Set(t, Idle)
  /\ UNCHANGED <<motorBusy, redis, db, history, budget>>

\* createSensorFault and createAlert have answered.
MarkFault(t) ==
  /\ At(t, "record")
  /\ status' = task[t].target
  /\ restartTimer' = (restartTimer \/ task[t].target = "fault")
  /\ IF task[t].stuck THEN Goto(t, "persist") ELSE Set(t, Idle)
  /\ UNCHANGED <<motorBusy, redis, db, history, budget>>

\* The timer of 5 s.
TimerFires(t) ==
  /\ At(t, "idle") /\ restartTimer
  /\ restartTimer' = FALSE
  /\ IF status = "fault" THEN Set(t, Handler("setFlag", Empty, "ok", FALSE, FALSE))
     ELSE UNCHANGED task
  /\ UNCHANGED <<status, motorBusy, redis, db, history, budget>>

CountRestart == autoRestarts' = IF autoRestarts = MaxRestarts THEN autoRestarts ELSE autoRestarts + 1

SetFlag_NotPersisted(t) ==
  /\ At(t, "setFlag")
  /\ CountRestart
  /\ Goto(t, "restore")
  /\ UNCHANGED <<memory, redis, db, budget>>

\* The automatic restart is recorded before it is done.
SetFlag(t) ==
  /\ At(t, "setFlag")
  /\ used' = TRUE
  /\ CountRestart
  /\ Goto(t, "restore")
  /\ UNCHANGED <<memory, tracker, db, budget>>

\* manualRestart.
ManualRestart(t) ==
  /\ At(t, "idle")
  /\ status \in {"fault", "fault_persistent"}
  /\ Set(t, Handler("restore", Empty, "ok", FALSE, TRUE))
  /\ UNCHANGED <<memory, redis, db, history, budget>>

\* restoreSensor: the command is published and the row is written.
Restore(t) ==
  /\ At(t, "restore")
  /\ row' = "ok" /\ status' = "ok"
  /\ Goto(t, "resetTracker")
  /\ UNCHANGED <<restartTimer, motorBusy, redis, motorRow, history, budget>>

ResetTracker(t) ==
  /\ At(t, "resetTracker")
  /\ tracker' = Empty
  /\ IF task[t].manual THEN Goto(t, "clearFlag") ELSE Set(t, Idle)
  /\ UNCHANGED <<memory, used, db, history, budget>>

ClearFlag(t) ==
  /\ At(t, "clearFlag")
  /\ used' = FALSE /\ autoRestarts' = 0
  /\ Set(t, Idle)
  /\ UNCHANGED <<memory, tracker, db, budget>>

-----------------------------------------------------------------------------
(* What happens around the sensor. *)

\* transitionMotorSensors writes the rows of all sensors of the motor; the memory of this
\* service is not told. A trip is known to the evaluation, an operator's restart is not.
MotorStops ==
  /\ row' = "fault" /\ motorRow' = TRUE
  /\ motorBusy' \in {motorBusy, TRUE}
  /\ UNCHANGED <<status, restartTimer, redis, history, task, budget>>

MotorDisabled ==
  /\ row' = "fault" /\ motorRow' = FALSE /\ motorBusy' = FALSE
  /\ UNCHANGED <<status, restartTimer, redis, history, task, budget>>

MotorHealthy ==
  /\ row' = "ok" /\ motorRow' = FALSE /\ motorBusy' = FALSE
  /\ UNCHANGED <<status, restartTimer, redis, history, task, budget>>

\* manual_shutdown leaves the rows of the sensors alone.
MotorOffline ==
  /\ motorRow' = FALSE /\ motorBusy' = FALSE
  /\ UNCHANGED <<status, restartTimer, redis, row, history, task, budget>>

\* The flag's TTL of one hour and the tracker's of ten minutes.
FlagExpires ==
  /\ used /\ used' = FALSE
  /\ autoRestarts' = 0
  /\ UNCHANGED <<memory, tracker, db, task, budget>>

TrackerExpires ==
  /\ tracker # Empty /\ tracker' = Empty
  /\ UNCHANGED <<memory, used, db, history, task, budget>>

\* A rejected operation ends the handler of a message or of a request.
OperationFails(t) ==
  /\ faults < MaxFaults
  /\ \/ task[t].pc \in {"readTracker", "persist", "readFlag", "writeRow", "record", "clearFlag"}
     \/ task[t].pc \in {"restore", "resetTracker"} /\ task[t].manual
  /\ Set(t, Idle)
  /\ faults' = faults + 1
  /\ UNCHANGED <<memory, redis, db, history, crashes>>

\* The process dies, also by a rejected operation of the restart timer, and boots: the
\* statuses come from the rows, and no restart timer is set.
CrashAndBoot ==
  /\ crashes < MaxCrashes
  /\ status' = row /\ restartTimer' = FALSE /\ motorBusy' = motorRow
  /\ task' = [t \in Tasks |-> Idle]
  /\ crashes' = crashes + 1
  /\ UNCHANGED <<redis, db, history, faults>>

-----------------------------------------------------------------------------

Continue(t) ==
  \/ ReadTracker(t) \/ PersistTracker(t) \/ ReadFlag(t) \/ WriteRow(t) \/ MarkFault(t)
  \/ SetFlag(t) \/ Restore(t) \/ ResetTracker(t) \/ ClearFlag(t)

Step ==
  \/ \E t \in Tasks :
       \/ \E v \in Values : PlausibleReading(t, v)
       \/ OutOfRange(t) \/ Disconnected(t) \/ TimerFires(t) \/ ManualRestart(t)
       \/ Continue(t) \/ OperationFails(t)
  \/ MotorStops \/ MotorDisabled \/ MotorHealthy \/ MotorOffline
  \/ FlagExpires \/ TrackerExpires \/ CrashAndBoot

\* The restart timer has fired and its restart is not done.
AutoRestarting(t) == At(t, "setFlag") \/ (At(t, "restore") /\ ~task[t].manual)

\* The handler has decided by what it has read, and will change the status.
Deciding(t) == task[t].pc \in {"writeRow", "record", "setFlag", "restore"}

\* A fault is told, or the sensor restarted, by another handler meanwhile.
Crossing == \E t, u \in Tasks : t # u /\ AutoRestarting(t) /\ Deciding(u)

\* It is forgotten when the flag is gone and no automatic restart is left.
Note == crossed' = (Crossing' \/ (crossed /\ (used' \/ \E t \in Tasks : AutoRestarting(t)')))

Next == Step /\ Note

Spec == Init /\ [][Next]_vars

-----------------------------------------------------------------------------
(* Properties. *)

\* Types of all variables.
SensorTypeOK ==
  /\ status \in Statuses /\ row \in Statuses
  /\ restartTimer \in BOOLEAN /\ motorBusy \in BOOLEAN /\ motorRow \in BOOLEAN
  /\ used \in BOOLEAN /\ tracker \in Trackers
  /\ task \in [Tasks -> HandlerState]
  /\ autoRestarts \in 0..MaxRestarts /\ crossed \in BOOLEAN
  /\ crashes \in 0..MaxCrashes /\ faults \in 0..MaxFaults

\* A sensor is restarted automatically once; while the flag is kept, the next restart is
\* an operator's (persistSensorAutoRestartUsed, getSensorAutoRestartUsed), unless another
\* handler has told a fault or restarted the sensor in the middle of the automatic restart.
OneAutoRestart == ~crossed => autoRestarts <= 1

\* While the flag is kept and the process runs, a persistent fault is left by a manual
\* restart only (triggerFault: "requires manual intervention"), with the same exception.
PersistentIsFinal ==
  [][status = "fault_persistent" /\ used /\ ~crossed =>
       \/ status' = "fault_persistent" \/ crashes' > crashes
       \/ \E t \in Tasks : At(t, "restore") /\ task[t].manual]_vars

\* A fault does not last while the process runs: the sensor is restarted, or its fault becomes
\* persistent (scheduleAutoRestart). A process that boots restores no restart timer.
FaultsRecoverWhileUp ==
  status = "fault" /\ crashes = 0 ~> status # "fault" \/ crashes > 0
=============================================================================
