-------------------------- MODULE TelemetryConsumer --------------------------
(***************************************************************************)
(* The MQTT consumer of the backend (TelemetryConsumerService) around the  *)
(* evaluation of MotorEvaluation, with the device it listens to (the       *)
(* motor controller, MotorSimulator) and the broker's retained status.     *)
(*                                                                         *)
(* A message handler is a sequence of steps separated by awaits, like the  *)
(* handlers of MotorEvaluation, and runs in the same slots: a slot whose   *)
(* job has nothing left but readings to evaluate becomes an evaluation.    *)
(* With one slot the backend deals with one message or timer at a time.    *)
(* The actions ReportProgress and ConfirmHealthy of MotorEvaluation, which *)
(* stand there for these handlers, are not used.                           *)
(*                                                                         *)
(* A message is handled when it is published: the broker keeps the order   *)
(* of a client's messages, and nothing else the device does is visible.    *)
(***************************************************************************)
EXTENDS MotorEvaluation

CONSTANTS
  Stalls,        \* TRUE: telemetry may pause for longer than the watchdog's window
                 \* while the broker still holds the device for connected
  OperatorActs   \* TRUE: operators send stop and restart commands

ASSUME EnvironmentAssumption == Stalls \in BOOLEAN /\ OperatorActs \in BOOLEAN

VARIABLES
  pendingOnline, \* pendingOnlineConfirmation.has(motorId)
  watchdog,      \* disconnectionTimers.has(motorId)
  job,           \* the suspended message handlers and watchdog callbacks
  device,        \* MotorSimulator.state
  connected,     \* the device is connected to the broker
  retained,      \* the retained message on the status topic
  command,       \* a restart command is on its way to the device
  heard,         \* history: telemetry has come since the last "online"
  carried,       \* history: the slots that were at work when that "online" was handled
  slipped        \* history: the watchdog is off because a query was rejected, or an
                 \* evaluation overwrote the offline row

consumer     == <<pendingOnline, watchdog, job>>
hearing      == <<heard, carried>>
environment  == <<device, connected, retained, command, hearing>>
evaluation   == <<memory, redis, db, history, budget, task>>
allVars      == <<evaluation, disturbed, consumer, environment, slipped>>

Kinds  == {"none", "confirm", "offline", "watchdog", "progress"}
Stages == {"idle", "read", "commit", "sync", "resolve", "apply", "evaluate"}

\* toStatus of the transition each handler asks for, and when it asks for it.
TargetOf == [confirm |-> "healthy", progress |-> "restarting",
             offline |-> "manual_shutdown", watchdog |-> "manual_shutdown"]

ConfirmedFrom_NoRestarting == {"manual_shutdown", "shutting_down"}

ConfirmedFrom == {"manual_shutdown", "restarting", "shutting_down"}

Applies(kind, status) ==
  IF kind = "confirm" THEN status \in ConfirmedFrom ELSE status # TargetOf[kind]

NoJob == [kind |-> "none", stage |-> "idle"]

Does(t, stage) == job[t].stage = stage

Free(t) == At(t, "idle") /\ Does(t, "idle")

SetJob(t, kind, stage) == job' = [job EXCEPT ![t] = [kind |-> kind, stage |-> stage]]

EndJob(t) == job' = [job EXCEPT ![t] = NoJob]

InitConsumer ==
  /\ Init
  /\ pendingOnline = FALSE /\ watchdog = TRUE /\ heard = TRUE
  /\ carried = {} /\ slipped = FALSE
  /\ job = [t \in Tasks |-> NoJob]
  /\ device = "powered_on" /\ connected = TRUE /\ retained = "online" /\ command = FALSE

-----------------------------------------------------------------------------
(* handleStatus: the device's messages on the status topic and the broker's *)
(* last will.  The first step of each handler.                              *)

HandleOnline_NotPending == watchdog' = TRUE /\ UNCHANGED <<pendingOnline, job>>

HandleOnline == pendingOnline' = TRUE /\ watchdog' = TRUE /\ UNCHANGED job

HandleOffline(t) == SetJob(t, "offline", "read") /\ UNCHANGED <<pendingOnline, watchdog>>

Unheard == heard' = FALSE /\ carried' = {u \in Tasks : ~Free(u)}

HandleStatus_OnlineIsHealth(t, state) ==
  /\ Free(t)
  /\ IF state = "online"
       THEN SetJob(t, "confirm", "read") /\ Unheard /\ UNCHANGED <<pendingOnline, watchdog>>
       ELSE HandleOffline(t) /\ UNCHANGED hearing

HandleStatus(t, state) ==
  /\ Free(t)
  /\ IF state = "online" THEN HandleOnline /\ Unheard
     ELSE HandleOffline(t) /\ UNCHANGED hearing

\* _publish_status: a retained message.
Publish(t, state) == retained' = state /\ HandleStatus(t, state)

\* The connection is lost: the broker publishes the last will. A command the device has
\* not received is lost with its session.
Disconnect(t) ==
  /\ connected /\ connected' = FALSE
  /\ command' = FALSE
  /\ Publish(t, "offline")
  /\ UNCHANGED <<evaluation, device>>

\* run: the device publishes what it really is (_liveness_state).
Connect(t) ==
  /\ ~connected /\ connected' = TRUE
  /\ Publish(t, IF device = "powered_on" THEN "online" ELSE "offline")
  /\ UNCHANGED <<evaluation, device, command>>

-----------------------------------------------------------------------------
(* Commands and the restart countdown of the device. *)

\* publishStop and publishRestart of an operator: nothing keeps a command for a device that is
\* not connected.
OperatorCommands == OperatorActs /\ connected

\* A stop command: a countdown under way is abandoned.
StopDevice(t) ==
  /\ OperatorCommands
  /\ device' = "powered_off"
  /\ Publish(t, "offline")
  /\ UNCHANGED <<evaluation, connected, command>>

OperatorRestarts ==
  /\ OperatorCommands /\ ~command
  /\ command' = TRUE
  /\ UNCHANGED <<evaluation, consumer, device, connected, retained, hearing>>

TakeRestart ==
  /\ command /\ command' = FALSE
  /\ device' = "shutting_down"
  /\ UNCHANGED <<evaluation, consumer, connected, retained, hearing>>

\* handleRestartProgress with seconds_remaining >= 99, and below.
FirstProgress(t) ==
  /\ Free(t)
  /\ connected /\ device = "shutting_down"
  /\ device' = "restarting"
  /\ SetJob(t, "progress", "read")
  /\ UNCHANGED <<evaluation, pendingOnline, watchdog, connected, retained, command, hearing>>

LaterProgress ==
  /\ connected /\ device = "restarting"
  /\ watchdog' = TRUE
  /\ UNCHANGED <<evaluation, pendingOnline, job, environment>>

FinishCountdown(t) ==
  /\ connected /\ device = "restarting"
  /\ device' = "powered_on"
  /\ Publish(t, "online")
  /\ UNCHANGED <<evaluation, connected, command>>

-----------------------------------------------------------------------------
(* handleTelemetry and the watchdog (startDisconnectionTimer). *)

Telemetry(t) ==
  /\ Free(t)
  /\ connected /\ device = "powered_on"
  /\ heard' = TRUE /\ carried' = {}
  /\ IF pendingOnline
       THEN /\ pendingOnline' = FALSE
            /\ SetJob(t, "confirm", "read") /\ UNCHANGED watchdog
       ELSE /\ watchdog' = TRUE
            /\ SetJob(t, "confirm", "evaluate") /\ UNCHANGED pendingOnline
  /\ UNCHANGED <<evaluation, device, connected, retained, command>>

\* The device has been silent for the whole window.
Silent == Stalls \/ ~connected \/ device # "powered_on"

WatchdogFires(t) ==
  /\ Free(t)
  /\ watchdog /\ Silent
  /\ watchdog' = FALSE
  /\ SetJob(t, "watchdog", "read")
  /\ UNCHANGED <<evaluation, pendingOnline, environment>>

-----------------------------------------------------------------------------
(* The rest of the handlers: read the row, transition the motor, act on it. *)

Proceed_TrustsOnline(t) ==
  IF job[t].kind = "confirm" THEN UNCHANGED watchdog /\ SetJob(t, "confirm", "evaluate")
  ELSE watchdog' = (watchdog \/ job[t].kind = "progress") /\ EndJob(t)

\* What a handler does when the row needs no change, or has been changed: the watchdog is
\* armed again after telemetry and after progress.
Proceed(t) ==
  IF job[t].kind = "confirm" THEN watchdog' = TRUE /\ SetJob(t, "confirm", "evaluate")
  ELSE watchdog' = (watchdog \/ job[t].kind = "progress") /\ EndJob(t)

ReadStatus(t) ==
  /\ Does(t, "read")
  /\ IF Applies(job[t].kind, dbStatus)
       THEN SetJob(t, job[t].kind, "commit") /\ UNCHANGED watchdog
       ELSE Proceed(t)
  /\ UNCHANGED <<evaluation, pendingOnline, environment>>

\* The transaction of transitionMotor; manual_shutdown leaves the sensor rows alone.
CommitStatus(t) ==
  /\ Does(t, "commit")
  /\ dbStatus' = TargetOf[job[t].kind]
  /\ SetJob(t, job[t].kind, IF dbStatus' = "manual_shutdown" THEN "apply" ELSE "sync")
  /\ UNCHANGED <<memory, redis, sensorRows, openAlerts, history, budget, task,
                 pendingOnline, watchdog, environment>>

SyncRows(t) ==
  /\ Does(t, "sync")
  /\ sensorRows' = RowsFor(TargetOf[job[t].kind])
  /\ IF job[t].kind = "confirm" THEN SetJob(t, "confirm", "resolve") /\ UNCHANGED watchdog
     ELSE Proceed(t)
  /\ UNCHANGED <<memory, redis, dbStatus, openAlerts, history, budget, task,
                 pendingOnline, environment>>

\* resolveMotorAlerts has answered: memory follows, resetWindow runs up to its first await
\* in a slot of its own, and the watchdog is armed.
Confirm(t) ==
  /\ Does(t, "resolve")
  /\ openAlerts' = [a \in AlertTypes |-> 0]
  /\ motorStatus' = "healthy"
  /\ \E u \in Tasks : At(u, "idle") /\ StartReset(u)
  /\ restartsSent' = 0
  /\ Proceed(t)
  /\ UNCHANGED <<graceTimer, cooldown, redis, dbStatus, sensorRows, late, lost, budget,
                 pendingOnline, environment>>

\* The end of the offline handler and of the watchdog. What the watchdog does to the
\* sensors (onSensorDisconnected) belongs to the sensor evaluation.
MarkOffline(t) ==
  /\ Does(t, "apply")
  /\ motorStatus' = "manual_shutdown"
  /\ pendingOnline' = (pendingOnline /\ job[t].kind = "offline")
  /\ EndJob(t)
  /\ UNCHANGED <<counter, graceTimer, cooldown, redis, db, history, budget, task,
                 watchdog, environment>>

\* evaluateReading of the next value of the message: pushReading is not called while the
\* motor is known to restart.
Evaluate(t) ==
  /\ Does(t, "evaluate") /\ At(t, "idle")
  /\ EndJob(t)
  /\ IF motorStatus \in {"shutting_down", "restarting"} THEN UNCHANGED evaluation
     ELSE \E s \in Sensors, r \in Readings : ReadingArrives(t, s, r)
  /\ UNCHANGED <<pendingOnline, watchdog, environment>>

-----------------------------------------------------------------------------
(* Failures. *)

\* A rejected query ends the handler: handleMessage's caller logs it.
HandlerFails(t) ==
  /\ faults < MaxFaults
  /\ ~Does(t, "idle") /\ job[t].kind # "watchdog"
  /\ EndJob(t)
  /\ faults' = faults + 1
  /\ UNCHANGED <<memory, redis, db, history, overruns, crashes, task,
                 pendingOnline, watchdog, environment>>

\* subscribe, after a boot: the broker repeats the retained status.
Subscribe(t) ==
  IF retained = "online"
    THEN /\ pendingOnline' = TRUE /\ heard' = FALSE /\ carried' = {}
         /\ job' = [u \in Tasks |-> NoJob]
    ELSE /\ pendingOnline' = FALSE /\ UNCHANGED hearing
         /\ job' = [u \in Tasks |->
                      IF u = t THEN [kind |-> "offline", stage |-> "read"] ELSE NoJob]

\* The process dies and boots, and arms the watchdog of every motor. A rejected query of the
\* watchdog does this too: nothing catches it.
Restart(t) ==
  /\ CrashAndBoot
  /\ watchdog' = TRUE
  /\ Subscribe(t)
  /\ UNCHANGED <<device, connected, retained, command>>

\* A step of MotorEvaluation. The restart that a trip publishes reaches the device only
\* if it is connected: its session is not kept.
EvaluationStep(A) ==
  /\ A
  /\ command' = (command \/ (connected /\ restartsSent' > restartsSent))
  /\ UNCHANGED <<consumer, device, connected, retained, hearing>>

-----------------------------------------------------------------------------

Handle(t) ==
  ReadStatus(t) \/ CommitStatus(t) \/ SyncRows(t) \/ Confirm(t) \/ MarkOffline(t) \/ Evaluate(t)

Continue(t) == PushReading(t) \/ Escalate(t) \/ Reset(t)

ConsumerStep ==
  \/ \E t \in Tasks :
       \/ Handle(t)
       \/ Telemetry(t) \/ WatchdogFires(t) \/ Disconnect(t) \/ Connect(t)
       \/ FirstProgress(t) \/ FinishCountdown(t) \/ StopDevice(t)
       \/ HandlerFails(t) \/ Restart(t)
       \/ EvaluationStep(Continue(t) \/ OperationFails(t))
       \/ EvaluationStep(Does(t, "idle") /\ GraceExpires(t))
  \/ LaterProgress \/ OperatorRestarts \/ TakeRestart
  \/ EvaluationStep(CooldownElapses \/ LockExpires)

\* What leaves the watchdog off: a rejected query of a handler that would have armed it, and
\* the transaction of an evaluation over a row that was marked offline meanwhile.
Slip ==
  \/ /\ faults' # faults
     /\ \E t \in Tasks : job[t].kind \in {"confirm", "progress"} /\ job'[t] # job[t]
  \/ /\ dbStatus = "manual_shutdown"
     /\ \E t \in Tasks : At(t, "commit") /\ task'[t] # task[t]

Note == slipped' = (~watchdog' /\ (slipped \/ Slip)) /\ UNCHANGED disturbed

NextConsumer == ConsumerStep /\ Note

ConsumerSpec == InitConsumer /\ [][NextConsumer]_allVars

\* Awaited operations answer; timers fire and messages are handled although slots are few
\* (strong fairness); a connected device that runs publishes telemetry, takes its commands
\* and finishes its countdown, and one that is not connected tries again.
ConsumerFairness ==
  /\ \A t \in Tasks : /\ WF_allVars(Handle(t) /\ Note)
                      /\ WF_allVars(EvaluationStep(Continue(t)) /\ Note)
  /\ SF_allVars((\E t \in Tasks : Telemetry(t)) /\ Note)
  /\ SF_allVars((\E t \in Tasks : WatchdogFires(t)) /\ Note)
  /\ SF_allVars((\E t \in Tasks : FirstProgress(t)) /\ Note)
  /\ SF_allVars((\E t \in Tasks : FinishCountdown(t)) /\ Note)
  /\ SF_allVars((\E t \in Tasks : Connect(t)) /\ Note)
  /\ WF_allVars(TakeRestart /\ Note)

FairConsumerSpec == ConsumerSpec /\ ConsumerFairness

-----------------------------------------------------------------------------
(* Properties. *)

\* Types of the consumer's own variables.
ConsumerTypeOK ==
  /\ TypeOK
  /\ pendingOnline \in BOOLEAN /\ watchdog \in BOOLEAN
  /\ heard \in BOOLEAN /\ carried \subseteq Tasks /\ slipped \in BOOLEAN
  /\ job \in [Tasks -> [kind : Kinds, stage : Stages]]
  /\ device \in {"powered_on", "shutting_down", "restarting", "powered_off"}
  /\ connected \in BOOLEAN /\ command \in BOOLEAN /\ retained \in {"online", "offline"}

\* The handlers that will arm the watchdog, or mark the motor if it is to stay off.
Watching(j) ==
  \/ j.kind \in {"confirm", "progress"} /\ j.stage \in {"read", "commit", "sync", "resolve"}
  \/ j.kind = "watchdog" /\ j.stage \in {"read", "commit"}

\* A motor that is not marked offline is watched (startDisconnectionTimer): its watchdog is
\* armed, or a handler is about to arm it or to mark the motor. Only a rejected query and an
\* evaluation that overwrites the offline row leave it unwatched, until it is armed again.
WatchedUnlessOffline ==
  dbStatus # "manual_shutdown" => watchdog \/ slipped \/ \E t \in Tasks : Watching(job[t])

\* "An online claim alone is NOT proof of health": a motor marked offline becomes healthy
\* only when the device has sent telemetry since it last said "online", or by a handler that
\* earlier telemetry had begun and that was still at work when "online" came.
HealthNeedsTelemetry ==
  [][dbStatus = "manual_shutdown" /\ dbStatus' = "healthy" =>
       heard \/ \E t \in carried : task'[t] # task[t] \/ job'[t] # job[t]]_allVars

\* A restart comes to an end: the motor is healthy again or is marked offline
\* (handleTelemetry, handleStatus, the watchdog).
RestartConcludes ==
  dbStatus \in {"shutting_down", "restarting"} ~> dbStatus \notin {"shutting_down", "restarting"}

\* "Real telemetry is the ground truth for health": a motor whose device stays connected
\* and keeps publishing does not stay marked offline.
TelemetryRestoresHealth ==
  <>[](connected /\ device = "powered_on") => []<>(dbStatus # "manual_shutdown")
=============================================================================
