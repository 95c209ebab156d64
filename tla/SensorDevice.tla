----------------------------- MODULE SensorDevice -----------------------------
(***************************************************************************)
(* The sensor on its device, and the commands that restart it: the backend *)
(* judges the sensor by the readings the device sends (SensorEvaluation)   *)
(* and cures it by a command the device takes seconds to carry out, while  *)
(* its readings go on.                                                     *)
(*                                                                         *)
(* A reading is evaluated as soon as it is taken, and an answer handled as *)
(* soon as it is given; commands wait in the device until its listener is  *)
(* free.  A request_id is free again when nothing refers to it any more.   *)
(***************************************************************************)
EXTENDS SensorEvaluation, Sequences, FiniteSets

CONSTANTS
  StuckValue, \* the nominal value, rounded to one decimal
  Commands,   \* request_ids that are told apart
  MaxInbox    \* bound on the commands that wait in the device

VARIABLES
  mode,    \* device: fault_mode of the sensor
  inbox,   \* device: restart commands its listener has not read
  booting, \* device: the restart its listener is waiting for
  online,  \* the device has its connection
  sent,    \* per handler: the command published and not confirmed by the broker
  pending, \* memory of the backend: pendingCommands
  excused  \* history: commands sent or tracked that nothing will answer any more

device   == <<mode, inbox, booting, online>>
commands == <<sent, pending, excused>>
all      == <<vars, device, commands>>

Modes     == {"none", "stuck", "out_of_range", "disconnected"}
NoCommand == "no command"
Untracked == "untracked" \* a request_id beyond the ones told apart

ASSUME DeviceAssumption ==
  /\ StuckValue \in Values /\ MaxInbox \in Nat
  /\ NoCommand \notin Commands /\ Untracked \notin Commands

InitDevice ==
  /\ Init
  /\ mode = "none" /\ inbox = <<>> /\ booting = NoCommand /\ online = TRUE
  /\ sent = [t \in Tasks |-> NoCommand] /\ pending = {} /\ excused = {}

\* The commands that are at the broker, or on their way back.
Published == {sent[t] : t \in Tasks} \intersect Commands

\* The commands the device has still to carry out.
Waiting == {c \in Commands : booting = c \/ \E i \in DOMAIN inbox : inbox[i] = c}

-----------------------------------------------------------------------------
(* The device. *)

\* generate_reading without a fault: noise around the nominal value, or an episode, and
\* both inside the plausible range.
Measured == Values

\* generate_reading, and evaluateReading of its value.
Reading(t) ==
  \/ mode = "none" /\ \E v \in Measured : PlausibleReading(t, v)
  \/ mode = "stuck" /\ PlausibleReading(t, StuckValue)
  \/ mode = "out_of_range" /\ OutOfRange(t)

\* A value is in the message unless it is None.
Telemetry(t) ==
  /\ online
  /\ Reading(t) /\ Note
  /\ UNCHANGED <<device, commands>>

\* A command reaches the device, if it is connected: it subscribes with a clean session.
Deliver(c) == inbox' = IF online /\ Len(inbox) < MaxInbox THEN Append(inbox, c) ELSE inbox

\* handle_fault_injection, when the listener is free to read it: QA may ask at any time, and
\* a request that waits or gets lost is one made later or never.
InjectFault(m) ==
  /\ online /\ booting = NoCommand /\ inbox = <<>>
  /\ mode' = m
  /\ UNCHANGED <<vars, inbox, booting, online, commands>>

\* handle_sensor_command up to its sleep of 5 s, during which the listener reads nothing.
TakeRestart ==
  /\ booting = NoCommand /\ inbox # <<>>
  /\ booting' = Head(inbox)
  /\ inbox' = Tail(inbox)
  /\ UNCHANGED <<vars, mode, online, commands>>

ResolveAck_Kept(c) == UNCHANGED pending

ResolveAck(c) == pending' = pending \ {c}

\* An answer to a command that is not tracked is ignored, also if it is to be tracked yet.
HandleCommandAck(c) ==
  /\ ResolveAck(c)
  /\ excused' = excused \union ({c} \intersect Published)

\* clear_fault, and the answer.
FinishRestart ==
  /\ booting # NoCommand
  /\ mode' = "none" /\ booting' = NoCommand
  /\ HandleCommandAck(booting)
  /\ UNCHANGED <<vars, inbox, online, sent>>

\* The connection takes with it the restart under way and what has not been read; the fault
\* stays.
LoseConnection ==
  /\ online /\ online' = FALSE
  /\ inbox' = <<>> /\ booting' = NoCommand
  /\ excused' = excused \union (Waiting \intersect (Published \union pending))
  /\ UNCHANGED <<vars, mode, sent, pending>>

Reconnect ==
  /\ ~online /\ online' = TRUE
  /\ UNCHANGED <<vars, mode, inbox, booting, commands>>

-----------------------------------------------------------------------------
(* The backend's commands. *)

InUse == pending \union Waiting \union Published

\* publishSensorRestart: the command goes to the broker, and from there to the device.
PublishRestart(t) ==
  /\ At(t, "restore") /\ sent[t] = NoCommand
  /\ \E c \in IF Commands \subseteq InUse THEN {Untracked} ELSE Commands \ InUse :
       /\ sent' = [sent EXCEPT ![t] = c]
       /\ Deliver(c)
       /\ excused' = IF c \in Commands /\ inbox' = inbox THEN excused \union {c} ELSE excused
  /\ UNCHANGED <<vars, mode, booting, online, pending>>

\* The broker has confirmed: trackPending, and the rest of restoreSensor.
TrackPending(t) ==
  /\ sent[t] # NoCommand
  /\ Restore(t) /\ Note
  /\ pending' = pending \union ({sent[t]} \intersect Commands)
  /\ sent' = [sent EXCEPT ![t] = NoCommand]
  /\ UNCHANGED <<device, excused>>

\* An operation of the handler is rejected, of restoreSensor before or after trackPending.
HandlerFails(t) ==
  /\ OperationFails(t) /\ Note
  /\ sent' = [sent EXCEPT ![t] = NoCommand]
  /\ pending' \in {pending, pending \union ({sent[t]} \intersect Commands)}
  /\ excused' = excused \ ({sent[t]} \ pending')
  /\ UNCHANGED device

BackendRestarts ==
  /\ CrashAndBoot /\ Note
  /\ sent' = [t \in Tasks |-> NoCommand] /\ pending' = {} /\ excused' = {}
  /\ UNCHANGED device

-----------------------------------------------------------------------------

Proceed(t) == ~At(t, "restore") /\ Continue(t) /\ Note /\ UNCHANGED <<device, commands>>

TimerStep(t) == TimerFires(t) /\ Note /\ UNCHANGED <<device, commands>>

Listener == TakeRestart \/ FinishRestart

\* The motor's watchdog has fired: it tells the evaluation that the sensors are disconnected.
SensorsDisconnected == \E t \in Tasks : Disconnected(t)

\* What the evaluation meets besides the readings.
Around ==
  /\ \/ SensorsDisconnected
     \/ \E t \in Tasks : ManualRestart(t)
     \/ MotorStops \/ MotorDisabled \/ MotorHealthy \/ MotorOffline
     \/ FlagExpires \/ TrackerExpires
  /\ Note
  /\ UNCHANGED <<device, commands>>

NextDevice ==
  \/ \E t \in Tasks :
       \/ Telemetry(t) \/ Proceed(t) \/ TimerStep(t)
       \/ PublishRestart(t) \/ TrackPending(t) \/ HandlerFails(t)
  \/ Around \/ BackendRestarts
  \/ \E m \in Modes \ {"none"} : InjectFault(m)
  \/ Listener \/ LoseConnection \/ Reconnect

SpecDevice == InitDevice /\ [][NextDevice]_all

\* Awaited operations answer, the broker confirms, due timers fire, readings keep coming (the
\* motor is not left switched off) and the listener keeps reading (strong where the bounded
\* slots may be taken).
FairnessDevice ==
  /\ \A t \in Tasks : WF_all(Proceed(t) \/ PublishRestart(t) \/ TrackPending(t))
  /\ SF_all(\E t \in Tasks : TimerStep(t))
  /\ SF_all(\E t \in Tasks : Telemetry(t))
  /\ WF_all(Listener)

FairDevice == SpecDevice /\ FairnessDevice

-----------------------------------------------------------------------------

\* A sensor whose values cannot be true is found out: while its device sends them, the motor
\* runs and the backend does not restart, its status leaves ok (evaluateReading, between
\* restarts of the sensor that come too soon or get lost).
FaultIsNoticed ==
  online /\ mode = "out_of_range" ~>
    status # "ok" \/ ~online \/ mode # "out_of_range" \/ motorBusy

\* A command stays in pendingCommands only as long as the device has still to answer it;
\* forever only if the connection took it or its answer came before it was tracked
\* ("tracked in memory; resolved when ack is received").
PendingIsUnanswered == \A c \in pending : c \in Waiting \union excused
=============================================================================
