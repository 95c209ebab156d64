----------------------------- MODULE SensorProofs -----------------------------
(***************************************************************************)
(* Theorems about SensorEvaluation and SensorDevice, for any thresholds,   *)
(* values, commands and bounds, and any number of handlers that overlap.   *)
(***************************************************************************)
EXTENDS SensorDevice, TLAPS

-----------------------------------------------------------------------------
(* Types.                                                                    *)

LEMMA HandlerTyped ==
  ASSUME NEW label \in Labels, NEW track \in Trackers, NEW target \in Statuses,
         NEW stuck \in BOOLEAN, NEW manual \in BOOLEAN
  PROVE  /\ Handler(label, track, target, stuck, manual) \in HandlerState
         /\ Handler(label, track, target, stuck, manual).pc = label
         /\ Handler(label, track, target, stuck, manual).tracker = track
         /\ Handler(label, track, target, stuck, manual).target = target
         /\ Handler(label, track, target, stuck, manual).stuck = stuck
         /\ Handler(label, track, target, stuck, manual).manual = manual
BY DEF Handler, HandlerState

LEMMA IdleTyped == Idle \in HandlerState /\ Idle.pc = "idle" /\ Empty \in Trackers
<1>1. Empty \in Trackers
  BY StuckAssumption DEF Empty, Trackers
<1>2. "idle" \in Labels /\ "ok" \in Statuses
  BY DEF Labels, Statuses
<1>3. QED
  BY <1>1, <1>2, HandlerTyped DEF Idle

\* A handler that goes on to another await.
LEMMA Moved ==
  ASSUME NEW h \in HandlerState, NEW label \in Labels
  PROVE  [h EXCEPT !.pc = label] = Handler(label, h.tracker, h.target, h.stuck, h.manual)
<1>1. h = [pc |-> h.pc, tracker |-> h.tracker, target |-> h.target, stuck |-> h.stuck, manual |-> h.manual]
  BY DEF HandlerState
<1>2. [h EXCEPT !.pc = label] =
        [pc |-> label, tracker |-> h.tracker, target |-> h.target, stuck |-> h.stuck, manual |-> h.manual]
  BY <1>1
<1>3. QED
  BY <1>2 DEF Handler

LEMMA SetTyped ==
  ASSUME task \in [Tasks -> HandlerState], NEW t \in Tasks, NEW h \in HandlerState, Set(t, h)
  PROVE  task' \in [Tasks -> HandlerState] /\ task'[t] = h /\ \A u \in Tasks : u # t => task'[u] = task[u]
BY DEF Set

\* What an await is followed by: the handler keeps what it holds.
LEMMA GotoMoves ==
  ASSUME task \in [Tasks -> HandlerState], NEW t \in Tasks, NEW label \in Labels, Goto(t, label)
  PROVE  /\ task' \in [Tasks -> HandlerState] /\ \A u \in Tasks : u # t => task'[u] = task[u]
         /\ task'[t].pc = label /\ task'[t].tracker = task[t].tracker /\ task'[t].target = task[t].target
         /\ task'[t].stuck = task[t].stuck /\ task'[t].manual = task[t].manual
<1> DEFINE h == task[t]
           g == Handler(label, h.tracker, h.target, h.stuck, h.manual)
<1>1. h \in HandlerState
  OBVIOUS
<1>2. /\ h.tracker \in Trackers /\ h.target \in Statuses /\ h.stuck \in BOOLEAN /\ h.manual \in BOOLEAN
  BY <1>1 DEF HandlerState
<1>3. [h EXCEPT !.pc = label] = g
  BY <1>1, <1>2, Moved
<1>4. g \in HandlerState /\ g.pc = label /\ g.tracker = h.tracker /\ g.target = h.target
      /\ g.stuck = h.stuck /\ g.manual = h.manual
  BY <1>2, HandlerTyped
<1>5. Set(t, g)
  BY <1>3 DEF Goto
<1> HIDE DEF g
<1>6. QED
  BY <1>4, <1>5, SetTyped

LEMMA StatusTyped ==
  ASSUME NEW t \in Tasks, task \in [Tasks -> HandlerState]
  PROVE  /\ task[t].pc \in Labels /\ task[t].tracker \in Trackers /\ task[t].target \in Statuses
         /\ task[t].stuck \in BOOLEAN /\ task[t].manual \in BOOLEAN
BY DEF HandlerState

LEMMA SensorTypeInit == Init => SensorTypeOK
<1> SUFFICES ASSUME Init PROVE SensorTypeOK
  OBVIOUS
<1>1. autoRestarts \in 0..MaxRestarts /\ crashes \in 0..MaxCrashes /\ faults \in 0..MaxFaults
  BY LimitsAssumption DEF Init
<1>2. tracker \in Trackers /\ task \in [Tasks -> HandlerState]
  BY IdleTyped DEF Init
<1>3. /\ status \in Statuses /\ row \in Statuses
      /\ restartTimer \in BOOLEAN /\ motorBusy \in BOOLEAN /\ motorRow \in BOOLEAN /\ used \in BOOLEAN
      /\ crossed \in BOOLEAN
  BY DEF Init, Statuses
<1>4. QED
  BY <1>1, <1>2, <1>3 DEF SensorTypeOK

LEMMA SensorTypeInductive == SensorTypeOK /\ [Next]_vars => SensorTypeOK'
<1> SUFFICES ASSUME SensorTypeOK, [Next]_vars PROVE SensorTypeOK'
  OBVIOUS
<1>0. task \in [Tasks -> HandlerState] /\ tracker \in Trackers /\ used \in BOOLEAN
  BY DEF SensorTypeOK
<1>crossed. crossed' \in BOOLEAN
  <2>1. CASE Next
    BY <2>1 DEF Next, Note
  <2>2. CASE UNCHANGED vars
    BY <2>2 DEF vars, SensorTypeOK
  <2>3. QED
    BY <2>1, <2>2
<1> USE <1>crossed, IdleTyped DEF memory, redis, db, history, budget
<1>1. ASSUME NEW t \in Tasks, NEW h \in HandlerState, Set(t, h) PROVE task' \in [Tasks -> HandlerState]
  BY <1>0, <1>1, SetTyped
<1>2. ASSUME NEW t \in Tasks, NEW label \in Labels, Goto(t, label) PROVE task' \in [Tasks -> HandlerState]
  BY <1>0, <1>2, GotoMoves
<1>3. ASSUME NEW t \in Tasks, NEW label \in Labels, NEW k \in Trackers, NEW stuck \in BOOLEAN, NEW manual \in BOOLEAN,
             Set(t, Handler(label, k, "ok", stuck, manual))
      PROVE  task' \in [Tasks -> HandlerState]
  <2>1. Handler(label, k, "ok", stuck, manual) \in HandlerState
    BY HandlerTyped DEF Statuses
  <2>2. QED
    BY <1>1, <1>3, <2>1
<1>4. ASSUME NEW t \in Tasks, NEW v \in Values, PlausibleReading(t, v) PROVE SensorTypeOK'
  <2>1. [value |-> v, count |-> 0] \in Trackers /\ "readTracker" \in Labels
    BY StuckAssumption DEF Trackers, Labels
  <2>2. QED
    BY <1>3, <1>4, <2>1 DEF PlausibleReading, SensorTypeOK
<1>5. ASSUME NEW t \in Tasks, OutOfRange(t) \/ Disconnected(t) PROVE SensorTypeOK'
  BY <1>3, <1>5 DEF OutOfRange, Disconnected, BeginFault, SensorTypeOK, Labels
<1>6. ASSUME NEW t \in Tasks, TimerFires(t) \/ ManualRestart(t) PROVE SensorTypeOK'
  BY <1>3, <1>6 DEF TimerFires, ManualRestart, SensorTypeOK, Labels
<1>7. ASSUME NEW t \in Tasks, ReadTracker(t) PROVE SensorTypeOK'
  <2> DEFINE v == task[t].tracker.value
             n == IF v = tracker.value THEN tracker.count + 1 ELSE 1
  <2>1. tracker.count \in 0..StuckReadings /\ v \in Values \union {None}
    BY <1>0, StatusTyped DEF Trackers
  <2>2. Counted(v) = [value |-> v, count |-> n] /\ Counted(v).value = v /\ Counted(v).count = n
    BY DEF Counted
  <2>3. CASE v = tracker.value /\ n >= StuckReadings
    <3>1. [Counted(v) EXCEPT !.count = 0] = [value |-> v, count |-> 0]
      BY <2>2
    <3>2. [value |-> v, count |-> 0] \in Trackers
      BY <2>1, StuckAssumption DEF Trackers
    <3>3. Set(t, Handler("readFlag", [value |-> v, count |-> 0], "ok", TRUE, FALSE))
      BY <1>7, <2>2, <2>3, <3>1 DEF ReadTracker
    <3>4. QED
      BY <1>3, <1>7, <3>2, <3>3 DEF ReadTracker, SensorTypeOK, Labels
  <2>4. CASE ~(v = tracker.value /\ n >= StuckReadings)
    <3>1. n \in 0..StuckReadings
      BY <2>1, <2>4, StuckAssumption
    <3>2. Counted(v) \in Trackers
      BY <2>1, <2>2, <3>1 DEF Trackers
    <3>3. Set(t, Handler("persist", Counted(v), "ok", FALSE, FALSE))
      BY <1>7, <2>2, <2>4 DEF ReadTracker
    <3>4. QED
      BY <1>3, <1>7, <3>2, <3>3 DEF ReadTracker, SensorTypeOK, Labels
  <2>5. QED
    BY <2>3, <2>4
<1>8. ASSUME NEW t \in Tasks, PersistTracker(t) PROVE SensorTypeOK'
  BY <1>0, <1>1, <1>8, StatusTyped DEF PersistTracker, SensorTypeOK
<1>9. ASSUME NEW t \in Tasks, ReadFlag(t) PROVE SensorTypeOK'
  <2>1. FaultFor \in Statuses /\ "writeRow" \in Labels
    BY DEF FaultFor, Statuses, Labels
  <2>2. Faulted(t) \in HandlerState
    BY <1>0, <2>1, StatusTyped, HandlerTyped DEF Faulted
  <2>3. QED
    BY <1>1, <1>9, <2>2 DEF ReadFlag, SensorTypeOK
<1>10. ASSUME NEW t \in Tasks, WriteRow(t) PROVE SensorTypeOK'
  BY <1>0, <1>2, <1>10, StatusTyped DEF WriteRow, SensorTypeOK, Labels
<1>11. ASSUME NEW t \in Tasks, MarkFault(t) PROVE SensorTypeOK'
  <2>1. task' \in [Tasks -> HandlerState]
    BY <1>1, <1>2, <1>11 DEF MarkFault, Labels
  <2>2. status' \in Statuses /\ restartTimer' \in BOOLEAN
    BY <1>0, <1>11, StatusTyped DEF MarkFault
  <2>3. QED
    BY <1>11, <2>1, <2>2 DEF MarkFault, SensorTypeOK
<1>12. autoRestarts \in 0..MaxRestarts /\ crashes \in 0..MaxCrashes /\ faults \in 0..MaxFaults
  BY DEF SensorTypeOK
<1>13. ASSUME NEW t \in Tasks, SetFlag(t) PROVE SensorTypeOK'
  <2>1. autoRestarts' \in 0..MaxRestarts
    BY <1>12, <1>13, LimitsAssumption DEF SetFlag, CountRestart
  <2>2. task' \in [Tasks -> HandlerState]
    BY <1>2, <1>13 DEF SetFlag, Labels
  <2>3. QED
    BY <1>13, <2>1, <2>2 DEF SetFlag, SensorTypeOK
<1>14. ASSUME NEW t \in Tasks, Restore(t) PROVE SensorTypeOK'
  BY <1>2, <1>14 DEF Restore, SensorTypeOK, Labels, Statuses
<1>15. ASSUME NEW t \in Tasks, ResetTracker(t) PROVE SensorTypeOK'
  BY <1>1, <1>2, <1>15 DEF ResetTracker, SensorTypeOK, Labels
<1>16. ASSUME autoRestarts' = 0 PROVE autoRestarts' \in 0..MaxRestarts
  BY <1>16, LimitsAssumption
<1>17. ASSUME NEW t \in Tasks, ClearFlag(t) PROVE SensorTypeOK'
  BY <1>1, <1>16, <1>17 DEF ClearFlag, SensorTypeOK
<1>18. ASSUME NEW t \in Tasks, OperationFails(t) PROVE SensorTypeOK'
  <2>1. faults' \in 0..MaxFaults
    BY <1>12, <1>18, LimitsAssumption DEF OperationFails
  <2>2. QED
    BY <1>1, <1>18, <2>1 DEF OperationFails, SensorTypeOK
<1>19. CASE MotorStops \/ MotorDisabled \/ MotorHealthy \/ MotorOffline
  <2>1. row' \in Statuses
    BY <1>19 DEF MotorStops, MotorDisabled, MotorHealthy, MotorOffline, SensorTypeOK, Statuses
  <2>2. motorRow' \in BOOLEAN /\ motorBusy' \in BOOLEAN
    BY <1>19 DEF MotorStops, MotorDisabled, MotorHealthy, MotorOffline, SensorTypeOK
  <2>3. UNCHANGED <<status, restartTimer, used, tracker, autoRestarts, task, crashes, faults>>
    BY <1>19 DEF MotorStops, MotorDisabled, MotorHealthy, MotorOffline
  <2>4. QED
    BY <2>1, <2>2, <2>3 DEF SensorTypeOK
<1>20. CASE FlagExpires
  BY <1>16, <1>20 DEF FlagExpires, SensorTypeOK
<1>21. CASE TrackerExpires
  BY <1>21 DEF TrackerExpires, SensorTypeOK
<1>22. CASE CrashAndBoot
  <2>1. task' \in [Tasks -> HandlerState]
    BY <1>22 DEF CrashAndBoot
  <2>2. crashes' \in 0..MaxCrashes
    BY <1>12, <1>22, LimitsAssumption DEF CrashAndBoot
  <2>3. QED
    BY <1>22, <2>1, <2>2 DEF CrashAndBoot, SensorTypeOK
<1>23. CASE UNCHANGED vars
  BY <1>23 DEF vars, evals, SensorTypeOK
<1>24. QED
  BY <1>4, <1>5, <1>6, <1>7, <1>8, <1>9, <1>10, <1>11, <1>13, <1>14, <1>15, <1>17, <1>18, <1>19, <1>20,
     <1>21, <1>22, <1>23 DEF Next, Step, Continue

\* Type correctness.
THEOREM SensorTyped == Spec => []SensorTypeOK
BY SensorTypeInit, SensorTypeInductive, PTL DEF Spec

-----------------------------------------------------------------------------
(* The sensor with its device is a sensor that is evaluated. *)

LEMMA DeviceStep == [NextDevice]_all => [Next]_vars
<1> SUFFICES ASSUME [NextDevice]_all PROVE [Next]_vars
  OBVIOUS
<1>1. ASSUME NEW t \in Tasks, Telemetry(t) PROVE Next
  <2>1. StuckValue \in Values
    BY DeviceAssumption
  <2>2. (\E v \in Values : PlausibleReading(t, v)) \/ OutOfRange(t)
    BY <1>1, <2>1 DEF Telemetry, Reading, Measured
  <2>3. QED
    BY <1>1, <2>2 DEF Telemetry, Next, Step
<1>2. ASSUME NEW t \in Tasks, Proceed(t) \/ TimerStep(t) PROVE Next
  BY <1>2 DEF Proceed, TimerStep, Next, Step
<1>3. ASSUME NEW t \in Tasks, PublishRestart(t) PROVE UNCHANGED vars
  BY <1>3 DEF PublishRestart
<1>4. ASSUME NEW t \in Tasks, TrackPending(t) PROVE Next
  BY <1>4 DEF TrackPending, Next, Step, Continue
<1>5. ASSUME NEW t \in Tasks, HandlerFails(t) PROVE Next
  BY <1>5 DEF HandlerFails, Next, Step
<1>6. CASE Around
  BY <1>6 DEF Around, SensorsDisconnected, Next, Step
<1>7. CASE BackendRestarts
  BY <1>7 DEF BackendRestarts, Next, Step
<1>8. ASSUME NEW m \in Modes, InjectFault(m) PROVE UNCHANGED vars
  BY <1>8 DEF InjectFault
<1>9. CASE Listener \/ LoseConnection \/ Reconnect
  <2>1. UNCHANGED vars
    BY <1>9 DEF Listener, TakeRestart, FinishRestart, LoseConnection, Reconnect
  <2>2. QED
    BY <2>1
<1>10. CASE UNCHANGED all
  BY <1>10 DEF all
<1>11. QED
  BY <1>1, <1>2, <1>3, <1>4, <1>5, <1>6, <1>7, <1>8, <1>9, <1>10 DEF NextDevice

\* Whatever the device does and whatever becomes of the commands, the evaluation does what
\* it does with readings that come as they please: what is proved of it holds here too.
THEOREM DeviceEvaluates == SpecDevice => Spec
<1>1. InitDevice => Init
  BY DEF InitDevice
<1>2. QED
  BY <1>1, DeviceStep, PTL DEF SpecDevice, Spec


-----------------------------------------------------------------------------
(* A command that is at the broker or tracked will be answered, or it is     *)
(* known not to be.  Commands at the broker are told apart by request_id.    *)

Ids == Commands \union {Untracked}

CommandsTyped ==
  /\ sent \in [Tasks -> Ids \union {NoCommand}]
  /\ booting \in Ids \union {NoCommand}
  /\ inbox \in Seq(Ids)
  /\ pending \in SUBSET Commands

SentApart == \A t, u \in Tasks : sent[t] = sent[u] /\ sent[t] \in Commands => t = u

Accounted == \A c \in Published \union pending : c \in Waiting \union excused

CommandsInv == CommandsTyped /\ SentApart /\ Accounted

LEMMA CommandsInit == InitDevice => CommandsInv
<1> SUFFICES ASSUME InitDevice PROVE CommandsInv
  OBVIOUS
<1>1. sent = [t \in Tasks |-> NoCommand] /\ booting = NoCommand /\ inbox = <<>> /\ pending = {}
  BY DEF InitDevice
<1>2. CommandsTyped
  BY <1>1 DEF CommandsTyped
<1>3. SentApart
  BY <1>1, DeviceAssumption DEF SentApart
<1>4. Published = {}
  BY <1>1, DeviceAssumption DEF Published
<1>5. QED
  BY <1>1, <1>2, <1>3, <1>4 DEF CommandsInv, Accounted

\* The listener reads the next command: the same ones wait.
LEMMA TakenWaits ==
  ASSUME CommandsTyped, TakeRestart, NEW c \in Commands
  PROVE  c \in Waiting => c \in Waiting'
<1>1. /\ booting = NoCommand /\ inbox # <<>> /\ inbox \in Seq(Ids)
      /\ booting' = Head(inbox) /\ inbox' = Tail(inbox) /\ UNCHANGED <<sent, pending>>
  BY DEF TakeRestart, CommandsTyped, commands
<1>2. Head(inbox) \in Ids /\ Tail(inbox) \in Seq(Ids) /\ Head(inbox) = inbox[1]
  BY <1>1
<1>3. ASSUME c \in Waiting PROVE c \in Waiting'
  <2>1. PICK i \in DOMAIN inbox : inbox[i] = c
    BY <1>1, <1>3, DeviceAssumption DEF Waiting
  <2>2. i \in 1..Len(inbox) /\ Len(inbox) \in Nat
    BY <1>1, <2>1
  <2>3. CASE i = 1
    BY <1>1, <1>2, <2>1, <2>3 DEF Waiting
  <2>4. CASE i # 1
    <3>1. i - 1 \in 1..(Len(inbox) - 1) /\ (i - 1) + 1 = i
      BY <2>2, <2>4
    <3>2. i - 1 \in DOMAIN Tail(inbox) /\ Tail(inbox)[i - 1] = inbox[i]
      BY <1>1, <2>2, <3>1
    <3>3. QED
      BY <1>1, <2>1, <3>2 DEF Waiting
  <2>5. QED
    BY <2>3, <2>4
<1>4. QED
  BY <1>3

\* Only its own command leaves the broker when a handler goes on.
LEMMA SentCleared ==
  ASSUME CommandsTyped, SentApart, NEW t \in Tasks, sent' = [sent EXCEPT ![t] = NoCommand]
  PROVE  /\ sent' \in [Tasks -> Ids \union {NoCommand}] /\ SentApart'
         /\ Published' \subseteq Published
         /\ sent[t] \notin Published'
<1>1. /\ sent \in [Tasks -> Ids \union {NoCommand}] /\ NoCommand \notin Commands
      /\ sent'[t] = NoCommand /\ \A u \in Tasks : u # t => sent'[u] = sent[u]
      /\ sent' \in [Tasks -> Ids \union {NoCommand}]
  BY DeviceAssumption DEF CommandsTyped
<1>2. SentApart'
  BY <1>1 DEF SentApart
<1>3. Published' \subseteq Published
  BY <1>1 DEF Published
<1>4. sent[t] \notin Published'
  BY <1>1 DEF Published, SentApart
<1>5. QED
  BY <1>1, <1>2, <1>3, <1>4

LEMMA CommandsInductive == CommandsInv /\ [NextDevice]_all => CommandsInv'
<1> SUFFICES ASSUME CommandsInv, [NextDevice]_all PROVE CommandsInv'
  OBVIOUS
<1>0. CommandsTyped /\ SentApart /\ Accounted
  BY DEF CommandsInv
<1> USE DEF device, commands
<1>1. ASSUME UNCHANGED <<inbox, booting, sent, pending, excused>> PROVE CommandsInv'
  BY <1>1 DEF CommandsInv, CommandsTyped, SentApart, Accounted, Published, Waiting
<1>2. ASSUME NEW t \in Tasks, Telemetry(t) \/ Proceed(t) \/ TimerStep(t) PROVE CommandsInv'
  BY <1>1, <1>2 DEF Telemetry, Proceed, TimerStep
<1>3. ASSUME NEW t \in Tasks, PublishRestart(t) PROVE CommandsInv'
  <2>1. PICK c : /\ c \in IF Commands \subseteq InUse THEN {Untracked} ELSE Commands \ InUse
                 /\ sent' = [sent EXCEPT ![t] = c]
                 /\ Deliver(c)
                 /\ excused' = IF c \in Commands /\ inbox' = inbox THEN excused \union {c} ELSE excused
    BY <1>3 DEF PublishRestart
  <2>2. UNCHANGED <<booting, pending>>
    BY <1>3 DEF PublishRestart
  <2>3. c \in Ids /\ (c \in Commands => c \notin Published)
    BY <2>1, DeviceAssumption DEF Ids, InUse
  <2>4. /\ sent \in [Tasks -> Ids \union {NoCommand}] /\ sent' \in [Tasks -> Ids \union {NoCommand}]
        /\ sent'[t] = c /\ \A u \in Tasks : u # t => sent'[u] = sent[u]
    BY <1>0, <2>1, <2>3 DEF CommandsTyped
  <2>5. inbox \in Seq(Ids) /\ (inbox' = inbox \/ inbox' = Append(inbox, c))
    BY <1>0, <2>1 DEF CommandsTyped, Deliver
  <2>6. CommandsTyped'
    <3>1. inbox' \in Seq(Ids)
      BY <2>3, <2>5
    <3>2. QED
      BY <1>0, <2>2, <2>4, <3>1 DEF CommandsTyped
  <2>7. SentApart'
    BY <1>0, <2>3, <2>4 DEF SentApart, Published
  <2>8. Published' \subseteq Published \union {c}
    BY <2>4 DEF Published
  <2>9. /\ Waiting \subseteq Waiting' /\ excused \subseteq excused'
        /\ c \in Commands => c \in Waiting' \union excused'
    <3>1. CASE inbox' = inbox
      BY <2>1, <2>2, <3>1 DEF Waiting
    <3>2. CASE inbox' = Append(inbox, c)
      <4>1. /\ \A i \in DOMAIN inbox : i \in DOMAIN inbox' /\ inbox'[i] = inbox[i]
            /\ \E i \in DOMAIN inbox' : inbox'[i] = c
        <5>1. DOMAIN inbox = 1..Len(inbox) /\ DOMAIN inbox' = 1..(Len(inbox) + 1) /\ Len(inbox) \in Nat
          BY <2>3, <2>5, <3>2
        <5>2. inbox'[Len(inbox) + 1] = c /\ \A i \in 1..Len(inbox) : inbox'[i] = inbox[i]
          BY <2>3, <2>5, <3>2
        <5>3. QED
          BY <5>1, <5>2
      <4>2. QED
        BY <2>1, <2>2, <4>1 DEF Waiting
    <3>3. QED
      BY <2>5, <3>1, <3>2
  <2>10. Accounted'
    <3>1. ASSUME NEW d \in (Published \union pending)' PROVE d \in (Waiting \union excused)'
      <4>1. d \in Published \union pending \/ d = c
        BY <2>2, <2>8, <3>1
      <4>2. d \in Commands
        BY <2>6, <3>1 DEF Published, CommandsTyped
      <4>3. QED
        BY <1>0, <2>9, <4>1, <4>2 DEF Accounted
    <3>2. QED
      BY <3>1 DEF Accounted
  <2>11. QED
    BY <2>6, <2>7, <2>10 DEF CommandsInv
<1>4. ASSUME NEW t \in Tasks, TrackPending(t) PROVE CommandsInv'
  <2>1. /\ pending' = pending \union ({sent[t]} \intersect Commands)
        /\ sent' = [sent EXCEPT ![t] = NoCommand] /\ UNCHANGED <<inbox, booting, excused>>
    BY <1>4 DEF TrackPending
  <2>2. /\ sent' \in [Tasks -> Ids \union {NoCommand}] /\ SentApart' /\ Published' \subseteq Published
    BY <1>0, <2>1, SentCleared
  <2>3. CommandsTyped'
    BY <1>0, <2>1, <2>2 DEF CommandsTyped
  <2>4. pending' \subseteq pending \union Published
    BY <2>1 DEF Published
  <2>5. Waiting' = Waiting
    BY <2>1 DEF Waiting
  <2>6. Accounted'
    BY <1>0, <2>1, <2>2, <2>4, <2>5 DEF Accounted
  <2>7. QED
    BY <2>2, <2>3, <2>6 DEF CommandsInv
<1>5. ASSUME NEW t \in Tasks, HandlerFails(t) PROVE CommandsInv'
  <2>1. /\ pending' \in {pending, pending \union ({sent[t]} \intersect Commands)}
        /\ excused' = excused \ ({sent[t]} \ pending')
        /\ sent' = [sent EXCEPT ![t] = NoCommand] /\ UNCHANGED <<inbox, booting>>
    BY <1>5 DEF HandlerFails
  <2>2. /\ sent' \in [Tasks -> Ids \union {NoCommand}] /\ SentApart' /\ Published' \subseteq Published
        /\ sent[t] \notin Published'
    BY <1>0, <2>1, SentCleared
  <2>3. CommandsTyped'
    BY <1>0, <2>1, <2>2 DEF CommandsTyped
  <2>4. pending' \subseteq pending \union Published
    BY <2>1 DEF Published
  <2>5. Waiting' = Waiting
    BY <2>1 DEF Waiting
  <2>6. Accounted'
    <3>1. ASSUME NEW d \in (Published \union pending)' PROVE d \in (Waiting \union excused)'
      <4>1. d \in Waiting \union excused
        BY <1>0, <2>2, <2>4, <3>1 DEF Accounted
      <4>2. d # sent[t] \/ d \in pending'
        BY <2>2, <3>1
      <4>3. QED
        BY <2>1, <2>5, <4>1, <4>2
    <3>2. QED
      BY <3>1 DEF Accounted
  <2>7. QED
    BY <2>2, <2>3, <2>6 DEF CommandsInv
<1>6. CASE Around
  BY <1>1, <1>6 DEF Around
<1>7. CASE BackendRestarts
  <2>1. sent' = [t \in Tasks |-> NoCommand] /\ pending' = {} /\ UNCHANGED <<inbox, booting>>
    BY <1>7 DEF BackendRestarts
  <2>2. CommandsTyped'
    BY <1>0, <2>1 DEF CommandsTyped
  <2>3. SentApart' /\ Published' = {}
    BY <2>1, DeviceAssumption DEF SentApart, Published
  <2>4. QED
    BY <2>1, <2>2, <2>3 DEF CommandsInv, Accounted
<1>8. ASSUME NEW m \in Modes, InjectFault(m) PROVE CommandsInv'
  BY <1>1, <1>8 DEF InjectFault
<1>9. CASE TakeRestart
  <2>1. UNCHANGED <<sent, pending, excused>>
    BY <1>9 DEF TakeRestart
  <2>2. CommandsTyped'
    <3>1. /\ inbox # <<>> /\ inbox \in Seq(Ids) /\ booting' = Head(inbox) /\ inbox' = Tail(inbox)
      BY <1>0, <1>9 DEF TakeRestart, CommandsTyped
    <3>2. Head(inbox) \in Ids /\ Tail(inbox) \in Seq(Ids)
      BY <3>1
    <3>3. QED
      BY <1>0, <2>1, <3>1, <3>2 DEF CommandsTyped
  <2>3. SentApart' /\ Published' = Published
    BY <1>0, <2>1 DEF SentApart, Published
  <2>4. Published \union pending \subseteq Commands
    BY <1>0 DEF Published, CommandsTyped
  <2>5. Accounted'
    BY <1>0, <1>9, <2>1, <2>3, <2>4, TakenWaits DEF Accounted
  <2>6. QED
    BY <2>2, <2>3, <2>5 DEF CommandsInv
<1>10. CASE FinishRestart
  <2>1. /\ booting' = NoCommand /\ pending' = pending \ {booting}
        /\ excused' = excused \union ({booting} \intersect Published)
        /\ UNCHANGED <<sent, inbox>>
    BY <1>10 DEF FinishRestart, HandleCommandAck, ResolveAck
  <2>2. CommandsTyped' /\ SentApart' /\ Published' = Published
    BY <1>0, <2>1 DEF CommandsTyped, SentApart, Published
  <2>3. \A c \in Waiting : c # booting => c \in Waiting'
    BY <2>1 DEF Waiting
  <2>4. Accounted'
    BY <1>0, <2>1, <2>2, <2>3 DEF Accounted
  <2>5. QED
    BY <2>2, <2>4 DEF CommandsInv
<1>11. CASE LoseConnection
  <2>1. /\ inbox' = <<>> /\ booting' = NoCommand
        /\ excused' = excused \union (Waiting \intersect (Published \union pending))
        /\ UNCHANGED <<sent, pending>>
    BY <1>11 DEF LoseConnection
  <2>2. CommandsTyped' /\ SentApart' /\ Published' = Published
    BY <1>0, <2>1 DEF CommandsTyped, SentApart, Published
  <2>3. Accounted'
    BY <1>0, <2>1, <2>2 DEF Accounted
  <2>4. QED
    BY <2>2, <2>3 DEF CommandsInv
<1>12. CASE Reconnect \/ UNCHANGED all
  BY <1>1, <1>12 DEF Reconnect, all
<1>13. QED
  BY <1>2, <1>3, <1>4, <1>5, <1>6, <1>7, <1>8, <1>9, <1>10, <1>11, <1>12 DEF NextDevice, Listener

\* A command the backend still waits for is one the device has still to carry out, or one
\* whose answer is known to be lost or to have come too early: nothing is forgotten on the
\* way, however handlers, device and connection interleave.
THEOREM PendingUnanswered == SpecDevice => []PendingIsUnanswered
<1>1. CommandsInv => PendingIsUnanswered
  BY DEF CommandsInv, Accounted, PendingIsUnanswered
<1>2. QED
  BY <1>1, CommandsInit, CommandsInductive, PTL DEF SpecDevice


-----------------------------------------------------------------------------
(* One automatic restart, however the handlers of the sensor overlap.        *)

\* What a handler relies on unless an automatic restart has been crossed: the flag goes on
\* before the restart it stands for, no fault is told to be restarted once it is on, and a
\* restart under way that nobody asked for is one of a fault.
HandlerSound(t) ==
  /\ At(t, "setFlag") => ~used /\ ~restartTimer
  /\ task[t].pc \in {"writeRow", "record"} /\ task[t].target = "fault" => ~used
  /\ AutoRestarting(t) => status = "fault"

Sound ==
  /\ restartTimer => ~used
  /\ autoRestarts <= 1
  /\ \A t \in Tasks : HandlerSound(t)

\* What holds crossed or not.
Counts ==
  /\ ~used => autoRestarts = 0
  /\ \A t \in Tasks : task[t].pc \in {"writeRow", "record"} => task[t].target \in {"fault", "fault_persistent"}

RestartInv ==
  /\ Counts
  /\ Crossing => crossed
  /\ ~crossed => Sound

LEMMA RestartInit == Init => RestartInv
<1> SUFFICES ASSUME Init PROVE RestartInv
  OBVIOUS
<1>1. ASSUME NEW t \in Tasks PROVE task[t].pc = "idle"
  <2>1. task[t] = Idle
    BY DEF Init
  <2>2. QED
    BY <2>1, IdleTyped
<1>2. restartTimer = FALSE /\ used = FALSE /\ autoRestarts = 0
  BY DEF Init
<1>3. Counts
  BY <1>1, <1>2 DEF Counts
<1>4. Sound
  BY <1>1, <1>2 DEF Sound, HandlerSound, AutoRestarting, At
<1>5. ~Crossing
  BY <1>1 DEF Crossing, AutoRestarting, At
<1>6. QED
  BY <1>3, <1>4, <1>5 DEF RestartInv

\* What an action does to the handler that takes it: a fresh one, one that goes on, or the end.
LEMMA StepOf ==
  ASSUME SensorTypeOK, NEW t \in Tasks
  PROVE  /\ Set(t, Idle) => task'[t].pc = "idle"
         /\ \A label \in Labels, k \in Trackers, stuck \in BOOLEAN, manual \in BOOLEAN :
              Set(t, Handler(label, k, "ok", stuck, manual)) =>
                task'[t].pc = label /\ task'[t].manual = manual
         /\ \A label \in Labels : Goto(t, label) =>
              task'[t].pc = label /\ task'[t].target = task[t].target /\ task'[t].manual = task[t].manual
         /\ ReadFlag(t) => task'[t].pc = "writeRow" /\ task'[t].target = FaultFor
         /\ ReadTracker(t) => task'[t].pc \in {"readFlag", "persist"}
         /\ \A u \in Tasks : u # t => \A h : Set(t, h) => task'[u] = task[u]
<1>0. task \in [Tasks -> HandlerState]
  BY DEF SensorTypeOK
<1>1. Set(t, Idle) => task'[t].pc = "idle"
  BY <1>0, IdleTyped, SetTyped
<1>2. ASSUME NEW label \in Labels, NEW k \in Trackers, NEW stuck \in BOOLEAN, NEW manual \in BOOLEAN,
             Set(t, Handler(label, k, "ok", stuck, manual))
      PROVE  task'[t].pc = label /\ task'[t].manual = manual
  <2>1. "ok" \in Statuses
    BY DEF Statuses
  <2>2. /\ Handler(label, k, "ok", stuck, manual) \in HandlerState
        /\ Handler(label, k, "ok", stuck, manual).pc = label
        /\ Handler(label, k, "ok", stuck, manual).manual = manual
    BY <2>1, HandlerTyped
  <2>3. QED
    BY <1>0, <1>2, <2>2, SetTyped
<1>3. ASSUME NEW label \in Labels, Goto(t, label)
      PROVE  task'[t].pc = label /\ task'[t].target = task[t].target /\ task'[t].manual = task[t].manual
  BY <1>0, <1>3, GotoMoves
<1>4. ASSUME ReadFlag(t) PROVE task'[t].pc = "writeRow" /\ task'[t].target = FaultFor
  <2>1. FaultFor \in Statuses /\ "writeRow" \in Labels
    BY DEF FaultFor, Statuses, Labels
  <2>2. Faulted(t) \in HandlerState /\ Faulted(t).pc = "writeRow" /\ Faulted(t).target = FaultFor
    BY <1>0, <2>1, StatusTyped, HandlerTyped DEF Faulted
  <2>3. QED
    BY <1>0, <1>4, <2>2, SetTyped DEF ReadFlag
<1>5. ASSUME ReadTracker(t) PROVE task'[t].pc \in {"readFlag", "persist"}
  <2>1. PICK h : Set(t, h) /\ h.pc \in {"readFlag", "persist"}
    BY <1>5 DEF ReadTracker, Handler
  <2>2. task'[t] = h
    BY <1>0, <2>1 DEF Set
  <2>3. QED
    BY <2>1, <2>2
<1>6. \A u \in Tasks : u # t => \A h : Set(t, h) => task'[u] = task[u]
  BY <1>0 DEF Set
<1>7. QED
  BY <1>1, <1>2, <1>3, <1>4, <1>5, <1>6

\* The steps of a handler after which it is neither in a restart nor telling a fault.
LEMMA Told ==
  ASSUME SensorTypeOK, NEW t \in Tasks, task'[t].pc \notin {"setFlag", "restore", "writeRow", "record"}
  PROVE  HandlerSound(t)'
BY DEF HandlerSound, AutoRestarting, At

LEMMA CountsInductive == SensorTypeOK /\ Counts /\ Step => Counts'
<1> SUFFICES ASSUME SensorTypeOK, Counts, Step PROVE Counts'
  OBVIOUS
<1> USE DEF memory, redis, db, history, budget
<1> DEFINE Telling(h) == h.pc \in {"writeRow", "record"} => h.target \in {"fault", "fault_persistent"}
           Kept == used' = used /\ autoRestarts' = autoRestarts
<1>1. ASSUME NEW t \in Tasks, NEW h, Set(t, h), Telling(task'[t]), Kept \/ used' \/ autoRestarts' = 0 PROVE Counts'
  BY <1>1, StepOf DEF Counts
<1>2. ASSUME NEW t \in Tasks, NEW label \in Labels \ {"writeRow", "record"}, NEW k \in Trackers, NEW stuck \in BOOLEAN,
             NEW manual \in BOOLEAN, Set(t, Handler(label, k, "ok", stuck, manual)), Kept
      PROVE  Counts'
  <2>1. task'[t].pc = label
    BY <1>2, StepOf
  <2>2. QED
    BY <1>1, <1>2, <2>1
<1>3. ASSUME NEW t \in Tasks, Set(t, Idle), Kept \/ used' \/ autoRestarts' = 0 PROVE Counts'
  <2>1. task'[t].pc = "idle"
    BY <1>3, StepOf
  <2>2. QED
    BY <1>1, <1>3, <2>1
<1>4. ASSUME NEW t \in Tasks, NEW label \in Labels, Goto(t, label), Kept \/ used',
             label \in {"writeRow", "record"} => task[t].pc \in {"writeRow", "record"}
      PROVE  Counts'
  <2>1. task'[t].pc = label /\ task'[t].target = task[t].target
    BY <1>4, StepOf
  <2>2. Telling(task'[t])
    BY <1>4, <2>1 DEF Counts
  <2>3. QED
    BY <1>1, <1>4, <2>2 DEF Goto
<1>5. ASSUME NEW t \in Tasks, NEW v \in Values, PlausibleReading(t, v) PROVE Counts'
  <2>1. [value |-> v, count |-> 0] \in Trackers
    BY StuckAssumption DEF Trackers
  <2>2. QED
    BY <1>2, <1>5, <2>1 DEF PlausibleReading, Labels
<1>6. ASSUME NEW t \in Tasks, OutOfRange(t) \/ Disconnected(t) \/ ManualRestart(t) PROVE Counts'
  BY <1>2, <1>6, IdleTyped DEF OutOfRange, Disconnected, BeginFault, ManualRestart, Labels
<1>7. ASSUME NEW t \in Tasks, ReadTracker(t) PROVE Counts'
  <2>1. task'[t].pc \in {"readFlag", "persist"}
    BY <1>7, StepOf
  <2>2. QED
    BY <1>1, <1>7, <2>1 DEF ReadTracker
<1>8. ASSUME NEW t \in Tasks, ReadFlag(t) PROVE Counts'
  <2>1. task'[t].target \in {"fault", "fault_persistent"}
    BY <1>8, StepOf DEF FaultFor
  <2>2. QED
    BY <1>1, <1>8, <2>1 DEF ReadFlag
<1>9. ASSUME NEW t \in Tasks, PersistTracker(t) \/ OperationFails(t) \/ ClearFlag(t) PROVE Counts'
  BY <1>3, <1>9 DEF PersistTracker, OperationFails, ClearFlag
<1>10. ASSUME NEW t \in Tasks, WriteRow(t) \/ Restore(t) \/ SetFlag(t) PROVE Counts'
  BY <1>4, <1>10 DEF WriteRow, Restore, SetFlag, At, Labels
<1>11. ASSUME NEW t \in Tasks, MarkFault(t) PROVE Counts'
  BY <1>3, <1>4, <1>11 DEF MarkFault, Labels
<1>12. ASSUME NEW t \in Tasks, ResetTracker(t) PROVE Counts'
  BY <1>3, <1>4, <1>12 DEF ResetTracker, Labels
<1>13. ASSUME Kept \/ autoRestarts' = 0, UNCHANGED task PROVE Counts'
  BY <1>13 DEF Counts
<1>14. ASSUME NEW t \in Tasks, TimerFires(t) PROVE Counts'
  BY <1>2, <1>13, <1>14, IdleTyped DEF TimerFires, Labels
<1>15. CASE MotorStops \/ MotorDisabled \/ MotorHealthy \/ MotorOffline \/ TrackerExpires
  BY <1>13, <1>15 DEF MotorStops, MotorDisabled, MotorHealthy, MotorOffline, TrackerExpires
<1>16. CASE FlagExpires
  BY <1>13, <1>16 DEF FlagExpires
<1>17. CASE CrashAndBoot
  BY <1>17, IdleTyped DEF CrashAndBoot, Counts
<1>18. QED
  BY <1>5, <1>6, <1>7, <1>8, <1>9, <1>10, <1>11, <1>12, <1>14, <1>15, <1>16, <1>17 DEF Step, Continue

LEMMA SoundInductive ==
  SensorTypeOK /\ Counts /\ Sound /\ ~Crossing /\ ~Crossing' /\ Step => Sound'
<1> SUFFICES ASSUME SensorTypeOK, Counts, Sound, ~Crossing, ~Crossing', Step PROVE Sound'
  OBVIOUS
<1> USE DEF memory, redis, db, history, budget
<1>0. /\ task \in [Tasks -> HandlerState] /\ used \in BOOLEAN /\ restartTimer \in BOOLEAN
      /\ autoRestarts \in 0..MaxRestarts
  BY DEF SensorTypeOK
<1> DEFINE Kept == UNCHANGED <<status, restartTimer, used, autoRestarts>>
           Quits(h) == h.pc \notin {"setFlag", "restore", "writeRow", "record"}
<1>1. ASSUME NEW t \in Tasks, NEW h, Set(t, h), Kept, HandlerSound(t)' PROVE Sound'
  <2>1. ASSUME NEW u \in Tasks, u # t PROVE HandlerSound(u)'
    BY <1>1, <2>1, StepOf DEF Sound, HandlerSound, AutoRestarting, At
  <2>2. QED
    BY <1>1, <2>1 DEF Sound
<1>2. ASSUME NEW t \in Tasks, NEW h, Set(t, h), Kept, Quits(task'[t]) PROVE Sound'
  BY <1>1, <1>2, Told
<1>3. ASSUME NEW t \in Tasks, NEW label \in Labels \ {"setFlag", "restore", "writeRow", "record"}, NEW k \in Trackers,
             NEW stuck \in BOOLEAN, NEW manual \in BOOLEAN, Set(t, Handler(label, k, "ok", stuck, manual)), Kept
      PROVE  Sound'
  <2>1. task'[t].pc = label
    BY <1>3, StepOf
  <2>2. QED
    BY <1>2, <1>3, <2>1
<1>4. ASSUME NEW t \in Tasks, NEW v \in Values, PlausibleReading(t, v) PROVE Sound'
  <2>1. [value |-> v, count |-> 0] \in Trackers
    BY StuckAssumption DEF Trackers
  <2>2. QED
    BY <1>3, <1>4, <2>1 DEF PlausibleReading, Labels
<1>5. ASSUME NEW t \in Tasks, OutOfRange(t) \/ Disconnected(t) PROVE Sound'
  BY <1>3, <1>5, IdleTyped DEF OutOfRange, Disconnected, BeginFault, Labels
<1>6. ASSUME NEW t \in Tasks, ReadTracker(t) PROVE Sound'
  <2>1. Quits(task'[t])
    BY <1>6, StepOf
  <2>2. QED
    BY <1>2, <1>6, <2>1 DEF ReadTracker
<1>7. ASSUME NEW t \in Tasks, PersistTracker(t) \/ OperationFails(t) PROVE Sound'
  <2>1. Set(t, Idle) /\ Kept
    BY <1>7 DEF PersistTracker, OperationFails
  <2>2. QED
    BY <1>2, <2>1, StepOf
<1>8. ASSUME NEW t \in Tasks, ReadFlag(t) PROVE Sound'
  <2>1. task'[t].pc = "writeRow" /\ task'[t].target = FaultFor /\ Kept
    BY <1>8, StepOf DEF ReadFlag
  <2>2. HandlerSound(t)'
    BY <2>1 DEF HandlerSound, AutoRestarting, At, FaultFor
  <2>3. QED
    BY <1>1, <1>8, <2>1, <2>2 DEF ReadFlag
<1>9. ASSUME NEW t \in Tasks, WriteRow(t) PROVE Sound'
  <2>1. /\ task'[t].pc = "record" /\ task'[t].target = task[t].target /\ task[t].pc = "writeRow" /\ Kept
    BY <1>9, StepOf DEF WriteRow, Labels, At
  <2>2. HandlerSound(t)'
    BY <2>1 DEF HandlerSound, AutoRestarting, At, Sound
  <2>3. QED
    BY <1>1, <1>9, <2>1, <2>2 DEF WriteRow, Goto
\* The other handlers of the sensor, when one that decides writes or a restart goes on.
<1>alone. ASSUME NEW t \in Tasks, Deciding(t), NEW u \in Tasks, u # t PROVE ~AutoRestarting(u)
  BY <1>alone DEF Crossing
<1>rest. ASSUME NEW t \in Tasks, AutoRestarting(t), NEW u \in Tasks, u # t PROVE ~Deciding(u)
  BY <1>rest DEF Crossing
<1>10. ASSUME NEW t \in Tasks, MarkFault(t) PROVE Sound'
  <2>1. /\ task[t].pc = "record" /\ UNCHANGED <<used, autoRestarts>>
        /\ restartTimer' = (restartTimer \/ task[t].target = "fault")
        /\ \E h : Set(t, h)
    BY <1>10 DEF MarkFault, At, Goto
  <2>2. task'[t].pc \in {"persist", "idle"}
    BY <1>10, StepOf DEF MarkFault, Labels
  <2>3. ASSUME NEW u \in Tasks, u # t PROVE HandlerSound(u)'
    <3>1. task'[u] = task[u]
      BY <2>1, <2>3, StepOf
    <3>2. ~AutoRestarting(u)
      BY <1>alone, <2>1, <2>3 DEF Deciding
    <3>3. QED
      BY <2>1, <2>3, <3>1, <3>2 DEF Sound, HandlerSound, AutoRestarting, At
  <2>4. restartTimer' => ~used'
    BY <2>1 DEF Sound, HandlerSound
  <2>5. HandlerSound(t)'
    BY <2>2, Told
  <2>6. QED
    BY <2>1, <2>3, <2>4, <2>5 DEF Sound
<1>11. ASSUME NEW t \in Tasks, TimerFires(t) PROVE Sound'
  <2>1. restartTimer /\ restartTimer' = FALSE /\ UNCHANGED <<status, used, autoRestarts>> /\ ~used /\ At(t, "idle")
    BY <1>11 DEF TimerFires, Sound
  <2>2. CASE status = "fault"
    <3>1. Set(t, Handler("setFlag", Empty, "ok", FALSE, FALSE)) /\ "setFlag" \in Labels
      BY <1>11, <2>2 DEF TimerFires, Labels
    <3>2. task'[t].pc = "setFlag"
      BY <3>1, IdleTyped, StepOf
    <3>3. HandlerSound(t)'
      BY <2>1, <2>2, <3>2 DEF HandlerSound, AutoRestarting, At
    <3>4. ASSUME NEW u \in Tasks, u # t PROVE HandlerSound(u)'
      BY <2>1, <3>1, <3>4, StepOf DEF Sound, HandlerSound, AutoRestarting, At
    <3>5. QED
      BY <2>1, <3>3, <3>4 DEF Sound
  <2>3. CASE UNCHANGED task
    BY <2>1, <2>3 DEF Sound, HandlerSound, AutoRestarting, At
  <2>4. QED
    BY <1>11, <2>2, <2>3 DEF TimerFires
<1>12. ASSUME NEW t \in Tasks, SetFlag(t) PROVE Sound'
  <2>1. /\ task[t].pc = "setFlag" /\ used' = TRUE /\ UNCHANGED <<status, restartTimer>>
        /\ task'[t].pc = "restore" /\ \E h : Set(t, h)
    BY <1>12, StepOf DEF SetFlag, Labels, At, Goto
  <2>2. ~used /\ ~restartTimer /\ status = "fault"
    BY <2>1 DEF Sound, HandlerSound, AutoRestarting, At
  <2>3. autoRestarts' <= 1
    BY <1>0, <1>12, <2>2 DEF SetFlag, CountRestart, Counts
  <2>4. HandlerSound(t)'
    BY <2>1, <2>2 DEF HandlerSound, At
  <2>5. ASSUME NEW u \in Tasks, u # t PROVE HandlerSound(u)'
    <3>1. ~Deciding(u) /\ task'[u] = task[u]
      BY <1>rest, <2>1, <2>5, StepOf DEF AutoRestarting, At
    <3>2. QED
      BY <3>1, Told DEF Deciding
  <2>6. QED
    BY <2>1, <2>2, <2>3, <2>4, <2>5 DEF Sound
<1>13. ASSUME NEW t \in Tasks, ManualRestart(t) PROVE Sound'
  <2>1. Set(t, Handler("restore", Empty, "ok", FALSE, TRUE)) /\ "restore" \in Labels /\ Kept
    BY <1>13 DEF ManualRestart, Labels
  <2>2. task'[t].pc = "restore" /\ task'[t].manual
    BY <2>1, IdleTyped, StepOf
  <2>3. HandlerSound(t)'
    BY <2>2 DEF HandlerSound, AutoRestarting, At
  <2>4. QED
    BY <1>1, <2>1, <2>3
<1>14. ASSUME NEW t \in Tasks, Restore(t) PROVE Sound'
  <2>1. task[t].pc = "restore" /\ task'[t].pc = "resetTracker" /\ UNCHANGED <<restartTimer, used, autoRestarts>>
        /\ \E h : Set(t, h)
    BY <1>14, StepOf DEF Restore, Labels, At, Goto
  <2>2. ASSUME NEW u \in Tasks, u # t PROVE HandlerSound(u)'
    <3>1. ~AutoRestarting(u) /\ task'[u] = task[u]
      BY <1>alone, <2>1, <2>2, StepOf DEF Deciding
    <3>2. QED
      BY <2>1, <3>1 DEF Sound, HandlerSound, AutoRestarting, At
  <2>3. HandlerSound(t)'
    BY <2>1, Told
  <2>4. QED
    BY <2>1, <2>2, <2>3 DEF Sound
<1>15. ASSUME NEW t \in Tasks, ResetTracker(t) PROVE Sound'
  <2>1. task'[t].pc \in {"clearFlag", "idle"} /\ Kept /\ \E h : Set(t, h)
    BY <1>15, StepOf DEF ResetTracker, Labels, Goto
  <2>2. QED
    BY <1>2, <2>1
<1>cleared. ASSUME used' = FALSE, autoRestarts' = 0, UNCHANGED <<status, restartTimer>>,
                   \A t \in Tasks : task'[t] = task[t] \/ Quits(task'[t])
            PROVE  Sound'
  <2>1. ASSUME NEW t \in Tasks PROVE HandlerSound(t)'
    BY <1>cleared, <2>1, Told DEF Sound, HandlerSound, AutoRestarting, At
  <2>2. QED
    BY <1>cleared, <2>1 DEF Sound
<1>16. ASSUME NEW t \in Tasks, ClearFlag(t) PROVE Sound'
  <2>1. Set(t, Idle) /\ used' = FALSE /\ autoRestarts' = 0 /\ UNCHANGED <<status, restartTimer>>
    BY <1>16 DEF ClearFlag
  <2>2. QED
    BY <1>cleared, <2>1, StepOf
<1>17. CASE MotorStops \/ MotorDisabled \/ MotorHealthy \/ MotorOffline \/ TrackerExpires
  <2>1. UNCHANGED <<status, restartTimer, used, autoRestarts, task>>
    BY <1>17 DEF MotorStops, MotorDisabled, MotorHealthy, MotorOffline, TrackerExpires
  <2>2. QED
    BY <2>1 DEF Sound, HandlerSound, AutoRestarting, At
<1>18. CASE FlagExpires
  BY <1>18, <1>cleared DEF FlagExpires
<1>19. CASE CrashAndBoot
  <2>1. restartTimer' = FALSE /\ UNCHANGED <<used, autoRestarts>> /\ \A t \in Tasks : task'[t].pc = "idle"
    BY <1>19, IdleTyped DEF CrashAndBoot
  <2>2. QED
    BY <2>1, Told DEF Sound
<1>20. QED
  BY <1>4, <1>5, <1>6, <1>7, <1>8, <1>9, <1>10, <1>11, <1>12, <1>13, <1>14, <1>15, <1>16, <1>17, <1>18,
     <1>19 DEF Step, Continue

LEMMA RestartInductive == SensorTypeOK /\ RestartInv /\ [Next]_vars => RestartInv'
<1> SUFFICES ASSUME SensorTypeOK, RestartInv, [Next]_vars PROVE RestartInv'
  OBVIOUS
<1>1. CASE UNCHANGED vars
  BY <1>1 DEF vars, evals, memory, redis, db, history, RestartInv, Counts, Sound, HandlerSound, Crossing,
       AutoRestarting, Deciding, At
<1>2. CASE Next
  <2>1. Counts'
    BY <1>2, CountsInductive DEF RestartInv, Next
  <2>2. Crossing' => crossed'
    BY <1>2 DEF Next, Note
  \* What has been crossed is forgotten when nothing depends on it.
  <2>3. ASSUME crossed, ~crossed' PROVE Sound'
    <3>0. ~(used' \/ \E t \in Tasks : AutoRestarting(t)')
      <4>1. crossed' = (Crossing' \/ (crossed /\ (used' \/ \E t \in Tasks : AutoRestarting(t)')))
        BY <1>2 DEF Next, Note
      <4>2. QED
        BY <2>3, <4>1
    <3>1. ~used' /\ \A t \in Tasks : ~AutoRestarting(t)'
      BY <3>0
    <3>2. autoRestarts' = 0
      BY <2>1, <3>1 DEF Counts
    <3>3. \A t \in Tasks : HandlerSound(t)'
      BY <3>1 DEF HandlerSound, AutoRestarting, At
    <3>4. QED
      BY <3>1, <3>2, <3>3 DEF Sound
  <2>4. ASSUME ~crossed, ~crossed' PROVE Sound'
    BY <1>2, <2>2, <2>4, SoundInductive DEF RestartInv, Next
  <2>5. QED
    BY <2>1, <2>2, <2>3, <2>4 DEF RestartInv
<1>3. QED
  BY <1>1, <1>2

LEMMA RestartInvariant == Spec => []RestartInv
BY SensorTyped, RestartInit, RestartInductive, PTL DEF Spec

\* A sensor is restarted automatically once while the flag of it is kept, whatever becomes of
\* its motor, of its trackers and of the process, and whichever operations are rejected, unless
\* another handler decides in the middle of the automatic restart.
THEOREM OneRestart == Spec => []OneAutoRestart
<1>1. RestartInv => OneAutoRestart
  BY DEF RestartInv, Sound, OneAutoRestart
<1>2. QED
  BY <1>1, RestartInvariant, PTL

\* While the flag is kept and the process runs, a persistent fault is left by an operator's
\* restart and, without a handler in the middle of the automatic restart, by nothing else.
THEOREM PersistentStays == Spec => PersistentIsFinal
<1> DEFINE Left == status = "fault_persistent" /\ used /\ ~crossed =>
              \/ status' = "fault_persistent" \/ crashes' > crashes
              \/ \E t \in Tasks : At(t, "restore") /\ task[t].manual
<1>1. ASSUME SensorTypeOK, RestartInv, [Next]_vars PROVE [Left]_vars
  <2> SUFFICES ASSUME Next, status = "fault_persistent", used, ~crossed PROVE Left
    BY <1>1
  <2> USE DEF memory, redis, db, history, budget
  <2>0. Sound /\ Counts /\ Step
    BY <1>1 DEF RestartInv, Next
  <2>1. CASE UNCHANGED status
    BY <2>1
  <2>2. ASSUME NEW t \in Tasks, MarkFault(t) PROVE status' = "fault_persistent"
    BY <2>0, <2>2 DEF MarkFault, Sound, HandlerSound, Counts, At
  <2>3. ASSUME NEW t \in Tasks, Restore(t) PROVE Left
    <3>1. task[t].manual
      BY <1>1, <2>0, <2>3, StatusTyped DEF Restore, Sound, HandlerSound, AutoRestarting, At, SensorTypeOK
    <3>2. QED
      BY <2>3, <3>1 DEF Restore
  <2>4. CASE CrashAndBoot
    <3>1. crashes \in Nat /\ crashes' = crashes + 1
      BY <1>1, <2>4, LimitsAssumption DEF CrashAndBoot, SensorTypeOK
    <3>2. crashes' > crashes
      BY <3>1
    <3>3. QED
      BY <3>2
  <2> HIDE DEF Left
  <2>5. ASSUME NEW t \in Tasks,
               \/ \E v \in Values : PlausibleReading(t, v)
               \/ OutOfRange(t) \/ Disconnected(t) \/ TimerFires(t) \/ ManualRestart(t)
               \/ ReadTracker(t) \/ PersistTracker(t) \/ ReadFlag(t) \/ WriteRow(t)
               \/ SetFlag(t) \/ ResetTracker(t) \/ ClearFlag(t) \/ OperationFails(t)
        PROVE  UNCHANGED status
    BY <2>5 DEF PlausibleReading, OutOfRange, Disconnected, TimerFires, ManualRestart, ReadTracker,
         PersistTracker, ReadFlag, WriteRow, SetFlag, ResetTracker, ClearFlag, OperationFails
  <2>6. CASE MotorStops \/ MotorDisabled \/ MotorHealthy \/ MotorOffline \/ FlagExpires \/ TrackerExpires
    BY <2>1, <2>6 DEF MotorStops, MotorDisabled, MotorHealthy, MotorOffline, FlagExpires, TrackerExpires
  <2>7. ASSUME status' = "fault_persistent" PROVE Left
    BY <2>7 DEF Left
  <2>8. QED
    BY <2>0, <2>1, <2>2, <2>3, <2>4, <2>5, <2>6, <2>7 DEF Step, Continue
<1>2. QED
  BY <1>1, SensorTyped, RestartInvariant, PTL DEF Spec, PersistentIsFinal, Left
=============================================================================
