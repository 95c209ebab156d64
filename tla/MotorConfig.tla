----------------------------- MODULE MotorConfig -----------------------------
(***************************************************************************)
(* The configuration of motors: what MotorConfigService keeps in the       *)
(* database, and what the evaluation has of it in memory and goes by.      *)
(* A request writes the database first and memory after, so two requests   *)
(* may end up in one order there and in the other one here.                *)
(*                                                                         *)
(* A motor has one sensor, and the protection parameters are two of the    *)
(* four, which are all treated alike.  The motors exist throughout: they   *)
(* come and go in Provisioning.  An action is the code from one await to   *)
(* the next; a query takes effect when it is served, and the code after it *)
(* runs in the action that follows.  Any query may be rejected, before it  *)
(* has taken effect or after, which ends the request.                      *)
(*                                                                         *)
(* Values are natural numbers in a unit small enough for all of them.      *)
(***************************************************************************)
EXTENDS Integers, FiniteSets

CONSTANTS
  Motors,
  Slots,         \* requests under way
  Hundredth,     \* how many units make 0.01, to which thresholds are rounded
  Scaled,        \* motors whose sensor measures current
  Rated,         \* rated current of each motor
  Standard0,     \* the sensor standard that was seeded
  Default,       \* the protection parameters that schema and code default to
  ThresholdDtos, \* thresholds that can be asked for, all three or some
  ParamDtos,     \* protection parameters that can be asked for, both or one
  MaxRequests,   \* bound on the requests
  MaxCrashes     \* bound on restarts of the backend

Thresholds  == {"healthyMax", "warningMax", "criticalMax"}
Params      == {"alarmConsecutiveReadings", "alarmGracePeriodMs"}
NoOverride  == [p \in {} |-> 0]

\* A table of thresholds that a form or the standards may hold.
Ordered(t) == t["healthyMax"] < t["warningMax"] /\ t["warningMax"] < t["criticalMax"]

\* What is left of the order when values have been rounded.
WeaklyOrdered(t) == t["healthyMax"] <= t["warningMax"] /\ t["warningMax"] <= t["criticalMax"]

ASSUME RatedAssumption == Hundredth \in Nat \ {0} /\ Scaled \subseteq Motors /\ Rated \in [Motors -> Nat]
ASSUME StandardAssumption == Standard0 \in [Thresholds -> Nat] /\ Ordered(Standard0)
ASSUME DefaultAssumption == Default \in [Params -> Nat]
ASSUME DtoAssumption ==
  /\ \A d \in ThresholdDtos : \E fs \in SUBSET Thresholds : d \in [fs -> Nat]
  /\ \A d \in ParamDtos : \E ps \in (SUBSET Params) \ {{}} : d \in [ps -> Nat]
ASSUME LimitsAssumption == MaxRequests \in Nat /\ MaxCrashes \in Nat

VARIABLES
  standard,  \* database: the sensor_standards row
  row,       \* database: thresholds of each motor's sensor
  columns,   \* database: protection parameters in the motors table
  global,    \* database: system_config 'alert_config'
  override,  \* database: motor_alert_overrides
  meta,      \* memory: sensorMeta
  params,    \* memory: motorParams
  request,   \* the requests under way
  requests, crashes,
  overlapped, \* history: what two requests have worked on at once
  edited,     \* history: the motors whose own columns were written
  rounded,    \* history: the motors whose thresholds a reset has written
  metaMissed,   \* history: the motors whose thresholds were written and not taken to memory
  paramsMissed  \* history: the motors whose parameters were written and not taken to memory

database == <<standard, row, columns, global, override>>
memory   == <<meta, params>>
budget   == <<requests, crashes>>
missed   == <<metaMissed, paramsMissed>>
history  == <<overlapped, edited, rounded, missed>>
vars     == <<database, memory, request, budget, history>>

Labels == {"findSensor", "readStandard", "writeRow", "writeDefaults", "applyRow",
           "findStandard", "writeStandard",
           "writeColumns", "readGlobal", "writeGlobal", "readOverrides", "applyGlobal",
           "writeOverride", "findOverride", "deleteOverride", "revertToGlobal", "applyParams"}

\* What requests work on: the thresholds of a motor, the standard, the parameters.
Targets == Motors \union {"standard", "params"}

Idle == [pc |-> "idle"]

\* Some of the thresholds, or some of the parameters.
Dto(d) == \E fs \in SUBSET Thresholds \union SUBSET Params : d \in [fs -> Int]

Request(r) ==
  /\ r.pc \in Labels /\ r.target \in Targets /\ r.motor \in Motors
  /\ Dto(r.dto)               \* what was asked for, or what a query has made of it
  /\ r.found \subseteq Motors \* the motors that have an override

Init ==
  /\ standard = Standard0
  /\ row = [m \in Motors |-> Standard0] /\ meta = row
  /\ columns = [m \in Motors |-> Default] /\ params = columns
  /\ global = Default
  /\ override = [m \in Motors |-> NoOverride]
  /\ request = [s \in Slots |-> Idle]
  /\ requests = 0 /\ crashes = 0
  /\ overlapped = {} /\ edited = {} /\ rounded = {} /\ metaMissed = {} /\ paramsMissed = {}

\* { ...current, ...dto }
Merged(current, dto) == [f \in DOMAIN current |-> IF f \in DOMAIN dto THEN dto[f] ELSE current[f]]

\* One in the unit of the model.
One == 100 * Hundredth

\* computeStandardThresholds: for current, Math.round(rated * multiplier * 100) / 100, which can
\* make two thresholds equal. The standards of the other sensor types are used as they are.
Effective(m, std) ==
  [f \in Thresholds |->
     IF m \in Scaled
       THEN Hundredth * ((Rated[m] * std[f] + 50 * Hundredth * Hundredth) \div (One * Hundredth))
       ELSE std[f]]

-----------------------------------------------------------------------------
(* The pages and the API send requests.                                      *)

At(s, label) == request[s].pc = label

Active(target) == {s \in Slots : request[s].pc # "idle" /\ request[s].target = target}

Begin(s, label, target, m, dto) ==
  /\ At(s, "idle") /\ requests < MaxRequests
  /\ requests' = requests + 1
  /\ request' = [request EXCEPT ![s] =
       [pc |-> label, target |-> target, motor |-> m, dto |-> dto, found |-> {}]]
  /\ overlapped' = IF Active(target) # {} THEN overlapped \union {target} ELSE overlapped
  /\ UNCHANGED <<database, memory, crashes, edited, rounded, missed>>

AMotor == CHOOSE m \in Motors : TRUE

\* EditThresholdsModal sends all three thresholds, the API takes any of them.
UpdateThresholds(s, m, dto) == Begin(s, "findSensor", m, m, dto)

ResetThresholds(s, m) == Begin(s, "readStandard", m, m, NoOverride)

UpdateSensorStandard(s, dto) == Begin(s, "findStandard", "standard", AMotor, dto)

\* updateMotor with protection parameters; without, nothing here changes.
UpdateMotor(s, m, dto) == Begin(s, "writeColumns", "params", m, dto)

UpdateAlertConfig(s, dto) == Begin(s, "readGlobal", "params", AMotor, dto)

\* The form of an override sends every parameter.
UpsertAlertOverride(s, m, dto) ==
  /\ DOMAIN dto = Params
  /\ Begin(s, "writeOverride", "params", m, dto)

DeleteAlertOverride(s, m) == Begin(s, "findOverride", "params", m, NoOverride)

-----------------------------------------------------------------------------
(* The service.                                                              *)

Goto(s, label) == request' = [request EXCEPT ![s].pc = label]

\* The request goes on with what its query has returned.
With(s, label, dto, found) ==
  request' = [request EXCEPT ![s].pc = label, ![s].dto = dto, ![s].found = found]

Finish(s) == request' = [request EXCEPT ![s] = Idle]

Valid_Loose(t) == WeaklyOrdered(t)

\* The check of updateThresholds and updateSensorStandard.
Valid(t) == Ordered(t)

\* updateThresholds: what is missing in the dto is taken from the row that was read here.
FindSensor(s) ==
  /\ At(s, "findSensor")
  /\ IF Valid(Merged(row[request[s].motor], request[s].dto)) THEN Goto(s, "writeRow") ELSE Finish(s)
  /\ UNCHANGED <<database, memory, budget, history>>

\* resetThresholds, whose last read is the standard. What it gives is not checked.
ReadStandard(s) ==
  /\ At(s, "readStandard")
  /\ With(s, "writeDefaults", Effective(request[s].motor, standard), {})
  /\ UNCHANGED <<database, memory, budget, history>>

Writes(s) ==
  /\ row' = [row EXCEPT ![request[s].motor] = Merged(@, request[s].dto)]
  /\ Goto(s, "applyRow")
  /\ UNCHANGED <<standard, columns, global, override, memory, budget, overlapped, edited, missed>>

WriteRow(s) == At(s, "writeRow") /\ Writes(s) /\ rounded' = rounded \ {request[s].motor}

WriteDefaults(s) == At(s, "writeDefaults") /\ Writes(s) /\ rounded' = rounded \union {request[s].motor}

ApplyRow_Replaces(s) ==
  /\ At(s, "applyRow")
  /\ meta' = [meta EXCEPT ![request[s].motor] = Merged(Standard0, request[s].dto)]
  /\ Finish(s)
  /\ UNCHANGED <<database, params, budget, history>>

\* updateSensorThresholds: the fields that were sent, over what memory has.
ApplyRow(s) ==
  /\ At(s, "applyRow")
  /\ meta' = [meta EXCEPT ![request[s].motor] = Merged(@, request[s].dto)]
  /\ Finish(s)
  /\ UNCHANGED <<database, params, budget, history>>

FindStandard(s) ==
  /\ At(s, "findStandard")
  /\ IF Valid(Merged(standard, request[s].dto)) THEN Goto(s, "writeStandard") ELSE Finish(s)
  /\ UNCHANGED <<database, memory, budget, history>>

WriteStandard(s) ==
  /\ At(s, "writeStandard")
  /\ standard' = Merged(standard, request[s].dto)
  /\ Finish(s)
  /\ UNCHANGED <<row, columns, global, override, memory, budget, history>>

\* updateMotor: memory will get the whole row that the update has returned.
WriteColumns(s) ==
  /\ At(s, "writeColumns")
  /\ columns' = [columns EXCEPT ![request[s].motor] = Merged(@, request[s].dto)]
  /\ With(s, "applyParams", columns'[request[s].motor], {})
  /\ edited' = edited \union {request[s].motor}
  /\ UNCHANGED <<standard, row, global, override, memory, budget, overlapped, rounded, missed>>

\* updateAlertConfig: the dto is merged into what is read here, ...
ReadGlobal(s) ==
  /\ At(s, "readGlobal")
  /\ With(s, "writeGlobal", Merged(global, request[s].dto), {})
  /\ UNCHANGED <<database, memory, budget, history>>

\* ... which then replaces the row ...
WriteGlobal(s) ==
  /\ At(s, "writeGlobal")
  /\ global' = request[s].dto
  /\ Goto(s, "readOverrides")
  /\ UNCHANGED <<standard, row, columns, override, memory, budget, history>>

\* ... and goes to every motor that has no override by the answer to this query.
ReadOverrides(s) ==
  /\ At(s, "readOverrides")
  /\ With(s, "applyGlobal", request[s].dto, {m \in Motors : override[m] # NoOverride})
  /\ UNCHANGED <<database, memory, budget, history>>

ApplyGlobal_ToAll(s) ==
  /\ At(s, "applyGlobal")
  /\ params' = [m \in Motors |-> request[s].dto]
  /\ Finish(s)
  /\ UNCHANGED <<database, meta, budget, history>>

ApplyGlobal(s) ==
  /\ At(s, "applyGlobal")
  /\ params' = [m \in Motors |-> IF m \in request[s].found THEN params[m] ELSE request[s].dto]
  /\ Finish(s)
  /\ UNCHANGED <<database, meta, budget, history>>

WriteOverride(s) ==
  /\ At(s, "writeOverride")
  /\ override' = [override EXCEPT ![request[s].motor] = request[s].dto]
  /\ Goto(s, "applyParams")
  /\ UNCHANGED <<standard, row, columns, global, memory, budget, history>>

FindOverride(s) ==
  /\ At(s, "findOverride")
  /\ IF override[request[s].motor] # NoOverride THEN Goto(s, "deleteOverride") ELSE Finish(s)
  /\ UNCHANGED <<database, memory, budget, history>>

\* The delete is rejected when another request has deleted the row meanwhile.
DeleteOverride(s) ==
  /\ At(s, "deleteOverride")
  /\ override' = [override EXCEPT ![request[s].motor] = NoOverride]
  /\ IF override[request[s].motor] # NoOverride THEN Goto(s, "revertToGlobal") ELSE Finish(s)
  /\ UNCHANGED <<standard, row, columns, global, memory, budget, history>>

\* deleteAlertOverride reads the global configuration the motor goes back to.
RevertToGlobal(s) ==
  /\ At(s, "revertToGlobal")
  /\ With(s, "applyParams", global, {})
  /\ UNCHANGED <<database, memory, budget, history>>

\* updateMotorParams
ApplyParams(s) ==
  /\ At(s, "applyParams")
  /\ params' = [params EXCEPT ![request[s].motor] = request[s].dto]
  /\ Finish(s)
  /\ UNCHANGED <<database, meta, budget, history>>

\* What a request leaves undone in memory when it ends here.
LeavesMeta(r)   == IF r.pc = "applyRow" THEN {r.motor} ELSE {}
LeavesParams(r) ==
  CASE r.pc \in {"applyParams", "revertToGlobal"} -> {r.motor}
    [] r.pc \in {"readOverrides", "applyGlobal"}  -> Motors
    [] OTHER                                      -> {}

\* A query is rejected, or its answer is lost after it has taken effect. Nothing is undone.
QueryFails(s) ==
  /\ ~At(s, "idle")
  /\ Finish(s)
  /\ metaMissed' = metaMissed \union LeavesMeta(request[s])
  /\ paramsMissed' = paramsMissed \union LeavesParams(request[s])
  /\ UNCHANGED <<database, memory, budget, overlapped, edited, rounded>>

\* The process ends and another one boots: onModuleInit takes the thresholds from the sensors
\* and the parameters from the motors table, and looks at nothing else.
Boot ==
  /\ crashes < MaxCrashes
  /\ crashes' = crashes + 1
  /\ request' = [s \in Slots |-> Idle]
  /\ meta' = row /\ params' = columns
  /\ metaMissed' = {} /\ paramsMissed' = {}
  /\ UNCHANGED <<database, requests, overlapped, edited, rounded>>

Sent(s) ==
  \/ \E m \in Motors : \/ \E dto \in ThresholdDtos : UpdateThresholds(s, m, dto)
                       \/ \E dto \in ParamDtos : UpdateMotor(s, m, dto) \/ UpsertAlertOverride(s, m, dto)
                       \/ ResetThresholds(s, m) \/ DeleteAlertOverride(s, m)
  \/ \E dto \in ThresholdDtos : UpdateSensorStandard(s, dto)
  \/ \E dto \in ParamDtos : UpdateAlertConfig(s, dto)

Served(s) ==
  \/ FindSensor(s) \/ ReadStandard(s) \/ WriteRow(s) \/ WriteDefaults(s) \/ ApplyRow(s)
  \/ FindStandard(s) \/ WriteStandard(s)
  \/ WriteColumns(s) \/ ApplyParams(s)
  \/ ReadGlobal(s) \/ WriteGlobal(s) \/ ReadOverrides(s) \/ ApplyGlobal(s)
  \/ WriteOverride(s) \/ FindOverride(s) \/ DeleteOverride(s) \/ RevertToGlobal(s)

Next == (\E s \in Slots : Sent(s) \/ Served(s) \/ QueryFails(s)) \/ Boot

Spec == Init /\ [][Next]_vars

-----------------------------------------------------------------------------

ConfigTypeOK ==
  /\ standard \in [Thresholds -> Int]
  /\ row \in [Motors -> [Thresholds -> Int]] /\ meta \in [Motors -> [Thresholds -> Int]]
  /\ columns \in [Motors -> [Params -> Int]] /\ params \in [Motors -> [Params -> Int]]
  /\ global \in [Params -> Int]
  /\ \A m \in Motors : override[m] = NoOverride \/ override[m] \in [Params -> Int]
  /\ \A s \in Slots : request[s] = Idle \/ Request(request[s])
  /\ requests \in 0..MaxRequests /\ crashes \in 0..MaxCrashes
  /\ overlapped \subseteq Targets /\ edited \subseteq Motors /\ rounded \subseteq Motors
  /\ metaMissed \subseteq Motors /\ paramsMissed \subseteq Motors

\* The thresholds that readings are evaluated against are the ones in the database, between
\* two requests, unless two requests for the sensor have overlapped, or one has failed after its
\* write and the backend has not restarted since.
ThresholdsInForce ==
  \A m \in Motors \ (overlapped \union metaMissed) : Active(m) = {} => meta[m] = row[m]

\* Healthy, warning and critical stay apart and in order, in the database and in memory and
\* through any sequence of partial updates, resets and changes of the standard. A reset may make
\* them equal by rounding, and never puts them in the wrong order; what is checked against a row
\* that another request for the sensor or the standard changes meanwhile may be out of order, and
\* so may memory when part of a table is merged into one that a failed request has left behind.
ThresholdsOrdered ==
  "standard" \notin overlapped =>
    /\ Ordered(standard)
    /\ \A m \in Motors \ overlapped :
         /\ WeaklyOrdered(row[m])
         /\ m \notin metaMissed => WeaklyOrdered(meta[m])
         /\ m \notin rounded => Ordered(row[m])

ParamsAtRest == Active("params") = {} /\ "params" \notin overlapped

Prescribed(m) == IF override[m] # NoOverride THEN override[m] ELSE global

\* Until the backend restarts, a motor whose own columns nobody has written goes by its override,
\* and by the global configuration if it has none, whatever the order of the requests, unless two
\* of them have overlapped or one that was to reach the motor has failed after its write.
SettingsInForce ==
  crashes = 0 /\ ParamsAtRest =>
    \A m \in Motors \ (edited \union paramsMissed) : params[m] = Prescribed(m)
=============================================================================
