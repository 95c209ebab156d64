------------------------------- MODULE Retention -------------------------------
(***************************************************************************)
(* RetentionService on the readings that TelemetryRepository stores: every *)
(* hour the previous one is condensed into readings_hourly_agg, sensor by  *)
(* sensor, and old readings are deleted.                                   *)
(*                                                                         *)
(* Time is the hour.  The job is one step for each query; an aggregate is  *)
(* the readings its average, minimum and maximum are taken from and the    *)
(* ones counted as anomalies.  rows keeps what flush has written: what the *)
(* job deletes is in purged.  Alerts and sensor faults are not here.       *)
(***************************************************************************)
EXTENDS TelemetryBuffer, Sequences

CONSTANTS
  Sensors,        \* motor_sensors
  RetentionHours, \* retentionDays
  MaxHour         \* bound on the time

ASSUME RetentionAssumption == RetentionHours \in Nat /\ MaxHour \in Nat

VARIABLES
  recorded, \* of every reading received: its sensor, hour and verdict
  hour,     \* the time
  fired,    \* the job of this hour has been started, or its minute has passed
  failing,  \* the last createMany was rejected
  job,      \* what the job is doing
  agg,      \* database: readings_hourly_agg
  purged,   \* database: the readings that have been deleted
  log,      \* database: the last row of retention_job_log for each hour aggregated
  late      \* history: readings stored after the groupBy of their hour

retention == <<recorded, hour, fired, failing, job, agg, purged, log, late>>

Hours == 0..MaxHour
NoAgg == [values |-> {}, anomalies |-> {}]
Rest  == [pc |-> "rest"]

InitRetention ==
  /\ Init
  /\ recorded = <<>> /\ hour = 0 /\ fired = TRUE /\ failing = FALSE
  /\ job = Rest
  /\ agg = [k \in Sensors \X Hours |-> NoAgg]
  /\ purged = {} /\ log = [h \in Hours |-> "none"] /\ late = {}

\* The readings of a sensor and an hour among some.
Group(some, s, h) == {r \in some : recorded[r].sensor = s /\ recorded[r].hour = h}

Kept == Stored \ purged

\* The readings that get into the database after their hour has been looked at.
Grouped(h) == \/ h + 1 < hour
              \/ h + 1 = hour /\ fired /\ job.pc # "group"

Latecomers == {r \in Numbers : rows[r] = 0 /\ rows'[r] > 0 /\ Grouped(recorded[r].hour)}

-----------------------------------------------------------------------------
(* The buffer, with what its readings say.                                   *)

\* The device's clock dates a reading, which may reach the backend in the next hour.
Receive ==
  /\ PersistReading
  /\ \E s \in Sensors, a \in BOOLEAN, h \in {hour, hour - 1} \intersect Hours :
       recorded' = Append(recorded, [sensor |-> s, hour |-> h, anomalous |-> a])
  /\ UNCHANGED <<hour, fired, failing, job, agg, purged, log, late>>

Flush ==
  /\ \/ FlushTick /\ UNCHANGED failing
     \/ FlushSucceeds /\ failing' = FALSE
     \/ FlushFails /\ failing' = TRUE
     \/ OnModuleDestroy /\ UNCHANGED failing
  /\ late' = late \union Latecomers
  /\ UNCHANGED <<recorded, hour, fired, job, agg, purged, log>>

\* The process ends; a job under way ends with it and leaves nothing in the log.
BackendEnds ==
  /\ ProcessEnds /\ failing' = FALSE
  /\ job' = Rest
  /\ late' = late \union Latecomers
  /\ UNCHANGED <<recorded, hour, fired, agg, purged, log>>

-----------------------------------------------------------------------------
(* handleRetention, at minute 5. *)

\* A job takes less than an hour.
Tick ==
  /\ hour < MaxHour /\ job = Rest /\ fired
  /\ hour' = hour + 1 /\ fired' = FALSE
  /\ UNCHANGED <<vars, recorded, failing, job, agg, purged, log, late>>

\* Minute 5. What is in memory longer than the interval of a flush is there because
\* createMany keeps being rejected.
CronFires ==
  /\ ~fired /\ fired' = TRUE
  /\ failing \/ \A r \in buffer \union batch : recorded[r].hour = hour
  /\ job' = [pc |-> "group", hour |-> hour - 1]
  /\ UNCHANGED <<vars, recorded, hour, failing, agg, purged, log, late>>

\* No backend is running at minute 5. Nobody does its work later.
CronMissed ==
  /\ ~fired /\ fired' = TRUE
  /\ crashes < MaxCrashes /\ crashes' = crashes + 1
  /\ UNCHANGED <<buffer, batch, flushing, closing, rows, received, lost, failures>>
  /\ UNCHANGED <<recorded, hour, failing, job, agg, purged, log, late>>

Proceed(label) == job' = [job EXCEPT !.pc = label]

\* groupBy: the sensors that have readings in the hour, with the values to be written.
GroupReadings ==
  /\ job.pc = "group"
  /\ LET groups == [s \in Sensors |-> Group(Kept, s, job.hour)] IN
     job' = [pc |-> "count", hour |-> job.hour, groups |-> groups,
             todo |-> {s \in Sensors : groups[s] # {}}]
  /\ UNCHANGED <<vars, recorded, hour, fired, failing, agg, purged, log, late>>

\* The anomalies of the next sensor are counted by a query of their own.
CountAnomalies ==
  /\ job.pc = "count"
  /\ IF job.todo = {} THEN Proceed("purge")
     ELSE \E s \in job.todo :
       job' = [pc |-> "upsert", hour |-> job.hour, groups |-> job.groups, todo |-> job.todo,
               sensor    |-> s,
               anomalies |-> {r \in Group(Kept, s, job.hour) : recorded[r].anomalous}]
  /\ UNCHANGED <<vars, recorded, hour, fired, failing, agg, purged, log, late>>

Upsert_LastOnly ==
  /\ job.pc = "upsert"
  /\ agg' = [agg EXCEPT ![<<job.sensor, job.hour>>] =
       [values |-> job.groups[job.sensor], anomalies |-> job.anomalies]]
  /\ job' = [job EXCEPT !.pc = "count", !.todo = {}]
  /\ UNCHANGED <<vars, recorded, hour, fired, failing, purged, log, late>>

Upsert ==
  /\ job.pc = "upsert"
  /\ agg' = [agg EXCEPT ![<<job.sensor, job.hour>>] =
       [values |-> job.groups[job.sensor], anomalies |-> job.anomalies]]
  /\ job' = [job EXCEPT !.pc = "count", !.todo = @ \ {job.sensor}]
  /\ UNCHANGED <<vars, recorded, hour, fired, failing, purged, log, late>>

Expired_OffByOne == {r \in Kept : recorded[r].hour <= hour - RetentionHours + 1}

\* The cutoff lies inside the hour: of the oldest one only some readings may be older.
Expired == {r \in Kept : recorded[r].hour < hour - RetentionHours}

PurgeOldReadings ==
  /\ job.pc = "purge"
  /\ purged' = purged \union Expired
  /\ Proceed("alerts")
  /\ UNCHANGED <<vars, recorded, hour, fired, failing, agg, log, late>>

\* purgeOldAlerts, of which nothing is kept here.
PurgeOldAlerts ==
  /\ job.pc = "alerts"
  /\ Proceed("ok")
  /\ UNCHANGED <<vars, recorded, hour, fired, failing, agg, purged, log, late>>

\* A rejected query ends the job; what it has written stays.
JobFails ==
  /\ job.pc \in {"group", "count", "upsert", "purge", "alerts"}
  /\ failures < MaxFailures /\ failures' = failures + 1
  /\ Proceed("error")
  /\ UNCHANGED <<buffer, batch, flushing, closing, rows, received, lost, crashes>>
  /\ UNCHANGED <<recorded, hour, fired, failing, agg, purged, log, late>>

\* The result is logged, or the insertion is rejected.
LogRun ==
  /\ job.pc \in {"ok", "error"}
  /\ job' = Rest
  /\ \/ log' = [log EXCEPT ![job.hour] = job.pc] /\ UNCHANGED failures
     \/ failures < MaxFailures /\ failures' = failures + 1 /\ UNCHANGED log
  /\ UNCHANGED <<buffer, batch, flushing, closing, rows, received, lost, crashes>>
  /\ UNCHANGED <<recorded, hour, fired, failing, agg, purged, late>>

RunJob ==
  \/ GroupReadings \/ CountAnomalies \/ Upsert \/ PurgeOldReadings \/ PurgeOldAlerts
  \/ JobFails \/ LogRun

NextRetention ==
  \/ Receive \/ Flush \/ BackendEnds
  \/ Tick \/ CronFires \/ CronMissed \/ RunJob

SpecRetention == InitRetention /\ [][NextRetention]_<<vars, retention>>

FairRetention ==
  /\ SpecRetention
  /\ WF_<<vars, retention>>(FlushTick /\ Flush)
  /\ WF_<<vars, retention>>((FlushSucceeds \/ FlushFails) /\ Flush)
  /\ WF_<<vars, retention>>(closing /\ BackendEnds)

-----------------------------------------------------------------------------

\* The aggregate of an hour that is logged as done is exact: its values are the readings of
\* the sensor and the hour that are or were in the database, the ones that came after the
\* groupBy excepted, and its anomalies are the anomalous ones among them, except that one
\* that came between the two queries is counted (aggregateLastHour).
AggregatesAreExact ==
  \A s \in Sensors, h \in Hours : log[h] = "ok" =>
    LET a == agg[<<s, h>>]
        all == Group(Stored, s, h) IN
    /\ a.values = all \ late
    /\ {r \in a.values : recorded[r].anomalous} \subseteq a.anomalies
    /\ a.anomalies \ a.values \subseteq {r \in all : recorded[r].anomalous}

\* "After this, only hourly aggregates remain": a reading is deleted only when it is in an
\* aggregate, or its hour is one that no job has finished, or it came too late for it
\* (purgeOldReadings after aggregateLastHour).
PurgedAreAggregated ==
  \A r \in purged :
    \/ r \in agg[<<recorded[r].sensor, recorded[r].hour>>].values
    \/ r \in late
    \/ log[recorded[r].hour] # "ok"
=============================================================================
