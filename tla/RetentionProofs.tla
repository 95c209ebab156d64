--------------------------- MODULE RetentionProofs ---------------------------
(***************************************************************************)
(* Theorems about TelemetryBuffer and Retention, for every buffer size,    *)
(* retention and bound: no reading is forgotten or overtaken, aggregates   *)
(* are exact, and what is purged is in them.                               *)
(***************************************************************************)
EXTENDS Retention, TLAPS

-----------------------------------------------------------------------------
(* The repository.                                                           *)

\* The batch under way continues what is stored, and nothing is known of readings that
\* have not been received.
BatchContinues == \A r \in batch : \A q \in 1..r : q \in Stored \union batch \union lost

KnownReceived == buffer \union batch \union Stored \subseteq 1..received

\* The inductive invariant: a batch exists only while the flag is up, so a flush takes
\* everything that has not been stored.
BufferInv ==
  /\ BufferTypeOK
  /\ ~flushing => batch = {}
  /\ KnownReceived
  /\ NothingForgotten
  /\ StoredWithoutGaps
  /\ BatchContinues

\* What the rows of a written batch add to the stored readings.
LEMMA WrittenStores ==
  ASSUME BufferTypeOK, rows' \in {rows, Written}
  PROVE  /\ rows' \in [Numbers -> Nat]
         /\ Stored' = Stored \/ Stored' = Stored \union batch
<1>1. CASE rows' = rows
  BY <1>1 DEF Stored, BufferTypeOK
<1>2. CASE rows' = Written
  <2>1. rows' \in [Numbers -> Nat]
    BY <1>2 DEF Written, BufferTypeOK
  <2>2. \A r \in Numbers : rows'[r] > 0 <=> (rows[r] > 0 \/ r \in batch)
    BY <1>2 DEF Written, BufferTypeOK
  <2>3. QED
    BY <2>1, <2>2 DEF Stored, BufferTypeOK
<1>3. QED
  BY <1>1, <1>2

\* The empty repository satisfies the inductive invariant.
LEMMA BufferInit == Init => BufferInv
<1> SUFFICES ASSUME Init PROVE BufferInv
  OBVIOUS
<1>1. Stored = {}
  BY DEF Init, Stored
<1>2. BufferTypeOK
  <2>1. rows \in [Numbers -> Nat] /\ received \in 0..MaxReadings
    BY LimitsAssumption DEF Init
  <2>2. failures \in 0..MaxFailures /\ crashes \in 0..MaxCrashes
    BY LimitsAssumption DEF Init
  <2>3. flushing \in BOOLEAN /\ closing \in BOOLEAN
    BY DEF Init
  <2>4. QED
    BY <2>1, <2>2, <2>3 DEF Init, BufferTypeOK
<1>3. QED
  BY <1>1, <1>2
  DEF Init, BufferInv, KnownReceived, NothingForgotten, StoredWithoutGaps, BatchContinues

\* Every step preserves it: one step of the proof per action.
LEMMA BufferInductive == BufferInv /\ [Next]_vars => BufferInv'
<1> SUFFICES ASSUME BufferInv, [Next]_vars PROVE BufferInv'
  OBVIOUS
<1> USE LimitsAssumption
    DEF BufferInv, BufferTypeOK, KnownReceived, NothingForgotten, StoredWithoutGaps,
        BatchContinues
<1>1. CASE PersistReading
  <2>1. /\ received < MaxReadings /\ received' = received + 1
        /\ Stored' = Stored /\ rows' = rows /\ lost' = lost
        /\ closing' = closing /\ failures' = failures /\ crashes' = crashes
    BY <1>1 DEF PersistReading, Stored
  <2>2. \/ /\ ~flushing /\ flushing' = TRUE
           /\ batch' = buffer \union {received + 1} /\ buffer' = {}
        \/ buffer' = buffer \union {received + 1} /\ batch' = batch /\ flushing' = flushing
    BY <1>1 DEF PersistReading, StartFlush
  <2>3. 1..received' = 1..received \union {received + 1} /\ received + 1 \in Numbers
    BY <2>1 DEF Numbers
  <2>4. BufferTypeOK'
    <3>1. buffer' \subseteq Numbers /\ batch' \subseteq Numbers
      BY <2>2, <2>3
    <3>2. flushing' \in BOOLEAN
      BY <2>2
    <3>3. received' \in 0..MaxReadings
      BY <2>1
    <3>4. QED
      BY <2>1, <3>1, <3>2, <3>3
  <2>5. KnownReceived' /\ (~flushing' => batch' = {})
    BY <2>1, <2>2, <2>3
  <2>6. NothingForgotten' /\ StoredWithoutGaps'
    BY <2>1, <2>2, <2>3
  <2>7. BatchContinues'
    BY <2>1, <2>2, <2>3
  <2>8. QED
    BY <2>4, <2>5, <2>6, <2>7
<1>2. ASSUME ~flushing, StartFlush(buffer),
             UNCHANGED <<rows, received, lost, failures>>,
             closing' \in BOOLEAN, crashes' \in 0..MaxCrashes
      PROVE  BufferInv'
  <2>1. Stored' = Stored /\ batch = {} /\ batch' = buffer /\ buffer' = {} /\ flushing' = TRUE
    BY <1>2 DEF Stored, StartFlush
  <2>2. BatchContinues'
    BY <1>2, <2>1
  <2>3. BufferTypeOK'
    BY <1>2, <2>1
  <2>4. QED
    BY <1>2, <2>1, <2>2, <2>3
<1>3. CASE FlushTick
  BY <1>2, <1>3 DEF FlushTick
<1>4. CASE FlushSucceeds
  <2>1. rows' \in [Numbers -> Nat] /\ (Stored' = Stored \/ Stored' = Stored \union batch)
    BY <1>4, WrittenStores DEF FlushSucceeds
  <2>2. Stored' = Stored \union batch
    BY <1>4 DEF FlushSucceeds, Stored, Written
  <2>3. BufferTypeOK'
    BY <1>4, <2>1 DEF FlushSucceeds
  <2>4. /\ buffer' = buffer /\ batch' = {} /\ received' = received /\ lost' = lost
    BY <1>4 DEF FlushSucceeds
  <2>5. KnownReceived' /\ NothingForgotten' /\ StoredWithoutGaps' /\ BatchContinues'
    BY <2>2, <2>4
  <2>6. QED
    BY <2>3, <2>4, <2>5
<1>5. CASE FlushFails
  <2>1. rows' \in [Numbers -> Nat] /\ (Stored' = Stored \/ Stored' = Stored \union batch)
    BY <1>5, WrittenStores DEF FlushFails
  <2>2. /\ buffer' = batch \union buffer /\ batch' = {} /\ flushing' = FALSE
        /\ UNCHANGED <<closing, received, lost, crashes>>
    BY <1>5 DEF FlushFails
  <2>3. failures' \in 0..MaxFailures
    BY <1>5 DEF FlushFails
  <2>4. BufferTypeOK'
    BY <2>1, <2>2, <2>3
  <2>5. KnownReceived' /\ NothingForgotten' /\ StoredWithoutGaps' /\ BatchContinues'
    BY <2>1, <2>2
  <2>6. QED
    BY <2>2, <2>4, <2>5
<1>6. CASE OnModuleDestroy
  <2>1. /\ closing' = TRUE /\ crashes' \in 0..MaxCrashes
        /\ UNCHANGED <<rows, received, lost, failures>>
    BY <1>6 DEF OnModuleDestroy
  <2>2. CASE ~flushing /\ buffer # {}
    BY <1>2, <1>6, <2>1, <2>2 DEF OnModuleDestroy
  <2>3. CASE ~(~flushing /\ buffer # {})
    <3>1. UNCHANGED <<buffer, batch, flushing>> /\ Stored' = Stored
      BY <1>6, <2>3 DEF OnModuleDestroy, Stored
    <3>2. QED
      BY <2>1, <3>1
  <2>4. QED
    BY <2>2, <2>3
<1>7. CASE ProcessEnds
  <2>1. rows' \in [Numbers -> Nat] /\ (Stored' = Stored \/ Stored' = Stored \union batch)
    BY <1>7, WrittenStores DEF ProcessEnds
  <2>2. lost' = lost \union ((buffer \union batch) \ Stored')
    BY <1>7 DEF ProcessEnds, Stored
  <2>3. /\ buffer' = {} /\ batch' = {} /\ flushing' = FALSE /\ closing' = FALSE
        /\ received' = received /\ failures' = failures /\ crashes' \in 0..MaxCrashes
    BY <1>7 DEF ProcessEnds
  <2>4. BufferTypeOK'
    BY <2>1, <2>2, <2>3
  <2>5. QED
    BY <2>1, <2>2, <2>3, <2>4
<1>8. CASE UNCHANGED vars
  BY <1>8 DEF vars, Stored
<1>9. QED
  BY <1>1, <1>3, <1>4, <1>5, <1>6, <1>7, <1>8 DEF Next

\* No reading is forgotten, whatever fails and is retried (NothingForgotten).
THEOREM NeverForgets == Spec => []NothingForgotten
<1>1. BufferInv => NothingForgotten
  BY DEF BufferInv
<1>2. QED
  BY BufferInit, BufferInductive, <1>1, PTL DEF Spec

\* The stored readings have no gap but for what died with a process (StoredWithoutGaps).
THEOREM NeverGaps == Spec => []StoredWithoutGaps
<1>1. BufferInv => StoredWithoutGaps
  BY DEF BufferInv
<1>2. QED
  BY BufferInit, BufferInductive, <1>1, PTL DEF Spec

-----------------------------------------------------------------------------
(* The hourly job.                                                           *)

Reading == [sensor : Sensors, hour : Hours, anomalous : BOOLEAN]

\* The forms that the record of the job has.
JobShaped ==
  \/ job = Rest
  \/ job = [pc |-> job.pc, hour |-> job.hour]
  \/ job = [pc |-> job.pc, hour |-> job.hour, groups |-> job.groups, todo |-> job.todo]
  \/ job = [pc |-> job.pc, hour |-> job.hour, groups |-> job.groups, todo |-> job.todo,
            sensor |-> job.sensor, anomalies |-> job.anomalies]

Upserting ==
  job = [pc |-> job.pc, hour |-> job.hour, groups |-> job.groups, todo |-> job.todo,
         sensor |-> job.sensor, anomalies |-> job.anomalies]

RetentionTyped ==
  /\ recorded \in Seq(Reading) /\ Len(recorded) = received
  /\ hour \in Hours /\ fired \in BOOLEAN /\ (~fired => hour # 0)
  /\ agg = [k \in Sensors \X Hours |-> agg[k]]
  /\ log \in [Hours -> {"none", "ok", "error"}]
  /\ purged \subseteq Stored /\ late \subseteq Stored

\* A job is about the previous hour, and there is one in each hour.
JobTyped ==
  /\ JobShaped
  /\ job.pc \in {"rest", "group", "count", "upsert", "purge", "alerts", "ok", "error"}
  /\ job.pc = "rest" => job = Rest
  /\ job.pc = "upsert" => Upserting
  /\ job.pc # "rest" => fired /\ hour # 0 /\ job.hour = hour - 1

\* The aggregate of a sensor and an hour is what AggregatesAreExact says.
Exact(s, h) ==
  LET a == agg[<<s, h>>]
      all == Group(Stored, s, h) IN
  /\ a.values = all \ late
  /\ {r \in a.values : recorded[r].anomalous} \subseteq a.anomalies
  /\ a.anomalies \ a.values \subseteq {r \in all : recorded[r].anomalous}

\* Between groupBy and the purge: what has been grouped is what the hour has but for the
\* late readings, and the sensors that are done have their aggregate.
JobFollows ==
  /\ job.pc \in {"count", "upsert"} =>
       /\ job.todo \subseteq Sensors
       /\ \A s \in Sensors : job.groups[s] = Group(Stored, s, job.hour) \ late
       /\ \A s \in Sensors \ job.todo : Exact(s, job.hour)
  /\ job.pc = "upsert" =>
       /\ job.sensor \in Sensors
       /\ {r \in job.groups[job.sensor] : recorded[r].anomalous} \subseteq job.anomalies
       /\ job.anomalies \subseteq {r \in Group(Stored, job.sensor, job.hour) : recorded[r].anomalous}
  /\ job.pc \in {"purge", "alerts", "ok"} => \A s \in Sensors : Exact(s, job.hour)

\* The readings of an hour are not purged before its job has come to that.
PurgeFollows ==
  \A r \in purged :
    /\ recorded[r].hour < hour
    /\ recorded[r].hour + 1 = hour => fired /\ job.pc \notin {"group", "count", "upsert", "purge"}

\* An hour that has not been grouped has no late readings, no aggregate and no result.
HourFollows ==
  /\ \A r \in late : Grouped(recorded[r].hour)
  /\ \A h \in Hours :
       /\ ~Grouped(h) => log[h] # "ok" /\ \A s \in Sensors : agg[<<s, h>>] = NoAgg
       /\ log[h] = "ok" => \A s \in Sensors : Exact(s, h)

RetentionInv ==
  /\ BufferInv /\ RetentionTyped /\ JobTyped
  /\ JobFollows /\ PurgeFollows /\ HourFollows

LEMMA StoredReading ==
  ASSUME RetentionInv, NEW r \in Stored
  PROVE  /\ r \in 1..received /\ recorded[r] \in Reading
         /\ recorded[r].sensor \in Sensors /\ recorded[r].hour \in Hours /\ recorded[r].anomalous \in BOOLEAN
<1>1. r \in 1..received
  BY DEF RetentionInv, BufferInv, KnownReceived
<1>2. recorded[r] \in Reading
  BY <1>1 DEF RetentionInv, RetentionTyped
<1>3. QED
  BY <1>1, <1>2 DEF Reading

\* An aggregate stays exact while the readings of its hour stay, but for late ones.
LEMMA ExactStays ==
  ASSUME NEW s, NEW h, Exact(s, h), agg'[<<s, h>>] = agg[<<s, h>>],
         (Group(Stored, s, h) \ late)' = Group(Stored, s, h) \ late,
         Group(Stored, s, h) \subseteq Group(Stored, s, h)',
         \A r \in Stored : recorded'[r] = recorded[r]
  PROVE  Exact(s, h)'
<1> DEFINE a == agg[<<s, h>>]
<1>1. /\ a.values = Group(Stored, s, h) \ late
      /\ {r \in a.values : recorded[r].anomalous} \subseteq a.anomalies
      /\ a.anomalies \ a.values \subseteq {r \in Group(Stored, s, h) : recorded[r].anomalous}
  BY DEF Exact
<1>2. Group(Stored, s, h) \subseteq Stored
  BY DEF Group
<1>3. \A r \in a.values : recorded'[r] = recorded[r]
  BY <1>1, <1>2
<1>4. {r \in a.values : recorded'[r].anomalous} \subseteq a.anomalies
  BY <1>1, <1>3
<1>5. a.anomalies \ a.values \subseteq {r \in Group(Stored, s, h)' : recorded'[r].anomalous}
  BY <1>1, <1>2
<1>6. QED
  BY <1>1, <1>4, <1>5 DEF Exact

\* A job that has grouped its hour is about the hour before this one.
LEMMA JobGrouped ==
  ASSUME RetentionInv, job.pc # "rest"
  PROVE  /\ job.hour \in Hours /\ job.hour + 1 = hour /\ fired
         /\ Grouped(job.hour) <=> job.pc # "group"
<1>1. hour \in Nat /\ hour # 0 /\ hour <= MaxHour /\ job.hour = hour - 1 /\ fired
  BY RetentionAssumption DEF RetentionInv, JobTyped, RetentionTyped, Hours
<1>2. job.hour \in Hours /\ job.hour + 1 = hour
  BY <1>1, RetentionAssumption DEF Hours
<1>3. ~(job.hour + 1 < hour)
  BY <1>1, <1>2
<1>4. QED
  BY <1>1, <1>2, <1>3 DEF Grouped

\* What goes on in the repository does not disturb the job, or ends it.
LEMMA StorageStep ==
  ASSUME RetentionInv, BufferInv', RetentionTyped',
         Stored \subseteq Stored', \A r \in Stored' : recorded'[r] = recorded[r],
         late' = late \union {r \in Stored' \ Stored : Grouped(recorded[r].hour)},
         UNCHANGED <<hour, fired, agg, purged, log>>, job' = job \/ job' = Rest
  PROVE  RetentionInv'
<1>1. \A h : Grouped(h) => Grouped(h)'
  BY DEF Grouped, Rest
<1>2. ASSUME NEW s, NEW h, Grouped(h)
      PROVE  /\ (Group(Stored, s, h) \ late)' = Group(Stored, s, h) \ late
             /\ Group(Stored, s, h) \subseteq Group(Stored, s, h)'
  BY <1>2 DEF Group
<1>3. ASSUME NEW s, NEW h, Grouped(h), Exact(s, h) PROVE Exact(s, h)'
  BY <1>2, <1>3, ExactStays
<1>4. JobTyped'
  <2>1. Rest.pc = "rest"
    BY DEF Rest
  <2>2. CASE job' = Rest
    BY <2>1, <2>2 DEF JobTyped, JobShaped
  <2>3. CASE job' = job
    BY <2>3 DEF RetentionInv, JobTyped, JobShaped, Upserting
  <2>4. QED
    BY <2>2, <2>3
<1>5. JobFollows'
  <2>1. CASE job' = Rest
    BY <2>1 DEF JobFollows, Rest
  <2>2. CASE job' = job
    <3>1. job.pc \notin {"rest", "group"} => Grouped(job.hour)
      BY JobGrouped
    <3>2. ASSUME job.pc \in {"count", "upsert"}
          PROVE  /\ \A s \in Sensors : job.groups[s] = (Group(Stored, s, job.hour) \ late)'
                 /\ \A s \in Sensors \ job.todo : Exact(s, job.hour)'
      <4>1. Grouped(job.hour)
        BY <3>1, <3>2
      <4>2. ASSUME NEW s \in Sensors PROVE job.groups[s] = (Group(Stored, s, job.hour) \ late)'
        BY <1>2, <2>2, <3>2, <4>1 DEF RetentionInv, JobFollows
      <4>3. ASSUME NEW s \in Sensors \ job.todo PROVE Exact(s, job.hour)'
        BY <1>3, <2>2, <3>2, <4>1 DEF RetentionInv, JobFollows
      <4>4. QED
        BY <4>2, <4>3
    <3>3. ASSUME job.pc = "upsert"
          PROVE  /\ job.sensor \in Sensors
                 /\ {r \in job.groups[job.sensor] : recorded'[r].anomalous} \subseteq job.anomalies
                 /\ job.anomalies \subseteq {r \in Group(Stored, job.sensor, job.hour)' : recorded'[r].anomalous}
      <4> DEFINE v == job.groups[job.sensor]
                 all == Group(Stored, job.sensor, job.hour)
      <4>1. /\ job.sensor \in Sensors /\ v = all \ late
            /\ {r \in v : recorded[r].anomalous} \subseteq job.anomalies
            /\ job.anomalies \subseteq {r \in all : recorded[r].anomalous}
        BY <3>3 DEF RetentionInv, JobFollows
      <4>2. all \subseteq Group(Stored, job.sensor, job.hour)' /\ all \subseteq Stored
        <5>1. all \subseteq Stored
          BY DEF Group
        <5>2. Grouped(job.hour)
          BY <3>1, <3>3
        <5>3. all \subseteq {r \in Stored' : recorded'[r].sensor = job.sensor /\ recorded'[r].hour = job.hour}
          BY DEF Group
        <5>4. QED
          BY <2>2, <5>1, <5>3 DEF Group
      <4>3. \A r \in all : recorded'[r] = recorded[r]
        BY <4>2
      <4>4. {r \in v : recorded'[r].anomalous} \subseteq job.anomalies
        BY <4>1, <4>3
      <4>5. QED
        BY <4>1, <4>2, <4>3, <4>4
    <3>4. ASSUME job.pc \in {"purge", "alerts", "ok"}, NEW s \in Sensors PROVE Exact(s, job.hour)'
      BY <1>3, <2>2, <3>1, <3>4 DEF RetentionInv, JobFollows
    <3>5. job.pc \in {"count", "upsert"} => job.todo \subseteq Sensors
      BY DEF RetentionInv, JobFollows
    <3>6. QED
      BY <2>2, <3>2, <3>3, <3>4, <3>5 DEF JobFollows
  <2>3. QED
    BY <2>1, <2>2
<1>6. PurgeFollows'
  <2>1. purged \subseteq Stored'
    BY DEF RetentionInv, RetentionTyped
  <2>2. \A r \in purged : recorded'[r] = recorded[r]
    BY <2>1
  <2>3. QED
    BY <2>2 DEF RetentionInv, PurgeFollows, Rest
<1>7. HourFollows'
  <2>1. \A r \in late : recorded'[r] = recorded[r] /\ Grouped(recorded[r].hour)
    BY DEF RetentionInv, RetentionTyped, HourFollows
  <2>2. \A r \in late' : Grouped(recorded'[r].hour)
    BY <2>1
  <2>3. \A r \in late' : Grouped(recorded[r].hour)'
    BY <1>1, <2>2 DEF Grouped
  <2>4. ASSUME NEW h \in Hours
        PROVE  /\ ~Grouped(h)' => log[h] # "ok" /\ \A s \in Sensors : agg[<<s, h>>] = NoAgg
               /\ log[h] = "ok" => \A s \in Sensors : Exact(s, h)'
    <3>1. ~Grouped(h) => log[h] # "ok" /\ \A s \in Sensors : agg[<<s, h>>] = NoAgg
      BY DEF RetentionInv, HourFollows
    <3>2. ASSUME log[h] = "ok", NEW s \in Sensors PROVE Exact(s, h)'
      BY <1>3, <3>1, <3>2 DEF RetentionInv, HourFollows
    <3>3. QED
      BY <1>1, <3>1, <3>2
  <2>5. QED
    BY <2>3, <2>4 DEF HourFollows
<1>8. QED
  BY <1>4, <1>5, <1>6, <1>7 DEF RetentionInv

\* A reading is received.
LEMMA ReceiveStep == ASSUME RetentionInv, Receive PROVE RetentionInv'
<1>1. /\ BufferInv' /\ rows' = rows /\ received' = received + 1
      /\ UNCHANGED <<hour, fired, job, agg, purged, log, late>>
  BY BufferInductive DEF Receive, PersistReading, RetentionInv, Next
<1>2. PICK s \in Sensors, a \in BOOLEAN, h \in Hours :
        recorded' = Append(recorded, [sensor |-> s, hour |-> h, anomalous |-> a])
  BY DEF Receive
<1>3. [sensor |-> s, hour |-> h, anomalous |-> a] \in Reading
  BY DEF Reading
<1>4. /\ recorded \in Seq(Reading) /\ Len(recorded) = received
  BY DEF RetentionInv, RetentionTyped
<1>5. /\ recorded' \in Seq(Reading) /\ Len(recorded') = received + 1
      /\ \A r \in 1..received : recorded'[r] = recorded[r]
  BY <1>2, <1>3, <1>4
<1>6. Stored' = Stored
  BY <1>1 DEF Stored
<1>7. \A r \in Stored' : recorded'[r] = recorded[r]
  BY <1>5, <1>6, StoredReading
<1>8. RetentionTyped'
  BY <1>1, <1>5, <1>6 DEF RetentionInv, RetentionTyped
<1>9. QED
  BY <1>1, <1>6, <1>7, <1>8, StorageStep

\* A batch is taken, written or rejected; the process ends.
LEMMA FlushStep == ASSUME RetentionInv, Flush \/ BackendEnds PROVE RetentionInv'
<1>1. /\ BufferInv' /\ received' = received
      /\ UNCHANGED <<recorded, hour, fired, agg, purged, log>>
      /\ late' = late \union Latecomers /\ (job' = job \/ job' = Rest)
  <2>1. [Next]_vars
    BY DEF Flush, BackendEnds, Next
  <2>2. QED
    BY <2>1, BufferInductive DEF Flush, BackendEnds, RetentionInv, FlushTick, FlushSucceeds, FlushFails,
                                 OnModuleDestroy, ProcessEnds
<1>2. rows \in [Numbers -> Nat] /\ BufferTypeOK
  BY DEF RetentionInv, BufferInv, BufferTypeOK
<1>3. rows' \in {rows, Written}
  BY DEF Flush, BackendEnds, FlushTick, FlushSucceeds, FlushFails, OnModuleDestroy, ProcessEnds
<1>4. rows' \in [Numbers -> Nat] /\ Stored \subseteq Stored'
  BY <1>2, <1>3, WrittenStores
<1>5. Latecomers = {r \in Stored' \ Stored : Grouped(recorded[r].hour)}
  <2>1. \A r \in Numbers : rows[r] = 0 /\ rows'[r] > 0 <=> r \in Stored' \ Stored
    BY <1>2, <1>4 DEF Stored
  <2>2. Stored' \ Stored \subseteq Numbers
    BY DEF Stored, Numbers
  <2>3. QED
    BY <2>1, <2>2 DEF Latecomers
<1>6. late' \subseteq Stored'
  BY <1>1, <1>4, <1>5 DEF RetentionInv, RetentionTyped
<1>7. RetentionTyped'
  BY <1>1, <1>4, <1>6 DEF RetentionInv, RetentionTyped
<1>8. QED
  BY <1>1, <1>4, <1>5, <1>7, StorageStep

LEMMA BufferStays ==
  ASSUME BufferInv, UNCHANGED <<buffer, batch, flushing, closing, rows, received, lost>>,
         failures' \in 0..MaxFailures, crashes' \in 0..MaxCrashes
  PROVE  BufferInv'
BY DEF BufferInv, BufferTypeOK, KnownReceived, NothingForgotten, StoredWithoutGaps, BatchContinues, Stored

\* The job does not touch what is stored.
JobStep ==
  /\ UNCHANGED <<buffer, batch, flushing, closing, rows, received, lost, recorded, hour, fired, late>>
  /\ failures' \in 0..MaxFailures /\ crashes' = crashes

LEMMA JobStepStays ==
  ASSUME RetentionInv, JobStep
  PROVE  /\ BufferInv' /\ Stored' = Stored
         /\ \A s, h : Group(Stored, s, h)' = Group(Stored, s, h)
         /\ \A s, h : agg'[<<s, h>>] = agg[<<s, h>>] => (Exact(s, h)' <=> Exact(s, h))
<1>1. crashes \in 0..MaxCrashes
  BY DEF RetentionInv, BufferInv, BufferTypeOK
<1>2. BufferInv'
  BY <1>1, BufferStays DEF RetentionInv, JobStep
<1>3. Stored' = Stored
  BY DEF JobStep, Stored
<1>4. \A s, h : Group(Stored, s, h)' = Group(Stored, s, h)
  BY <1>3 DEF Group, JobStep
<1>5. ASSUME NEW s, NEW h, agg'[<<s, h>>] = agg[<<s, h>>] PROVE Exact(s, h)' <=> Exact(s, h)
  BY <1>4, <1>5 DEF Exact, JobStep
<1>6. QED
  BY <1>2, <1>3, <1>4, <1>5

\* The job goes to another label.
LEMMA ProceedGoes ==
  ASSUME JobTyped, job.pc # "rest", NEW label, label # "rest", Proceed(label)
  PROVE  /\ job'.pc = label /\ job'.hour = job.hour /\ JobShaped'
<1>0. Rest.pc = "rest"
  BY DEF Rest
<1>1. CASE job = [pc |-> job.pc, hour |-> job.hour]
  <2>1. job' = [pc |-> label, hour |-> job.hour]
    BY <1>1 DEF Proceed
  <2>2. QED
    BY <2>1 DEF JobShaped
<1>2. CASE job = [pc |-> job.pc, hour |-> job.hour, groups |-> job.groups, todo |-> job.todo]
  <2>1. job' = [pc |-> label, hour |-> job.hour, groups |-> job.groups, todo |-> job.todo]
    BY <1>2 DEF Proceed
  <2>2. QED
    BY <2>1 DEF JobShaped
<1>3. CASE job = [pc |-> job.pc, hour |-> job.hour, groups |-> job.groups, todo |-> job.todo,
                  sensor |-> job.sensor, anomalies |-> job.anomalies]
  <2>1. job' = [pc |-> label, hour |-> job.hour, groups |-> job.groups, todo |-> job.todo,
                sensor |-> job.sensor, anomalies |-> job.anomalies]
    BY <1>3 DEF Proceed
  <2>2. QED
    BY <2>1 DEF JobShaped
<1>4. QED
  BY <1>0, <1>1, <1>2, <1>3 DEF JobTyped, JobShaped

Unpurged == {"group", "count", "upsert", "purge"}

\* A query that only reads, and the end of a job that is not logged yet.
LEMMA JobAdvances ==
  ASSUME RetentionInv, JobStep, UNCHANGED <<agg, log, purged>>,
         job.pc # "rest", job'.pc \notin {"rest", "group"}, JobTyped', JobFollows',
         job.pc \in Unpurged \/ job'.pc \notin Unpurged
  PROVE  RetentionInv'
<1>1. /\ BufferInv' /\ Stored' = Stored
      /\ \A s, h : Exact(s, h) => Exact(s, h)'
  BY JobStepStays
<1>2. UNCHANGED <<received, recorded, hour, fired, late>>
  BY DEF JobStep
<1>3. RetentionTyped'
  BY <1>1, <1>2 DEF RetentionInv, RetentionTyped
<1>4. \A h : Grouped(h) => Grouped(h)'
  BY <1>2 DEF Grouped
<1>5. HourFollows'
  <2>1. \A r \in late' : Grouped(recorded[r].hour)'
    <3>1. \A r \in late' : Grouped(recorded[r].hour)
      BY <1>2 DEF RetentionInv, HourFollows
    <3>2. QED
      BY <1>2, <1>4, <3>1 DEF Grouped
  <2>2. QED
    BY <1>1, <1>4, <2>1 DEF RetentionInv, HourFollows
<1>6. PurgeFollows'
  BY <1>2 DEF RetentionInv, PurgeFollows, Unpurged
<1>7. QED
  BY <1>1, <1>3, <1>5, <1>6 DEF RetentionInv

LEMMA GroupStep == ASSUME RetentionInv, GroupReadings PROVE RetentionInv'
<1> DEFINE groups == [s \in Sensors |-> Group(Kept, s, job.hour)]
           todo == {s \in Sensors : groups[s] # {}}
<1>1. /\ job.pc = "group" /\ UNCHANGED <<vars, recorded, hour, fired, agg, purged, log, late>>
      /\ job' = [pc |-> "count", hour |-> job.hour, groups |-> groups, todo |-> todo]
  BY DEF GroupReadings
<1>2. JobStep
  BY <1>1 DEF JobStep, vars, RetentionInv, BufferInv, BufferTypeOK
<1>3. job.hour \in Hours /\ job.hour + 1 = hour /\ fired /\ ~Grouped(job.hour) /\ hour # 0 /\ job.hour = hour - 1
  BY <1>1, JobGrouped DEF RetentionInv, JobTyped
\* Nothing of the hour is purged or late.
<1>4. ASSUME NEW s \in Sensors PROVE Group(Kept, s, job.hour) = Group(Stored, s, job.hour) \ late
  <2>1. \A r \in purged \union late : recorded[r].hour # job.hour
    BY <1>1, <1>3 DEF RetentionInv, PurgeFollows, HourFollows
  <2>2. QED
    BY <2>1 DEF Group, Kept
<1>5. ASSUME NEW s \in Sensors \ todo PROVE Exact(s, job.hour)
  <2>1. agg[<<s, job.hour>>] = [values |-> {}, anomalies |-> {}]
    BY <1>3 DEF RetentionInv, HourFollows, NoAgg
  <2>2. Group(Stored, s, job.hour) \ late = {}
    BY <1>4, <1>5
  <2>3. QED
    BY <2>1, <2>2 DEF Exact
<1>6. /\ job'.pc = "count" /\ job'.hour = job.hour /\ job'.groups = groups /\ job'.todo = todo
      /\ job' = [pc |-> job'.pc, hour |-> job'.hour, groups |-> job'.groups, todo |-> job'.todo]
  BY <1>1
<1>7. JobTyped'
  BY <1>1, <1>3, <1>6 DEF JobTyped, JobShaped
<1>8. \A s \in Sensors : groups[s] = (Group(Stored, s, job.hour) \ late)'
  <2>1. \A s \in Sensors : Group(Stored, s, job.hour)' = Group(Stored, s, job'.hour)
    BY <1>2, JobStepStays
  <2>2. QED
    BY <1>1, <1>4, <1>6, <2>1
<1> HIDE DEF groups, todo
<1>9. JobFollows'
  <2>1. late' = late /\ job'.todo \subseteq Sensors
    BY <1>1, <1>6 DEF todo
  <2>2. \A s \in Sensors : job'.groups[s] = Group(Stored, s, job.hour)' \ late'
    BY <1>6, <1>8
  <2>3. \A s \in Sensors \ job'.todo : Exact(s, job.hour)'
    <3>1. \A s \in Sensors \ todo : Exact(s, job'.hour)
      BY <1>5, <1>6
    <3>2. \A s \in Sensors \ todo : Exact(s, job'.hour) => Exact(s, job.hour)'
      BY <1>1, <1>2, JobStepStays
    <3>3. QED
      BY <1>6, <3>1, <3>2
  <2>4. QED
    BY <1>6, <2>1, <2>2, <2>3 DEF JobFollows
<1>10. QED
  BY <1>1, <1>2, <1>6, <1>7, <1>9, JobAdvances DEF Unpurged

LEMMA CountStep == ASSUME RetentionInv, CountAnomalies PROVE RetentionInv'
<1>1. /\ job.pc = "count" /\ UNCHANGED <<vars, recorded, hour, fired, agg, purged, log, late>>
  BY DEF CountAnomalies
<1>2. JobStep
  BY <1>1 DEF JobStep, vars, RetentionInv, BufferInv, BufferTypeOK
<1>3. /\ job.todo \subseteq Sensors
      /\ \A s \in Sensors : job.groups[s] = Group(Stored, s, job.hour) \ late
      /\ \A s \in Sensors \ job.todo : Exact(s, job.hour)
  BY <1>1 DEF RetentionInv, JobFollows
<1>4. job.hour \in Hours /\ job.hour + 1 = hour /\ fired /\ hour # 0 /\ job.hour = hour - 1
  BY <1>1, JobGrouped DEF RetentionInv, JobTyped
<1>5. CASE job.todo = {} /\ Proceed("purge")
  <2>1. job'.pc = "purge" /\ job'.hour = job.hour /\ JobShaped'
    BY <1>1, <1>5, ProceedGoes DEF RetentionInv
  <2>2. JobTyped'
    BY <1>1, <1>4, <2>1 DEF JobTyped
  <2>3. \A s \in Sensors : Exact(s, job'.hour)
    BY <1>3, <1>5, <2>1
  <2>4. \A s \in Sensors : Exact(s, job.hour)'
    BY <1>1, <1>2, <2>3, JobStepStays
  <2>5. JobFollows'
    BY <2>1, <2>4 DEF JobFollows
  <2>6. QED
    BY <1>1, <1>2, <2>1, <2>2, <2>5, JobAdvances DEF Unpurged
<1>6. ASSUME NEW s \in Sensors,
             job' = [pc |-> "upsert", hour |-> job.hour, groups |-> job.groups, todo |-> job.todo, sensor |-> s,
                     anomalies |-> {r \in Group(Kept, s, job.hour) : recorded[r].anomalous}]
      PROVE  RetentionInv'
  <2> DEFINE found == {r \in Group(Kept, s, job.hour) : recorded[r].anomalous}
  <2>1. /\ job'.pc = "upsert" /\ job'.hour = job.hour /\ job'.groups = job.groups /\ job'.todo = job.todo
        /\ job'.sensor = s /\ job'.anomalies = found
        /\ job' = [pc |-> job'.pc, hour |-> job'.hour, groups |-> job'.groups, todo |-> job'.todo,
                   sensor |-> job'.sensor, anomalies |-> job'.anomalies]
    BY <1>6
  <2>2. JobTyped'
    BY <1>1, <1>4, <2>1 DEF JobTyped, JobShaped, Upserting
  <2>3. Group(Stored, s, job.hour) \ late \subseteq Group(Kept, s, job.hour)
    <3>1. \A r \in purged : recorded[r].hour # job.hour
      BY <1>1, <1>4 DEF RetentionInv, PurgeFollows
    <3>2. QED
      BY <3>1 DEF Group, Kept
  <2>4. Group(Kept, s, job.hour) \subseteq Group(Stored, s, job.hour)
    BY DEF Group, Kept
  <2>5. /\ {r \in job.groups[s] : recorded[r].anomalous} \subseteq found
        /\ found \subseteq {r \in Group(Stored, s, job.hour) : recorded[r].anomalous}
    BY <1>3, <2>3, <2>4
  <2> HIDE DEF found
  <2>6. \A u \in Sensors : Group(Stored, u, job.hour)' = Group(Stored, u, job'.hour)
    BY <1>2, JobStepStays
  <2>7. \A u \in Sensors : Exact(u, job'.hour) => Exact(u, job.hour)'
    BY <1>1, <1>2, JobStepStays
  <2>8. \A u \in Sensors : job'.groups[u] = Group(Stored, u, job.hour)' \ late'
    BY <1>1, <1>3, <2>1, <2>6
  <2>9. \A u \in Sensors \ job'.todo : Exact(u, job.hour)'
    BY <1>3, <2>1, <2>7
  <2>10. /\ {r \in job'.groups[s] : recorded'[r].anomalous} \subseteq job'.anomalies
         /\ job'.anomalies \subseteq {r \in Group(Stored, s, job.hour)' : recorded'[r].anomalous}
    BY <1>1, <2>1, <2>5, <2>6
  <2>11. JobFollows'
    BY <1>3, <2>1, <2>8, <2>9, <2>10 DEF JobFollows
  <2>12. QED
    BY <1>1, <1>2, <2>1, <2>2, <2>11, JobAdvances DEF Unpurged
<1>7. QED
  <2>1. CASE job.todo = {}
    BY <1>5, <2>1 DEF CountAnomalies
  <2>2. CASE job.todo # {}
    <3>1. PICK s \in job.todo :
            job' = [pc |-> "upsert", hour |-> job.hour, groups |-> job.groups, todo |-> job.todo, sensor |-> s,
                    anomalies |-> {r \in Group(Kept, s, job.hour) : recorded[r].anomalous}]
      BY <2>2 DEF CountAnomalies
    <3>2. QED
      BY <1>3, <1>6, <3>1
  <2>3. QED
    BY <2>1, <2>2

LEMMA UpsertStep == ASSUME RetentionInv, Upsert PROVE RetentionInv'
<1>1. /\ job.pc = "upsert" /\ UNCHANGED <<vars, recorded, hour, fired, purged, log, late>>
  BY DEF Upsert
<1>2. /\ job.hour \in Hours /\ job.hour + 1 = hour /\ fired /\ hour # 0 /\ job.hour = hour - 1
      /\ Grouped(job.hour) /\ job.sensor \in Sensors
  BY <1>1, JobGrouped DEF RetentionInv, JobTyped, JobFollows
<1>3. PICK s \in Sensors, h \in Hours : s = job.sensor /\ h = job.hour
  BY <1>2
<1>4. PICK new : new = [values |-> job.groups[s], anomalies |-> job.anomalies]
  OBVIOUS
<1>5. agg' = [agg EXCEPT ![<<s, h>>] = new]
  BY <1>3, <1>4 DEF Upsert
<1>6. JobStep
  BY <1>1 DEF JobStep, vars, RetentionInv, BufferInv, BufferTypeOK
<1>7. /\ job.todo \subseteq Sensors
      /\ \A u \in Sensors : job.groups[u] = Group(Stored, u, h) \ late
      /\ \A u \in Sensors \ job.todo : Exact(u, h)
      /\ {r \in job.groups[s] : recorded[r].anomalous} \subseteq job.anomalies
      /\ job.anomalies \subseteq {r \in Group(Stored, s, h) : recorded[r].anomalous}
  BY <1>1, <1>3 DEF RetentionInv, JobFollows
<1>8. /\ agg'[<<s, h>>] = new
      /\ \A u \in Sensors, k \in Hours : <<u, k>> # <<s, h>> => agg'[<<u, k>>] = agg[<<u, k>>]
      /\ agg' = [k \in Sensors \X Hours |-> agg'[k]]
  BY <1>5 DEF RetentionInv, RetentionTyped
<1>9. /\ BufferInv' /\ Stored' = Stored
      /\ \A u, k : Group(Stored, u, k)' = Group(Stored, u, k)
      /\ \A u, k : agg'[<<u, k>>] = agg[<<u, k>>] => (Exact(u, k)' <=> Exact(u, k))
  BY <1>6, JobStepStays
<1>10. Exact(s, h)'
  <2>1. new.values = job.groups[s] /\ new.anomalies = job.anomalies
    BY <1>4
  <2>2. /\ new.values = Group(Stored, s, h) \ late
        /\ {r \in new.values : recorded[r].anomalous} \subseteq new.anomalies
        /\ new.anomalies \ new.values \subseteq {r \in Group(Stored, s, h) : recorded[r].anomalous}
    BY <1>7, <2>1
  <2>3. Group(Stored, s, h)' = Group(Stored, s, h)
    BY <1>9
  <2>4. QED
    BY <1>1, <1>8, <2>2, <2>3 DEF Exact
<1>11. \A u \in Sensors, k \in Hours : Exact(u, k) => Exact(u, k)'
  BY <1>8, <1>9, <1>10
<1>12. /\ job'.pc = "count" /\ job'.hour = h /\ job'.groups = job.groups /\ job'.todo = job.todo \ {s}
       /\ JobShaped'
  <2>1. job = [pc |-> job.pc, hour |-> job.hour, groups |-> job.groups, todo |-> job.todo,
               sensor |-> job.sensor, anomalies |-> job.anomalies]
    BY <1>1 DEF RetentionInv, JobTyped, Upserting
  <2>2. job' = [pc |-> "count", hour |-> job.hour, groups |-> job.groups, todo |-> job.todo \ {job.sensor},
                sensor |-> job.sensor, anomalies |-> job.anomalies]
    BY <2>1 DEF Upsert
  <2>3. QED
    BY <1>3, <2>2 DEF JobShaped
<1>13. JobTyped'
  BY <1>1, <1>2, <1>3, <1>12 DEF JobTyped
<1>14. JobFollows'
  <2>1. \A u \in Sensors : job'.groups[u] = Group(Stored, u, h)' \ late'
    BY <1>1, <1>7, <1>9, <1>12
  <2>2. \A u \in Sensors \ job'.todo : Exact(u, h)'
    BY <1>7, <1>10, <1>11, <1>12
  <2>3. \A u : Group(Stored, u, job.hour)' = Group(Stored, u, h)' /\ (Exact(u, job.hour)' <=> Exact(u, h)')
    BY <1>12 DEF Group, Exact
  <2>4. QED
    BY <1>7, <1>12, <2>1, <2>2, <2>3 DEF JobFollows
<1>15. RetentionTyped'
  BY <1>1, <1>8, <1>9 DEF RetentionInv, RetentionTyped, JobStep, vars
<1>16. PurgeFollows'
  BY <1>1, <1>12 DEF RetentionInv, PurgeFollows
<1>17. HourFollows'
  <2>1. \A k : Grouped(k)' <=> Grouped(k)
    BY <1>1, <1>12 DEF Grouped
  <2>2. \A r \in late' : Grouped(recorded[r].hour)'
    BY <1>1, <1>12 DEF RetentionInv, HourFollows, Grouped
  <2>3. ASSUME NEW k \in Hours, ~Grouped(k), NEW u \in Sensors PROVE agg'[<<u, k>>] = NoAgg
    <3>1. k # h
      BY <1>2, <1>3, <2>3
    <3>2. QED
      BY <1>8, <2>3, <3>1 DEF RetentionInv, HourFollows
  <2>4. \A k \in Hours : /\ ~Grouped(k) => log[k] # "ok"
                         /\ log[k] = "ok" => \A u \in Sensors : Exact(u, k)'
    BY <1>11 DEF RetentionInv, HourFollows
  <2>5. QED
    BY <1>1, <2>1, <2>2, <2>3, <2>4 DEF HourFollows
<1>18. QED
  BY <1>9, <1>13, <1>14, <1>15, <1>16, <1>17 DEF RetentionInv

\* Old readings are deleted.
LEMMA PurgeStep == ASSUME RetentionInv, PurgeOldReadings PROVE RetentionInv'
<1>1. /\ job.pc = "purge" /\ UNCHANGED <<vars, recorded, hour, fired, agg, log, late>>
      /\ purged' = purged \union Expired /\ Proceed("alerts")
  BY DEF PurgeOldReadings
<1>2. JobStep
  BY <1>1 DEF JobStep, vars, RetentionInv, BufferInv, BufferTypeOK
<1>3. job'.pc = "alerts" /\ job'.hour = job.hour /\ JobShaped'
  BY <1>1, ProceedGoes DEF RetentionInv
<1>4. BufferInv' /\ Stored' = Stored /\ \A s, h : Exact(s, h) => Exact(s, h)'
  BY <1>1, <1>2, JobStepStays
<1>5. JobTyped'
  BY <1>1, <1>3 DEF RetentionInv, JobTyped
<1>6. JobFollows'
  <2>1. \A s \in Sensors : Exact(s, job'.hour)
    BY <1>1, <1>3 DEF RetentionInv, JobFollows
  <2>2. \A s \in Sensors : Exact(s, job.hour)'
    BY <1>1, <1>2, <2>1, JobStepStays
  <2>3. QED
    BY <1>3, <2>2 DEF JobFollows
<1>7. RetentionTyped'
  <2>1. Expired \subseteq Stored
    BY DEF Expired, Kept
  <2>2. QED
    BY <1>1, <1>4, <2>1 DEF RetentionInv, RetentionTyped, vars
<1>8. PurgeFollows'
  <2>1. hour \in Nat /\ fired
    BY <1>1, JobGrouped, RetentionAssumption DEF RetentionInv, RetentionTyped, Hours
  <2>2. ASSUME NEW r \in Expired PROVE recorded[r].hour < hour
    <3>1. recorded[r].hour \in Nat /\ recorded[r].hour < hour - RetentionHours
      BY StoredReading, RetentionAssumption DEF Expired, Kept, Hours
    <3>2. QED
      BY <2>1, <3>1, RetentionAssumption
  <2>3. QED
    BY <1>1, <1>3, <2>1, <2>2 DEF RetentionInv, PurgeFollows
<1>9. HourFollows'
  <2>1. \A k : Grouped(k)' <=> Grouped(k)
    BY <1>1, <1>3 DEF Grouped
  <2>2. \A r \in late' : Grouped(recorded[r].hour)'
    BY <1>1, <1>3 DEF RetentionInv, HourFollows, Grouped
  <2>3. QED
    BY <1>1, <1>4, <2>1, <2>2 DEF RetentionInv, HourFollows
<1>10. QED
  BY <1>4, <1>5, <1>6, <1>7, <1>8, <1>9 DEF RetentionInv

LEMMA AlertsStep == ASSUME RetentionInv, PurgeOldAlerts PROVE RetentionInv'
<1>1. /\ job.pc = "alerts" /\ UNCHANGED <<vars, recorded, hour, fired, agg, purged, log, late>> /\ Proceed("ok")
  BY DEF PurgeOldAlerts
<1>2. JobStep
  BY <1>1 DEF JobStep, vars, RetentionInv, BufferInv, BufferTypeOK
<1>3. job'.pc = "ok" /\ job'.hour = job.hour /\ JobShaped'
  BY <1>1, ProceedGoes DEF RetentionInv
<1>4. JobTyped'
  BY <1>1, <1>3 DEF RetentionInv, JobTyped
<1>5. \A s \in Sensors : Exact(s, job'.hour)
  BY <1>1, <1>3 DEF RetentionInv, JobFollows
<1>6. \A s \in Sensors : Exact(s, job.hour)'
  BY <1>1, <1>2, <1>5, JobStepStays
<1>7. JobFollows'
  BY <1>3, <1>6 DEF JobFollows
<1>8. QED
  BY <1>1, <1>2, <1>3, <1>4, <1>7, JobAdvances DEF Unpurged

LEMMA FailStep == ASSUME RetentionInv, JobFails PROVE RetentionInv'
<1>1. /\ job.pc # "rest" /\ UNCHANGED <<recorded, hour, fired, agg, purged, log, late>> /\ Proceed("error")
  BY DEF JobFails
<1>2. JobStep
  BY LimitsAssumption DEF JobFails, JobStep, RetentionInv, BufferInv, BufferTypeOK
<1>3. job'.pc = "error" /\ job'.hour = job.hour /\ JobShaped'
  BY <1>1, ProceedGoes DEF RetentionInv
<1>4. JobTyped'
  BY <1>1, <1>3 DEF RetentionInv, JobTyped
<1>5. JobFollows'
  BY <1>3 DEF JobFollows
<1>6. QED
  BY <1>1, <1>2, <1>3, <1>4, <1>5, JobAdvances DEF Unpurged

LEMMA LogStep == ASSUME RetentionInv, LogRun PROVE RetentionInv'
<1>1. /\ job.pc \in {"ok", "error"} /\ job' = Rest
      /\ UNCHANGED <<recorded, hour, fired, agg, purged, late>>
      /\ log' = [log EXCEPT ![job.hour] = job.pc] \/ log' = log
  BY DEF LogRun
<1>2. JobStep
  BY LimitsAssumption DEF LogRun, JobStep, RetentionInv, BufferInv, BufferTypeOK
<1>3. job.hour \in Hours /\ Grouped(job.hour)
  BY <1>1, JobGrouped
<1>4. BufferInv' /\ Stored' = Stored /\ \A s, h : Exact(s, h) => Exact(s, h)'
  BY <1>1, <1>2, JobStepStays
<1>5. job'.pc = "rest"
  BY <1>1 DEF Rest
<1>6. JobTyped' /\ JobFollows'
  BY <1>1, <1>5 DEF JobTyped, JobShaped, JobFollows
<1>7. log \in [Hours -> {"none", "ok", "error"}]
  BY DEF RetentionInv, RetentionTyped
<1>8. /\ log' \in [Hours -> {"none", "ok", "error"}]
      /\ \A h \in Hours : log'[h] = log[h] \/ (h = job.hour /\ log'[h] = job.pc)
  BY <1>1, <1>7
<1>9. RetentionTyped'
  BY <1>1, <1>2, <1>4, <1>8 DEF RetentionInv, RetentionTyped, JobStep
<1>10. PurgeFollows'
  BY <1>1, <1>5 DEF RetentionInv, PurgeFollows
<1>11. HourFollows'
  <2>1. \A h : Grouped(h)' <=> Grouped(h)
    BY <1>1, <1>5 DEF Grouped
  <2>2. \A r \in late' : Grouped(recorded[r].hour)'
    BY <1>1, <1>5 DEF RetentionInv, HourFollows, Grouped
  <2>3. ASSUME NEW h \in Hours
        PROVE  /\ ~Grouped(h) => log'[h] # "ok" /\ \A s \in Sensors : agg'[<<s, h>>] = NoAgg
               /\ log'[h] = "ok" => \A s \in Sensors : Exact(s, h)
    <3>1. CASE log'[h] = log[h]
      BY <1>1, <3>1 DEF RetentionInv, HourFollows
    <3>2. CASE h = job.hour /\ log'[h] = job.pc
      BY <1>1, <1>3, <3>2 DEF RetentionInv, JobFollows
    <3>3. QED
      BY <1>8, <3>1, <3>2
  <2>4. QED
    BY <1>4, <2>1, <2>2, <2>3 DEF HourFollows
<1>12. QED
  BY <1>4, <1>6, <1>9, <1>10, <1>11 DEF RetentionInv

\* The time goes on, and minute 5 comes.
LEMMA ClockStep == ASSUME RetentionInv, Tick \/ CronFires \/ CronMissed PROVE RetentionInv'
<1>1. /\ UNCHANGED <<buffer, batch, flushing, closing, rows, received, lost, failures>>
      /\ UNCHANGED <<recorded, agg, purged, log, late>>
      /\ crashes' \in 0..MaxCrashes
  BY LimitsAssumption DEF Tick, CronFires, CronMissed, vars, RetentionInv, BufferInv, BufferTypeOK
<1>2. BufferInv'
  <2>1. failures \in 0..MaxFailures
    BY DEF RetentionInv, BufferInv, BufferTypeOK
  <2>2. QED
    BY <1>1, <2>1, BufferStays DEF RetentionInv
<1>3. Stored' = Stored
  BY <1>1 DEF Stored
<1>4. \A s, h : Exact(s, h)' <=> Exact(s, h)
  BY <1>1, <1>3 DEF Exact, Group
<1>5. hour \in Nat /\ hour <= MaxHour /\ Rest.pc = "rest" /\ (~fired => hour # 0)
  BY RetentionAssumption DEF RetentionInv, RetentionTyped, Hours, Rest
<1>6. /\ job = Rest
      /\ \/ hour' = hour + 1 /\ hour < MaxHour /\ fired /\ fired' = FALSE /\ job' = Rest
         \/ hour' = hour /\ ~fired /\ fired' = TRUE /\ job' = [pc |-> "group", hour |-> hour - 1]
         \/ hour' = hour /\ ~fired /\ fired' = TRUE /\ job' = Rest
  BY DEF Tick, CronFires, CronMissed, RetentionInv, JobTyped
<1>7. /\ job.pc = "rest" /\ job'.pc \in {"rest", "group"}
      /\ job'.pc = "group" => job' = [pc |-> "group", hour |-> hour - 1] /\ fired' /\ hour' = hour /\ ~fired
      /\ job'.pc = "rest" => job' = Rest
  BY <1>5, <1>6
<1>8. JobTyped' /\ JobFollows'
  <2>1. CASE job'.pc = "rest"
    BY <1>7, <2>1 DEF JobTyped, JobShaped, JobFollows
  <2>2. CASE job'.pc = "group"
    <3>1. job'.hour = hour' - 1 /\ job' = [pc |-> job'.pc, hour |-> job'.hour] /\ hour' # 0 /\ fired'
      BY <1>5, <1>7, <2>2
    <3>2. QED
      BY <2>2, <3>1 DEF JobTyped, JobShaped, JobFollows
  <2>3. QED
    BY <1>7, <2>1, <2>2
<1>9. RetentionTyped'
  <2>1. hour' \in Hours /\ fired' \in BOOLEAN /\ (~fired' => hour' # 0)
    <3>1. \/ hour' = hour + 1 /\ hour < MaxHour /\ fired' = FALSE
          \/ hour' = hour /\ fired' = TRUE
      BY <1>6
    <3>2. hour' \in Nat /\ hour' <= MaxHour /\ (~fired' => hour' # 0)
      BY <1>5, <3>1, RetentionAssumption
    <3>3. hour' \in Hours
      BY <3>2, RetentionAssumption DEF Hours
    <3>4. fired' \in BOOLEAN
      BY <3>1
    <3>5. QED
      BY <3>2, <3>3, <3>4
  <2>2. QED
    BY <1>1, <1>3, <2>1 DEF RetentionInv, RetentionTyped
<1>10. \A r \in Stored : recorded[r].hour \in Nat
  BY StoredReading, RetentionAssumption DEF Hours
<1>11. PurgeFollows'
  <2>1. purged \subseteq Stored
    BY DEF RetentionInv, RetentionTyped
  <2>2. ASSUME NEW r \in purged
        PROVE  recorded[r].hour < hour' /\ recorded[r].hour + 1 # hour'
    <3>1. recorded[r].hour < hour /\ recorded[r].hour \in Nat /\ (recorded[r].hour + 1 = hour => fired)
      BY <1>10, <2>1 DEF RetentionInv, PurgeFollows
    <3>2. QED
      BY <1>5, <1>6, <3>1
  <2>3. QED
    BY <1>1, <2>2 DEF PurgeFollows
<1>12. HourFollows'
  <2>1. \A h \in Hours : Grouped(h) => Grouped(h)'
    <3> SUFFICES ASSUME NEW h \in Hours, h + 1 < hour \/ (h + 1 = hour /\ fired)
                 PROVE  h + 1 < hour' \/ (h + 1 = hour' /\ fired' /\ job'.pc # "group")
      BY DEF Grouped
    <3>1. h \in Nat
      BY RetentionAssumption DEF Hours
    <3>2. QED
      BY <1>5, <1>6, <3>1
  <2>2. \A r \in late : recorded[r].hour \in Hours /\ Grouped(recorded[r].hour)
    BY StoredReading DEF RetentionInv, RetentionTyped, HourFollows
  <2>3. \A r \in late' : Grouped(recorded[r].hour)'
    <3>1. \A r \in late' : \E h \in Hours : h = recorded'[r].hour /\ Grouped(h)'
      BY <1>1, <2>1, <2>2
    <3>2. QED
      BY <3>1 DEF Grouped
  <2>4. QED
    BY <1>1, <1>4, <2>1, <2>3 DEF RetentionInv, HourFollows
<1>13. QED
  BY <1>2, <1>8, <1>9, <1>11, <1>12 DEF RetentionInv

LEMMA RetentionInit == InitRetention => RetentionInv
<1> SUFFICES ASSUME InitRetention PROVE RetentionInv
  OBVIOUS
<1>1. BufferInv /\ Stored = {} /\ received = 0
  BY BufferInit DEF InitRetention, Init, Stored
<1>2. job = Rest /\ job.pc = "rest"
  BY DEF InitRetention, Rest
<1>3. RetentionTyped
  <2>1. recorded = <<>> /\ recorded \in Seq(Reading) /\ Len(recorded) = 0
    BY DEF InitRetention
  <2>2. 0 \in Hours
    BY RetentionAssumption DEF Hours
  <2>3. QED
    BY <1>1, <2>1, <2>2 DEF InitRetention, RetentionTyped
<1>4. JobTyped /\ JobFollows
  BY <1>2 DEF JobTyped, JobShaped, JobFollows
<1>5. PurgeFollows /\ HourFollows
  BY DEF InitRetention, PurgeFollows, HourFollows
<1>6. QED
  BY <1>1, <1>3, <1>4, <1>5 DEF RetentionInv

LEMMA RetentionInductive == RetentionInv /\ [NextRetention]_<<vars, retention>> => RetentionInv'
<1> SUFFICES ASSUME RetentionInv, [NextRetention]_<<vars, retention>> PROVE RetentionInv'
  OBVIOUS
<1>1. CASE UNCHANGED <<vars, retention>>
  <2>1. BufferInv'
    BY <1>1, BufferInductive DEF RetentionInv
  <2>2. Stored' = Stored
    BY <1>1 DEF vars, Stored
  <2>3. RetentionTyped'
    BY <1>1, <2>2 DEF vars, retention, RetentionInv, RetentionTyped
  <2>4. QED
    BY <1>1, <2>1, <2>2, <2>3, StorageStep DEF retention
<1>2. QED
  BY <1>1, ReceiveStep, FlushStep, ClockStep, GroupStep, CountStep, UpsertStep, PurgeStep, AlertsStep,
     FailStep, LogStep DEF NextRetention, RunJob

\* The aggregates of an hour that is logged as done are exact (AggregatesAreExact), whatever is
\* stored, rejected or deleted while the job is at its queries.
THEOREM Aggregates == SpecRetention => []AggregatesAreExact
<1>1. RetentionInv => AggregatesAreExact
  BY DEF RetentionInv, HourFollows, AggregatesAreExact, Exact
<1>2. QED
  BY RetentionInit, RetentionInductive, <1>1, PTL DEF SpecRetention

\* What is deleted is in an aggregate, or its hour was not done, or it came too late
\* (PurgedAreAggregated): however long readings are kept.
THEOREM Purged == SpecRetention => []PurgedAreAggregated
<1>1. RetentionInv => PurgedAreAggregated
  <2> SUFFICES ASSUME RetentionInv, NEW r \in purged, r \notin late, log[recorded[r].hour] = "ok"
               PROVE  r \in agg[<<recorded[r].sensor, recorded[r].hour>>].values
    BY DEF PurgedAreAggregated
  <2>1. r \in Stored /\ recorded[r].sensor \in Sensors /\ recorded[r].hour \in Hours
    BY StoredReading DEF RetentionInv, RetentionTyped
  <2>2. Exact(recorded[r].sensor, recorded[r].hour)
    BY <2>1 DEF RetentionInv, HourFollows
  <2>3. r \in Group(Stored, recorded[r].sensor, recorded[r].hour)
    BY <2>1 DEF Group
  <2>4. QED
    BY <2>2, <2>3 DEF Exact
<1>2. QED
  BY RetentionInit, RetentionInductive, <1>1, PTL DEF SpecRetention

\* The job, its failures and the hours without a backend do not make the repository forget a
\* reading or store one before an earlier one.
THEOREM RetentionKeepsReadings == SpecRetention => [](NothingForgotten /\ StoredWithoutGaps)
<1>1. RetentionInv => NothingForgotten /\ StoredWithoutGaps
  BY DEF RetentionInv, BufferInv
<1>2. QED
  BY RetentionInit, RetentionInductive, <1>1, PTL DEF SpecRetention
=============================================================================
