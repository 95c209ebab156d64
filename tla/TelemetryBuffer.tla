--------------------------- MODULE TelemetryBuffer ---------------------------
(***************************************************************************)
(* TelemetryRepository: readings are buffered in memory and written to the *)
(* database in batches, one batch at a time.                               *)
(*                                                                         *)
(* A reading is its number in the order in which persistReading received   *)
(* it.  Queries sort by recordedAt, so the order inside a batch says       *)
(* nothing, and buffer and batch are sets.                                 *)
(***************************************************************************)
EXTENDS Naturals, FiniteSets

CONSTANTS
  MaxBuffer,    \* MAX_BUFFER_SIZE
  MaxReadings,  \* bound on the readings received
  MaxFailures,  \* bound on rejected createMany calls
  MaxCrashes    \* bound on ends of the process

ASSUME BufferAssumption == MaxBuffer \in Nat \ {0}
ASSUME LimitsAssumption == MaxReadings \in Nat /\ MaxFailures \in Nat /\ MaxCrashes \in Nat

VARIABLES
  buffer,    \* readings waiting for the next flush
  batch,     \* readings of the createMany call under way
  flushing,  \* the flag that keeps flushes apart
  closing,   \* onModuleDestroy has run: the interval is cleared
  rows,      \* database: how many rows each reading has
  received,  \* history: how many readings persistReading has received
  lost,      \* history: readings that were in memory when a process died
  failures,  \* rejected createMany calls
  crashes    \* ends of the process, closed or not

vars == <<buffer, batch, flushing, closing, rows, received, lost, failures, crashes>>

Numbers == 1..MaxReadings

Stored == {r \in Numbers : rows[r] > 0}

Init ==
  /\ buffer = {} /\ batch = {} /\ lost = {}
  /\ flushing = FALSE /\ closing = FALSE
  /\ rows = [r \in Numbers |-> 0]
  /\ received = 0 /\ failures = 0 /\ crashes = 0

\* createMany writes the whole batch in one statement.
Written == [r \in Numbers |-> IF r \in batch THEN rows[r] + 1 ELSE rows[r]]

-----------------------------------------------------------------------------

StartFlush_SpliceLast(content) ==
  LET taken == {r \in content : \A q \in content : q <= r} IN
  /\ batch' = taken /\ buffer' = content \ taken
  /\ flushing' = TRUE

\* flush up to its await: the buffer is emptied into the batch.
StartFlush(content) ==
  /\ batch' = content /\ buffer' = {}
  /\ flushing' = TRUE

PersistReading ==
  /\ received < MaxReadings
  /\ received' = received + 1
  /\ LET content == buffer \union {received + 1} IN
     IF Cardinality(content) >= MaxBuffer /\ ~flushing
       THEN StartFlush(content)
       ELSE buffer' = content /\ UNCHANGED <<batch, flushing>>
  /\ UNCHANGED <<closing, rows, lost, failures, crashes>>

FlushTick_FullOnly ==
  /\ ~closing /\ ~flushing /\ Cardinality(buffer) >= MaxBuffer
  /\ StartFlush(buffer)
  /\ UNCHANGED <<closing, rows, received, lost, failures, crashes>>

\* The interval of FLUSH_INTERVAL_MS.
FlushTick ==
  /\ ~closing /\ ~flushing /\ buffer # {}
  /\ StartFlush(buffer)
  /\ UNCHANGED <<closing, rows, received, lost, failures, crashes>>

FlushSucceeds ==
  /\ flushing
  /\ rows' = Written
  /\ batch' = {} /\ flushing' = FALSE
  /\ UNCHANGED <<buffer, closing, received, lost, failures, crashes>>

FlushFails_Drops ==
  /\ flushing /\ failures < MaxFailures
  /\ failures' = failures + 1
  /\ rows' \in {rows, Written}
  /\ batch' = {} /\ flushing' = FALSE
  /\ UNCHANGED <<buffer, closing, received, lost, crashes>>

\* createMany is rejected, possibly after the database has committed it: the batch goes
\* back to the front of the buffer.
FlushFails ==
  /\ flushing /\ failures < MaxFailures
  /\ failures' = failures + 1
  /\ rows' \in {rows, Written}
  /\ buffer' = batch \union buffer
  /\ batch' = {} /\ flushing' = FALSE
  /\ UNCHANGED <<closing, received, lost, crashes>>

\* app.close(): a last flush, unless one is under way. Nest does not wait for it.
OnModuleDestroy ==
  /\ crashes < MaxCrashes /\ crashes' = crashes + 1
  /\ ~closing /\ closing' = TRUE
  /\ IF ~flushing /\ buffer # {} THEN StartFlush(buffer) ELSE UNCHANGED <<buffer, batch, flushing>>
  /\ UNCHANGED <<rows, received, lost, failures>>

\* The process ends, closed or not, and another one starts with an empty buffer. The
\* database may still commit the batch it was sent.
ProcessEnds ==
  /\ \/ closing /\ UNCHANGED crashes
     \/ ~closing /\ crashes < MaxCrashes /\ crashes' = crashes + 1
  /\ rows' \in {rows, Written}
  /\ lost' = lost \union ((buffer \union batch) \ {r \in Numbers : rows'[r] > 0})
  /\ buffer' = {} /\ batch' = {} /\ flushing' = FALSE /\ closing' = FALSE
  /\ UNCHANGED <<received, failures>>

Next ==
  \/ PersistReading \/ FlushTick \/ FlushSucceeds \/ FlushFails
  \/ OnModuleDestroy \/ ProcessEnds

Spec == Init /\ [][Next]_vars

\* The interval fires and the database answers; a closed application is taken down.
Fairness ==
  /\ WF_vars(FlushTick)
  /\ WF_vars(FlushSucceeds \/ FlushFails)
  /\ WF_vars(closing /\ ProcessEnds)

FairSpec == Spec /\ Fairness

-----------------------------------------------------------------------------

\* Types; a batch is under way exactly while the flag is up.
BufferTypeOK ==
  /\ buffer \subseteq Numbers /\ batch \subseteq Numbers /\ lost \subseteq Numbers
  /\ flushing \in BOOLEAN /\ closing \in BOOLEAN
  /\ rows \in [Numbers -> Nat]
  /\ received \in 0..MaxReadings /\ failures \in 0..MaxFailures /\ crashes \in 0..MaxCrashes

\* No reading is forgotten: what persistReading received is in the buffer, in the batch
\* under way or in the database, unless the process died with it (flush re-enqueues).
NothingForgotten == \A r \in 1..received : r \in buffer \union batch \union Stored \union lost

\* The database never has a gap: a reading is stored only after all earlier ones, whatever
\* fails and is retried, except for those that died with a process.
StoredWithoutGaps == \A r \in Stored : \A q \in 1..r : q \in Stored \union lost

\* Every reading received ends up in the database or dies with its process.
EventuallyStored == \A n \in Numbers : received >= n ~> n \in Stored \union lost
=============================================================================
