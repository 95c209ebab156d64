------------------------ MODULE MotorEvaluationProofs ------------------------
(***************************************************************************)
(* Theorems about MotorEvaluation and the TelemetryConsumer around it, for  *)
(* any number of handlers and sensors and with whatever crashes, rejected   *)
(* operations and expired locks the bounds allow.                           *)
(***************************************************************************)
EXTENDS TelemetryConsumer, TLAPS

-----------------------------------------------------------------------------
(* Handlers: what a step does to the suspended handlers. *)

\* A handler inside the evaluation is built from typed parts.
LEMMA InsideTyped ==
  ASSUME NEW label \in Labels, NEW locked \in BOOLEAN, NEW target \in Statuses,
         NEW count \in Nat
  PROVE  Inside(label, locked, target, count) \in TaskState
BY DEF Inside, TaskState, Readings

\* So is one that waits with a reading or clears counters.
LEMMA WaitingTyped ==
  ASSUME NEW label \in Labels, NEW sensors \in SUBSET Sensors, NEW reading \in Readings
  PROVE  Waiting(label, sensors, reading) \in TaskState
BY DEF Waiting, TaskState, Statuses

\* A step replaces one handler and leaves the others alone.
LEMMA HandlerStep ==
  ASSUME task \in [Tasks -> TaskState], HandlersWellFormed,
         NEW t \in Tasks, NEW h \in TaskState, Set(t, h), WellFormed(h)
  PROVE  /\ task' \in [Tasks -> TaskState] /\ HandlersWellFormed'
         /\ task'[t] = h
         /\ \A u \in Tasks : u # t => task'[u] = task[u]
BY DEF Set, HandlersWellFormed, WellFormed

\* The handler that Return leaves behind.
LEMMA ReturnStep ==
  ASSUME task \in [Tasks -> TaskState], HandlersWellFormed, NEW t \in Tasks, Return(t)
  PROVE  task' \in [Tasks -> TaskState] /\ HandlersWellFormed'
<1> DEFINE h == IF task[t].locked THEN Inside("release", TRUE, "healthy", 0) ELSE Idle
<1>1. h \in TaskState
  BY InsideTyped, WaitingTyped DEF Idle, Labels, Statuses, Readings
<1>2. WellFormed(h)
  BY DEF WellFormed, Inside, Idle, Waiting
<1>3. Set(t, h)
  BY DEF Return
<1>4. QED
  BY <1>1, <1>2, <1>3, HandlerStep

\* The handler that Goto moves on, when the new label keeps the handler well formed.
LEMMA GotoStep ==
  ASSUME task \in [Tasks -> TaskState], HandlersWellFormed, NEW t \in Tasks,
         NEW label \in Labels, Goto(t, label),
         WellFormed(Inside(label, task[t].locked, task[t].target, task[t].count))
  PROVE  task' \in [Tasks -> TaskState] /\ HandlersWellFormed'
<1>1. /\ task[t].locked \in BOOLEAN /\ task[t].target \in Statuses
      /\ task[t].count \in Nat
  BY DEF TaskState
<1>2. QED
  BY <1>1, InsideTyped, HandlerStep DEF Goto

-----------------------------------------------------------------------------
(* Type correctness and the restart budget. *)

\* The initial state satisfies the strengthened invariant.
LEMMA BudgetInit == Init => BudgetInv
<1> SUFFICES ASSUME Init PROVE BudgetInv
  OBVIOUS
<1> USE SensorsAssumption, ParamsAssumption, BoundsAssumption DEF Init
<1>1. Idle \in TaskState /\ WellFormed(Idle)
  BY WaitingTyped DEF Idle, Labels, Readings, WellFormed, Waiting
<1>2. TypeOK
  <2>1. CounterCap \in Nat
    BY DEF CounterCap
  <2>2. counter \in [Sensors -> 0..CounterCap] /\ task \in [Tasks -> TaskState]
    BY <1>1, <2>1
  <2>3. openAlerts \in [AlertTypes -> Nat]
    OBVIOUS
  <2>4. /\ autoRestarts \in Nat /\ restartsSent \in Nat
        /\ overruns \in 0..MaxOverruns /\ crashes \in 0..MaxCrashes /\ faults \in 0..MaxFaults
    OBVIOUS
  <2>5. /\ graceTimer \in BOOLEAN /\ cooldown \in BOOLEAN /\ lock \in BOOLEAN
        /\ late \subseteq Tasks /\ lost \in BOOLEAN /\ disturbed \in BOOLEAN
    OBVIOUS
  <2>6. QED
    BY <2>2, <2>3, <2>4, <2>5 DEF TypeOK, Statuses
<1>3. HandlersWellFormed /\ RestartBudget
  BY <1>1 DEF HandlersWellFormed, RestartBudget
<1>4. QED
  BY <1>2, <1>3 DEF BudgetInv

\* A step of the evaluation, or one that leaves it alone.
Steps == Step \/ UNCHANGED evaluation

\* Every step preserves it: one step of the proof per action.
LEMMA BudgetSteps == BudgetInv /\ Steps /\ disturbed' \in BOOLEAN => BudgetInv'
<1> SUFFICES ASSUME BudgetInv, Steps, disturbed' \in BOOLEAN PROVE BudgetInv'
  OBVIOUS
<1> USE SensorsAssumption, ParamsAssumption, BoundsAssumption
    DEF BudgetInv, TypeOK, RestartBudget, memory, redis, db, history, budget, At,
        Statuses, Readings
<1> DEFINE Handlers == task \in [Tasks -> TaskState] /\ HandlersWellFormed
<1>0. \A t \in Tasks : /\ task[t].pc \in Labels /\ task[t].locked \in BOOLEAN
                       /\ task[t].sensors \in SUBSET Sensors
                       /\ task[t].target \in Statuses /\ task[t].count \in Nat
                       /\ WellFormed(task[t])
  BY DEF TaskState, HandlersWellFormed
<1>1. ASSUME NEW t \in Tasks, NEW s \in Sensors, NEW r \in Readings,
             ReadingArrives(t, s, r)
      PROVE  BudgetInv'
  <2>1. Handlers'
    BY <1>1, WaitingTyped, HandlerStep
    DEF ReadingArrives, WellFormed, Waiting, Labels
  <2>2. QED
    BY <1>1, <2>1 DEF ReadingArrives
<1>2. ASSUME NEW t \in Tasks, LockBusy(t) PROVE BudgetInv'
  <2>1. Handlers'
    BY <1>2, WaitingTyped, HandlerStep
    DEF LockBusy, WellFormed, Idle, Waiting, Labels
  <2>2. QED
    BY <1>2, <2>1 DEF LockBusy
<1>3. ASSUME NEW t \in Tasks, ImmediateTrip(t) PROVE BudgetInv'
  <2>1. Handlers'
    BY <1>3, InsideTyped, HandlerStep
    DEF ImmediateTrip, BeginTrip, WellFormed, Inside, Labels
  <2>2. QED
    BY <1>3, <2>1 DEF ImmediateTrip, Acquire, BeginTrip
<1>4. ASSUME NEW t \in Tasks, CountAnomaly(t) PROVE BudgetInv'
  <2>1. \/ Set(t, Inside("commit", TRUE, "alarm", 0))
        \/ Set(t, Inside("release", TRUE, "healthy", 0))
    BY <1>4 DEF CountAnomaly
  <2>2. Handlers'
    BY <2>1, InsideTyped, HandlerStep DEF WellFormed, Inside, Labels
  <2>3. PICK s \in Sensors :
          LET count == counter[s] + 1 IN
          counter' = [counter EXCEPT ![s] = IF count > CounterCap THEN CounterCap ELSE count]
    BY <1>4, <1>0 DEF CountAnomaly
  <2>4. counter' \in [Sensors -> 0..CounterCap]
    BY <2>3 DEF CounterCap
  <2>5. QED
    BY <1>4, <2>2, <2>4 DEF CountAnomaly, Acquire
<1>5. ASSUME NEW t \in Tasks, ClearCounter(t) PROVE BudgetInv'
  <2>1. \/ Set(t, Inside("commit", TRUE, "healthy", 0))
        \/ Set(t, Inside("release", TRUE, "healthy", 0))
    BY <1>5 DEF ClearCounter
  <2>2. Handlers'
    BY <2>1, InsideTyped, HandlerStep DEF WellFormed, Inside, Labels
  <2>3. counter' \in [Sensors -> 0..CounterCap]
    BY <1>5 DEF ClearCounter, CounterCap
  <2>4. QED
    BY <1>5, <2>2, <2>3 DEF ClearCounter, Acquire
<1>6. ASSUME NEW t \in Tasks, ReleaseLock(t) PROVE BudgetInv'
  <2>1. Handlers'
    BY <1>6, WaitingTyped, HandlerStep
    DEF ReleaseLock, WellFormed, Idle, Waiting, Labels
  <2>2. late' \subseteq Tasks
    BY <1>6 DEF ReleaseLock, Locked
  <2>3. QED
    BY <1>6, <2>1, <2>2 DEF ReleaseLock
<1>7. ASSUME NEW t \in Tasks, ReadRestartCount(t) PROVE BudgetInv'
  <2>1. PICK target \in {"disabled", "shutting_down"} :
          /\ Set(t, Inside("commit", task[t].locked, target, autoRestarts))
          /\ target = "shutting_down" => autoRestarts < MaxAutoRestarts
    BY <1>7 DEF ReadRestartCount, ExhaustedAt
  <2>2. Handlers'
    BY <2>1, <1>0, InsideTyped, HandlerStep DEF WellFormed, Inside, Labels
  <2>3. QED
    BY <1>7, <2>2 DEF ReadRestartCount
<1>8. ASSUME NEW t \in Tasks, Commit(t) PROVE BudgetInv'
  <2>1. Handlers'
    BY <1>8, <1>0, GotoStep DEF Commit, WellFormed, Inside, Labels
  <2>2. QED
    BY <1>8, <1>0, <2>1 DEF Commit
<1>9. ASSUME NEW t \in Tasks, SyncSensorRows(t) PROVE BudgetInv'
  <2>1. Handlers'
    BY <1>9, <1>0, GotoStep DEF SyncSensorRows, WellFormed, Inside, Labels
  <2>2. QED
    BY <1>9, <2>1 DEF SyncSensorRows, RowsFor
<1>10. ASSUME NEW t \in Tasks, ClearAlarm(t) PROVE BudgetInv'
  <2>1. Handlers'
    BY <1>10, ReturnStep DEF ClearAlarm
  <2>2. QED
    BY <1>10, <2>1 DEF ClearAlarm
<1>11. ASSUME NEW t \in Tasks, EnterAlarm(t) PROVE BudgetInv'
  <2>1. Handlers'
    BY <1>11, <1>0, GotoStep DEF EnterAlarm, WellFormed, Inside, Labels
  <2>2. QED
    BY <1>11, <2>1 DEF EnterAlarm
<1>12. ASSUME NEW t \in Tasks, task[t].pc \in {"find", "insert"}, AfterAlert(t)
       PROVE  /\ Handlers'
              /\ motorStatus' \in Statuses /\ graceTimer' \in BOOLEAN
              /\ restartsSent' \in Nat
  <2>1. CASE task[t].target = "shutting_down"
    <3>1. Goto(t, "persist")
      BY <1>12, <2>1 DEF AfterAlert
    <3>2. Handlers'
      BY <1>12, <1>0, <2>1, <3>1, GotoStep DEF WellFormed, Inside, Labels
    <3>3. QED
      BY <1>12, <1>0, <2>1, <3>2 DEF AfterAlert
  <2>2. CASE task[t].target # "shutting_down"
    <3>1. Handlers'
      BY <1>12, <2>2, ReturnStep DEF AfterAlert
    <3>2. QED
      BY <1>12, <1>0, <2>2, <3>1 DEF AfterAlert
  <2>3. QED
    BY <2>1, <2>2
<1>13. ASSUME NEW t \in Tasks, AlertSkipped(t) PROVE BudgetInv'
  BY <1>13, <1>12 DEF AlertSkipped
<1>14. ASSUME NEW t \in Tasks, AlertWanted(t) PROVE BudgetInv'
  <2>1. Handlers'
    BY <1>14, <1>0, GotoStep DEF AlertWanted, WellFormed, Inside, Labels
  <2>2. QED
    BY <1>14, <2>1 DEF AlertWanted
<1>15. ASSUME NEW t \in Tasks, InsertAlert(t) PROVE BudgetInv'
  <2>1. AlertOf[task[t].target] \in AlertTypes
    BY <1>15, <1>0 DEF InsertAlert, WellFormed, AlertOf, AlertTypes
  <2>2. openAlerts' \in [AlertTypes -> Nat]
    BY <1>15, <2>1 DEF InsertAlert
  <2>3. QED
    BY <1>15, <1>12, <2>2 DEF InsertAlert
<1>16. ASSUME NEW t \in Tasks, PersistRestartCount(t) PROVE BudgetInv'
  <2>1. Handlers'
    BY <1>16, ReturnStep DEF PersistRestartCount
  <2>2. autoRestarts' \in Nat /\ autoRestarts' <= MaxAutoRestarts
    BY <1>16, <1>0 DEF PersistRestartCount, WellFormed
  <2>3. QED
    BY <1>16, <2>1, <2>2 DEF PersistRestartCount
<1>17. ASSUME NEW t \in Tasks, GraceExpires(t) PROVE BudgetInv'
  <2>1. Handlers'
    <3>1. CASE motorStatus = "alarm"
      BY <1>17, <3>1, InsideTyped, HandlerStep
      DEF GraceExpires, BeginTrip, WellFormed, Inside, Labels
    <3>2. CASE motorStatus # "alarm"
      BY <1>17, <3>2 DEF GraceExpires, HandlersWellFormed
    <3>3. QED
      BY <3>1, <3>2
  <2>2. QED
    BY <1>17, <2>1 DEF GraceExpires, BeginTrip
<1>18. ASSUME NEW t \in Tasks, ConfirmHealthy(t) PROVE BudgetInv'
  <2>1. PICK s \in Sensors :
          /\ counter' = [counter EXCEPT ![s] = 0]
          /\ Set(t, Waiting("resetCounter", Sensors \ {s}, "normal"))
    BY <1>18 DEF ConfirmHealthy, StartReset
  <2>2. Handlers'
    BY <2>1, WaitingTyped, HandlerStep DEF WellFormed, Waiting, Labels
  <2>3. counter' \in [Sensors -> 0..CounterCap]
    BY <2>1 DEF CounterCap
  <2>4. QED
    BY <1>18, <2>2, <2>3 DEF ConfirmHealthy
<1>19. ASSUME NEW t \in Tasks, ResetNextCounter(t) PROVE BudgetInv'
  <2>1. PICK S \in SUBSET Sensors : \/ Set(t, Waiting("resetCount", {}, "normal"))
                                    \/ Set(t, Waiting("resetCounter", S, "normal"))
    BY <1>19, <1>0 DEF ResetNextCounter
  <2>2. Handlers'
    BY <2>1, WaitingTyped, HandlerStep DEF WellFormed, Waiting, Labels
  <2>3. counter' \in [Sensors -> 0..CounterCap]
    <3>1. CASE UNCHANGED counter
      BY <3>1
    <3>2. CASE \E s \in Sensors : counter' = [counter EXCEPT ![s] = 0]
      BY <3>2 DEF CounterCap
    <3>3. QED
      BY <1>19, <1>0, <3>1, <3>2 DEF ResetNextCounter
  <2>4. QED
    BY <1>19, <2>2, <2>3 DEF ResetNextCounter
<1>20. ASSUME NEW t \in Tasks, FinishReset(t) PROVE BudgetInv'
  <2>1. Handlers'
    BY <1>20, WaitingTyped, HandlerStep
    DEF FinishReset, WellFormed, Idle, Waiting, Labels
  <2>2. autoRestarts' \in Nat /\ autoRestarts' <= MaxAutoRestarts
    BY <1>20 DEF FinishReset
  <2>3. lost' \in BOOLEAN
    BY <1>20 DEF FinishReset
  <2>4. QED
    BY <1>20, <2>1, <2>2, <2>3 DEF FinishReset
<1>21. ASSUME NEW t \in Tasks, OperationFails(t) PROVE BudgetInv'
  <2>1. Handlers'
    <3>1. CASE At(t, "release")
      BY <1>21, <3>1, WaitingTyped, HandlerStep
      DEF OperationFails, WellFormed, Idle, Waiting, Labels
    <3>2. CASE ~At(t, "release")
      BY <1>21, <3>2, ReturnStep DEF OperationFails
    <3>3. QED
      BY <3>1, <3>2
  <2>2. lost' \in BOOLEAN /\ late' \subseteq Tasks /\ faults' \in 0..MaxFaults
    BY <1>21 DEF OperationFails
  <2>3. QED
    BY <1>21, <2>1, <2>2 DEF OperationFails
<1>22. CASE ReportProgress
  BY <1>22 DEF ReportProgress, HandlersWellFormed
<1>23. CASE CooldownElapses
  BY <1>23 DEF CooldownElapses, HandlersWellFormed
<1>24. CASE LockExpires
  <2>1. late' \subseteq Tasks /\ overruns' \in 0..MaxOverruns
    BY <1>24 DEF LockExpires, Locked
  <2>2. QED
    BY <1>24, <2>1 DEF LockExpires, HandlersWellFormed
<1>25. CASE CrashAndBoot
  <2>1. /\ Idle \in TaskState /\ WellFormed(Idle)
        /\ Inside("readCount", FALSE, "healthy", 0) \in TaskState
        /\ WellFormed(Inside("readCount", FALSE, "healthy", 0))
    BY WaitingTyped, InsideTyped DEF Idle, Labels, WellFormed, Waiting, Inside
  <2>2. Handlers'
    BY <1>25, <2>1 DEF CrashAndBoot, HandlersWellFormed
  <2>3. counter' \in [Sensors -> 0..CounterCap]
    BY <1>25 DEF CrashAndBoot, CounterCap
  <2>4. crashes' \in 0..MaxCrashes /\ late' \subseteq Tasks
    BY <1>25 DEF CrashAndBoot
  <2>5. graceTimer' \in {graceTimer, FALSE} \/ graceTimer' = FALSE
    BY <1>25 DEF CrashAndBoot, RestoredTimers
  <2>6. graceTimer' \in BOOLEAN /\ lost' \in BOOLEAN
    BY <1>25, <2>5 DEF CrashAndBoot
  <2>7. QED
    BY <1>25, <2>2, <2>3, <2>4, <2>6 DEF CrashAndBoot
<1>26. CASE UNCHANGED evaluation
  BY <1>26 DEF evaluation, HandlersWellFormed
<1>27. QED
  BY <1>1, <1>2, <1>3, <1>4, <1>5, <1>6, <1>7, <1>8, <1>9, <1>10, <1>11, <1>13, <1>14,
     <1>15, <1>16, <1>17, <1>18, <1>19, <1>20, <1>21, <1>22, <1>23, <1>24, <1>25, <1>26
  DEF Steps, Step, PushReading, Escalate, Reset

LEMMA NextSteps == ASSUME [Next]_vars, disturbed \in BOOLEAN
                   PROVE  Steps /\ disturbed' \in BOOLEAN /\ (~disturbed' => ~disturbed)
<1>1. CASE Next
  BY <1>1 DEF Next, Record, Steps
<1>2. CASE UNCHANGED vars
  BY <1>2 DEF vars, evaluation, Steps
<1>3. QED
  BY <1>1, <1>2

LEMMA BudgetInductive == BudgetInv /\ [Next]_vars => BudgetInv'
BY BudgetSteps, NextSteps DEF BudgetInv, TypeOK

\* Type correctness (TypeOK), for any number of handlers, crashes and faults.
THEOREM TypeCorrect == Spec => []TypeOK
<1>1. BudgetInv => TypeOK
  BY DEF BudgetInv
<1>2. QED
  BY BudgetInit, BudgetInductive, <1>1, PTL DEF Spec

\* The persisted restart count never passes maxAutoRestarts (RestartBudget).
THEOREM BudgetHolds == Spec => []RestartBudget
<1>1. BudgetInv => RestartBudget
  BY DEF BudgetInv
<1>2. QED
  BY BudgetInit, BudgetInductive, <1>1, PTL DEF Spec

-----------------------------------------------------------------------------
(* The motor lock, which may expire under its holder. *)

\* A step that leaves the lock alone, and who holds it, preserves MutexInv.
LEMMA MutexKept ==
  ASSUME task \in [Tasks -> TaskState], MutexInv, UNCHANGED <<lock, late, overruns>>,
         NEW t \in Tasks, NEW h \in TaskState, Set(t, h),
         h.locked = task[t].locked, LockConsistent(h)
  PROVE  MutexInv'
<1>1. \A u \in Tasks : task'[u] = IF u = t THEN h ELSE task[u]
  BY DEF Set
<1>2. Locked' = Locked
  BY <1>1 DEF Locked
<1>3. EvaluationMutex' /\ KeyIsThere'
  BY <1>2 DEF MutexInv, EvaluationMutex, KeyIsThere
<1>4. late' \subseteq Locked'
  BY <1>2 DEF MutexInv
<1>5. \A u \in Tasks : LockConsistent(task'[u])
  BY <1>1 DEF MutexInv
<1>6. QED
  BY <1>3, <1>4, <1>5 DEF MutexInv

\* Whoever creates the key finds nobody inside who still has one.
LEMMA MutexTaken ==
  ASSUME task \in [Tasks -> TaskState], MutexInv, ~lock, lock' = TRUE, UNCHANGED <<late, overruns>>,
         NEW t \in Tasks, NEW h \in TaskState, ~task[t].locked, Set(t, h), LockConsistent(h)
  PROVE  MutexInv'
<1>1. \A u \in Tasks : task'[u] = IF u = t THEN h ELSE task[u]
  BY DEF Set
<1>2. Locked \subseteq late /\ late \subseteq Locked
  BY DEF MutexInv, KeyIsThere
<1>3. Locked \subseteq Locked' /\ Locked' \subseteq Locked \union {t}
  BY <1>1 DEF Locked
<1>4. EvaluationMutex' /\ KeyIsThere'
  BY <1>2, <1>3 DEF MutexInv, EvaluationMutex, KeyIsThere
<1>5. late' \subseteq Locked'
  BY <1>2, <1>3
<1>6. \A u \in Tasks : LockConsistent(task'[u])
  BY <1>1 DEF MutexInv
<1>7. QED
  BY <1>4, <1>5, <1>6 DEF MutexInv

\* Whoever leaves the evaluation and deletes the key, or fails to, leaves the others late if the
\* key that went was theirs.
LEMMA MutexLeft ==
  ASSUME task \in [Tasks -> TaskState], MutexInv, NEW t \in Tasks, At(t, "release"), Set(t, Idle),
         UNCHANGED overruns,
         \/ lock' = FALSE /\ late' = (late \union Locked) \ {t}
         \/ lock' = lock /\ late' = late \ {t}
  PROVE  MutexInv'
<1>1. \A u \in Tasks : task'[u] = IF u = t THEN Idle ELSE task[u]
  BY DEF Set
<1>2. ~Idle.locked /\ LockConsistent(Idle) /\ t \in Locked
  BY DEF Idle, Waiting, LockConsistent, MutexInv, Locked, At
<1>3. Locked' = Locked \ {t} /\ late \subseteq Locked
  BY <1>1, <1>2 DEF Locked, MutexInv
<1>4. \A u \in Tasks : LockConsistent(task'[u])
  BY <1>1, <1>2 DEF MutexInv
<1>5. CASE lock' = FALSE /\ late' = (late \union Locked) \ {t}
  <2>1. late' = Locked'
    BY <1>3, <1>5
  <2>2. late' # {} => overruns' > 0
    BY <1>2, <1>3, <1>5 DEF MutexInv, EvaluationMutex
  <2>3. EvaluationMutex' /\ KeyIsThere'
    BY <2>1, <2>2 DEF EvaluationMutex, KeyIsThere
  <2>4. QED
    BY <1>4, <2>1, <2>3 DEF MutexInv
<1>6. CASE lock' = lock /\ late' = late \ {t}
  <2>1. late' \subseteq Locked'
    BY <1>3, <1>6
  <2>2. EvaluationMutex' /\ KeyIsThere'
    BY <1>3, <1>6 DEF MutexInv, EvaluationMutex, KeyIsThere
  <2>3. QED
    BY <1>4, <2>1, <2>2 DEF MutexInv
<1>7. QED
  BY <1>5, <1>6

\* Return: the handler keeps the lock up to the finally block.
LEMMA MutexReturn ==
  ASSUME task \in [Tasks -> TaskState], MutexInv, UNCHANGED <<lock, late, overruns>>,
         NEW t \in Tasks, Return(t)
  PROVE  MutexInv'
<1>0. task[t].locked \in BOOLEAN
  BY DEF TaskState
<1>1. CASE task[t].locked
  BY <1>1, InsideTyped, MutexKept
  DEF Return, LockConsistent, Outside, Inside, Labels, Statuses
<1>2. CASE ~task[t].locked
  BY <1>2, WaitingTyped, MutexKept, <1>0
  DEF Return, LockConsistent, Outside, Idle, Waiting, Labels, Readings
<1>3. QED
  BY <1>1, <1>2

\* Goto: the handler keeps what it holds.
LEMMA MutexGoto ==
  ASSUME task \in [Tasks -> TaskState], MutexInv, UNCHANGED <<lock, late, overruns>>,
         NEW t \in Tasks, NEW label \in Labels \ (Outside \union {"release"}), Goto(t, label)
  PROVE  MutexInv'
<1>1. /\ task[t].locked \in BOOLEAN /\ task[t].target \in Statuses
      /\ task[t].count \in Nat
  BY DEF TaskState
<1> DEFINE h == Inside(label, task[t].locked, task[t].target, task[t].count)
<1>2. h \in TaskState
  BY <1>1, InsideTyped
<1>3. LockConsistent(h) /\ h.locked = task[t].locked
  BY DEF LockConsistent, Inside
<1>4. QED
  BY <1>2, <1>3, MutexKept DEF Goto

\* Every step preserves MutexInv.
LEMMA MutexSteps == BudgetInv /\ MutexInv /\ Steps => MutexInv'
<1> SUFFICES ASSUME BudgetInv, MutexInv, Steps PROVE MutexInv'
  OBVIOUS
<1> USE DEF memory, redis, db, history, budget
<1>0. /\ task \in [Tasks -> TaskState]
      /\ \A t \in Tasks : /\ task[t].locked \in BOOLEAN
                           /\ task[t].sensors \in SUBSET Sensors
                           /\ task[t].count \in Nat
      /\ autoRestarts \in Nat /\ overruns \in Nat
  BY DEF BudgetInv, TypeOK, TaskState
<1>1. ASSUME NEW t \in Tasks, NEW label \in Outside,
             NEW S \in SUBSET Sensors, NEW r \in Readings, task[t].pc \in Outside,
             Set(t, Waiting(label, S, r)), UNCHANGED <<lock, late, overruns>>
      PROVE  MutexInv'
  <2>1. task[t].locked = FALSE
    BY <1>0, <1>1 DEF MutexInv, LockConsistent
  <2>2. Waiting(label, S, r) \in TaskState /\ LockConsistent(Waiting(label, S, r))
        /\ Waiting(label, S, r).locked = FALSE
    BY <1>1, WaitingTyped DEF LockConsistent, Waiting, Labels, Outside
  <2>3. QED
    BY <1>0, <1>1, <2>1, <2>2, MutexKept
<1>2. ASSUME NEW t \in Tasks, NEW label \in {"readCount", "commit", "release"},
             NEW target \in Statuses,
             Acquire(t), Set(t, Inside(label, TRUE, target, 0)), UNCHANGED <<late, overruns>>
      PROVE  MutexInv'
  <2>1. ~task[t].locked /\ ~lock /\ lock' = TRUE
    BY <1>2 DEF Acquire, MutexInv, LockConsistent, At, Outside
  <2>2. Inside(label, TRUE, target, 0) \in TaskState /\ LockConsistent(Inside(label, TRUE, target, 0))
    BY <1>2, InsideTyped DEF LockConsistent, Inside, Labels, Outside
  <2>3. QED
    BY <1>0, <1>2, <2>1, <2>2, MutexTaken
<1>3. ASSUME NEW t \in Tasks, PushReading(t) PROVE MutexInv'
  <2>1. CASE LockBusy(t)
    BY <1>0, <1>1, <2>1 DEF LockBusy, Idle, Readings, At, Outside
  <2>2. CASE ImmediateTrip(t)
    BY <1>2, <2>2 DEF ImmediateTrip, BeginTrip, Statuses
  <2>3. CASE CountAnomaly(t)
    BY <1>2, <2>3 DEF CountAnomaly, Statuses
  <2>4. CASE ClearCounter(t)
    BY <1>2, <2>4 DEF ClearCounter, Statuses
  <2>5. CASE ReleaseLock(t)
    BY <1>0, <2>5, MutexLeft DEF ReleaseLock
  <2>6. QED
    BY <1>3, <2>1, <2>2, <2>3, <2>4, <2>5 DEF PushReading
<1>4. ASSUME NEW t \in Tasks, AfterAlert(t), UNCHANGED <<lock, late, overruns>> PROVE MutexInv'
  BY <1>0, <1>4, MutexReturn, MutexGoto DEF AfterAlert, Labels, Outside
<1>5. ASSUME NEW t \in Tasks, Escalate(t) PROVE MutexInv'
  <2>1. CASE ReadRestartCount(t)
    <3>1. PICK target \in Statuses :
            Set(t, Inside("commit", task[t].locked, target, autoRestarts))
      BY <2>1 DEF ReadRestartCount, Statuses
    <3>2. UNCHANGED <<lock, late, overruns>>
      BY <2>1 DEF ReadRestartCount
    <3>3. QED
      BY <1>0, <3>1, <3>2, InsideTyped, MutexKept DEF LockConsistent, Outside, Inside, Labels
  <2>2. CASE Commit(t)
    BY <1>0, <2>2, MutexGoto DEF Commit, Labels, Outside
  <2>3. CASE SyncSensorRows(t)
    BY <1>0, <2>3, MutexGoto DEF SyncSensorRows, Labels, Outside
  <2>4. CASE ClearAlarm(t)
    BY <1>0, <2>4, MutexReturn DEF ClearAlarm
  <2>5. CASE EnterAlarm(t)
    BY <1>0, <2>5, MutexGoto DEF EnterAlarm, Labels, Outside
  <2>6. CASE AlertSkipped(t)
    BY <1>4, <2>6 DEF AlertSkipped
  <2>7. CASE AlertWanted(t)
    BY <1>0, <2>7, MutexGoto DEF AlertWanted, Labels, Outside
  <2>8. CASE InsertAlert(t)
    BY <1>4, <2>8 DEF InsertAlert
  <2>9. CASE PersistRestartCount(t)
    BY <1>0, <2>9, MutexReturn DEF PersistRestartCount
  <2>10. QED
    BY <1>5, <2>1, <2>2, <2>3, <2>4, <2>5, <2>6, <2>7, <2>8, <2>9 DEF Escalate
<1>6. ASSUME NEW t \in Tasks, GraceExpires(t) PROVE MutexInv'
  <2>1. CASE motorStatus = "alarm"
    <3>1. Set(t, Inside("readCount", FALSE, "healthy", 0)) /\ UNCHANGED <<lock, late, overruns>>
      BY <1>6, <2>1 DEF GraceExpires, BeginTrip
    <3>2. task[t].locked = FALSE
      BY <1>0, <1>6 DEF GraceExpires, MutexInv, LockConsistent, At, Outside
    <3>3. QED
      BY <1>0, <3>1, <3>2, InsideTyped, MutexKept DEF LockConsistent, Outside, Inside, Labels, Statuses
  <2>2. CASE motorStatus # "alarm"
    BY <1>6, <2>2 DEF GraceExpires, MutexInv, EvaluationMutex, KeyIsThere, Locked
  <2>3. QED
    BY <2>1, <2>2
<1>7. ASSUME NEW t \in Tasks, OperationFails(t) PROVE MutexInv'
  <2>1. CASE At(t, "release")
    BY <1>0, <1>7, <2>1, MutexLeft DEF OperationFails
  <2>2. CASE ~At(t, "release")
    BY <1>0, <1>7, <2>2, MutexReturn DEF OperationFails
  <2>3. QED
    BY <2>1, <2>2
<1>8. ASSUME NEW t \in Tasks, ConfirmHealthy(t) PROVE MutexInv'
  BY <1>1, <1>8 DEF ConfirmHealthy, StartReset, Readings, At, Outside
<1>9. ASSUME NEW t \in Tasks, Reset(t) PROVE MutexInv'
  BY <1>0, <1>1, <1>9 DEF Reset, ResetNextCounter, FinishReset, Idle, Readings, At, Outside
<1>10. ASSUME NEW t \in Tasks, NEW s \in Sensors, NEW r \in Readings,
              ReadingArrives(t, s, r)
       PROVE  MutexInv'
  BY <1>1, <1>10 DEF ReadingArrives, At, Outside
<1>11. CASE LockExpires
  <2>1. Locked' = Locked /\ late' = Locked /\ lock' = FALSE /\ UNCHANGED task
    BY <1>11 DEF LockExpires, Locked, MutexInv
  <2>2. late' # {} => overruns' > 0
    BY <1>0, <1>11, <2>1 DEF LockExpires
  <2>3. EvaluationMutex' /\ KeyIsThere'
    BY <2>1, <2>2 DEF EvaluationMutex, KeyIsThere
  <2>4. \A u \in Tasks : LockConsistent(task'[u])
    BY <2>1 DEF MutexInv
  <2>5. QED
    BY <2>1, <2>3, <2>4 DEF MutexInv
<1>12. CASE CrashAndBoot
  <2>1. \A t \in Tasks : \/ task'[t] = Idle
                          \/ task'[t] = Inside("readCount", FALSE, "healthy", 0)
    BY <1>12 DEF CrashAndBoot
  <2>2. \A t \in Tasks : ~task'[t].locked /\ LockConsistent(task'[t])
    BY <2>1 DEF Idle, Waiting, Inside, LockConsistent
  <2>3. late' = {} /\ Locked' = {}
    BY <1>12, <2>2 DEF CrashAndBoot, Locked
  <2>4. EvaluationMutex' /\ KeyIsThere'
    BY <2>3 DEF EvaluationMutex, KeyIsThere
  <2>5. QED
    BY <2>2, <2>3, <2>4 DEF MutexInv
<1>13. CASE ReportProgress \/ CooldownElapses \/ UNCHANGED evaluation
  <2>1. UNCHANGED <<task, lock, late, overruns>>
    BY <1>13 DEF ReportProgress, CooldownElapses, evaluation
  <2>2. QED
    BY <2>1 DEF MutexInv, EvaluationMutex, KeyIsThere, Locked
<1>14. QED
  BY <1>3, <1>5, <1>6, <1>7, <1>8, <1>9, <1>10, <1>11, <1>12, <1>13 DEF Steps, Step

LEMMA MutexInductive == BudgetInv /\ MutexInv /\ [Next]_vars => MutexInv'
BY MutexSteps, NextSteps DEF BudgetInv, TypeOK

\* Initially nobody is inside.
LEMMA MutexInit == Init => MutexInv
BY DEF Init, MutexInv, EvaluationMutex, KeyIsThere, LockConsistent, Locked, Idle, Waiting

\* Two evaluations are inside the motor lock together only if one of them has lost its key, and
\* that takes an evaluation that has outlived the TTL (EvaluationMutex), for any number of
\* handlers, crashes and rejected operations.
THEOREM MutexHolds == Spec => []EvaluationMutex
<1>1. MutexInv => EvaluationMutex
  BY DEF MutexInv
<1>2. QED
  BY BudgetInit, BudgetInductive, MutexInit, MutexInductive, <1>1, PTL DEF Spec

-----------------------------------------------------------------------------
(* Every alarm keeps something that will end it. *)

Covering(h) == Tripping(h) \/ Arming(h)

\* A step of one handler keeps the alarm covered if timer and handler still cover what they did.
LEMMA CoverKept ==
  ASSUME task \in [Tasks -> TaskState], AlarmIsCovered, NEW t \in Tasks, NEW h \in TaskState,
         Set(t, h), motorStatus' = motorStatus,
         motorStatus = "alarm" /\ graceTimer => graceTimer' \/ lost',
         lost => lost',
         motorStatus = "alarm" /\ Covering(task[t]) => Covering(h) \/ graceTimer' \/ lost'
  PROVE  AlarmIsCovered'
<1>1. \A u \in Tasks : task'[u] = IF u = t THEN h ELSE task[u]
  BY DEF Set
<1>2. CASE motorStatus = "alarm" /\ \E u \in Tasks : Covering(task[u])
  <2>1. (\E u \in Tasks : Covering(task'[u])) \/ graceTimer' \/ lost'
    BY <1>1, <1>2
  <2>2. QED
    BY <2>1 DEF AlarmIsCovered, Covering
<1>3. CASE ~(motorStatus = "alarm" /\ \E u \in Tasks : Covering(task[u]))
  BY <1>3 DEF AlarmIsCovered, Covering
<1>4. QED
  BY <1>2, <1>3

\* A handler that has just begun to cover the alarm is enough.
LEMMA CoverTaken ==
  ASSUME task \in [Tasks -> TaskState], NEW t \in Tasks, NEW h \in TaskState, Set(t, h),
         Covering(h)
  PROVE  AlarmIsCovered'
<1>1. Covering(task'[t])
  BY DEF Set
<1>2. QED
  BY <1>1 DEF AlarmIsCovered, Covering

\* Every step preserves AlarmIsCovered.
LEMMA CoverSteps == BudgetInv /\ AlarmIsCovered /\ Steps => AlarmIsCovered'
<1> SUFFICES ASSUME BudgetInv, AlarmIsCovered, Steps PROVE AlarmIsCovered'
  OBVIOUS
<1> USE DEF memory, redis, db, history, budget, At
<1>0. /\ task \in [Tasks -> TaskState] /\ autoRestarts \in Nat
      /\ \A t \in Tasks : /\ task[t] \in TaskState /\ WellFormed(task[t])
                           /\ task[t].locked \in BOOLEAN /\ task[t].target \in Statuses
                           /\ task[t].sensors \in SUBSET Sensors /\ task[t].count \in Nat
  BY DEF BudgetInv, TypeOK, TaskState, HandlersWellFormed
<1>1. \A label \in Labels, S \in SUBSET Sensors, r \in Readings :
        Waiting(label, S, r) \in TaskState
  BY WaitingTyped
<1>2. \A label \in Labels, locked \in BOOLEAN, target \in Statuses, n \in Nat :
        Inside(label, locked, target, n) \in TaskState
  BY InsideTyped
<1>3. ASSUME NEW t \in Tasks, NEW h \in TaskState, Set(t, h), ~Covering(task[t]),
             UNCHANGED <<motorStatus, graceTimer, lost>>
      PROVE  AlarmIsCovered'
  BY <1>0, <1>3, CoverKept
<1>4. ASSUME NEW t \in Tasks, Return(t)
      PROVE  \E h \in TaskState : Set(t, h)
  BY <1>0, <1>1, <1>2, <1>4 DEF Return, Idle, Labels, Statuses, Readings
<1>5. ASSUME NEW t \in Tasks, task[t].pc \in {"idle", "acquire", "resetCounter", "release"}
      PROVE  ~Covering(task[t])
  BY <1>5 DEF Covering, Tripping, Arming
<1>6. ASSUME NEW t \in Tasks, PushReading(t) PROVE AlarmIsCovered'
  <2>1. CASE LockBusy(t)
    BY <1>1, <1>3, <1>5, <2>1 DEF LockBusy, Idle, Labels, Readings
  <2>2. CASE ImmediateTrip(t)
    BY <1>0, <1>2, <2>2, CoverTaken
    DEF ImmediateTrip, BeginTrip, Covering, Tripping, Inside, Labels, Statuses
  <2>3. CASE CountAnomaly(t)
    BY <1>2, <1>3, <1>5, <2>3 DEF CountAnomaly, Acquire, Labels, Statuses
  <2>4. CASE ClearCounter(t)
    BY <1>2, <1>3, <1>5, <2>4 DEF ClearCounter, Acquire, Labels, Statuses
  <2>5. CASE ReleaseLock(t)
    BY <1>1, <1>3, <1>5, <2>5 DEF ReleaseLock, Idle, Labels, Readings
  <2>6. QED
    BY <1>6, <2>1, <2>2, <2>3, <2>4, <2>5 DEF PushReading
<1>7. ASSUME NEW t \in Tasks, NEW label \in Labels, Goto(t, label),
             UNCHANGED <<motorStatus, graceTimer, lost>>,
             Covering(task[t]) =>
               Covering(Inside(label, task[t].locked, task[t].target, task[t].count))
      PROVE  AlarmIsCovered'
  BY <1>0, <1>2, <1>7, CoverKept DEF Goto
<1>8. ASSUME NEW t \in Tasks, task[t].pc \in {"find", "insert"}, AfterAlert(t), UNCHANGED lost
      PROVE  AlarmIsCovered'
  <2>1. CASE task[t].target = "alarm"
    BY <1>8, <2>1 DEF AfterAlert, AlarmIsCovered
  <2>2. CASE task[t].target # "alarm"
    <3>1. motorStatus' \in {"shutting_down", "disabled"}
      BY <1>0, <1>8, <2>2 DEF AfterAlert, WellFormed
    <3>2. QED
      BY <3>1 DEF AlarmIsCovered
  <2>3. QED
    BY <2>1, <2>2
<1>9. ASSUME NEW t \in Tasks, Escalate(t) PROVE AlarmIsCovered'
  <2>1. CASE ReadRestartCount(t)
    <3>1. PICK target \in {"disabled", "shutting_down"} :
            Set(t, Inside("commit", task[t].locked, target, autoRestarts))
      BY <2>1 DEF ReadRestartCount
    <3>2. /\ Inside("commit", task[t].locked, target, autoRestarts) \in TaskState
          /\ Covering(Inside("commit", task[t].locked, target, autoRestarts))
      BY <1>0, <1>2 DEF Labels, Statuses, Covering, Tripping, Inside
    <3>3. QED
      BY <1>0, <3>1, <3>2, CoverTaken
  <2>2. CASE Commit(t)
    BY <1>0, <1>7, <2>2 DEF Commit, Covering, Tripping, Arming, Inside, Labels
  <2>3. CASE SyncSensorRows(t)
    BY <1>0, <1>7, <2>3
    DEF SyncSensorRows, Covering, Tripping, Arming, Inside, Labels, WellFormed
  <2>4. CASE ClearAlarm(t)
    BY <2>4 DEF ClearAlarm, AlarmIsCovered
  <2>5. CASE EnterAlarm(t)
    <3>1. /\ Set(t, Inside("find", task[t].locked, "alarm", task[t].count))
          /\ Inside("find", task[t].locked, "alarm", task[t].count) \in TaskState
      BY <1>0, <1>2, <2>5 DEF EnterAlarm, Goto, WellFormed, Labels, Statuses
    <3>2. Covering(Inside("find", task[t].locked, "alarm", task[t].count))
      BY DEF Covering, Arming, Inside
    <3>3. QED
      BY <1>0, <3>1, <3>2, CoverTaken
  <2>6. CASE AlertSkipped(t)
    BY <1>8, <2>6 DEF AlertSkipped
  <2>7. CASE AlertWanted(t)
    BY <1>0, <1>7, <2>7 DEF AlertWanted, Covering, Tripping, Arming, Inside, Labels
  <2>8. CASE InsertAlert(t)
    BY <1>8, <2>8 DEF InsertAlert
  <2>9. CASE PersistRestartCount(t)
    BY <1>3, <1>4, <2>9 DEF PersistRestartCount, Covering, Tripping, Arming
  <2>10. QED
    BY <1>9, <2>1, <2>2, <2>3, <2>4, <2>5, <2>6, <2>7, <2>8, <2>9 DEF Escalate
<1>10. ASSUME NEW t \in Tasks, GraceExpires(t) PROVE AlarmIsCovered'
  <2>1. CASE motorStatus = "alarm"
    BY <1>0, <1>2, <1>10, <2>1, CoverTaken
    DEF GraceExpires, BeginTrip, Covering, Tripping, Inside, Labels, Statuses
  <2>2. CASE motorStatus # "alarm"
    BY <1>10, <2>2 DEF GraceExpires, AlarmIsCovered
  <2>3. QED
    BY <2>1, <2>2
<1>11. ASSUME NEW t \in Tasks, Reset(t) PROVE AlarmIsCovered'
  <2>1. CASE ResetNextCounter(t)
    <3>1. PICK h \in TaskState : Set(t, h)
      BY <1>0, <1>1, <2>1 DEF ResetNextCounter, Labels, Readings
    <3>2. QED
      BY <1>3, <1>5, <2>1, <3>1 DEF ResetNextCounter
  <2>2. CASE FinishReset(t)
    <3>1. Idle \in TaskState /\ Set(t, Idle)
      BY <1>1, <2>2 DEF FinishReset, Idle, Labels, Readings
    <3>2. QED
      BY <1>0, <2>2, <3>1, CoverKept DEF FinishReset, Covering, Tripping, Arming
  <2>3. QED
    BY <1>11, <2>1, <2>2 DEF Reset
<1>12. ASSUME NEW t \in Tasks, OperationFails(t) PROVE AlarmIsCovered'
  <2>1. PICK h \in TaskState : Set(t, h)
    BY <1>1, <1>4, <1>12 DEF OperationFails, Idle, Labels, Readings
  <2>2. QED
    BY <1>0, <1>12, <2>1, CoverKept DEF OperationFails, Covering
<1>13. ASSUME NEW t \in Tasks, NEW s \in Sensors, NEW r \in Readings, ReadingArrives(t, s, r)
       PROVE  AlarmIsCovered'
  BY <1>1, <1>3, <1>5, <1>13 DEF ReadingArrives, Labels
<1>14. ASSUME NEW t \in Tasks, ConfirmHealthy(t) PROVE AlarmIsCovered'
  BY <1>14 DEF ConfirmHealthy, AlarmIsCovered
<1>15. CASE CrashAndBoot
  <2>1. CASE task' = [t \in Tasks |-> Idle] /\ lost' = (dbStatus = "alarm" /\ ~graceTimer')
    BY <1>15, <2>1 DEF CrashAndBoot, AlarmIsCovered
  <2>2. CASE \E t \in Tasks :
               task' = [u \in Tasks |-> IF u = t THEN Inside("readCount", FALSE, "healthy", 0)
                                        ELSE Idle]
    <3>1. PICK t \in Tasks : task'[t] = Inside("readCount", FALSE, "healthy", 0)
      BY <2>2
    <3>2. Tripping(task'[t])
      BY <3>1 DEF Tripping, Inside
    <3>3. QED
      BY <3>2 DEF AlarmIsCovered
  <2>3. QED
    BY <1>15, <2>1, <2>2 DEF CrashAndBoot
<1>16. CASE ReportProgress \/ CooldownElapses \/ LockExpires \/ UNCHANGED evaluation
  <2>1. UNCHANGED <<motorStatus, graceTimer, lost, task>>
    BY <1>16 DEF ReportProgress, CooldownElapses, LockExpires, evaluation
  <2>2. QED
    BY <2>1 DEF AlarmIsCovered
<1>17. QED
  BY <1>6, <1>9, <1>10, <1>11, <1>12, <1>13, <1>14, <1>15, <1>16 DEF Steps, Step

LEMMA CoverInductive == BudgetInv /\ AlarmIsCovered /\ [Next]_vars => AlarmIsCovered'
BY CoverSteps, NextSteps DEF BudgetInv, TypeOK

LEMMA CoverInit == Init => AlarmIsCovered
BY DEF Init, AlarmIsCovered

\* A motor in alarm always has its timer, the handler about to start it or a trip, unless a late
\* reset, a rejected operation or a boot took it away (AlarmIsCovered), for any number of handlers.
THEOREM AlarmCovered == Spec => []AlarmIsCovered
BY BudgetInit, BudgetInductive, CoverInit, CoverInductive, PTL DEF Spec

-----------------------------------------------------------------------------
(* Transitions that nothing disturbs.  Until then at most one is under way,  *)
(* and how far it has come says which of its writes have been made.          *)

Agreed == StatusesAgree /\ RowsAgree

Running == {"healthy", "alarm"}
Tripped == {"shutting_down", "disabled"}

\* What the await of a transition says of memory, the rows and the restart count.
Stage(h) ==
  /\ h.pc # "persist" =>
       restartsSent = 0 /\ autoRestarts = 0 /\ motorStatus \in Running
  /\ h.pc = "readCount" => Agreed
  /\ h.pc = "commit" =>
       /\ dbStatus = motorStatus /\ sensorRows = "ok"
       /\ h.target = "healthy" => motorStatus = "alarm"
       /\ h.target = "alarm" => motorStatus = "healthy"
  /\ h.pc = "sync" => dbStatus = h.target /\ (h.target = "healthy" => motorStatus = "alarm")
  /\ h.pc = "resolve" =>
       dbStatus = "healthy" /\ sensorRows = "ok" /\ motorStatus = "alarm"
  /\ h.pc = "enter" => dbStatus = "alarm" /\ sensorRows = "ok" /\ motorStatus = "healthy"
  /\ h.pc \in {"find", "insert"} =>
       /\ dbStatus = h.target
       /\ sensorRows = IF h.target = "alarm" THEN "ok" ELSE "fault"
       /\ h.target = "alarm" => motorStatus = "alarm"
  /\ h.pc \in {"commit", "sync", "find", "insert"} =>
       /\ h.target = "shutting_down" => h.count = 0
       /\ h.target = "disabled" => MaxAutoRestarts = 0
  /\ h.pc = "persist" =>
       Agreed /\ motorStatus = "shutting_down" /\ restartsSent = h.count + 1

Alone ==
  \A t, u \in Tasks : t # u /\ Moving(task[t]) => ~Moving(task[u]) /\ ~Resetting(task[u])

Staged == \A t \in Tasks : Moving(task[t]) => Stage(task[t])

StillAgreed == (\A t \in Tasks : ~Moving(task[t])) => Agreed

\* A restart that was published is counted, and its motor not yet confirmed.
Counted ==
  /\ (\A t \in Tasks : ~Moving(task[t]) /\ ~Resetting(task[t])) => autoRestarts = restartsSent
  /\ restartsSent > 0 => /\ dbStatus \in {"shutting_down", "restarting"}
                         /\ \A t \in Tasks : ~Resetting(task[t])

\* Inductive strengthening of WritesAgree.
Solo == Alone /\ Staged /\ StillAgreed /\ Counted

SoloInv == ~disturbed => Solo

\* What Stage and Agreed read.
Shared == <<motorStatus, dbStatus, sensorRows, openAlerts, restartsSent, autoRestarts>>

LEMMA StageShared ==
  ASSUME UNCHANGED Shared
  PROVE  (Agreed <=> Agreed') /\ \A h : Stage(h) <=> Stage(h)'
BY DEF Shared, Agreed, StatusesAgree, RowsAgree, Stage

LEMMA ReplacesOne ==
  ASSUME task \in [Tasks -> TaskState], NEW t \in Tasks, NEW h, Set(t, h)
  PROVE  \A u \in Tasks : task'[u] = IF u = t THEN h ELSE task[u]
BY DEF Set

\* What the handler is after Goto and after Return.
LEMMA SetReturn ==
  ASSUME task \in [Tasks -> TaskState], NEW t \in Tasks, Return(t)
  PROVE  \E h : Set(t, h) /\ ~Moving(h) /\ ~Resetting(h)
<1>1. /\ ~Moving(Inside("release", TRUE, "healthy", 0)) /\ ~Moving(Idle)
      /\ ~Resetting(Inside("release", TRUE, "healthy", 0)) /\ ~Resetting(Idle)
  BY DEF Moving, Resetting, Inside, Idle, Waiting
<1>2. QED
  BY <1>1 DEF Return

\* A handler outside every transition moves on and writes nothing.
LEMMA SoloQuiet ==
  ASSUME task \in [Tasks -> TaskState], Solo, Alone', UNCHANGED Shared,
         NEW t \in Tasks, NEW h, Set(t, h), ~Moving(task[t]), ~Moving(h),
         Resetting(h) <=> Resetting(task[t])
  PROVE  Solo'
<1>1. \A u \in Tasks : task'[u] = IF u = t THEN h ELSE task[u]
  BY ReplacesOne
<1>2. \A u \in Tasks : /\ Moving(task'[u]) <=> Moving(task[u])
                       /\ Resetting(task'[u]) <=> Resetting(task[u])
  BY <1>1
<1>3. Staged'
  BY <1>1, StageShared DEF Solo, Staged
<1>4. StillAgreed'
  BY <1>2, StageShared DEF Solo, StillAgreed
<1>5. Counted'
  BY <1>2 DEF Solo, Counted, Shared
<1>6. QED
  BY <1>3, <1>4, <1>5 DEF Solo

\* A transition begins: nothing else is half done.
LEMMA SoloBegins ==
  ASSUME task \in [Tasks -> TaskState], Solo, Alone', UNCHANGED Shared, restartsSent \in Nat,
         NEW t \in Tasks, NEW h, Set(t, h), ~Moving(task[t]), ~Resetting(task[t]), Moving(h),
         motorStatus \in Running,
         Agreed /\ restartsSent = 0 /\ autoRestarts = 0 => Stage(h)
  PROVE  Solo'
<1>1. \A u \in Tasks : task'[u] = IF u = t THEN h ELSE task[u]
  BY ReplacesOne
<1>2. \A u \in Tasks : ~Moving(task[u]) /\ ~Resetting(task[u])
  BY <1>1 DEF Alone
<1>3. Agreed /\ autoRestarts = restartsSent
  BY <1>2 DEF Solo, StillAgreed, Counted
<1>4. dbStatus \notin {"shutting_down", "restarting"}
  BY <1>3 DEF Agreed, StatusesAgree, Running
<1>5. restartsSent = 0 /\ autoRestarts = 0
  BY <1>3, <1>4 DEF Solo, Counted
<1>6. Staged'
  BY <1>1, <1>2, <1>3, <1>5, StageShared DEF Staged
<1>7. StillAgreed'
  BY <1>1 DEF StillAgreed
<1>8. Counted'
  BY <1>1, <1>5 DEF Counted, Shared, Moving, Resetting
<1>9. QED
  BY <1>6, <1>7, <1>8 DEF Solo

\* A transition goes on.
LEMMA SoloMoves ==
  ASSUME task \in [Tasks -> TaskState], Solo, Alone',
         NEW t \in Tasks, NEW h, Set(t, h), Moving(task[t]), Moving(h), Stage(h)',
         restartsSent' > 0 => dbStatus' \in {"shutting_down", "restarting"}
  PROVE  Solo'
<1>1. \A u \in Tasks : task'[u] = IF u = t THEN h ELSE task[u]
  BY ReplacesOne
<1>2. \A u \in Tasks : u # t => ~Moving(task'[u]) /\ ~Resetting(task'[u])
  BY <1>1 DEF Alone
<1>3. Staged'
  BY <1>1, <1>2 DEF Staged
<1>4. StillAgreed'
  BY <1>1 DEF StillAgreed
<1>5. ~Resetting(h)
  BY DEF Moving, Resetting
<1>6. Counted'
  BY <1>1, <1>2, <1>5 DEF Counted
<1>7. QED
  BY <1>3, <1>4, <1>6 DEF Solo

\* A transition ends.
LEMMA SoloEnds ==
  ASSUME task \in [Tasks -> TaskState], Solo,
         NEW t \in Tasks, NEW h, Set(t, h), Moving(task[t]), ~Moving(h), ~Resetting(h),
         Agreed', autoRestarts' = restartsSent',
         restartsSent' > 0 => dbStatus' \in {"shutting_down", "restarting"}
  PROVE  Solo'
<1>1. \A u \in Tasks : task'[u] = IF u = t THEN h ELSE task[u]
  BY ReplacesOne
<1>2. \A u \in Tasks : ~Moving(task'[u]) /\ ~Resetting(task'[u])
  BY <1>1 DEF Solo, Alone
<1>3. Alone' /\ Staged' /\ StillAgreed' /\ Counted'
  BY <1>2 DEF Alone, Staged, StillAgreed, Counted
<1>4. QED
  BY <1>3 DEF Solo

LEMMA SoloReadings ==
  ASSUME BudgetInv, Solo, Alone', NEW t \in Tasks,
         PushReading(t) \/ \E s \in Sensors, r \in Readings : ReadingArrives(t, s, r)
  PROVE  Solo'
<1>0. task \in [Tasks -> TaskState] /\ restartsSent \in Nat
  BY DEF BudgetInv, TypeOK
<1> USE DEF memory, redis, db, history, budget, At
<1>1. UNCHANGED Shared
  BY DEF Shared, PushReading, LockBusy, ImmediateTrip, CountAnomaly, ClearCounter, ReleaseLock,
         ReadingArrives, BeginTrip, Acquire
<1>2. ~Moving(task[t]) /\ ~Resetting(task[t])
  BY DEF Moving, Resetting, PushReading, LockBusy, ImmediateTrip, CountAnomaly, ClearCounter,
         ReleaseLock, ReadingArrives, Acquire
<1>3. ASSUME NEW h, Set(t, h), ~Moving(h), ~Resetting(h)
      PROVE  Solo'
  BY <1>0, <1>1, <1>2, <1>3, SoloQuiet
<1>4. CASE \E s \in Sensors, r \in Readings : ReadingArrives(t, s, r)
  <2>1. PICK s \in Sensors, r \in Readings : Set(t, Waiting("acquire", {s}, r))
    BY <1>4 DEF ReadingArrives
  <2>2. ~Moving(Waiting("acquire", {s}, r)) /\ ~Resetting(Waiting("acquire", {s}, r))
    BY DEF Moving, Resetting, Waiting
  <2>3. QED
    BY <1>3, <2>1, <2>2
<1>5. ~Moving(Idle) /\ ~Resetting(Idle)
  BY DEF Moving, Resetting, Idle, Waiting
<1>6. /\ ~Moving(Inside("release", TRUE, "healthy", 0))
      /\ ~Resetting(Inside("release", TRUE, "healthy", 0))
  BY DEF Moving, Resetting, Inside
<1>7. ASSUME NEW label \in {"readCount", "commit"}, NEW target \in Statuses,
             Set(t, Inside(label, TRUE, target, 0)),
             motorStatus \in Running,
             label = "commit" => \/ target = "alarm" /\ motorStatus = "healthy"
                                 \/ target = "healthy" /\ motorStatus = "alarm"
      PROVE  Solo'
  <2> DEFINE h == Inside(label, TRUE, target, 0)
  <2>1. Moving(h) /\ h.pc = label /\ h.target = target
    BY DEF Moving, Inside
  <2>2. Agreed => /\ motorStatus = dbStatus /\ sensorRows = "ok"
    BY <1>7 DEF Agreed, StatusesAgree, RowsAgree, Running
  <2>3. Agreed /\ restartsSent = 0 /\ autoRestarts = 0 => Stage(h)
    BY <1>7, <2>1, <2>2 DEF Stage
  <2>4. QED
    BY <1>0, <1>1, <1>2, <1>7, <2>1, <2>3, SoloBegins
<1>8. CASE LockBusy(t) \/ ReleaseLock(t)
  BY <1>3, <1>5, <1>8 DEF LockBusy, ReleaseLock
<1>9. CASE ImmediateTrip(t)
  BY <1>7, <1>9 DEF ImmediateTrip, BeginTrip, TripsAtOnce, Running, Statuses
<1>10. CASE CountAnomaly(t)
  <2>1. \/ motorStatus = "healthy" /\ Set(t, Inside("commit", TRUE, "alarm", 0))
        \/ Set(t, Inside("release", TRUE, "healthy", 0))
    BY <1>10 DEF CountAnomaly
  <2>2. QED
    BY <1>3, <1>6, <1>7, <2>1 DEF Running, Statuses
<1>11. CASE ClearCounter(t)
  <2>1. \/ motorStatus = "alarm" /\ Set(t, Inside("commit", TRUE, "healthy", 0))
        \/ Set(t, Inside("release", TRUE, "healthy", 0))
    BY <1>11 DEF ClearCounter
  <2>2. QED
    BY <1>3, <1>6, <1>7, <2>1 DEF Running, Statuses
<1>12. QED
  BY <1>4, <1>8, <1>9, <1>10, <1>11 DEF PushReading

\* Goto within a transition.
LEMMA SoloGoes ==
  ASSUME task \in [Tasks -> TaskState], Solo, Alone', NEW t \in Tasks,
         NEW label \in {"commit", "sync", "resolve", "enter", "find", "insert", "persist"}, Moving(task[t]),
         NEW h, h = Inside(label, task[t].locked, task[t].target, task[t].count),
         Goto(t, label), Stage(h)',
         restartsSent' > 0 => dbStatus' \in {"shutting_down", "restarting"}
  PROVE  Solo'
<1>1. Set(t, h) /\ Moving(h)
  BY DEF Goto, Moving, Inside
<1>2. QED
  BY <1>1, SoloMoves

LEMMA SoloEscalates ==
  ASSUME BudgetInv, Solo, Alone', NEW t \in Tasks, Escalate(t)
  PROVE  Solo'
<1>0. /\ task \in [Tasks -> TaskState] /\ restartsSent \in Nat /\ autoRestarts \in Nat
      /\ WellFormed(task[t]) /\ MaxAutoRestarts \in Nat /\ task[t].count \in Nat
  BY ParamsAssumption DEF BudgetInv, TypeOK, HandlersWellFormed, TaskState
<1> USE DEF memory, redis, db, history, budget, At
<1>1. Moving(task[t]) /\ Stage(task[t])
  BY DEF Solo, Staged, Moving, Escalate, ReadRestartCount, Commit, SyncSensorRows, ClearAlarm,
         EnterAlarm, AlertSkipped, AlertWanted, InsertAlert, PersistRestartCount
<1>2. CASE ReadRestartCount(t)
  <2>1. PICK target \in Tripped :
          /\ Set(t, Inside("commit", task[t].locked, target, autoRestarts))
          /\ target = "disabled" => autoRestarts >= MaxAutoRestarts
    BY <1>2 DEF ReadRestartCount, ExhaustedAt, Tripped
  <2> PICK h : h = Inside("commit", task[t].locked, target, autoRestarts)
    OBVIOUS
  <2>2. h.pc = "commit" /\ h.target = target /\ h.count = autoRestarts /\ Moving(h)
    BY DEF Inside, Moving
  <2>3. UNCHANGED Shared /\ task[t].pc = "readCount"
    BY <1>2 DEF ReadRestartCount, Shared
  <2>4. /\ motorStatus \in Running /\ sensorRows = "ok" /\ dbStatus = motorStatus
        /\ restartsSent = 0 /\ autoRestarts = 0
    BY <1>1, <2>3 DEF Stage, Agreed, StatusesAgree, RowsAgree, Running
  <2>5. target = "disabled" => MaxAutoRestarts = 0
    BY <1>0, <2>1, <2>4
  <2>6. Stage(h)
    BY <2>1, <2>2, <2>4, <2>5 DEF Stage, Tripped
  <2>7. Stage(h)'
    BY <2>3, <2>6, StageShared
  <2>8. ~(restartsSent' > 0)
    BY <2>3, <2>4 DEF Shared
  <2>9. QED
    BY <1>0, <1>1, <2>1, <2>2, <2>7, <2>8, SoloMoves
<1>3. CASE Commit(t)
  <2> DEFINE label == IF task[t].target = "alarm" THEN "enter" ELSE "sync"
  <2> PICK h : h = Inside(label, task[t].locked, task[t].target, task[t].count)
    OBVIOUS
  <2>1. /\ task[t].pc = "commit" /\ dbStatus' = task[t].target /\ Goto(t, label)
        /\ UNCHANGED <<motorStatus, sensorRows, restartsSent, autoRestarts>>
    BY <1>3 DEF Commit
  <2>2. h.pc = label /\ h.target = task[t].target /\ h.count = task[t].count
    BY DEF Inside
  <2>3. Stage(h)'
    BY <1>1, <2>1, <2>2 DEF Stage, Running
  <2>4. ~(restartsSent' > 0)
    BY <1>1, <2>1 DEF Stage
  <2>5. QED
    BY <1>0, <1>1, <2>1, <2>3, <2>4, SoloGoes
<1>4. CASE SyncSensorRows(t)
  <2> DEFINE label == IF task[t].target = "healthy" THEN "resolve" ELSE "find"
  <2> PICK h : h = Inside(label, task[t].locked, task[t].target, task[t].count)
    OBVIOUS
  <2>1. /\ task[t].pc = "sync" /\ sensorRows' = (IF task[t].target = "healthy" THEN "ok" ELSE "fault")
        /\ Goto(t, label) /\ UNCHANGED <<motorStatus, dbStatus, restartsSent, autoRestarts>>
    BY <1>4 DEF SyncSensorRows, RowsFor
  <2>2. h.pc = label /\ h.target = task[t].target /\ h.count = task[t].count
    BY DEF Inside
  <2>3. task[t].target # "alarm"
    BY <1>0, <2>1 DEF WellFormed
  <2>4. Stage(h)'
    BY <1>1, <2>1, <2>2, <2>3 DEF Stage
  <2>5. ~(restartsSent' > 0)
    BY <1>1, <2>1 DEF Stage
  <2>6. QED
    BY <1>0, <1>1, <2>1, <2>4, <2>5, SoloGoes
<1>5. CASE ClearAlarm(t)
  <2>1. /\ task[t].pc = "resolve" /\ motorStatus' = "healthy"
        /\ \A a \in AlertTypes : openAlerts'[a] = 0
        /\ UNCHANGED <<dbStatus, sensorRows, restartsSent, autoRestarts>>
    BY <1>5 DEF ClearAlarm
  <2>2. PICK h : Set(t, h) /\ ~Moving(h) /\ ~Resetting(h)
    BY <1>0, <1>5, SetReturn DEF ClearAlarm
  <2>3. Agreed' /\ autoRestarts' = restartsSent' /\ ~(restartsSent' > 0)
    BY <1>1, <2>1 DEF Stage, Agreed, StatusesAgree, RowsAgree
  <2>4. QED
    BY <1>0, <1>1, <2>2, <2>3, SoloEnds
<1>6. CASE EnterAlarm(t)
  <2> PICK h : h = Inside("find", task[t].locked, task[t].target, task[t].count)
    OBVIOUS
  <2>1. /\ task[t].pc = "enter" /\ motorStatus' = "alarm" /\ Goto(t, "find")
        /\ UNCHANGED <<dbStatus, sensorRows, restartsSent, autoRestarts>>
    BY <1>6 DEF EnterAlarm
  <2>2. h.pc = "find" /\ h.target = "alarm" /\ h.count = task[t].count
    BY <1>0, <2>1 DEF WellFormed, Inside
  <2>3. Stage(h)'
    BY <1>1, <2>1, <2>2 DEF Stage, Running
  <2>4. ~(restartsSent' > 0)
    BY <1>1, <2>1 DEF Stage
  <2>5. QED
    BY <1>0, <1>1, <2>1, <2>3, <2>4, SoloGoes
<1>7. CASE AlertWanted(t)
  <2> PICK h : h = Inside("insert", task[t].locked, task[t].target, task[t].count)
    OBVIOUS
  <2>1. task[t].pc = "find" /\ UNCHANGED Shared /\ Goto(t, "insert")
    BY <1>7 DEF AlertWanted, Shared
  <2>2. h.pc = "insert" /\ h.target = task[t].target /\ h.count = task[t].count
    BY DEF Inside
  <2>3. Stage(h)
    BY <1>1, <2>1, <2>2 DEF Stage
  <2>4. Stage(h)'
    BY <2>1, <2>3, StageShared
  <2>5. ~(restartsSent' > 0)
    BY <1>1, <2>1 DEF Stage, Shared
  <2>6. QED
    BY <1>0, <1>1, <2>1, <2>4, <2>5, SoloGoes
<1>8. CASE AlertSkipped(t) \/ InsertAlert(t)
  <2>1. /\ task[t].pc \in {"find", "insert"} /\ AfterAlert(t)
        /\ UNCHANGED <<dbStatus, sensorRows, autoRestarts>>
    BY <1>8 DEF AlertSkipped, InsertAlert
  <2>2. task[t].target \in {"alarm"} \union Tripped
    BY <1>0, <2>1 DEF WellFormed, Tripped
  <2>3. /\ dbStatus = task[t].target /\ restartsSent = 0 /\ autoRestarts = 0
        /\ sensorRows = IF task[t].target = "alarm" THEN "ok" ELSE "fault"
        /\ task[t].target = "alarm" => motorStatus = "alarm"
    BY <1>1, <2>1 DEF Stage
  <2>4. motorStatus' = dbStatus /\ dbStatus' # "healthy"
    BY <2>1, <2>2, <2>3 DEF AfterAlert, Tripped
  <2>5. Agreed'
    BY <2>1, <2>2, <2>3, <2>4 DEF Agreed, StatusesAgree, RowsAgree, Tripped
  <2>6. CASE task[t].target = "shutting_down"
    <3> PICK h : h = Inside("persist", task[t].locked, task[t].target, task[t].count)
      OBVIOUS
    <3>1. restartsSent' = restartsSent + 1 /\ Goto(t, "persist") /\ task[t].count = 0
      BY <1>1, <2>1, <2>6 DEF AfterAlert, Stage
    <3>2. h.pc = "persist" /\ h.count = task[t].count
      BY DEF Inside
    <3>3. Stage(h)'
      BY <2>1, <2>3, <2>4, <2>5, <2>6, <3>1, <3>2 DEF Stage
    <3>4. QED
      BY <1>0, <1>1, <2>1, <2>3, <2>6, <3>1, <3>3, SoloGoes
  <2>7. CASE task[t].target # "shutting_down"
    <3>1. restartsSent' = 0 /\ Return(t)
      BY <2>1, <2>3, <2>7 DEF AfterAlert
    <3>2. PICK h : Set(t, h) /\ ~Moving(h) /\ ~Resetting(h)
      BY <1>0, <3>1, SetReturn
    <3>3. QED
      BY <1>0, <1>1, <2>1, <2>3, <2>5, <3>1, <3>2, SoloEnds
  <2>8. QED
    BY <2>6, <2>7
<1>9. CASE PersistRestartCount(t)
  <2>1. /\ task[t].pc = "persist" /\ autoRestarts' = task[t].count + 1
        /\ UNCHANGED <<motorStatus, dbStatus, sensorRows, openAlerts, restartsSent>>
    BY <1>9 DEF PersistRestartCount
  <2>2. PICK h : Set(t, h) /\ ~Moving(h) /\ ~Resetting(h)
    BY <1>0, <1>9, SetReturn DEF PersistRestartCount
  <2>3. Agreed' /\ autoRestarts' = restartsSent'
    BY <1>1, <2>1 DEF Stage, Agreed, StatusesAgree, RowsAgree
  <2>4. restartsSent' > 0 => dbStatus' \in {"shutting_down", "restarting"}
    BY <2>1 DEF Solo, Counted
  <2>5. QED
    BY <1>0, <1>1, <2>2, <2>3, <2>4, SoloEnds
<1>10. QED
  BY <1>2, <1>3, <1>4, <1>5, <1>6, <1>7, <1>8, <1>9 DEF Escalate

\* A step that changes neither the handlers nor what they wrote.
LEMMA SoloStays == ASSUME Solo, UNCHANGED <<task, Shared>> PROVE Solo'
<1>1. Alone' /\ Staged' /\ StillAgreed'
  BY StageShared DEF Solo, Alone, Staged, StillAgreed
<1>2. Counted'
  BY DEF Solo, Counted, Shared
<1>3. QED
  BY <1>1, <1>2 DEF Solo

LEMMA SoloResets ==
  ASSUME BudgetInv, Solo, Alone', NEW t \in Tasks,
         Reset(t) \/ GraceExpires(t) \/ ConfirmHealthy(t)
  PROVE  Solo'
<1>0. task \in [Tasks -> TaskState] /\ restartsSent \in Nat
  BY DEF BudgetInv, TypeOK
<1> USE DEF memory, redis, db, history, budget, At
<1>1. CASE ResetNextCounter(t)
  <2>1. PICK label \in {"resetCounter", "resetCount"}, S \in SUBSET Sensors :
          Set(t, Waiting(label, S, "normal"))
    BY <1>0, <1>1 DEF ResetNextCounter, BudgetInv, TypeOK, TaskState
  <2>2. ~Moving(Waiting(label, S, "normal")) /\ Resetting(Waiting(label, S, "normal"))
    BY DEF Moving, Resetting, Waiting
  <2>3. ~Moving(task[t]) /\ Resetting(task[t]) /\ UNCHANGED Shared
    BY <1>1 DEF ResetNextCounter, Moving, Resetting, Shared
  <2>4. QED
    BY <1>0, <2>1, <2>2, <2>3, SoloQuiet
<1>2. CASE FinishReset(t)
  <2>1. /\ task[t].pc = "resetCount" /\ autoRestarts' = 0 /\ Set(t, Idle)
        /\ UNCHANGED <<motorStatus, dbStatus, sensorRows, openAlerts, restartsSent>>
    BY <1>2 DEF FinishReset
  <2>2. ~Moving(task[t]) /\ Resetting(task[t])
    BY <2>1 DEF Moving, Resetting
  <2>3. restartsSent = 0
    BY <1>0, <2>2 DEF Solo, Counted
  <2>4. ~Moving(Idle) /\ ~Resetting(Idle)
    BY DEF Moving, Resetting, Idle, Waiting
  <2>5. \A u \in Tasks : task'[u] = IF u = t THEN Idle ELSE task[u]
    BY <1>0, <2>1, ReplacesOne
  <2>6. \A u \in Tasks : ~Moving(task[u])
    BY <2>2 DEF Solo, Alone
  <2>7. \A u \in Tasks : ~Moving(task'[u])
    BY <2>4, <2>5, <2>6
  <2>8. Agreed'
    BY <2>1, <2>6 DEF Solo, StillAgreed, Agreed, StatusesAgree, RowsAgree
  <2>9. QED
    BY <2>1, <2>3, <2>7, <2>8 DEF Solo, Staged, StillAgreed, Counted
<1>3. CASE GraceExpires(t)
  <2>1. /\ ~Moving(task[t]) /\ ~Resetting(task[t]) /\ UNCHANGED Shared
    BY <1>3 DEF GraceExpires, BeginTrip, Moving, Resetting, Shared
  <2>2. CASE motorStatus # "alarm"
    BY <1>3, <2>1, <2>2, SoloStays DEF GraceExpires
  <2>3. CASE motorStatus = "alarm"
    <3> DEFINE h == Inside("readCount", FALSE, "healthy", 0)
    <3>1. Set(t, h)
      BY <1>3, <2>3 DEF GraceExpires, BeginTrip
    <3>2. Moving(h) /\ h.pc = "readCount"
      BY DEF Inside, Moving
    <3>3. Agreed /\ restartsSent = 0 /\ autoRestarts = 0 => Stage(h)
      BY <2>3, <3>2 DEF Stage, Running
    <3>4. QED
      BY <1>0, <2>1, <2>3, <3>1, <3>2, <3>3, SoloBegins DEF Running
  <2>4. QED
    BY <2>2, <2>3
<1>4. CASE ConfirmHealthy(t)
  <2>1. /\ dbStatus' = "healthy" /\ sensorRows' = "ok" /\ motorStatus' = "healthy"
        /\ \A a \in AlertTypes : openAlerts'[a] = 0
        /\ restartsSent' = 0
    BY <1>4 DEF ConfirmHealthy
  <2>2. PICK S : Set(t, Waiting("resetCounter", S, "normal"))
    BY <1>4 DEF ConfirmHealthy, StartReset
  <2>3. Resetting(task'[t]) /\ ~Moving(task'[t])
    BY <1>0, <2>2, ReplacesOne DEF Resetting, Moving, Waiting
  <2>4. \A u \in Tasks : ~Moving(task'[u])
    BY <2>3 DEF Alone
  <2>5. Agreed'
    BY <2>1 DEF Agreed, StatusesAgree, RowsAgree
  <2>6. QED
    BY <2>1, <2>3, <2>4, <2>5 DEF Solo, Staged, StillAgreed, Counted
<1>5. QED
  BY <1>1, <1>2, <1>3, <1>4 DEF Reset

\* The consumer reports that the motor restarts: nothing but the end of its trip is under way.
LEMMA SoloReports == ASSUME BudgetInv, Solo, Alone', ReportProgress PROVE Solo'
<1> USE DEF memory, redis, db, history, budget
<1>1. /\ restartsSent > 0 /\ dbStatus' = "restarting" /\ sensorRows' = "fault"
      /\ dbStatus # "restarting" /\ restartsSent \in Nat
      /\ UNCHANGED <<motorStatus, openAlerts, restartsSent, autoRestarts, task>>
  BY DEF ReportProgress, BudgetInv, TypeOK
<1>2. dbStatus = "shutting_down"
  BY <1>1 DEF Solo, Counted
<1>3. Agreed => Agreed'
  BY <1>1, <1>2 DEF Agreed, StatusesAgree, RowsAgree
<1>4. StillAgreed'
  BY <1>1, <1>3 DEF Solo, StillAgreed
<1>5. ASSUME NEW t \in Tasks, Moving(task[t]) PROVE Stage(task[t])'
  <2>1. Stage(task[t])
    BY <1>5 DEF Solo, Staged
  <2>2. task[t].pc = "persist" /\ Agreed
    BY <1>1, <2>1 DEF Stage
  <2>3. motorStatus = "shutting_down" /\ restartsSent = task[t].count + 1
    BY <2>1, <2>2 DEF Stage
  <2>4. QED
    BY <1>1, <1>3, <2>2, <2>3 DEF Stage
<1>6. Staged'
  BY <1>1, <1>5 DEF Staged
<1>7. Counted'
  BY <1>1 DEF Solo, Counted
<1>8. QED
  BY <1>4, <1>6, <1>7 DEF Solo

\* A boot that interrupts nothing.
LEMMA SoloBoots ==
  ASSUME BudgetInv, Solo, Alone', CrashAndBoot,
         \A t \in Tasks : ~Moving(task[t]) /\ ~Resetting(task[t])
  PROVE  Solo'
<1> USE DEF memory, redis, db, history, budget
<1>1. Agreed /\ autoRestarts = restartsSent
  BY DEF Solo, StillAgreed, Counted
<1>2. /\ motorStatus' = dbStatus /\ restartsSent \in Nat
      /\ UNCHANGED <<dbStatus, sensorRows, openAlerts, restartsSent, autoRestarts>>
  BY DEF CrashAndBoot, BudgetInv, TypeOK
<1>3. Agreed'
  BY <1>1, <1>2 DEF Agreed, StatusesAgree, RowsAgree
<1>4. ~Moving(Idle) /\ ~Resetting(Idle)
  BY DEF Moving, Resetting, Idle, Waiting
<1>5. CASE task' = [t \in Tasks |-> Idle]
  <2>1. \A t \in Tasks : ~Moving(task'[t]) /\ ~Resetting(task'[t])
    BY <1>4, <1>5
  <2>2. QED
    BY <1>1, <1>2, <1>3, <2>1 DEF Solo, Staged, StillAgreed, Counted
<1>6. CASE \E t \in Tasks :
             task' = [u \in Tasks |-> IF u = t THEN Inside("readCount", FALSE, "healthy", 0)
                                      ELSE Idle]
  <2> DEFINE h == Inside("readCount", FALSE, "healthy", 0)
  <2>1. CASE dbStatus # "alarm"
    BY <1>5, <2>1 DEF CrashAndBoot
  <2>2. CASE dbStatus = "alarm"
    <3>1. PICK t \in Tasks : \A u \in Tasks : task'[u] = IF u = t THEN h ELSE Idle
      BY <1>6
    <3>2. h.pc = "readCount" /\ Moving(h) /\ ~Resetting(h)
      BY DEF Inside, Moving, Resetting
    <3>3. restartsSent = 0 /\ autoRestarts = 0
      BY <1>1, <1>2, <2>2 DEF Solo, Counted
    <3>4. Stage(h)'
      BY <1>2, <1>3, <2>2, <3>2, <3>3 DEF Stage, Running
    <3>5. Staged'
      BY <1>4, <3>1, <3>4 DEF Staged
    <3>6. StillAgreed' /\ Counted'
      BY <1>2, <1>3, <3>1, <3>2, <3>3 DEF StillAgreed, Counted
    <3>7. QED
      BY <3>5, <3>6 DEF Solo
  <2>3. QED
    BY <2>1, <2>2
<1>7. QED
  BY <1>5, <1>6 DEF CrashAndBoot

\* A rejected operation outside the transitions.
LEMMA SoloFails ==
  ASSUME BudgetInv, Solo, Alone', NEW t \in Tasks, OperationFails(t), ~Moving(task[t])
  PROVE  Solo'
<1> USE DEF memory, redis, db, history, budget, At
<1>1. task \in [Tasks -> TaskState]
  BY DEF BudgetInv, TypeOK
<1>2. UNCHANGED Shared /\ ~Resetting(task[t])
  BY DEF OperationFails, Shared, Resetting
<1>3. ~Moving(Idle) /\ ~Resetting(Idle)
  BY DEF Moving, Resetting, Idle, Waiting
<1>4. \E h : Set(t, h) /\ ~Moving(h) /\ ~Resetting(h)
  BY <1>1, <1>3, SetReturn DEF OperationFails
<1>5. QED
  BY <1>1, <1>2, <1>4, SoloQuiet

\* A step that disturbs nothing leaves a transition alone and lets none be cut off.
LEMMA Undisturbed ==
  ASSUME BudgetInv, Step, ~Disturbance
  PROVE  /\ Alone'
         /\ \A t \in Tasks : OperationFails(t) => ~Moving(task[t])
         /\ CrashAndBoot => \A t \in Tasks : ~Moving(task[t]) /\ ~Resetting(task[t])
<1>1. Alone'
  BY DEF Disturbance, Alone
<1>2. ASSUME NEW t \in Tasks, OperationFails(t), Moving(task[t]) PROVE FALSE
  <2>1. task \in [Tasks -> TaskState] /\ faults' # faults /\ ~At(t, "release")
    BY <1>2 DEF BudgetInv, TypeOK, OperationFails, At, Moving
  <2>2. PICK h : Set(t, h) /\ ~Moving(h)
    BY <1>2, <2>1, SetReturn DEF OperationFails
  <2>3. task'[t] = h
    BY <2>1, <2>2, ReplacesOne
  <2>4. QED
    BY <1>2, <2>1, <2>2, <2>3 DEF Disturbance
<1>3. CrashAndBoot => crashes' # crashes
  BY DEF CrashAndBoot, BudgetInv, TypeOK
<1>4. QED
  BY <1>1, <1>2, <1>3 DEF Disturbance

LEMMA SoloInductive == BudgetInv /\ SoloInv /\ [Next]_vars => SoloInv'
<1> SUFFICES ASSUME BudgetInv, SoloInv, [Next]_vars, ~disturbed' PROVE Solo'
  BY DEF SoloInv
<1>1. CASE Next
  <2>1. Step /\ ~Disturbance /\ Solo
    BY <1>1 DEF Next, Record, SoloInv
  <2>2. Alone'
    BY <2>1, Undisturbed
  <2>3. ASSUME NEW t \in Tasks, OperationFails(t) PROVE Solo'
    BY <2>1, <2>2, <2>3, Undisturbed, SoloFails
  <2>4. CASE CrashAndBoot
    BY <2>1, <2>2, <2>4, Undisturbed, SoloBoots
  <2>5. CASE CooldownElapses \/ LockExpires
    <3>1. UNCHANGED <<task, Shared>>
      BY <2>5 DEF CooldownElapses, LockExpires, Shared, memory, redis, db, history, budget
    <3>2. QED
      BY <2>1, <3>1, SoloStays
  <2>6. QED
    BY <2>1, <2>2, <2>3, <2>4, <2>5, SoloReadings, SoloEscalates, SoloResets, SoloReports
    DEF Step
<1>2. CASE UNCHANGED vars
  <2>1. UNCHANGED <<task, Shared, disturbed>>
    BY <1>2 DEF vars, memory, redis, db, history, Shared
  <2>2. QED
    BY <2>1, SoloStays DEF SoloInv
<1>3. QED
  BY <1>1, <1>2

LEMMA SoloInit == Init => SoloInv
<1> SUFFICES ASSUME Init PROVE Solo
  BY DEF SoloInv
<1>1. \A t \in Tasks : ~Moving(task[t]) /\ ~Resetting(task[t])
  BY DEF Init, Idle, Waiting, Moving, Resetting
<1>2. Agreed
  BY DEF Init, Agreed, StatusesAgree, RowsAgree
<1>3. QED
  BY <1>1, <1>2 DEF Init, Solo, Alone, Staged, StillAgreed, Counted

\* Memory, the sensor rows and the alerts agree with the motor row whenever no transition is
\* under way, until one has been overlapped, rejected or lost in a crash (transitionMotor,
\* transitionMotorSensors, resolveMotorAlerts and what each caller does after them), for any
\* number of handlers.
THEOREM WritesInStep == Spec => []WritesAgree
<1>1. SoloInv => WritesAgree
  BY DEF SoloInv, WritesAgree, Solo, StillAgreed, Agreed
<1>2. QED
  BY BudgetInit, BudgetInductive, SoloInit, SoloInductive, <1>1, PTL DEF Spec

-----------------------------------------------------------------------------
(* The abstract motor. *)

\* Every step that leaves the transitions undisturbed is a step of the lifecycle, or none.
LEMMA LifecycleStep ==
  ASSUME BudgetInv, SoloInv, [Next]_vars, ~disturbed'
  PROVE  [Lifecycle!Next]_(Lifecycle!vars)
<1> USE DEF memory, redis, db, history, budget, At, LifecycleStatus
<1>1. CASE UNCHANGED vars
  <2>1. UNCHANGED <<motorStatus, restartsSent>>
    BY <1>1 DEF vars
  <2>2. QED
    BY <2>1 DEF Lifecycle!vars
<1>2. CASE Next
  <2>1. Step /\ ~Disturbance /\ Solo
    BY <1>2 DEF Next, Record, SoloInv
  <2>2. /\ restartsSent \in Nat /\ MaxAutoRestarts \in Nat
        /\ \A t \in Tasks : WellFormed(task[t])
    BY ParamsAssumption DEF BudgetInv, TypeOK, HandlersWellFormed
  <2>3. ASSUME NEW t \in Tasks, Moving(task[t]) PROVE Stage(task[t])
    BY <2>1, <2>3 DEF Solo, Staged
  <2>4. ASSUME NEW t \in Tasks, ClearAlarm(t) PROVE [Lifecycle!Next]_(Lifecycle!vars)
    <3>1. motorStatus = "alarm" /\ motorStatus' = "healthy" /\ UNCHANGED restartsSent
      BY <2>3, <2>4 DEF ClearAlarm, Stage, Moving
    <3>2. Lifecycle!Clear
      BY <3>1 DEF Lifecycle!Clear
    <3>3. QED
      BY <3>2 DEF Lifecycle!Next
  <2>5. ASSUME NEW t \in Tasks, EnterAlarm(t) PROVE [Lifecycle!Next]_(Lifecycle!vars)
    <3>1. motorStatus = "healthy" /\ motorStatus' = "alarm" /\ UNCHANGED restartsSent
      BY <2>3, <2>5 DEF EnterAlarm, Stage, Moving
    <3>2. Lifecycle!Alarm
      BY <3>1 DEF Lifecycle!Alarm
    <3>3. QED
      BY <3>2 DEF Lifecycle!Next
  <2>6. ASSUME NEW t \in Tasks, AlertSkipped(t) \/ InsertAlert(t)
        PROVE  [Lifecycle!Next]_(Lifecycle!vars)
    <3>1. task[t].pc \in {"find", "insert"} /\ AfterAlert(t) /\ Stage(task[t])
      BY <2>3, <2>6 DEF AlertSkipped, InsertAlert, Moving
    <3>2. task[t].target \in {"alarm"} \union Tripped
      BY <2>2, <3>1 DEF WellFormed, Tripped
    <3>3. motorStatus \in Running /\ restartsSent = 0
      BY <3>1 DEF Stage
    <3>4. CASE task[t].target = "alarm"
      <4>1. motorStatus' = motorStatus /\ restartsSent' = restartsSent + 0
        BY <3>1, <3>4 DEF AfterAlert
      <4>2. QED
        BY <2>2, <4>1 DEF Lifecycle!vars
    <3>5. CASE task[t].target = "shutting_down"
      <4>1. motorStatus' = "shutting_down" /\ restartsSent' = restartsSent + 1
        BY <3>1, <3>5 DEF AfterAlert
      <4>2. restartsSent < MaxAutoRestarts
        BY <2>2, <3>1, <3>3, <3>5 DEF Stage, WellFormed
      <4>3. Lifecycle!Trip
        BY <3>3, <4>1, <4>2 DEF Lifecycle!Trip, Running
      <4>4. QED
        BY <4>3 DEF Lifecycle!Next
    <3>6. CASE task[t].target = "disabled"
      <4>1. motorStatus' = "disabled" /\ restartsSent' = restartsSent + 0
        BY <3>1, <3>6 DEF AfterAlert
      <4>2. restartsSent = MaxAutoRestarts
        BY <3>1, <3>3, <3>6 DEF Stage
      <4>3. Lifecycle!Disable
        BY <2>2, <3>3, <4>1, <4>2 DEF Lifecycle!Disable, Running
      <4>4. QED
        BY <4>3 DEF Lifecycle!Next
    <3>7. QED
      BY <3>2, <3>4, <3>5, <3>6 DEF Tripped
  <2>7. ASSUME NEW t \in Tasks, ConfirmHealthy(t) PROVE [Lifecycle!Next]_(Lifecycle!vars)
    <3>1. /\ dbStatus \in {"shutting_down", "restarting"} /\ motorStatus' = "healthy"
          /\ restartsSent' = 0 /\ At(t, "idle")
      BY <2>7 DEF ConfirmHealthy
    <3>2. PICK S : Set(t, Waiting("resetCounter", S, "normal"))
      BY <2>7 DEF ConfirmHealthy, StartReset
    <3>3. task \in [Tasks -> TaskState]
      BY DEF BudgetInv, TypeOK
    <3>4. \A u \in Tasks : task'[u] = IF u = t THEN Waiting("resetCounter", S, "normal") ELSE task[u]
      BY <3>2, <3>3, ReplacesOne
    <3>5. Alone' /\ Resetting(task'[t])
      BY <2>1, <3>4, Undisturbed DEF Resetting, Waiting
    <3>6. \A u \in Tasks : ~Moving(task[u])
      BY <3>1, <3>4, <3>5 DEF Alone, Moving
    <3>7. motorStatus \in {"shutting_down", "restarting"}
      BY <2>1, <3>1, <3>6 DEF Solo, StillAgreed, Agreed, StatusesAgree
    <3>8. Lifecycle!Recover
      BY <3>1, <3>7 DEF Lifecycle!Recover
    <3>9. QED
      BY <3>8 DEF Lifecycle!Next
  <2>8. CASE CrashAndBoot
    <3>1. \A t \in Tasks : ~Moving(task[t])
      BY <2>1, <2>8, Undisturbed
    <3>2. StatusesAgree
      BY <2>1, <3>1 DEF Solo, StillAgreed, Agreed
    <3>3. motorStatus' = dbStatus /\ UNCHANGED restartsSent
      BY <2>8 DEF CrashAndBoot
    <3>4. QED
      BY <3>2, <3>3 DEF StatusesAgree, Lifecycle!vars
  <2>9. ASSUME NEW t \in Tasks,
               \/ PushReading(t) \/ \E s \in Sensors, r \in Readings : ReadingArrives(t, s, r)
               \/ GraceExpires(t) \/ Reset(t) \/ OperationFails(t)
        PROVE  [Lifecycle!Next]_(Lifecycle!vars)
    <3>1. UNCHANGED <<motorStatus, restartsSent>>
      BY <2>9 DEF PushReading, LockBusy, ImmediateTrip, CountAnomaly, ClearCounter, ReleaseLock,
                  ReadingArrives, GraceExpires, Reset, ResetNextCounter, FinishReset,
                  OperationFails
    <3>2. QED
      BY <3>1 DEF Lifecycle!vars
  <2>10. ASSUME NEW t \in Tasks,
                \/ ReadRestartCount(t) \/ Commit(t) \/ SyncSensorRows(t) \/ AlertWanted(t)
                \/ PersistRestartCount(t)
         PROVE  [Lifecycle!Next]_(Lifecycle!vars)
    <3>1. UNCHANGED <<motorStatus, restartsSent>>
      BY <2>10 DEF ReadRestartCount, Commit, SyncSensorRows, AlertWanted, PersistRestartCount
    <3>2. QED
      BY <3>1 DEF Lifecycle!vars
  <2>11. CASE ReportProgress \/ CooldownElapses \/ LockExpires
    <3>1. UNCHANGED <<motorStatus, restartsSent>>
      BY <2>11 DEF ReportProgress, CooldownElapses, LockExpires
    <3>2. QED
      BY <3>1 DEF Lifecycle!vars
  <2>12. QED
    BY <2>1, <2>4, <2>5, <2>6, <2>7, <2>8, <2>9, <2>10, <2>11 DEF Step, Escalate
<1>3. QED
  BY <1>1, <1>2

\* The initial state is one of the abstract motor.
LEMMA LifecycleInit == Init => Lifecycle!Init
BY DEF Init, Lifecycle!Init, LifecycleStatus

\* Every step is one of the abstract motor, or none, until a transition is disturbed: the status
\* in memory takes only its edges, restarts are published only within their budget and once per
\* episode, for any number of handlers, timers and restarts of the backend (LifecycleSteps).
THEOREM LifecycleImplemented == Spec => Lifecycle!Init /\ LifecycleSteps
<1>1. BudgetInv /\ SoloInv /\ [Next]_vars
        => [~disturbed' => [Lifecycle!Next]_(Lifecycle!vars)]_vars
  BY LifecycleStep
<1>2. QED
  BY BudgetInit, BudgetInductive, SoloInit, SoloInductive, LifecycleInit, <1>1, PTL
  DEF Spec, LifecycleSteps

-----------------------------------------------------------------------------
(* The consumer around the evaluation.                                       *)

\* What is known of a handler after a step.
LEMMA SetInside ==
  ASSUME task \in [Tasks -> TaskState], NEW t \in Tasks, NEW label, NEW locked, NEW target, NEW count,
         Set(t, Inside(label, locked, target, count))
  PROVE  task'[t].pc = label /\ task'[t].target = target /\ task'[t].count = count
BY DEF Set, Inside

LEMMA SetWaiting ==
  ASSUME task \in [Tasks -> TaskState], NEW t \in Tasks, NEW label, NEW sensors, NEW reading,
         Set(t, Waiting(label, sensors, reading))
  PROVE  task'[t].pc = label
BY DEF Set, Waiting

LEMMA SetReturned ==
  ASSUME task \in [Tasks -> TaskState], NEW t \in Tasks, Return(t)
  PROVE  task'[t].pc \in {"release", "idle"}
<1>1. CASE task[t].locked
  BY <1>1, SetInside DEF Return
<1>2. CASE ~task[t].locked
  BY <1>2, SetWaiting DEF Return, Idle
<1>3. QED
  BY <1>1, <1>2

\* What the kind of a message handler says about the stage it has reached.
JobMakesSense(j) ==
  /\ j.stage = "idle" => j.kind = "none"
  /\ j.stage \in {"read", "commit"} => j.kind \in {"confirm", "offline", "watchdog", "progress"}
  /\ j.stage = "sync" => j.kind \in {"confirm", "progress"}
  /\ j.stage \in {"resolve", "evaluate"} => j.kind = "confirm"
  /\ j.stage = "apply" => j.kind \in {"offline", "watchdog"}

JobInv == job \in [Tasks -> [kind : Kinds, stage : Stages]] /\ \A t \in Tasks : JobMakesSense(job[t])

ConsumerInv == BudgetInv /\ JobInv /\ ConsumerTypeOK

LEMMA JobSet ==
  ASSUME JobInv, NEW t \in Tasks, NEW kind \in Kinds, NEW stage \in Stages, SetJob(t, kind, stage),
         JobMakesSense([kind |-> kind, stage |-> stage])
  PROVE  /\ JobInv' /\ job'[t].kind = kind /\ job'[t].stage = stage
         /\ \A u \in Tasks : u # t => job'[u] = job[u]
BY DEF JobInv, SetJob, JobMakesSense

LEMMA JobEnded ==
  ASSUME JobInv, NEW t \in Tasks, EndJob(t)
  PROVE  /\ JobInv' /\ job'[t].kind = "none" /\ job'[t].stage = "idle"
         /\ \A u \in Tasks : u # t => job'[u] = job[u]
BY DEF JobInv, EndJob, JobMakesSense, NoJob, Kinds, Stages

\* A handler that begins to read the row.
LEMMA JobBegun ==
  ASSUME JobInv, NEW t \in Tasks, NEW kind \in Kinds \ {"none"}, SetJob(t, kind, "read")
  PROVE  /\ JobInv' /\ job'[t].kind = kind /\ job'[t].stage = "read"
         /\ \A u \in Tasks : u # t => job'[u] = job[u]
<1>1. "read" \in Stages /\ JobMakesSense([kind |-> kind, stage |-> "read"])
  BY DEF Stages, Kinds, JobMakesSense
<1>2. QED
  BY <1>1, JobSet

LEMMA JobProceeds ==
  ASSUME JobInv, NEW t \in Tasks, Proceed(t), watchdog \in BOOLEAN
  PROVE  /\ JobInv' /\ watchdog' \in BOOLEAN
         /\ \A u \in Tasks : u # t => job'[u] = job[u]
         /\ job[t].kind = "confirm" =>
              watchdog' = TRUE /\ job'[t].kind = "confirm" /\ job'[t].stage = "evaluate"
         /\ job[t].kind # "confirm" =>
              /\ watchdog' = (watchdog \/ job[t].kind = "progress")
              /\ job'[t].kind = "none" /\ job'[t].stage = "idle"
<1>1. CASE job[t].kind = "confirm"
  <2>1. "confirm" \in Kinds /\ "evaluate" \in Stages /\ JobMakesSense([kind |-> "confirm", stage |-> "evaluate"])
    BY DEF Stages, Kinds, JobMakesSense
  <2>2. watchdog' = TRUE /\ SetJob(t, "confirm", "evaluate")
    BY <1>1 DEF Proceed
  <2>3. QED
    BY <1>1, <2>1, <2>2, JobSet
<1>2. CASE job[t].kind # "confirm"
  <2>1. watchdog' = (watchdog \/ job[t].kind = "progress") /\ EndJob(t)
    BY <1>2 DEF Proceed
  <2>2. QED
    BY <1>2, <2>1, JobEnded
<1>3. QED
  BY <1>1, <1>2

\* The messages on the status topic.
LEMMA StatusHandled ==
  ASSUME JobInv, NEW t \in Tasks, NEW state \in {"online", "offline"}, Publish(t, state),
         watchdog \in BOOLEAN, pendingOnline \in BOOLEAN, heard \in BOOLEAN, carried \subseteq Tasks
  PROVE  /\ JobInv' /\ retained' \in {"online", "offline"}
         /\ watchdog' \in BOOLEAN /\ pendingOnline' \in BOOLEAN /\ heard' \in BOOLEAN
         /\ carried' \subseteq Tasks /\ Free(t)
         /\ \A u \in Tasks : u # t => job'[u] = job[u]
         /\ \/ UNCHANGED job /\ watchdog' = TRUE /\ Unheard
            \/ job'[t].kind = "offline" /\ job'[t].stage = "read" /\ UNCHANGED <<watchdog, hearing>>
<1>1. CASE state = "online"
  BY <1>1 DEF Publish, HandleStatus, HandleOnline, Unheard, JobInv
<1>2. CASE state # "online"
  <2>1. SetJob(t, "offline", "read") /\ UNCHANGED <<pendingOnline, watchdog, hearing>> /\ Free(t) /\ retained' = state
    BY <1>2 DEF Publish, HandleStatus, HandleOffline
  <2>2. QED
    BY <2>1, JobBegun DEF Kinds, hearing
<1>3. QED
  BY <1>1, <1>2

LEMMA ConsumerInit == InitConsumer => ConsumerInv
<1> SUFFICES ASSUME InitConsumer PROVE ConsumerInv
  OBVIOUS
<1>1. BudgetInv
  BY BudgetInit DEF InitConsumer
<1>2. JobInv
  BY DEF InitConsumer, JobInv, NoJob, Kinds, Stages, JobMakesSense
<1>3. ConsumerTypeOK
  BY <1>1, <1>2 DEF InitConsumer, ConsumerTypeOK, JobInv, BudgetInv
<1>4. QED
  BY <1>1, <1>2, <1>3 DEF ConsumerInv

LEMMA ConsumerInductive == ConsumerInv /\ [NextConsumer]_allVars => ConsumerInv'
<1> SUFFICES ASSUME ConsumerInv, [NextConsumer]_allVars PROVE ConsumerInv'
  OBVIOUS
<1>0. /\ BudgetInv /\ JobInv
      /\ pendingOnline \in BOOLEAN /\ watchdog \in BOOLEAN /\ heard \in BOOLEAN
      /\ carried \subseteq Tasks /\ slipped \in BOOLEAN /\ disturbed \in BOOLEAN
      /\ device \in {"powered_on", "shutting_down", "restarting", "powered_off"}
      /\ connected \in BOOLEAN /\ command \in BOOLEAN /\ retained \in {"online", "offline"}
  BY DEF ConsumerInv, ConsumerTypeOK, BudgetInv, TypeOK
<1>01. slipped' \in BOOLEAN /\ disturbed' \in BOOLEAN
  BY <1>0 DEF NextConsumer, Note, allVars
<1>1. ASSUME BudgetInv', JobInv',
             pendingOnline' \in BOOLEAN, watchdog' \in BOOLEAN, heard' \in BOOLEAN, carried' \subseteq Tasks,
             device' \in {"powered_on", "shutting_down", "restarting", "powered_off"},
             connected' \in BOOLEAN, command' \in BOOLEAN, retained' \in {"online", "offline"}
      PROVE  ConsumerInv'
  BY <1>01, <1>1 DEF ConsumerInv, ConsumerTypeOK, JobInv, BudgetInv
<1>2. ASSUME UNCHANGED evaluation PROVE BudgetInv'
  BY <1>0, <1>01, <1>2, BudgetSteps DEF Steps
<1> USE DEF consumer, environment, hearing
<1>3. ASSUME UNCHANGED job PROVE JobInv'
  BY <1>0, <1>3 DEF JobInv
<1>4. ASSUME NEW t \in Tasks, Disconnect(t) PROVE ConsumerInv'
  BY <1>0, <1>1, <1>2, <1>4, StatusHandled DEF Disconnect
<1>5. ASSUME NEW t \in Tasks, Connect(t) PROVE ConsumerInv'
  BY <1>0, <1>1, <1>2, <1>5, StatusHandled DEF Connect
<1>6. ASSUME NEW t \in Tasks, StopDevice(t) PROVE ConsumerInv'
  BY <1>0, <1>1, <1>2, <1>6, StatusHandled DEF StopDevice
<1>7. ASSUME NEW t \in Tasks, FinishCountdown(t) PROVE ConsumerInv'
  BY <1>0, <1>1, <1>2, <1>7, StatusHandled DEF FinishCountdown
<1>8. CASE OperatorRestarts
  BY <1>0, <1>1, <1>2, <1>3, <1>8 DEF OperatorRestarts
<1>9. CASE TakeRestart
  BY <1>0, <1>1, <1>2, <1>3, <1>9 DEF TakeRestart
<1>10. ASSUME NEW t \in Tasks, FirstProgress(t) PROVE ConsumerInv'
  BY <1>0, <1>1, <1>2, <1>10, JobBegun DEF FirstProgress, Kinds
<1>11. CASE LaterProgress
  BY <1>0, <1>1, <1>2, <1>3, <1>11 DEF LaterProgress
<1>12. ASSUME NEW t \in Tasks, Telemetry(t) PROVE ConsumerInv'
  <2>1. CASE pendingOnline
    BY <1>0, <1>1, <1>2, <1>12, <2>1, JobBegun DEF Telemetry, Kinds
  <2>2. CASE ~pendingOnline
    <3>1. "confirm" \in Kinds /\ "evaluate" \in Stages /\ JobMakesSense([kind |-> "confirm", stage |-> "evaluate"])
      BY DEF Stages, Kinds, JobMakesSense
    <3>2. JobInv'
      BY <1>0, <1>12, <2>2, <3>1, JobSet DEF Telemetry
    <3>3. QED
      BY <1>0, <1>1, <1>2, <1>12, <2>2, <3>2 DEF Telemetry
  <2>3. QED
    BY <2>1, <2>2
<1>13. ASSUME NEW t \in Tasks, WatchdogFires(t) PROVE ConsumerInv'
  BY <1>0, <1>1, <1>2, <1>13, JobBegun DEF WatchdogFires, Kinds
<1>14. ASSUME NEW t \in Tasks, ReadStatus(t) PROVE ConsumerInv'
  <2>1. CASE SetJob(t, job[t].kind, "commit") /\ UNCHANGED watchdog
    <3>1. job[t].kind \in Kinds /\ "commit" \in Stages /\ JobMakesSense([kind |-> job[t].kind, stage |-> "commit"])
      BY <1>0, <1>14 DEF ReadStatus, Does, JobInv, JobMakesSense, Stages
    <3>2. JobInv'
      BY <1>0, <2>1, <3>1, JobSet
    <3>3. QED
      BY <1>0, <1>1, <1>2, <1>14, <2>1, <3>2 DEF ReadStatus
  <2>2. CASE Proceed(t)
    BY <1>0, <1>1, <1>2, <1>14, <2>2, JobProceeds DEF ReadStatus
  <2>3. QED
    BY <1>14, <2>1, <2>2 DEF ReadStatus
<1> USE DEF memory, redis, db, history, budget
<1>15. ASSUME NEW t \in Tasks, CommitStatus(t) PROVE ConsumerInv'
  <2>1. job[t].kind \in {"confirm", "offline", "watchdog", "progress"}
    BY <1>0, <1>15 DEF CommitStatus, Does, JobInv, JobMakesSense
  <2>2. dbStatus' \in Statuses /\ (dbStatus' = "manual_shutdown" <=> job[t].kind \in {"offline", "watchdog"})
    BY <1>15, <2>1 DEF CommitStatus, TargetOf, Statuses
  <2>3. PICK stage \in {"apply", "sync"} :
          /\ SetJob(t, job[t].kind, stage)
          /\ stage = "apply" => job[t].kind \in {"offline", "watchdog"}
          /\ stage = "sync" => job[t].kind \in {"confirm", "progress"}
    BY <1>15, <2>1, <2>2 DEF CommitStatus
  <2>4. job[t].kind \in Kinds /\ stage \in Stages /\ JobMakesSense([kind |-> job[t].kind, stage |-> stage])
    BY <2>1, <2>3 DEF JobMakesSense, Stages, Kinds
  <2>5. JobInv'
    BY <1>0, <2>3, <2>4, JobSet
  <2>6. BudgetInv'
    BY <1>0, <1>01, <1>15, <2>2 DEF CommitStatus, BudgetInv, TypeOK, HandlersWellFormed, RestartBudget
  <2>7. QED
    BY <1>0, <1>1, <1>15, <2>5, <2>6 DEF CommitStatus
<1>16. ASSUME NEW t \in Tasks, SyncRows(t) PROVE ConsumerInv'
  <2>1. BudgetInv'
    BY <1>0, <1>01, <1>16 DEF SyncRows, RowsFor, BudgetInv, TypeOK, HandlersWellFormed, RestartBudget
  <2>2. CASE SetJob(t, "confirm", "resolve") /\ UNCHANGED watchdog
    <3>1. "confirm" \in Kinds /\ "resolve" \in Stages /\ JobMakesSense([kind |-> "confirm", stage |-> "resolve"])
      BY DEF Stages, Kinds, JobMakesSense
    <3>2. JobInv'
      BY <1>0, <2>2, <3>1, JobSet
    <3>3. QED
      BY <1>0, <1>1, <1>16, <2>1, <2>2, <3>2 DEF SyncRows
  <2>3. CASE Proceed(t)
    BY <1>0, <1>1, <1>16, <2>1, <2>3, JobProceeds DEF SyncRows
  <2>4. QED
    BY <1>16, <2>2, <2>3 DEF SyncRows
<1>17. ASSUME NEW t \in Tasks, Confirm(t) PROVE ConsumerInv'
  <2>1. PICK u \in Tasks, s \in Sensors :
          /\ counter' = [counter EXCEPT ![s] = 0]
          /\ Set(u, Waiting("resetCounter", Sensors \ {s}, "normal"))
    BY <1>17 DEF Confirm, StartReset
  <2>2. task' \in [Tasks -> TaskState] /\ HandlersWellFormed'
    BY <1>0, <2>1, WaitingTyped, HandlerStep DEF BudgetInv, TypeOK, WellFormed, Waiting, Labels, Readings
  <2>3. counter' \in [Sensors -> 0..CounterCap]
    BY <1>0, <2>1, ParamsAssumption DEF BudgetInv, TypeOK, CounterCap
  <2>4. openAlerts' \in [AlertTypes -> Nat] /\ restartsSent' \in Nat
    BY <1>17 DEF Confirm
  <2>5. BudgetInv'
    BY <1>0, <1>01, <1>17, <2>2, <2>3, <2>4 DEF Confirm, BudgetInv, TypeOK, RestartBudget, Statuses
  <2>6. QED
    BY <1>0, <1>1, <1>17, <2>5, JobProceeds DEF Confirm
<1>18. ASSUME NEW t \in Tasks, MarkOffline(t) PROVE ConsumerInv'
  <2>1. BudgetInv'
    BY <1>0, <1>01, <1>18 DEF MarkOffline, BudgetInv, TypeOK, HandlersWellFormed, RestartBudget, Statuses
  <2>2. pendingOnline' \in BOOLEAN
    BY <1>0, <1>18 DEF MarkOffline
  <2>3. QED
    BY <1>0, <1>1, <1>18, <2>1, <2>2, JobEnded DEF MarkOffline
<1>19. ASSUME NEW t \in Tasks, Evaluate(t) PROVE ConsumerInv'
  <2>1. BudgetInv'
    BY <1>0, <1>01, <1>2, <1>19, BudgetSteps DEF Evaluate, Steps, Step
  <2>2. QED
    BY <1>0, <1>1, <1>19, <2>1, JobEnded DEF Evaluate
<1>20. ASSUME NEW t \in Tasks, HandlerFails(t) PROVE ConsumerInv'
  <2>1. faults' \in 0..MaxFaults
    BY <1>0, <1>20, BoundsAssumption DEF HandlerFails, BudgetInv, TypeOK
  <2>2. BudgetInv'
    BY <1>0, <1>01, <1>20, <2>1 DEF HandlerFails, BudgetInv, TypeOK, HandlersWellFormed, RestartBudget
  <2>3. QED
    BY <1>0, <1>1, <1>20, <2>2, JobEnded DEF HandlerFails
<1>21. ASSUME NEW t \in Tasks, Restart(t) PROVE ConsumerInv'
  <2>1. BudgetInv'
    BY <1>0, <1>01, <1>21, BudgetSteps DEF Restart, Steps, Step
  <2>2. \A u \in Tasks : job'[u] \in {NoJob, [kind |-> "offline", stage |-> "read"]}
    BY <1>21 DEF Restart, Subscribe
  <2>3. \E f : job' = [u \in Tasks |-> f[u]]
    BY <1>21 DEF Restart, Subscribe
  <2>4. JobInv'
    BY <2>2, <2>3 DEF JobInv, JobMakesSense, NoJob, Kinds, Stages
  <2>5. pendingOnline' \in BOOLEAN /\ heard' \in BOOLEAN /\ carried' \subseteq Tasks
    BY <1>0, <1>21 DEF Restart, Subscribe
  <2>6. QED
    BY <1>0, <1>1, <1>21, <2>1, <2>4, <2>5 DEF Restart
<1>22. ASSUME Steps, command' = (command \/ (connected /\ restartsSent' > restartsSent)),
              UNCHANGED <<consumer, device, connected, retained, hearing>>
       PROVE  ConsumerInv'
  BY <1>0, <1>01, <1>1, <1>3, <1>22, BudgetSteps
<1>23. CASE UNCHANGED allVars
  BY <1>0, <1>1, <1>2, <1>3, <1>23 DEF allVars
<1>24. ASSUME NEW t \in Tasks, EvaluationStep(Continue(t) \/ OperationFails(t)) PROVE ConsumerInv'
  BY <1>22, <1>24 DEF EvaluationStep, Continue, Steps, Step
<1>25. ASSUME NEW t \in Tasks, EvaluationStep(Does(t, "idle") /\ GraceExpires(t)) PROVE ConsumerInv'
  BY <1>22, <1>25 DEF EvaluationStep, Steps, Step
<1>26. CASE EvaluationStep(CooldownElapses \/ LockExpires)
  BY <1>22, <1>26 DEF EvaluationStep, Steps, Step
<1>27. QED
  BY <1>4, <1>5, <1>6, <1>7, <1>8, <1>9, <1>10, <1>11, <1>12, <1>13, <1>14, <1>15, <1>16, <1>17, <1>18,
     <1>19, <1>20, <1>21, <1>23, <1>24, <1>25, <1>26 DEF NextConsumer, ConsumerStep, Handle

\* The restart budget, whatever messages, timers and commands the consumer's handlers deal with
\* in whatever order: the budget is not a matter of how a restart is reported.
THEOREM BudgetHoldsWithConsumer == ConsumerSpec => []RestartBudget
<1>1. ConsumerInv => RestartBudget
  BY DEF ConsumerInv, BudgetInv
<1>2. QED
  BY <1>1, ConsumerInit, ConsumerInductive, PTL DEF ConsumerSpec

\* What the consumer's steps are to the evaluation's handlers: its own steps leave them and
\* the lock alone, but for the reset that a confirmed recovery starts.
LEMMA ConsumerSteps ==
  ASSUME [NextConsumer]_allVars
  PROVE  \/ Steps
         \/ UNCHANGED <<task, lock, late, overruns>>
         \/ /\ UNCHANGED <<lock, late, overruns>>
            /\ \E u \in Tasks, S \in SUBSET Sensors :
                 At(u, "idle") /\ Set(u, Waiting("resetCounter", S, "normal"))
<1> USE DEF evaluation, redis, history, budget
<1>1. ASSUME NEW t \in Tasks, Disconnect(t) \/ Connect(t) \/ StopDevice(t) \/ FinishCountdown(t)
      PROVE  UNCHANGED <<task, lock, late, overruns>>
  BY <1>1 DEF Disconnect, Connect, StopDevice, FinishCountdown
<1>2. ASSUME NEW t \in Tasks, FirstProgress(t) \/ Telemetry(t) \/ WatchdogFires(t) \/ ReadStatus(t)
      PROVE  UNCHANGED <<task, lock, late, overruns>>
  BY <1>2 DEF FirstProgress, Telemetry, WatchdogFires, ReadStatus
<1>3. ASSUME NEW t \in Tasks, CommitStatus(t) \/ SyncRows(t) \/ MarkOffline(t) \/ HandlerFails(t)
      PROVE  UNCHANGED <<task, lock, late, overruns>>
  BY <1>3 DEF CommitStatus, SyncRows, MarkOffline, HandlerFails
<1>4. ASSUME NEW t \in Tasks, Confirm(t)
      PROVE  /\ UNCHANGED <<lock, late, overruns>>
             /\ \E u \in Tasks, S \in SUBSET Sensors :
                  At(u, "idle") /\ Set(u, Waiting("resetCounter", S, "normal"))
  BY <1>4 DEF Confirm, StartReset
<1>5. ASSUME NEW t \in Tasks, Evaluate(t) \/ Restart(t) PROVE Steps \/ UNCHANGED <<task, lock, late, overruns>>
  BY <1>5 DEF Evaluate, Restart, Steps, Step
<1>6. CASE LaterProgress \/ OperatorRestarts \/ TakeRestart \/ UNCHANGED allVars
  BY <1>6 DEF LaterProgress, OperatorRestarts, TakeRestart, allVars
<1>7. ASSUME NEW t \in Tasks,
             EvaluationStep(Continue(t) \/ OperationFails(t)) \/ EvaluationStep(Does(t, "idle") /\ GraceExpires(t))
      PROVE  Steps
  BY <1>7 DEF EvaluationStep, Continue, Steps, Step
<1>8. CASE EvaluationStep(CooldownElapses \/ LockExpires)
  BY <1>8 DEF EvaluationStep, Steps, Step
<1>9. QED
  BY <1>1, <1>2, <1>3, <1>4, <1>5, <1>6, <1>7, <1>8 DEF NextConsumer, ConsumerStep, Handle

\* The motor lock, in the same company: evaluations are inside it together only after one of
\* them has lost its key, which takes one that has outlived the TTL (EvaluationMutex).
THEOREM MutexHoldsWithConsumer == ConsumerSpec => []EvaluationMutex
<1>1. InitConsumer => MutexInv
  BY MutexInit DEF InitConsumer
<1>2. ConsumerInv /\ MutexInv /\ [NextConsumer]_allVars => MutexInv'
  <2> SUFFICES ASSUME ConsumerInv, MutexInv, [NextConsumer]_allVars PROVE MutexInv'
    OBVIOUS
  <2>0. BudgetInv /\ task \in [Tasks -> TaskState]
    BY DEF ConsumerInv, BudgetInv, TypeOK
  <2>1. CASE Steps
    BY <2>0, <2>1, MutexSteps
  <2>2. CASE UNCHANGED <<task, lock, late, overruns>>
    BY <2>2 DEF MutexInv, EvaluationMutex, KeyIsThere, Locked
  <2>3. ASSUME NEW u \in Tasks, NEW S \in SUBSET Sensors, At(u, "idle"),
               Set(u, Waiting("resetCounter", S, "normal")), UNCHANGED <<lock, late, overruns>>
        PROVE  MutexInv'
    <3>1. task[u].locked = FALSE
      BY <2>0, <2>3 DEF MutexInv, LockConsistent, At, Outside, TaskState
    <3>2. LockConsistent(Waiting("resetCounter", S, "normal"))
      BY DEF LockConsistent, Waiting
    <3>3. QED
      BY <2>0, <2>3, <3>1, <3>2, WaitingTyped, MutexKept DEF Waiting, Labels, Readings
  <2>4. QED
    BY <2>1, <2>2, <2>3, ConsumerSteps
<1>3. MutexInv => EvaluationMutex
  BY DEF MutexInv
<1>4. QED
  BY <1>1, <1>2, <1>3, ConsumerInit, ConsumerInductive, PTL DEF ConsumerSpec

-----------------------------------------------------------------------------
(* Health follows telemetry. *)

\* A slot that is on its way to declare the motor healthy.
Healing(h, j) ==
  \/ j.kind = "confirm"
  \/ h.pc = "acquire"
  \/ h.pc = "commit" /\ h.target = "healthy"

\* Inductive strengthening of HealthNeedsTelemetry: what is done in the name of health has
\* begun with telemetry, since the last "online" or before it.
HeardInv == \A t \in Tasks : Healing(task[t], job[t]) => heard \/ t \in carried

\* What a step of the evaluation does to its handler, to the status in memory and to the row:
\* readings are let in elsewhere, and an alarm is entered in two steps.
LEMMA EvaluationMoves ==
  ASSUME BudgetInv, NEW t \in Tasks, Continue(t) \/ OperationFails(t) \/ GraceExpires(t)
  PROVE  /\ task'[t].pc # "acquire"
         /\ task'[t].pc = "commit" =>
              /\ task[t].pc \in {"acquire", "readCount"} /\ UNCHANGED <<dbStatus, motorStatus>>
              /\ task'[t].target # "manual_shutdown"
              /\ task'[t].target \in {"healthy", "alarm"} => task[t].pc = "acquire"
         /\ task'[t].pc = "enter" =>
              task[t].pc = "commit" /\ task[t].target = "alarm" /\ dbStatus' = "alarm"
         /\ motorStatus' = motorStatus \/ motorStatus' # "alarm" \/ task[t].pc = "enter"
         /\ \/ dbStatus' = dbStatus
            \/ task[t].pc = "commit" /\ dbStatus' = task[t].target /\ motorStatus' = motorStatus
         /\ task[t].pc = "commit" => task'[t].pc # "commit"
         /\ \A u \in Tasks : u # t => task'[u] = task[u]
<1>0. /\ task \in [Tasks -> TaskState] /\ WellFormed(task[t])
      /\ task[t].pc \in Labels
  BY DEF BudgetInv, TypeOK, HandlersWellFormed, TaskState
<1> USE DEF memory, redis, db, history, budget, At
<1>1. ASSUME NEW label, Goto(t, label) PROVE task'[t].pc = label
  BY <1>0, <1>1, SetInside DEF Goto
<1>01. \A u \in Tasks : u # t => task'[u] = task[u]
  <2>1. UNCHANGED task \/ \E h : Set(t, h)
    BY DEF Continue, PushReading, Escalate, Reset, LockBusy, ImmediateTrip, CountAnomaly, ClearCounter,
           ReleaseLock, ReadRestartCount, Commit, SyncSensorRows, ClearAlarm, EnterAlarm, AlertSkipped,
           AlertWanted, InsertAlert, AfterAlert, PersistRestartCount, ResetNextCounter, FinishReset,
           OperationFails, GraceExpires, BeginTrip, Goto, Return
  <2>2. QED
    BY <1>0, <2>1, ReplacesOne
<1>2. CASE LockBusy(t) \/ ReleaseLock(t) \/ Reset(t)
  <2>1. task'[t].pc \in {"idle", "resetCounter", "resetCount"}
    BY <1>0, <1>2, SetWaiting DEF LockBusy, ReleaseLock, Reset, ResetNextCounter, FinishReset, Idle
  <2>2. UNCHANGED <<motorStatus, dbStatus>>
    BY <1>2 DEF LockBusy, ReleaseLock, Reset, ResetNextCounter, FinishReset
  <2>3. QED
    BY <1>01, <2>1, <2>2
<1>3. CASE ImmediateTrip(t) \/ CountAnomaly(t) \/ ClearCounter(t)
  <2>1. task[t].pc = "acquire" /\ UNCHANGED <<motorStatus, dbStatus>>
    BY <1>3 DEF ImmediateTrip, CountAnomaly, ClearCounter, Acquire
  <2>2. PICK label \in {"readCount", "commit", "release"}, target \in {"healthy", "alarm"} :
          Set(t, Inside(label, TRUE, target, 0))
    BY <1>3 DEF ImmediateTrip, BeginTrip, CountAnomaly, ClearCounter
  <2>3. task'[t].pc = label /\ task'[t].target = target
    BY <1>0, <2>2, SetInside
  <2>4. QED
    BY <1>01, <2>1, <2>3
<1>4. CASE ReadRestartCount(t)
  <2>1. PICK target \in {"disabled", "shutting_down"} :
          Set(t, Inside("commit", task[t].locked, target, autoRestarts))
    BY <1>4 DEF ReadRestartCount
  <2>2. task'[t].pc = "commit" /\ task'[t].target = target
    BY <1>0, <2>1, SetInside
  <2>3. task[t].pc = "readCount" /\ UNCHANGED <<motorStatus, dbStatus>>
    BY <1>4 DEF ReadRestartCount
  <2>4. QED
    BY <1>01, <2>2, <2>3
<1>5. CASE Commit(t)
  <2>1. PICK label \in {"enter", "sync"} : Goto(t, label) /\ (label = "enter" => task[t].target = "alarm")
    BY <1>5 DEF Commit
  <2>2. task'[t].pc = label
    BY <1>1, <2>1
  <2>3. task[t].pc = "commit" /\ dbStatus' = task[t].target /\ UNCHANGED motorStatus
    BY <1>5 DEF Commit
  <2>4. QED
    BY <1>01, <2>1, <2>2, <2>3
<1>6. CASE SyncSensorRows(t) \/ AlertWanted(t)
  <2>1. UNCHANGED <<motorStatus, dbStatus>> /\ \E label \in {"resolve", "find", "insert"} : Goto(t, label)
    BY <1>6 DEF SyncSensorRows, AlertWanted
  <2>2. task'[t].pc \in {"resolve", "find", "insert"}
    BY <1>1, <2>1
  <2>3. QED
    BY <1>01, <2>1, <2>2
<1>7. CASE ClearAlarm(t) \/ PersistRestartCount(t)
  <2>1. Return(t) /\ UNCHANGED dbStatus /\ (motorStatus' = motorStatus \/ motorStatus' = "healthy")
    BY <1>7 DEF ClearAlarm, PersistRestartCount
  <2>2. task'[t].pc \in {"release", "idle"}
    BY <1>0, <2>1, SetReturned
  <2>3. QED
    BY <1>01, <2>1, <2>2
<1>8. CASE EnterAlarm(t)
  <2>1. Goto(t, "find") /\ UNCHANGED dbStatus /\ task[t].pc = "enter"
    BY <1>8 DEF EnterAlarm
  <2>2. task'[t].pc = "find"
    BY <1>1, <2>1
  <2>3. QED
    BY <1>01, <2>1, <2>2
<1>9. CASE AlertSkipped(t) \/ InsertAlert(t)
  <2>1. AfterAlert(t) /\ UNCHANGED dbStatus
    BY <1>9 DEF AlertSkipped, InsertAlert
  <2>2. motorStatus' = motorStatus \/ motorStatus' # "alarm"
    BY <2>1 DEF AfterAlert
  <2>3. task'[t].pc \in {"persist", "release", "idle"}
    BY <1>0, <1>1, <2>1, SetReturned DEF AfterAlert
  <2>4. QED
    BY <1>01, <2>1, <2>2, <2>3
<1>10. CASE OperationFails(t)
  <2>1. Return(t) \/ Set(t, Idle)
    BY <1>10 DEF OperationFails
  <2>2. task'[t].pc \in {"release", "idle"}
    BY <1>0, <2>1, SetReturned, SetWaiting DEF Idle
  <2>3. QED
    BY <1>01, <1>10, <2>2 DEF OperationFails
<1>11. CASE GraceExpires(t)
  <2>1. Set(t, Inside("readCount", FALSE, "healthy", 0)) \/ (UNCHANGED task /\ task[t].pc = "idle")
    BY <1>11 DEF GraceExpires, BeginTrip
  <2>2. task'[t].pc \in {"readCount", "idle"}
    BY <1>0, <2>1, SetInside
  <2>3. QED
    BY <1>01, <1>11, <2>2 DEF GraceExpires
<1>12. QED
  BY <1>2, <1>3, <1>4, <1>5, <1>6, <1>7, <1>8, <1>9, <1>10, <1>11 DEF Continue, PushReading, Escalate

\* A step of one slot that does not set it on its way to health, and forgets no telemetry.
LEMMA HeardKept ==
  ASSUME task \in [Tasks -> TaskState], JobInv, HeardInv, NEW t \in Tasks,
         \A u \in Tasks : u # t => task'[u] = task[u] /\ job'[u] = job[u],
         Healing(task'[t], job'[t]) => Healing(task[t], job[t]) \/ heard',
         heard' \/ UNCHANGED hearing
  PROVE  HeardInv'
BY DEF HeardInv, hearing

LEMMA HeardInductive == ConsumerInv /\ HeardInv /\ [NextConsumer]_allVars => HeardInv'
<1> SUFFICES ASSUME ConsumerInv, HeardInv, [NextConsumer]_allVars PROVE HeardInv'
  OBVIOUS
<1> USE DEF At, Does, evaluation, consumer, environment
<1>0. /\ JobInv /\ BudgetInv /\ \A t \in Tasks : JobMakesSense(job[t])
      /\ watchdog \in BOOLEAN /\ pendingOnline \in BOOLEAN /\ heard \in BOOLEAN
      /\ carried \subseteq Tasks /\ task \in [Tasks -> TaskState]
  BY DEF ConsumerInv, ConsumerTypeOK, JobInv, BudgetInv, TypeOK
<1>1. ASSUME NEW t \in Tasks, NEW state \in {"online", "offline"}, Publish(t, state), UNCHANGED task
      PROVE  HeardInv'
  <2>1. /\ Free(t) /\ \A u \in Tasks : u # t => job'[u] = job[u]
        /\ \/ UNCHANGED job /\ Unheard
           \/ job'[t].kind = "offline" /\ UNCHANGED hearing
    BY <1>0, <1>1, StatusHandled
  <2>2. CASE UNCHANGED job /\ Unheard
    <3>1. ASSUME NEW u \in Tasks, Healing(task[u], job[u]) PROVE ~Free(u)
      BY <1>0, <3>1 DEF Healing, Free, JobMakesSense
    <3>2. QED
      BY <1>1, <2>2, <3>1 DEF HeardInv, Unheard
  <2>3. CASE job'[t].kind = "offline" /\ UNCHANGED hearing
    BY <1>0, <1>1, <2>1, <2>3, HeardKept DEF Healing, Free
  <2>4. QED
    BY <2>1, <2>2, <2>3
<1>2. ASSUME NEW t \in Tasks, Disconnect(t) \/ Connect(t) \/ StopDevice(t) \/ FinishCountdown(t)
      PROVE  HeardInv'
  BY <1>1, <1>2 DEF Disconnect, Connect, StopDevice, FinishCountdown
<1>3. CASE LaterProgress \/ OperatorRestarts \/ TakeRestart \/ UNCHANGED allVars
  <2>1. UNCHANGED <<task, job, hearing>>
    BY <1>3 DEF LaterProgress, OperatorRestarts, TakeRestart, allVars
  <2>2. QED
    BY <2>1 DEF HeardInv, hearing
<1>4. ASSUME NEW t \in Tasks, FirstProgress(t) \/ WatchdogFires(t) PROVE HeardInv'
  <2>1. /\ job'[t].kind \in {"progress", "watchdog"} /\ UNCHANGED <<task, hearing>>
        /\ \A u \in Tasks : u # t => job'[u] = job[u]
    BY <1>0, <1>4, JobBegun DEF FirstProgress, WatchdogFires, Kinds
  <2>2. QED
    BY <1>0, <2>1, HeardKept DEF Healing
<1>5. ASSUME NEW t \in Tasks, Telemetry(t) PROVE HeardInv'
  BY <1>5 DEF Telemetry, HeardInv
<1> USE DEF memory, redis, db, history, budget
<1>6. ASSUME NEW t \in Tasks,
             ReadStatus(t) \/ CommitStatus(t) \/ SyncRows(t) \/ MarkOffline(t) \/ HandlerFails(t)
      PROVE  HeardInv'
  <2>1. UNCHANGED <<task, hearing>>
    BY <1>6 DEF ReadStatus, CommitStatus, SyncRows, MarkOffline, HandlerFails
  <2>2. ASSUME Proceed(t) PROVE job'[t].kind = "confirm" => job[t].kind = "confirm"
    BY <1>0, <2>2, JobProceeds
  <2>3. ASSUME NEW kind, NEW stage, SetJob(t, kind, stage) PROVE job'[t].kind = kind
    BY <1>0, <2>3 DEF SetJob, JobInv
  <2>4. ASSUME EndJob(t) PROVE job'[t].kind = "none"
    BY <1>0, <2>4, JobEnded
  <2>5. job[t].stage = "sync" => job[t].kind \in {"confirm", "progress"}
    BY <1>0 DEF JobMakesSense
  <2>6. job'[t].kind = "confirm" => job[t].kind = "confirm"
    BY <1>6, <2>2, <2>3, <2>4 DEF ReadStatus, CommitStatus, SyncRows, MarkOffline, HandlerFails
  <2>7. \A u \in Tasks : u # t => job'[u] = job[u]
    BY <1>0, <1>6, JobProceeds, JobEnded
    DEF ReadStatus, CommitStatus, SyncRows, MarkOffline, HandlerFails, SetJob, JobInv
  <2>8. QED
    BY <1>0, <2>1, <2>6, <2>7, HeardKept DEF Healing
<1>7. ASSUME NEW t \in Tasks, Confirm(t) PROVE HeardInv'
  <2>1. job[t].kind = "confirm" /\ UNCHANGED hearing
    BY <1>0, <1>7 DEF Confirm, JobMakesSense
  <2>2. PICK u \in Tasks, S \in SUBSET Sensors : Set(u, Waiting("resetCounter", S, "normal"))
    BY <1>7 DEF Confirm, StartReset
  <2>3. \A v \in Tasks : task'[v] = IF v = u THEN Waiting("resetCounter", S, "normal") ELSE task[v]
    BY <1>0, <2>2, ReplacesOne
  <2>4. \A v \in Tasks : v # t => job'[v] = job[v]
    BY <1>0, <1>7, JobProceeds DEF Confirm
  <2>5. ASSUME NEW v \in Tasks, Healing(task'[v], job'[v]) PROVE Healing(task[v], job[v])
    BY <2>1, <2>3, <2>4, <2>5 DEF Healing, Waiting
  <2>6. QED
    BY <2>1, <2>5 DEF HeardInv, hearing
<1>8. ASSUME NEW t \in Tasks, Evaluate(t) PROVE HeardInv'
  <2>1. job[t].kind = "confirm" /\ UNCHANGED hearing
    BY <1>0, <1>8 DEF Evaluate, JobMakesSense
  <2>2. \A u \in Tasks : u # t => task'[u] = task[u] /\ job'[u] = job[u]
    BY <1>0, <1>8, JobEnded, ReplacesOne DEF Evaluate, ReadingArrives
  <2>3. QED
    BY <1>0, <2>1, <2>2, HeardKept DEF Healing
<1>9. ASSUME NEW t \in Tasks, Restart(t) PROVE HeardInv'
  <2>1. \A u \in Tasks : job'[u] \in {NoJob, [kind |-> "offline", stage |-> "read"]}
    BY <1>9 DEF Restart, Subscribe
  <2>2. \A u \in Tasks : task'[u] \in {Idle, Inside("readCount", FALSE, "healthy", 0)}
    BY <1>9 DEF Restart, CrashAndBoot
  <2>3. \A u \in Tasks : job'[u].kind # "confirm" /\ task'[u].pc \in {"idle", "readCount"}
    BY <2>1, <2>2 DEF NoJob, Idle, Waiting, Inside
  <2>4. QED
    BY <2>3 DEF HeardInv, Healing
<1>10. ASSUME NEW t \in Tasks,
              \/ EvaluationStep(Continue(t) \/ OperationFails(t))
              \/ EvaluationStep(Does(t, "idle") /\ GraceExpires(t))
       PROVE  HeardInv'
  <2>1. (Continue(t) \/ OperationFails(t) \/ GraceExpires(t)) /\ UNCHANGED <<job, hearing>>
    BY <1>10 DEF EvaluationStep
  <2>2. /\ task'[t].pc # "acquire"
        /\ task'[t].pc = "commit" /\ task'[t].target = "healthy" => task[t].pc = "acquire"
        /\ \A u \in Tasks : u # t => task'[u] = task[u]
    BY <1>0, <2>1, EvaluationMoves
  <2>3. QED
    BY <1>0, <2>1, <2>2, HeardKept DEF Healing
<1>11. CASE EvaluationStep(CooldownElapses \/ LockExpires)
  <2>1. UNCHANGED <<task, job, hearing>>
    BY <1>11 DEF EvaluationStep, CooldownElapses, LockExpires
  <2>2. QED
    BY <2>1 DEF HeardInv, hearing
<1>12. QED
  BY <1>2, <1>3, <1>4, <1>5, <1>6, <1>7, <1>8, <1>9, <1>10, <1>11
  DEF NextConsumer, ConsumerStep, Handle

\* "An online claim alone is NOT proof of health": a motor marked offline becomes healthy only
\* when telemetry has come since the last "online", or by a handler that was at work when it
\* came, for any number of messages at once, however often the backend restarts and whichever
\* operations are rejected (HealthNeedsTelemetry).
THEOREM HealthFollowsTelemetry == ConsumerSpec => HealthNeedsTelemetry
<1>1. InitConsumer => HeardInv
  BY DEF InitConsumer, HeardInv
<1>2. ASSUME ConsumerInv, HeardInv, [NextConsumer]_allVars
      PROVE  [dbStatus = "manual_shutdown" /\ dbStatus' = "healthy" =>
                heard \/ \E t \in carried : task'[t] # task[t] \/ job'[t] # job[t]]_allVars
  <2> SUFFICES ASSUME NextConsumer, dbStatus = "manual_shutdown", dbStatus' = "healthy"
               PROVE  heard \/ \E t \in carried : task'[t] # task[t] \/ job'[t] # job[t]
    BY <1>2
  <2> USE DEF evaluation, db
  <2>0. BudgetInv /\ JobInv /\ \A t \in Tasks : JobMakesSense(job[t])
    BY <1>2 DEF ConsumerInv, JobInv
  <2>1. ASSUME NEW t \in Tasks, CommitStatus(t)
        PROVE  heard \/ \E u \in carried : task'[u] # task[u] \/ job'[u] # job[u]
    <3>1. job[t].kind = "confirm" /\ job[t].stage = "commit"
      BY <2>0, <2>1 DEF CommitStatus, Does, JobMakesSense, TargetOf
    <3>2. job'[t].stage = "sync"
      BY <2>0, <2>1 DEF CommitStatus, SetJob, JobInv
    <3>3. QED
      BY <1>2, <3>1, <3>2 DEF HeardInv, Healing
  <2>2. ASSUME NEW t \in Tasks,
               \/ EvaluationStep(Continue(t) \/ OperationFails(t))
               \/ EvaluationStep(Does(t, "idle") /\ GraceExpires(t))
        PROVE  heard \/ \E u \in carried : task'[u] # task[u] \/ job'[u] # job[u]
    <3>1. Continue(t) \/ OperationFails(t) \/ GraceExpires(t)
      BY <2>2 DEF EvaluationStep
    <3>2. task[t].pc = "commit" /\ task[t].target = "healthy" /\ task'[t].pc # "commit"
      BY <2>0, <3>1, EvaluationMoves
    <3>3. QED
      BY <1>2, <3>2 DEF HeardInv, Healing
  <2>3. ASSUME NEW t \in Tasks,
               \/ Disconnect(t) \/ Connect(t) \/ StopDevice(t) \/ FinishCountdown(t)
               \/ FirstProgress(t) \/ Telemetry(t) \/ WatchdogFires(t)
        PROVE  FALSE
    BY <2>3 DEF Disconnect, Connect, StopDevice, FinishCountdown, FirstProgress, Telemetry, WatchdogFires
  <2>4. ASSUME NEW t \in Tasks,
               \/ ReadStatus(t) \/ SyncRows(t) \/ Confirm(t) \/ MarkOffline(t) \/ Evaluate(t)
               \/ HandlerFails(t) \/ Restart(t)
        PROVE  FALSE
    BY <2>4 DEF ReadStatus, SyncRows, Confirm, MarkOffline, Evaluate, HandlerFails, Restart,
         CrashAndBoot, ReadingArrives
  <2>5. ASSUME \/ LaterProgress \/ OperatorRestarts \/ TakeRestart
               \/ EvaluationStep(CooldownElapses \/ LockExpires)
        PROVE  FALSE
    BY <2>5 DEF LaterProgress, OperatorRestarts, TakeRestart, EvaluationStep, CooldownElapses, LockExpires
  <2>6. QED
    BY <2>1, <2>2, <2>3, <2>4, <2>5 DEF NextConsumer, ConsumerStep, Handle
<1>3. QED
  BY <1>1, <1>2, ConsumerInit, ConsumerInductive, HeardInductive, PTL
  DEF ConsumerSpec, HealthNeedsTelemetry

-----------------------------------------------------------------------------
(* A motor that is not marked offline is watched. *)

\* A step after which the motor is still watched, still marked offline, or has slipped.
LEMMA WatchKept ==
  ASSUME WatchedUnlessOffline, Note, watchdog' \in BOOLEAN,
         dbStatus # "manual_shutdown" \/ dbStatus' = "manual_shutdown" \/ Slip
           \/ \E u \in Tasks : Watching(job'[u]),
         watchdog => watchdog' \/ \E u \in Tasks : Watching(job'[u]),
         \A u \in Tasks : Watching(job[u]) =>
           watchdog' \/ Slip \/ dbStatus' = "manual_shutdown" \/ Watching(job'[u])
  PROVE  WatchedUnlessOffline'
<1>1. slipped \/ Slip => watchdog' \/ slipped'
  BY DEF Note
<1>2. \/ dbStatus' = "manual_shutdown" \/ watchdog' \/ slipped'
      \/ \E u \in Tasks : Watching(job'[u])
  BY <1>1 DEF WatchedUnlessOffline
<1>3. QED
  BY <1>2 DEF WatchedUnlessOffline

LEMMA WatchInductive == ConsumerInv /\ WatchedUnlessOffline /\ [NextConsumer]_allVars => WatchedUnlessOffline'
<1> SUFFICES ASSUME ConsumerInv, WatchedUnlessOffline, [NextConsumer]_allVars
             PROVE  WatchedUnlessOffline'
  OBVIOUS
<1>1. CASE UNCHANGED allVars
  <2>1. UNCHANGED <<dbStatus, watchdog, slipped, job>>
    BY <1>1 DEF allVars, evaluation, db, consumer
  <2>2. QED
    BY <2>1 DEF WatchedUnlessOffline
<1> SUFFICES ASSUME ConsumerStep, Note PROVE WatchedUnlessOffline'
  BY <1>1 DEF NextConsumer
<1> USE DEF Does, evaluation, consumer, environment, db
<1>0. /\ JobInv /\ BudgetInv /\ \A t \in Tasks : JobMakesSense(job[t])
      /\ watchdog \in BOOLEAN /\ pendingOnline \in BOOLEAN /\ heard \in BOOLEAN
      /\ carried \subseteq Tasks /\ faults \in Nat
      /\ task \in [Tasks -> TaskState]
  BY BoundsAssumption DEF ConsumerInv, ConsumerTypeOK, JobInv, BudgetInv, TypeOK
<1>2. \* The row stays, and one slot's handler moves.
      ASSUME NEW t \in Tasks, UNCHANGED dbStatus, watchdog' \in BOOLEAN,
             \A u \in Tasks : u # t => job'[u] = job[u],
             watchdog => watchdog' \/ Watching(job'[t]),
             Watching(job[t]) =>
               watchdog' \/ Slip \/ dbStatus = "manual_shutdown" \/ Watching(job'[t])
      PROVE  WatchedUnlessOffline'
  BY <1>2, WatchKept
<1>3. ASSUME UNCHANGED <<dbStatus, job>>, watchdog' \in BOOLEAN, watchdog => watchdog'
      PROVE  WatchedUnlessOffline'
  BY <1>3, WatchKept
<1>4. ASSUME NEW t \in Tasks, NEW state \in {"online", "offline"}, Publish(t, state), UNCHANGED evaluation
      PROVE  WatchedUnlessOffline'
  <2>1. /\ Free(t) /\ \A u \in Tasks : u # t => job'[u] = job[u]
        /\ watchdog' \in BOOLEAN
        /\ \/ UNCHANGED job /\ watchdog' = TRUE
           \/ job'[t].kind = "offline" /\ UNCHANGED watchdog
    BY <1>0, <1>4, StatusHandled
  <2>2. ~Watching(job[t])
    BY <2>1 DEF Free, Watching
  <2>3. QED
    BY <1>2, <1>4, <2>1, <2>2
<1>5. ASSUME NEW t \in Tasks, Disconnect(t) \/ Connect(t) \/ StopDevice(t) \/ FinishCountdown(t)
      PROVE  WatchedUnlessOffline'
  BY <1>4, <1>5 DEF Disconnect, Connect, StopDevice, FinishCountdown
<1>6. CASE LaterProgress \/ OperatorRestarts \/ TakeRestart
  BY <1>0, <1>3, <1>6 DEF LaterProgress, OperatorRestarts, TakeRestart
<1>7. ASSUME NEW t \in Tasks, FirstProgress(t) \/ WatchdogFires(t) PROVE WatchedUnlessOffline'
  <2>1. /\ job'[t].kind \in {"progress", "watchdog"} /\ job'[t].stage = "read"
        /\ \A u \in Tasks : u # t => job'[u] = job[u]
        /\ UNCHANGED dbStatus /\ watchdog' \in BOOLEAN
    BY <1>0, <1>7, JobBegun DEF FirstProgress, WatchdogFires, Kinds
  <2>2. Watching(job'[t])
    BY <2>1 DEF Watching
  <2>3. QED
    BY <1>2, <2>1, <2>2
<1>8. ASSUME NEW t \in Tasks, Telemetry(t) PROVE WatchedUnlessOffline'
  <2>1. job[t].stage = "idle" /\ UNCHANGED dbStatus /\ watchdog' \in BOOLEAN /\ (watchdog => watchdog')
    BY <1>0, <1>8 DEF Telemetry, Free
  <2>2. \A u \in Tasks : u # t => job'[u] = job[u]
    BY <1>0, <1>8 DEF Telemetry, SetJob, JobInv
  <2>3. ~Watching(job[t])
    BY <2>1 DEF Watching
  <2>4. QED
    BY <1>2, <2>1, <2>2, <2>3
<1>9. ASSUME NEW t \in Tasks, ReadStatus(t) PROVE WatchedUnlessOffline'
  <2>1. job[t].stage = "read" /\ UNCHANGED dbStatus
    BY <1>9 DEF ReadStatus
  <2>2. CASE SetJob(t, job[t].kind, "commit") /\ UNCHANGED watchdog
    <3>1. /\ job'[t].kind = job[t].kind /\ job'[t].stage = "commit"
          /\ \A u \in Tasks : u # t => job'[u] = job[u]
      BY <1>0, <2>2 DEF SetJob, JobInv
    <3>2. Watching(job[t]) => Watching(job'[t])
      BY <2>1, <3>1 DEF Watching
    <3>3. QED
      BY <1>0, <1>2, <2>1, <2>2, <3>1, <3>2
  <2>3. CASE Proceed(t) /\ ~Applies(job[t].kind, dbStatus)
    <3>1. /\ watchdog' \in BOOLEAN /\ (watchdog => watchdog')
          /\ \A u \in Tasks : u # t => job'[u] = job[u]
          /\ job[t].kind \in {"confirm", "progress"} => watchdog'
      BY <1>0, <2>3, JobProceeds
    <3>2. job[t].kind = "watchdog" => dbStatus = "manual_shutdown"
      BY <2>3 DEF Applies, TargetOf
    <3>3. QED
      BY <1>2, <2>1, <3>1, <3>2 DEF Watching
  <2>4. QED
    BY <1>9, <2>2, <2>3 DEF ReadStatus
<1>10. ASSUME NEW t \in Tasks, CommitStatus(t) PROVE WatchedUnlessOffline'
  <2>1. job[t].kind \in {"confirm", "offline", "watchdog", "progress"} /\ UNCHANGED watchdog
    BY <1>0, <1>10 DEF CommitStatus, JobMakesSense
  <2>2. \A u \in Tasks : u # t => job'[u] = job[u]
    BY <1>0, <1>10 DEF CommitStatus, SetJob, JobInv
  <2>3. CASE job[t].kind \in {"offline", "watchdog"}
    <3>1. dbStatus' = "manual_shutdown"
      BY <1>10, <2>3 DEF CommitStatus, TargetOf
    <3>2. QED
      BY <3>1 DEF WatchedUnlessOffline
  <2>4. CASE job[t].kind \in {"confirm", "progress"}
    <3>1. dbStatus' # "manual_shutdown"
      BY <1>10, <2>4 DEF CommitStatus, TargetOf
    <3>2. job'[t].kind = job[t].kind /\ job'[t].stage = "sync"
      BY <1>0, <1>10, <3>1 DEF CommitStatus, SetJob, JobInv
    <3>3. Watching(job'[t])
      BY <2>4, <3>2 DEF Watching
    <3>4. QED
      BY <3>3 DEF WatchedUnlessOffline
  <2>5. QED
    BY <2>1, <2>3, <2>4
<1>11. ASSUME NEW t \in Tasks, SyncRows(t) PROVE WatchedUnlessOffline'
  <2>1. job[t].kind \in {"confirm", "progress"} /\ UNCHANGED dbStatus
    BY <1>0, <1>11 DEF SyncRows, JobMakesSense
  <2>2. CASE job[t].kind = "confirm"
    <3>1. /\ job'[t].kind = "confirm" /\ job'[t].stage = "resolve" /\ UNCHANGED watchdog
          /\ \A u \in Tasks : u # t => job'[u] = job[u]
      BY <1>0, <1>11, <2>2 DEF SyncRows, SetJob, JobInv
    <3>2. Watching(job'[t])
      BY <3>1 DEF Watching
    <3>3. QED
      BY <1>0, <1>2, <2>1, <3>1, <3>2
  <2>3. CASE job[t].kind # "confirm"
    <3>1. watchdog' = TRUE
      BY <1>0, <1>11, <2>1, <2>3, JobProceeds DEF SyncRows
    <3>2. QED
      BY <3>1 DEF WatchedUnlessOffline
  <2>4. QED
    BY <2>2, <2>3
<1>12. ASSUME NEW t \in Tasks, Confirm(t) PROVE WatchedUnlessOffline'
  <2>1. job[t].kind = "confirm" /\ Proceed(t)
    BY <1>0, <1>12 DEF Confirm, JobMakesSense
  <2>2. watchdog' = TRUE
    BY <1>0, <2>1, JobProceeds
  <2>3. QED
    BY <2>2 DEF WatchedUnlessOffline
<1>13. ASSUME NEW t \in Tasks, MarkOffline(t) PROVE WatchedUnlessOffline'
  <2>1. job[t].stage = "apply" /\ UNCHANGED <<dbStatus, watchdog>>
    BY <1>13 DEF MarkOffline
  <2>2. \A u \in Tasks : u # t => job'[u] = job[u]
    BY <1>0, <1>13, JobEnded DEF MarkOffline
  <2>3. QED
    BY <1>0, <1>2, <2>1, <2>2 DEF Watching
<1>14. ASSUME NEW t \in Tasks, Evaluate(t) PROVE WatchedUnlessOffline'
  <2>1. job[t].stage = "evaluate" /\ UNCHANGED <<dbStatus, watchdog>>
    BY <1>14 DEF Evaluate, ReadingArrives
  <2>2. \A u \in Tasks : u # t => job'[u] = job[u]
    BY <1>0, <1>14, JobEnded DEF Evaluate
  <2>3. ~Watching(job[t])
    BY <1>0, <2>1 DEF Watching, JobMakesSense
  <2>4. QED
    BY <1>0, <1>2, <2>1, <2>2, <2>3
<1>15. ASSUME NEW t \in Tasks, HandlerFails(t) PROVE WatchedUnlessOffline'
  <2>1. /\ job[t].kind # "watchdog" /\ job[t].stage # "idle" /\ faults' = faults + 1
        /\ UNCHANGED <<dbStatus, watchdog>>
    BY <1>15 DEF HandlerFails
  <2>2. /\ job'[t].kind = "none" /\ \A u \in Tasks : u # t => job'[u] = job[u]
    BY <1>0, <1>15, JobEnded DEF HandlerFails
  <2>3. job[t].kind \in {"confirm", "progress"} => Slip
    BY <1>0, <2>1, <2>2 DEF Slip
  <2>4. QED
    BY <1>0, <1>2, <2>1, <2>2, <2>3 DEF Watching
<1>16. ASSUME NEW t \in Tasks, Restart(t) PROVE WatchedUnlessOffline'
  BY <1>16 DEF Restart, WatchedUnlessOffline
<1>17. ASSUME NEW t \in Tasks,
              \/ EvaluationStep(Continue(t) \/ OperationFails(t))
              \/ EvaluationStep(Does(t, "idle") /\ GraceExpires(t))
       PROVE  WatchedUnlessOffline'
  <2>1. (Continue(t) \/ OperationFails(t) \/ GraceExpires(t)) /\ UNCHANGED <<job, watchdog>>
    BY <1>17 DEF EvaluationStep
  <2>2. \/ dbStatus' = dbStatus
        \/ task[t].pc = "commit" /\ task'[t].pc # "commit"
    BY <1>0, <2>1, EvaluationMoves
  <2>3. dbStatus' = dbStatus \/ dbStatus # "manual_shutdown" \/ Slip
    BY <2>2 DEF Slip, At
  <2>4. QED
    BY <1>0, <2>1, <2>3, WatchKept
<1>18. CASE EvaluationStep(CooldownElapses \/ LockExpires)
  BY <1>0, <1>3, <1>18 DEF EvaluationStep, CooldownElapses, LockExpires
<1>19. QED
  BY <1>5, <1>6, <1>7, <1>8, <1>9, <1>10, <1>11, <1>12, <1>13, <1>14, <1>15, <1>16, <1>17, <1>18
  DEF ConsumerStep, Handle

\* A motor that is not marked offline is watched, for any number of messages and timers at once,
\* until a rejected query or an evaluation over the offline row leaves it unwatched
\* (WatchedUnlessOffline).
THEOREM UnwatchedIsOffline == ConsumerSpec => []WatchedUnlessOffline
<1>1. InitConsumer => WatchedUnlessOffline
  BY DEF InitConsumer, WatchedUnlessOffline
<1>2. QED
  BY <1>1, ConsumerInit, ConsumerInductive, WatchInductive, PTL DEF ConsumerSpec

=============================================================================
