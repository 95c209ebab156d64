--------------------------- MODULE DashboardProofs ---------------------------
(***************************************************************************)
(* Theorems about Dashboard, for any operators, handlers and bounds: what  *)
(* the alerts table keeps to, that a toast is shown once, and that the     *)
(* screen ends up with what the database says.  The first is an invariant  *)
(* of the table (AlertInv), the others one of the events on the wire and   *)
(* the store (Followed), which leans on it.                                *)
(***************************************************************************)
EXTENDS Dashboard, FiniteSetTheorems, TLAPS

Alert == [state : {"open", "closed"}, by : Users \union {System, Nobody},
          type : Types, age : Fresh..Stale]

Typed ==
  /\ alert \in [Ids -> {NoAlert} \union Alert]
  /\ task = [t \in Tasks |-> task[t]]
  /\ \A t \in Tasks : /\ task[t].pc = "insert" => task[t].type \in Types
                      /\ task[t] = Idle <=> task[t].pc = "idle"

\* Ids are given out in order.
InSequence == \E n \in 0..MaxAlerts : Existing = 1..n

\* What the closers close exists.
Closers ==
  /\ closer = [c \in Closing |-> closer[c]]
  /\ \A c \in DOMAIN closer : closer[c].pc = "close" =>
       closer[c].ids \subseteq Existing

\* An alert that was acknowledged is closed.
Acknowledged ==
  \A ack \in acknowledged :
    /\ ack = <<ack[1], ack[2]>> /\ ack[2] \in Existing \ Open
    /\ alert[ack[2]].by \in {ack[1], System}
    /\ \A other \in acknowledged : other[2] = ack[2] => other = ack

\* An alert that is open is the last of its type, and none is open while one is inserted.
OpenIsLast ==
  \A type \in Types \ causes :
    /\ \A i \in Open, j \in Existing : alert[i].type = type /\ alert[j].type = type => j <= i
    /\ \A t \in Tasks : task[t].pc = "insert" /\ task[t].type = type =>
         /\ \A i \in Open : alert[i].type # type
         /\ \A u \in Tasks : task[u].pc = "insert" /\ task[u].type = type => u = t

AlertInv == Typed /\ InSequence /\ Closers /\ Acknowledged /\ OpenIsLast

LEMMA AlertInit == Init => AlertInv
<1> SUFFICES ASSUME Init PROVE AlertInv
  OBVIOUS
<1>1. Existing = {} /\ Open = {}
  BY DEF Init, Existing, Open
<1>2. InSequence
  BY <1>1, LimitsAssumption DEF InSequence
<1>3. \A t \in Tasks : task[t].pc = "idle"
  BY DEF Init, Idle
<1>4. QED
  BY <1>1, <1>2, <1>3 DEF Init, AlertInv, Typed, Closers, Acknowledged, OpenIsLast, Idle

-----------------------------------------------------------------------------
(* Steps that leave the alerts alone.                                        *)

LEMMA AlertsStay ==
  ASSUME AlertInv, UNCHANGED <<alert, acknowledged>>, causes \subseteq causes', Closers',
         task' = [t \in Tasks |-> task'[t]],
         \A t \in Tasks : /\ task'[t].pc = "insert" => task[t].pc = "insert" /\ task'[t].type = task[t].type
                          /\ task'[t] = Idle <=> task'[t].pc = "idle"
  PROVE  AlertInv'
<1>1. Existing' = Existing /\ Open' = Open
  BY DEF Existing, Open
<1>2. Typed'
  BY DEF AlertInv, Typed
<1>3. InSequence' /\ Acknowledged'
  BY <1>1 DEF AlertInv, InSequence, Acknowledged
<1>4. OpenIsLast'
  BY <1>1 DEF AlertInv, OpenIsLast
<1>5. QED
  BY <1>2, <1>3, <1>4 DEF AlertInv

\* Only the browser moves, or a closer.
LEMMA TasksStay ==
  ASSUME AlertInv, UNCHANGED <<alert, acknowledged, task>>, causes \subseteq causes', Closers'
  PROVE  AlertInv'
<1>1. task' = [t \in Tasks |-> task'[t]]
  BY DEF AlertInv, Typed
<1>2. QED
  BY <1>1, AlertsStay DEF AlertInv, Typed

LEMMA BrowserSteps ==
  ASSUME AlertInv, UNCHANGED <<database, backend, acknowledged>>, causes \subseteq causes'
  PROVE  AlertInv'
<1>1. Closers'
  BY DEF AlertInv, Closers, Existing, database, backend
<1>2. QED
  BY <1>1, TasksStay DEF database, backend

\* A handler goes on, and inserts nothing yet.
LEMMA TaskMoves ==
  ASSUME AlertInv, NEW t \in Tasks, NEW r, task' = [task EXCEPT ![t] = r], r.pc # "insert",
         r = Idle <=> r.pc = "idle", UNCHANGED <<alert, acknowledged>>, causes \subseteq causes', Closers'
  PROVE  AlertInv'
<1>1. task' = [u \in Tasks |-> task'[u]]
  BY DEF AlertInv, Typed
<1>2. task'[t] = r /\ \A u \in Tasks : u # t => task'[u] = task[u]
  BY DEF AlertInv, Typed
<1>3. QED
  BY <1>1, <1>2, AlertsStay DEF AlertInv, Typed

LEMMA StatusSteps ==
  ASSUME AlertInv, NEW t \in Tasks, WriteStatus(t) \/ EmitStatus(t) \/ EmitAlert(t) \/ InsertFails(t)
  PROVE  AlertInv'
<1>1. Idle.pc = "idle"
  BY DEF Idle
<1>2. ASSUME UNCHANGED <<alert, closer>> PROVE Closers'
  BY <1>2 DEF AlertInv, Closers, Existing
<1>3. CASE WriteStatus(t)
  <2>1. PICK to : task' = [task EXCEPT ![t] = [pc |-> "emitStatus", to |-> to]]
    BY <1>3 DEF WriteStatus
  <2>2. [pc |-> "emitStatus", to |-> to].pc = "emitStatus"
    OBVIOUS
  <2>3. QED
    BY <1>1, <1>2, <1>3, <2>1, <2>2, TaskMoves DEF WriteStatus
<1>4. CASE EmitStatus(t)
  <2>1. Closers'
    <3>1. CASE UNCHANGED closer
      BY <1>2, <1>4, <3>1 DEF EmitStatus, database
    <3>2. CASE closer' = [closer EXCEPT ![t] = [pc |-> "find"]]
      BY <1>4, <3>2 DEF EmitStatus, database, AlertInv, Closers, Existing
    <3>3. QED
      BY <1>4, <3>1, <3>2 DEF EmitStatus
  <2>2. QED
    BY <1>1, <1>4, <2>1, TaskMoves DEF EmitStatus, database
<1>5. CASE EmitAlert(t) \/ InsertFails(t)
  BY <1>1, <1>2, <1>5, TaskMoves DEF EmitAlert, InsertFails, database, history
<1>6. QED
  BY <1>3, <1>4, <1>5

LEMMA CrashKeeps == AlertInv /\ Crash => AlertInv'
<1> SUFFICES ASSUME AlertInv, Crash PROVE AlertInv'
  OBVIOUS
<1>1. Idle.pc = "idle"
  BY DEF Idle
<1>2. /\ task' = [t \in Tasks |-> Idle] /\ closer' = [c \in DOMAIN closer |-> Idle]
      /\ UNCHANGED <<alert, acknowledged>> /\ causes \subseteq causes'
  BY DEF Crash, database
<1>3. Closers'
  BY <1>1, <1>2 DEF AlertInv, Closers
<1>4. QED
  BY <1>1, <1>2, <1>3, AlertsStay

LEMMA FindOpenKeeps ==
  ASSUME AlertInv, NEW c \in DOMAIN closer, FindOpen(c) \/ EmitClosed(c) \/ ClosingFails(c)
  PROVE  AlertInv'
<1>1. Idle.pc = "idle"
  BY DEF Idle
<1>2. c \in Closing
  BY DEF AlertInv, Closers
<1>3. Existing' = Existing /\ UNCHANGED <<alert, task, causes, acknowledged>>
  BY DEF FindOpen, EmitClosed, ClosingFails, database, history, Existing
<1>4. CASE FindOpen(c)
  <2> DEFINE x == IF Closable(c) = {} THEN Idle ELSE [pc |-> "close", ids |-> Closable(c)]
  <2>1. Closable(c) \subseteq Existing
    BY DEF Closable, Open
  <2>2. x.pc = "close" => x.ids \subseteq Existing
    BY <1>1, <2>1
  <2>3. closer' = [closer EXCEPT ![c] = x]
    BY <1>4 DEF FindOpen
  <2> HIDE DEF x
  <2>4. Closers'
    BY <1>2, <1>3, <2>2, <2>3 DEF AlertInv, Closers
  <2>5. QED
    BY <1>3, <2>4, TasksStay
<1>5. CASE EmitClosed(c) \/ ClosingFails(c)
  <2>1. Closers'
    BY <1>1, <1>2, <1>3, <1>5 DEF AlertInv, Closers, EmitClosed, ClosingFails
  <2>2. QED
    BY <1>3, <2>1, TasksStay
<1>6. QED
  BY <1>4, <1>5

-----------------------------------------------------------------------------
(* The life of an alert.                                                     *)

\* Alerts are closed, or grow older.
LEMMA AlertsClose ==
  ASSUME AlertInv, task' = task, causes' = causes, Closers',
         alert' \in [Ids -> {NoAlert} \union Alert],
         \A i \in Ids : /\ alert'[i] = NoAlert <=> alert[i] = NoAlert
                        /\ alert[i] # NoAlert => /\ alert'[i].type = alert[i].type
                                                 /\ alert'[i].state = "open" => alert[i].state = "open",
         Acknowledged'
  PROVE  AlertInv'
<1>1. Existing' = Existing /\ Open' \subseteq Open
  BY DEF Existing, Open
<1>2. Typed' /\ InSequence'
  BY <1>1 DEF AlertInv, Typed, InSequence
<1>3. \A i \in Existing : alert'[i].type = alert[i].type
  BY DEF Existing
<1>4. OpenIsLast'
  BY <1>1, <1>3 DEF AlertInv, OpenIsLast, Open
<1>5. QED
  BY <1>2, <1>4 DEF AlertInv

LEMMA ResolveKeeps ==
  ASSUME AlertInv, NEW u \in Users, NEW i \in Ids, Resolve(u, i)
  PROVE  AlertInv'
<1> DEFINE a == [alert[i] EXCEPT !.state = "closed", !.by = u]
<1>1. alert[i] \in Alert /\ i \in Existing /\ i \in Open /\ alert[i] # NoAlert
  BY DEF Resolve, Open, Existing, AlertInv, Typed
<1>2. a \in Alert /\ a.type = alert[i].type /\ a.state = "closed" /\ a.by = u
  BY <1>1 DEF Alert
<1>3. NoAlert \notin Alert
  BY DEF NoAlert, Alert
<1>4. alert' = [alert EXCEPT ![i] = a]
  BY DEF Resolve, AlertInv, Typed
<1> HIDE DEF a
<1>5. alert'[i] = a /\ \A j \in Ids : j # i => alert'[j] = alert[j]
  BY <1>4 DEF AlertInv, Typed
<1>6. Existing' = Existing /\ Open' = Open \ {i}
  BY <1>1, <1>2, <1>3, <1>5 DEF Existing, Open
<1>7. alert' \in [Ids -> {NoAlert} \union Alert]
  BY <1>2, <1>4 DEF AlertInv, Typed
<1>8. Acknowledged'
  <2>1. acknowledged' = acknowledged \union {<<u, i>>} /\ \A ack \in acknowledged : ack[2] # i
    BY <1>1 DEF Resolve, AlertInv, Acknowledged
  <2>2. \A ack \in acknowledged : alert'[ack[2]] = alert[ack[2]]
    BY <1>5, <2>1 DEF AlertInv, Acknowledged, Existing
  <2>3. QED
    BY <1>1, <1>2, <1>5, <1>6, <2>1, <2>2 DEF AlertInv, Acknowledged
<1>9. Closers'
  BY <1>6 DEF Resolve, backend, AlertInv, Closers
<1>10. task' = task /\ causes' = causes
  BY DEF Resolve, backend
<1>11. QED
  BY <1>1, <1>2, <1>3, <1>5, <1>7, <1>8, <1>9, <1>10, AlertsClose

LEMMA CloseAlertsKeeps ==
  ASSUME AlertInv, NEW c \in DOMAIN closer, CloseAlerts(c)
  PROVE  AlertInv'
<1> DEFINE ids == closer[c].ids
<1>1. ids \subseteq Existing /\ c \in Closing /\ Existing \subseteq Ids
  BY DEF CloseAlerts, AlertInv, Closers, Existing
<1>2. NoAlert \notin Alert
  BY DEF NoAlert, Alert
<1>3. ASSUME NEW i \in Ids
      PROVE /\ i \in ids => /\ alert[i] \in Alert /\ alert'[i] \in Alert /\ alert'[i].type = alert[i].type
                            /\ alert'[i].state = "closed" /\ alert'[i].by = System
            /\ i \notin ids => alert'[i] = alert[i]
  <2>1. CASE i \in ids
    <3>1. alert[i] \in Alert
      BY <1>1, <2>1 DEF Existing, AlertInv, Typed
    <3>2. alert'[i] = [alert[i] EXCEPT !.state = "closed", !.by = System]
      BY <2>1 DEF CloseAlerts
    <3>3. QED
      BY <2>1, <3>1, <3>2 DEF Alert
  <2>2. CASE i \notin ids
    BY <2>2 DEF CloseAlerts
  <2>3. QED
    BY <2>1, <2>2
<1>4. alert' \in [Ids -> {NoAlert} \union Alert]
  <2>1. alert' = [i \in Ids |-> alert'[i]]
    BY DEF CloseAlerts
  <2>2. QED
    BY <1>3, <2>1 DEF AlertInv, Typed
<1>5. Existing' = Existing /\ Open' = Open \ ids
  BY <1>1, <1>2, <1>3 DEF Existing, Open
<1>6. UNCHANGED <<task, acknowledged, causes>> /\ closer' = [closer EXCEPT ![c] = [pc |-> "emit", ids |-> ids]]
  BY DEF CloseAlerts, history
<1>7. Closers'
  <2>1. closer'[c].pc # "close"
    BY <1>1, <1>6 DEF AlertInv, Closers
  <2>2. \A d \in DOMAIN closer : d # c => closer'[d] = closer[d]
    BY <1>6
  <2>3. closer' = [d \in Closing |-> closer'[d]]
    BY <1>6 DEF AlertInv, Closers
  <2>4. QED
    BY <1>5, <2>1, <2>2, <2>3 DEF AlertInv, Closers
<1> HIDE DEF ids
<1>8. Acknowledged'
  <2>1. \A ack \in acknowledged : ack[2] \in Ids
    BY <1>1 DEF AlertInv, Acknowledged
  <2>2. QED
    BY <1>3, <1>5, <1>6, <2>1 DEF AlertInv, Acknowledged
<1>9. QED
  BY <1>2, <1>3, <1>4, <1>6, <1>7, <1>8, AlertsClose

LEMMA TimePassesKeeps ==
  ASSUME AlertInv, NEW i \in Ids, TimePasses(i)
  PROVE  AlertInv'
<1> DEFINE a == [alert[i] EXCEPT !.age = @ + 1]
<1>1. alert[i] \in Alert /\ alert[i] # NoAlert /\ alert[i].age < Stale
  BY DEF TimePasses, Existing, AlertInv, Typed
<1>2. a \in Alert /\ a.type = alert[i].type /\ a.state = alert[i].state /\ a.by = alert[i].by
  BY <1>1 DEF Alert, Fresh, Stale
<1>3. NoAlert \notin Alert
  BY DEF NoAlert, Alert
<1>4. alert' = [alert EXCEPT ![i] = a]
  BY DEF TimePasses, AlertInv, Typed
<1> HIDE DEF a
<1>5. alert'[i] = a /\ \A j \in Ids : j # i => alert'[j] = alert[j]
  BY <1>4 DEF AlertInv, Typed
<1>6. Existing' = Existing /\ Open' = Open
  BY <1>1, <1>2, <1>3, <1>5 DEF Existing, Open
<1>7. UNCHANGED <<task, closer, acknowledged, causes>> /\ alert' \in [Ids -> {NoAlert} \union Alert]
  BY <1>2, <1>4 DEF TimePasses, backend, history, AlertInv, Typed
<1>8. Closers'
  BY <1>6, <1>7 DEF AlertInv, Closers
<1>9. Acknowledged'
  <2>1. \A ack \in acknowledged : ack[2] \in Ids /\ alert'[ack[2]].by = alert[ack[2]].by
    BY <1>2, <1>5 DEF AlertInv, Acknowledged, Existing
  <2>2. QED
    BY <1>6, <1>7, <2>1 DEF AlertInv, Acknowledged
<1>10. QED
  BY <1>1, <1>2, <1>3, <1>5, <1>7, <1>8, <1>9, AlertsClose

\* createAlert goes on only when no alert of the type is open.
LEMMA FindLastKeeps ==
  ASSUME AlertInv, NEW t \in Tasks, NEW type \in Types, FindLast(t, type)
  PROVE  AlertInv'
<1> DEFINE r == [pc |-> "insert", type |-> type]
<1>1. /\ task' = [task EXCEPT ![t] = r] /\ task[t].pc = "idle"
      /\ UNCHANGED <<alert, closer, acknowledged>> /\ causes \subseteq causes'
  BY DEF FindLast, Free, database, Idle
<1>2. task'[t] = r /\ \A u \in Tasks : u # t => task'[u] = task[u]
  BY <1>1 DEF AlertInv, Typed
<1>3. r # Idle /\ r.pc = "insert" /\ r.type = type
  BY DEF Idle
<1> HIDE DEF r
<1>4. Existing' = Existing /\ Open' = Open
  BY <1>1 DEF Existing, Open
<1>5. Typed'
  BY <1>1, <1>2, <1>3 DEF AlertInv, Typed
<1>6. InSequence' /\ Closers' /\ Acknowledged'
  BY <1>1, <1>4 DEF AlertInv, InSequence, Closers, Acknowledged
<1>7. type \notin causes' => /\ \A i \in Open : alert[i].type # type
                             /\ \A u \in Tasks : u # t => ~(task[u].pc = "insert" /\ task[u].type = type)
  <2>1. SUFFICES ASSUME type \notin causes'
                 PROVE  /\ \A i \in Open : alert[i].type # type
                        /\ \A u \in Tasks : ~(task[u].pc = "insert" /\ task[u].type = type)
    OBVIOUS
  <2>2. \A u \in Tasks : ~(task[u].pc = "insert" /\ task[u].type = type)
    BY <2>1 DEF FindLast
  <2>3. type \in Types \ causes
    BY <1>1, <2>1
  <2>4. \A i \in Open : alert[i].type = type => i \in Latest(type)
    BY <2>3 DEF AlertInv, OpenIsLast, Latest, Open
  <2>5. \A i \in Latest(type) : alert[i].state # "open"
    BY DEF FindLast, Throttled
  <2>6. QED
    BY <2>2, <2>4, <2>5 DEF Open
<1>8. OpenIsLast'
  <2>1. ASSUME NEW ty \in Types \ causes'
        PROVE  /\ \A i \in Open, j \in Existing : alert[i].type = ty /\ alert[j].type = ty => j <= i
               /\ \A u \in Tasks : task'[u].pc = "insert" /\ task'[u].type = ty =>
                    /\ \A i \in Open : alert[i].type # ty
                    /\ \A v \in Tasks : task'[v].pc = "insert" /\ task'[v].type = ty => v = u
    <3>1. ty \in Types \ causes
      BY <1>1
    <3>2. CASE ty = type
      BY <1>2, <1>7, <3>1, <3>2 DEF AlertInv, OpenIsLast
    <3>3. CASE ty # type
      BY <1>2, <1>3, <3>1, <3>3 DEF AlertInv, OpenIsLast
    <3>4. QED
      BY <3>2, <3>3
  <2>2. QED
    BY <1>1, <1>4, <2>1 DEF OpenIsLast
<1>9. QED
  BY <1>5, <1>6, <1>8 DEF AlertInv

LEMMA InsertAlertKeeps ==
  ASSUME AlertInv, NEW t \in Tasks, InsertAlert(t)
  PROVE  AlertInv'
<1> DEFINE type == task[t].type
<1>1. PICK n \in 0..MaxAlerts : Existing = 1..n
  BY DEF AlertInv, InSequence
<1>2. Cardinality(Existing) = n
  BY <1>1, LimitsAssumption, FS_Interval
<1> DEFINE i == n + 1
           a == [state |-> "open", by |-> Nobody, type |-> type, age |-> Fresh]
           r == [pc |-> "emitAlert", id |-> i]
<1>3. /\ i \in Ids /\ alert' = [alert EXCEPT ![i] = a] /\ task' = [task EXCEPT ![t] = r]
      /\ task[t].pc = "insert" /\ UNCHANGED <<closer, acknowledged, causes>>
  BY <1>2 DEF InsertAlert, history
<1>4. type \in Types
  BY <1>3 DEF AlertInv, Typed
<1>5. a \in Alert /\ a.state = "open" /\ a.type = type
  BY <1>4 DEF Alert, Fresh, Stale
<1>6. r # Idle /\ r.pc = "emitAlert"
  BY DEF Idle
<1>7. NoAlert \notin Alert
  BY DEF NoAlert, Alert
<1>8. i \notin Existing /\ \A j \in Existing : j < i
  BY <1>1, LimitsAssumption
<1>9. PICK ty : ty = type
  OBVIOUS
<1> HIDE DEF type, a, r
<1>10. alert'[i] = a /\ \A j \in Ids : j # i => alert'[j] = alert[j]
  BY <1>3 DEF AlertInv, Typed
<1>11. task'[t] = r /\ \A u \in Tasks : u # t => task'[u] = task[u]
  BY <1>3 DEF AlertInv, Typed
<1>12. Existing' = Existing \union {i} /\ Open' = Open \union {i}
  BY <1>3, <1>5, <1>7, <1>8, <1>10 DEF Existing, Open
<1>13. Typed'
  BY <1>3, <1>5, <1>6, <1>11 DEF AlertInv, Typed
<1>14. InSequence'
  <2>1. i \in 0..MaxAlerts
    BY <1>3, LimitsAssumption DEF Ids
  <2>2. (1..n) \union {i} = 1..i
    BY LimitsAssumption
  <2>3. QED
    BY <1>1, <1>12, <2>1, <2>2 DEF InSequence
<1>15. Closers'
  BY <1>3, <1>12 DEF AlertInv, Closers
<1> HIDE DEF i
<1>16. Acknowledged'
  <2>1. \A ack \in acknowledged : ack[2] \in Ids /\ ack[2] # i /\ ack[2] \in Existing \ Open
    BY <1>8 DEF AlertInv, Acknowledged, Existing
  <2>2. QED
    BY <1>3, <1>10, <1>12, <2>1 DEF AlertInv, Acknowledged
<1>17. OpenIsLast'
  <2>1. \A j \in Existing : alert'[j] = alert[j] /\ j # i /\ j <= i
    BY <1>1, <1>8, <1>10, LimitsAssumption DEF Existing, i
  <2>2. i <= i
    BY LimitsAssumption DEF i
  <2>3. ASSUME NEW k \in Types \ causes
        PROVE  /\ \A x \in Open', y \in Existing' : alert'[x].type = k /\ alert'[y].type = k => y <= x
               /\ \A u \in Tasks : task'[u].pc = "insert" /\ task'[u].type = k =>
                    /\ \A x \in Open' : alert'[x].type # k
                    /\ \A v \in Tasks : task'[v].pc = "insert" /\ task'[v].type = k => v = u
    <3>1. CASE k = ty
      <4>1. /\ \A x \in Open : alert[x].type # k
            /\ \A u \in Tasks : task[u].pc = "insert" /\ task[u].type = k => u = t
        BY <1>3, <1>9, <3>1 DEF AlertInv, OpenIsLast, type
      <4>2. \A u \in Tasks : ~(task'[u].pc = "insert" /\ task'[u].type = k)
        BY <1>6, <1>11, <4>1
      <4>3. \A x \in Open' : alert'[x].type = k => x = i
        BY <1>12, <2>1, <4>1 DEF Open
      <4>4. \A y \in Existing' : y <= i
        BY <1>12, <2>1, <2>2
      <4>5. QED
        BY <4>2, <4>3, <4>4
    <3>2. CASE k # ty
      <4>1. \A x \in Existing' : alert'[x].type = k => x \in Existing /\ alert[x].type = k
        BY <1>5, <1>9, <1>10, <1>12, <2>1, <3>2
      <4>2. \A x \in Open' : alert'[x].type = k => x \in Open /\ alert[x].type = k
        BY <1>5, <1>9, <1>10, <1>12, <2>1, <3>2 DEF Open
      <4>3. \A u \in Tasks : task'[u].pc = "insert" => u # t /\ task'[u] = task[u]
        BY <1>6, <1>11
      <4>4. QED
        BY <4>1, <4>2, <4>3 DEF AlertInv, OpenIsLast
    <3>3. QED
      BY <3>1, <3>2
  <2>4. QED
    BY <1>3, <2>3 DEF OpenIsLast
<1>18. QED
  BY <1>13, <1>14, <1>15, <1>16, <1>17 DEF AlertInv

-----------------------------------------------------------------------------

LEMMA AlertInductive == AlertInv /\ [Next]_vars => AlertInv'
<1> SUFFICES ASSUME AlertInv, [Next]_vars PROVE AlertInv'
  OBVIOUS
<1>1. ASSUME Backend PROVE AlertInv'
  <2>1. ASSUME NEW t \in Tasks, InsertAlert(t) \/ \E type \in Types : FindLast(t, type) PROVE AlertInv'
    BY <2>1, FindLastKeeps, InsertAlertKeeps
  <2>2. ASSUME NEW c \in DOMAIN closer,
                FindOpen(c) \/ CloseAlerts(c) \/ EmitClosed(c) \/ ClosingFails(c) PROVE AlertInv'
    BY <2>2, FindOpenKeeps, CloseAlertsKeeps
  <2>3. ASSUME NEW i \in Ids, TimePasses(i) \/ \E u \in Users : Resolve(u, i) PROVE AlertInv'
    BY <2>3, TimePassesKeeps, ResolveKeeps
  <2>4. QED
    BY <1>1, <2>1, <2>2, <2>3, StatusSteps, CrashKeeps DEF Backend
<1>2. ASSUME Browser PROVE AlertInv'
  <2>1. UNCHANGED <<database, backend, acknowledged>> /\ causes \subseteq causes'
    <3>1. CASE Connect \/ Disconnect \/ AnswerSeed \/ SeedArrives \/ SeedFails
      BY <3>1 DEF Connect, Disconnect, AnswerSeed, SeedArrives, SeedFails, history
    <3>2. CASE StatusChanged \/ AlertReceived \/ AlertResolved \/ \E i \in Ids : AlertDismissed(i)
      BY <3>2 DEF StatusChanged, AlertReceived, AlertResolved, AlertDismissed, history
    <3>3. CASE OpenDetail \/ LeaveDetail \/ OpenDashboard
      BY <3>3 DEF OpenDetail, LeaveDetail, OpenDashboard, history
    <3>4. CASE AnswerFetch \/ FetchArrives \/ FetchFails \/ InvalidateMotors
      BY <3>4 DEF AnswerFetch, FetchArrives, FetchFails, InvalidateMotors, history
    <3>5. QED
      BY <1>2, <3>1, <3>2, <3>3, <3>4 DEF Browser
  <2>2. QED
    BY <2>1, BrowserSteps
<1>3. CASE UNCHANGED vars
  BY <1>3, BrowserSteps DEF vars, history
<1>4. QED
  BY <1>1, <1>2, <1>3 DEF Next

\* Of several operators who acknowledge an alert at most one is told so, for any number of them and
\* whatever the recovery and the sweep close meanwhile (resolveAlert, resolveMotorAlerts).
THEOREM OneAcknowledges == Spec => []AcknowledgedOnce
<1>1. AlertInv => AcknowledgedOnce
  BY DEF AlertInv, Acknowledged, AcknowledgedOnce
<1>2. QED
  BY AlertInit, AlertInductive, <1>1, PTL DEF Spec

\* One alert of a type is open at a time unless two calls for it overlapped, for any number of
\* handlers, alerts and restarts (createAlert, which looks before it inserts).
THEOREM OneOpen == Spec => []OneOpenPerType
<1>1. AlertInv => OneOpenPerType
  <2> SUFFICES ASSUME AlertInv, NEW type \in Types \ causes
               PROVE  Cardinality({i \in Open : alert[i].type = type}) <= 1
    BY DEF OneOpenPerType
  <2> DEFINE S == {i \in Open : alert[i].type = type}
  <2>1. \A i, j \in S : i = j
    BY DEF AlertInv, OpenIsLast, Open, Existing, Ids
  <2>2. CASE S = {}
    BY <2>2, FS_EmptySet
  <2>3. CASE \E i : S = {i}
    BY <2>3, FS_Singleton
  <2>4. QED
    BY <2>1, <2>2, <2>3
<1>2. QED
  BY AlertInit, AlertInductive, <1>1, PTL DEF Spec

-----------------------------------------------------------------------------
(* The events on their way.                                                  *)

Message == [kind : {"alert", "resolved"}, value : Ids] \union [kind : {"status"}, value : Statuses]

\* Lists of events: none is about the status, and the last one that is says v.
NoStatus(w) == \A k \in DOMAIN w : w[k].kind # "status"
LastIs(w, v) ==
  \A k \in DOMAIN w :
    w[k].kind = "status" /\ (\A l \in DOMAIN w : l > k => w[l].kind # "status") => w[k].value = v

\* What goes over the wire and into the toasts is of one kind each.
StoreTyped ==
  /\ wire \in Seq(Message) /\ (~connected => wire = <<>>)
  /\ toasts \in Seq(Ids)
  /\ seed.pc = "answered" => seed.ids \subseteq Ids
  /\ \A t \in Tasks : /\ task[t].pc = "emitAlert" => task[t].id \in Ids
                      /\ task[t].pc = "emitStatus" => task[t].to \in Statuses
  /\ \A c \in DOMAIN closer : closer[c].pc = "emit" => closer[c].ids \subseteq Ids
  /\ status \in Statuses

Calm == causes \cap {"severed", "missed", "overtaken", "overlap"} = {}

\* The last event about the status says what the database says; with none under way, the store and
\* the snapshot do.
Following ==
  Calm =>
    /\ \A t, u \in Tasks : task[t].pc = "emitStatus" /\ task[u].pc = "emitStatus" => t = u
    /\ \A t \in Tasks : task[t].pc = "emitStatus" => task[t].to = status
    /\ (\A t \in Tasks : task[t].pc # "emitStatus") =>
         /\ LastIs(wire, status)
         /\ NoStatus(wire) => /\ shown \in {Unknown, status}
                              /\ fetch.pc = "answered" => fetch.status = status

Followed == StoreTyped /\ ShownOnce /\ Following

LEMMA CopiesSent ==
  ASSUME NEW events \in Seq(Message)
  PROVE  /\ Copies(events) \in Seq(Message)
         /\ \A k \in DOMAIN Copies(events) : \E j \in DOMAIN events : Copies(events)[k] = events[j]
         /\ events # <<>> => Copies(events) # <<>>
<1>1. CASE ~inRoom
  BY <1>1 DEF Copies
<1>2. CASE inRoom
  <2> DEFINE n == Len(events)
             twice == [k \in 1..(2 * n) |-> events[(k + 1) \div 2]]
  <2>1. n \in Nat /\ \A k \in 1..(2 * n) : (k + 1) \div 2 \in 1..n
    OBVIOUS
  <2>2. \A k \in 1..(2 * n) : twice[k] \in Message
    BY <2>1
  <2>3. twice \in Seq(Message) /\ Len(twice) = 2 * n
    BY <2>1, <2>2
  <2>4. Copies(events) = twice
    BY <1>2 DEF Copies
  <2>5. QED
    BY <2>1, <2>3, <2>4
<1>3. QED
  BY <1>1, <1>2

LEMMA AppendOther ==
  ASSUME NEW w \in Seq(Message), NEW e \in Seq(Message), NEW v, NoStatus(e)
  PROVE  /\ w \o e \in Seq(Message)
         /\ LastIs(w, v) => LastIs(w \o e, v)
         /\ NoStatus(w \o e) => NoStatus(w)
<1>1. /\ w \o e \in Seq(Message) /\ Len(w \o e) = Len(w) + Len(e)
      /\ \A k \in DOMAIN w : k \in DOMAIN (w \o e) /\ (w \o e)[k] = w[k]
      /\ \A k \in DOMAIN (w \o e) : k \notin DOMAIN w => k - Len(w) \in DOMAIN e /\ (w \o e)[k] = e[k - Len(w)]
  OBVIOUS
<1>2. \A k \in DOMAIN (w \o e) : k \notin DOMAIN w => (w \o e)[k].kind # "status"
  BY <1>1 DEF NoStatus
<1>3. ASSUME LastIs(w, v), NEW k \in DOMAIN (w \o e), (w \o e)[k].kind = "status",
             \A l \in DOMAIN (w \o e) : l > k => (w \o e)[l].kind # "status"
      PROVE  (w \o e)[k].value = v
  <2>1. k \in DOMAIN w
    BY <1>2, <1>3
  <2>2. \A l \in DOMAIN w : l > k => w[l].kind # "status"
    BY <1>1, <1>3
  <2>3. QED
    BY <1>1, <1>3, <2>1, <2>2 DEF LastIs
<1>4. QED
  BY <1>1, <1>3 DEF LastIs, NoStatus

LEMMA AppendStatus ==
  ASSUME NEW w \in Seq(Message), NEW e \in Seq(Message), NEW v, e # <<>>,
         \A k \in DOMAIN e : e[k].kind = "status" /\ e[k].value = v
  PROVE  w \o e \in Seq(Message) /\ LastIs(w \o e, v) /\ ~NoStatus(w \o e)
<1> DEFINE n == Len(w) + Len(e)
<1>1. /\ w \o e \in Seq(Message) /\ Len(w \o e) = n /\ Len(e) \in Nat \ {0} /\ Len(w) \in Nat
      /\ \A k \in DOMAIN (w \o e) : k > Len(w) => k - Len(w) \in DOMAIN e /\ (w \o e)[k] = e[k - Len(w)]
  OBVIOUS
<1>2. \A k \in DOMAIN (w \o e) : k > Len(w) => (w \o e)[k].kind = "status" /\ (w \o e)[k].value = v
  BY <1>1
<1>3. n \in DOMAIN (w \o e) /\ n > Len(w) /\ DOMAIN (w \o e) = 1..n /\ n \in Nat
  <2>1. DOMAIN (w \o e) = 1..n
    OBVIOUS
  <2>2. Len(e) \in Nat \ {0} /\ Len(w) \in Nat
    BY <1>1
  <2>3. n \in 1..n /\ n > Len(w) /\ n \in Nat
    BY <2>2
  <2>4. QED
    BY <2>1, <2>3
<1>4. \A k \in DOMAIN (w \o e) : k < n \/ k = n
  BY <1>3
<1> HIDE DEF n
<1>5. QED
  BY <1>1, <1>2, <1>3, <1>4 DEF LastIs, NoStatus

LEMMA TailShift ==
  ASSUME NEW w \in Seq(Message), w # <<>>, NEW v
  PROVE  /\ Tail(w) \in Seq(Message) /\ Head(w) \in Message
         /\ LastIs(w, v) => LastIs(Tail(w), v)
         /\ LastIs(w, v) /\ NoStatus(Tail(w)) /\ Head(w).kind = "status" => Head(w).value = v
         /\ NoStatus(Tail(w)) /\ Head(w).kind # "status" => NoStatus(w)
<1>1. /\ Tail(w) \in Seq(Message) /\ Head(w) \in Message /\ 1 \in DOMAIN w /\ w[1] = Head(w)
      /\ \A k \in DOMAIN Tail(w) : k + 1 \in DOMAIN w /\ Tail(w)[k] = w[k + 1]
      /\ \A k \in DOMAIN w : k # 1 => k - 1 \in DOMAIN Tail(w) /\ w[k] = Tail(w)[k - 1]
      /\ DOMAIN w \subseteq Nat /\ DOMAIN Tail(w) \subseteq Nat
  <2>1. /\ Len(w) \in Nat \ {0} /\ DOMAIN w = 1..Len(w) /\ DOMAIN Tail(w) = 1..(Len(w) - 1)
        /\ Tail(w) \in Seq(Message) /\ Head(w) \in Message /\ w[1] = Head(w)
        /\ \A k \in 1..(Len(w) - 1) : Tail(w)[k] = w[k + 1]
    OBVIOUS
  <2>2. \A k \in 1..(Len(w) - 1) : k + 1 \in 1..Len(w)
    BY <2>1
  <2>3. \A k \in 1..Len(w) : k # 1 => k - 1 \in 1..(Len(w) - 1) /\ (k - 1) + 1 = k
    BY <2>1
  <2>4. QED
    BY <2>1, <2>2, <2>3
<1>2. ASSUME LastIs(w, v), NEW k \in DOMAIN Tail(w), Tail(w)[k].kind = "status",
             \A l \in DOMAIN Tail(w) : l > k => Tail(w)[l].kind # "status"
      PROVE  Tail(w)[k].value = v
  <2>1. k + 1 \in DOMAIN w /\ w[k + 1].kind = "status"
    BY <1>1, <1>2
  <2>2. ASSUME NEW l \in DOMAIN w, l > k + 1 PROVE w[l].kind # "status"
    <3>1. l # 1 /\ l - 1 > k
      BY <1>1, <2>2
    <3>2. QED
      BY <1>1, <1>2, <3>1
  <2>3. w[k + 1].value = v
    BY <1>2, <2>1, <2>2 DEF LastIs
  <2>4. QED
    BY <1>1, <2>3
<1>3. ASSUME LastIs(w, v), NoStatus(Tail(w)), Head(w).kind = "status" PROVE Head(w).value = v
  <2>1. ASSUME NEW l \in DOMAIN w, l > 1 PROVE w[l].kind # "status"
    <3>1. l # 1
      BY <1>1, <2>1
    <3>2. QED
      BY <1>1, <1>3, <3>1 DEF NoStatus
  <2>2. QED
    BY <1>1, <1>3, <2>1 DEF LastIs
<1>4. NoStatus(Tail(w)) /\ Head(w).kind # "status" => NoStatus(w)
  BY <1>1 DEF NoStatus
<1>5. QED
  BY <1>1, <1>2, <1>3, <1>4 DEF LastIs

-----------------------------------------------------------------------------
(* The toasts.                                                               *)

LEMMA FirstStay ==
  ASSUME NEW s \in Seq(Ids), IsInjective(s)
  PROVE  /\ FirstToasts(s) \in Seq(Ids) /\ IsInjective(FirstToasts(s))
         /\ ToSet(FirstToasts(s)) \subseteq ToSet(s)
<1> DEFINE n == IF Len(s) < MaxToasts THEN Len(s) ELSE MaxToasts
<1>1. n \in 0..Len(s)
  BY LimitsAssumption
<1>2. FirstToasts(s) = SubSeq(s, 1, n)
  BY DEF FirstToasts
<1> HIDE DEF n
<1>3. /\ SubSeq(s, 1, n) \in Seq(Ids) /\ Len(SubSeq(s, 1, n)) = n
      /\ \A k \in 1..n : SubSeq(s, 1, n)[k] = s[k] /\ k \in DOMAIN s
  BY <1>1
<1>4. QED
  BY <1>2, <1>3 DEF IsInjective, ToSet

LEMMA InSecond ==
  ASSUME NEW a \in Seq(Ids), NEW b \in Seq(Ids), NEW j \in 1..(Len(a) + Len(b)), ~(j <= Len(a))
  PROVE  (a \o b)[j] = b[j - Len(a)]
OBVIOUS

LEMMA WithoutIt ==
  ASSUME NEW i \in Ids, toasts \in Seq(Ids), IsInjective(toasts)
  PROVE  /\ Without(i) \in Seq(Ids) /\ IsInjective(Without(i))
         /\ ToSet(Without(i)) \subseteq ToSet(toasts) \ {i}
<1>1. CASE i \notin ToSet(toasts)
  BY <1>1 DEF Without
<1>2. CASE i \in ToSet(toasts)
  <2>1. PICK k \in DOMAIN toasts : toasts[k] = i /\ Without(i) = RemoveAt(toasts, k)
    BY <1>2 DEF Without, ToSet
  <2>2. /\ RemoveAt(toasts, k) \in Seq(Ids) /\ Len(RemoveAt(toasts, k)) = Len(toasts) - 1
        /\ \A j \in 1..(Len(toasts) - 1) :
             RemoveAt(toasts, k)[j] = IF j < k THEN toasts[j] ELSE toasts[j + 1]
    <3> DEFINE a == SubSeq(toasts, 1, k - 1)
               b == SubSeq(toasts, k + 1, Len(toasts))
    <3>1. k \in 1..Len(toasts) /\ Len(toasts) \in Nat
      OBVIOUS
    <3>2. a \in Seq(Ids) /\ Len(a) = k - 1 /\ \A j \in 1..(k - 1) : a[j] = toasts[j]
      BY <3>1
    <3>3. b \in Seq(Ids) /\ Len(b) = Len(toasts) - k /\ \A j \in 1..(Len(toasts) - k) : b[j] = toasts[j + k]
      BY <3>1
    <3>4. RemoveAt(toasts, k) = a \o b
      BY DEF RemoveAt
    <3> HIDE DEF a, b
    <3>5. a \o b \in Seq(Ids) /\ Len(a \o b) = Len(toasts) - 1
      BY <3>1, <3>2, <3>3
    <3>6. ASSUME NEW j \in 1..(Len(toasts) - 1)
          PROVE  (a \o b)[j] = IF j < k THEN toasts[j] ELSE toasts[j + 1]
      <4>1. CASE j < k
        BY <3>1, <3>2, <3>3, <4>1
      <4>2. CASE ~(j < k)
        <5> DEFINE x == Len(a)
                   y == Len(b)
        <5>1. x = k - 1 /\ y = Len(toasts) - k
          BY <3>2, <3>3
        <5>2. j - x \in 1..y /\ j \in 1..(x + y) /\ ~(j <= x)
          BY <3>1, <4>2, <5>1
        <5>3. (a \o b)[j] = b[j - x]
          BY <3>2, <3>3, <5>2, InSecond
        <5>4. j - (k - 1) \in 1..(Len(toasts) - k) /\ (a \o b)[j] = b[j - (k - 1)]
          BY <5>1, <5>2, <5>3
        <5>5. b[j - (k - 1)] = toasts[(j - (k - 1)) + k] /\ (j - (k - 1)) + k = j + 1
          BY <3>1, <3>3, <5>4
        <5>6. QED
          BY <4>2, <5>4, <5>5
      <4>3. QED
        BY <4>1, <4>2
    <3>7. QED
      BY <3>4, <3>5, <3>6
  <2>3. \A j \in 1..(Len(toasts) - 1) : RemoveAt(toasts, k)[j] # i
    BY <2>1, <2>2 DEF IsInjective
  <2>4. k \in 1..Len(toasts) /\ Len(toasts) \in Nat
    OBVIOUS
  <2>5. \A j \in 1..(Len(toasts) - 1) : \E m \in 1..Len(toasts) :
          /\ m = IF j < k THEN j ELSE j + 1
          /\ RemoveAt(toasts, k)[j] = toasts[m]
    BY <2>2, <2>4
  <2>6. \A j, l \in 1..(Len(toasts) - 1) :
          (IF j < k THEN j ELSE j + 1) = (IF l < k THEN l ELSE l + 1) => j = l
    BY <2>4
  <2>7. IsInjective(RemoveAt(toasts, k))
    <3>1. DOMAIN RemoveAt(toasts, k) = 1..(Len(toasts) - 1) /\ DOMAIN toasts = 1..Len(toasts)
      BY <2>2
    <3>2. ASSUME NEW j \in 1..(Len(toasts) - 1), NEW l \in 1..(Len(toasts) - 1),
                 RemoveAt(toasts, k)[j] = RemoveAt(toasts, k)[l]
          PROVE  j = l
      <4>1. PICK m, n \in 1..Len(toasts) : /\ m = IF j < k THEN j ELSE j + 1
                                           /\ n = IF l < k THEN l ELSE l + 1
                                           /\ toasts[m] = toasts[n]
        BY <2>5, <3>2
      <4>2. m = n
        BY <3>1, <4>1 DEF IsInjective
      <4>3. QED
        BY <2>6, <4>1, <4>2
    <3>3. QED
      BY <3>1, <3>2 DEF IsInjective
  <2>8. ToSet(RemoveAt(toasts, k)) \subseteq ToSet(toasts) \ {i}
    BY <2>2, <2>3, <2>5 DEF ToSet
  <2>9. QED
    BY <2>1, <2>2, <2>7, <2>8
<1>3. QED
  BY <1>1, <1>2

LEMMA SeededOnce ==
  ASSUME NEW ids \in SUBSET Ids, NEW s \in NewestFirst(ids)
  PROVE  s \in Seq(Ids) /\ IsInjective(s) /\ ToSet(s) \subseteq ids
<1>1. IsFiniteSet(Ids)
  BY LimitsAssumption, FS_Interval DEF Ids
<1>2. Cardinality(ids) \in Nat
  <2>1. IsFiniteSet(ids)
    BY <1>1, FS_Subset
  <2>2. QED
    BY <2>1, FS_CardinalityType
<1>3. /\ s \in [1..Cardinality(ids) -> ids]
      /\ \A k, l \in 1..Cardinality(ids) : k # l => s[k] # s[l]
  BY DEF NewestFirst, SetToSeqs
<1>4. QED
  BY <1>2, <1>3 DEF IsInjective, ToSet

-----------------------------------------------------------------------------
(* Steps of the backend and the browser, as the store is concerned.          *)

LEMMA FollowedInit == Init => Followed
<1> SUFFICES ASSUME Init PROVE Followed
  OBVIOUS
<1>1. \A t \in Tasks : task[t].pc = "idle"
  BY DEF Init, Idle
<1>2. \A c \in DOMAIN closer : closer[c].pc = "idle"
  BY DEF Init, Idle
<1>3. StoreTyped
  BY <1>1, <1>2 DEF Init, StoreTyped, Idle, Statuses
<1>4. ShownOnce
  BY DEF Init, ShownOnce, ToSet, IsInjective
<1>5. Following
  BY <1>1 DEF Init, Following, LastIs, Idle
<1>6. QED
  BY <1>3, <1>4, <1>5 DEF Followed

\* Nothing that bears on the store happens.
LEMMA QuietSteps ==
  ASSUME Followed, UNCHANGED <<wire, toasts, dismissed, status, shown>>, connected => connected',
         causes \subseteq causes',
         fetch' = fetch \/ fetch'.pc # "answered",
         seed'.pc = "answered" => seed'.ids \subseteq Ids,
         \A t \in Tasks : /\ task'[t].pc = "emitAlert" => task'[t].id \in Ids
                          /\ task[t].pc = "emitStatus" => task'[t] = task[t]
                          /\ task'[t].pc = "emitStatus" => task'[t] = task[t],
         \A c \in DOMAIN closer' : closer'[c].pc = "emit" => closer'[c].ids \subseteq Ids
  PROVE  Followed'
<1>1. StoreTyped'
  BY DEF Followed, StoreTyped
<1>2. ShownOnce'
  BY DEF Followed, ShownOnce
<1>3. Following'
  BY DEF Followed, Following, Calm
<1>4. QED
  BY <1>1, <1>2, <1>3 DEF Followed

\* A handler goes on to something other than an event about the status.
LEMMA QuietTask ==
  ASSUME Followed, AlertInv, NEW t \in Tasks, NEW r, task' = [task EXCEPT ![t] = r],
         task[t].pc # "emitStatus", r.pc # "emitStatus", r.pc = "emitAlert" => r.id \in Ids,
         UNCHANGED <<closer, wire, connected, toasts, dismissed, status, shown, fetch, seed>>,
         causes \subseteq causes'
  PROVE  Followed'
<1>1. task'[t] = r /\ \A u \in Tasks : u # t => task'[u] = task[u]
  BY DEF AlertInv, Typed
<1>2. /\ seed'.pc = "answered" => seed'.ids \subseteq Ids
      /\ \A u \in Tasks : task[u].pc = "emitAlert" => task[u].id \in Ids
      /\ \A c \in DOMAIN closer' : closer'[c].pc = "emit" => closer'[c].ids \subseteq Ids
  BY DEF Followed, StoreTyped
<1>3. QED
  BY <1>1, <1>2, QuietSteps

\* The closers and those who acknowledge alerts.
LEMMA QuietClosers ==
  ASSUME Followed, UNCHANGED <<task, wire, connected, toasts, dismissed, status, shown, fetch, seed, causes>>,
         \A c \in DOMAIN closer' : closer'[c].pc = "emit" => closer'[c].ids \subseteq Ids
  PROVE  Followed'
<1>1. /\ seed'.pc = "answered" => seed'.ids \subseteq Ids
      /\ \A u \in Tasks : task[u].pc = "emitAlert" => task[u].id \in Ids
  BY DEF Followed, StoreTyped
<1>2. QED
  BY <1>1, QuietSteps

LEMMA QuietBackend ==
  ASSUME Followed, AlertInv,
         \/ \E t \in Tasks : InsertAlert(t) \/ InsertFails(t) \/ \E type \in Types : FindLast(t, type)
         \/ \E c \in DOMAIN closer : FindOpen(c) \/ CloseAlerts(c) \/ ClosingFails(c)
         \/ \E i \in Ids : TimePasses(i) \/ \E u \in Users : Resolve(u, i)
  PROVE  Followed'
<1>1. ASSUME NEW t \in Tasks, NEW type \in Types, FindLast(t, type) PROVE Followed'
  <2> DEFINE r == [pc |-> "insert", type |-> type]
  <2>1. r.pc = "insert"
    OBVIOUS
  <2>2. task' = [task EXCEPT ![t] = r] /\ task[t].pc = "idle" /\ causes \subseteq causes'
    BY <1>1 DEF FindLast, Free, Idle
  <2>3. UNCHANGED <<closer, wire, connected, toasts, dismissed, status, shown, fetch, seed>>
    BY <1>1 DEF FindLast, database, socket, store, requests
  <2> HIDE DEF r
  <2>4. QED
    BY <2>1, <2>2, <2>3, QuietTask
<1>2. ASSUME NEW t \in Tasks, InsertAlert(t) PROVE Followed'
  <2>1. PICK i \in Ids : task' = [task EXCEPT ![t] = [pc |-> "emitAlert", id |-> i]]
    BY <1>2 DEF InsertAlert
  <2> DEFINE r == [pc |-> "emitAlert", id |-> i]
  <2>2. r.pc = "emitAlert" /\ r.id = i /\ task[t].pc = "insert" /\ causes' = causes
    BY <1>2 DEF InsertAlert, history
  <2>3. UNCHANGED <<closer, wire, connected, toasts, dismissed, status, shown, fetch, seed>>
    BY <1>2 DEF InsertAlert, socket, store, requests
  <2>4. task' = [task EXCEPT ![t] = r]
    BY <2>1
  <2> HIDE DEF r
  <2>5. QED
    BY <2>2, <2>3, <2>4, QuietTask
<1>3. ASSUME NEW c \in DOMAIN closer, FindOpen(c) \/ CloseAlerts(c) \/ ClosingFails(c) PROVE Followed'
  <2>1. c \in Closing /\ closer = [d \in Closing |-> closer[d]]
    BY DEF AlertInv, Closers
  <2>2. UNCHANGED <<task, wire, connected, toasts, dismissed, status, shown, fetch, seed, causes>>
    BY <1>3 DEF FindOpen, CloseAlerts, ClosingFails, database, socket, store, requests, history
  <2>3. /\ \A d \in DOMAIN closer : d # c => closer'[d] = closer[d]
        /\ DOMAIN closer' = DOMAIN closer
    BY <1>3, <2>1 DEF FindOpen, CloseAlerts, ClosingFails
  <2>4. closer'[c].pc = "emit" => closer'[c].ids \subseteq Ids
    <3>1. CASE FindOpen(c)
      <4>1. closer'[c] = IF Closable(c) = {} THEN Idle ELSE [pc |-> "close", ids |-> Closable(c)]
        BY <2>1, <3>1 DEF FindOpen
      <4>2. closer'[c].pc # "emit"
        BY <4>1 DEF Idle
      <4>3. QED
        BY <4>2
    <3>2. CASE CloseAlerts(c)
      <4>1. closer'[c] = [pc |-> "emit", ids |-> closer[c].ids] /\ closer[c].ids \subseteq Ids
        BY <2>1, <3>2 DEF CloseAlerts, AlertInv, Closers, Existing
      <4>2. closer'[c].ids = closer[c].ids
        BY <4>1
      <4>3. QED
        BY <4>1, <4>2
    <3>3. CASE ClosingFails(c)
      BY <2>1, <3>3 DEF ClosingFails, Idle
    <3>4. QED
      BY <1>3, <3>1, <3>2, <3>3
  <2>5. \A d \in DOMAIN closer' : closer'[d].pc = "emit" => closer'[d].ids \subseteq Ids
    BY <2>3, <2>4 DEF Followed, StoreTyped
  <2>6. QED
    BY <2>2, <2>5, QuietClosers
<1>4. ASSUME NEW i \in Ids, TimePasses(i) \/ \E u \in Users : Resolve(u, i) PROVE Followed'
  <2>1. UNCHANGED <<task, wire, connected, toasts, dismissed, status, shown, fetch, seed, causes>>
    BY <1>4 DEF TimePasses, Resolve, backend, socket, store, requests, history
  <2>2. \A d \in DOMAIN closer' : closer'[d].pc = "emit" => closer'[d].ids \subseteq Ids
    BY <1>4 DEF TimePasses, Resolve, backend, Followed, StoreTyped
  <2>3. QED
    BY <2>1, <2>2, QuietClosers
<1>5. ASSUME NEW t \in Tasks, InsertFails(t) PROVE Followed'
  <2>1. UNCHANGED <<closer, wire, connected, toasts, dismissed, status, shown, fetch, seed>> /\ causes' = causes
    BY <1>5 DEF InsertFails, database, socket, store, requests, history
  <2>2. task' = [task EXCEPT ![t] = Idle] /\ task[t].pc = "insert" /\ Idle.pc = "idle"
    BY <1>5 DEF InsertFails, Idle
  <2>3. QED
    BY <2>1, <2>2, QuietTask
<1>6. QED
  BY <1>1, <1>2, <1>3, <1>4, <1>5

LEMMA QuietBrowser ==
  ASSUME Followed,
         \/ Connect \/ AnswerSeed \/ SeedFails \/ OpenDetail \/ LeaveDetail \/ OpenDashboard
         \/ FetchFails \/ UNCHANGED vars
  PROVE  Followed'
<1>1. Idle.pc = "idle"
  BY DEF Idle
<1>2. /\ \A u \in Tasks : task[u].pc = "emitAlert" => task[u].id \in Ids
      /\ \A c \in DOMAIN closer : closer[c].pc = "emit" => closer[c].ids \subseteq Ids
      /\ seed.pc = "answered" => seed.ids \subseteq Ids
  BY DEF Followed, StoreTyped
<1>3. /\ UNCHANGED <<wire, toasts, dismissed, status, shown, task, closer, causes>>
      /\ connected => connected'
  BY DEF Connect, AnswerSeed, SeedFails, OpenDetail, LeaveDetail, OpenDashboard, FetchFails, vars,
         database, backend, socket, store, history, requests
<1>4. fetch' = fetch \/ fetch'.pc # "answered"
  <2>1. CASE OpenDetail \/ OpenDashboard \/ FetchFails
    BY <1>1, <2>1 DEF OpenDetail, OpenDashboard, FetchFails
  <2>2. CASE Connect \/ AnswerSeed \/ SeedFails \/ LeaveDetail \/ UNCHANGED vars
    BY <2>2 DEF Connect, AnswerSeed, SeedFails, LeaveDetail, requests, vars
  <2>3. QED
    BY <2>1, <2>2
<1>5. seed'.pc = "answered" => seed'.ids \subseteq Ids
  <2>1. CASE Connect
    BY <1>2, <2>1 DEF Connect
  <2>2. CASE AnswerSeed
    BY <2>2 DEF AnswerSeed, Open, Existing
  <2>3. CASE SeedFails
    BY <2>3 DEF SeedFails
  <2>4. CASE OpenDetail \/ LeaveDetail \/ OpenDashboard \/ FetchFails \/ UNCHANGED vars
    BY <1>2, <2>4 DEF OpenDetail, LeaveDetail, OpenDashboard, FetchFails, requests, vars
  <2>5. QED
    BY <2>1, <2>2, <2>3, <2>4
<1>6. QED
  BY <1>2, <1>3, <1>4, <1>5, QuietSteps

\* A connection that ends is one of the causes.
LEMMA SeveredSteps ==
  ASSUME Followed, Crash \/ Disconnect
  PROVE  Followed'
<1>1. ~Calm'
  BY DEF Crash, Disconnect, Calm
<1>2. /\ wire' = <<>> /\ UNCHANGED <<toasts, dismissed, status, seed>>
  BY DEF Crash, Disconnect, database, store, requests
<1>3. \A t \in Tasks : task'[t] = task[t] \/ task'[t] = Idle
  BY DEF Crash, Disconnect, backend
<1>4. \A c \in DOMAIN closer' : c \in DOMAIN closer /\ (closer'[c] = closer[c] \/ closer'[c] = Idle)
  BY DEF Crash, Disconnect, backend
<1>5. Idle.pc = "idle"
  BY DEF Idle
<1>6. StoreTyped'
  BY <1>2, <1>3, <1>4, <1>5 DEF Followed, StoreTyped
<1>7. QED
  BY <1>1, <1>2, <1>6 DEF Followed, Following, ShownOnce

\* What is sent is appended.
LEMMA Sent ==
  ASSUME Followed, NEW events \in Seq(Message), Emit(events)
  PROVE  \/ connected /\ wire' = wire \o Copies(events)
         \/ ~connected /\ wire' = wire /\ wire = <<>>
  BY DEF Emit, Followed, StoreTyped

\* Alerts and resolutions are sent.
LEMMA OtherSent ==
  ASSUME Followed, NEW events \in Seq(Message), Emit(events), NoStatus(events),
         UNCHANGED <<connected, toasts, dismissed, status, shown, seed, fetch, causes>>,
         \A t \in Tasks : task'[t].pc \in {"emitAlert", "emitStatus"} => task'[t] = task[t],
         \A t \in Tasks : task[t].pc = "emitStatus" => task'[t] = task[t],
         \A c \in DOMAIN closer' : c \in DOMAIN closer /\ (closer'[c].pc = "emit" => closer'[c] = closer[c])
  PROVE  Followed'
<1> DEFINE e == Copies(events)
<1>1. e \in Seq(Message) /\ NoStatus(e)
  BY CopiesSent DEF NoStatus
<1> HIDE DEF e
<1>2. \/ connected /\ wire' = wire \o e
      \/ ~connected /\ wire' = wire /\ wire = <<>>
  BY Sent DEF e
<1>3. /\ wire \in Seq(Message) /\ wire' \in Seq(Message) /\ (~connected' => wire' = <<>>)
      /\ \A v : LastIs(wire, v) => LastIs(wire', v)
      /\ NoStatus(wire') => NoStatus(wire)
  BY <1>1, <1>2, AppendOther DEF Followed, StoreTyped
<1>4. StoreTyped'
  BY <1>3 DEF Followed, StoreTyped
<1>5. Following'
  BY <1>3 DEF Followed, Following, Calm
<1>6. QED
  BY <1>4, <1>5 DEF Followed, ShownOnce

LEMMA EmitAlertFollows ==
  ASSUME Followed, AlertInv, NEW t \in Tasks, EmitAlert(t)
  PROVE  Followed'
<1> DEFINE ev == Event("alert", task[t].id)
<1>1. task[t].pc = "emitAlert" /\ task[t].id \in Ids /\ Emit(<<ev>>)
  BY DEF EmitAlert, Followed, StoreTyped
<1>2. ev \in Message /\ ev.kind = "alert"
  BY <1>1 DEF Event, Message
<1> HIDE DEF ev
<1>3. <<ev>> \in Seq(Message) /\ NoStatus(<<ev>>)
  BY <1>2 DEF NoStatus
<1>4. UNCHANGED <<connected, toasts, dismissed, status, shown, seed, fetch, causes, closer>>
  BY DEF EmitAlert, database, store, requests, history
<1>5. task'[t] = Idle /\ Idle.pc = "idle" /\ \A u \in Tasks : u # t => task'[u] = task[u]
  BY DEF EmitAlert, AlertInv, Typed, Idle
<1>6. QED
  BY <1>1, <1>3, <1>4, <1>5, OtherSent

LEMMA EmitClosedFollows ==
  ASSUME Followed, AlertInv, NEW c \in DOMAIN closer, EmitClosed(c)
  PROVE  Followed'
<1>1. PICK ids \in SetToSeqs(closer[c].ids) : Emit([k \in DOMAIN ids |-> Event("resolved", ids[k])])
  BY DEF EmitClosed
<1>2. closer[c].ids \subseteq Ids
  BY DEF EmitClosed, Followed, StoreTyped
<1> DEFINE n == Cardinality(closer[c].ids)
           events == [k \in DOMAIN ids |-> Event("resolved", ids[k])]
<1>3. n \in Nat
  <2>1. IsFiniteSet(Ids)
    BY LimitsAssumption, FS_Interval DEF Ids
  <2>2. IsFiniteSet(closer[c].ids)
    BY <1>2, <2>1, FS_Subset
  <2>3. QED
    BY <2>2, FS_CardinalityType
<1>4. ids \in [1..n -> closer[c].ids]
  BY DEF SetToSeqs
<1> HIDE DEF n
<1>5. events \in [1..n -> Message] /\ \A k \in 1..n : events[k].kind = "resolved"
  BY <1>2, <1>4 DEF Event, Message
<1> HIDE DEF events
<1>6. events \in Seq(Message) /\ NoStatus(events)
  BY <1>3, <1>5 DEF NoStatus
<1>7. UNCHANGED <<connected, toasts, dismissed, status, shown, seed, fetch, causes, task>>
  BY DEF EmitClosed, database, store, requests, history
<1>8. \A d \in DOMAIN closer' : d \in DOMAIN closer /\ (closer'[d].pc = "emit" => closer'[d] = closer[d])
  <2>1. closer' = [closer EXCEPT ![c] = Idle] /\ Idle.pc = "idle"
    BY DEF EmitClosed, Idle
  <2>2. QED
    BY <2>1
<1>9. QED
  BY <1>1, <1>6, <1>7, <1>8, OtherSent DEF events

\* The status is written only by one handler at a time, or they overlap.
LEMMA WriteStatusFollows ==
  ASSUME Followed, AlertInv, NEW t \in Tasks, WriteStatus(t)
  PROVE  Followed'
<1>1. PICK to \in Statuses : /\ status' = to
                             /\ task' = [task EXCEPT ![t] = [pc |-> "emitStatus", to |-> to]]
  BY DEF WriteStatus
<1> DEFINE r == [pc |-> "emitStatus", to |-> to]
<1>2. r.pc = "emitStatus" /\ r.to = to
  OBVIOUS
<1>3. task'[t] = r /\ \A u \in Tasks : u # t => task'[u] = task[u]
  BY <1>1 DEF AlertInv, Typed
<1> HIDE DEF r
<1>4. /\ UNCHANGED <<closer, wire, connected, toasts, dismissed, shown, seed, fetch>>
      /\ causes \subseteq causes'
  BY DEF WriteStatus, socket, store, requests
<1>5. StoreTyped'
  BY <1>1, <1>2, <1>3, <1>4 DEF Followed, StoreTyped
<1>6. Calm' => \A u \in Tasks : task[u].pc # "emitStatus"
  BY DEF WriteStatus, Calm
<1>7. Following'
  BY <1>1, <1>2, <1>3, <1>6 DEF Following
<1>8. QED
  BY <1>4, <1>5, <1>7 DEF Followed, ShownOnce

\* Its event goes to a browser that is there, or has asked for nothing yet, or is missed.
LEMMA EmitStatusFollows ==
  ASSUME Followed, AlertInv, NEW t \in Tasks, EmitStatus(t)
  PROVE  Followed'
<1> DEFINE ev == Event("status", task[t].to)
           e == Copies(<<ev>>)
<1>1. task[t].pc = "emitStatus" /\ task[t].to \in Statuses /\ Emit(<<ev>>)
  BY DEF EmitStatus, Followed, StoreTyped
<1>2. ev \in Message /\ ev.kind = "status" /\ ev.value = task[t].to
  BY <1>1 DEF Event, Message
<1>3. e \in Seq(Message) /\ e # <<>> /\ \A k \in DOMAIN e : e[k].kind = "status" /\ e[k].value = task[t].to
  <2> HIDE DEF ev
  <2>1. <<ev>> \in Seq(Message) /\ <<ev>> # <<>> /\ \A j \in DOMAIN <<ev>> : <<ev>>[j] = ev
    BY <1>2
  <2>2. QED
    BY <1>2, <2>1, CopiesSent
<1>4. \/ connected /\ wire' = wire \o e
      \/ ~connected /\ wire' = wire /\ wire = <<>>
  <2> HIDE DEF ev
  <2>1. <<ev>> \in Seq(Message)
    BY <1>2
  <2>2. QED
    BY <1>1, <2>1, Sent
<1> HIDE DEF e, ev
<1>5. UNCHANGED <<connected, toasts, dismissed, status, shown, seed, fetch>> /\ causes \subseteq causes'
  BY DEF EmitStatus, database, store, requests
<1>6. task'[t] = Idle /\ Idle.pc = "idle" /\ \A u \in Tasks : u # t => task'[u] = task[u]
  BY DEF EmitStatus, AlertInv, Typed, Idle
<1>7. \A d \in DOMAIN closer' : d \in DOMAIN closer /\ (closer'[d].pc = "emit" => closer'[d] = closer[d])
  <2>1. closer' = [closer EXCEPT ![t] = [pc |-> "find"]] \/ closer' = closer
    BY DEF EmitStatus
  <2>2. QED
    BY <2>1
<1>8. wire' \in Seq(Message) /\ (~connected' => wire' = <<>>)
  BY <1>3, <1>4, <1>5, AppendStatus DEF Followed, StoreTyped
<1>9. StoreTyped'
  BY <1>5, <1>6, <1>7, <1>8 DEF Followed, StoreTyped
<1>10. ASSUME Calm' PROVE LastIs(wire', status) /\ (NoStatus(wire') => /\ shown \in {Unknown, status}
                                                                       /\ fetch.pc # "answered")
  <2>1. task[t].to = status
    BY <1>1, <1>5, <1>10 DEF Followed, Following, Calm
  <2>2. CASE connected
    BY <1>3, <1>4, <2>1, <2>2, AppendStatus DEF Followed, StoreTyped
  <2>3. CASE ~connected
    <3>1. ~(shown # Unknown \/ fetch.pc = "answered")
      BY <1>10, <2>3 DEF EmitStatus, Calm
    <3>2. LastIs(wire', status)
      BY <1>4, <2>3 DEF LastIs
    <3>3. QED
      BY <3>1, <3>2
  <2>4. QED
    BY <2>2, <2>3
<1>11. Calm' => \A u \in Tasks : task'[u].pc # "emitStatus"
  BY <1>1, <1>5, <1>6 DEF Followed, Following, Calm
<1>12. Following'
  BY <1>5, <1>10, <1>11 DEF Following
<1>13. QED
  BY <1>5, <1>9, <1>12 DEF Followed, ShownOnce

-----------------------------------------------------------------------------

\* An event arrives.
LEMMA StatusChangedFollows == Followed /\ StatusChanged => Followed'
<1> SUFFICES ASSUME Followed, StatusChanged PROVE Followed'
  OBVIOUS
<1>1. /\ wire \in Seq(Message) /\ wire # <<>> /\ wire' = Tail(wire) /\ Head(wire).kind = "status"
      /\ UNCHANGED <<connected, toasts, dismissed, status, seed, fetch, task, closer>>
      /\ causes \subseteq causes' /\ shown' = IF shown = Unknown THEN shown ELSE Head(wire).value
  BY DEF StatusChanged, Received, Followed, StoreTyped, database, backend, requests
<1>2. StoreTyped'
  BY <1>1, TailShift DEF Followed, StoreTyped
<1>3. Calm' => Calm /\ fetch.pc # "answered"
  BY <1>1 DEF StatusChanged, Calm
<1>4. Following'
  <2>1. SUFFICES ASSUME Calm' PROVE Following'
    BY DEF Following
  <2>2. SUFFICES ASSUME \A u \in Tasks : task[u].pc # "emitStatus"
                 PROVE  LastIs(wire', status) /\ (NoStatus(wire') => shown' \in {Unknown, status})
    BY <1>1, <1>3, <2>1 DEF Followed, Following
  <2>3. LastIs(wire, status)
    BY <1>3, <2>1, <2>2 DEF Followed, Following
  <2>4. QED
    BY <1>1, <2>3, TailShift
<1>5. QED
  BY <1>1, <1>2, <1>4 DEF Followed, ShownOnce

\* An event about an alert arrives, or none does, and the toasts change.
LEMMA ToastsChange ==
  ASSUME Followed, UNCHANGED <<connected, status, shown, fetch, task, closer, causes>>,
         seed' = seed \/ seed'.pc # "answered",
         toasts' \in Seq(Ids), ShownOnce',
         wire' = wire \/ (wire # <<>> /\ wire' = Tail(wire) /\ Head(wire).kind # "status")
  PROVE  Followed'
<1>1. wire \in Seq(Message)
  BY DEF Followed, StoreTyped
<1>2. /\ wire' \in Seq(Message) /\ (wire = <<>> => wire' = <<>>)
      /\ LastIs(wire, status) => LastIs(wire', status)
      /\ NoStatus(wire') => NoStatus(wire)
  BY <1>1, TailShift
<1>3. StoreTyped'
  BY <1>2 DEF Followed, StoreTyped
<1>4. Following'
  BY <1>2 DEF Followed, Following, Calm
<1>5. QED
  BY <1>3, <1>4 DEF Followed

LEMMA AlertReceivedFollows == Followed /\ AlertReceived => Followed'
<1> SUFFICES ASSUME Followed, AlertReceived PROVE Followed'
  OBVIOUS
<1> DEFINE i == Head(wire).value
           s == <<i>> \o toasts
<1>1. wire # <<>> /\ wire' = Tail(wire) /\ Head(wire).kind = "alert" /\ wire \in Seq(Message)
  BY DEF AlertReceived, Received, Followed, StoreTyped
<1>2. Head(wire) \in Message
  BY <1>1
<1>3. i \in Ids
  BY <1>1, <1>2 DEF Message
<1>4. UNCHANGED <<connected, status, shown, fetch, task, closer, causes, seed, dismissed>>
  BY DEF AlertReceived, database, backend, requests, history
<1>5. toasts \in Seq(Ids) /\ IsInjective(toasts) /\ ToSet(toasts) \cap dismissed = {}
  BY DEF Followed, StoreTyped, ShownOnce
<1>6. CASE Unseen({i}) = {}
  BY <1>1, <1>4, <1>5, <1>6, ToastsChange DEF AlertReceived, ShownOnce
<1>7. CASE Unseen({i}) # {}
  <2>1. i \notin ToSet(toasts) /\ i \notin dismissed
    BY <1>7 DEF Unseen
  <2>2. toasts' = FirstToasts(s)
    BY <1>7 DEF AlertReceived
  <2> HIDE DEF i
  <2>3. /\ s \in Seq(Ids) /\ DOMAIN s = 1..(Len(toasts) + 1) /\ s[1] = i
        /\ \A k \in DOMAIN s : k # 1 => k - 1 \in DOMAIN toasts /\ s[k] = toasts[k - 1]
    BY <1>3, <1>5
  <2> HIDE DEF s
  <2>4. ToSet(s) \subseteq ToSet(toasts) \union {i}
    BY <2>3 DEF ToSet
  <2>5. IsInjective(s)
    <3>1. ASSUME NEW k \in DOMAIN s, NEW l \in DOMAIN s, s[k] = s[l] PROVE k = l
      <4>1. CASE k = 1 \/ l = 1
        BY <2>1, <2>3, <3>1, <4>1 DEF ToSet
      <4>2. CASE k # 1 /\ l # 1
        <5>1. k - 1 = l - 1
          BY <1>5, <2>3, <3>1, <4>2 DEF IsInjective
        <5>2. QED
          BY <2>3, <5>1
      <4>3. QED
        BY <4>1, <4>2
    <3>2. QED
      BY <3>1 DEF IsInjective
  <2>6. toasts' \in Seq(Ids) /\ IsInjective(toasts') /\ ToSet(toasts') \subseteq ToSet(s)
    BY <2>2, <2>3, <2>5, FirstStay
  <2>7. ShownOnce'
    BY <1>4, <1>5, <2>1, <2>4, <2>6 DEF ShownOnce
  <2>8. QED
    BY <1>1, <1>4, <2>6, <2>7, ToastsChange
<1>8. QED
  BY <1>6, <1>7

\* A toast goes, and is remembered.
LEMMA DismissedFollows ==
  ASSUME Followed, NEW i \in Ids, toasts' = Without(i), dismissed' = dismissed \union {i},
         UNCHANGED <<connected, status, shown, fetch, task, closer, causes, seed>>,
         wire' = wire \/ (wire # <<>> /\ wire' = Tail(wire) /\ Head(wire).kind # "status")
  PROVE  Followed'
<1>1. toasts \in Seq(Ids) /\ IsInjective(toasts) /\ ToSet(toasts) \cap dismissed = {}
  BY DEF Followed, StoreTyped, ShownOnce
<1>2. toasts' \in Seq(Ids) /\ IsInjective(toasts') /\ ToSet(toasts') \subseteq ToSet(toasts) \ {i}
  BY <1>1, WithoutIt
<1>3. ShownOnce'
  BY <1>1, <1>2 DEF ShownOnce
<1>4. QED
  BY <1>2, <1>3, ToastsChange

LEMMA ResolvedFollows ==
  ASSUME Followed, AlertResolved \/ \E i \in Ids : AlertDismissed(i)
  PROVE  Followed'
<1>1. CASE AlertResolved
  <2>1. wire # <<>> /\ wire' = Tail(wire) /\ Head(wire).kind = "resolved" /\ wire \in Seq(Message)
    BY <1>1 DEF AlertResolved, Received, Followed, StoreTyped
  <2>2. Head(wire) \in Message
    BY <2>1
  <2>3. Head(wire).value \in Ids
    BY <2>1, <2>2 DEF Message
  <2>4. UNCHANGED <<connected, status, shown, fetch, task, closer, causes, seed>>
    BY <1>1 DEF AlertResolved, database, backend, requests, history
  <2>5. QED
    BY <1>1, <2>1, <2>3, <2>4, DismissedFollows DEF AlertResolved
<1>2. ASSUME NEW i \in Ids, AlertDismissed(i) PROVE Followed'
  <2>1. UNCHANGED <<connected, status, shown, fetch, task, closer, causes, seed, wire>>
    BY <1>2 DEF AlertDismissed, database, backend, requests, history, socket
  <2>2. QED
    BY <1>2, <2>1, DismissedFollows DEF AlertDismissed
<1>3. QED
  BY <1>1, <1>2

LEMMA SeedArrivesFollows == Followed /\ SeedArrives => Followed'
<1> SUFFICES ASSUME Followed, SeedArrives PROVE Followed'
  OBVIOUS
<1>1. PICK recent \in SUBSET seed.ids :
        \E s \in NewestFirst(Unseen(recent) \union ToSet(toasts)) : toasts' = FirstToasts(s)
  BY DEF SeedArrives
<1> DEFINE ids == Unseen(recent) \union ToSet(toasts)
<1>2. toasts \in Seq(Ids) /\ ToSet(toasts) \cap dismissed = {}
  BY DEF Followed, StoreTyped, ShownOnce
<1>3. ToSet(toasts) \subseteq Ids
  BY <1>2 DEF ToSet
<1>4. ids \subseteq Ids /\ ids \cap dismissed = {}
  BY <1>2, <1>3 DEF SeedArrives, Followed, StoreTyped, Unseen
<1>5. PICK s \in NewestFirst(ids) : toasts' = FirstToasts(s)
  BY <1>1
<1> HIDE DEF ids
<1>6. toasts' \in Seq(Ids) /\ IsInjective(toasts') /\ ToSet(toasts') \subseteq ids
  BY <1>4, <1>5, SeededOnce, FirstStay
<1>7. UNCHANGED <<connected, status, shown, fetch, task, closer, causes, wire, dismissed>>
      /\ seed'.pc # "answered"
  BY DEF SeedArrives, database, backend, socket, history
<1>8. ShownOnce'
  BY <1>4, <1>6, <1>7 DEF ShownOnce
<1>9. QED
  BY <1>6, <1>7, <1>8, ToastsChange

\* The snapshot is taken, arrives, or is thrown away.
LEMMA SnapshotSteps ==
  ASSUME Followed, AnswerFetch \/ FetchArrives \/ InvalidateMotors
  PROVE  Followed'
<1>1. UNCHANGED <<wire, connected, toasts, dismissed, status, task, closer, seed, causes>>
  BY DEF AnswerFetch, FetchArrives, InvalidateMotors, database, backend, socket, requests, store, history
<1>2. StoreTyped' /\ ShownOnce'
  BY <1>1 DEF Followed, StoreTyped, ShownOnce
<1>3. CASE AnswerFetch
  <2>1. fetch' = [pc |-> "answered", status |-> status] /\ shown' = shown
    BY <1>3 DEF AnswerFetch, store
  <2>2. QED
    BY <1>1, <1>2, <2>1 DEF Followed, Following, Calm
<1>4. CASE FetchArrives
  <2>1. fetch.pc = "answered" /\ shown' = fetch.status /\ fetch'.pc = "idle"
    BY <1>4 DEF FetchArrives, Idle
  <2>2. QED
    BY <1>1, <1>2, <2>1 DEF Followed, Following, Calm
<1>5. CASE InvalidateMotors
  <2>1. fetch' = fetch /\ shown' = Unknown
    BY <1>5 DEF InvalidateMotors, requests
  <2>2. QED
    BY <1>1, <1>2, <2>1 DEF Followed, Following, Calm
<1>6. QED
  BY <1>3, <1>4, <1>5

LEMMA FollowedInductive == AlertInv /\ Followed /\ [Next]_vars => Followed'
<1> SUFFICES ASSUME AlertInv, Followed, [Next]_vars PROVE Followed'
  OBVIOUS
<1>1. CASE Backend
  BY <1>1, QuietBackend, EmitAlertFollows, EmitClosedFollows, WriteStatusFollows, EmitStatusFollows,
     SeveredSteps DEF Backend
<1>2. CASE Browser
  BY <1>2, QuietBrowser, SeveredSteps, SeedArrivesFollows, StatusChangedFollows, AlertReceivedFollows,
     ResolvedFollows, SnapshotSteps DEF Browser
<1>3. CASE UNCHANGED vars
  BY <1>3, QuietBrowser
<1>4. QED
  BY <1>1, <1>2, <1>3 DEF Next

\* What was dismissed or resolved is not shown again, and nothing is shown twice, for any number of
\* alerts and toasts, with every event delivered once for each room and a seed that comes late
\* (alertReceived, alertResolved, alertDismissed, fetchActiveAlerts.fulfilled).
THEOREM ToastsOnce == Spec => []ShownOnce
<1>1. AlertInv /\ Followed /\ [Next]_vars => (AlertInv /\ Followed)'
  BY AlertInductive, FollowedInductive
<1>2. Followed => ShownOnce
  BY DEF Followed
<1>3. QED
  BY AlertInit, FollowedInit, <1>1, <1>2, PTL DEF Spec

\* When every event has arrived and no snapshot is under way the screen shows what the database
\* says, or one of four causes has occurred: for any number of handlers, reconnections and fetches
\* (transitionMotor, RealtimeGateway, socket.middleware, motors.slice).
THEOREM ScreenFollows == Spec => []StoreFollows
<1>1. AlertInv /\ Followed /\ [Next]_vars => (AlertInv /\ Followed)'
  BY AlertInductive, FollowedInductive
<1>2. Followed => StoreFollows
  <2> SUFFICES ASSUME Followed, AllSent, Calm PROVE shown \in {Unknown, status}
    BY DEF StoreFollows, Calm
  <2>1. NoStatus(wire)
    BY DEF AllSent, NoStatus
  <2>2. QED
    BY <2>1 DEF Followed, Following, AllSent
<1>3. QED
  BY AlertInit, FollowedInit, <1>1, <1>2, PTL DEF Spec
=============================================================================
