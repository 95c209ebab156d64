------------------------------ MODULE Dashboard ------------------------------
(***************************************************************************)
(* What an operator sees: the status and the alerts of a motor in the      *)
(* database, the events the gateway sends over the browser's socket, and   *)
(* the browser's store, which is filled from REST snapshots and kept up to *)
(* date by the events.                                                     *)
(*                                                                         *)
(* Snapshots and events travel on different connections: only the events   *)
(* stay in order among themselves.  An action is the code from one await   *)
(* to the next.  Which statuses and alerts there are, the motor and sensor *)
(* evaluation decide; here they come as they like.  Charts are left out.   *)
(***************************************************************************)
EXTENDS Naturals, FiniteSets, SequencesExt

CONSTANTS
  Tasks,          \* handlers that transition the motor or raise alerts
  Users,          \* operators who acknowledge alerts
  MaxToasts,      \* MAX_ACTIVE_TOASTS
  MaxAlerts,      \* bound on the alerts
  Budgets         \* bounds on alerts, transitions, fetches and drops: one of them holds

Bounded == {"alerts", "transitions", "fetches", "drops"}

ASSUME LimitsAssumption == MaxToasts \in Nat /\ MaxAlerts \in Nat /\ Budgets \subseteq [Bounded -> 0..MaxAlerts]

\* The sweep closes alerts, and so does every handler that has recovered the motor.
Sweep   == "sweep"
Closing == Tasks \union {Sweep}

ASSUME SweepAssumption == Sweep \notin Tasks

VARIABLES
  status,      \* database: the motor's row
  alert,       \* database: the alerts table
  task,        \* what each handler is doing
  closer,      \* those that close alerts: handlers whose motor recovered, and the sweep
  wire,        \* events under way to the browser
  connected,   \* the socket is up
  inRoom,      \* the motor's room is joined, or will be when the socket is up
  shown,       \* store: motors.byId
  toasts,      \* store: alerts.active, the newest first
  dismissed,   \* store: alerts.dismissedIds
  seed,        \* the one fetchActiveAlerts of the session
  fetch,       \* fetchMotors or fetchMotorDetail under way
  left,        \* what of its budget a behaviour has left
  acknowledged, \* history: who was told "Alert resolved", and of which
  causes       \* history: what has parted store and database

database == <<status, alert>>
backend  == <<task, closer>>
socket   == <<wire, connected, inRoom>>
store    == <<shown, toasts, dismissed>>
requests == <<seed, fetch>>
history  == <<acknowledged, causes>>
vars     == <<database, backend, socket, store, requests, left, history>>

Ids      == 1..MaxAlerts
Statuses == {"healthy", "alarm", "restarting"}
Types    == {"motor_alarm", "sensor_fault"}
Unknown  == "unknown"
System   == "system" \* resolvedBy: null
Nobody   == "nobody"

\* Under five minutes old, under a day, and older.
Fresh == 0
Stale == 2

NoAlert == [state |-> "none"]
Idle    == [pc |-> "idle"]

Spend(what) == left[what] > 0 /\ left' = [left EXCEPT ![what] = @ - 1]

Existing == {i \in Ids : alert[i] # NoAlert}
Open     == {i \in Existing : alert[i].state = "open"}

\* A motor that may recover at once, and a browser before it has opened its socket.
Init ==
  /\ status = "alarm" /\ alert = [i \in Ids |-> NoAlert]
  /\ task = [t \in Tasks |-> Idle]
  /\ closer = [c \in Closing |-> Idle]
  /\ wire = <<>> /\ connected = FALSE /\ inRoom = FALSE
  /\ shown = Unknown /\ toasts = <<>> /\ dismissed = {}
  /\ seed = Idle /\ fetch = Idle
  /\ left \in Budgets
  /\ acknowledged = {} /\ causes = {}

-----------------------------------------------------------------------------
(* The backend.                                                              *)

\* To the dashboard room, where every client is, and to the motor's room.
Copies(events) == IF inRoom THEN [k \in 1..(2 * Len(events)) |-> events[(k + 1) \div 2]] ELSE events

Emit(events) == wire' = IF connected THEN wire \o Copies(events) ELSE wire

Event(kind, value) == [kind |-> kind, value |-> value]

Free(t) == task[t] = Idle /\ closer[t] = Idle

\* transitionMotor writes the row.
WriteStatus(t) ==
  /\ Free(t) /\ Spend("transitions")
  /\ \E to \in Statuses \ {status} :
       /\ status' = to
       /\ task' = [task EXCEPT ![t] = [pc |-> "emitStatus", to |-> to]]
  /\ causes' = IF \E u \in Tasks : task[u].pc = "emitStatus" THEN causes \union {"overlap"} ELSE causes
  /\ UNCHANGED <<alert, closer, socket, store, requests, acknowledged>>

\* The event goes out when the database has answered; a handler that has recovered the motor
\* writes the sensors next, and looks its alerts up.
EmitStatus(t) ==
  /\ task[t].pc = "emitStatus"
  /\ Emit(<<Event("status", task[t].to)>>)
  /\ task' = [task EXCEPT ![t] = Idle]
  /\ closer' = IF task[t].to = "healthy" THEN [closer EXCEPT ![t] = [pc |-> "find"]] ELSE closer
  /\ causes' = IF ~connected /\ (shown # Unknown \/ fetch.pc = "answered")
                 THEN causes \union {"missed"} ELSE causes
  /\ UNCHANGED <<database, connected, inRoom, store, requests, left, acknowledged>>

\* The alert of this type that was triggered last.
Latest(type) == {i \in Existing : alert[i].type = type /\ \A j \in Existing : alert[j].type = type => j <= i}

Throttled_Recent(type) == \E i \in Latest(type) : alert[i].age = Fresh

Throttled(type) == \E i \in Latest(type) : alert[i].state = "open" \/ alert[i].age = Fresh

\* createAlert looks for an alert that makes this one superfluous ...
FindLast(t, type) ==
  /\ Free(t) /\ ~Throttled(type) /\ Spend("alerts")
  /\ task' = [task EXCEPT ![t] = [pc |-> "insert", type |-> type]]
  /\ causes' = IF \E u \in Tasks : task[u].pc = "insert" /\ task[u].type = type
                 THEN causes \union {type} ELSE causes
  /\ UNCHANGED <<database, closer, socket, store, requests, acknowledged>>

\* ... inserts it ...
InsertAlert(t) ==
  /\ task[t].pc = "insert"
  /\ \E i \in Ids :
       /\ i = Cardinality(Existing) + 1
       /\ alert' = [alert EXCEPT ![i] =
                      [state |-> "open", by |-> Nobody, type |-> task[t].type, age |-> Fresh]]
       /\ task' = [task EXCEPT ![t] = [pc |-> "emitAlert", id |-> i]]
  /\ UNCHANGED <<status, closer, socket, store, requests, left, history>>

\* ... and sends it.
EmitAlert(t) ==
  /\ task[t].pc = "emitAlert"
  /\ Emit(<<Event("alert", task[t].id)>>)
  /\ task' = [task EXCEPT ![t] = Idle]
  /\ UNCHANGED <<database, closer, connected, inRoom, store, requests, left, history>>

\* resolveMotorAlerts and handleStaleAlertSweep look for open alerts ...
Closable(c) == {i \in Open : IF c = Sweep THEN alert[i].age = Stale ELSE alert[i].type = "motor_alarm"}

FindOpen(c) ==
  /\ closer[c].pc = IF c = Sweep THEN "idle" ELSE "find"
  /\ c = Sweep => Closable(c) # {}
  /\ closer' = [closer EXCEPT ![c] =
       IF Closable(c) = {} THEN Idle ELSE [pc |-> "close", ids |-> Closable(c)]]
  /\ UNCHANGED <<database, task, socket, store, requests, left, history>>

\* ... close these by their ids, whoever has acknowledged them meanwhile ...
CloseAlerts(c) ==
  /\ closer[c].pc = "close"
  /\ alert' = [i \in Ids |-> IF i \in closer[c].ids THEN [alert[i] EXCEPT !.state = "closed", !.by = System]
                                                    ELSE alert[i]]
  /\ closer' = [closer EXCEPT ![c] = [pc |-> "emit", ids |-> @.ids]]
  /\ UNCHANGED <<status, task, socket, store, requests, left, history>>

\* ... and say so, in the order in which the database gave them.
EmitClosed(c) ==
  /\ closer[c].pc = "emit"
  /\ \E ids \in SetToSeqs(closer[c].ids) : Emit([k \in DOMAIN ids |-> Event("resolved", ids[k])])
  /\ closer' = [closer EXCEPT ![c] = Idle]
  /\ UNCHANGED <<database, task, connected, inRoom, store, requests, left, history>>

\* A query rejects: no alert is inserted, or the sensors are not written, the open alerts not
\* found or not closed. Nothing that comes after it happens.
InsertFails(t) ==
  /\ task[t].pc = "insert"
  /\ task' = [task EXCEPT ![t] = Idle]
  /\ UNCHANGED <<database, closer, socket, store, requests, left, history>>

ClosingFails(c) ==
  /\ closer[c].pc \in {"find", "close"}
  /\ closer' = [closer EXCEPT ![c] = Idle]
  /\ UNCHANGED <<database, task, socket, store, requests, left, history>>

Resolve_Unguarded(u, i) ==
  /\ i \in Existing
  /\ alert' = [alert EXCEPT ![i].state = "closed", ![i].by = u]
  /\ acknowledged' = acknowledged \union {<<u, i>>}
  /\ UNCHANGED <<status, backend, socket, store, requests, left, causes>>

\* PATCH alerts/:id/resolve: WHERE resolved_at IS NULL. Nothing is emitted.
Resolve(u, i) ==
  /\ i \in Open
  /\ alert' = [alert EXCEPT ![i].state = "closed", ![i].by = u]
  /\ acknowledged' = acknowledged \union {<<u, i>>}
  /\ UNCHANGED <<status, backend, socket, store, requests, left, causes>>

\* An alert passes five minutes, or a day, after the older ones.
TimePasses(i) ==
  /\ i \in Existing /\ alert[i].age < Stale
  /\ \A j \in Existing : j < i => alert[j].age > alert[i].age
  /\ alert' = [alert EXCEPT ![i].age = @ + 1]
  /\ UNCHANGED <<status, backend, socket, store, requests, left, history>>

\* The process ends in the middle of whatever it was doing, and the sockets with it.
Crash ==
  /\ Spend("drops")
  /\ task' = [t \in Tasks |-> Idle] /\ closer' = [c \in DOMAIN closer |-> Idle]
  /\ connected' = FALSE /\ inRoom' = FALSE /\ wire' = <<>>
  /\ causes' = causes \union {"severed"}
  /\ UNCHANGED <<database, store, requests, acknowledged>>

-----------------------------------------------------------------------------
(* The browser.                                                              *)

\* socket.on('connect'): the alerts are asked for on the first connection only.
Connect ==
  /\ ~connected
  /\ connected' = TRUE
  /\ seed' = IF seed = Idle THEN [pc |-> "asked"] ELSE seed
  /\ UNCHANGED <<database, backend, wire, inRoom, store, fetch, left, history>>

\* What was under way is lost; a connection that comes back is not in the room.
Disconnect ==
  /\ connected /\ Spend("drops")
  /\ connected' = FALSE /\ inRoom' = FALSE /\ wire' = <<>>
  /\ causes' = causes \union {"severed"}
  /\ UNCHANGED <<database, backend, store, requests, acknowledged>>

\* getActive
AnswerSeed ==
  /\ seed.pc = "asked"
  /\ seed' = [pc |-> "answered", ids |-> Open]
  /\ UNCHANGED <<database, backend, socket, store, fetch, left, history>>

FirstToasts(s) == SubSeq(s, 1, IF Len(s) < MaxToasts THEN Len(s) ELSE MaxToasts)

NewestFirst(ids) == {s \in SetToSeqs(ids) : \A k, l \in DOMAIN s : k < l => s[k] > s[l]}

Unseen_EvenIfShown(ids) == ids \ dismissed

Unseen(ids) == ids \ (ToSet(toasts) \union dismissed)

\* fetchActiveAlerts.fulfilled: those of the last ten minutes, which all the fresh ones are.
SeedArrives ==
  /\ seed.pc = "answered"
  /\ \E recent \in SUBSET {i \in seed.ids : alert[i].age # Stale} :
       /\ {i \in seed.ids : alert[i].age = Fresh} \subseteq recent
       /\ \E s \in NewestFirst(Unseen(recent) \union ToSet(toasts)) : toasts' = FirstToasts(s)
  /\ seed' = [pc |-> "done"]
  /\ UNCHANGED <<database, backend, socket, shown, dismissed, fetch, left, history>>

SeedFails ==
  /\ seed.pc \in {"asked", "answered"}
  /\ seed' = [pc |-> "done"]
  /\ UNCHANGED <<database, backend, socket, store, fetch, left, history>>

Received(kind) == wire # <<>> /\ Head(wire).kind = kind /\ wire' = Tail(wire)

StatusChanged_NotWhileRestarting ==
  /\ Received("status")
  /\ shown' = IF shown \in {Unknown, "restarting"} THEN shown ELSE Head(wire).value
  /\ causes' = IF fetch.pc = "answered" THEN causes \union {"overtaken"} ELSE causes
  /\ UNCHANGED <<database, backend, connected, inRoom, toasts, dismissed, requests, left, acknowledged>>

\* Events about a motor that is not in the store are dropped.
StatusChanged ==
  /\ Received("status")
  /\ shown' = IF shown = Unknown THEN shown ELSE Head(wire).value
  /\ causes' = IF fetch.pc = "answered" THEN causes \union {"overtaken"} ELSE causes
  /\ UNCHANGED <<database, backend, connected, inRoom, toasts, dismissed, requests, left, acknowledged>>

AlertReceived ==
  /\ Received("alert")
  /\ toasts' = IF Unseen({Head(wire).value}) = {} THEN toasts
               ELSE FirstToasts(<<Head(wire).value>> \o toasts)
  /\ UNCHANGED <<database, backend, connected, inRoom, shown, dismissed, requests, left, history>>

\* The filter; an alert is in the list once at most (ShownOnce).
Without(i) ==
  IF i \in ToSet(toasts) THEN RemoveAt(toasts, CHOOSE k \in DOMAIN toasts : toasts[k] = i) ELSE toasts

AlertResolved ==
  /\ Received("resolved")
  /\ toasts' = Without(Head(wire).value)
  /\ dismissed' = dismissed \union {Head(wire).value}
  /\ UNCHANGED <<database, backend, connected, inRoom, shown, requests, left, history>>

\* The timer of a toast ends, or it is closed.
AlertDismissed(i) ==
  /\ i \in ToSet(toasts)
  /\ toasts' = Without(i)
  /\ dismissed' = dismissed \union {i}
  /\ UNCHANGED <<database, backend, socket, shown, requests, left, history>>

\* joinMotorRoom and leaveMotorRoom: what is emitted without a connection is sent when it comes.
JoinRoom  == inRoom' = TRUE
LeaveRoom == inRoom' = FALSE

\* Every time the detail page is opened it fetches the motor and joins its room, ...
OpenDetail ==
  /\ fetch = Idle /\ ~inRoom /\ Spend("fetches")
  /\ fetch' = [pc |-> "asked"]
  /\ JoinRoom
  /\ UNCHANGED <<database, backend, wire, connected, store, seed, history>>

\* ... which it leaves in the end. A connection that came back has not joined.
LeaveDetail ==
  /\ inRoom
  /\ LeaveRoom
  /\ UNCHANGED <<database, backend, wire, connected, store, requests, left, history>>

\* The dashboard fetches when the store is empty.
OpenDashboard ==
  /\ fetch = Idle /\ shown = Unknown /\ Spend("fetches")
  /\ fetch' = [pc |-> "asked"]
  /\ UNCHANGED <<database, backend, socket, store, seed, history>>

\* getAll and getById
AnswerFetch ==
  /\ fetch.pc = "asked"
  /\ fetch' = [pc |-> "answered", status |-> status]
  /\ UNCHANGED <<database, backend, socket, store, seed, left, history>>

\* fulfilled: the snapshot replaces what the events have made of the motor.
FetchArrives ==
  /\ fetch.pc = "answered"
  /\ shown' = fetch.status
  /\ fetch' = Idle
  /\ UNCHANGED <<database, backend, socket, toasts, dismissed, seed, left, history>>

FetchFails ==
  /\ fetch.pc \in {"asked", "answered"}
  /\ fetch' = Idle
  /\ UNCHANGED <<database, backend, socket, store, seed, left, history>>

\* invalidateMotors, when the configuration was changed.
InvalidateMotors ==
  /\ shown # Unknown
  /\ shown' = Unknown
  /\ UNCHANGED <<database, backend, socket, toasts, dismissed, requests, left, history>>

Backend ==
  \/ \E t \in Tasks : \/ WriteStatus(t) \/ EmitStatus(t)
                      \/ InsertAlert(t) \/ InsertFails(t) \/ EmitAlert(t)
                      \/ \E type \in Types : FindLast(t, type)
  \/ \E c \in DOMAIN closer : FindOpen(c) \/ CloseAlerts(c) \/ ClosingFails(c) \/ EmitClosed(c)
  \/ \E i \in Ids : TimePasses(i) \/ \E u \in Users : Resolve(u, i)
  \/ Crash

Browser ==
  \/ Connect \/ Disconnect \/ AnswerSeed \/ SeedArrives \/ SeedFails
  \/ StatusChanged \/ AlertReceived \/ AlertResolved \/ \E i \in Ids : AlertDismissed(i)
  \/ OpenDetail \/ LeaveDetail \/ OpenDashboard
  \/ AnswerFetch \/ FetchArrives \/ FetchFails \/ InvalidateMotors

Next == Backend \/ Browser

Spec == Init /\ [][Next]_vars

-----------------------------------------------------------------------------

\* createAlert lets one alert of a type be open at a time, unless two calls for the type overlap:
\* it looks before it inserts.
OneOpenPerType ==
  \A type \in Types \ causes : Cardinality({i \in Open : alert[i].type = type}) <= 1

\* Of two operators who acknowledge an alert at once one is told so and the other is refused.
\* Whom the table names is the one who was told, unless the recovery or the sweep, which had
\* read the alert open, put "automatic" in that place.
AcknowledgedOnce ==
  \A ack \in acknowledged :
    /\ \A other \in acknowledged : other[2] = ack[2] => other = ack
    /\ alert[ack[2]].by \in {ack[1], System}

\* A toast that was dismissed, or whose alert the browser was told (alert-resolved) that it was
\* resolved, is not shown again, and none is shown twice at once, with every event delivered once
\* for each room and a seed that may come late. An operator's acknowledgement sends no such event,
\* so its toast stays until the timer.
ShownOnce == ToSet(toasts) \cap dismissed = {} /\ IsInjective(toasts)

AllSent == wire = <<>> /\ \A t \in Tasks : task[t].pc # "emitStatus"

\* The status on the screen is the one in the database when all events have arrived and no
\* snapshot is under way, unless a connection was lost, an event found the socket not yet open or
\* overtook a snapshot, or two transitions overlapped and their events came out of order.
StoreFollows ==
  AllSent /\ fetch.pc # "answered" /\ causes \cap {"severed", "missed", "overtaken", "overlap"} = {} =>
    shown \in {Unknown, status}
=============================================================================
