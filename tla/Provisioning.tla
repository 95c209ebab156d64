---------------------------- MODULE Provisioning ----------------------------
(***************************************************************************)
(* Motors that come and go: the rows and the credentials of a motor, its   *)
(* registration in the backend's memory, and the simulator, which hears of *)
(* it through one retained message for the last motor added and one for    *)
(* the last motor removed.                                                 *)
(*                                                                         *)
(* createMotor and deleteMotor are cut at their awaits, the simulator's    *)
(* listener at its own.  The thresholds and parameters of a motor are in   *)
(* MotorConfig.  The broker forwards in order what is published while the  *)
(* listener is connected, and keeps nothing else for it than the retained  *)
(* messages: its session is clean.  Queries, publishes and the writing of  *)
(* files may fail, and a write may be cut short: whatever the code does    *)
(* not catch ends the request, or the listener, where it is.               *)
(***************************************************************************)
EXTENDS Naturals, FiniteSets, Sequences

CONSTANTS
  Builtin,      \* motors 1..Builtin are in the simulator's own list (15)
  MaxMotors,    \* bound on the motors ever created
  Slots,        \* requests under way
  MaxRequests,  \* bound on the requests
  MaxMishaps    \* bound on restarts, lost connections and what fails

ASSUME MotorsAssumption == Builtin \in Nat /\ MaxMotors \in Nat /\ Builtin <= MaxMotors
ASSUME LimitsAssumption == MaxRequests \in Nat /\ MaxMishaps \in Nat

VARIABLES
  row,         \* database: motors and their deletedAt
  passwords,   \* the broker's password_file: the motors with a line in it
  acls,        \* the broker's acl_file: the motors with a block in it
  registered,  \* memory: lookups and evaluation maps of the backend
  request,     \* the requests under way
  retained,    \* broker: the retained message of each topic
  queue,       \* broker: what it has still to forward to the simulator
  online,      \* simulator: the listener is subscribed
  handling,    \* simulator: the message the listener is at
  active,      \* simulator: the motors that run
  csv,         \* simulator: the file of the motors that were added
  damaged,     \* simulator: a line was cut so that load_hot_motors cannot read the file
  requests, mishaps,
  causes,      \* history: what has disturbed the simulator's listener
  displaced,   \* history: motors whose retained message was overwritten or cleared by another's
  parted,      \* history: motors with a request that failed, was cut off or overlapped another
  cut          \* history: motors of which a failed write of the simulator's file may have lost the line

files     == <<passwords, acls>>
backend   == <<row, files, registered, request>>
broker    == <<retained, queue>>
disk      == <<csv, damaged>>
simulator == <<online, handling, active, disk>>
history   == <<causes, displaced, parted, cut>>
budget    == <<requests, mishaps>>
vars      == <<backend, broker, simulator, budget, history>>

Motors  == 1..MaxMotors
NoMotor == 0
Topics  == {"added", "removed"}
Labels  == {"provision", "register", "publishAdded",
            "softDelete", "unregister", "publishRemoved", "deprovision"}

Message == [topic : Topics, motor : Motors]
Idle    == [pc |-> "idle"]
Nothing == [stage |-> "none"]
Ended   == [stage |-> "ended"]

Live == {m \in Motors : row[m] = "live"}

Init ==
  /\ row = [m \in Motors |-> IF m <= Builtin THEN "live" ELSE "none"]
  /\ passwords = Live /\ acls = Live /\ registered = Live
  /\ request = [s \in Slots |-> Idle]
  /\ retained = [t \in Topics |-> NoMotor] /\ queue = <<>>
  /\ online = TRUE /\ handling = Nothing
  /\ active = 1..Builtin /\ csv = {} /\ damaged = FALSE
  /\ requests = 0 /\ mishaps = 0
  /\ causes = {} /\ displaced = {} /\ parted = {} /\ cut = {}

Mishap == mishaps < MaxMishaps /\ mishaps' = mishaps + 1

\* A file that is rewritten in place and fails: as it was, when it could not be read, or a part
\* of what it was to hold.
Remnants(old, new) == {old} \union SUBSET new

-----------------------------------------------------------------------------
(* createMotor and deleteMotor.                                              *)

At(s, label) == request[s].pc = label

Goto(s, label) == request' = [request EXCEPT ![s].pc = label]

Finish(s) == request' = [request EXCEPT ![s] = Idle]

Under(m) == {s \in Slots : request[s].pc # "idle" /\ request[s].motor = m}

Begin(s, label, m) ==
  /\ At(s, "idle") /\ requests < MaxRequests
  /\ requests' = requests + 1
  /\ request' = [request EXCEPT ![s] = [pc |-> label, motor |-> m]]

\* The code is free and the row is inserted: ids are given in ascending order.
CreateMotor(s) ==
  /\ \E m \in Motors :
       /\ row[m] = "none" /\ \A n \in Motors : n < m => row[n] # "none"
       /\ row' = [row EXCEPT ![m] = "live"]
       /\ Begin(s, "provision", m)
  /\ UNCHANGED <<files, registered, broker, simulator, mishaps, history>>

Provision_AclOnly(s) ==
  /\ At(s, "provision")
  /\ acls' = acls \union {request[s].motor}
  /\ Goto(s, "register")
  /\ UNCHANGED <<row, passwords, registered, broker, simulator, budget, history>>

\* provisionMotor: both files are rewritten synchronously.
Provision(s) ==
  /\ At(s, "provision")
  /\ passwords' = passwords \union {request[s].motor}
  /\ acls' = acls \union {request[s].motor}
  /\ Goto(s, "register")
  /\ UNCHANGED <<row, registered, broker, simulator, budget, history>>

\* registerMotor and unregisterMotor of the evaluation.
Registered(m)   == registered \union {m}
Unregistered(m) == registered \ {m}

\* registerMotor has read the sensors, whether or not they are deleted by now.
Register(s) ==
  /\ At(s, "register")
  /\ registered' = Registered(request[s].motor)
  /\ Goto(s, "publishAdded")
  /\ UNCHANGED <<row, files, broker, simulator, budget, history>>

\* Another motor that the topic has retained is overwritten.
Displaces(t, m) == {retained[t]} \ {NoMotor, m}

Publish(t, m) ==
  /\ retained' = [retained EXCEPT ![t] = m]
  /\ queue' = IF online THEN Append(queue, [topic |-> t, motor |-> m]) ELSE queue
  /\ displaced' = displaced \union Displaces(t, m)

PublishAdded(s) ==
  /\ At(s, "publishAdded")
  /\ Publish("added", request[s].motor)
  /\ Finish(s)
  /\ UNCHANGED <<row, files, registered, simulator, budget, causes, parted, cut>>

\* deleteMotor finds the motor.
DeleteMotor(s, m) ==
  /\ m \in Live
  /\ Begin(s, "softDelete", m)
  /\ parted' = IF Under(m) # {} THEN parted \union {m} ELSE parted
  /\ UNCHANGED <<row, files, registered, broker, simulator, mishaps, causes, displaced, cut>>

SoftDelete(s) ==
  /\ At(s, "softDelete")
  /\ row' = [row EXCEPT ![request[s].motor] = "deleted"]
  /\ Goto(s, "unregister")
  /\ UNCHANGED <<files, registered, broker, simulator, budget, history>>

Unregister(s) ==
  /\ At(s, "unregister")
  /\ registered' = Unregistered(request[s].motor)
  /\ Goto(s, "publishRemoved")
  /\ UNCHANGED <<row, files, broker, simulator, budget, history>>

PublishRemoved(s) ==
  /\ At(s, "publishRemoved")
  /\ Publish("removed", request[s].motor)
  /\ Goto(s, "deprovision")
  /\ UNCHANGED <<row, files, registered, simulator, budget, causes, parted, cut>>

Deprovision(s) ==
  /\ At(s, "deprovision")
  /\ passwords' = passwords \ {request[s].motor}
  /\ acls' = acls \ {request[s].motor}
  /\ Finish(s)
  /\ UNCHANGED <<row, registered, broker, simulator, budget, history>>

\* A query of registerMotor, the transaction of deleteMotor or a publish rejects: nothing that
\* comes after it is done, and nothing that came before it is taken back.
CallFails(s) ==
  /\ request[s].pc \in {"register", "publishAdded", "softDelete", "publishRemoved"}
  /\ Mishap
  /\ Finish(s)
  /\ parted' = parted \union {request[s].motor}
  /\ UNCHANGED <<row, files, registered, broker, simulator, requests, causes, displaced, cut>>

\* What is left of the two files, which are written one after the other, by a request that is
\* writing them.
FilesCut(s) ==
  LET m          == request[s].motor
      After(old) == IF At(s, "provision") THEN old \union {m} ELSE old \ {m} IN
  /\ request[s].pc \in {"provision", "deprovision"}
  /\ \/ passwords' \in Remnants(passwords, After(passwords)) /\ acls' = acls
     \/ passwords' = After(passwords) /\ acls' \in Remnants(acls, After(acls))

\* Who lost a line to it.
Bereft == (passwords \ passwords') \union (acls \ acls')

\* A file cannot be read or written: the exception ends the request.
FileFails(s) ==
  /\ FilesCut(s) /\ Mishap
  /\ Finish(s)
  /\ parted' = parted \union {request[s].motor} \union Bereft
  /\ UNCHANGED <<row, registered, broker, simulator, requests, causes, displaced, cut>>

\* The backend restarts: what was under way is left where it was, a file that was being written
\* too, and onModuleInit registers every motor that has sensors, the deleted ones too.
Boot ==
  /\ Mishap
  /\ UNCHANGED files \/ \E s \in Slots : FilesCut(s)
  /\ request' = [s \in Slots |-> Idle]
  /\ registered' = {m \in Motors : row[m] # "none"}
  /\ parted' = parted \union Bereft \union {m \in Motors : Under(m) # {} \/ row[m] = "deleted"}
  /\ UNCHANGED <<row, broker, simulator, requests, causes, displaced, cut>>

-----------------------------------------------------------------------------
(* The simulator: its hot-reload listener.                                   *)

\* save_motor appends a line to the file.
Saved(m) == csv \union {m}

TakesNext(topic) == online /\ handling = Nothing /\ queue # <<>> /\ Head(queue).topic = topic

\* The listener takes the next message. A motor that runs is not added again.
HandleAdded ==
  /\ TakesNext("added")
  /\ LET m == Head(queue).motor IN
     /\ handling' = [stage |-> "clear", message |-> Head(queue)]
     /\ active' = active \union {m}
     /\ csv' = IF m \in active THEN csv ELSE Saved(m)
  /\ queue' = Tail(queue)
  /\ UNCHANGED <<backend, retained, online, damaged, budget, history>>

HandleRemoved_InMemory ==
  /\ TakesNext("removed")
  /\ active' = active \ {Head(queue).motor}
  /\ handling' = [stage |-> "clear", message |-> Head(queue)]
  /\ queue' = Tail(queue)
  /\ UNCHANGED <<backend, retained, online, disk, budget, history>>

\* A motor that runs is cancelled, and the handler waits for its end.
HandleRemoved ==
  /\ TakesNext("removed")
  /\ LET m == Head(queue).motor IN
     /\ active' = active \ {m}
     /\ handling' = [stage |-> IF m \in active THEN "forget" ELSE "clear", message |-> Head(queue)]
  /\ queue' = Tail(queue)
  /\ UNCHANGED <<backend, retained, online, disk, budget, history>>

\* The cancelled task has ended: the motor leaves the file, unless remove_motor stumbles over the
\* damage as well.
Forget ==
  /\ handling.stage = "forget"
  /\ csv' = csv \ {handling.message.motor} \/ (damaged /\ csv' = csv)
  /\ handling' = [handling EXCEPT !.stage = "clear"]
  /\ UNCHANGED <<backend, broker, online, active, damaged, budget, history>>

ClearRetained_Never ==
  /\ handling.stage = "clear"
  /\ handling' = Nothing
  /\ UNCHANGED <<backend, broker, online, active, disk, budget, history>>

\* An empty message replaces the retained one, whichever that is by now. Without a connection
\* the publish fails and the listener goes back to connect.
ClearRetained ==
  /\ handling.stage = "clear"
  /\ handling' = Nothing
  /\ IF online
       THEN /\ retained' = [retained EXCEPT ![handling.message.topic] = NoMotor]
            /\ displaced' = displaced \union Displaces(handling.message.topic, handling.message.motor)
       ELSE UNCHANGED <<retained, displaced>>
  /\ UNCHANGED <<backend, queue, online, active, disk, budget, causes, parted, cut>>

LosesConnection ==
  /\ online /\ Mishap
  /\ online' = FALSE /\ queue' = <<>>
  /\ causes' = causes \union {"severed"}
  /\ UNCHANGED <<backend, retained, handling, active, disk, requests, displaced, parted, cut>>

\* The subscription brings the retained messages, in any order.
Connects ==
  /\ ~online /\ handling = Nothing
  /\ online' = TRUE
  /\ LET kept == {[topic |-> t, motor |-> retained[t]] : t \in {u \in Topics : retained[u] # NoMotor}} IN
     \E order \in [1..Cardinality(kept) -> kept] :
       /\ \A k \in kept : \E i \in DOMAIN order : order[i] = k
       /\ queue' = order
  /\ UNCHANGED <<backend, retained, handling, active, disk, budget, history>>

\* A write of the file that does not get to its end: save_motor's of a line at the end, or
\* remove_motor's, which has truncated the file. A line may be cut in two.
WriteCut(m) ==
  /\ \/ TakesNext("added") /\ m = Head(queue).motor /\ m \notin active /\ csv' \in {csv, Saved(m)}
     \/ handling.stage = "forget" /\ m = handling.message.motor /\ csv' \in Remnants(csv, csv \ {m})
  /\ damaged' \in {damaged, TRUE}
  /\ cut' = IF damaged' THEN Motors ELSE cut \union {m} \union (csv \ csv')

\* Only MqttError is caught: the listener ends for good, and the motors go on.
ListenerFails ==
  /\ \E m \in Motors : WriteCut(m)
  /\ Mishap
  /\ handling' = Ended /\ online' = FALSE /\ queue' = <<>>
  /\ UNCHANGED <<backend, retained, active, requests, causes, displaced, parted>>

Restored_BuiltinOnly == 1..Builtin

\* load_hot_motors: what the file holds at the start of the process; nothing when it is damaged.
HotMotors == IF damaged THEN {} ELSE csv

\* get_motors: the motors of the list and those of the file.
Restored == 1..Builtin \union HotMotors

\* The process ends, perhaps while it writes the file, and starts again; or it does not get past
\* a damaged file, since the error of a missing field (TypeError) is not among those it catches.
SimulatorRestarts ==
  /\ Mishap
  /\ (\E m \in Motors : WriteCut(m)) \/ UNCHANGED <<disk, cut>>
  /\ \/ active' = Restored' /\ handling' = Nothing
     \/ damaged' /\ active' = {} /\ handling' = Ended
  /\ online' = FALSE /\ queue' = <<>>
  /\ causes' = causes \union {"restart"}
  /\ UNCHANGED <<backend, retained, requests, displaced, parted>>

Listener == HandleAdded \/ HandleRemoved \/ Forget \/ ClearRetained \/ Connects

Next ==
  \/ \E s \in Slots :
       \/ CreateMotor(s) \/ Provision(s) \/ Register(s) \/ PublishAdded(s)
       \/ (\E m \in Motors : DeleteMotor(s, m))
       \/ SoftDelete(s) \/ Unregister(s) \/ PublishRemoved(s) \/ Deprovision(s)
       \/ CallFails(s) \/ FileFails(s)
  \/ Boot
  \/ Listener \/ ListenerFails \/ LosesConnection \/ SimulatorRestarts

Spec == Init /\ [][Next]_vars

\* The listener reads its messages and reconnects after five seconds, for as long as it runs.
FairSpec == Spec /\ WF_vars(Listener)

-----------------------------------------------------------------------------

ProvisioningTypeOK ==
  /\ row \in [Motors -> {"none", "live", "deleted"}]
  /\ passwords \subseteq Motors /\ acls \subseteq Motors /\ registered \subseteq Motors
  /\ request \in [Slots -> {Idle} \union [pc : Labels, motor : Motors]]
  /\ retained \in [Topics -> Motors \union {NoMotor}]
  /\ queue \in Seq(Message) /\ online \in BOOLEAN
  /\ handling \in {Nothing, Ended} \union [stage : {"forget", "clear"}, message : Message]
  /\ active \subseteq Motors /\ csv \subseteq Motors /\ damaged \in BOOLEAN
  /\ requests \in 0..MaxRequests /\ mishaps \in 0..MaxMishaps
  /\ causes \subseteq {"severed", "restart"}
  /\ displaced \subseteq Motors /\ parted \subseteq Motors /\ cut \subseteq Motors

Drained == online /\ handling = Nothing /\ queue = <<>>

\* A motor that no request is at has a password, access rights and an evaluation exactly if it
\* exists, and once the listener has read everything it is simulated exactly if it exists,
\* whatever happens to other motors meanwhile. Of what parts the backend's places there is, for
\* each motor: two of its requests at once, a query, publish or file of its request that failed,
\* a restart of the backend in its request or after it was deleted (a deleted motor is registered
\* again), and a credentials file that another motor's request left incomplete. What parts the
\* simulator is a lost connection, a restart and a failed write of its file.
InStep ==
  \A m \in Motors \ parted : Under(m) = {} =>
    /\ m \in Live <=> m \in passwords
    /\ m \in Live <=> m \in acls
    /\ m \in Live <=> m \in registered
    /\ causes = {} /\ cut = {} /\ Drained => (m \in Live <=> m \in active)

Heralded(t, m) ==
  \/ retained[t] = m
  \/ \E i \in DOMAIN queue : queue[i] = [topic |-> t, motor |-> m]

\* A motor that exists and whose creation got to its end is simulated, or will be: through lost
\* connections, restarts of either side and the end of the listener its announcement is forgotten
\* only when that of another motor took its place or was cleared in its place, or when a failed
\* write of the simulator's file may have lost its line.
AddIsNotForgotten ==
  \A m \in Live \ (displaced \union parted \union cut) :
    Under(m) # {} \/ m \in active \/ Heralded("added", m)

\* The motor that was stopped and is still in the file.
Leaving == IF handling.stage = "forget" THEN {handling.message.motor} ELSE {}

\* A restart of the simulator at any moment brings back the motors that run, and also the one
\* whose removal is under way, stopped but not yet out of the file. Of its own list every motor
\* comes back, and nothing is known of those whose lines a failed or interrupted write of the
\* file may have lost.
RestartKeepsMotors ==
  Restored \ (1..Builtin \union cut) = (active \union Leaving) \ (1..Builtin \union cut)

\* A retained message is read and cleared, so that the simulator does not stay behind for ever,
\* unless a failed write of its file has ended the listener.
RetainedIsServed ==
  \A t \in Topics : retained[t] # NoMotor ~> retained[t] = NoMotor \/ handling = Ended
=============================================================================
