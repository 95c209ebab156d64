------------------------- MODULE ProvisioningProofs -------------------------
(***************************************************************************)
(* Theorems about Provisioning, for any number of motors, requests and     *)
(* mishaps.  Three invariants carry them: one of the simulator's file      *)
(* (FileInv); one for each motor of what its request has done so far       *)
(* (BackendInv) and of what the listener has still to hear (FollowInv);    *)
(* and one of the announcements that the broker retains (AnnouncedInv).    *)
(***************************************************************************)
EXTENDS Provisioning, TLAPS, FiniteSetTheorems

-----------------------------------------------------------------------------
(* Queues and types.                                                         *)

Note(t, m) == [topic |-> t, motor |-> m]

Queued(t, m) == \E i \in 1..Len(queue) : queue[i] = Note(t, m)

\* What a publish adds to the queue of a listener that is connected.
LEMMA PublishQueues ==
  ASSUME queue \in Seq(Message), online, NEW t \in Topics, NEW m \in Motors, Publish(t, m)
  PROVE  /\ queue' \in Seq(Message) /\ Len(queue') = Len(queue) + 1
         /\ \A i \in 1..Len(queue) : queue'[i] = queue[i]
         /\ queue'[Len(queue) + 1] = Note(t, m)
         /\ \A u \in Topics, n \in Motors : Queued(u, n)' <=> Queued(u, n) \/ (u = t /\ n = m)
<1>1. Note(t, m) \in Message /\ queue' = Append(queue, Note(t, m))
  BY DEF Publish, Note, Message
<1>2. /\ queue' \in Seq(Message) /\ Len(queue') = Len(queue) + 1 /\ Len(queue) \in Nat
      /\ \A i \in 1..Len(queue) : queue'[i] = queue[i]
      /\ queue'[Len(queue) + 1] = Note(t, m)
  BY <1>1
<1>3. ASSUME NEW u \in Topics, NEW n \in Motors
      PROVE  Queued(u, n)' <=> Queued(u, n) \/ (u = t /\ n = m)
  <2>1. 1..Len(queue') = 1..Len(queue) \union {Len(queue) + 1}
    BY <1>2
  <2>2. Note(u, n) = Note(t, m) <=> u = t /\ n = m
    BY DEF Note
  <2>3. Note(u, n)' = Note(u, n)
    BY DEF Note
  <2>4. Queued(u, n)' <=> \E i \in 1..Len(queue) \union {Len(queue) + 1} : queue'[i] = Note(u, n)
    BY <2>1, <2>3 DEF Queued
  <2>5. QED
    BY <1>2, <2>2, <2>4 DEF Queued
<1>4. QED
  BY <1>2, <1>3

\* What is left when the listener has taken a message.
LEMMA TakeQueues ==
  ASSUME queue \in Seq(Message), queue # <<>>, queue' = Tail(queue)
  PROVE  /\ queue' \in Seq(Message) /\ Head(queue) \in Message
         /\ Len(queue') = Len(queue) - 1 /\ \A i \in 1..Len(queue') : queue'[i] = queue[i + 1]
         /\ \A u \in Topics, n \in Motors :
              Queued(u, n) <=> Queued(u, n)' \/ Head(queue) = Note(u, n)
<1>1. /\ queue' \in Seq(Message) /\ Head(queue) \in Message /\ Head(queue) = queue[1]
      /\ Len(queue) \in Nat \ {0} /\ Len(queue') = Len(queue) - 1
      /\ \A i \in 1..Len(queue') : queue'[i] = queue[i + 1]
  OBVIOUS
<1>2. ASSUME NEW u \in Topics, NEW n \in Motors
      PROVE  Queued(u, n) <=> Queued(u, n)' \/ Head(queue) = Note(u, n)
  <2>1. Note(u, n)' = Note(u, n)
    BY DEF Note
  <2>2. Queued(u, n)' => Queued(u, n)
    BY <1>1, <2>1 DEF Queued
  <2>3. Head(queue) = Note(u, n) => Queued(u, n)
    BY <1>1 DEF Queued
  <2>4. ASSUME NEW i \in 1..Len(queue), i # 1, queue[i] = Note(u, n) PROVE Queued(u, n)'
    <3>1. i - 1 \in 1..Len(queue') /\ queue'[i - 1] = queue[i]
      BY <1>1, <2>4
    <3>2. QED
      BY <3>1, <2>1, <2>4 DEF Queued
  <2>5. QED
    BY <1>1, <2>2, <2>3, <2>4 DEF Queued
<1>3. QED
  BY <1>1, <1>2

\* What the subscription brings is what is retained.
LEMMA KeptQueue ==
  ASSUME retained \in [Topics -> Motors \union {NoMotor}], Connects
  PROVE  /\ queue' \in Seq(Message)
         /\ \A i \in 1..Len(queue') : queue'[i].motor = retained[queue'[i].topic]
<1> DEFINE x == [topic |-> "added", motor |-> retained["added"]]
           y == [topic |-> "removed", motor |-> retained["removed"]]
           kept == {[topic |-> t, motor |-> retained[t]] : t \in {u \in Topics : retained[u] # NoMotor}}
<1>1. kept \subseteq {x, y}
  BY DEF Topics
<1>2. IsFiniteSet({x, y})
  <2>1. IsFiniteSet({})
    BY FS_EmptySet
  <2>2. IsFiniteSet({} \union {x})
    BY <2>1, FS_AddElement
  <2>3. IsFiniteSet(({} \union {x}) \union {y})
    BY <2>2, FS_AddElement
  <2>4. {x, y} = ({} \union {x}) \union {y}
    OBVIOUS
  <2>5. QED
    BY <2>3, <2>4
<1>3. IsFiniteSet(kept)
  BY <1>1, <1>2, FS_Subset
<1>4. Cardinality(kept) \in Nat
  BY <1>3, FS_CardinalityType
<1>5. queue' \in [1..Cardinality(kept) -> kept]
  BY DEF Connects
<1>6. \A k \in kept : k \in Message /\ k.motor = retained[k.topic]
  BY DEF Message, Topics
<1> HIDE DEF kept
<1>7. queue' \in Seq(kept)
  BY <1>4, <1>5
<1>8. QED
  BY <1>6, <1>7

\* A slot is idle or names the motor that it works on.
LEMMA SlotTyped ==
  ASSUME ProvisioningTypeOK, NEW s \in Slots
  PROVE  \/ request[s] = Idle /\ request[s].pc = "idle"
         \/ /\ request[s] # Idle /\ request[s].pc # "idle"
            /\ request[s].pc \in Labels /\ request[s].motor \in Motors
            /\ request[s] \in [pc : Labels, motor : Motors]
BY DEF ProvisioningTypeOK, Idle, Labels

LEMMA TypeInit == Init => ProvisioningTypeOK
<1> SUFFICES ASSUME Init PROVE ProvisioningTypeOK
  OBVIOUS
<1>1. 1..Builtin \subseteq Motors
  BY MotorsAssumption DEF Motors
<1>2. requests \in 0..MaxRequests /\ mishaps \in 0..MaxMishaps
  BY LimitsAssumption DEF Init
<1>3. queue \in Seq(Message)
  BY DEF Init
<1>4. QED
  BY <1>1, <1>2, <1>3 DEF Init, ProvisioningTypeOK, Live

\* The broker and the listener.
BrokerTyped ==
  /\ retained \in [Topics -> Motors \union {NoMotor}]
  /\ queue \in Seq(Message) /\ online \in BOOLEAN
  /\ handling \in {Nothing, Ended} \union [stage : {"forget", "clear"}, message : Message]
  /\ active \subseteq Motors /\ csv \subseteq Motors /\ damaged \in BOOLEAN

\* The rest.
OthersTyped ==
  /\ row \in [Motors -> {"none", "live", "deleted"}]
  /\ passwords \subseteq Motors /\ acls \subseteq Motors /\ registered \subseteq Motors
  /\ request \in [Slots -> {Idle} \union [pc : Labels, motor : Motors]]
  /\ requests \in 0..MaxRequests /\ mishaps \in 0..MaxMishaps
  /\ causes \subseteq {"severed", "restart"}
  /\ displaced \subseteq Motors /\ parted \subseteq Motors /\ cut \subseteq Motors

LEMMA CountsTyped ==
  ASSUME ProvisioningTypeOK
  PROVE  /\ requests < MaxRequests => requests + 1 \in 0..MaxRequests
         /\ Mishap => mishaps' \in 0..MaxMishaps
BY LimitsAssumption DEF ProvisioningTypeOK, Mishap

\* A message that the queue holds is about a motor.
LEMMA HeadTyped ==
  ASSUME ProvisioningTypeOK, NEW topic, TakesNext(topic)
  PROVE  /\ Head(queue) \in Message /\ Head(queue).motor \in Motors /\ Tail(queue) \in Seq(Message)
<1>1. queue \in Seq(Message) /\ queue # <<>>
  BY DEF ProvisioningTypeOK, TakesNext
<1>2. Head(queue) \in Message /\ Tail(queue) \in Seq(Message)
  BY <1>1
<1>3. QED
  BY <1>2 DEF Message

LEMMA DisplacedTyped ==
  ASSUME ProvisioningTypeOK, NEW t \in Topics, NEW m
  PROVE  Displaces(t, m) \subseteq Motors
BY DEF ProvisioningTypeOK, Displaces

LEMMA PublishTyped ==
  ASSUME ProvisioningTypeOK, NEW t \in Topics, NEW m \in Motors, Publish(t, m)
  PROVE  /\ retained' \in [Topics -> Motors \union {NoMotor}] /\ queue' \in Seq(Message)
         /\ displaced' \subseteq Motors
<1>1. queue' \in Seq(Message)
  <2>1. CASE online
    BY <2>1, PublishQueues DEF ProvisioningTypeOK
  <2>2. CASE ~online
    BY <2>2 DEF Publish, ProvisioningTypeOK
  <2>3. QED
    BY <2>1, <2>2
<1>2. QED
  BY <1>1, DisplacedTyped DEF Publish, ProvisioningTypeOK

LEMMA WriteCutTyped ==
  ASSUME ProvisioningTypeOK, NEW m \in Motors, WriteCut(m)
  PROVE  csv' \subseteq Motors /\ damaged' \in BOOLEAN /\ cut' \subseteq Motors
BY DEF WriteCut, ProvisioningTypeOK, Saved, Remnants

LEMMA TypeInductive == ProvisioningTypeOK /\ [Next]_vars => ProvisioningTypeOK'
<1> SUFFICES ASSUME ProvisioningTypeOK, [Next]_vars PROVE BrokerTyped' /\ OthersTyped'
  BY DEF ProvisioningTypeOK, BrokerTyped, OthersTyped
<1>0. BrokerTyped /\ OthersTyped
  BY DEF ProvisioningTypeOK, BrokerTyped, OthersTyped
<1>1. ASSUME UNCHANGED <<broker, simulator>> PROVE BrokerTyped'
  BY <1>0, <1>1 DEF BrokerTyped, broker, simulator, disk
<1>2. ASSUME UNCHANGED <<backend, budget, history>> PROVE OthersTyped'
  BY <1>0, <1>2 DEF OthersTyped, backend, files, budget, history
<1>3. ASSUME NEW s \in Slots, CreateMotor(s) \/ \E m \in Motors : DeleteMotor(s, m)
      PROVE  BrokerTyped' /\ OthersTyped'
  <2>1. UNCHANGED <<broker, simulator>>
    BY <1>3 DEF CreateMotor, DeleteMotor
  <2>2. OthersTyped'
    <3>1. PICK m \in Motors, label \in {"provision", "softDelete"} :
            /\ Begin(s, label, m) /\ row' \in {row, [row EXCEPT ![m] = "live"]}
            /\ parted' \in {parted, parted \union {m}}
      BY <1>3 DEF CreateMotor, DeleteMotor, history
    <3>2. [pc |-> label, motor |-> m] \in [pc : Labels, motor : Motors]
      BY DEF Labels
    <3>3. requests' \in 0..MaxRequests /\ request' \in [Slots -> {Idle} \union [pc : Labels, motor : Motors]]
      BY <1>0, <3>1, <3>2, CountsTyped DEF Begin, OthersTyped
    <3>4. UNCHANGED <<files, registered, mishaps, causes, displaced, cut>>
      BY <1>3 DEF CreateMotor, DeleteMotor, history
    <3>5. QED
      BY <1>0, <3>1, <3>3, <3>4 DEF OthersTyped, files
  <2>3. QED
    BY <1>1, <2>1, <2>2
<1>4. ASSUME NEW s \in Slots, request[s].pc # "idle",
             \/ Provision(s) \/ Register(s) \/ SoftDelete(s) \/ Unregister(s) \/ Deprovision(s)
      PROVE  BrokerTyped' /\ OthersTyped'
  <2>1. UNCHANGED <<broker, simulator>> /\ request[s].motor \in Motors /\ request[s] \in [pc : Labels, motor : Motors]
    BY <1>4, SlotTyped DEF Provision, Register, SoftDelete, Unregister, Deprovision
  <2>2. OthersTyped'
    <3>1. request' \in [Slots -> {Idle} \union [pc : Labels, motor : Motors]]
      BY <1>0, <1>4, <2>1 DEF Provision, Register, SoftDelete, Unregister, Deprovision, Goto, Finish,
                              OthersTyped, Labels
    <3>2. /\ row' \in [Motors -> {"none", "live", "deleted"}]
          /\ passwords' \subseteq Motors /\ acls' \subseteq Motors /\ registered' \subseteq Motors
      BY <1>0, <1>4, <2>1 DEF Provision, Register, Registered, SoftDelete, Unregister, Unregistered,
                              Deprovision, OthersTyped, files
    <3>3. UNCHANGED <<budget, history>>
      BY <1>4 DEF Provision, Register, SoftDelete, Unregister, Deprovision
    <3>4. QED
      BY <1>0, <3>1, <3>2, <3>3 DEF OthersTyped, budget, history
  <2>3. QED
    BY <1>1, <2>1, <2>2
<1>5. ASSUME NEW s \in Slots, request[s].pc # "idle", PublishAdded(s) \/ PublishRemoved(s)
      PROVE  BrokerTyped' /\ OthersTyped'
  <2>1. request[s].motor \in Motors /\ request[s] \in [pc : Labels, motor : Motors]
    BY <1>5, SlotTyped
  <2>2. /\ retained' \in [Topics -> Motors \union {NoMotor}] /\ queue' \in Seq(Message)
        /\ displaced' \subseteq Motors
    BY <1>5, <2>1, PublishTyped DEF PublishAdded, PublishRemoved, Topics
  <2>3. OthersTyped'
    BY <1>0, <1>5, <2>1, <2>2 DEF PublishAdded, PublishRemoved, Goto, Finish, OthersTyped, Labels, files, budget
  <2>4. QED
    BY <1>0, <1>5, <2>2, <2>3 DEF PublishAdded, PublishRemoved, BrokerTyped, simulator, disk
<1>6. ASSUME NEW s \in Slots, CallFails(s) \/ FileFails(s) PROVE BrokerTyped' /\ OthersTyped'
  <2>1. request[s].motor \in Motors /\ UNCHANGED <<broker, simulator>> /\ mishaps' \in 0..MaxMishaps
    BY <1>6, SlotTyped, CountsTyped DEF CallFails, FileFails, FilesCut
  <2>2. passwords' \subseteq Motors /\ acls' \subseteq Motors
    BY <1>0, <1>6, <2>1 DEF CallFails, FileFails, FilesCut, Remnants, OthersTyped, files
  <2>3. QED
    BY <1>0, <1>1, <1>6, <2>1, <2>2 DEF CallFails, FileFails, Finish, Bereft, OthersTyped
<1>7. CASE Boot
  <2>1. UNCHANGED <<broker, simulator>> /\ mishaps' \in 0..MaxMishaps
    BY <1>7, CountsTyped DEF Boot
  <2>2. passwords' \subseteq Motors /\ acls' \subseteq Motors
    BY <1>0, <1>7, SlotTyped DEF Boot, FilesCut, Remnants, OthersTyped, files
  <2>3. QED
    BY <1>0, <1>1, <1>7, <2>1, <2>2 DEF Boot, Bereft, OthersTyped
<1>8. CASE HandleAdded \/ HandleRemoved
  <2>1. /\ Head(queue) \in Message /\ Head(queue).motor \in Motors /\ Tail(queue) \in Seq(Message)
    BY <1>8, HeadTyped DEF HandleAdded, HandleRemoved
  <2>2. OthersTyped'
    BY <1>2, <1>8 DEF HandleAdded, HandleRemoved
  <2>3. QED
    BY <1>0, <1>8, <2>1, <2>2 DEF HandleAdded, HandleRemoved, Saved, BrokerTyped, disk
<1>9. CASE Forget
  <2>1. OthersTyped' /\ handling \in [stage : {"forget", "clear"}, message : Message]
    BY <1>0, <1>2, <1>9 DEF Forget, BrokerTyped, Nothing, Ended
  <2>2. handling' \in [stage : {"forget", "clear"}, message : Message]
    BY <1>9, <2>1 DEF Forget
  <2>3. QED
    BY <1>0, <1>9, <2>1, <2>2 DEF Forget, BrokerTyped, broker
<1>10. CASE ClearRetained
  <2>1. handling.message \in Message /\ handling.message.topic \in Topics
    BY <1>0, <1>10 DEF ClearRetained, BrokerTyped, Nothing, Ended, Message
  <2>2. Displaces(handling.message.topic, handling.message.motor) \subseteq Motors
    BY <2>1, DisplacedTyped
  <2>3. OthersTyped'
    BY <1>0, <1>10, <2>2 DEF ClearRetained, OthersTyped, backend, files, budget
  <2>4. QED
    BY <1>0, <1>10, <2>3 DEF ClearRetained, BrokerTyped, disk
<1>11. CASE Connects
  <2>1. queue' \in Seq(Message)
    BY <1>0, <1>11, KeptQueue DEF BrokerTyped
  <2>2. QED
    BY <1>0, <1>2, <1>11, <2>1 DEF Connects, BrokerTyped, disk
<1>12. CASE ListenerFails \/ LosesConnection \/ SimulatorRestarts
  <2>1. mishaps' \in 0..MaxMishaps /\ UNCHANGED <<backend, retained, requests, displaced, parted>>
    BY <1>12, CountsTyped DEF ListenerFails, LosesConnection, SimulatorRestarts
  <2>2. /\ csv' \subseteq Motors /\ damaged' \in BOOLEAN /\ cut' \subseteq Motors
    <3>1. (\E m \in Motors : WriteCut(m)) \/ UNCHANGED <<csv, damaged, cut>>
      BY <1>12 DEF ListenerFails, LosesConnection, SimulatorRestarts, disk
    <3>2. QED
      BY <1>0, <3>1, WriteCutTyped DEF BrokerTyped, OthersTyped
  <2>3. active' \subseteq Motors
    <3>1. Restored' \subseteq Motors
      <4>1. 1..Builtin \subseteq Motors
        BY MotorsAssumption DEF Motors
      <4>2. HotMotors' \subseteq Motors
        BY <2>2 DEF HotMotors
      <4>3. Restored' = 1..Builtin \union HotMotors'
        BY DEF Restored
      <4>4. QED
        BY <4>1, <4>2, <4>3
    <3>2. active' = active \/ active' = {} \/ active' = Restored'
      BY <1>12 DEF ListenerFails, LosesConnection, SimulatorRestarts
    <3>3. QED
      BY <1>0, <3>1, <3>2 DEF BrokerTyped
  <2>4. queue' = <<>> /\ causes' \subseteq {"severed", "restart"} /\ online' = FALSE
    <3>1. causes' = causes \/ causes' = causes \union {"severed"} \/ causes' = causes \union {"restart"}
      BY <1>12 DEF ListenerFails, LosesConnection, SimulatorRestarts
    <3>2. queue' = <<>> /\ online' = FALSE
      BY <1>12 DEF ListenerFails, LosesConnection, SimulatorRestarts
    <3>3. QED
      BY <1>0, <3>1, <3>2 DEF OthersTyped
  <2>5. handling' \in {handling, Nothing, Ended}
    BY <1>12 DEF ListenerFails, LosesConnection, SimulatorRestarts
  <2>6. queue' \in Seq(Message)
    BY <2>4
  <2>7. BrokerTyped'
    BY <1>0, <2>1, <2>2, <2>3, <2>4, <2>5, <2>6 DEF BrokerTyped
  <2>8. OthersTyped'
    BY <1>0, <2>1, <2>2, <2>4 DEF OthersTyped, backend, files
  <2>9. QED
    BY <2>7, <2>8
<1>13. CASE UNCHANGED vars
  BY <1>1, <1>2, <1>13 DEF vars
<1>14. QED
  BY <1>3, <1>4, <1>5, <1>6, <1>7, <1>8, <1>9, <1>10, <1>11, <1>12, <1>13
  DEF Next, Listener, At, Provision, Register, SoftDelete, Unregister, Deprovision, PublishAdded, PublishRemoved

\* Every variable stays within its type (ProvisioningTypeOK).
THEOREM TypeCorrect == Spec => []ProvisioningTypeOK
BY TypeInit, TypeInductive, PTL DEF Spec

-----------------------------------------------------------------------------
(* The file of the simulator.                                                *)

Excused == 1..Builtin \union cut

\* Apart from the motor it is about to forget the file names the motors that run, those of the
\* simulator's own list aside and those whose lines may be lost.
FileInv ==
  /\ damaged => cut = Motors
  /\ handling.stage = "forget" => handling.message.motor \notin active
  /\ csv \ Excused = (active \union Leaving) \ Excused

LEMMA FileInit == Init => FileInv
BY DEF Init, FileInv, Nothing, Leaving, Excused

\* A write of the file that does not get to its end touches no line but those it may have lost.
LEMMA WriteCutKeeps ==
  ASSUME ProvisioningTypeOK, FileInv, NEW m \in Motors, WriteCut(m)
  PROVE  /\ cut \subseteq cut' /\ m \in cut'
         /\ damaged' => cut' = Motors
         /\ Leaving \subseteq {m}
         /\ \A n \in Motors \ cut' : n \in csv' <=> n \in csv
<1>1. cut' = IF damaged' THEN Motors ELSE cut \union {m} \union (csv \ csv')
  BY DEF WriteCut
<1>2. csv' \subseteq csv \union {m}
  BY DEF WriteCut, Saved, Remnants
<1>3. Leaving \subseteq {m}
  BY DEF WriteCut, TakesNext, Leaving, Nothing
<1>4. QED
  BY <1>1, <1>2, <1>3 DEF ProvisioningTypeOK

\* Only the listener's handlers, what cuts a write and a restart touch what the invariant is about.
LEMMA FileInductive == ProvisioningTypeOK /\ FileInv /\ [Next]_vars => FileInv'
<1> SUFFICES ASSUME ProvisioningTypeOK, FileInv, [Next]_vars PROVE FileInv'
  OBVIOUS
<1> DEFINE m == Head(queue).motor
<1>1. CASE HandleAdded
  <2>1. /\ handling = Nothing /\ Nothing.stage = "none"
        /\ handling' = [stage |-> "clear", message |-> Head(queue)]
        /\ active' = active \union {m}
        /\ csv' = IF m \in active THEN csv ELSE csv \union {m}
    BY <1>1 DEF HandleAdded, TakesNext, Saved, Nothing
  <2>2. handling'.stage = "clear" /\ damaged' = damaged /\ cut' = cut
    BY <1>1, <2>1 DEF HandleAdded, history
  <2>3. Leaving = {} /\ Leaving' = {} /\ Excused' = Excused
    BY <2>1, <2>2 DEF Leaving, Excused
  <2> HIDE DEF m
  <2>4. QED
    BY <2>1, <2>2, <2>3 DEF FileInv
<1>2. CASE HandleRemoved
  <2>1. /\ handling = Nothing /\ Nothing.stage = "none"
        /\ csv' = csv /\ damaged' = damaged /\ cut' = cut /\ active' = active \ {m}
        /\ handling'.stage = (IF m \in active THEN "forget" ELSE "clear") /\ handling'.message.motor = m
    BY <1>2 DEF HandleRemoved, TakesNext, disk, history, Nothing
  <2>2. Leaving = {} /\ Leaving' = (IF m \in active THEN {m} ELSE {}) /\ Excused' = Excused
    BY <2>1 DEF Leaving, Excused
  <2> HIDE DEF m
  <2>3. QED
    BY <2>1, <2>2 DEF FileInv
<1>3. CASE Forget
  <2>1. /\ handling.stage = "forget" /\ active' = active /\ damaged' = damaged /\ cut' = cut
        /\ csv' = csv \ {handling.message.motor} \/ damaged
        /\ handling' = [handling EXCEPT !.stage = "clear"]
    BY <1>3 DEF Forget, history
  <2>2. handling \in [stage : {"forget", "clear"}, message : Message]
    BY <2>1 DEF ProvisioningTypeOK, Nothing, Ended
  <2>3. handling'.stage = "clear"
    BY <2>1, <2>2
  <2>4. Leaving = {handling.message.motor} /\ Leaving' = {} /\ Excused' = Excused
    BY <2>1, <2>3 DEF Leaving, Excused
  <2>5. damaged => csv' \ Excused = {} /\ active \ Excused = {}
    BY <1>3 DEF FileInv, ProvisioningTypeOK, Forget, Excused
  <2>6. QED
    BY <2>1, <2>3, <2>4, <2>5 DEF FileInv
<1>4. CASE ClearRetained
  <2>1. /\ handling.stage = "clear" /\ handling' = Nothing /\ Nothing.stage = "none"
        /\ UNCHANGED <<csv, damaged, active, cut>>
    BY <1>4 DEF ClearRetained, disk, Nothing
  <2>2. Leaving = {} /\ Leaving' = {} /\ Excused' = Excused
    BY <2>1 DEF Leaving, Excused
  <2>3. QED
    BY <2>1, <2>2 DEF FileInv
<1>5. CASE ListenerFails
  <2>1. PICK n \in Motors : WriteCut(n)
    BY <1>5 DEF ListenerFails
  <2>2. handling' = Ended /\ Ended.stage = "ended" /\ active' = active
    BY <1>5 DEF ListenerFails, Ended
  <2>3. Leaving' = {}
    BY <2>2 DEF Leaving
  <2>4. /\ cut \subseteq cut' /\ n \in cut'
        /\ damaged' => cut' = Motors
        /\ Leaving \subseteq {n}
        /\ \A k \in Motors \ cut' : k \in csv' <=> k \in csv
    BY <2>1, WriteCutKeeps
  <2>5. csv' \subseteq Motors /\ csv \subseteq Motors /\ active \subseteq Motors
    BY <2>1, WriteCutTyped DEF ProvisioningTypeOK
  <2>6. ASSUME NEW k \in Motors, k \notin Excused' PROVE k \in csv' <=> k \in active'
    <3>1. k \notin 1..Builtin /\ k \notin cut'
      BY <2>6 DEF Excused
    <3>2. k \notin Excused /\ k \notin Leaving /\ (k \in csv' <=> k \in csv)
      BY <2>4, <3>1 DEF Excused
    <3>3. QED
      BY <2>2, <3>2 DEF FileInv
  <2>7. csv' \ Excused' = (active' \union Leaving') \ Excused'
    BY <2>2, <2>3, <2>5, <2>6
  <2>8. handling'.stage # "forget" /\ (damaged' => cut' = Motors)
    BY <2>2, <2>4
  <2>9. QED
    BY <2>7, <2>8 DEF FileInv
<1>6. CASE SimulatorRestarts
  <2>1. /\ (\E n \in Motors : WriteCut(n)) \/ UNCHANGED <<csv, damaged, cut>>
        /\ \/ active' = Restored' /\ handling' = Nothing
           \/ damaged' /\ active' = {} /\ handling' = Ended
    BY <1>6 DEF SimulatorRestarts, disk
  <2>2. damaged' => cut' = Motors
    <3>1. CASE \E n \in Motors : WriteCut(n)
      BY <3>1 DEF WriteCut
    <3>2. CASE UNCHANGED <<csv, damaged, cut>>
      BY <3>2 DEF FileInv
    <3>3. QED
      BY <2>1, <3>1, <3>2
  <2>3. csv' \subseteq Motors /\ damaged' \in BOOLEAN
    BY <2>1, WriteCutTyped DEF ProvisioningTypeOK
  <2>4. Restored' = 1..Builtin \union IF damaged' THEN {} ELSE csv'
    BY DEF Restored, HotMotors
  <2>5. handling'.stage # "forget"
    BY <2>1 DEF Nothing, Ended
  <2>6. Leaving' = {}
    BY <2>5 DEF Leaving
  <2>7. 1..Builtin \subseteq Motors
    BY MotorsAssumption DEF Motors
  <2>8. CASE damaged'
    BY <2>1, <2>2, <2>3, <2>4, <2>5, <2>6, <2>7, <2>8 DEF FileInv, Excused
  <2>9. CASE ~damaged'
    BY <2>1, <2>3, <2>4, <2>5, <2>6, <2>9 DEF FileInv, Excused
  <2>10. QED
    BY <2>8, <2>9
<1>7. CASE UNCHANGED <<handling, active, csv, damaged, cut>>
  BY <1>7 DEF FileInv, Leaving, Excused
<1>8. Next \/ UNCHANGED vars =>
        \/ HandleAdded \/ HandleRemoved \/ Forget \/ ClearRetained \/ ListenerFails \/ SimulatorRestarts
        \/ UNCHANGED <<handling, active, csv, damaged, cut>>
  BY DEF Next, vars, simulator, disk, history, Listener, CreateMotor, Provision, Register, PublishAdded, DeleteMotor,
         SoftDelete, Unregister, PublishRemoved, Deprovision, CallFails, FileFails, Boot, LosesConnection, Connects
<1>9. QED
  BY <1>1, <1>2, <1>3, <1>4, <1>5, <1>6, <1>7, <1>8

\* A restart of the simulator brings back the motors that run and the one that is just being
\* removed (RestartKeepsMotors), whatever the listener was at and whoever else was at work; the
\* simulator's own list and motors whose line a failed write may have lost are not spoken of.
THEOREM RestartKeeps == Spec => []RestartKeepsMotors
<1>1. ProvisioningTypeOK /\ FileInv => RestartKeepsMotors
  <2> SUFFICES ASSUME ProvisioningTypeOK, FileInv PROVE Restored \ Excused = (active \union Leaving) \ Excused
    BY DEF RestartKeepsMotors, Excused
  <2>1. CASE ~damaged
    BY <2>1 DEF FileInv, Restored, HotMotors, Excused
  <2>2. CASE damaged
    BY <2>2 DEF FileInv, Restored, HotMotors, Excused, ProvisioningTypeOK
  <2>3. QED
    BY <2>1, <2>2
<1>2. QED
  BY TypeInit, TypeInductive, FileInit, FileInductive, <1>1, PTL DEF Spec

-----------------------------------------------------------------------------
(* Rows, credentials and registrations.                                      *)

Gone == {"unregister", "publishRemoved", "deprovision"}

\* The request under way tells which of its writes are done.
Halfway(s, m) ==
  LET pc == request[s].pc IN
  /\ row[m] = IF pc \in Gone THEN "deleted" ELSE "live"
  /\ m \in passwords <=> pc # "provision"
  /\ m \in acls <=> pc # "provision"
  /\ m \in registered <=> pc \in {"publishAdded", "softDelete", "unregister"}

Complete(m) ==
  /\ row[m] = "live" <=> m \in passwords
  /\ row[m] = "live" <=> m \in acls
  /\ row[m] = "live" <=> m \in registered

\* One request at a time works on a motor, and what it has done so far is known; a motor that no
\* request works on is complete or gone.
Kept(m) ==
  /\ \A s, u \in Under(m) : s = u
  /\ \A s \in Under(m) : Halfway(s, m)
  /\ Under(m) = {} => Complete(m)

BackendInv == \A m \in Motors \ parted : Kept(m)

\* Whose requests are under way after a step of one of them.
LEMMA UnderMoves ==
  ASSUME ProvisioningTypeOK, NEW s \in Slots, NEW m \in Motors
  PROVE  /\ request[s].pc # "idle" => (s \in Under(m) <=> request[s].motor = m)
         /\ \A label \in Labels : request[s].pc # "idle" /\ Goto(s, label) =>
              /\ Under(m)' = Under(m) /\ request'[s].pc = label /\ request'[s].motor = request[s].motor
              /\ \A u \in Slots \ {s} : request'[u] = request[u]
         /\ Finish(s) => /\ Under(m)' = Under(m) \ {s}
                         /\ \A u \in Slots \ {s} : request'[u] = request[u]
         /\ \A label \in Labels, n \in Motors : Begin(s, label, n) =>
              /\ s \notin Under(m) /\ Under(m)' = (IF n = m THEN Under(m) \union {s} ELSE Under(m))
              /\ request'[s].pc = label /\ request'[s].motor = n
              /\ \A u \in Slots \ {s} : request'[u] = request[u]
<1>1. request[s].pc # "idle" => (s \in Under(m) <=> request[s].motor = m)
  BY DEF Under
<1>2. ASSUME NEW label \in Labels, request[s].pc # "idle", Goto(s, label)
      PROVE  /\ Under(m)' = Under(m) /\ request'[s].pc = label /\ request'[s].motor = request[s].motor
             /\ \A u \in Slots \ {s} : request'[u] = request[u]
  <2>1. request[s] \in [pc : Labels, motor : Motors] /\ label # "idle"
    BY <1>2, SlotTyped DEF Labels
  <2>2. request'[s].pc = label /\ request'[s].motor = request[s].motor /\ \A u \in Slots \ {s} : request'[u] = request[u]
    BY <1>2, <2>1 DEF Goto, ProvisioningTypeOK
  <2>3. QED
    BY <1>2, <2>1, <2>2 DEF Under
<1>3. ASSUME Finish(s)
      PROVE  Under(m)' = Under(m) \ {s} /\ \A u \in Slots \ {s} : request'[u] = request[u]
  <2>1. request'[s].pc = "idle" /\ \A u \in Slots \ {s} : request'[u] = request[u]
    BY <1>3 DEF Finish, ProvisioningTypeOK, Idle
  <2>2. QED
    BY <2>1 DEF Under
<1>4. ASSUME NEW label \in Labels, NEW n \in Motors, Begin(s, label, n)
      PROVE  /\ s \notin Under(m) /\ Under(m)' = (IF n = m THEN Under(m) \union {s} ELSE Under(m))
             /\ request'[s].pc = label /\ request'[s].motor = n
             /\ \A u \in Slots \ {s} : request'[u] = request[u]
  <2>1. /\ request[s].pc = "idle" /\ label # "idle"
        /\ request'[s].pc = label /\ request'[s].motor = n /\ \A u \in Slots \ {s} : request'[u] = request[u]
    BY <1>4 DEF Begin, At, ProvisioningTypeOK, Labels
  <2>2. QED
    BY <2>1 DEF Under
<1>5. QED
  BY <1>1, <1>2, <1>3, <1>4

\* A step that is about another motor.
LEMMA Untouched ==
  ASSUME NEW m \in Motors, Kept(m), Under(m)' = Under(m), \A u \in Under(m) : request'[u] = request[u],
         row'[m] = row[m], m \in passwords' <=> m \in passwords, m \in acls' <=> m \in acls,
         m \in registered' <=> m \in registered
  PROVE  Kept(m)'
BY DEF Kept, Halfway, Complete

LEMMA BackendInit == Init => BackendInv
<1> SUFFICES ASSUME Init, NEW m \in Motors PROVE Kept(m)
  BY DEF BackendInv
<1>1. Under(m) = {}
  BY DEF Init, Under, Idle
<1>2. Complete(m)
  BY DEF Init, Complete, Live
<1>3. QED
  BY <1>1, <1>2 DEF Kept

\* No motor is forgiven.
LEMMA PartedGrows == [Next]_vars => parted \subseteq parted'
BY DEF Next, CreateMotor, Provision, Register, PublishAdded, DeleteMotor, SoftDelete, Unregister,
       PublishRemoved, Deprovision, CallFails, FileFails, Boot, Listener, HandleAdded, HandleRemoved, Forget,
       ClearRetained, Connects, ListenerFails, LosesConnection, SimulatorRestarts, history, vars

LEMMA BackendInductive == ProvisioningTypeOK /\ BackendInv /\ [Next]_vars => BackendInv'
<1> SUFFICES ASSUME ProvisioningTypeOK, BackendInv, [Next]_vars, NEW m \in Motors, m \notin parted'
             PROVE  Kept(m)'
  BY DEF BackendInv
<1>0. Kept(m)
  BY PartedGrows DEF BackendInv
<1>1. ASSUME NEW s \in Slots, CreateMotor(s) PROVE Kept(m)'
  <2>1. PICK n \in Motors : /\ row[n] = "none" /\ row' = [row EXCEPT ![n] = "live"]
                            /\ Begin(s, "provision", n)
    BY <1>1 DEF CreateMotor
  <2>2. UNCHANGED <<passwords, acls, registered>>
    BY <1>1 DEF CreateMotor, files
  <2>3. /\ s \notin Under(m) /\ Under(m)' = (IF n = m THEN Under(m) \union {s} ELSE Under(m))
        /\ request'[s].pc = "provision" /\ \A u \in Slots \ {s} : request'[u] = request[u]
    BY <2>1, UnderMoves DEF Labels
  <2>4. \A u \in Under(m) : u \in Slots \ {s}
    BY <2>3 DEF Under
  <2>5. CASE n # m
    BY <1>0, <2>1, <2>2, <2>3, <2>4, <2>5, Untouched DEF ProvisioningTypeOK
  <2>6. CASE n = m
    <3>1. Under(m) = {} /\ Complete(m)
      BY <1>0, <2>1, <2>6 DEF Kept, Halfway
    <3>2. row'[m] = "live"
      BY <2>1, <2>6 DEF ProvisioningTypeOK
    <3>3. QED
      BY <2>1, <2>2, <2>3, <2>6, <3>1, <3>2 DEF Kept, Halfway, Complete, Gone
  <2>7. QED
    BY <2>5, <2>6
<1>2. ASSUME NEW s \in Slots, NEW n \in Motors, DeleteMotor(s, n) PROVE Kept(m)'
  <2>1. /\ row[n] = "live" /\ Begin(s, "softDelete", n) /\ UNCHANGED <<row, passwords, acls, registered>>
        /\ parted' = IF Under(n) # {} THEN parted \union {n} ELSE parted
    BY <1>2 DEF DeleteMotor, Live, files
  <2>2. /\ s \notin Under(m) /\ Under(m)' = (IF n = m THEN Under(m) \union {s} ELSE Under(m))
        /\ request'[s].pc = "softDelete" /\ \A u \in Slots \ {s} : request'[u] = request[u]
    BY <2>1, UnderMoves DEF Labels
  <2>3. \A u \in Under(m) : u \in Slots \ {s}
    BY <2>2 DEF Under
  <2>4. CASE n # m
    BY <1>0, <2>1, <2>2, <2>3, <2>4, Untouched
  <2>5. CASE n = m
    <3>1. Under(m) = {} /\ Complete(m)
      BY <1>0, <2>1, <2>5 DEF Kept
    <3>2. QED
      BY <2>1, <2>2, <2>5, <3>1 DEF Kept, Halfway, Complete, Gone
  <2>6. QED
    BY <2>4, <2>5
<1>3. ASSUME NEW s \in Slots, request[s].pc # "idle",
             Provision(s) \/ Register(s) \/ SoftDelete(s) \/ Unregister(s) \/ PublishRemoved(s)
      PROVE  Kept(m)'
  <2>1. PICK label \in Labels : Goto(s, label)
    BY <1>3 DEF Provision, Register, SoftDelete, Unregister, PublishRemoved, Labels
  <2>2. /\ s \in Under(m) <=> request[s].motor = m
        /\ Under(m)' = Under(m) /\ request'[s].pc = label
        /\ \A u \in Slots \ {s} : request'[u] = request[u]
    BY <1>3, <2>1, UnderMoves
  <2>3. CASE request[s].motor # m
    <3>1. /\ row'[m] = row[m]
          /\ m \in passwords' <=> m \in passwords
          /\ m \in acls' <=> m \in acls
          /\ m \in registered' <=> m \in registered
      BY <1>3, <2>3 DEF Provision, Register, Registered, SoftDelete, Unregister, Unregistered, PublishRemoved,
                        ProvisioningTypeOK, files
    <3>2. \A u \in Under(m) : request'[u] = request[u]
      BY <2>2, <2>3 DEF Under
    <3>3. QED
      BY <1>0, <2>2, <3>1, <3>2, Untouched
  <2>4. CASE request[s].motor = m
    <3>1. Under(m)' = {s} /\ Halfway(s, m)
      BY <1>0, <2>2, <2>4 DEF Kept
    <3> USE DEF Halfway, Gone, At, ProvisioningTypeOK, files, Goto
    <3>2. CASE Provision(s)
      <4>1. Halfway(s, m)'
        BY <2>2, <2>4, <3>1, <3>2 DEF Provision
      <4>2. QED
        BY <3>1, <4>1 DEF Kept
    <3>3. CASE Register(s)
      <4>1. Halfway(s, m)'
        BY <2>2, <2>4, <3>1, <3>3 DEF Register, Registered
      <4>2. QED
        BY <3>1, <4>1 DEF Kept
    <3>4. CASE SoftDelete(s)
      <4>1. Halfway(s, m)'
        BY <2>2, <2>4, <3>1, <3>4 DEF SoftDelete
      <4>2. QED
        BY <3>1, <4>1 DEF Kept
    <3>5. CASE Unregister(s)
      <4>1. Halfway(s, m)'
        BY <2>2, <2>4, <3>1, <3>5 DEF Unregister, Unregistered
      <4>2. QED
        BY <3>1, <4>1 DEF Kept
    <3>6. CASE PublishRemoved(s)
      <4>1. Halfway(s, m)'
        BY <2>2, <2>4, <3>1, <3>6 DEF PublishRemoved
      <4>2. QED
        BY <3>1, <4>1 DEF Kept
    <3>7. QED
      BY <1>3, <3>2, <3>3, <3>4, <3>5, <3>6
  <2>5. QED
    BY <2>3, <2>4
<1>4. ASSUME NEW s \in Slots, request[s].pc # "idle",
             PublishAdded(s) \/ Deprovision(s) \/ CallFails(s) \/ FileFails(s)
      PROVE  Kept(m)'
  <2>1. /\ s \in Under(m) <=> request[s].motor = m
        /\ Under(m)' = Under(m) \ {s} /\ \A u \in Slots \ {s} : request'[u] = request[u]
    BY <1>4, UnderMoves DEF PublishAdded, Deprovision, CallFails, FileFails
  <2>2. UNCHANGED <<row, registered>>
    BY <1>4 DEF PublishAdded, Deprovision, CallFails, FileFails
  <2>3. CASE request[s].motor # m
    <3>1. m \in passwords' <=> m \in passwords
      BY <1>4, <2>3 DEF PublishAdded, Deprovision, CallFails, FileFails, FilesCut, Remnants, Bereft, files
    <3>2. m \in acls' <=> m \in acls
      BY <1>4, <2>3 DEF PublishAdded, Deprovision, CallFails, FileFails, FilesCut, Remnants, Bereft, files
    <3>3. Under(m)' = Under(m) /\ \A u \in Under(m) : request'[u] = request[u]
      BY <2>1, <2>3 DEF Under
    <3>4. QED
      BY <1>0, <2>2, <3>1, <3>2, <3>3, Untouched
  <2>4. CASE request[s].motor = m
    <3>1. ~CallFails(s) /\ ~FileFails(s)
      BY <2>4 DEF CallFails, FileFails
    <3>2. Under(m)' = {} /\ Halfway(s, m)
      BY <1>0, <2>1, <2>4 DEF Kept
    <3>3. Complete(m)'
      <4>1. CASE PublishAdded(s)
        BY <2>2, <3>2, <4>1 DEF PublishAdded, At, Halfway, Complete, Gone, files
      <4>2. CASE Deprovision(s)
        BY <2>2, <2>4, <3>2, <4>2 DEF Deprovision, At, Halfway, Complete, Gone
      <4>3. QED
        BY <1>4, <3>1, <4>1, <4>2
    <3>4. QED
      BY <3>2, <3>3 DEF Kept
  <2>5. QED
    BY <2>3, <2>4
<1>5. CASE Boot
  <2>1. /\ Under(m) = {} /\ row[m] # "deleted" /\ m \notin Bereft
        /\ row' = row /\ registered' = {n \in Motors : row[n] # "none"}
    BY <1>5 DEF Boot
  <2>2. Under(m)' = {}
    BY <1>5 DEF Boot, Under, Idle
  <2>3. Complete(m)
    BY <1>0, <2>1 DEF Kept
  <2>4. \A u \in Slots : FilesCut(u) => request[u].motor # m
    BY <2>1 DEF FilesCut, Under
  <2>5. m \in passwords' <=> m \in passwords
    BY <1>5, <2>1, <2>4 DEF Boot, FilesCut, Remnants, Bereft, files
  <2>6. m \in acls' <=> m \in acls
    BY <1>5, <2>1, <2>4 DEF Boot, FilesCut, Remnants, Bereft, files
  <2>7. Complete(m)'
    BY <2>1, <2>3, <2>5, <2>6 DEF Complete, ProvisioningTypeOK
  <2>8. QED
    BY <2>2, <2>7 DEF Kept
<1>6. CASE UNCHANGED backend
  BY <1>0, <1>6, Untouched DEF backend, files, Under
<1>7. QED
  BY <1>1, <1>2, <1>3, <1>4, <1>5, <1>6
  DEF Next, Listener, HandleAdded, HandleRemoved, Forget, ClearRetained, Connects, ListenerFails, LosesConnection,
      SimulatorRestarts, vars, At, Provision, Register, SoftDelete, Unregister, PublishRemoved, PublishAdded,
      Deprovision, CallFails, FileFails, FilesCut

-----------------------------------------------------------------------------
(* What the simulator has still to hear.                                     *)

Creating == {"provision", "register", "publishAdded"}
Removing == {"unregister", "publishRemoved"}

\* What the backend has told of the motor ...
Told(m) == \/ row[m] = "live" /\ \A s \in Under(m) : request[s].pc \notin Creating
           \/ row[m] = "deleted" /\ \E s \in Under(m) : request[s].pc \in Removing

\* ... and what the simulator will have made of it when it has read everything.
Fate(m) == (m \in active \/ Queued("added", m)) /\ ~Queued("removed", m)

\* Its end has been told.
Dismissed(m) == row[m] = "deleted" /\ \A s \in Under(m) : request[s].pc \notin Removing

\* A connection that was never lost has forwarded everything in order, and what was told will be
\* done: a motor is not announced before its creation is complete or removed before it is deleted.
Followed(m) ==
  /\ \A i, j \in 1..Len(queue) : queue[i] = Note("removed", m) /\ queue[j] = Note("added", m) => j < i
  /\ Fate(m) <=> Told(m)
  /\ Queued("removed", m) => Dismissed(m)

FollowInv == causes = {} /\ cut = {} => online /\ \A m \in Motors \ parted : Followed(m)

LEMMA FollowInit == Init => FollowInv
<1> SUFFICES ASSUME Init PROVE online /\ \A m \in Motors : Followed(m)
  BY DEF FollowInv
<1>1. queue = <<>> /\ Len(queue) = 0 /\ online
  BY DEF Init
<1> SUFFICES ASSUME NEW m \in Motors PROVE Followed(m)
  BY <1>1
<1>2. Under(m) = {}
  BY DEF Init, Under, Idle
<1>3. (m \in active <=> row[m] = "live") /\ row[m] # "deleted"
  BY MotorsAssumption DEF Init, Motors
<1>4. ~Queued("added", m) /\ ~Queued("removed", m)
  BY <1>1 DEF Queued
<1>5. Fate(m) <=> Told(m)
  BY <1>2, <1>3, <1>4 DEF Fate, Told
<1>6. QED
  BY <1>1, <1>4, <1>5 DEF Followed

\* A step that tells the simulator nothing, and does not let it seem to be told otherwise.
LEMMA NothingTold ==
  ASSUME NEW m \in Motors, Followed(m), queue' = queue, active' = active,
         Told(m)' <=> Told(m), Dismissed(m) => Dismissed(m)'
  PROVE  Followed(m)'
<1>1. \A t \in Topics : Queued(t, m)' <=> Queued(t, m)
  BY DEF Queued, Note
<1>2. Fate(m)' <=> Fate(m)
  BY <1>1 DEF Fate, Topics
<1>3. \A t \in Topics : Note(t, m)' = Note(t, m)
  BY DEF Note
<1>4. QED
  BY <1>1, <1>2, <1>3 DEF Followed, Topics

\* A step of a request for another motor.
LEMMA OthersTold ==
  ASSUME NEW m \in Motors, Under(m)' = Under(m), \A u \in Under(m) : request'[u] = request[u],
         row'[m] = row[m]
  PROVE  (Told(m)' <=> Told(m)) /\ (Dismissed(m)' <=> Dismissed(m))
BY DEF Told, Dismissed

\* The order of what is queued about a motor, when something is published about another.
LEMMA OrderKept ==
  ASSUME queue \in Seq(Message), online, NEW t \in Topics, NEW k \in Motors, Publish(t, k),
         NEW m \in Motors, Followed(m), k = m => t = "removed" \/ ~Queued("removed", m)
  PROVE  \A i, j \in 1..Len(queue') :
           queue'[i] = Note("removed", m) /\ queue'[j] = Note("added", m) => j < i
<1>1. /\ Len(queue') = Len(queue) + 1 /\ Len(queue) \in Nat
      /\ \A i \in 1..Len(queue) : queue'[i] = queue[i]
      /\ queue'[Len(queue) + 1] = Note(t, k)
  BY PublishQueues
<1> SUFFICES ASSUME NEW i \in 1..Len(queue'), NEW j \in 1..Len(queue'),
                    queue'[i] = Note("removed", m), queue'[j] = Note("added", m)
             PROVE  j < i
  OBVIOUS
<1>2. CASE i \in 1..Len(queue) /\ j \in 1..Len(queue)
  BY <1>1, <1>2 DEF Followed
<1>3. CASE i = Len(queue) + 1
  <2>1. j # i
    BY DEF Note
  <2>2. QED
    BY <1>1, <1>3, <2>1
<1>4. CASE i \in 1..Len(queue) /\ j = Len(queue) + 1
  <2>1. t = "added" /\ k = m
    BY <1>1, <1>4 DEF Note
  <2>2. Queued("removed", m)
    BY <1>1, <1>4 DEF Queued
  <2>3. QED
    BY <2>1, <2>2
<1>5. QED
  BY <1>1, <1>2, <1>3, <1>4

LEMMA FollowInductive == ProvisioningTypeOK /\ BackendInv /\ FollowInv /\ [Next]_vars => FollowInv'
<1> SUFFICES ASSUME ProvisioningTypeOK, BackendInv, FollowInv, [Next]_vars, causes' = {}, cut' = {}
             PROVE  online' /\ \A m \in Motors \ parted' : Followed(m)'
  BY DEF FollowInv
<1>1. causes = {} /\ cut = {} /\ parted \subseteq parted' /\ online
  <2>1. causes \subseteq causes' /\ cut \subseteq cut'
    BY DEF Next, CreateMotor, Provision, Register, PublishAdded, DeleteMotor, SoftDelete, Unregister, WriteCut,
           PublishRemoved, Deprovision, CallFails, FileFails, Boot, Listener, HandleAdded, HandleRemoved, Forget,
           ClearRetained, Connects, ListenerFails, LosesConnection, SimulatorRestarts, history, vars,
           ProvisioningTypeOK
  <2>2. QED
    BY <2>1, PartedGrows DEF FollowInv
<1>2. ~ListenerFails /\ ~LosesConnection /\ ~SimulatorRestarts /\ ~Connects
  BY <1>1 DEF ListenerFails, WriteCut, LosesConnection, SimulatorRestarts, Connects
<1>3. online' = online
  BY <1>2 DEF Next, CreateMotor, Provision, Register, PublishAdded, DeleteMotor, SoftDelete, Unregister,
              PublishRemoved, Deprovision, CallFails, FileFails, Boot, Listener, HandleAdded, HandleRemoved, Forget,
              ClearRetained, vars, simulator
<1> SUFFICES ASSUME NEW m \in Motors, m \notin parted' PROVE Followed(m)'
  BY <1>1, <1>3
<1>4. Kept(m) /\ Followed(m) /\ Kept(m)' /\ queue \in Seq(Message)
  BY <1>1, BackendInductive DEF BackendInv, FollowInv, ProvisioningTypeOK
<1>5. ASSUME NEW s \in Slots, CreateMotor(s) PROVE Followed(m)'
  <2>1. PICK n \in Motors : /\ row[n] = "none" /\ row' = [row EXCEPT ![n] = "live"]
                            /\ Begin(s, "provision", n)
    BY <1>5 DEF CreateMotor
  <2>2. /\ s \notin Under(m) /\ Under(m)' = (IF n = m THEN Under(m) \union {s} ELSE Under(m))
        /\ request'[s].pc = "provision" /\ \A u \in Slots \ {s} : request'[u] = request[u]
    BY <2>1, UnderMoves DEF Labels
  <2>3. queue' = queue /\ active' = active
    BY <1>5 DEF CreateMotor, broker, simulator
  <2>4. CASE n # m
    <3>1. row'[m] = row[m] /\ \A u \in Under(m) : request'[u] = request[u]
      BY <2>1, <2>2, <2>4 DEF ProvisioningTypeOK, Under
    <3>2. QED
      BY <1>4, <2>2, <2>3, <2>4, <3>1, OthersTold, NothingTold
  <2>5. CASE n = m
    <3>1. Under(m) = {} /\ row'[m] = "live"
      BY <1>4, <2>1, <2>5 DEF Kept, Halfway, ProvisioningTypeOK
    <3>2. ~Told(m) /\ ~Dismissed(m) /\ ~Told(m)'
      BY <2>1, <2>2, <2>5, <3>1 DEF Told, Dismissed, Creating
    <3>3. QED
      BY <1>4, <2>3, <3>2, NothingTold
  <2>6. QED
    BY <2>4, <2>5
<1>6. ASSUME NEW s \in Slots, NEW n \in Motors, DeleteMotor(s, n) PROVE Followed(m)'
  <2>1. /\ row[n] = "live" /\ row' = row /\ Begin(s, "softDelete", n) /\ queue' = queue /\ active' = active
        /\ parted' = IF Under(n) # {} THEN parted \union {n} ELSE parted
    BY <1>6 DEF DeleteMotor, Live, broker, simulator
  <2>2. /\ s \notin Under(m) /\ Under(m)' = (IF n = m THEN Under(m) \union {s} ELSE Under(m))
        /\ request'[s].pc = "softDelete" /\ \A u \in Slots \ {s} : request'[u] = request[u]
    BY <2>1, UnderMoves DEF Labels
  <2>3. CASE n # m
    <3>1. \A u \in Under(m) : request'[u] = request[u]
      BY <2>2 DEF Under
    <3>2. QED
      BY <1>4, <2>1, <2>2, <2>3, <3>1, OthersTold, NothingTold
  <2>4. CASE n = m
    <3>1. Under(m) = {}
      BY <2>1, <2>4
    <3>2. Told(m) /\ ~Dismissed(m) /\ Told(m)'
      BY <2>1, <2>2, <2>4, <3>1 DEF Told, Dismissed, Creating
    <3>3. QED
      BY <1>4, <2>1, <3>2, NothingTold
  <2>5. QED
    BY <2>3, <2>4
<1>7. ASSUME NEW s \in Slots, request[s].pc # "idle",
             \/ Provision(s) \/ Register(s) \/ SoftDelete(s) \/ Unregister(s) \/ Deprovision(s)
             \/ CallFails(s) \/ FileFails(s)
      PROVE  Followed(m)'
  <2>1. queue' = queue /\ active' = active
    BY <1>7 DEF Provision, Register, SoftDelete, Unregister, Deprovision, CallFails, FileFails, broker, simulator
  <2>2. Finish(s) \/ \E label \in Labels : Goto(s, label)
    BY <1>7 DEF Provision, Register, SoftDelete, Unregister, Deprovision, CallFails, FileFails, Labels
  <2>3. /\ s \in Under(m) <=> request[s].motor = m
        /\ Under(m)' = Under(m) \/ Under(m)' = Under(m) \ {s}
        /\ \A u \in Slots \ {s} : request'[u] = request[u]
    BY <1>7, <2>2, UnderMoves
  <2>4. CASE request[s].motor # m
    <3>1. row'[m] = row[m]
      BY <1>7, <2>4 DEF Provision, Register, SoftDelete, Unregister, Deprovision, CallFails, FileFails,
                        ProvisioningTypeOK
    <3>2. Under(m)' = Under(m) /\ \A u \in Under(m) : request'[u] = request[u]
      BY <2>3, <2>4 DEF Under
    <3>3. QED
      BY <1>4, <2>1, <3>1, <3>2, OthersTold, NothingTold
  <2>5. CASE request[s].motor = m
    <3>1. Under(m) = {s} /\ Halfway(s, m) /\ ~CallFails(s) /\ ~FileFails(s)
      BY <1>4, <2>3, <2>5 DEF Kept, CallFails, FileFails
    <3>2. ASSUME NEW label \in Labels, Goto(s, label) PROVE Under(m)' = {s} /\ request'[s].pc = label
      BY <1>7, <3>1, <3>2, UnderMoves
    <3> USE DEF Halfway, Gone, At, Told, Dismissed, Creating, Removing
    <3>3. CASE Provision(s)
      <4>1. request[s].pc = "provision" /\ Under(m)' = {s} /\ request'[s].pc = "register" /\ row' = row
        BY <3>2, <3>3 DEF Provision, Labels
      <4>2. QED
        BY <1>4, <2>1, <3>1, <4>1, NothingTold
    <3>4. CASE Register(s)
      <4>1. request[s].pc = "register" /\ Under(m)' = {s} /\ request'[s].pc = "publishAdded" /\ row' = row
        BY <3>2, <3>4 DEF Register, Labels
      <4>2. QED
        BY <1>4, <2>1, <3>1, <4>1, NothingTold
    <3>5. CASE SoftDelete(s)
      <4>1. /\ request[s].pc = "softDelete" /\ Under(m)' = {s} /\ request'[s].pc = "unregister"
            /\ row'[m] = "deleted"
        BY <2>5, <3>2, <3>5 DEF SoftDelete, Labels, ProvisioningTypeOK
      <4>2. QED
        BY <1>4, <2>1, <3>1, <4>1, NothingTold
    <3>6. CASE Unregister(s)
      <4>1. request[s].pc = "unregister" /\ Under(m)' = {s} /\ request'[s].pc = "publishRemoved" /\ row' = row
        BY <3>2, <3>6 DEF Unregister, Labels
      <4>2. QED
        BY <1>4, <2>1, <3>1, <4>1, NothingTold
    <3>7. CASE Deprovision(s)
      <4>1. request[s].pc = "deprovision" /\ row' = row
        BY <3>7 DEF Deprovision
      <4>2. Under(m)' = {}
        BY <3>1, <3>7, UnderMoves DEF Deprovision
      <4>3. QED
        BY <1>4, <2>1, <3>1, <4>1, <4>2, NothingTold
    <3>8. QED
      BY <1>7, <3>1, <3>3, <3>4, <3>5, <3>6, <3>7
  <2>6. QED
    BY <2>4, <2>5
<1>8. ASSUME NEW s \in Slots, request[s].pc # "idle", PublishAdded(s) PROVE Followed(m)'
  <2> DEFINE k == request[s].motor
  <2>1. /\ k \in Motors /\ "added" \in Topics /\ Publish("added", k) /\ Finish(s) /\ row' = row /\ active' = active
        /\ request[s].pc = "publishAdded"
    BY <1>8, SlotTyped DEF PublishAdded, At, simulator, Topics
  <2>2. /\ s \in Under(m) <=> k = m
        /\ Under(m)' = Under(m) \ {s} /\ \A u \in Slots \ {s} : request'[u] = request[u]
    BY <1>8, <2>1, UnderMoves
  <2> HIDE DEF k
  <2>3. \A u \in Topics, n \in Motors : Queued(u, n)' <=> Queued(u, n) \/ (u = "added" /\ n = k)
    BY <1>1, <1>4, <2>1, PublishQueues
  <2>4. /\ Queued("removed", m)' <=> Queued("removed", m)
        /\ Queued("added", m)' <=> Queued("added", m) \/ m = k
    BY <2>3 DEF Topics
  <2>5. CASE k # m
    <3>1. Under(m)' = Under(m) /\ \A u \in Under(m) : request'[u] = request[u]
      BY <2>2, <2>5 DEF Under
    <3>2. (Told(m)' <=> Told(m)) /\ (Dismissed(m)' <=> Dismissed(m))
      BY <2>1, <3>1, OthersTold
    <3>3. \A i, j \in 1..Len(queue') :
            queue'[i] = Note("removed", m) /\ queue'[j] = Note("added", m) => j < i
      BY <1>1, <1>4, <2>1, <2>5, OrderKept
    <3>4. Fate(m)' <=> Fate(m)
      BY <2>1, <2>4, <2>5 DEF Fate
    <3>5. QED
      BY <1>4, <2>4, <3>2, <3>3, <3>4 DEF Followed, Note
  <2>6. CASE k = m
    <3>1. Under(m) = {s} /\ row[m] = "live" /\ Under(m)' = {}
      BY <1>4, <2>1, <2>2, <2>6 DEF Kept, Halfway, Gone
    <3>2. ~Queued("removed", m)
      BY <1>4, <3>1 DEF Followed, Dismissed
    <3>3. Fate(m)' /\ Told(m)' /\ ~Queued("removed", m)'
      BY <2>1, <2>4, <2>6, <3>1, <3>2 DEF Fate, Told
    <3>4. \A i, j \in 1..Len(queue') :
            queue'[i] = Note("removed", m) /\ queue'[j] = Note("added", m) => j < i
      BY <1>1, <1>4, <2>1, <3>2, OrderKept
    <3>5. QED
      BY <3>3, <3>4 DEF Followed, Note
  <2>7. QED
    BY <2>5, <2>6
<1>9. ASSUME NEW s \in Slots, request[s].pc # "idle", PublishRemoved(s) PROVE Followed(m)'
  <2> DEFINE k == request[s].motor
  <2>1. /\ k \in Motors /\ "removed" \in Topics /\ Publish("removed", k) /\ row' = row /\ active' = active
        /\ request[s].pc = "publishRemoved" /\ Goto(s, "deprovision") /\ "deprovision" \in Labels
    BY <1>9, SlotTyped DEF PublishRemoved, At, simulator, Topics, Labels
  <2>2. /\ s \in Under(m) <=> k = m
        /\ Under(m)' = Under(m) /\ request'[s].pc = "deprovision"
        /\ \A u \in Slots \ {s} : request'[u] = request[u]
    BY <1>9, <2>1, UnderMoves
  <2> HIDE DEF k
  <2>3. \A u \in Topics, n \in Motors : Queued(u, n)' <=> Queued(u, n) \/ (u = "removed" /\ n = k)
    BY <1>1, <1>4, <2>1, PublishQueues
  <2>4. /\ Queued("added", m)' <=> Queued("added", m)
        /\ Queued("removed", m)' <=> Queued("removed", m) \/ m = k
    BY <2>3 DEF Topics
  <2>5. \A i, j \in 1..Len(queue') :
          queue'[i] = Note("removed", m) /\ queue'[j] = Note("added", m) => j < i
    BY <1>1, <1>4, <2>1, OrderKept
  <2>6. CASE k # m
    <3>1. \A u \in Under(m) : request'[u] = request[u]
      BY <2>2, <2>6 DEF Under
    <3>2. (Told(m)' <=> Told(m)) /\ (Dismissed(m)' <=> Dismissed(m))
      BY <2>1, <2>2, <3>1, OthersTold
    <3>3. Fate(m)' <=> Fate(m)
      BY <2>1, <2>4, <2>6 DEF Fate
    <3>4. QED
      BY <1>4, <2>4, <2>5, <2>6, <3>2, <3>3 DEF Followed, Note
  <2>7. CASE k = m
    <3>1. Under(m) = {s} /\ row[m] = "deleted"
      BY <1>4, <2>1, <2>2, <2>7 DEF Kept, Halfway, Gone
    <3>2. ~Told(m)' /\ Dismissed(m)'
      BY <2>1, <2>2, <3>1 DEF Told, Dismissed, Removing
    <3>3. ~Fate(m)'
      BY <2>4, <2>7 DEF Fate
    <3>4. QED
      BY <2>5, <3>2, <3>3 DEF Followed, Note
  <2>8. QED
    BY <2>6, <2>7
<1>10. CASE HandleAdded \/ HandleRemoved
  <2> DEFINE k == Head(queue).motor
  <2>1. queue # <<>> /\ queue' = Tail(queue) /\ row' = row /\ request' = request /\ Under(m)' = Under(m)
    BY <1>10 DEF HandleAdded, HandleRemoved, TakesNext, backend, Under
  <2>2. /\ queue' \in Seq(Message) /\ Head(queue) \in Message /\ Head(queue) = queue[1]
        /\ Len(queue') = Len(queue) - 1 /\ \A i \in 1..Len(queue') : queue'[i] = queue[i + 1]
    BY <1>4, <2>1, TakeQueues
  <2>3. \A u \in Topics, n \in Motors : Queued(u, n) <=> Queued(u, n)' \/ Head(queue) = Note(u, n)
    BY <1>4, <2>1, TakeQueues
  <2>4. k \in Motors /\ Len(queue) \in Nat
    BY <1>4, <2>2 DEF Message
  <2>5. \A i, j \in 1..Len(queue') :
          queue'[i] = Note("removed", m) /\ queue'[j] = Note("added", m) => j < i
    <3> SUFFICES ASSUME NEW i \in 1..Len(queue'), NEW j \in 1..Len(queue'),
                        queue'[i] = Note("removed", m), queue'[j] = Note("added", m)
                 PROVE  j < i
      OBVIOUS
    <3>1. i + 1 \in 1..Len(queue) /\ j + 1 \in 1..Len(queue)
      BY <2>2, <2>4
    <3>2. j + 1 < i + 1
      BY <1>4, <2>2, <3>1 DEF Followed
    <3>3. QED
      BY <3>2
  <2>6. (Told(m)' <=> Told(m)) /\ (Dismissed(m)' <=> Dismissed(m))
    BY <2>1 DEF Told, Dismissed
  <2>7. Fate(m)' <=> Fate(m)
    <3>1. CASE HandleAdded
      <4>1. Head(queue) = Note("added", k) /\ active' = active \union {k}
        BY <2>2, <3>1 DEF HandleAdded, TakesNext, Message, Note
      <4> HIDE DEF k
      <4>2. /\ Queued("added", m) <=> Queued("added", m)' \/ m = k
            /\ Queued("removed", m) <=> Queued("removed", m)'
        BY <2>3, <2>4, <4>1 DEF Note, Topics
      <4>3. QED
        BY <4>1, <4>2 DEF Fate
    <3>2. CASE HandleRemoved
      <4>1. Head(queue) = Note("removed", k) /\ active' = active \ {k}
        BY <2>2, <3>2 DEF HandleRemoved, TakesNext, Message, Note
      <4> HIDE DEF k
      <4>2. /\ Queued("removed", m) <=> Queued("removed", m)' \/ m = k
            /\ Queued("added", m) <=> Queued("added", m)'
        BY <2>3, <2>4, <4>1 DEF Note, Topics
      <4>3. k = m => ~Queued("added", m)
        <5> SUFFICES ASSUME k = m, NEW j \in 1..Len(queue), queue[j] = Note("added", m) PROVE FALSE
          BY DEF Queued
        <5>1. queue[1] = Note("removed", m) /\ 1 \in 1..Len(queue)
          BY <2>2, <2>4, <4>1
        <5>2. j < 1
          BY <1>4, <5>1 DEF Followed
        <5>3. QED
          BY <5>2
      <4>4. QED
        BY <4>1, <4>2, <4>3 DEF Fate
    <3>3. QED
      BY <1>10, <3>1, <3>2
  <2>8. Queued("removed", m)' => Queued("removed", m)
    BY <2>3 DEF Topics
  <2>9. QED
    BY <1>4, <2>5, <2>6, <2>7, <2>8 DEF Followed, Note
<1>11. CASE Boot
  <2>1. /\ Under(m) = {} /\ row[m] # "deleted" /\ row' = row /\ queue' = queue /\ active' = active
    BY <1>11 DEF Boot, broker, simulator
  <2>2. Under(m)' = {}
    BY <1>11 DEF Boot, Under, Idle
  <2>3. QED
    BY <1>4, <2>1, <2>2, NothingTold DEF Told, Dismissed
<1>12. CASE Forget \/ ClearRetained \/ UNCHANGED vars
  <2>1. queue' = queue /\ active' = active /\ row' = row /\ request' = request /\ Under(m)' = Under(m)
    BY <1>12 DEF Forget, ClearRetained, vars, backend, broker, simulator, Under
  <2>2. QED
    BY <1>4, <2>1, OthersTold, NothingTold
<1>13. QED
  BY <1>2, <1>5, <1>6, <1>7, <1>8, <1>9, <1>10, <1>11, <1>12
  DEF Next, Listener, At, Provision, Register, PublishAdded, SoftDelete, Unregister, PublishRemoved, Deprovision,
      CallFails, FileFails, FilesCut

\* A motor that no request is at has its password, access rights and registration exactly if it
\* exists, and once the simulator has heard everything it runs exactly then (InStep): however many
\* requests for different motors overlap, and whatever fails in those of other motors.
THEOREM StaysInStep == Spec => []InStep
<1>1. ProvisioningTypeOK /\ BackendInv /\ FollowInv => InStep
  <2> SUFFICES ASSUME ProvisioningTypeOK, BackendInv, FollowInv, NEW m \in Motors \ parted, Under(m) = {}
               PROVE  /\ m \in Live <=> m \in passwords
                      /\ m \in Live <=> m \in acls
                      /\ m \in Live <=> m \in registered
                      /\ causes = {} /\ cut = {} /\ Drained => (m \in Live <=> m \in active)
    BY DEF InStep
  <2>1. Complete(m)
    BY DEF BackendInv, Kept
  <2>2. ASSUME causes = {}, cut = {}, Drained PROVE m \in Live <=> m \in active
    <3>1. ~Queued("added", m) /\ ~Queued("removed", m)
      BY <2>2 DEF Drained, Queued
    <3>2. Fate(m) <=> Told(m)
      BY <2>2 DEF FollowInv, Followed
    <3>3. QED
      BY <3>1, <3>2 DEF Fate, Told, Live
  <2>3. QED
    BY <2>1, <2>2 DEF Complete, Live
<1>2. QED
  BY TypeInit, TypeInductive, BackendInit, BackendInductive, FollowInit, FollowInductive, <1>1, PTL DEF Spec

-----------------------------------------------------------------------------
(* What has been announced.                                                  *)

\* No motor that exists is announced as removed or has a request that deleted it. A motor whose
\* announcement is being cleared runs.
NoticesInv ==
  /\ \A s \in Slots : request[s].pc \in Gone => row[request[s].motor] = "deleted"
  /\ retained["removed"] # NoMotor => row[retained["removed"]] = "deleted"
  /\ \A i \in 1..Len(queue) : queue[i].topic = "removed" => row[queue[i].motor] = "deleted"
  /\ handling.stage = "forget" => handling.message.topic = "removed"
  /\ handling.stage = "clear" /\ handling.message.topic = "added" => handling.message.motor \in active

\* The announcement of a motor that does not run is retained, whatever became of the one that
\* was forwarded.
AnnouncedInv ==
  \A m \in Live \ (displaced \union parted \union cut) :
    Under(m) # {} \/ m \in active \/ retained["added"] = m

LEMMA NoticesInit == Init => NoticesInv /\ AnnouncedInv
<1> SUFFICES ASSUME Init PROVE NoticesInv /\ AnnouncedInv
  OBVIOUS
<1>1. NoticesInv
  <2>1. handling.stage = "none" /\ queue = <<>> /\ Len(queue) = 0
    BY DEF Init, Nothing
  <2>2. \A s \in Slots : request[s].pc \notin Gone
    BY DEF Init, Idle, Gone
  <2>3. retained["removed"] = NoMotor
    BY DEF Init, Topics
  <2>4. QED
    BY <2>1, <2>2, <2>3 DEF NoticesInv
<1>2. AnnouncedInv
  BY MotorsAssumption DEF Init, AnnouncedInv, Live, Motors
<1>3. QED
  BY <1>1, <1>2

\* Rows are never restored.
LEMMA DeletedStays ==
  ASSUME ProvisioningTypeOK, [Next]_vars, NEW m \in Motors, row[m] = "deleted"
  PROVE  row'[m] = "deleted"
BY DEF ProvisioningTypeOK, Next, vars, backend, CreateMotor, Provision, Register, PublishAdded, DeleteMotor,
       SoftDelete, Unregister, PublishRemoved, Deprovision, CallFails, FileFails, Boot, Listener, HandleAdded,
       HandleRemoved, Forget, ClearRetained, Connects, ListenerFails, LosesConnection, SimulatorRestarts

\* A request moves on, and no motor that exists is deleted without one.
LEMMA GoneFollows ==
  ASSUME ProvisioningTypeOK, NoticesInv, [Next]_vars, NEW s \in Slots, request'[s].pc \in Gone
  PROVE  row'[request'[s].motor] = "deleted"
<1> USE DEF ProvisioningTypeOK, Gone, Idle, Labels
<1>1. ASSUME NEW u \in Slots, CreateMotor(u) PROVE row'[request'[s].motor] = "deleted"
  BY <1>1, DeletedStays, SlotTyped DEF CreateMotor, Begin, NoticesInv
<1>2. ASSUME NEW u \in Slots, NEW m \in Motors, DeleteMotor(u, m) PROVE row'[request'[s].motor] = "deleted"
  BY <1>2 DEF DeleteMotor, Begin, NoticesInv
<1>3. ASSUME NEW u \in Slots, SoftDelete(u) PROVE row'[request'[s].motor] = "deleted"
  BY <1>3, SlotTyped DEF SoftDelete, At, Goto, NoticesInv
<1>4. ASSUME NEW u \in Slots,
             \/ Provision(u) \/ Register(u) \/ PublishAdded(u) \/ Unregister(u)
             \/ PublishRemoved(u) \/ Deprovision(u) \/ CallFails(u) \/ FileFails(u)
      PROVE  row'[request'[s].motor] = "deleted"
  BY <1>4, SlotTyped DEF Provision, Register, PublishAdded, Unregister, PublishRemoved, Deprovision,
                         CallFails, FileFails, At, Goto, Finish, NoticesInv
<1>5. CASE Boot
  BY <1>5 DEF Boot
<1>6. CASE Listener \/ ListenerFails \/ LosesConnection \/ SimulatorRestarts \/ UNCHANGED vars
  <2>1. row' = row /\ request' = request
    BY <1>6 DEF Listener, HandleAdded, HandleRemoved, Forget, ClearRetained, Connects, ListenerFails,
                LosesConnection, SimulatorRestarts, vars, backend
  <2>2. QED
    BY <2>1 DEF NoticesInv
<1>7. QED
  BY <1>1, <1>2, <1>3, <1>4, <1>5, <1>6 DEF Next

LEMMA NoticesInductive == ProvisioningTypeOK /\ NoticesInv /\ [Next]_vars => NoticesInv'
<1> SUFFICES ASSUME ProvisioningTypeOK, NoticesInv, [Next]_vars PROVE NoticesInv'
  OBVIOUS
<1>1. \A s \in Slots : request'[s].pc \in Gone => row'[request'[s].motor] = "deleted"
  BY GoneFollows
<1>2. \A m \in Motors : row[m] = "deleted" => row'[m] = "deleted"
  BY DeletedStays
<1>3. /\ NoMotor \notin Motors /\ queue \in Seq(Message)
      /\ retained \in [Topics -> Motors \union {NoMotor}] /\ retained' \in [Topics -> Motors \union {NoMotor}]
      /\ handling.stage \in {"forget", "clear"} => handling \in [stage : {"forget", "clear"}, message : Message]
  <2>1. ProvisioningTypeOK'
    BY TypeInductive
  <2>2. NoMotor \notin Motors
    BY DEF NoMotor, Motors
  <2>3. queue \in Seq(Message) /\ retained \in [Topics -> Motors \union {NoMotor}]
    BY DEF ProvisioningTypeOK
  <2>4. retained' \in [Topics -> Motors \union {NoMotor}]
    BY <2>1 DEF ProvisioningTypeOK
  <2>5. handling \in {Nothing, Ended} \union [stage : {"forget", "clear"}, message : Message]
    BY DEF ProvisioningTypeOK
  <2>6. Nothing.stage = "none" /\ Ended.stage = "ended"
    BY DEF Nothing, Ended
  <2>7. handling.stage \in {"forget", "clear"} =>
          handling \in [stage : {"forget", "clear"}, message : Message]
    BY <2>5, <2>6
  <2>8. QED
    BY <2>2, <2>3, <2>4, <2>7
\* Nothing but the rows is touched.
<1>4. CASE UNCHANGED <<retained, queue, handling, active>>
  <2>1. \A i \in 1..Len(queue) : queue[i].motor \in Motors
    <3>1. \A i \in 1..Len(queue) : queue[i] \in Message
      BY <1>3
    <3>2. QED
      BY <3>1 DEF Message
  <2>2. retained["removed"] # NoMotor => retained["removed"] \in Motors
    BY <1>3 DEF Topics
  <2>3. QED
    BY <1>1, <1>2, <1>4, <2>1, <2>2 DEF NoticesInv
<1>5. ASSUME NEW t \in Topics, NEW m \in Motors, Publish(t, m),
             t = "removed" => row'[m] = "deleted", UNCHANGED <<row, online, handling, active>>
      PROVE  NoticesInv'
  <2>1. retained' = [retained EXCEPT ![t] = m]
    BY <1>5 DEF Publish
  <2>2. retained'["removed"] # NoMotor => row'[retained'["removed"]] = "deleted"
    BY <1>3, <1>5, <2>1 DEF NoticesInv, Topics
  <2>3. CASE online
    <3>1. /\ Len(queue') = Len(queue) + 1 /\ Len(queue) \in Nat
          /\ \A i \in 1..Len(queue) : queue'[i] = queue[i]
          /\ queue'[Len(queue) + 1] = Note(t, m)
      BY <1>3, <1>5, <2>3, PublishQueues
    <3>2. \A i \in 1..Len(queue') : i \in 1..Len(queue) \/ i = Len(queue) + 1
      BY <3>1
    <3>3. \A i \in 1..Len(queue') : queue'[i].topic = "removed" => row'[queue'[i].motor] = "deleted"
      BY <1>5, <3>1, <3>2 DEF NoticesInv, Note
    <3>4. QED
      BY <1>1, <1>5, <2>2, <3>3 DEF NoticesInv
  <2>4. CASE ~online
    <3>1. queue' = queue
      BY <1>5, <2>4 DEF Publish
    <3>2. QED
      BY <1>1, <1>5, <2>2, <3>1 DEF NoticesInv
  <2>5. QED
    BY <2>3, <2>4
<1>6. ASSUME NEW s \in Slots, PublishAdded(s) PROVE NoticesInv'
  <2>1. /\ request[s].motor \in Motors /\ "added" \in Topics
        /\ Publish("added", request[s].motor) /\ UNCHANGED <<row, online, handling, active>>
    BY <1>6, SlotTyped DEF PublishAdded, At, Topics, simulator
  <2>2. QED
    BY <1>5, <2>1
<1>7. ASSUME NEW s \in Slots, PublishRemoved(s) PROVE NoticesInv'
  <2>1. /\ request[s].motor \in Motors /\ row[request[s].motor] = "deleted" /\ "removed" \in Topics
        /\ Publish("removed", request[s].motor) /\ UNCHANGED <<row, online, handling, active>>
    BY <1>7, SlotTyped DEF PublishRemoved, At, Labels, NoticesInv, Gone, Topics, simulator
  <2>2. QED
    BY <1>5, <2>1
<1>8. CASE HandleAdded \/ HandleRemoved
  <2>1. /\ queue # <<>> /\ queue' = Tail(queue) /\ UNCHANGED <<row, retained>>
        /\ handling'.message = Head(queue)
    BY <1>8 DEF HandleAdded, HandleRemoved, TakesNext, backend
  <2>2. /\ Head(queue) \in Message
        /\ Len(queue') = Len(queue) - 1 /\ \A i \in 1..Len(queue') : queue'[i] = queue[i + 1]
    BY <1>3, <2>1, TakeQueues
  <2>3. Len(queue) \in Nat /\ \A i \in 1..Len(queue') : i + 1 \in 1..Len(queue)
    BY <1>3, <2>2
  <2>4. \A i \in 1..Len(queue') : queue'[i].topic = "removed" => row'[queue'[i].motor] = "deleted"
    BY <2>1, <2>2, <2>3 DEF NoticesInv
  <2>5. Head(queue).topic = "added" => Head(queue).motor \in active'
    BY <1>8 DEF HandleAdded, HandleRemoved, TakesNext
  <2>6. handling'.stage = "forget" => Head(queue).topic = "removed"
    BY <1>8 DEF HandleAdded, HandleRemoved, TakesNext
  <2>7. QED
    BY <1>1, <2>1, <2>4, <2>5, <2>6 DEF NoticesInv
<1>9. CASE Forget
  <2>1. /\ UNCHANGED <<row, retained, queue, active>> /\ handling.stage = "forget"
        /\ handling' = [handling EXCEPT !.stage = "clear"] /\ handling.message.topic = "removed"
    BY <1>9 DEF Forget, backend, broker, NoticesInv
  <2>2. handling'.stage = "clear" /\ handling'.message = handling.message
    BY <1>3, <2>1
  <2>3. QED
    BY <1>1, <2>1, <2>2 DEF NoticesInv
<1>10. CASE ClearRetained
  <2>1. /\ UNCHANGED <<row, queue, active>> /\ handling'.stage = "none"
        /\ handling.message.topic \in Topics
    BY <1>3, <1>10 DEF ClearRetained, backend, Nothing, Message
  <2>2. retained'["removed"] \in {NoMotor, retained["removed"]}
    BY <1>3, <1>10, <2>1 DEF ClearRetained, Topics
  <2>3. QED
    BY <1>1, <2>1, <2>2 DEF NoticesInv
<1>11. CASE Connects
  <2>1. UNCHANGED <<row, retained, handling, active>>
    BY <1>11 DEF Connects, backend
  <2>2. /\ queue' \in Seq(Message)
        /\ \A i \in 1..Len(queue') : queue'[i].motor = retained[queue'[i].topic]
    BY <1>3, <1>11, KeptQueue
  <2>3. \A i \in 1..Len(queue') : queue'[i] \in Message
    BY <2>2
  <2>4. \A i \in 1..Len(queue') : queue'[i].motor # NoMotor
    BY <1>3, <2>3 DEF Message
  <2>5. QED
    BY <1>1, <2>1, <2>2, <2>4 DEF NoticesInv
<1>12. CASE ListenerFails \/ LosesConnection \/ SimulatorRestarts
  <2>1. /\ UNCHANGED <<row, retained>> /\ queue' = <<>> /\ Len(queue') = 0
        /\ (handling' = handling /\ active' = active) \/ handling' \in {Nothing, Ended}
    BY <1>12 DEF ListenerFails, LosesConnection, SimulatorRestarts, backend
  <2>2. QED
    BY <1>1, <2>1 DEF NoticesInv, Nothing, Ended
<1>13. QED
  BY <1>4, <1>6, <1>7, <1>8, <1>9, <1>10, <1>11, <1>12
  DEF Next, vars, broker, simulator, Listener, CreateMotor, Provision, Register, DeleteMotor, SoftDelete,
      Unregister, Deprovision, CallFails, FileFails, Boot

\* What the rest of the system does to a motor that exists leaves it announced.
LEMMA AnnouncedInductive ==
  ProvisioningTypeOK /\ FileInv /\ NoticesInv /\ AnnouncedInv /\ [Next]_vars => AnnouncedInv'
<1> SUFFICES ASSUME ProvisioningTypeOK, FileInv, NoticesInv, AnnouncedInv, [Next]_vars,
                    NEW m \in Motors, row'[m] = "live", m \notin displaced', m \notin parted', m \notin cut',
                    Under(m)' = {}
             PROVE  m \in active' \/ retained'["added"] = m
  BY DEF AnnouncedInv, Live
<1>1. m \notin displaced /\ m \notin parted /\ m \notin cut
  <2>1. displaced \subseteq displaced' /\ cut \subseteq cut'
    BY DEF Next, CreateMotor, Provision, Register, PublishAdded, DeleteMotor, SoftDelete, Unregister, Publish,
           PublishRemoved, Deprovision, CallFails, FileFails, Boot, Listener, HandleAdded, HandleRemoved, Forget,
           ClearRetained, Connects, ListenerFails, WriteCut, LosesConnection, SimulatorRestarts, history, vars,
           ProvisioningTypeOK
  <2>2. QED
    BY <2>1, PartedGrows
<1>2. ASSUME row[m] = "live", Under(m) = {} PROVE m \in active \/ retained["added"] = m
  BY <1>1, <1>2 DEF AnnouncedInv, Live
<1>3. /\ retained \in [Topics -> Motors \union {NoMotor}] /\ NoMotor \notin Motors
      /\ handling.stage = "clear" => handling.message \in Message
  BY DEF ProvisioningTypeOK, NoMotor, Motors, Nothing, Ended
<1>4. ASSUME NEW s \in Slots, CreateMotor(s) PROVE m \in active' \/ retained'["added"] = m
  <2>1. PICK n \in Motors : row' = [row EXCEPT ![n] = "live"] /\ Begin(s, "provision", n)
    BY <1>4 DEF CreateMotor
  <2>2. Under(m)' = (IF n = m THEN Under(m) \union {s} ELSE Under(m))
    BY <2>1, UnderMoves DEF Labels
  <2>3. m # n /\ Under(m) = {}
    BY <2>2
  <2>4. row[m] = "live" /\ UNCHANGED <<active, retained>>
    BY <1>4, <2>1, <2>3 DEF ProvisioningTypeOK, CreateMotor, broker, simulator
  <2>5. QED
    BY <1>2, <2>3, <2>4
<1>5. ASSUME NEW s \in Slots, NEW n \in Motors, DeleteMotor(s, n) PROVE m \in active' \/ retained'["added"] = m
  <2>1. row' = row /\ Begin(s, "softDelete", n) /\ UNCHANGED <<active, retained>>
    BY <1>5 DEF DeleteMotor, broker, simulator
  <2>2. Under(m) = {}
    BY <2>1, UnderMoves DEF Labels
  <2>3. QED
    BY <1>2, <2>1, <2>2
<1>6. ASSUME NEW s \in Slots, request[s].pc # "idle",
             Provision(s) \/ Register(s) \/ SoftDelete(s) \/ Unregister(s) \/ PublishRemoved(s)
      PROVE  m \in active' \/ retained'["added"] = m
  <2>1. PICK label \in Labels : Goto(s, label)
    BY <1>6 DEF Provision, Register, SoftDelete, Unregister, PublishRemoved, Labels
  <2>2. Under(m) = {}
    BY <1>6, <2>1, UnderMoves
  <2>3. /\ row[m] = "live" /\ active' = active
        /\ retained' = retained \/ retained' = [retained EXCEPT !["removed"] = request[s].motor]
    BY <1>6 DEF Provision, Register, SoftDelete, Unregister, PublishRemoved, Publish, broker, simulator,
                ProvisioningTypeOK
  <2>4. retained'["added"] = retained["added"]
    BY <1>3, <2>3 DEF Topics
  <2>5. QED
    BY <1>2, <2>2, <2>3, <2>4
<1>7. ASSUME NEW s \in Slots, request[s].pc # "idle", request[s].motor # m, Finish(s) PROVE Under(m) = {}
  <2>1. Under(m)' = Under(m) \ {s} /\ s \notin Under(m)
    BY <1>7, UnderMoves
  <2>2. QED
    BY <2>1
<1>8. ASSUME NEW s \in Slots, request[s].pc # "idle", PublishAdded(s)
      PROVE  m \in active' \/ retained'["added"] = m
  <2>1. /\ row' = row /\ active' = active /\ retained' = [retained EXCEPT !["added"] = request[s].motor]
        /\ retained'["added"] = request[s].motor /\ Finish(s)
        /\ displaced' = displaced \union ({retained["added"]} \ {NoMotor, request[s].motor})
    BY <1>3, <1>8 DEF PublishAdded, Publish, Displaces, simulator, Topics
  <2>2. CASE request[s].motor = m
    BY <2>1, <2>2
  <2>3. CASE request[s].motor # m
    <3>1. m \in active \/ retained["added"] = m
      BY <1>2, <1>7, <1>8, <2>1, <2>3
    <3>2. retained["added"] # m
      BY <1>3, <2>1, <2>3
    <3>3. QED
      BY <2>1, <3>1, <3>2
  <2>4. QED
    BY <2>2, <2>3
<1>9. ASSUME NEW s \in Slots, request[s].pc # "idle", Deprovision(s) \/ CallFails(s) \/ FileFails(s)
      PROVE  m \in active' \/ retained'["added"] = m
  <2>1. row' = row /\ UNCHANGED <<active, retained>> /\ Finish(s)
    BY <1>9 DEF Deprovision, CallFails, FileFails, broker, simulator
  <2>2. request[s].motor # m
    BY <1>9, <2>1 DEF Deprovision, At, CallFails, FileFails, NoticesInv, Gone
  <2>3. QED
    BY <1>2, <1>7, <1>9, <2>1, <2>2
<1>10. CASE Listener
  <2>1. row[m] = "live" /\ Under(m) = {}
    BY <1>10 DEF Listener, HandleAdded, HandleRemoved, Forget, ClearRetained, Connects, backend, Under
  <2>2. m \in active \/ retained["added"] = m
    BY <1>2, <2>1
  <2>3. CASE HandleAdded \/ Forget \/ Connects
    BY <2>2, <2>3 DEF HandleAdded, Forget, Connects, broker
  <2>4. CASE HandleRemoved
    <3>1. queue \in Seq(Message) /\ queue # <<>> /\ Head(queue).topic = "removed"
      BY <2>4 DEF HandleRemoved, TakesNext, ProvisioningTypeOK
    <3>2. Head(queue) = queue[1] /\ 1 \in 1..Len(queue)
      BY <3>1
    <3>3. Head(queue).motor # m
      BY <2>1, <3>1, <3>2 DEF NoticesInv
    <3>4. QED
      BY <2>2, <2>4, <3>3 DEF HandleRemoved
  <2>5. CASE ClearRetained
    <3>1. active' = active /\ handling.message \in Message
      BY <1>3, <2>5 DEF ClearRetained
    <3>2. CASE retained' = retained
      BY <2>2, <3>1, <3>2
    <3>3. CASE handling.message.topic = "removed"
      BY <1>3, <2>2, <2>5, <3>1, <3>3 DEF ClearRetained, Topics
    <3>4. CASE handling.message.topic = "added" /\ retained' # retained
      <4>1. displaced' = displaced \union ({retained["added"]} \ {NoMotor, handling.message.motor})
        BY <2>5, <3>4 DEF ClearRetained, Displaces
      <4>2. handling.message.motor \in active
        BY <2>5, <3>4 DEF ClearRetained, NoticesInv
      <4>3. retained["added"] # m \/ handling.message.motor = m
        BY <1>3, <4>1
      <4>4. QED
        BY <2>2, <3>1, <4>2, <4>3
    <3>5. QED
      BY <3>1, <3>2, <3>3, <3>4 DEF Message, Topics
  <2>6. QED
    BY <1>10, <2>3, <2>4, <2>5 DEF Listener
<1>11. CASE Boot
  <2>1. row[m] = "live" /\ Under(m) = {} /\ UNCHANGED <<retained, active>>
    BY <1>11 DEF Boot, broker, simulator
  <2>2. QED
    BY <1>2, <2>1
<1>12. CASE SimulatorRestarts
  <2>1. row[m] = "live" /\ Under(m) = {} /\ retained' = retained
    BY <1>12 DEF SimulatorRestarts, backend, Under
  <2>2. m \in active \/ retained["added"] = m
    BY <1>2, <2>1
  <2>3. ~damaged' /\ (m \in csv => m \in csv')
    <3>1. CASE \E n \in Motors : WriteCut(n)
      BY <3>1, WriteCutKeeps
    <3>2. CASE UNCHANGED <<csv, damaged, cut>>
      BY <3>2 DEF FileInv
    <3>3. QED
      BY <1>12, <3>1, <3>2 DEF SimulatorRestarts, disk
  <2>4. HotMotors' = csv'
    BY <2>3 DEF HotMotors
  <2>5. active' = 1..Builtin \union csv'
    BY <1>12, <2>3, <2>4 DEF SimulatorRestarts, Restored
  <2>6. m \in active => m \in 1..Builtin \/ m \in csv
    BY <1>1 DEF FileInv, Excused
  <2>7. QED
    BY <2>1, <2>2, <2>3, <2>5, <2>6
<1>13. CASE ListenerFails \/ LosesConnection \/ UNCHANGED vars
  <2>1. row[m] = "live" /\ Under(m) = {} /\ UNCHANGED <<retained, active>>
    BY <1>13 DEF ListenerFails, LosesConnection, vars, backend, broker, simulator, Under
  <2>2. QED
    BY <1>2, <2>1
<1>14. QED
  BY <1>4, <1>5, <1>6, <1>8, <1>9, <1>10, <1>11, <1>12, <1>13
  DEF Next, At, Provision, Register, PublishAdded, SoftDelete, Unregister, PublishRemoved, Deprovision,
      CallFails, FileFails, FilesCut

\* A motor whose creation got to its end runs or will be told of (AddIsNotForgotten): through lost
\* connections, restarts of either side and failures of the simulator's listener, until another
\* motor's announcement takes the place of its own or its line in the simulator's file is lost.
THEOREM AddsAreKept == Spec => []AddIsNotForgotten
<1>1. AnnouncedInv => AddIsNotForgotten
  BY DEF AnnouncedInv, AddIsNotForgotten, Heralded
<1>2. QED
  BY TypeInit, FileInit, NoticesInit, TypeInductive, FileInductive, NoticesInductive, AnnouncedInductive,
     <1>1, PTL DEF Spec
=============================================================================
