-------------------------- MODULE MotorConfigProofs --------------------------
(***************************************************************************)
(* Theorems about MotorConfig and ConfigPage, for any motors, requests,    *)
(* rated currents and settings that may be asked for: thresholds are       *)
(* ordered, the thresholds and protection parameters in memory are the     *)
(* database's, and the page shows what the database has.                   *)
(***************************************************************************)
EXTENDS ConfigPage, SequenceTheorems, TLAPS

Table == [Thresholds -> Int]

\* Some of the thresholds.
Part(d) == \E fs \in SUBSET Thresholds : d \in [fs -> Int]

OfMotor    == {"findSensor", "readStandard", "writeRow", "writeDefaults", "applyRow"}
OfStandard == {"findStandard", "writeStandard"}

Shaped(r) ==
  \/ r = Idle
  \/ /\ r = [pc |-> r.pc, target |-> r.target, motor |-> r.motor, dto |-> r.dto, found |-> r.found]
     /\ r.pc \in Labels
     /\ r.pc \in OfMotor => r.motor \in Motors /\ r.target = r.motor /\ Part(r.dto)
     /\ r.pc \in OfStandard => r.target = "standard" /\ Part(r.dto)

Typed ==
  /\ standard \in Table /\ row \in [Motors -> Table] /\ meta \in [Motors -> Table]
  /\ request = [s \in Slots |-> request[s]]
  /\ \A s \in Slots : Shaped(request[s])

\* Two requests for the same thing have been noticed.
Apart ==
  \A s, u \in Slots :
    request[s] # Idle /\ request[u] # Idle /\ request[s].target = request[u].target =>
      s = u \/ request[s].target \in overlapped

\* Memory lags behind the row by the request that is about to apply its fields.
Lagging(m) == {s \in Slots : request[s].pc = "applyRow" /\ request[s].motor = m}

MemoryFollows ==
  \A m \in Motors \ (overlapped \union metaMissed) :
    /\ Lagging(m) = {} => meta[m] = row[m]
    /\ \A s \in Lagging(m) : Merged(meta[m], request[s].dto) = row[m]

\* What has been checked is still in order when it is written.
Sound(r) ==
  /\ r.pc = "writeRow" /\ r.motor \notin overlapped => Ordered(Merged(row[r.motor], r.dto))
  /\ r.pc = "writeDefaults" /\ r.motor \notin overlapped => WeaklyOrdered(Merged(row[r.motor], r.dto))
  /\ r.pc = "writeStandard" => Ordered(Merged(standard, r.dto))

InOrderOf(m) ==
  /\ WeaklyOrdered(row[m])
  /\ m \notin metaMissed => WeaklyOrdered(meta[m])
  /\ m \notin rounded => Ordered(row[m])

InOrder ==
  "standard" \notin overlapped =>
    /\ Ordered(standard)
    /\ \A m \in Motors \ overlapped : InOrderOf(m)
    /\ \A s \in Slots : Sound(request[s])

ConfigInv == Typed /\ Apart /\ MemoryFollows /\ InOrder

-----------------------------------------------------------------------------
(* Tables. *)

LEMMA MergedTable ==
  ASSUME NEW t \in Table, NEW d, Part(d)
  PROVE  Merged(t, d) \in Table
  BY DEF Table, Part, Merged

\* A whole table replaces what it is merged into.
LEMMA MergedWhole ==
  ASSUME NEW t \in Table, NEW d \in Table
  PROVE  Merged(t, d) = d
  BY DEF Table, Merged

LEMMA OrderedIsWeakly ==
  ASSUME NEW t \in Table, Ordered(t)
  PROVE  WeaklyOrdered(t)
  BY DEF Table, Thresholds, Ordered, WeaklyOrdered

\* Rounding keeps the order, and may make values equal.
LEMMA RoundingKeepsOrder ==
  ASSUME NEW a \in Nat, NEW h \in Nat, NEW d \in Nat \ {0}, NEW x \in Int, NEW y \in Int, x <= y
  PROVE  (a * x + h) \div d <= (a * y + h) \div d
<1>1. PICK k \in Nat : y = x + k
  <2>1. y - x \in Nat /\ y = x + (y - x)
    OBVIOUS
  <2>2. QED
    BY <2>1
<1>2. a * y = a * x + a * k
  BY <1>1
<1>3. a * k >= 0 /\ a * k \in Int /\ a * x \in Int
  BY <1>1
<1>4. a * x + h <= a * y + h /\ a * x + h \in Int /\ a * y + h \in Int
  BY <1>2, <1>3
<1>5. ASSUME NEW u \in Int, NEW v \in Int, u <= v PROVE u \div d <= v \div d
  <2>1. /\ u \div d \in Int /\ v \div d \in Int
        /\ u = d * (u \div d) + (u % d) /\ u % d \in 0..(d - 1)
        /\ v = d * (v \div d) + (v % d) /\ v % d \in 0..(d - 1)
    BY Z3
  <2>2. SUFFICES ASSUME v \div d < u \div d PROVE FALSE
    BY <2>1
  <2>3. PICK j \in Nat : u \div d = (v \div d) + 1 + j
    <3>1. (u \div d) - (v \div d) - 1 \in Nat
      BY <2>1, <2>2
    <3>2. u \div d = (v \div d) + 1 + ((u \div d) - (v \div d) - 1)
      BY <2>1
    <3>3. QED
      BY <3>1, <3>2
  <2>4. d * (u \div d) = d * (v \div d) + d + d * j /\ d * j >= 0
    BY <2>1, <2>3
  <2>5. QED
    BY <1>5, <2>1, <2>4
<1>6. QED
  BY <1>4, <1>5

LEMMA EffectiveOrdered ==
  ASSUME NEW m \in Motors, NEW std \in Table
  PROVE  Effective(m, std) \in Table /\ (Ordered(std) => WeaklyOrdered(Effective(m, std)))
<1> DEFINE h == 50 * Hundredth * Hundredth
           d == One * Hundredth
           q(f) == (Rated[m] * std[f] + h) \div d
<1>1. Rated[m] \in Nat /\ Hundredth \in Nat \ {0}
  BY RatedAssumption
<1>2. h \in Nat /\ d \in Nat \ {0}
  BY <1>1 DEF One
<1>3. \A f \in Thresholds : Effective(m, std)[f] = IF m \in Scaled THEN Hundredth * q(f) ELSE std[f]
  BY DEF Effective
<1>4. \A f \in Thresholds : std[f] \in Int
  BY DEF Table
<1> HIDE DEF h, d
<1>5. \A f \in Thresholds : q(f) \in Int /\ Hundredth * q(f) \in Int
  <2>1. ASSUME NEW f \in Thresholds PROVE q(f) \in Int
    <3>1. Rated[m] * std[f] + h \in Int
      BY <1>1, <1>2, <1>4
    <3>2. QED
      BY <1>2, <3>1
  <2> HIDE DEF q
  <2>2. QED
    BY <1>1, <2>1
<1>6. \A f, g \in Thresholds : std[f] <= std[g] => q(f) <= q(g)
  BY <1>1, <1>2, <1>4, RoundingKeepsOrder
<1> HIDE DEF q
<1>7. \A f, g \in Thresholds : std[f] <= std[g] => Hundredth * q(f) <= Hundredth * q(g)
  <2>1. ASSUME NEW a \in Int, NEW b \in Int, a <= b PROVE Hundredth * a <= Hundredth * b
    <3>1. PICK k \in Nat : b = a + k
      <4>1. b - a \in Nat /\ b = a + (b - a)
        BY <2>1
      <4>2. QED
        BY <4>1
    <3>2. Hundredth * b = Hundredth * a + Hundredth * k /\ Hundredth * k >= 0
      BY <1>1, <3>1
    <3>3. Hundredth * a \in Int /\ Hundredth * k \in Int
      BY <1>1, <3>1
    <3>4. QED
      BY <3>2, <3>3
  <2>2. QED
    BY <1>5, <1>6, <2>1
<1>8. \A f, g \in Thresholds : std[f] <= std[g] => Effective(m, std)[f] <= Effective(m, std)[g]
  BY <1>3, <1>7
<1>9. \A f \in Thresholds : Effective(m, std)[f] \in Int
  BY <1>3, <1>4, <1>5
<1>10. Effective(m, std) \in Table
  <2>1. Effective(m, std) = [f \in Thresholds |-> Effective(m, std)[f]]
    BY DEF Effective
  <2>2. QED
    BY <1>9, <2>1 DEF Table
<1>11. QED
  BY <1>4, <1>8, <1>10 DEF Ordered, WeaklyOrdered, Thresholds

-----------------------------------------------------------------------------
(* Steps. *)

LEMMA ConfigInit == Init => ConfigInv
<1> SUFFICES ASSUME Init PROVE ConfigInv
  OBVIOUS
<1>1. Standard0 \in Table /\ Ordered(Standard0)
  BY StandardAssumption DEF Table
<1>2. Typed
  BY <1>1 DEF Init, Typed, Shaped
<1>3. \A s \in Slots : request[s] = Idle /\ request[s].pc = "idle"
  BY DEF Init, Idle
<1>4. Apart /\ MemoryFollows /\ InOrder
  BY <1>1, <1>3, OrderedIsWeakly DEF Init, Apart, MemoryFollows, Lagging, InOrder, InOrderOf, Sound
<1>5. QED
  BY <1>2, <1>4 DEF ConfigInv

\* A request comes, goes on or is over without a write of what this is about.
LEMMA RequestMoves ==
  ASSUME ConfigInv, NEW s \in Slots, NEW r, request' = [request EXCEPT ![s] = r],
         Shaped(r), r.pc # "applyRow", request[s].pc # "applyRow",
         UNCHANGED <<standard, row, meta, rounded>>, overlapped \subseteq overlapped',
         metaMissed \subseteq metaMissed',
         r # Idle => \A u \in Slots : u # s /\ request[u] # Idle /\ request[u].target = r.target
                       => r.target \in overlapped',
         "standard" \notin overlapped' => Sound(r)'
  PROVE  ConfigInv'
<1>1. request'[s] = r /\ \A u \in Slots : u # s => request'[u] = request[u]
  BY DEF ConfigInv, Typed
<1>2. Typed'
  BY <1>1 DEF ConfigInv, Typed
<1>3. Apart'
  BY <1>1 DEF ConfigInv, Apart
<1>4. \A m : Lagging(m)' = Lagging(m) /\ \A u \in Lagging(m) : request'[u] = request[u]
  BY <1>1 DEF Lagging
<1>5. MemoryFollows'
  BY <1>4 DEF ConfigInv, MemoryFollows
<1>6. \A u \in Slots : u # s /\ Sound(request[u]) => Sound(request[u])'
  BY <1>1 DEF Sound
<1>7. InOrder'
  BY <1>1, <1>6 DEF ConfigInv, InOrder, InOrderOf, Sound
<1>8. QED
  BY <1>2, <1>3, <1>5, <1>7 DEF ConfigInv

LEMMA RequestBegins ==
  ASSUME ConfigInv, NEW s \in Slots, NEW label \in Labels, NEW target, NEW m, NEW dto,
         Begin(s, label, target, m, dto),
         label \notin {"writeRow", "writeDefaults", "applyRow", "writeStandard"},
         label \in OfMotor => m \in Motors /\ target = m /\ Part(dto),
         label \in OfStandard => target = "standard" /\ Part(dto)
  PROVE  ConfigInv'
<1> DEFINE r == [pc |-> label, target |-> target, motor |-> m, dto |-> dto, found |-> {}]
<1>1. /\ request[s].pc = "idle" /\ request' = [request EXCEPT ![s] = r]
      /\ UNCHANGED <<standard, row, meta, rounded, metaMissed>> /\ overlapped \subseteq overlapped'
      /\ Active(target) # {} => target \in overlapped'
  BY DEF Begin, At, database, memory, missed
<1>2. Shaped(r) /\ r.pc # "applyRow" /\ Sound(r)'
  BY DEF Shaped, Sound
<1>3. \A u \in Slots : request[u] # Idle => request[u].pc # "idle"
  BY DEF ConfigInv, Typed, Shaped, Labels
<1>4. \A u \in Slots : u # s /\ request[u] # Idle /\ request[u].target = r.target => r.target \in overlapped'
  BY <1>1, <1>3 DEF Active
<1>5. QED
  BY <1>1, <1>2, <1>4, RequestMoves

\* The request keeps its target, and its motor and fields unless it gets new ones.
LEMMA RequestGoesOn ==
  ASSUME ConfigInv, NEW s \in Slots, request[s] # Idle, NEW r, request' = [request EXCEPT ![s] = r],
         r = Idle \/ r.target = request[s].target,
         Shaped(r), r.pc # "applyRow", request[s].pc # "applyRow",
         UNCHANGED <<standard, row, meta, overlapped, rounded>>, metaMissed \subseteq metaMissed',
         "standard" \notin overlapped => Sound(r)
  PROVE  ConfigInv'
<1>1. r # Idle => \A u \in Slots : u # s /\ request[u] # Idle /\ request[u].target = r.target
                    => r.target \in overlapped'
  BY DEF ConfigInv, Apart
<1>2. Sound(r) => Sound(r)'
  BY DEF Sound
<1>3. QED
  BY <1>1, <1>2, RequestMoves

\* What With makes of a request.
LEMMA WithRecord ==
  ASSUME ConfigInv, NEW s \in Slots, NEW next, NEW dto, NEW found, With(s, next, dto, found),
         request[s] # Idle
  PROVE  request' = [request EXCEPT ![s] =
           [pc |-> next, target |-> request[s].target, motor |-> request[s].motor,
            dto |-> dto, found |-> found]]
<1> DEFINE q == request[s]
<1>1. q = [pc |-> q.pc, target |-> q.target, motor |-> q.motor, dto |-> q.dto, found |-> q.found]
  BY DEF ConfigInv, Typed, Shaped
<1> DEFINE f == [request EXCEPT ![s].pc = next]
           g == [f EXCEPT ![s].dto = dto]
<1> DEFINE p == [pc |-> next, target |-> q.target, motor |-> q.motor, dto |-> q.dto, found |-> q.found]
           d == [pc |-> next, target |-> q.target, motor |-> q.motor, dto |-> dto, found |-> q.found]
           e == [pc |-> next, target |-> q.target, motor |-> q.motor, dto |-> dto, found |-> found]
<1>2. [q EXCEPT !.pc = next] = p /\ [p EXCEPT !.dto = dto] = d /\ [d EXCEPT !.found = found] = e
  BY <1>1
<1>3. request = [u \in Slots |-> request[u]]
  BY DEF ConfigInv, Typed
<1> HIDE DEF q, p, d, e
<1>4. f = [request EXCEPT ![s] = p]
  BY <1>2 DEF q
<1>5. g = [request EXCEPT ![s] = d]
  <2>1. f[s] = p
    BY <1>3, <1>4
  <2>2. g = [f EXCEPT ![s] = d]
    BY <1>2, <2>1
  <2>3. QED
    BY <1>3, <1>4, <2>2
<1>6. request' = [g EXCEPT ![s].found = found]
  BY DEF With
<1>7. request' = [request EXCEPT ![s] = e]
  <2>1. g[s] = d
    BY <1>3, <1>5
  <2>2. request' = [g EXCEPT ![s] = e]
    BY <1>2, <1>6, <2>1
  <2>3. QED
    BY <1>3, <1>5, <2>2
<1>8. QED
  BY <1>7 DEF e, q

\* A request that is not about thresholds.
LEMMA OthersGoOn ==
  ASSUME ConfigInv, NEW s \in Slots, NEW label, At(s, label),
         label \in Labels \ (OfMotor \union OfStandard),
         \/ Finish(s)
         \/ \E next \in Labels \ (OfMotor \union OfStandard) :
              \/ Goto(s, next) \/ \E dto, found : With(s, next, dto, found),
         UNCHANGED <<standard, row, meta, overlapped, rounded, metaMissed>>
  PROVE  ConfigInv'
<1>1. request[s] # Idle /\ Shaped(request[s])
  BY DEF At, Idle, Labels, ConfigInv, Typed
<1>2. CASE Finish(s)
  <2>1. Shaped(Idle) /\ Sound(Idle) /\ Idle.pc # "applyRow"
    BY DEF Shaped, Sound, Idle
  <2>2. QED
    BY <1>1, <1>2, <2>1, RequestGoesOn DEF Finish, At, OfMotor
<1>3. ASSUME NEW next \in Labels \ (OfMotor \union OfStandard), Goto(s, next) PROVE ConfigInv'
  <2> DEFINE r == [request[s] EXCEPT !.pc = next]
  <2>1. request' = [request EXCEPT ![s] = r]
    BY <1>3 DEF Goto, ConfigInv, Typed
  <2>2. r.target = request[s].target /\ Shaped(r) /\ Sound(r) /\ r.pc # "applyRow"
    BY <1>1, <1>3 DEF Shaped, Sound, OfMotor, OfStandard
  <2>3. QED
    BY <1>1, <2>1, <2>2, RequestGoesOn DEF At, OfMotor
<1>4. ASSUME NEW next \in Labels \ (OfMotor \union OfStandard), NEW dto, NEW found,
             With(s, next, dto, found)
      PROVE ConfigInv'
  <2> DEFINE r == [pc |-> next, target |-> request[s].target, motor |-> request[s].motor,
                   dto |-> dto, found |-> found]
  <2>1. request' = [request EXCEPT ![s] = r]
    BY <1>1, <1>4, WithRecord
  <2>2. r.target = request[s].target /\ Shaped(r) /\ Sound(r) /\ r.pc # "applyRow"
    BY <1>1, <1>4 DEF Shaped, Sound, OfMotor, OfStandard
  <2>3. QED
    BY <1>1, <2>1, <2>2, RequestGoesOn DEF At, OfMotor
<1>5. QED
  BY <1>2, <1>3, <1>4

\* A check lets the request go on to its write, or ends it.
Checked(s, from, to, ok) ==
  /\ At(s, from)
  /\ (ok /\ Goto(s, to)) \/ Finish(s)
  /\ UNCHANGED <<standard, row, meta, overlapped, rounded, metaMissed>>

LEMMA CheckedKeeps ==
  ASSUME ConfigInv, NEW s \in Slots,
         \/ Checked(s, "findSensor", "writeRow", Ordered(Merged(row[request[s].motor], request[s].dto)))
         \/ Checked(s, "findStandard", "writeStandard", Ordered(Merged(standard, request[s].dto)))
  PROVE  ConfigInv'
<1> DEFINE q == request[s]
<1>1. q # Idle /\ Shaped(q) /\ q.pc \in {"findSensor", "findStandard"}
  BY DEF Checked, At, Idle, ConfigInv, Typed
<1>2. CASE Finish(s)
  <2>1. Shaped(Idle) /\ Sound(Idle) /\ Idle.pc # "applyRow"
    BY DEF Shaped, Sound, Idle
  <2>2. QED
    BY <1>1, <1>2, <2>1, RequestGoesOn DEF Finish, Checked
<1>3. CASE q.pc = "findSensor" /\ Goto(s, "writeRow") /\ Ordered(Merged(row[q.motor], q.dto))
  <2> DEFINE r == [q EXCEPT !.pc = "writeRow"]
  <2>1. request' = [request EXCEPT ![s] = r]
    BY <1>3 DEF Goto, ConfigInv, Typed
  <2>2. /\ r.target = q.target /\ r.motor = q.motor /\ r.dto = q.dto /\ r.pc = "writeRow"
        /\ Shaped(r)
    BY <1>1, <1>3 DEF Shaped, OfMotor, OfStandard, Labels, Idle
  <2>3. Sound(r)
    BY <1>3, <2>2 DEF Sound
  <2>4. QED
    BY <1>1, <2>1, <2>2, <2>3, RequestGoesOn DEF Checked
<1>4. CASE q.pc = "findStandard" /\ Goto(s, "writeStandard") /\ Ordered(Merged(standard, q.dto))
  <2> DEFINE r == [q EXCEPT !.pc = "writeStandard"]
  <2>1. request' = [request EXCEPT ![s] = r]
    BY <1>4 DEF Goto, ConfigInv, Typed
  <2>2. /\ r.target = q.target /\ r.motor = q.motor /\ r.dto = q.dto /\ r.pc = "writeStandard"
        /\ Shaped(r)
    BY <1>1, <1>4 DEF Shaped, OfMotor, OfStandard, Labels, Idle
  <2>3. Sound(r)
    BY <1>4, <2>2 DEF Sound
  <2>4. QED
    BY <1>1, <2>1, <2>2, <2>3, RequestGoesOn DEF Checked
<1>5. QED
  BY <1>2, <1>3, <1>4 DEF Checked, At

LEMMA ReadStandardKeeps ==
  ASSUME ConfigInv, NEW s \in Slots, ReadStandard(s)
  PROVE  ConfigInv'
<1> DEFINE q == request[s]
           e == Effective(q.motor, standard)
           r == [pc |-> "writeDefaults", target |-> q.target, motor |-> q.motor, dto |-> e, found |-> {}]
<1>1. q # Idle /\ q.pc = "readStandard" /\ q.motor \in Motors /\ q.target = q.motor
  BY DEF ReadStandard, At, Idle, ConfigInv, Typed, Shaped, OfMotor
<1>2. request' = [request EXCEPT ![s] = r]
  BY <1>1, WithRecord DEF ReadStandard
<1>3. e \in Table /\ ("standard" \notin overlapped => WeaklyOrdered(e))
  BY <1>1, EffectiveOrdered DEF ConfigInv, Typed, InOrder
<1>4. Part(e)
  BY <1>3 DEF Part, Table
<1>5. row[q.motor] \in Table
  BY <1>1 DEF ConfigInv, Typed
<1>6. Merged(row[q.motor], e) = e
  BY <1>3, <1>5, MergedWhole
<1> HIDE DEF e
<1>7. Shaped(r)
  BY <1>1, <1>4 DEF Shaped, OfMotor, OfStandard, Labels
<1>8. "standard" \notin overlapped => Sound(r)
  BY <1>3, <1>6 DEF Sound
<1>9. QED
  BY <1>1, <1>2, <1>7, <1>8, RequestGoesOn DEF history, missed, ReadStandard, database, memory

\* Unless it has been noticed, no other request is about the same thing.
LEMMA Alone ==
  ASSUME ConfigInv, NEW s \in Slots, NEW u \in Slots, u # s, request[s] # Idle,
         request[s].target \notin overlapped
  PROVE  /\ request[u] # Idle => request[u].target # request[s].target
         /\ request[u].pc \in OfMotor => request[u].motor # request[s].target
         /\ request[u].pc \in OfStandard => "standard" # request[s].target
<1>1. request[u] # Idle => request[u].target # request[s].target
  BY DEF ConfigInv, Apart
<1>2. request[u] = Idle => request[u].pc \notin OfMotor \union OfStandard
  BY DEF Idle, OfMotor, OfStandard
<1>3. Shaped(request[u])
  BY DEF ConfigInv, Typed
<1>4. QED
  BY <1>1, <1>2, <1>3 DEF Shaped

LEMMA WriteRowKeeps ==
  ASSUME ConfigInv, NEW s \in Slots, WriteRow(s) \/ WriteDefaults(s)
  PROVE  ConfigInv'
<1> DEFINE q == request[s]
           r == [q EXCEPT !.pc = "applyRow"]
<1>0. /\ q # Idle /\ Shaped(q) /\ q.pc \in {"writeRow", "writeDefaults"} /\ q.motor \in Motors
      /\ q.target = q.motor /\ Part(q.dto)
  BY DEF WriteRow, WriteDefaults, At, Idle, ConfigInv, Typed, Shaped, OfMotor
<1> PICK m \in Motors : m = q.motor
  BY <1>0
<1> DEFINE t == Merged(row[m], q.dto)
<1>1. /\ q # Idle /\ Shaped(q) /\ q.pc \in {"writeRow", "writeDefaults"}
      /\ q.motor = m /\ q.target = m /\ Part(q.dto)
  BY <1>0
<1>2. /\ request' = [request EXCEPT ![s] = r] /\ row' = [row EXCEPT ![m] = t]
      /\ UNCHANGED <<standard, meta, overlapped, metaMissed>>
  BY DEF missed, WriteRow, WriteDefaults, Writes, Goto, ConfigInv, Typed, memory
<1>3. request'[s] = r /\ \A u \in Slots : u # s => request'[u] = request[u]
  BY <1>2 DEF ConfigInv, Typed
<1>4. /\ r # Idle /\ Shaped(r) /\ r.pc = "applyRow"
      /\ r.target = q.target /\ r.motor = m /\ r.dto = q.dto
  BY <1>1 DEF Shaped, OfMotor, OfStandard, Labels, Idle
<1>5. t \in Table /\ row'[m] = t /\ \A n \in Motors : n # m => row'[n] = row[n]
  BY <1>1, <1>2, MergedTable DEF ConfigInv, Typed
<1>6. m \notin overlapped => \A u \in Slots : u # s => ~(request[u].pc \in OfMotor /\ request[u].motor = m)
  BY <1>1, Alone
<1>12. /\ \A n : n # m /\ n \notin rounded' => n \notin rounded
       /\ q.pc = "writeDefaults" => m \in rounded'
  BY DEF WriteRow, WriteDefaults, At
<1> HIDE DEF r, t, q
<1>7. Typed'
  BY <1>1, <1>2, <1>3, <1>4, <1>5 DEF ConfigInv, Typed
<1>8. Apart'
  BY <1>1, <1>2, <1>3, <1>4 DEF ConfigInv, Apart, q
<1>9. MemoryFollows'
  <2>1. \A n \in Motors : n # m => Lagging(n)' = Lagging(n) /\ s \notin Lagging(n)
    BY <1>1, <1>3, <1>4 DEF Lagging, q
  <2>2. \A n \in Motors \ (overlapped \union metaMissed) : n # m =>
          /\ Lagging(n)' = {} => meta'[n] = row'[n]
          /\ \A u \in Lagging(n)' : Merged(meta'[n], request'[u].dto) = row'[n]
    <3> SUFFICES ASSUME NEW n \in Motors \ (overlapped \union metaMissed), n # m
                 PROVE  /\ Lagging(n)' = {} => meta'[n] = row'[n]
                        /\ \A u \in Lagging(n)' : Merged(meta'[n], request'[u].dto) = row'[n]
      OBVIOUS
    <3>1. \A u \in Lagging(n) : request'[u] = request[u]
      BY <1>3, <2>1 DEF Lagging
    <3>2. QED
      BY <1>2, <1>5, <2>1, <3>1 DEF ConfigInv, MemoryFollows
  <2>3. m \notin overlapped =>
          /\ Lagging(m) = {} /\ Lagging(m)' = {s}
    BY <1>1, <1>3, <1>4, <1>6 DEF Lagging, OfMotor, q
  <2>4. m \notin overlapped \union metaMissed => Merged(meta'[m], request'[s].dto) = row'[m]
    BY <1>1, <1>2, <1>3, <1>4, <1>5, <2>3 DEF ConfigInv, MemoryFollows, t, q
  <2>5. QED
    BY <1>2, <2>2, <2>3, <2>4 DEF MemoryFollows
<1>10. InOrder'
  <2>1. ASSUME "standard" \notin overlapped, m \notin overlapped
        PROVE  WeaklyOrdered(t) /\ (m \notin rounded' => Ordered(t))
    <3>1. Sound(q)
      BY <2>1 DEF ConfigInv, InOrder, q
    <3>2. CASE q.pc = "writeRow"
      BY <1>1, <1>5, <2>1, <3>1, <3>2, OrderedIsWeakly DEF Sound, t
    <3>3. CASE q.pc = "writeDefaults"
      BY <1>1, <1>12, <2>1, <3>1, <3>3 DEF Sound, t
    <3>4. QED
      BY <1>1, <3>2, <3>3
  <2>2. ASSUME NEW u \in Slots, Sound(request[u]) PROVE Sound(request[u])'
    <3>1. CASE u = s
      BY <1>3, <1>4, <3>1 DEF Sound
    <3>2. CASE u # s /\ request[u].pc \in {"writeRow", "writeDefaults"}
      <4>1. request[u].motor \in Motors
        BY <3>2 DEF ConfigInv, Typed, Shaped, OfMotor, Idle
      <4>2. QED
        BY <1>2, <1>3, <1>5, <1>6, <2>2, <3>2, <4>1 DEF Sound, OfMotor
    <3>3. CASE u # s /\ request[u].pc \notin {"writeRow", "writeDefaults"}
      BY <1>2, <1>3, <2>2, <3>3 DEF Sound
    <3>4. QED
      BY <3>1, <3>2, <3>3
  <2>3. ASSUME "standard" \notin overlapped, NEW n \in Motors \ overlapped PROVE InOrderOf(n)'
    <3>1. InOrderOf(n)
      BY <2>3 DEF ConfigInv, InOrder
    <3>2. CASE n = m
      BY <1>2, <1>5, <2>1, <2>3, <3>1, <3>2 DEF InOrderOf
    <3>3. CASE n # m
      BY <1>2, <1>5, <1>12, <3>1, <3>3 DEF InOrderOf
    <3>4. QED
      BY <3>2, <3>3
  <2>4. QED
    BY <1>2, <2>2, <2>3 DEF ConfigInv, InOrder
<1>11. QED
  BY <1>7, <1>8, <1>9, <1>10 DEF ConfigInv

LEMMA ApplyRowKeeps ==
  ASSUME ConfigInv, NEW s \in Slots, ApplyRow(s)
  PROVE  ConfigInv'
<1> DEFINE q == request[s]
<1>0. q # Idle /\ q.pc = "applyRow" /\ q.motor \in Motors /\ q.target = q.motor /\ Part(q.dto)
  BY DEF ApplyRow, At, Idle, ConfigInv, Typed, Shaped, OfMotor
<1> PICK m \in Motors : m = q.motor
  BY <1>0
<1> DEFINE t == Merged(meta[m], q.dto)
<1>1. q # Idle /\ q.pc = "applyRow" /\ q.motor = m /\ q.target = m /\ Part(q.dto)
  BY <1>0
<1>2. /\ request' = [request EXCEPT ![s] = Idle] /\ meta' = [meta EXCEPT ![m] = t]
      /\ UNCHANGED <<standard, row, overlapped, rounded, metaMissed>>
  BY DEF history, missed, ApplyRow, Finish, database
<1>3. request'[s] = Idle /\ \A u \in Slots : u # s => request'[u] = request[u]
  BY <1>2 DEF ConfigInv, Typed
<1>4. t \in Table /\ meta'[m] = t /\ \A n \in Motors : n # m => meta'[n] = meta[n]
  BY <1>1, <1>2, MergedTable DEF ConfigInv, Typed
<1>5. m \notin overlapped => \A u \in Slots : u # s => ~(request[u].pc \in OfMotor /\ request[u].motor = m)
  BY <1>1, Alone
<1>6. m \notin overlapped \union metaMissed => t = row[m]
  BY <1>1 DEF ConfigInv, MemoryFollows, Lagging
<1> HIDE DEF t, q
<1>7. Typed'
  BY <1>1, <1>2, <1>3, <1>4 DEF ConfigInv, Typed, Shaped
<1>8. Apart'
  BY <1>2, <1>3 DEF ConfigInv, Apart
<1>9. MemoryFollows'
  <2>1. \A n \in Motors : n # m => Lagging(n)' = Lagging(n) /\ s \notin Lagging(n)
    BY <1>1, <1>3 DEF Lagging, Idle, q
  <2>2. m \notin overlapped => Lagging(m)' = {}
    BY <1>3, <1>5 DEF Lagging, OfMotor, Idle
  <2>3. \A n \in Motors : n # m => \A u \in Lagging(n) : request'[u] = request[u]
    BY <1>3, <2>1 DEF Lagging
  <2>4. QED
    BY <1>2, <1>4, <1>6, <2>1, <2>2, <2>3 DEF ConfigInv, MemoryFollows
<1>10. InOrder'
  <2>1. \A u \in Slots : Sound(request[u]) => Sound(request[u])'
    BY <1>2, <1>3 DEF Sound, Idle
  <2>2. ASSUME "standard" \notin overlapped, NEW n \in Motors \ overlapped PROVE InOrderOf(n)'
    <3>1. InOrderOf(n)
      BY <2>2 DEF ConfigInv, InOrder
    <3>2. n # m => meta'[n] = meta[n]
      BY <1>4
    <3>3. n = m /\ m \notin metaMissed => meta'[n] = row[n]
      BY <1>4, <1>6, <2>2
    <3>4. QED
      BY <1>2, <3>1, <3>2, <3>3 DEF InOrderOf
  <2>3. QED
    BY <1>2, <2>1, <2>2 DEF ConfigInv, InOrder
<1>11. QED
  BY <1>7, <1>8, <1>9, <1>10 DEF ConfigInv

LEMMA WriteStandardKeeps ==
  ASSUME ConfigInv, NEW s \in Slots, WriteStandard(s)
  PROVE  ConfigInv'
<1> DEFINE q == request[s]
<1>1. q # Idle /\ q.pc = "writeStandard" /\ q.target = "standard" /\ Part(q.dto)
  BY DEF WriteStandard, At, Idle, ConfigInv, Typed, Shaped, OfStandard
<1>2. /\ request' = [request EXCEPT ![s] = Idle] /\ standard' = Merged(standard, q.dto)
      /\ UNCHANGED <<row, meta, overlapped, rounded, metaMissed>>
  BY DEF history, missed, WriteStandard, Finish, memory
<1>3. request'[s] = Idle /\ \A u \in Slots : u # s => request'[u] = request[u]
  BY <1>2 DEF ConfigInv, Typed
<1>4. standard' \in Table
  BY <1>1, <1>2, MergedTable DEF ConfigInv, Typed
<1>5. "standard" \notin overlapped =>
        Ordered(standard') /\ \A u \in Slots : u # s => request[u].pc # "writeStandard"
  BY <1>1, <1>2, Alone DEF ConfigInv, InOrder, Sound, OfStandard
<1> HIDE DEF q
<1>6. Typed'
  BY <1>2, <1>3, <1>4 DEF ConfigInv, Typed, Shaped
<1>7. Apart'
  BY <1>2, <1>3 DEF ConfigInv, Apart
<1>8. MemoryFollows'
  <2>1. \A n \in Motors : Lagging(n)' = Lagging(n) /\ s \notin Lagging(n)
    BY <1>1, <1>3 DEF Lagging, Idle, q
  <2>2. \A n \in Motors : \A u \in Lagging(n) : request'[u] = request[u]
    BY <1>3, <2>1 DEF Lagging
  <2>3. QED
    BY <1>2, <2>1, <2>2 DEF ConfigInv, MemoryFollows
<1>9. InOrder'
  <2>1. "standard" \notin overlapped => \A u \in Slots : Sound(request[u]) => Sound(request[u])'
    BY <1>2, <1>3, <1>5 DEF Sound, Idle
  <2>2. QED
    BY <1>2, <1>5, <2>1 DEF ConfigInv, InOrder, InOrderOf
<1>10. QED
  BY <1>6, <1>7, <1>8, <1>9 DEF ConfigInv

\* A request that ends leaves memory behind if it had written.
LEMMA FailsKeeps ==
  ASSUME ConfigInv, NEW s \in Slots, QueryFails(s)
  PROVE  ConfigInv'
<1> DEFINE q == request[s]
<1>1. /\ q # Idle /\ Shaped(q) /\ request' = [request EXCEPT ![s] = Idle]
      /\ UNCHANGED <<standard, row, meta, overlapped, rounded>>
      /\ metaMissed' = metaMissed \union LeavesMeta(q)
  BY DEF QueryFails, At, Finish, Idle, database, memory, ConfigInv, Typed
<1>2. CASE q.pc # "applyRow"
  <2>1. Shaped(Idle) /\ Sound(Idle) /\ Idle.pc # "applyRow"
    BY DEF Shaped, Sound, Idle
  <2>2. QED
    BY <1>1, <1>2, <2>1, RequestGoesOn
<1>3. CASE q.pc = "applyRow"
  <2>1. q.motor \in metaMissed' /\ metaMissed \subseteq metaMissed'
    BY <1>1, <1>3 DEF LeavesMeta
  <2>2. request'[s] = Idle /\ \A u \in Slots : u # s => request'[u] = request[u]
    BY <1>1 DEF ConfigInv, Typed
  <2>3. Typed' /\ Apart'
    BY <1>1, <2>2 DEF ConfigInv, Typed, Shaped, Apart
  <2>4. \A n : n # q.motor => Lagging(n)' = Lagging(n) /\ s \notin Lagging(n)
    BY <1>3, <2>2 DEF Lagging, Idle
  <2>5. \A n : n # q.motor => \A u \in Lagging(n) : request'[u] = request[u]
    BY <2>2, <2>4 DEF Lagging
  <2>6. MemoryFollows'
    BY <1>1, <2>1, <2>4, <2>5 DEF ConfigInv, MemoryFollows
  <2>7. \A u \in Slots : Sound(request[u]) => Sound(request[u])'
    BY <1>1, <2>2 DEF Sound, Idle
  <2>8. InOrder'
    BY <1>1, <2>1, <2>7 DEF ConfigInv, InOrder, InOrderOf
  <2>9. QED
    BY <2>3, <2>6, <2>8 DEF ConfigInv
<1>4. QED
  BY <1>2, <1>3

\* What anybody may ask for, with any thresholds and parameters.
Asked(s) ==
  \/ \E m \in Motors : \/ \E dto : \/ Part(dto) /\ UpdateThresholds(s, m, dto)
                                  \/ UpdateMotor(s, m, dto) \/ UpsertAlertOverride(s, m, dto)
                       \/ ResetThresholds(s, m) \/ DeleteAlertOverride(s, m)
  \/ \E dto : Part(dto) /\ UpdateSensorStandard(s, dto)
  \/ \E dto : UpdateAlertConfig(s, dto)

\* Steps of Spec, and the steps of SpecPage as they appear here.
Steps == (\E s \in Slots : Asked(s) \/ Served(s) \/ QueryFails(s)) \/ Boot \/ UNCHANGED vars

LEMMA NextIsSteps == [Next]_vars => Steps
<1>1. \A dto \in ThresholdDtos : Part(dto)
  BY DtoAssumption DEF Part
<1>2. \A s \in Slots : Sent(s) => Asked(s)
  BY <1>1 DEF Sent, Asked
<1>3. QED
  BY <1>2 DEF Next, Steps

LEMMA PartNone == Part(NoOverride)
<1>1. NoOverride \in [{} -> Int]
  BY DEF NoOverride
<1>2. QED
  BY <1>1 DEF Part

LEMMA AskedKeeps ==
  ASSUME ConfigInv, NEW s \in Slots, Asked(s)
  PROVE  ConfigInv'
<1> USE DEF Labels, OfMotor, OfStandard
<1>1. ASSUME NEW m \in Motors, NEW dto, Part(dto), UpdateThresholds(s, m, dto) PROVE ConfigInv'
  BY <1>1, RequestBegins DEF UpdateThresholds
<1>2. ASSUME NEW m \in Motors, ResetThresholds(s, m) PROVE ConfigInv'
  BY <1>2, PartNone, RequestBegins DEF ResetThresholds
<1>3. ASSUME NEW dto, Part(dto), UpdateSensorStandard(s, dto) PROVE ConfigInv'
  BY <1>3, RequestBegins DEF UpdateSensorStandard
<1>4. ASSUME NEW m \in Motors, NEW dto, UpdateMotor(s, m, dto) \/ UpsertAlertOverride(s, m, dto)
      PROVE ConfigInv'
  BY <1>4, RequestBegins DEF UpdateMotor, UpsertAlertOverride
<1>5. ASSUME NEW m \in Motors, DeleteAlertOverride(s, m) PROVE ConfigInv'
  BY <1>5, RequestBegins DEF DeleteAlertOverride
<1>6. ASSUME NEW dto, UpdateAlertConfig(s, dto) PROVE ConfigInv'
  BY <1>6, RequestBegins DEF UpdateAlertConfig
<1>7. QED
  BY <1>1, <1>2, <1>3, <1>4, <1>5, <1>6 DEF Asked

LEMMA ServedKeeps ==
  ASSUME ConfigInv, NEW s \in Slots, Served(s)
  PROVE  ConfigInv'
<1> DEFINE q == request[s]
<1>1. CASE FindSensor(s)
  <2>1. Checked(s, "findSensor", "writeRow", Ordered(Merged(row[q.motor], q.dto)))
    BY <1>1 DEF history, missed, FindSensor, Checked, Valid, database, memory
  <2>2. QED
    BY <2>1, CheckedKeeps
<1>2. CASE ReadStandard(s)
  BY <1>2, ReadStandardKeeps
<1>3. CASE WriteRow(s) \/ WriteDefaults(s)
  BY <1>3, WriteRowKeeps
<1>4. CASE ApplyRow(s)
  BY <1>4, ApplyRowKeeps
<1>5. CASE FindStandard(s)
  <2>1. Checked(s, "findStandard", "writeStandard", Ordered(Merged(standard, q.dto)))
    BY <1>5 DEF history, missed, FindStandard, Checked, Valid, database, memory
  <2>2. QED
    BY <2>1, CheckedKeeps
<1>6. CASE WriteStandard(s)
  BY <1>6, WriteStandardKeeps
<1>7. CASE WriteColumns(s)
  <2>1. \E dto, found : With(s, "applyParams", dto, found)
    BY <1>7 DEF WriteColumns
  <2>2. QED
    BY <1>7, <2>1, OthersGoOn DEF WriteColumns, memory, missed, Labels, OfMotor, OfStandard
<1>8. CASE ApplyParams(s)
  BY <1>8, OthersGoOn DEF history, missed, ApplyParams, database, Labels, OfMotor, OfStandard
<1>9. CASE ReadGlobal(s)
  BY <1>9, OthersGoOn DEF history, missed, ReadGlobal, database, memory, Labels, OfMotor, OfStandard
<1>10. CASE WriteGlobal(s)
  BY <1>10, OthersGoOn DEF history, missed, WriteGlobal, memory, Labels, OfMotor, OfStandard
<1>11. CASE ReadOverrides(s)
  BY <1>11, OthersGoOn DEF history, missed, ReadOverrides, database, memory, Labels, OfMotor, OfStandard
<1>12. CASE ApplyGlobal(s)
  BY <1>12, OthersGoOn DEF history, missed, ApplyGlobal, database, Labels, OfMotor, OfStandard
<1>13. CASE WriteOverride(s)
  BY <1>13, OthersGoOn DEF history, missed, WriteOverride, memory, Labels, OfMotor, OfStandard
<1>14. CASE FindOverride(s)
  BY <1>14, OthersGoOn DEF history, missed, FindOverride, database, memory, Labels, OfMotor, OfStandard
<1>15. CASE DeleteOverride(s)
  BY <1>15, OthersGoOn DEF history, missed, DeleteOverride, memory, Labels, OfMotor, OfStandard
<1>16. CASE RevertToGlobal(s)
  BY <1>16, OthersGoOn DEF history, missed, RevertToGlobal, database, memory, Labels, OfMotor, OfStandard
<1>17. QED
  BY <1>1, <1>2, <1>3, <1>4, <1>5, <1>6, <1>7, <1>8, <1>9, <1>10, <1>11, <1>12, <1>13, <1>14,
     <1>15, <1>16 DEF Served

LEMMA ConfigInductive == ConfigInv /\ Steps => ConfigInv'
<1> SUFFICES ASSUME ConfigInv, Steps PROVE ConfigInv'
  OBVIOUS
<1>1. CASE Boot
  <2>1. /\ request' = [s \in Slots |-> Idle] /\ meta' = row
        /\ UNCHANGED <<standard, row, overlapped, rounded>>
    BY <1>1 DEF Boot, database
  <2>2. \A s \in Slots : request'[s] = Idle /\ request'[s].pc = "idle"
    BY <2>1 DEF Idle
  <2>3. Typed' /\ Apart'
    BY <2>1, <2>2 DEF ConfigInv, Typed, Apart, Shaped
  <2>4. MemoryFollows' /\ InOrder'
    BY <2>1, <2>2 DEF ConfigInv, MemoryFollows, Lagging, InOrder, InOrderOf, Sound
  <2>5. QED
    BY <2>3, <2>4 DEF ConfigInv
<1>2. CASE UNCHANGED vars
  BY <1>2 DEF history, missed, vars, database, memory, ConfigInv, Typed, Apart, MemoryFollows, Lagging,
              InOrder, InOrderOf, Sound
<1>3. QED
  BY <1>1, <1>2, AskedKeeps, ServedKeeps, FailsKeeps DEF Steps

LEMMA ConfigHolds == ConfigInv => ThresholdsInForce /\ ThresholdsOrdered
<1>1. ConfigInv => ThresholdsInForce
  BY DEF ConfigInv, Typed, Shaped, MemoryFollows, Lagging, ThresholdsInForce, Active, OfMotor, Idle
<1>2. ConfigInv => ThresholdsOrdered
  BY DEF ConfigInv, InOrder, InOrderOf, ThresholdsOrdered
<1>3. QED
  BY <1>1, <1>2

\* Between two requests the thresholds in memory are those of the database, for any number of
\* motors, requests, failed requests and restarts, with the exceptions ThresholdsInForce names
\* (updateThresholds and its hot reload).
THEOREM InForce == Spec => []ThresholdsInForce
  BY ConfigInit, ConfigInductive, NextIsSteps, ConfigHolds, PTL DEF Spec

\* Thresholds stay in order through any sequence of partial updates, resets and changes of the
\* standard, and apart unless a reset has rounded them, for any rated current and any standard
\* (updateThresholds, resetThresholds, computeStandardThresholds, updateSensorStandard).
THEOREM StaysOrdered == Spec => []ThresholdsOrdered
  BY ConfigInit, ConfigInductive, NextIsSteps, ConfigHolds, PTL DEF Spec

-----------------------------------------------------------------------------
(* The protection parameters.                                                *)

OfParams == Labels \ (OfMotor \union OfStandard)

OfOneMotor == OfParams \ {"readGlobal", "writeGlobal", "readOverrides", "applyGlobal"}

ParamRequests ==
  \A s \in Slots :
    /\ request[s].pc \in OfParams => request[s].target = "params"
    /\ request[s].pc \in OfOneMotor => request[s].motor \in Motors
    /\ request[s].pc = "writeOverride" => DOMAIN request[s].dto = Params

\* The request that is about to give memory what it should have.
Pending(r, m) ==
  \/ r.pc \in {"applyParams", "revertToGlobal"} /\ r.motor = m
  \/ r.pc \in {"readOverrides", "applyGlobal"} /\ override[m] = NoOverride

\* What such a request carries is what the database says.
Carries(r) ==
  /\ r.pc = "applyParams" => r.motor \in edited \/ r.dto = Prescribed(r.motor)
  /\ r.pc = "revertToGlobal" => override[r.motor] = NoOverride
  /\ r.pc \in {"readOverrides", "applyGlobal"} => r.dto = global
  /\ r.pc = "applyGlobal" => r.found = {m \in Motors : override[m] # NoOverride}

SettingsFollow ==
  crashes = 0 /\ "params" \notin overlapped =>
    /\ \A m \in Motors \ (edited \union paramsMissed) :
         params[m] = Prescribed(m) \/ \E s \in Slots : Pending(request[s], m)
    /\ \A s \in Slots : Carries(request[s])

SettingsTyped ==
  /\ params = [m \in Motors |-> params[m]] /\ columns = [m \in Motors |-> columns[m]]
  /\ override = [m \in Motors |-> override[m]]
  /\ crashes \in Nat

SettingsInv == SettingsTyped /\ ParamRequests /\ SettingsFollow

Live == {"applyParams", "revertToGlobal", "readOverrides", "applyGlobal"}

\* One request at a time is about the parameters, or that has been noticed.
LEMMA ParamAlone ==
  ASSUME ConfigInv, ParamRequests, "params" \notin overlapped, NEW s \in Slots, NEW u \in Slots,
         request[s].pc \in OfParams, request[u].pc \in OfParams
  PROVE  s = u
<1>1. request[s] # Idle /\ request[u] # Idle
  BY DEF Idle, OfParams, Labels
<1>2. QED
  BY <1>1 DEF ParamRequests, ConfigInv, Apart

\* What a request has become.
Became(s, next, dto, found) ==
  \E r : /\ request' = [request EXCEPT ![s] = r]
         /\ r.pc = next /\ r.target = request[s].target /\ r.motor = request[s].motor
         /\ r.dto = dto /\ r.found = found

LEMMA GotoBecame ==
  ASSUME ConfigInv, NEW s \in Slots, request[s] # Idle, NEW next, Goto(s, next)
  PROVE  Became(s, next, request[s].dto, request[s].found)
<1> DEFINE q == request[s]
           r == [q EXCEPT !.pc = next]
<1>1. q = [pc |-> q.pc, target |-> q.target, motor |-> q.motor, dto |-> q.dto, found |-> q.found]
  BY DEF ConfigInv, Typed, Shaped
<1>2. r.pc = next /\ r.target = q.target /\ r.motor = q.motor /\ r.dto = q.dto /\ r.found = q.found
  BY <1>1
<1>3. request' = [request EXCEPT ![s] = r]
  BY DEF Goto, ConfigInv, Typed
<1> HIDE DEF r
<1>4. QED
  BY <1>2, <1>3 DEF Became

LEMMA WithBecame ==
  ASSUME ConfigInv, NEW s \in Slots, request[s] # Idle, NEW next, NEW dto, NEW found,
         With(s, next, dto, found)
  PROVE  Became(s, next, dto, found)
<1> DEFINE r == [pc |-> next, target |-> request[s].target, motor |-> request[s].motor,
                 dto |-> dto, found |-> found]
<1>1. request' = [request EXCEPT ![s] = r]
  BY WithRecord
<1>2. /\ r.pc = next /\ r.target = request[s].target /\ r.motor = request[s].motor
      /\ r.dto = dto /\ r.found = found
  OBVIOUS
<1> HIDE DEF r
<1>3. QED
  BY <1>1, <1>2 DEF Became

\* A request that is over.
LEMMA FinishBecame ==
  ASSUME ConfigInv, NEW s \in Slots, Finish(s)
  PROVE  request' = [request EXCEPT ![s] = Idle] /\ Idle.pc = "idle" /\ Idle.pc \notin OfParams
BY DEF Finish, Idle, OfParams, Labels

\* Steps of requests that neither hold what memory waits for nor come to.
LEMMA PassiveStep ==
  ASSUME ConfigInv, SettingsInv, NEW s \in Slots, NEW r, request' = [request EXCEPT ![s] = r],
         request[s].pc \notin Live, r.pc \notin Live,
         r.pc \in OfParams => r.target = "params", r.pc \in OfOneMotor => r.motor \in Motors,
         r.pc = "writeOverride" => DOMAIN r.dto = Params,
         UNCHANGED <<params, override, columns, global, edited, crashes>>, overlapped \subseteq overlapped',
         paramsMissed \subseteq paramsMissed'
  PROVE  SettingsInv'
<1>1. request'[s] = r /\ \A u \in Slots : u # s => request'[u] = request[u]
  BY DEF ConfigInv, Typed
<1>2. ParamRequests'
  BY <1>1 DEF SettingsInv, ParamRequests
<1>3. ASSUME NEW m \in Motors, NEW u \in Slots, Pending(request[u], m) PROVE Pending(request[u], m)'
  BY <1>1, <1>3 DEF Pending, Live
<1>4. ASSUME NEW u \in Slots, Carries(request[u]) PROVE Carries(request[u])'
  BY <1>1, <1>4 DEF Carries, Live, Prescribed
<1>5. SettingsFollow'
  BY <1>3, <1>4 DEF SettingsInv, SettingsFollow, Prescribed
<1>6. QED
  BY <1>2, <1>5 DEF SettingsInv, SettingsTyped

\* Steps of the one request there is, otherwise.
LEMMA LiveStep ==
  ASSUME ConfigInv, SettingsInv, NEW s \in Slots, NEW r, request' = [request EXCEPT ![s] = r],
         request[s].pc \in OfParams, r.pc # "writeOverride", SettingsTyped',
         r.pc \in OfParams => r.target = "params", r.pc \in OfOneMotor => r.motor \in Motors,
         UNCHANGED overlapped, crashes' = crashes, edited \subseteq edited', paramsMissed \subseteq paramsMissed',
         "params" \notin overlapped /\ crashes = 0 =>
           /\ Carries(r)'
           /\ \A m \in Motors \ (edited' \union paramsMissed') :
                params[m] = Prescribed(m) \/ Pending(request[s], m) => params'[m] = Prescribed(m)' \/ Pending(r, m)'
  PROVE  SettingsInv'
<1>1. request'[s] = r /\ \A u \in Slots : u # s => request'[u] = request[u]
  BY DEF ConfigInv, Typed
<1>2. ParamRequests'
  BY <1>1 DEF SettingsInv, ParamRequests
<1>3. ASSUME crashes = 0, "params" \notin overlapped
      PROVE  /\ \A m \in Motors \ (edited' \union paramsMissed') : params'[m] = Prescribed(m)' \/ \E u \in Slots : Pending(request[u], m)'
             /\ \A u \in Slots : Carries(request[u])'
  <2>1. \A u \in Slots : u # s => request[u].pc \notin OfParams
    BY <1>3, ParamAlone DEF SettingsInv
  <2>2. Live \subseteq OfParams
    BY DEF Live, OfParams, Labels, OfMotor, OfStandard
  <2>3. \A u \in Slots : u # s => request[u].pc \notin Live
    BY <2>1, <2>2
  <2>4. \A u \in Slots : u # s => Carries(request[u])'
    BY <1>1, <2>3 DEF Carries, Live
  <2>5. Carries(request[s])'
    BY <1>1, <1>3 DEF Carries
  <2>6. ASSUME NEW m \in Motors \ (edited' \union paramsMissed')
        PROVE  params'[m] = Prescribed(m)' \/ Pending(request[s], m)'
    <3>1. params[m] = Prescribed(m) \/ \E u \in Slots : Pending(request[u], m)
      BY <1>3 DEF SettingsInv, SettingsFollow
    <3>2. params[m] = Prescribed(m) \/ Pending(request[s], m)
      BY <2>3, <3>1 DEF Pending, Live
    <3>3. params'[m] = Prescribed(m)' \/ Pending(r, m)'
      BY <1>3, <3>2
    <3>4. QED
      BY <1>1, <3>3 DEF Pending
  <2>7. QED
    BY <2>4, <2>5, <2>6
<1>4. SettingsFollow'
  BY <1>3 DEF SettingsFollow
<1>5. QED
  BY <1>2, <1>4 DEF SettingsInv

LEMMA SettingsAsked ==
  ASSUME ConfigInv, SettingsInv, NEW s \in Slots, Asked(s)
  PROVE  SettingsInv'
<1>1. ASSUME NEW label, NEW target, NEW m, NEW dto, Begin(s, label, target, m, dto),
             label \notin Live, label \in OfParams => target = "params", label \in OfOneMotor => m \in Motors,
             label = "writeOverride" => DOMAIN dto = Params
      PROVE  SettingsInv'
  <2> DEFINE r == [pc |-> label, target |-> target, motor |-> m, dto |-> dto, found |-> {}]
  <2>1. r.pc = label /\ r.target = target /\ r.motor = m /\ r.dto = dto
    OBVIOUS
  <2>2. /\ request[s].pc \notin Live /\ request' = [request EXCEPT ![s] = r]
        /\ UNCHANGED <<params, override, columns, global, edited, crashes, paramsMissed>>
        /\ overlapped \subseteq overlapped'
    BY <1>1 DEF Begin, At, database, memory, missed, Live
  <2> HIDE DEF r
  <2>3. QED
    BY <1>1, <2>1, <2>2, PassiveStep
<1> USE DEF Live, OfParams, Labels, OfMotor, OfStandard, OfOneMotor
<1>2. ASSUME NEW m \in Motors, NEW dto, UpdateThresholds(s, m, dto) PROVE SettingsInv'
  BY <1>1, <1>2 DEF UpdateThresholds
<1>3. ASSUME NEW m \in Motors, ResetThresholds(s, m) PROVE SettingsInv'
  BY <1>1, <1>3 DEF ResetThresholds
<1>4. ASSUME NEW m \in Motors, DeleteAlertOverride(s, m) PROVE SettingsInv'
  BY <1>1, <1>4 DEF DeleteAlertOverride
<1>5. ASSUME NEW m \in Motors, NEW dto, UpdateMotor(s, m, dto) PROVE SettingsInv'
  BY <1>1, <1>5 DEF UpdateMotor
<1>6. ASSUME NEW m \in Motors, NEW dto, UpsertAlertOverride(s, m, dto) PROVE SettingsInv'
  BY <1>1, <1>6 DEF UpsertAlertOverride
<1>7. ASSUME NEW dto, UpdateSensorStandard(s, dto) PROVE SettingsInv'
  BY <1>1, <1>7 DEF UpdateSensorStandard
<1>8. ASSUME NEW dto, UpdateAlertConfig(s, dto) PROVE SettingsInv'
  BY <1>1, <1>8 DEF UpdateAlertConfig
<1>9. QED
  BY <1>2, <1>3, <1>4, <1>5, <1>6, <1>7, <1>8 DEF Asked

\* Requests about thresholds, and parameters that are only read.
LEMMA SettingsPassive ==
  ASSUME ConfigInv, SettingsInv, NEW s \in Slots,
         \/ FindSensor(s) \/ ReadStandard(s) \/ WriteRow(s) \/ WriteDefaults(s) \/ ApplyRow(s)
         \/ FindStandard(s) \/ WriteStandard(s) \/ ReadGlobal(s) \/ FindOverride(s)
  PROVE  SettingsInv'
<1> DEFINE q == request[s]
<1>1. /\ q.pc \notin Live /\ q # Idle
      /\ q.pc \in {"readGlobal", "findOverride"} \/ q.pc \in OfMotor \/ q.pc \in OfStandard
      /\ UNCHANGED <<params, override, columns, global, edited, crashes, overlapped, paramsMissed>>
  BY DEF FindSensor, ReadStandard, WriteRow, WriteDefaults, Writes, ApplyRow, FindStandard, WriteStandard, ReadGlobal, FindOverride,
         At, Live, Idle, OfMotor, OfStandard, database, memory, budget, history, missed
<1>2. \/ Finish(s)
      \/ \E next \in OfMotor \union OfStandard : Goto(s, next) \/ \E dto, found : With(s, next, dto, found)
      \/ q.pc = "readGlobal" /\ \E dto, found : With(s, "writeGlobal", dto, found)
      \/ q.pc = "findOverride" /\ Goto(s, "deleteOverride")
  BY DEF FindSensor, ReadStandard, WriteRow, WriteDefaults, Writes, ApplyRow, FindStandard, WriteStandard,
         ReadGlobal, FindOverride, At, OfMotor, OfStandard
<1>3. CASE Finish(s)
  <2>1. /\ request' = [request EXCEPT ![s] = Idle] /\ Idle.pc = "idle" /\ Idle.pc \notin OfParams
        /\ Idle.pc \notin Live /\ Idle.pc \notin OfOneMotor
    BY <1>3, FinishBecame DEF Live, OfOneMotor
  <2>2. QED
    BY <1>1, <2>1, PassiveStep
<1>4. ASSUME NEW next, NEW dto, NEW found, Became(s, next, dto, found),
             \/ next \in OfMotor \union OfStandard
             \/ q.pc = "readGlobal" /\ next = "writeGlobal"
             \/ q.pc = "findOverride" /\ next = "deleteOverride"
      PROVE  SettingsInv'
  <2>1. PICK r : /\ request' = [request EXCEPT ![s] = r]
                 /\ r.pc = next /\ r.target = q.target /\ r.motor = q.motor
    BY <1>4 DEF Became
  <2>2. /\ r.pc \notin Live /\ r.pc # "writeOverride"
        /\ r.pc \in OfParams => q.pc \in OfParams
        /\ r.pc \in OfOneMotor => q.pc \in OfOneMotor
    BY <1>4, <2>1 DEF Live, OfParams, OfOneMotor, OfMotor, OfStandard, Labels
  <2>3. /\ r.pc \in OfParams => r.target = "params"
        /\ r.pc \in OfOneMotor => r.motor \in Motors
    BY <2>1, <2>2 DEF SettingsInv, ParamRequests
  <2>4. QED
    BY <1>1, <2>1, <2>2, <2>3, PassiveStep
<1>5. QED
  BY <1>1, <1>2, <1>3, <1>4, GotoBecame, WithBecame

\* A request holds new parameters for one motor, or gives them to memory.
LEMMA SettingsOfOne ==
  ASSUME ConfigInv, SettingsInv, NEW s \in Slots,
         WriteColumns(s) \/ ApplyParams(s) \/ WriteOverride(s) \/ DeleteOverride(s) \/ RevertToGlobal(s)
  PROVE  SettingsInv'
<1> DEFINE q == request[s]
           m == q.motor
<1>1. /\ q # Idle /\ q.pc \in OfParams /\ q.target = "params" /\ m \in Motors
      /\ UNCHANGED <<global, crashes, overlapped, paramsMissed>> /\ edited \subseteq edited'
  <2>1. q.pc \in OfOneMotor /\ q.pc \in OfParams
    BY DEF WriteColumns, ApplyParams, WriteOverride, DeleteOverride, RevertToGlobal, At, OfOneMotor, OfParams,
           OfMotor, OfStandard, Labels
  <2>2. q # Idle
    BY <2>1 DEF Idle, OfParams, Labels
  <2>3. QED
    BY <2>1, <2>2 DEF WriteColumns, ApplyParams, WriteOverride, DeleteOverride, RevertToGlobal, database,
                      budget, history, missed, SettingsInv, ParamRequests
<1>2. SettingsTyped'
  BY <1>1 DEF SettingsInv, SettingsTyped, WriteColumns, ApplyParams, WriteOverride, DeleteOverride,
              RevertToGlobal, database, memory
<1>3. CASE WriteColumns(s)
  <2>1. PICK r : request' = [request EXCEPT ![s] = r] /\ r.pc = "applyParams" /\ r.target = q.target /\ r.motor = m
    BY <1>1, <1>3, WithBecame DEF WriteColumns, Became
  <2>2. m \in edited' /\ UNCHANGED <<params, override>> /\ q.pc = "writeColumns"
    BY <1>3 DEF WriteColumns, memory, At
  <2>3. Carries(r)'
    BY <2>1, <2>2 DEF Carries
  <2>4. \A n \in Motors \ (edited' \union paramsMissed') :
          params[n] = Prescribed(n) \/ Pending(q, n) => params'[n] = Prescribed(n)' \/ Pending(r, n)'
    BY <1>1, <2>2 DEF Pending, Prescribed
  <2>5. QED
    BY <1>1, <1>2, <2>1, <2>3, <2>4, LiveStep
<1>4. CASE ApplyParams(s)
  <2>1. /\ request' = [request EXCEPT ![s] = Idle] /\ Idle.pc = "idle" /\ Idle.pc \notin OfParams
        /\ Idle.pc \notin OfOneMotor
    BY <1>4, FinishBecame DEF ApplyParams, OfOneMotor
  <2>2. /\ q.pc = "applyParams" /\ params' = [params EXCEPT ![m] = q.dto]
        /\ UNCHANGED <<override, edited>>
    BY <1>4 DEF ApplyParams, database, history, missed, At
  <2>3. Carries(Idle)'
    BY <2>1 DEF Carries
  <2>4. ASSUME "params" \notin overlapped, crashes = 0, NEW n \in Motors \ (edited' \union paramsMissed'),
               params[n] = Prescribed(n) \/ Pending(q, n)
        PROVE  params'[n] = Prescribed(n)'
    <3>1. CASE n = m
      <4>1. q.dto = Prescribed(m)
        BY <2>2, <2>4, <3>1 DEF SettingsInv, SettingsFollow, Carries
      <4>2. params'[n] = q.dto
        BY <1>1, <2>2, <3>1 DEF SettingsInv, SettingsTyped
      <4>3. QED
        BY <1>1, <2>2, <3>1, <4>1, <4>2 DEF Prescribed
    <3>2. CASE n # m
      <4>1. params'[n] = params[n] /\ ~Pending(q, n)
        BY <2>2, <3>2 DEF SettingsInv, SettingsTyped, Pending
      <4>2. QED
        BY <1>1, <2>2, <2>4, <4>1 DEF Prescribed
    <3>3. QED
      BY <3>1, <3>2
  <2>5. QED
    BY <1>1, <1>2, <2>1, <2>3, <2>4, LiveStep
<1>5. CASE WriteOverride(s)
  <2>1. PICK r : /\ request' = [request EXCEPT ![s] = r] /\ r.pc = "applyParams" /\ r.target = q.target
                 /\ r.motor = m /\ r.dto = q.dto
    BY <1>1, <1>5, GotoBecame DEF WriteOverride, Became
  <2>2. /\ q.pc = "writeOverride" /\ override' = [override EXCEPT ![m] = q.dto]
        /\ UNCHANGED <<params, edited>>
    BY <1>5 DEF WriteOverride, memory, history, missed, At
  <2>3. q.dto # NoOverride
    BY <2>2 DEF SettingsInv, ParamRequests, NoOverride, Params
  <2>4. override'[m] = q.dto /\ \A n \in Motors : n # m => override'[n] = override[n]
    BY <1>1, <2>2 DEF SettingsInv, SettingsTyped
  <2>5. Carries(r)'
    BY <2>1, <2>3, <2>4 DEF Carries, Prescribed
  <2>6. \A n \in Motors \ (edited' \union paramsMissed') :
          params[n] = Prescribed(n) \/ Pending(q, n) => params'[n] = Prescribed(n)' \/ Pending(r, n)'
    BY <1>1, <2>1, <2>2, <2>4 DEF Pending, Prescribed
  <2>7. QED
    BY <1>1, <1>2, <2>1, <2>5, <2>6, LiveStep
<1>6. CASE DeleteOverride(s)
  <2>1. /\ q.pc = "deleteOverride" /\ override' = [override EXCEPT ![m] = NoOverride]
        /\ UNCHANGED <<params, edited>>
    BY <1>6 DEF DeleteOverride, memory, history, missed, At
  <2>2. override'[m] = NoOverride /\ \A n \in Motors : n # m => override'[n] = override[n]
    BY <1>1, <2>1 DEF SettingsInv, SettingsTyped
  <2>3. CASE override[m] # NoOverride
    <3>1. PICK r : /\ request' = [request EXCEPT ![s] = r] /\ r.pc = "revertToGlobal" /\ r.target = q.target
                   /\ r.motor = m
      BY <1>1, <1>6, <2>3, GotoBecame DEF DeleteOverride, Became
    <3>2. Carries(r)'
      BY <2>2, <3>1 DEF Carries
    <3>3. \A n \in Motors \ (edited' \union paramsMissed') :
            params[n] = Prescribed(n) \/ Pending(q, n) => params'[n] = Prescribed(n)' \/ Pending(r, n)'
      BY <1>1, <2>1, <2>2, <3>1 DEF Pending, Prescribed
    <3>4. QED
      BY <1>1, <1>2, <3>1, <3>2, <3>3, LiveStep
  <2>4. CASE override[m] = NoOverride
    <3>1. /\ request' = [request EXCEPT ![s] = Idle] /\ Idle.pc = "idle" /\ Idle.pc \notin OfParams
          /\ Idle.pc \notin OfOneMotor
      BY <1>6, <2>4, FinishBecame DEF DeleteOverride, OfOneMotor
    <3>2. Carries(Idle)'
      BY <3>1 DEF Carries
    <3>3. \A n \in Motors \ (edited' \union paramsMissed') :
            params[n] = Prescribed(n) \/ Pending(q, n) => params'[n] = Prescribed(n)' \/ Pending(Idle, n)'
      BY <1>1, <2>1, <2>2, <2>4 DEF Pending, Prescribed
    <3>4. QED
      BY <1>1, <1>2, <3>1, <3>2, <3>3, LiveStep
  <2>5. QED
    BY <2>3, <2>4
<1>7. CASE RevertToGlobal(s)
  <2>1. PICK r : /\ request' = [request EXCEPT ![s] = r] /\ r.pc = "applyParams" /\ r.target = q.target
                 /\ r.motor = m /\ r.dto = global
    BY <1>1, <1>7, WithBecame DEF RevertToGlobal, Became
  <2>2. q.pc = "revertToGlobal" /\ UNCHANGED <<params, override, edited>>
    BY <1>7 DEF RevertToGlobal, database, memory, history, missed, At
  <2>3. "params" \notin overlapped /\ crashes = 0 => Carries(r)'
    BY <1>1, <2>1, <2>2 DEF SettingsInv, SettingsFollow, Carries, Prescribed
  <2>4. \A n \in Motors \ (edited' \union paramsMissed') :
          params[n] = Prescribed(n) \/ Pending(q, n) => params'[n] = Prescribed(n)' \/ Pending(r, n)'
    BY <1>1, <2>1, <2>2 DEF Pending, Prescribed
  <2>5. QED
    BY <1>1, <1>2, <2>1, <2>3, <2>4, LiveStep
<1>8. QED
  BY <1>3, <1>4, <1>5, <1>6, <1>7

\* The global parameters are written, and given to the motors that have none of their own.
LEMMA SettingsOfAll ==
  ASSUME ConfigInv, SettingsInv, NEW s \in Slots, WriteGlobal(s) \/ ReadOverrides(s) \/ ApplyGlobal(s)
  PROVE  SettingsInv'
<1> DEFINE q == request[s]
<1>1. /\ q # Idle /\ q.pc \in OfParams /\ q.target = "params"
      /\ UNCHANGED <<override, crashes, overlapped, edited, paramsMissed>>
  <2>1. q.pc \in OfParams
    BY DEF WriteGlobal, ReadOverrides, ApplyGlobal, At, OfParams, OfMotor, OfStandard, Labels
  <2>2. q # Idle
    BY <2>1 DEF Idle, OfParams, Labels
  <2>3. QED
    BY <2>1, <2>2 DEF WriteGlobal, ReadOverrides, ApplyGlobal, database, budget, history, missed, SettingsInv, ParamRequests
<1>2. SettingsTyped'
  BY <1>1 DEF SettingsInv, SettingsTyped, WriteGlobal, ReadOverrides, ApplyGlobal, database, memory
<1>3. CASE WriteGlobal(s)
  <2>1. PICK r : /\ request' = [request EXCEPT ![s] = r] /\ r.pc = "readOverrides" /\ r.target = q.target
                 /\ r.dto = q.dto
    BY <1>1, <1>3, GotoBecame DEF WriteGlobal, Became
  <2>2. q.pc = "writeGlobal" /\ global' = q.dto /\ UNCHANGED params
    BY <1>3 DEF WriteGlobal, memory, At
  <2>3. Carries(r)' /\ r.pc \notin OfOneMotor /\ r.pc # "writeOverride"
    BY <2>1, <2>2 DEF Carries, OfOneMotor
  <2>4. \A n \in Motors \ (edited' \union paramsMissed') :
          params[n] = Prescribed(n) \/ Pending(q, n) => params'[n] = Prescribed(n)' \/ Pending(r, n)'
    BY <1>1, <2>1, <2>2 DEF Pending, Prescribed
  <2>5. QED
    BY <1>1, <1>2, <2>1, <2>3, <2>4, LiveStep
<1>4. CASE ReadOverrides(s)
  <2>1. PICK r : /\ request' = [request EXCEPT ![s] = r] /\ r.pc = "applyGlobal" /\ r.target = q.target
                 /\ r.dto = q.dto /\ r.found = {m \in Motors : override[m] # NoOverride}
    BY <1>1, <1>4, WithBecame DEF ReadOverrides, Became
  <2>2. q.pc = "readOverrides" /\ UNCHANGED <<params, global>>
    BY <1>4 DEF ReadOverrides, database, memory, At
  <2>3. r.pc \notin OfOneMotor /\ ("params" \notin overlapped /\ crashes = 0 => Carries(r)')
    BY <1>1, <2>1, <2>2 DEF SettingsInv, SettingsFollow, Carries, OfOneMotor
  <2>4. \A n \in Motors \ (edited' \union paramsMissed') :
          params[n] = Prescribed(n) \/ Pending(q, n) => params'[n] = Prescribed(n)' \/ Pending(r, n)'
    BY <1>1, <2>1, <2>2 DEF Pending, Prescribed
  <2>5. QED
    BY <1>1, <1>2, <2>1, <2>3, <2>4, LiveStep
<1>5. CASE ApplyGlobal(s)
  <2>1. /\ request' = [request EXCEPT ![s] = Idle] /\ Idle.pc = "idle" /\ Idle.pc \notin OfParams
        /\ Idle.pc \notin OfOneMotor
    BY <1>5, FinishBecame DEF ApplyGlobal, OfOneMotor
  <2>2. /\ q.pc = "applyGlobal" /\ global' = global
        /\ params' = [n \in Motors |-> IF n \in q.found THEN params[n] ELSE q.dto]
    BY <1>5 DEF ApplyGlobal, database, At
  <2>3. Carries(Idle)'
    BY <2>1 DEF Carries
  <2>4. ASSUME "params" \notin overlapped, crashes = 0, NEW n \in Motors \ (edited' \union paramsMissed'),
               params[n] = Prescribed(n) \/ Pending(q, n)
        PROVE  params'[n] = Prescribed(n)'
    <3>1. q.dto = global /\ q.found = {m \in Motors : override[m] # NoOverride}
      BY <2>2, <2>4 DEF SettingsInv, SettingsFollow, Carries
    <3>2. QED
      BY <1>1, <2>2, <2>4, <3>1 DEF Prescribed, Pending
  <2>5. QED
    BY <1>1, <1>2, <2>1, <2>3, <2>4, LiveStep
<1>6. QED
  BY <1>3, <1>4, <1>5

\* The motors whose parameters were to be given to memory have been noted.
LEMMA SettingsFails ==
  ASSUME ConfigInv, SettingsInv, NEW s \in Slots, QueryFails(s)
  PROVE  SettingsInv'
<1> DEFINE q == request[s]
<1>1. /\ request' = [request EXCEPT ![s] = Idle]
      /\ UNCHANGED <<params, override, columns, global, edited, crashes, overlapped>>
      /\ paramsMissed' = paramsMissed \union LeavesParams(q)
  BY DEF QueryFails, Finish, database, memory, budget
<1>2. Idle.pc = "idle" /\ Idle.pc \notin OfParams /\ Idle.pc \notin Live /\ Idle.pc \notin OfOneMotor
  BY DEF Idle, OfParams, OfOneMotor, Labels, Live
<1>3. CASE q.pc \notin Live
  BY <1>1, <1>2, <1>3, PassiveStep
<1>4. CASE q.pc \in Live
  <2>1. q.pc \in OfParams
    BY <1>4 DEF Live, OfParams, Labels, OfMotor, OfStandard
  <2>2. Carries(Idle)'
    BY <1>2 DEF Carries
  <2>3. \A m \in Motors : Pending(q, m) => m \in paramsMissed'
    BY <1>1, <1>4 DEF Pending, Live, LeavesParams
  <2>4. \A m \in Motors \ (edited' \union paramsMissed') :
          params[m] = Prescribed(m) \/ Pending(q, m) => params'[m] = Prescribed(m)' \/ Pending(Idle, m)'
    BY <1>1, <2>3 DEF Prescribed
  <2>5. SettingsTyped'
    BY <1>1 DEF SettingsInv, SettingsTyped
  <2>6. QED
    BY <1>1, <1>2, <2>1, <2>2, <2>4, <2>5, LiveStep
<1>5. QED
  BY <1>3, <1>4

LEMMA SettingsInductive == ConfigInv /\ SettingsInv /\ Steps => SettingsInv'
<1> SUFFICES ASSUME ConfigInv, SettingsInv, Steps PROVE SettingsInv'
  OBVIOUS
<1>1. CASE Boot
  <2>1. /\ \A s \in Slots : request'[s] = Idle
        /\ crashes' = crashes + 1 /\ params' = columns /\ override' = override
    BY <1>1 DEF Boot, database
  <2>2. Idle.pc = "idle"
    BY DEF Idle
  <2>3. ParamRequests'
    BY <2>1, <2>2 DEF ParamRequests, OfParams, OfOneMotor, Labels
  <2>4. crashes' \in Nat /\ crashes' # 0
    BY <2>1 DEF SettingsInv, SettingsTyped
  <2>5. params' = [m \in Motors |-> params'[m]]
    BY <2>1 DEF SettingsInv, SettingsTyped
  <2>6. QED
    BY <1>1, <2>1, <2>3, <2>4, <2>5 DEF SettingsInv, SettingsTyped, SettingsFollow, Boot, database
<1>2. CASE UNCHANGED vars
  BY <1>2 DEF vars, database, memory, budget, history, missed, SettingsInv, SettingsTyped, ParamRequests,
              SettingsFollow, Pending, Carries, Prescribed
<1>3. QED
  BY <1>1, <1>2, SettingsAsked, SettingsPassive, SettingsOfOne, SettingsOfAll, SettingsFails DEF Steps, Served

LEMMA SettingsInit == Init => SettingsInv
<1> SUFFICES ASSUME Init PROVE SettingsInv
  OBVIOUS
<1>1. \A s \in Slots : request[s].pc = "idle"
  BY DEF Init, Idle
<1>2. ParamRequests
  BY <1>1 DEF ParamRequests, OfParams, OfOneMotor, Labels
<1>3. \A m \in Motors : params[m] = Default /\ global = Default /\ override[m] = NoOverride
  BY DEF Init
<1>4. SettingsFollow
  BY <1>1, <1>3 DEF SettingsFollow, Carries, Prescribed
<1>5. SettingsTyped
  BY DEF Init, SettingsTyped
<1>6. QED
  BY <1>2, <1>4, <1>5 DEF SettingsInv

LEMMA SettingsAtRest == ConfigInv /\ SettingsInv => SettingsInForce
<1> SUFFICES ASSUME ConfigInv, SettingsInv, crashes = 0, ParamsAtRest, NEW m \in Motors \ (edited \union paramsMissed)
             PROVE  params[m] = Prescribed(m)
  BY DEF SettingsInForce
<1>1. \A s \in Slots : request[s].pc \notin OfParams
  BY DEF ParamsAtRest, Active, SettingsInv, ParamRequests, OfParams, Labels
<1>2. \A s \in Slots : ~Pending(request[s], m)
  BY <1>1 DEF Pending, OfParams, Labels, OfMotor, OfStandard
<1>3. QED
  BY <1>2 DEF SettingsInv, SettingsFollow, ParamsAtRest

\* The protection parameters in memory are the override of the motor, or the global configuration,
\* for any number of motors, overrides and requests one after the other, until the backend boots,
\* for the motors that no failed request was to reach (updateAlertConfig, upsertAlertOverride,
\* deleteAlertOverride).
THEOREM SettingsHold == Spec => []SettingsInForce
<1>1. ConfigInv /\ SettingsInv /\ [Next]_vars => (ConfigInv /\ SettingsInv)'
  BY ConfigInductive, SettingsInductive, NextIsSteps
<1>2. QED
  BY ConfigInit, SettingsInit, SettingsAtRest, <1>1, PTL DEF Spec

-----------------------------------------------------------------------------
(* The page.                                                                 *)

Whole(got) ==
  /\ got = [q \in DOMAIN got |-> got[q]] /\ DOMAIN got \subseteq Queries
  /\ "motors" \in DOMAIN got => got["motors"] \in [Motors -> Table]
  /\ "standards" \in DOMAIN got => got["standards"] \in Table

LoadsTyped ==
  /\ \E S : loads \in Seq(S)
  /\ \A k \in DOMAIN loads : Whole(loads[k].got)

FormTyped(f) ==
  \/ f = NoForm
  \/ /\ f = [kind |-> f.kind, motor |-> f.motor, values |-> f.values, slot |-> f.slot]
     /\ f.motor \in Motors
     /\ f.kind \in OfThresholds => f.values \in Table

ShownTyped ==
  /\ Loaded => DOMAIN shown = Queries /\ Whole(shown) /\ defaults \in Table
  /\ FormTyped(form)

OfAfterOverride == {"readGlobal", "writeGlobal", "readOverrides", "applyGlobal"}

\* A request of the page that has been replied to is over.
CallTyped(s) ==
  /\ call[s] = [by |-> call[s].by, reply |-> call[s].reply, alerts |-> call[s].alerts]
  /\ call[s] # NoCall => call[s].reply \in {"awaited", "ok", "failed"}
  /\ call[s].reply \in {"ok", "failed"} => request[s] = Idle
  /\ call[s].reply = "awaited" /\ call[s].by = "afterOverride" => request[s].pc \in OfAfterOverride

CallsTyped == call = [s \in Slots |-> call[s]] /\ \A s \in Slots : CallTyped(s)

\* Unless a fetch is still to begin, what the last one has brought is what the database has.
Fresh ==
  (\A s \in Slots : ~Owed(s)) =>
    /\ Len(loads) = 0 /\ ~behind => shown = Database
    /\ Len(loads) # 0 /\ ~loads[Len(loads)].late =>
         \A q \in DOMAIN loads[Len(loads)].got : loads[Len(loads)].got[q] = Database[q]

PageInv == LoadsTyped /\ ShownTyped /\ CallsTyped /\ Fresh

LEMMA LoadsAreSeq ==
  ASSUME LoadsTyped
  PROVE  /\ Len(loads) \in Nat /\ DOMAIN loads = 1..Len(loads)
         /\ loads = [k \in 1..Len(loads) |-> loads[k]]
         /\ Len(loads) = 0 <=> loads = <<>>
<1>1. PICK S : loads \in Seq(S)
  BY DEF LoadsTyped
<1>2. QED
  BY <1>1, LenProperties, EmptySeq

LEMMA MakesSeq ==
  ASSUME NEW n \in Nat, NEW f, f = [k \in 1..n |-> f[k]]
  PROVE  (\E S : f \in Seq(S)) /\ Len(f) = n /\ DOMAIN f = 1..n
<1> DEFINE S == {f[k] : k \in 1..n}
<1>1. f \in [1..n -> S]
  OBVIOUS
<1>2. f \in Seq(S)
  BY <1>1, SeqDef
<1>3. Len(f) = n
  <2>1. Len(f) \in Nat /\ 1..Len(f) = 1..n
    BY <1>1, <1>2, LenProperties
  <2>2. QED
    BY <2>1
<1> HIDE DEF S
<1>4. QED
  BY <1>1, <1>2, <1>3

LEMMA DisturbLoads ==
  ASSUME LoadsTyped, Disturb
  PROVE  /\ LoadsTyped' /\ Len(loads)' = Len(loads)
         /\ behind' = TRUE
         /\ Len(loads) # 0 => loads'[Len(loads)].late = TRUE
<1>1. /\ Len(loads) \in Nat /\ DOMAIN loads = 1..Len(loads)
      /\ loads' = [k \in 1..Len(loads) |-> Late(loads[k])]
  BY LoadsAreSeq DEF Disturb
<1>2. \A k \in 1..Len(loads) : loads'[k].got = loads[k].got /\ loads'[k].late = TRUE
  BY <1>1 DEF Late
<1>3. loads' = [k \in 1..Len(loads) |-> loads'[k]]
  BY <1>1
<1>4. (\E S : loads' \in Seq(S)) /\ Len(loads') = Len(loads) /\ DOMAIN loads' = 1..Len(loads)
  BY <1>1, <1>3, MakesSeq
<1>5. \A k \in DOMAIN loads' : loads'[k].got = loads[k].got /\ loads'[k].late = TRUE /\ Whole(loads[k].got)
  BY <1>1, <1>2, <1>4 DEF LoadsTyped
<1>6. LoadsTyped'
  BY <1>2, <1>4, <1>5 DEF LoadsTyped, Whole
<1>7. QED
  BY <1>1, <1>4, <1>5, <1>6 DEF Disturb

LEMMA WithoutLoads ==
  ASSUME LoadsTyped, NEW k \in DOMAIN loads, loads' = Without(k)
  PROVE  /\ LoadsTyped' /\ Len(loads)' = Len(loads) - 1
         /\ k = Len(loads) /\ Len(loads)' # 0 => loads'[Len(loads)'].late = TRUE
         /\ k # Len(loads) => Len(loads)' # 0 /\ loads'[Len(loads)'] = loads[Len(loads)]
<1> DEFINE n == Len(loads) - 1
<1>1. /\ Len(loads) \in Nat /\ DOMAIN loads = 1..Len(loads) /\ k \in 1..Len(loads) /\ n \in Nat
      /\ loads' = [i \in 1..n |-> IF i < k THEN Late(loads[i]) ELSE loads[i + 1]]
  BY LoadsAreSeq DEF Without
<1>2. ASSUME NEW i \in 1..n
      PROVE  /\ i \in 1..Len(loads) /\ i + 1 \in 1..Len(loads)
             /\ i < k => loads'[i] = Late(loads[i])
             /\ ~(i < k) => loads'[i] = loads[i + 1]
  BY <1>1
<1>3. loads' = [i \in 1..n |-> loads'[i]]
  BY <1>1
<1>4. (\E S : loads' \in Seq(S)) /\ Len(loads') = n /\ DOMAIN loads' = 1..n
  BY <1>1, <1>3, MakesSeq
<1>5. ASSUME NEW i \in 1..n
      PROVE  Whole(loads'[i].got)
  <2>1. CASE i < k
    <3>1. i \in DOMAIN loads /\ Whole(loads[i].got)
      BY <1>1, <1>2 DEF LoadsTyped
    <3>2. loads'[i] = Late(loads[i])
      BY <1>2, <2>1
    <3>3. QED
      BY <3>1, <3>2 DEF Late
  <2>2. CASE ~(i < k)
    BY <1>1, <1>2, <2>2 DEF LoadsTyped
  <2>3. QED
    BY <2>1, <2>2
<1>6. LoadsTyped'
  BY <1>4, <1>5 DEF LoadsTyped, Whole
<1>7. k = Len(loads) /\ n # 0 => loads'[n].late = TRUE
  <2>1. k = Len(loads) /\ n # 0 => n \in 1..n /\ n < k
    BY <1>1
  <2>2. k = Len(loads) /\ n # 0 => loads'[n] = Late(loads[n])
    BY <1>2, <2>1
  <2>3. QED
    BY <2>2 DEF Late
<1>8. k # Len(loads) => n # 0 /\ loads'[n] = loads[Len(loads)]
  BY <1>1, <1>2
<1>9. QED
  BY <1>4, <1>6, <1>7, <1>8

LEMMA AnsweredLoads ==
  ASSUME ConfigInv, LoadsTyped, NEW k \in DOMAIN loads, NEW q \in Queries, AnswerQuery(k, q)
  PROVE  /\ LoadsTyped' /\ Len(loads)' = Len(loads)
         /\ \A j \in DOMAIN loads : j # k => loads'[j] = loads[j]
         /\ loads'[k].late = loads[k].late
         /\ \A x \in DOMAIN loads'[k].got :
              loads'[k].got[x] = IF x = q THEN Database[x] ELSE loads[k].got[x]
         /\ \A x \in DOMAIN loads'[k].got : x = q \/ x \in DOMAIN loads[k].got
<1> DEFINE g == [x \in DOMAIN loads[k].got \union {q} |-> IF x = q THEN Database[q] ELSE loads[k].got[x]]
           l == [got |-> g, late |-> loads[k].late]
<1>1. /\ Len(loads) \in Nat /\ DOMAIN loads = 1..Len(loads)
      /\ loads = [i \in 1..Len(loads) |-> loads[i]]
  BY LoadsAreSeq
<1>2. loads' = [loads EXCEPT ![k] = l]
  BY DEF AnswerQuery
<1>3. l.got = g /\ l.late = loads[k].late
  OBVIOUS
<1>4. Whole(loads[k].got)
  BY DEF LoadsTyped
<1>5. Whole(g)
  <2>1. g = [x \in DOMAIN g |-> g[x]] /\ DOMAIN g \subseteq Queries
    BY <1>4 DEF Whole
  <2>2. Database["motors"] = row /\ Database["standards"] = standard
    BY DEF Database
  <2>3. row \in [Motors -> Table] /\ standard \in Table
    BY DEF ConfigInv, Typed
  <2>4. ASSUME NEW x \in DOMAIN g
        PROVE  (x = q /\ g[x] = Database[x]) \/ (x \in DOMAIN loads[k].got /\ g[x] = loads[k].got[x])
    <3>1. x = q \/ x \in DOMAIN loads[k].got
      OBVIOUS
    <3>2. g[x] = IF x = q THEN Database[q] ELSE loads[k].got[x]
      OBVIOUS
    <3>3. QED
      BY <3>1, <3>2
  <2> HIDE DEF g
  <2>5. QED
    BY <1>4, <2>1, <2>2, <2>3, <2>4 DEF Whole
<1>6. /\ \A x \in DOMAIN g : g[x] = IF x = q THEN Database[x] ELSE loads[k].got[x]
      /\ \A x \in DOMAIN g : x = q \/ x \in DOMAIN loads[k].got
  OBVIOUS
<1> HIDE DEF l, g
<1>7. loads'[k] = l /\ (\A j \in DOMAIN loads : j # k => loads'[j] = loads[j])
  BY <1>1, <1>2
<1>8. loads' = [i \in 1..Len(loads) |-> loads'[i]]
  BY <1>1, <1>2
<1>9. (\E S : loads' \in Seq(S)) /\ Len(loads') = Len(loads) /\ DOMAIN loads' = 1..Len(loads)
  BY <1>1, <1>8, MakesSeq
<1>10. \A j \in DOMAIN loads' : Whole(loads'[j].got)
  BY <1>1, <1>3, <1>5, <1>7, <1>9 DEF LoadsTyped
<1>11. LoadsTyped'
  BY <1>9, <1>10 DEF LoadsTyped, Whole
<1>12. QED
  BY <1>3, <1>6, <1>7, <1>9, <1>11

LEMMA AppendedLoads ==
  ASSUME LoadsTyped, loads' = Append(loads, NewLoad)
  PROVE  /\ LoadsTyped' /\ Len(loads)' # 0
         /\ DOMAIN loads'[Len(loads)'].got = {}
<1>1. Len(loads) \in Nat /\ DOMAIN loads = 1..Len(loads)
  BY LoadsAreSeq
<1>2. PICK S : loads \in Seq(S)
  BY DEF LoadsTyped
<1> DEFINE T == S \union {NewLoad}
<1>3. loads \in Seq(T)
  BY <1>2, SeqMonotonic
<1>4. /\ loads' \in Seq(T) /\ Len(loads') = Len(loads) + 1
      /\ \A i \in 1..Len(loads) : loads'[i] = loads[i]
      /\ loads'[Len(loads) + 1] = NewLoad
  BY <1>3, AppendProperties
<1>5. DOMAIN loads' = 1..(Len(loads) + 1)
  BY <1>4, LenProperties
<1>6. Whole(NewLoad.got) /\ DOMAIN NewLoad.got = {}
  BY DEF NewLoad, NoAnswers, Whole
<1> HIDE DEF T
<1>7. \A i \in DOMAIN loads' : Whole(loads'[i].got)
  <2>1. \A i \in DOMAIN loads' : i \in DOMAIN loads \/ i = Len(loads) + 1
    BY <1>1, <1>5
  <2>2. QED
    BY <1>1, <1>4, <1>6, <2>1 DEF LoadsTyped
<1>8. LoadsTyped'
  BY <1>4, <1>7 DEF LoadsTyped, Whole
<1>9. QED
  BY <1>1, <1>4, <1>6, <1>8

\* What the page sends is among what anybody may send.
LEMMA PageAsks ==
  ASSUME ConfigInv, ShownTyped, NEW s \in Slots, PageSends(s)
  PROVE  Asked(s) /\ ShownTyped'
<1>0. /\ Loaded /\ Whole(shown) /\ DOMAIN shown = Queries /\ defaults \in Table
      /\ shown["standards"] \in Table
  BY DEF PageSends, ShownTyped, Whole, Queries
<1>1. \A typed \in Typing(ThresholdDtos) : Part(typed)
  BY DtoAssumption, PartNone DEF Typing, Part
<1>2. \A t \in Table : Part(t)
  BY DEF Part, Table
<1>3. UNCHANGED shown
  BY DEF PageSends, SubmitThresholds, SubmitOverride, SaveStandard, SaveGlobal, DeleteRule,
         DeleteShownOverride, Submits, Clicks, Sends
<1>4. ASSUME NEW values, NEW m \in Motors, form.kind \in OfThresholds => values \in Table,
             FormTyped(form), form # NoForm, form.motor = m, Submits(s, values)
      PROVE  FormTyped(form')
  <2> DEFINE f == [kind |-> form.kind, motor |-> form.motor, values |-> values, slot |-> s]
  <2>1. form' = f
    BY <1>4 DEF Submits, FormTyped
  <2>2. f.kind = form.kind /\ f.motor = m /\ f.values = values
    BY <1>4
  <2>3. f = [kind |-> f.kind, motor |-> f.motor, values |-> f.values, slot |-> f.slot]
    OBVIOUS
  <2> HIDE DEF f
  <2>4. QED
    BY <1>4, <2>1, <2>2, <2>3 DEF FormTyped
<1>5. ASSUME NEW typed \in Typing(ThresholdDtos), SubmitThresholds(s, typed)
      PROVE  Asked(s) /\ ShownTyped'
  <2>1. /\ form # NoForm /\ FormTyped(form) /\ form.motor \in Motors /\ form.values \in Table
    BY <1>5 DEF SubmitThresholds, ShownTyped, FormTyped, NoForm, OfThresholds
  <2>2. Effective(form.motor, shown["standards"]) \in Table
    BY <1>0, <2>1, EffectiveOrdered
  <2>3. PICK values \in {form.values, Effective(form.motor, shown["standards"])} :
          UpdateThresholds(s, form.motor, Merged(values, typed)) /\ Submits(s, Merged(values, typed))
    BY <1>5 DEF SubmitThresholds
  <2>4. values \in Table
    BY <2>1, <2>2
  <2>5. Merged(values, typed) \in Table
    BY <1>1, <2>4, MergedTable
  <2>6. Asked(s)
    BY <1>2, <2>1, <2>3, <2>5 DEF Asked
  <2>7. FormTyped(form')
    BY <1>4, <2>1, <2>3, <2>5
  <2>8. UNCHANGED defaults
    BY <2>3 DEF Submits
  <2>9. QED
    BY <1>0, <1>3, <2>6, <2>7, <2>8 DEF ShownTyped, FormTyped, Loaded, Whole
<1>6. ASSUME NEW typed, SubmitOverride(s, typed)
      PROVE  Asked(s) /\ ShownTyped'
  <2>1. /\ form # NoForm /\ FormTyped(form) /\ form.motor \in Motors /\ form.kind \notin OfThresholds
    BY <1>6 DEF SubmitOverride, ShownTyped, FormTyped, NoForm, OfOverride, OfThresholds
  <2>2. FormTyped(form') /\ UNCHANGED defaults
    BY <1>4, <1>6, <2>1 DEF SubmitOverride, Submits
  <2>3. Asked(s)
    BY <1>6, <2>1 DEF SubmitOverride, Asked
  <2>4. QED
    BY <1>0, <1>3, <2>2, <2>3 DEF ShownTyped, FormTyped, Loaded, Whole
<1>7. ASSUME NEW typed \in Typing(ThresholdDtos), SaveStandard(s, typed)
      PROVE  Asked(s) /\ ShownTyped'
  <2>1. Merged(defaults, typed) \in Table
    BY <1>0, <1>1, MergedTable
  <2>2. defaults' \in Table /\ UNCHANGED form
    BY <1>7, <2>1 DEF SaveStandard, Clicks
  <2>3. Asked(s)
    BY <1>2, <1>7, <2>1 DEF SaveStandard, Asked
  <2>4. QED
    BY <1>0, <1>3, <2>2, <2>3 DEF ShownTyped, FormTyped, Loaded, Whole
<1>8. ASSUME \/ \E typed : SaveGlobal(s, typed)
             \/ \E m \in Motors : DeleteRule(s, m) \/ DeleteShownOverride(s, m)
      PROVE  Asked(s) /\ ShownTyped'
  <2>1. UNCHANGED <<form, defaults>>
    BY <1>8 DEF SaveGlobal, DeleteRule, DeleteShownOverride, Clicks
  <2>2. Asked(s)
    BY <1>8 DEF SaveGlobal, DeleteRule, DeleteShownOverride, Asked
  <2>3. QED
    BY <1>0, <1>3, <2>1, <2>2 DEF ShownTyped, FormTyped, Loaded, Whole
<1>9. QED
  BY <1>5, <1>6, <1>7, <1>8 DEF PageSends

\* The other requests and calls stay what they are, and what they owe.
LEMMA SlotStep ==
  ASSUME CallsTyped, NEW s \in Slots, call' = [u \in Slots |-> call'[u]],
         \A u \in Slots : u # s => request'[u] = request[u] /\ call'[u] = call[u],
         CallTyped(s)', Owed(s) => Owed(s)'
  PROVE  CallsTyped' /\ \A u \in Slots : Owed(u) => Owed(u)'
<1>1. ASSUME NEW u \in Slots, u # s PROVE CallTyped(u)' /\ (Owed(u) => Owed(u)')
  <2>1. request'[u] = request[u] /\ call'[u] = call[u]
    BY <1>1
  <2>2. CallTyped(u)
    BY DEF CallsTyped
  <2>3. QED
    BY <2>1, <2>2 DEF CallTyped, Owed
<1>2. QED
  BY <1>1 DEF CallsTyped

LEMMA FreshStays ==
  ASSUME Fresh, UNCHANGED <<shown, loads, behind>>, \A u \in Slots : Owed(u) => Owed(u)',
         Database' = Database \/ \E u \in Slots : Owed(u)'
  PROVE  Fresh'
  BY DEF Fresh

LEMMA FreshDisturbed ==
  ASSUME LoadsTyped, Disturb
  PROVE  Fresh' /\ LoadsTyped'
<1>1. /\ LoadsTyped' /\ Len(loads)' = Len(loads) /\ behind' = TRUE
      /\ Len(loads) # 0 => loads'[Len(loads)].late = TRUE
  BY DisturbLoads
<1>2. QED
  BY <1>1 DEF Fresh

\* A change of one entry.
LEMMA OneCall ==
  ASSUME CallsTyped, NEW s \in Slots, NEW c, call' = [call EXCEPT ![s] = c]
  PROVE  /\ call'[s] = c /\ call' = [u \in Slots |-> call'[u]]
         /\ \A u \in Slots : u # s => call'[u] = call[u]
  BY DEF CallsTyped

LEMMA OneRequest ==
  ASSUME ConfigInv, NEW s \in Slots, NEW r, request' = [request EXCEPT ![s] = r]
  PROVE  request'[s] = r /\ \A u \in Slots : u # s => request'[u] = request[u]
  BY DEF ConfigInv, Typed

LEMMA SameDatabase ==
  ASSUME UNCHANGED <<row, standard, global, override>>
  PROVE  Database' = Database
  BY DEF Database

LEMMA BeginChanges ==
  ASSUME NEW s, NEW label, NEW target, NEW m, NEW dto, Begin(s, label, target, m, dto)
  PROVE  /\ \E r : request' = [request EXCEPT ![s] = r] /\ r.pc = label
         /\ Database' = Database
<1> DEFINE r == [pc |-> label, target |-> target, motor |-> m, dto |-> dto, found |-> {}]
<1>1. request' = [request EXCEPT ![s] = r] /\ r.pc = label
  BY DEF Begin
<1>2. Database' = Database
  BY SameDatabase DEF Begin, database
<1> HIDE DEF r
<1>3. QED
  BY <1>1, <1>2

LEMMA PageSendsKeeps ==
  ASSUME ConfigInv, PageInv, NEW s \in Slots, PageSends(s)
  PROVE  Asked(s) /\ PageInv'
<1>1. Asked(s) /\ ShownTyped'
  BY PageAsks DEF PageInv
<1>2. PICK by : Sends(s, by) /\ by # "afterOverride"
  <2>1. CASE \E typed : SubmitThresholds(s, typed) \/ SubmitOverride(s, typed)
    <3>1. Sends(s, form.kind) /\ form.kind \in OfThresholds \union OfOverride
      BY <2>1 DEF SubmitThresholds, SubmitOverride, Submits
    <3>2. form.kind # "afterOverride"
      BY <3>1 DEF OfThresholds, OfOverride
    <3>3. QED
      BY <3>1, <3>2
  <2>2. CASE ~(\E typed : SubmitThresholds(s, typed) \/ SubmitOverride(s, typed))
    <3>1. Sends(s, "standard") \/ Sends(s, "global") \/ Sends(s, "deleteRule") \/ Sends(s, "deleteOverride")
      BY <2>2 DEF PageSends, SaveStandard, SaveGlobal, DeleteRule, DeleteShownOverride, Clicks
    <3>2. QED
      BY <3>1
  <2>3. QED
    BY <2>1, <2>2
<1>3. \E label, target, m, dto : Begin(s, label, target, m, dto)
  BY DEF PageSends, SubmitThresholds, SubmitOverride, SaveStandard, SaveGlobal, DeleteRule,
         DeleteShownOverride, UpdateThresholds, UpsertAlertOverride, UpdateSensorStandard,
         UpdateAlertConfig, ResetThresholds, DeleteAlertOverride
<1>4. Database' = Database /\ \A u \in Slots : u # s => request'[u] = request[u]
  BY <1>3, BeginChanges, OneRequest
<1> DEFINE c == [by |-> by, reply |-> "awaited",
                 alerts |-> IF by = "newOverride" THEN shown["alerts"] ELSE NoAnswers]
<1>5. call[s] = NoCall /\ call' = [call EXCEPT ![s] = c] /\ UNCHANGED <<shown, loads, behind>>
  BY <1>2 DEF Sends
<1>6. c.by = by /\ c.reply = "awaited" /\ c = [by |-> c.by, reply |-> c.reply, alerts |-> c.alerts]
  OBVIOUS
<1> HIDE DEF c
<1>7. /\ call'[s] = c /\ call' = [u \in Slots |-> call'[u]]
      /\ \A u \in Slots : u # s => call'[u] = call[u]
  BY <1>5, OneCall DEF PageInv
<1>8. CallTyped(s)' /\ ~Owed(s)
  BY <1>2, <1>5, <1>6, <1>7 DEF CallTyped, Owed
<1>9. CallsTyped' /\ \A u \in Slots : Owed(u) => Owed(u)'
  BY <1>4, <1>7, <1>8, SlotStep DEF PageInv
<1>10. LoadsTyped'
  BY <1>5 DEF PageInv, LoadsTyped, Whole
<1>11. Fresh'
  BY <1>4, <1>5, <1>9, FreshStays DEF PageInv
<1>12. QED
  BY <1>1, <1>9, <1>10, <1>11 DEF PageInv

LEMMA OthersSendKeeps ==
  ASSUME ConfigInv, PageInv, NEW s \in Slots, SentByOthers(s)
  PROVE  PageInv'
<1>1. call[s] = NoCall /\ UNCHANGED <<shown, loads, form, defaults, call, behind>>
  BY DEF SentByOthers, page
<1>2. \E label, target, m, dto : Begin(s, label, target, m, dto)
  BY DEF SentByOthers, Sent, UpdateThresholds, UpdateMotor, UpsertAlertOverride, UpdateSensorStandard,
         UpdateAlertConfig, ResetThresholds, DeleteAlertOverride
<1>3. Database' = Database /\ \A u \in Slots : u # s => request'[u] = request[u]
  BY <1>2, BeginChanges, OneRequest
<1>4. CallTyped(s)' /\ ~Owed(s)
  <2>1. call'[s] = NoCall /\ NoCall.reply = "none"
    BY <1>1 DEF NoCall
  <2>2. CallTyped(s)
    BY DEF PageInv, CallsTyped
  <2>3. QED
    BY <1>1, <2>1, <2>2 DEF CallTyped, Owed
<1>5. CallsTyped' /\ \A u \in Slots : Owed(u) => Owed(u)'
  <2>1. call' = [u \in Slots |-> call'[u]]
    BY <1>1 DEF PageInv, CallsTyped
  <2>2. QED
    BY <1>1, <1>3, <1>4, <2>1, SlotStep DEF PageInv
<1>6. LoadsTyped' /\ ShownTyped'
  BY <1>1 DEF PageInv, LoadsTyped, ShownTyped, FormTyped, Loaded, Whole
<1>7. Fresh'
  BY <1>1, <1>3, <1>5, FreshStays DEF PageInv
<1>8. QED
  BY <1>5, <1>6, <1>7 DEF PageInv

\* What the steps of a request do to what the page is shown, and to the request.
LEMMA ServedSteps ==
  ASSUME ConfigInv, SettingsTyped, NEW s \in Slots, Served(s)
  PROVE  /\ request[s] # Idle
         /\ \E r : request' = [request EXCEPT ![s] = r]
         /\ \/ /\ request'[s] = Idle /\ request[s].pc \in LastSteps
            \/ /\ request'[s] # Idle
               /\ request'[s].pc \in {"applyRow", "readOverrides", "applyGlobal", "revertToGlobal", "applyParams"}
               /\ request[s].pc \in OfAfterOverride => request'[s].pc \in OfAfterOverride
            \/ /\ Database' = Database
               /\ request[s].pc \notin
                    {"applyRow", "readOverrides", "applyGlobal", "revertToGlobal", "applyParams"}
               /\ \/ request'[s] # Idle /\ (request[s].pc \in OfAfterOverride => request'[s].pc = "writeGlobal")
                  \/ request'[s] = Idle /\ request[s].pc \notin OfAfterOverride
<1> DEFINE q == request[s]
<1>1. q # Idle
  BY DEF Served, FindSensor, ReadStandard, WriteRow, WriteDefaults, ApplyRow, FindStandard, WriteStandard, WriteColumns,
         ApplyParams, ReadGlobal, WriteGlobal, ReadOverrides, ApplyGlobal, WriteOverride, FindOverride,
         DeleteOverride, RevertToGlobal, At, Idle
<1>2. ASSUME NEW next, next # "idle", Goto(s, next) \/ \E dto, found : With(s, next, dto, found)
      PROVE  (\E r : request' = [request EXCEPT ![s] = r]) /\ request'[s].pc = next /\ request'[s] # Idle
  <2>1. PICK r : request' = [request EXCEPT ![s] = r] /\ r.pc = next
    BY <1>1, <1>2, GotoBecame, WithBecame DEF Became
  <2>2. request'[s] = r
    BY <2>1, OneRequest
  <2>3. r # Idle
    BY <1>2, <2>1 DEF Idle
  <2>4. QED
    BY <2>1, <2>2, <2>3
<1>3. ASSUME Finish(s) PROVE (\E r : request' = [request EXCEPT ![s] = r]) /\ request'[s] = Idle
  BY <1>3, OneRequest DEF Finish
<1>4. CASE FindSensor(s) \/ ReadStandard(s) \/ FindStandard(s) \/ FindOverride(s) \/ ReadGlobal(s)
  <2>1. Database' = Database
    BY <1>4, SameDatabase DEF FindSensor, ReadStandard, FindStandard, FindOverride, ReadGlobal, database
  <2>2. q.pc \in {"findSensor", "readStandard", "findStandard", "findOverride", "readGlobal"}
    BY <1>4 DEF FindSensor, ReadStandard, FindStandard, FindOverride, ReadGlobal, At
  <2>3. \/ q.pc # "readGlobal" /\ Finish(s)
        \/ q.pc # "readGlobal" /\ \E next \in {"writeRow", "writeDefaults", "writeStandard", "deleteOverride"} :
             Goto(s, next) \/ \E dto, found : With(s, next, dto, found)
        \/ \E dto, found : With(s, "writeGlobal", dto, found)
    BY <1>4 DEF FindSensor, ReadStandard, FindStandard, FindOverride, ReadGlobal, At
  <2>4. CASE q.pc # "readGlobal" /\ Finish(s)
    BY <1>1, <1>3, <2>1, <2>2, <2>4 DEF OfAfterOverride
  <2>5. CASE q.pc # "readGlobal" /\ \E next \in {"writeRow", "writeDefaults", "writeStandard", "deleteOverride"} :
               Goto(s, next) \/ \E dto, found : With(s, next, dto, found)
    BY <1>1, <1>2, <2>1, <2>2, <2>5 DEF OfAfterOverride
  <2>6. CASE \E dto, found : With(s, "writeGlobal", dto, found)
    BY <1>1, <1>2, <2>1, <2>2, <2>6 DEF OfAfterOverride
  <2>7. QED
    BY <2>3, <2>4, <2>5, <2>6
<1>5. CASE ApplyRow(s) \/ WriteStandard(s) \/ ApplyGlobal(s) \/ ApplyParams(s)
  BY <1>1, <1>3, <1>5 DEF ApplyRow, WriteStandard, ApplyGlobal, ApplyParams, At, LastSteps
<1>6. CASE WriteRow(s) \/ WriteDefaults(s) \/ WriteColumns(s) \/ WriteOverride(s) \/ RevertToGlobal(s)
  <2>1. q.pc \notin OfAfterOverride
    BY <1>6 DEF WriteRow, WriteDefaults, Writes, WriteColumns, WriteOverride, RevertToGlobal, At, OfAfterOverride
  <2>2. \E next \in {"applyRow", "applyParams"} : Goto(s, next) \/ \E dto, found : With(s, next, dto, found)
    BY <1>6 DEF WriteRow, WriteDefaults, Writes, WriteColumns, WriteOverride, RevertToGlobal
  <2>3. QED
    BY <1>1, <1>2, <2>1, <2>2
<1>7. CASE WriteGlobal(s) \/ ReadOverrides(s)
  <2>1. \E next \in {"readOverrides", "applyGlobal"} : Goto(s, next) \/ \E dto, found : With(s, next, dto, found)
    BY <1>7 DEF WriteGlobal, ReadOverrides
  <2>2. QED
    BY <1>1, <1>2, <2>1 DEF OfAfterOverride
<1>8. CASE DeleteOverride(s)
  <2>1. q.pc = "deleteOverride" /\ q.pc \notin OfAfterOverride
    BY <1>8 DEF DeleteOverride, At, OfAfterOverride
  <2>2. CASE override[q.motor] # NoOverride
    BY <1>1, <1>2, <1>8, <2>1, <2>2 DEF DeleteOverride
  <2>3. CASE override[q.motor] = NoOverride
    <3>1. UNCHANGED override
      BY <1>8, <2>3 DEF DeleteOverride, SettingsTyped
    <3>2. Database' = Database
      BY <1>8, <3>1, SameDatabase DEF DeleteOverride
    <3>3. QED
      BY <1>1, <1>3, <1>8, <2>1, <2>3, <3>2 DEF DeleteOverride
  <2>4. QED
    BY <2>2, <2>3
<1>9. QED
  BY <1>4, <1>5, <1>6, <1>7, <1>8 DEF Served

LEMMA ServedToPageKeeps ==
  ASSUME ConfigInv, SettingsInv, PageInv, NEW s \in Slots, ServedToPage(s)
  PROVE  PageInv'
<1> DEFINE Owing == {"applyRow", "readOverrides", "applyGlobal", "revertToGlobal", "applyParams"}
<1>1. Served(s) /\ Replied(s) /\ UNCHANGED <<shown, form, defaults>>
  BY DEF ServedToPage
<1>2. request[s] # Idle /\ \A u \in Slots : u # s => request'[u] = request[u]
  BY <1>1, ServedSteps, OneRequest DEF SettingsInv
<1>3. ShownTyped'
  BY <1>1 DEF PageInv, ShownTyped, FormTyped, Loaded, Whole
<1>4. CallTyped(s)
  BY DEF PageInv, CallsTyped
<1>5. CASE call[s] = NoCall
  <2>1. UNCHANGED call /\ call[s].reply = "none"
    BY <1>1, <1>5 DEF Replied, Replies, NoCall
  <2>2. CallTyped(s)' /\ ~Owed(s)
    BY <1>4, <1>5, <2>1 DEF CallTyped, Owed
  <2>3. CallsTyped' /\ \A u \in Slots : Owed(u) => Owed(u)'
    <3>1. call' = [u \in Slots |-> call'[u]]
      BY <2>1 DEF PageInv, CallsTyped
    <3>2. QED
      BY <1>2, <2>1, <2>2, <3>1, SlotStep DEF PageInv
  <2>4. CASE Disturb
    BY <1>3, <2>3, <2>4, FreshDisturbed DEF PageInv
  <2>5. CASE ~Disturb
    <3>1. Database' = Database /\ UNCHANGED <<loads, behind>>
      BY <1>5, <2>5 DEF ServedToPage
    <3>2. LoadsTyped'
      BY <3>1 DEF PageInv, LoadsTyped, Whole
    <3>3. Fresh'
      BY <1>1, <2>3, <3>1, FreshStays DEF PageInv
    <3>4. QED
      BY <1>3, <2>3, <3>2, <3>3 DEF PageInv
  <2>6. QED
    BY <2>4, <2>5
<1>6. CASE call[s] # NoCall
  <2>1. call[s].reply = "awaited" /\ UNCHANGED <<loads, behind>>
    BY <1>2, <1>4, <1>6 DEF CallTyped, ServedToPage
  <2> DEFINE c == [by |-> call[s].by, alerts |-> call[s].alerts,
                   reply |-> IF request'[s] = Idle
                               THEN IF request[s].pc \in LastSteps THEN "ok" ELSE "failed"
                               ELSE "awaited"]
  <2>2. call' = [call EXCEPT ![s] = c]
    BY <1>1, <1>4, <1>6, <2>1 DEF Replied, Replies, CallTyped, PageInv, CallsTyped
  <2>3. /\ c.by = call[s].by /\ c = [by |-> c.by, reply |-> c.reply, alerts |-> c.alerts]
        /\ request'[s] # Idle => c.reply = "awaited"
        /\ request'[s] = Idle => c.reply = IF request[s].pc \in LastSteps THEN "ok" ELSE "failed"
    OBVIOUS
  <2> HIDE DEF c
  <2>4. /\ call'[s] = c /\ call' = [u \in Slots |-> call'[u]]
        /\ \A u \in Slots : u # s => call'[u] = call[u]
    BY <2>2, OneCall DEF PageInv
  <2>5. /\ CallTyped(s)'
        /\ Owed(s) \/ Database' # Database => Owed(s)'
    <3>1. call[s].by = "afterOverride" => request[s].pc \in OfAfterOverride
      BY <1>4, <2>1 DEF CallTyped
    <3>2. c # NoCall
      BY <2>3 DEF NoCall
    <3>3. CASE request'[s] = Idle /\ request[s].pc \in LastSteps
      BY <2>3, <2>4, <3>2, <3>3 DEF CallTyped, Owed
    <3>4. CASE /\ request'[s] # Idle /\ request'[s].pc \in Owing
               /\ request[s].pc \in OfAfterOverride => request'[s].pc \in OfAfterOverride
      BY <2>3, <2>4, <3>1, <3>2, <3>4 DEF CallTyped, Owed
    <3>5. CASE /\ Database' = Database /\ request[s].pc \notin Owing
               /\ \/ request'[s] # Idle /\ (request[s].pc \in OfAfterOverride => request'[s].pc = "writeGlobal")
                  \/ request'[s] = Idle /\ request[s].pc \notin OfAfterOverride
      <4>1. Owed(s) => call[s].by = "afterOverride"
        BY <2>1, <3>5 DEF Owed
      <4>2. CallTyped(s)'
        BY <2>3, <2>4, <3>1, <3>2, <3>5 DEF CallTyped, OfAfterOverride
      <4>3. call[s].by = "afterOverride" => Owed(s)'
        BY <2>3, <2>4, <3>1, <3>2, <3>5 DEF Owed
      <4>4. QED
        BY <3>5, <4>1, <4>2, <4>3
    <3>6. QED
      BY <1>1, <3>3, <3>4, <3>5, ServedSteps DEF SettingsInv
  <2>6. CallsTyped' /\ \A u \in Slots : Owed(u) => Owed(u)'
    BY <1>2, <2>4, <2>5, SlotStep DEF PageInv
  <2>7. LoadsTyped'
    BY <2>1 DEF PageInv, LoadsTyped, Whole
  <2>8. Fresh'
    BY <1>1, <2>1, <2>5, <2>6, FreshStays DEF PageInv
  <2>9. QED
    BY <1>3, <2>6, <2>7, <2>8 DEF PageInv
<1>7. QED
  BY <1>5, <1>6

\* The page is told that its request has failed, and not what it had written by then.
LEMMA FailsUnderPageKeeps ==
  ASSUME ConfigInv, PageInv, NEW s \in Slots, QueryFailsUnderPage(s)
  PROVE  PageInv'
<1>1. /\ request' = [request EXCEPT ![s] = Idle] /\ request[s] # Idle
      /\ UNCHANGED <<row, standard, global, override, shown, form, defaults>>
  BY DEF QueryFailsUnderPage, QueryFails, Finish, At, Idle, database
<1>2. /\ request'[s] = Idle /\ Database' = Database
      /\ \A u \in Slots : u # s => request'[u] = request[u]
  BY <1>1, OneRequest, SameDatabase
<1>3. CallTyped(s) /\ call[s].reply \notin {"ok", "failed"}
  BY <1>1 DEF PageInv, CallsTyped, CallTyped
<1>4. /\ CallTyped(s)' /\ call' = [u \in Slots |-> call'[u]]
      /\ \A u \in Slots : u # s => call'[u] = call[u]
  <2>1. CASE call[s] = NoCall
    <3>1. UNCHANGED call /\ call[s].reply = "none"
      BY <2>1 DEF QueryFailsUnderPage, Replies, NoCall
    <3>2. QED
      BY <1>3, <2>1, <3>1 DEF PageInv, CallsTyped, CallTyped
  <2>2. CASE call[s] # NoCall
    <3> DEFINE c == [by |-> call[s].by, reply |-> "failed", alerts |-> call[s].alerts]
    <3>1. call' = [call EXCEPT ![s] = c]
      BY <1>2, <1>3, <2>2 DEF QueryFailsUnderPage, Replies, CallTyped, PageInv, CallsTyped
    <3>2. c.reply = "failed" /\ c = [by |-> c.by, reply |-> c.reply, alerts |-> c.alerts]
      OBVIOUS
    <3> HIDE DEF c
    <3>3. /\ call'[s] = c /\ call' = [u \in Slots |-> call'[u]]
          /\ \A u \in Slots : u # s => call'[u] = call[u]
      BY <3>1, OneCall DEF PageInv
    <3>4. QED
      BY <1>2, <3>2, <3>3 DEF CallTyped
  <2>3. QED
    BY <2>1, <2>2
<1>5. CallsTyped'
  <2>1. ASSUME NEW u \in Slots, u # s PROVE CallTyped(u)'
    BY <1>2, <1>4, <2>1 DEF PageInv, CallsTyped, CallTyped
  <2>2. QED
    BY <1>4, <2>1 DEF CallsTyped
<1>6. ShownTyped'
  BY <1>1 DEF PageInv, ShownTyped, FormTyped, Loaded, Whole
<1>7. CASE Owed(s)
  <2>1. Disturb
    BY <1>7 DEF QueryFailsUnderPage
  <2>2. QED
    BY <1>5, <1>6, <2>1, FreshDisturbed DEF PageInv
<1>8. CASE ~Owed(s)
  <2>1. UNCHANGED <<loads, behind>>
    BY <1>8 DEF QueryFailsUnderPage
  <2>2. \A u \in Slots : Owed(u) => Owed(u)'
    BY <1>2, <1>4, <1>8 DEF Owed
  <2>3. LoadsTyped'
    BY <2>1 DEF PageInv, LoadsTyped, Whole
  <2>4. Fresh'
    BY <1>1, <1>2, <2>1, <2>2, FreshStays DEF PageInv
  <2>5. QED
    BY <1>5, <1>6, <2>3, <2>4 DEF PageInv
<1>9. QED
  BY <1>7, <1>8

\* What changes one call only, and what it leaves of the rest.
LEMMA HandleOne ==
  ASSUME PageInv, NEW s \in Slots, NEW c, call' = [call EXCEPT ![s] = c],
         \A u \in Slots : u # s => request'[u] = request[u],
         CallTyped(s)', Owed(s) => Owed(s)'
  PROVE  CallsTyped' /\ \A u \in Slots : Owed(u) => Owed(u)'
BY OneCall, SlotStep DEF PageInv

LEMMA HandlesKeep ==
  ASSUME ConfigInv, PageInv, NEW s \in Slots, Handles(s)
  PROVE  (Asked(s) \/ UNCHANGED vars) /\ PageInv'
<1> DEFINE q == call[s]
<1>1. CallTyped(s)
  BY DEF PageInv, CallsTyped
<1>2. CASE ReplyIsLost(s)
  <2> DEFINE c == [q EXCEPT !.reply = "failed"]
  <2>1. /\ call' = [call EXCEPT ![s] = c] /\ q.reply = "ok" /\ Disturb
        /\ UNCHANGED <<vars, shown, form, defaults>>
    BY <1>2 DEF ReplyIsLost, PageInv, CallsTyped
  <2>2. c = [by |-> c.by, reply |-> c.reply, alerts |-> c.alerts] /\ c.reply = "failed"
    BY <1>1 DEF CallTyped
  <2> HIDE DEF c
  <2>3. UNCHANGED <<request, row, standard, global, override>>
    BY <2>1 DEF vars, database, memory
  <2>4. /\ call'[s] = c /\ call' = [u \in Slots |-> call'[u]]
        /\ \A u \in Slots : u # s => call'[u] = call[u]
    BY <2>1, OneCall DEF PageInv
  <2>5. CallTyped(s)'
    BY <1>1, <2>1, <2>2, <2>3, <2>4 DEF CallTyped
  <2>6. CallsTyped'
    <3>1. ASSUME NEW u \in Slots, u # s PROVE CallTyped(u)'
      BY <2>3, <2>4, <3>1 DEF PageInv, CallsTyped, CallTyped
    <3>2. QED
      BY <2>4, <2>5, <3>1 DEF CallsTyped
  <2>7. ShownTyped'
    BY <2>1 DEF PageInv, ShownTyped, FormTyped, Loaded, Whole
  <2>8. QED
    BY <2>1, <2>6, <2>7, FreshDisturbed DEF PageInv
<1>3. CASE HandleError(s)
  <2>1. /\ call' = [call EXCEPT ![s] = NoCall] /\ q.reply = "failed"
        /\ UNCHANGED <<vars, shown, loads, defaults, behind>>
    BY <1>3 DEF HandleError
  <2>2. UNCHANGED <<request, row, standard, global, override>>
    BY <2>1 DEF vars, database, memory
  <2>3. call'[s] = NoCall /\ NoCall = [by |-> NoCall.by, reply |-> NoCall.reply, alerts |-> NoCall.alerts]
        /\ NoCall.reply = "none"
    BY <2>1 DEF NoCall, PageInv, CallsTyped
  <2>4. CallTyped(s)' /\ ~Owed(s)
    BY <2>1, <2>3 DEF CallTyped, Owed
  <2>5. CallsTyped' /\ \A u \in Slots : Owed(u) => Owed(u)'
    BY <2>1, <2>2, <2>4, HandleOne
  <2>6. Database' = Database
    BY <2>2, SameDatabase
  <2>7. FormTyped(form)'
    <3>1. FormTyped(form)
      BY DEF PageInv, ShownTyped
    <3>2. CASE form' = form
      BY <3>1, <3>2 DEF FormTyped
    <3>3. CASE form # NoForm /\ form' = [form EXCEPT !.slot = NoSlot]
      BY <3>1, <3>3 DEF FormTyped
    <3>4. QED
      BY <1>3, <3>2, <3>3 DEF HandleError
  <2>8. ShownTyped' /\ LoadsTyped'
    BY <2>1, <2>7 DEF PageInv, ShownTyped, LoadsTyped, Loaded, Whole
  <2>9. Fresh'
    BY <2>1, <2>5, <2>6, FreshStays DEF PageInv
  <2>10. QED
    BY <2>1, <2>5, <2>8, <2>9 DEF PageInv
<1>4. CASE HandleSaved(s)
  <2>1. /\ call' = [call EXCEPT ![s] = NoCall] /\ Closed(q.by) /\ loads' = Append(loads, NewLoad)
        /\ UNCHANGED <<vars, shown, defaults, behind>>
    BY <1>4 DEF HandleSaved
  <2>2. UNCHANGED request
    BY <2>1 DEF vars
  <2>3. /\ call'[s] = NoCall /\ call' = [u \in Slots |-> call'[u]]
        /\ \A u \in Slots : u # s => call'[u] = call[u]
    BY <2>1, OneCall DEF PageInv
  <2>4. CallTyped(s)'
    BY <2>3 DEF CallTyped, NoCall
  <2>5. CallsTyped'
    <3>1. ASSUME NEW u \in Slots, u # s PROVE CallTyped(u)'
      BY <2>2, <2>3, <3>1 DEF PageInv, CallsTyped, CallTyped
    <3>2. QED
      BY <2>3, <2>4, <3>1 DEF CallsTyped
  <2>6. ShownTyped'
    BY <2>1 DEF Closed, PageInv, ShownTyped, FormTyped, Loaded, Whole
  <2>7. LoadsTyped' /\ Len(loads)' # 0 /\ DOMAIN loads'[Len(loads)'].got = {}
    BY <2>1, AppendedLoads DEF PageInv
  <2>8. Fresh'
    BY <2>7 DEF Fresh
  <2>9. QED
    BY <2>1, <2>5, <2>6, <2>7, <2>8 DEF PageInv
<1>5. ASSUME NEW typed, HandleOverrideCreated(s, typed)
      PROVE  (Asked(s) \/ UNCHANGED vars) /\ PageInv'
  <2> DEFINE c == [by |-> "afterOverride", reply |-> "awaited", alerts |-> NoAnswers]
             d == Merged(q.alerts, typed)
  <2>1. /\ call' = [call EXCEPT ![s] = c] /\ UpdateAlertConfig(s, d) /\ Closed("newOverride")
        /\ UNCHANGED <<shown, loads, defaults, behind>>
    BY <1>5 DEF HandleOverrideCreated
  <2>2. Asked(s)
    BY <2>1 DEF Asked
  <2>3. PICK r : request' = [request EXCEPT ![s] = r] /\ r.pc = "readGlobal" /\ Database' = Database
    BY <2>1, BeginChanges DEF UpdateAlertConfig
  <2>4. request'[s] = r /\ \A u \in Slots : u # s => request'[u] = request[u]
    BY <2>3, OneRequest
  <2>5. c # NoCall /\ c = [by |-> c.by, reply |-> c.reply, alerts |-> c.alerts]
        /\ c.by = "afterOverride" /\ c.reply = "awaited"
    BY DEF NoCall
  <2> HIDE DEF c
  <2>6. call'[s] = c
    BY <2>1, OneCall DEF PageInv
  <2>7. CallTyped(s)' /\ Owed(s)'
    BY <2>3, <2>4, <2>5, <2>6 DEF CallTyped, Owed, OfAfterOverride
  <2>8. CallsTyped' /\ \A u \in Slots : Owed(u) => Owed(u)'
    BY <2>1, <2>4, <2>7, HandleOne
  <2>9. ShownTyped' /\ LoadsTyped'
    BY <2>1 DEF Closed, PageInv, ShownTyped, LoadsTyped, FormTyped, Loaded, Whole
  <2>10. Fresh'
    BY <2>1, <2>3, <2>8, FreshStays DEF PageInv
  <2>11. QED
    BY <2>2, <2>8, <2>9, <2>10 DEF PageInv
<1>6. QED
  BY <1>2, <1>3, <1>4, <1>5 DEF Handles

LEMMA BootsKeep ==
  ASSUME ConfigInv, PageInv, BootsUnderPage
  PROVE  PageInv'
<1>1. /\ \A s \in Slots : request'[s] = Idle
      /\ UNCHANGED <<row, standard, global, override, shown, form, defaults>>
  BY DEF BootsUnderPage, Boot, database
<1>2. /\ call' = [s \in Slots |-> call'[s]]
      /\ \A s \in Slots : call'[s] = IF call[s].reply = "awaited" THEN [call[s] EXCEPT !.reply = "failed"]
                                                                  ELSE call[s]
  BY DEF BootsUnderPage
<1>3. Database' = Database
  BY <1>1, SameDatabase
<1>4. ASSUME NEW s \in Slots PROVE CallTyped(s)'
  <2>1. CallTyped(s) /\ request'[s] = Idle
    BY <1>1 DEF PageInv, CallsTyped
  <2>2. CASE call[s].reply = "awaited"
    <3>1. call'[s] = [call[s] EXCEPT !.reply = "failed"]
      BY <1>2, <2>2
    <3>2. call'[s] = [by |-> call[s].by, reply |-> "failed", alerts |-> call[s].alerts]
      BY <2>1, <3>1 DEF CallTyped
    <3>3. /\ call'[s].reply = "failed"
          /\ call'[s] = [by |-> call'[s].by, reply |-> call'[s].reply, alerts |-> call'[s].alerts]
      BY <3>2
    <3>4. QED
      BY <2>1, <3>3 DEF CallTyped
  <2>3. CASE call[s].reply # "awaited"
    <3>1. call'[s] = call[s]
      BY <1>2, <2>3
    <3>2. QED
      BY <2>1, <2>3, <3>1 DEF CallTyped
  <2>4. QED
    BY <2>2, <2>3
<1>5. CallsTyped'
  BY <1>2, <1>4 DEF CallsTyped
<1>6. ShownTyped'
  BY <1>1 DEF PageInv, ShownTyped, FormTyped, Loaded, Whole
<1>7. CASE \E s \in Slots : call[s].reply = "awaited" /\ Owed(s)
  <2>1. Disturb
    BY <1>7 DEF BootsUnderPage
  <2>2. QED
    BY <1>5, <1>6, <2>1, FreshDisturbed DEF PageInv
<1>8. CASE \A s \in Slots : Owed(s) => call[s].reply # "awaited"
  <2>1. UNCHANGED <<loads, behind>>
    BY <1>8 DEF BootsUnderPage
  <2>2. ASSUME NEW s \in Slots, Owed(s) PROVE Owed(s)'
    <3>1. call'[s] = call[s] /\ call[s].reply = "ok"
      BY <1>2, <1>8, <2>2 DEF Owed, PageInv, CallsTyped, CallTyped
    <3>2. QED
      BY <2>2, <3>1 DEF Owed
  <2>3. LoadsTyped'
    BY <2>1 DEF PageInv, LoadsTyped, Whole
  <2>4. Fresh'
    BY <1>1, <1>3, <2>1, <2>2, FreshStays DEF PageInv
  <2>5. QED
    BY <1>5, <1>6, <2>3, <2>4 DEF PageInv
<1>9. QED
  BY <1>7, <1>8

LEMMA LooksKeep ==
  ASSUME PageInv, Looks
  PROVE  PageInv' /\ UNCHANGED vars
<1>1. Loaded /\ Whole(shown) /\ DOMAIN shown = Queries
  BY DEF Looks, PageInv, ShownTyped
<1>2. shown["motors"] \in [Motors -> Table] /\ shown["standards"] \in Table
  BY <1>1 DEF Whole, Queries
<1>3. UNCHANGED <<vars, shown, loads, call, behind>>
  BY DEF Looks, OpenThresholds, OpenRule, OpenNewRule, OpenOverride, OpenNewOverride, Opened, Cancel,
         OpenSensorsTab
<1>4. ASSUME NEW kind, NEW m \in Motors, NEW values, Opened(kind, m, values),
             kind \in OfThresholds => values \in Table
      PROVE  FormTyped(form)' /\ UNCHANGED defaults
  BY <1>4 DEF Opened, FormTyped
<1>5. FormTyped(form)' /\ (UNCHANGED defaults \/ defaults' = shown["standards"])
  <2>1. CASE \E m \in Motors : OpenThresholds(m) \/ OpenRule(m)
    <3>1. PICK m \in Motors : OpenThresholds(m) \/ OpenRule(m)
      BY <2>1
    <3>2. shown["motors"][m] \in Table
      BY <1>2
    <3>3. QED
      BY <1>4, <3>1, <3>2 DEF OpenThresholds, OpenRule
  <2>2. CASE \E m \in Motors : OpenNewRule(m)
    <3>1. AMotor \in Motors
      BY <2>2 DEF AMotor
    <3>2. shown["motors"][AMotor] \in Table
      BY <1>2, <3>1
    <3>3. QED
      BY <1>4, <2>2, <3>2 DEF OpenNewRule
  <2>3. CASE \E m \in Motors : OpenOverride(m) \/ OpenNewOverride(m)
    <3>1. "override" \notin OfThresholds /\ "newOverride" \notin OfThresholds
      BY DEF OfThresholds
    <3>2. QED
      BY <1>4, <2>3, <3>1 DEF OpenOverride, OpenNewOverride
  <2>4. CASE Cancel \/ OpenSensorsTab
    BY <2>4 DEF Cancel, OpenSensorsTab, FormTyped, PageInv, ShownTyped
  <2>5. QED
    BY <2>1, <2>2, <2>3, <2>4 DEF Looks
<1>6. ShownTyped'
  BY <1>1, <1>2, <1>3, <1>5 DEF ShownTyped, Loaded, Whole, PageInv
<1>7. CallsTyped' /\ \A s \in Slots : Owed(s)' <=> Owed(s)
  BY <1>3 DEF vars, PageInv, CallsTyped, CallTyped, Owed
<1>8. LoadsTyped' /\ Fresh'
  BY <1>3, <1>7 DEF vars, database, PageInv, LoadsTyped, Whole, Fresh, Database
<1>9. QED
  BY <1>3, <1>6, <1>7, <1>8 DEF PageInv

\* A load comes to its end. When it was the last one, the others are late.
LEMMA LoadEnds ==
  ASSUME PageInv, NEW k \in DOMAIN loads, loads' = Without(k), UNCHANGED <<vars, call>>,
         behind' = TRUE \/ (behind' = loads[k].late /\ shown' = loads[k].got /\ DOMAIN shown' = Queries)
  PROVE  Fresh'
<1>1. /\ Len(loads)' = Len(loads) - 1 /\ k \in 1..Len(loads) /\ Len(loads) \in Nat
      /\ k = Len(loads) /\ Len(loads)' # 0 => loads'[Len(loads)'].late = TRUE
      /\ k # Len(loads) => Len(loads)' # 0 /\ loads'[Len(loads)'] = loads[Len(loads)]
  BY WithoutLoads, LoadsAreSeq DEF PageInv
<1>2. Database' = Database /\ \A s \in Slots : Owed(s)' <=> Owed(s)
  BY DEF vars, database, Database, Owed
<1> SUFFICES ASSUME \A s \in Slots : ~Owed(s)
             PROVE  /\ Len(loads)' = 0 /\ ~behind' => shown' = Database
                    /\ Len(loads)' # 0 /\ ~loads'[Len(loads)'].late =>
                         \A q \in DOMAIN loads'[Len(loads)'].got : loads'[Len(loads)'].got[q] = Database[q]
  BY <1>2 DEF Fresh
<1> DEFINE l == loads[Len(loads)]
<1>3. Len(loads) # 0 /\ ~l.late => \A q \in DOMAIN l.got : l.got[q] = Database[q]
  BY DEF PageInv, Fresh
<1>4. ASSUME Len(loads)' = 0, ~behind' PROVE shown' = Database
  <2>0. k = Len(loads) /\ Len(loads) # 0
    BY <1>1, <1>4
  <2>1. shown' = l.got /\ ~l.late /\ DOMAIN l.got = Queries /\ Len(loads) # 0
    BY <1>4, <2>0
  <2>2. l.got = [q \in Queries |-> l.got[q]]
    <3>1. Whole(l.got)
      BY <2>0 DEF PageInv, LoadsTyped
    <3>2. QED
      BY <2>1, <3>1 DEF Whole
  <2>3. Database = [q \in Queries |-> Database[q]]
    BY DEF Database, Queries
  <2>4. \A q \in Queries : l.got[q] = Database[q]
    BY <1>3, <2>1
  <2> HIDE DEF l
  <2>5. QED
    BY <2>1, <2>2, <2>3, <2>4
<1>5. ASSUME Len(loads)' # 0, ~loads'[Len(loads)'].late
      PROVE  \A q \in DOMAIN loads'[Len(loads)'].got : loads'[Len(loads)'].got[q] = Database[q]
  <2>1. k # Len(loads) /\ loads'[Len(loads)'] = l
    BY <1>1, <1>5
  <2>2. Len(loads) # 0 /\ ~l.late
    BY <1>1, <1>5, <2>1
  <2>3. QED
    BY <1>3, <2>1, <2>2
<1>6. QED
  BY <1>4, <1>5

LEMMA FetchesKeep ==
  ASSUME ConfigInv, PageInv, Fetches
  PROVE  PageInv' /\ UNCHANGED vars
<1>1. PICK k \in DOMAIN loads : ShowLoad(k) \/ LoadFails(k) \/ \E q \in Queries : AnswerQuery(k, q)
  BY DEF Fetches
<1>2. UNCHANGED <<vars, form, call>>
  BY <1>1 DEF ShowLoad, LoadFails, AnswerQuery
<1>3. CallsTyped' /\ \A s \in Slots : Owed(s)' <=> Owed(s)
  BY <1>2 DEF vars, PageInv, CallsTyped, CallTyped, Owed
<1>4. Database' = Database
  BY <1>2 DEF vars, database, Database
<1>5. CASE ShowLoad(k)
  <2>1. /\ shown' = loads[k].got /\ behind' = loads[k].late /\ DOMAIN shown' = Queries
        /\ loads' = Without(k) /\ Whole(loads[k].got)
    BY <1>5 DEF ShowLoad, PageInv, LoadsTyped
  <2>2. defaults' \in Table
    <3>1. loads[k].got["standards"] \in Table
      BY <2>1 DEF Whole, Queries
    <3>2. QED
      BY <1>5, <3>1 DEF ShowLoad, PageInv, ShownTyped
  <2>3. FormTyped(form)'
    BY <1>2 DEF PageInv, ShownTyped, FormTyped
  <2>4. ShownTyped'
    BY <2>1, <2>2, <2>3 DEF ShownTyped, Whole
  <2>5. LoadsTyped' /\ Fresh'
    BY <1>2, <2>1, WithoutLoads, LoadEnds DEF PageInv
  <2>6. QED
    BY <1>2, <1>3, <2>4, <2>5 DEF PageInv
<1>6. CASE LoadFails(k)
  <2>1. behind' = TRUE /\ loads' = Without(k) /\ UNCHANGED <<shown, defaults>>
    BY <1>6 DEF LoadFails
  <2>2. LoadsTyped' /\ Fresh'
    BY <1>2, <2>1, WithoutLoads, LoadEnds DEF PageInv
  <2>3. ShownTyped'
    BY <1>2, <2>1 DEF PageInv, ShownTyped, FormTyped, Loaded, Whole
  <2>4. QED
    BY <1>2, <1>3, <2>2, <2>3 DEF PageInv
<1>7. ASSUME NEW q \in Queries, AnswerQuery(k, q) PROVE PageInv'
  <2> DEFINE n == Len(loads)
  <2>1. /\ LoadsTyped' /\ Len(loads)' = n
        /\ \A j \in DOMAIN loads : j # k => loads'[j] = loads[j]
        /\ loads'[k].late = loads[k].late
        /\ \A x \in DOMAIN loads'[k].got :
             loads'[k].got[x] = IF x = q THEN Database[x] ELSE loads[k].got[x]
        /\ \A x \in DOMAIN loads'[k].got : x = q \/ x \in DOMAIN loads[k].got
    BY <1>7, AnsweredLoads DEF PageInv
  <2>2. n \in Nat /\ k \in 1..n /\ n # 0 /\ n \in DOMAIN loads
    BY LoadsAreSeq DEF PageInv
  <2>3. UNCHANGED <<shown, defaults, behind>>
    BY <1>7 DEF AnswerQuery
  <2>4. ShownTyped'
    BY <1>2, <2>3 DEF PageInv, ShownTyped, FormTyped, Loaded, Whole
  <2>5. ASSUME \A s \in Slots : ~Owed(s), ~loads'[n].late, NEW x \in DOMAIN loads'[n].got
        PROVE  loads'[n].got[x] = Database[x]
    <3>1. ~loads[n].late => \A y \in DOMAIN loads[n].got : loads[n].got[y] = Database[y]
      BY <2>2, <2>5 DEF PageInv, Fresh
    <3>2. CASE k = n
      BY <2>1, <2>5, <3>1, <3>2
    <3>3. CASE k # n
      BY <2>1, <2>2, <2>5, <3>1, <3>3
    <3>4. QED
      BY <3>2, <3>3
  <2>6. Fresh'
    BY <1>3, <1>4, <2>1, <2>2, <2>5 DEF Fresh
  <2>7. QED
    BY <1>2, <1>3, <2>1, <2>4, <2>6 DEF PageInv
<1>8. QED
  BY <1>1, <1>2, <1>5, <1>6, <1>7

LEMMA PageInit == InitPage => ConfigInv /\ SettingsInv /\ PageInv
<1> SUFFICES ASSUME InitPage PROVE ConfigInv /\ SettingsInv /\ PageInv
  OBVIOUS
<1>1. ConfigInv /\ SettingsInv
  BY ConfigInit, SettingsInit DEF InitPage
<1>2. /\ shown = NoAnswers /\ loads = <<NewLoad>> /\ form = NoForm
      /\ call = [s \in Slots |-> NoCall] /\ \A s \in Slots : call[s] = NoCall
  BY DEF InitPage
<1>3. loads \in Seq({NewLoad}) /\ Len(loads) = 1 /\ DOMAIN loads = 1..1 /\ loads[1] = NewLoad
  BY <1>2
<1>4. Whole(NewLoad.got) /\ DOMAIN NewLoad.got = {}
  BY DEF NewLoad, NoAnswers, Whole
<1>5. LoadsTyped
  <2>1. \A k \in DOMAIN loads : loads[k] = NewLoad
    BY <1>3
  <2>2. QED
    BY <1>3, <1>4, <2>1 DEF LoadsTyped
<1>6. ShownTyped
  BY <1>2 DEF ShownTyped, Loaded, FormTyped
<1>7. CallsTyped
  BY <1>2 DEF CallsTyped, CallTyped, NoCall
<1>8. Fresh
  BY <1>3, <1>4 DEF Fresh
<1>9. QED
  BY <1>1, <1>5, <1>6, <1>7, <1>8 DEF PageInv

LEMMA PageStep ==
  ConfigInv /\ SettingsInv /\ PageInv /\ [NextPage]_allVars => (ConfigInv /\ SettingsInv /\ PageInv)'
<1> SUFFICES ASSUME ConfigInv, SettingsInv, PageInv, [NextPage]_allVars
             PROVE  (ConfigInv /\ SettingsInv /\ PageInv)'
  OBVIOUS
<1>1. Steps /\ PageInv'
  <2>1. CASE Fetches \/ Looks
    BY <2>1, FetchesKeep, LooksKeep DEF Steps
  <2>2. CASE BootsUnderPage
    BY <2>2, BootsKeep DEF BootsUnderPage, Steps
  <2>3. ASSUME NEW s \in Slots, PageSends(s) PROVE Steps /\ PageInv'
    BY <2>3, PageSendsKeeps DEF Steps
  <2>4. ASSUME NEW s \in Slots, SentByOthers(s) PROVE Steps /\ PageInv'
    <3>1. Asked(s)
      <4>1. \A dto \in ThresholdDtos : Part(dto)
        BY DtoAssumption DEF Part
      <4>2. QED
        BY <2>4, <4>1 DEF SentByOthers, Sent, Asked
    <3>2. QED
      BY <2>4, <3>1, OthersSendKeeps DEF Steps
  <2>5. ASSUME NEW s \in Slots, ServedToPage(s) PROVE Steps /\ PageInv'
    BY <2>5, ServedToPageKeeps DEF ServedToPage, Steps
  <2>9. ASSUME NEW s \in Slots, QueryFailsUnderPage(s) PROVE Steps /\ PageInv'
    BY <2>9, FailsUnderPageKeeps DEF QueryFailsUnderPage, Steps
  <2>6. ASSUME NEW s \in Slots, Handles(s) PROVE Steps /\ PageInv'
    BY <2>6, HandlesKeep DEF Steps
  <2>7. CASE UNCHANGED allVars
    <3>1. UNCHANGED <<vars, shown, loads, form, defaults, call, behind>>
      BY <2>7 DEF allVars, page
    <3>2. UNCHANGED <<request, row, standard, global, override>>
      BY <3>1 DEF vars, database
    <3>3. LoadsTyped' /\ ShownTyped'
      BY <3>1 DEF PageInv, LoadsTyped, ShownTyped, FormTyped, Loaded, Whole
    <3>4. CallsTyped' /\ Fresh'
      BY <3>1, <3>2 DEF PageInv, CallsTyped, CallTyped, Owed, Fresh, Database
    <3>5. QED
      BY <3>1, <3>3, <3>4 DEF PageInv, Steps
  <2>8. QED
    BY <2>1, <2>2, <2>3, <2>4, <2>5, <2>6, <2>7, <2>9 DEF NextPage
<1>2. QED
  BY <1>1, ConfigInductive, SettingsInductive

\* When none of its fetches and requests is under way the configuration page shows what the
\* database has, for any number of requests, of others' requests and of restarts, unless somebody
\* else has written, a fetch or a reply has failed, or fetches came in another order than they
\* were made in (fetchAll, the modals' onSaved, AlertsTab).
THEOREM PageShows == SpecPage => []PageFollows
<1>1. PageInv => PageFollows
  <2> SUFFICES ASSUME PageInv, loads = <<>>, \A s \in Slots : call[s] = NoCall, ~behind
               PROVE  shown = Database
    BY DEF PageFollows
  <2>1. Len(loads) = 0
    OBVIOUS
  <2>2. \A s \in Slots : ~Owed(s)
    BY DEF Owed
  <2>3. QED
    BY <2>1, <2>2 DEF PageInv, Fresh
<1>2. QED
  BY PageInit, PageStep, <1>1, PTL DEF SpecPage

\* What is sent by a page that shows old values keeps the thresholds in memory and in the database
\* the same and in order, and the protection parameters in force, with the exceptions the three
\* properties name (EditThresholdsModal and the other forms, over updateThresholds,
\* updateSensorStandard and updateAlertConfig).
THEOREM PageKeepsSettings == SpecPage => [](ThresholdsInForce /\ ThresholdsOrdered /\ SettingsInForce)
<1>1. ConfigInv /\ SettingsInv => ThresholdsInForce /\ ThresholdsOrdered /\ SettingsInForce
  BY ConfigHolds, SettingsAtRest
<1>2. QED
  BY PageInit, PageStep, <1>1, PTL DEF SpecPage
=============================================================================
