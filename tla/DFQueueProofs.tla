--------------------------- MODULE DFQueueProofs ---------------------------
(***************************************************************************)
(* The arrival queues are exact, no planet's clock passes an arrival on    *)
(* its way, and arrivals land in order: QueueExact, ClockBehindArrivals    *)
(* and LandInOrder of DFProperties, for every instance of DarkForest.      *)
(*                                                                         *)
(* The three are one argument.  A landing writes the clock of its planet   *)
(* to its own block, so it passes no other arrival only if it is the       *)
(* earliest (LandInOrder); it is the earliest of all that are live, and    *)
(* not only of all that are queued, because the queues are exact           *)
(* (QueueExact); and a move or an upgrade writes the present block, which  *)
(* passes nothing only if the twelve rounds of process_pending_arrivals    *)
(* were enough to land all that was due (ProcessSettles).                  *)
(*                                                                         *)
(* From it follows that DarkForest implements Voyages.                     *)
(***************************************************************************)
EXTENDS DFTypeProofs

QInv == TInv /\ QueueExact /\ ClockBehindArrivals

-----------------------------------------------------------------------------
(* The same of the storage in the middle of a transaction. *)

Alive(w, id) == w.arrivals[id].arrival_block # 0

Queued(w) ==
    /\ \A l \in Planets, i \in Slots :
         w.planet_arrivals[l][i] # 0 =>
           /\ Alive(w, w.planet_arrivals[l][i])
           /\ w.arrivals[w.planet_arrivals[l][i]].to_planet = l
    /\ \A l \in Planets, i, j \in Slots :
         w.planet_arrivals[l][i] # 0 /\ i # j =>
           w.planet_arrivals[l][i] # w.planet_arrivals[l][j]
    /\ \A id \in ArrivalIds : Alive(w, id) =>
         /\ id < next_arrival_id
         /\ w.arrivals[id].to_planet \in Planets
         /\ Holds(w.planet_arrivals[w.arrivals[id].to_planet], id)

Clocked(w) ==
    /\ \A l \in Planets : w.planets[l].last_updated <= block
    /\ \A id \in ArrivalIds : Alive(w, id) =>
         /\ w.planets[w.arrivals[id].to_planet].is_initialized
         /\ w.planets[w.arrivals[id].to_planet].last_updated
              <= w.arrivals[id].arrival_block

GoodWorld(w) == TypedWorld(w) /\ Queued(w) /\ Clocked(w)

\* Between w and x nothing happened but landings, in order.
InOrder(w, x) ==
    /\ \A id \in ArrivalIds :
         x.arrivals[id] = w.arrivals[id] \/ x.arrivals[id] = EmptyArrival
    /\ \A id, other \in ArrivalIds :
         Alive(w, id) /\ ~Alive(x, id) =>
           /\ w.arrivals[id].arrival_block <= block
           /\ ~(/\ Alive(x, other)
                /\ w.arrivals[other].to_planet = w.arrivals[id].to_planet
                /\ w.arrivals[other].arrival_block < w.arrivals[id].arrival_block)

\* What the storage x that a transaction has come to is to w, where it began.
After(w, x) ==
    /\ GoodWorld(x)
    /\ x.ok => w.ok
    /\ \A l \in Planets : DueSlots(x, l, block) \subseteq DueSlots(w, l, block)
    /\ \A l \in Planets : x.planets[l].is_initialized = w.planets[l].is_initialized
    /\ InOrder(w, x)

LEMMA EmptyNotAlive == EmptyArrival.arrival_block = 0
  BY DEF EmptyArrival

LEMMA AfterReflexive == ASSUME NEW w, GoodWorld(w) PROVE After(w, w)
  BY DEF After, InOrder

LEMMA AfterTransitive ==
  ASSUME NEW w, NEW x, NEW y, After(w, x), After(x, y)
  PROVE  After(w, y)
  <1>1. InOrder(w, y)
    <2>1. \A id \in ArrivalIds :
            y.arrivals[id] = w.arrivals[id] \/ y.arrivals[id] = EmptyArrival
      BY DEF After, InOrder
    <2>2. ASSUME NEW id \in ArrivalIds, NEW other \in ArrivalIds,
                 Alive(w, id), ~Alive(y, id)
          PROVE  /\ w.arrivals[id].arrival_block <= block
                 /\ ~(/\ Alive(y, other)
                      /\ w.arrivals[other].to_planet = w.arrivals[id].to_planet
                      /\ w.arrivals[other].arrival_block
                           < w.arrivals[id].arrival_block)
      <3>1. Alive(y, other) => /\ Alive(x, other)
                               /\ x.arrivals[other] = w.arrivals[other]
        BY EmptyNotAlive DEF After, InOrder, Alive
      <3>2. CASE Alive(x, id)
        <4>1. x.arrivals[id] = w.arrivals[id]
          BY <3>2, EmptyNotAlive DEF After, InOrder, Alive
        <4> QED
          BY <2>2, <3>1, <3>2, <4>1 DEF After, InOrder
      <3>3. CASE ~Alive(x, id)
        BY <2>2, <3>1, <3>3 DEF After, InOrder
      <3> QED
        BY <3>2, <3>3
    <2> QED
      BY <2>1, <2>2 DEF InOrder
  <1> QED
    BY <1>1 DEF After

-----------------------------------------------------------------------------
(* One landing. *)

\* No two slots being the same, clearing an id clears it from the queue.
LEMMA ClearedExact ==
  ASSUME NEW queue \in [Slots -> ArrivalIds \cup {0}], NEW id \in ArrivalIds,
         \A i, j \in Slots : queue[i] # 0 /\ i # j => queue[i] # queue[j]
  PROVE  \A i \in Slots : Cleared(queue, id)[i] = IF queue[i] = id THEN 0 ELSE queue[i]
  <1>1. id # 0
    BY DEF ArrivalIds
  <1>2. CASE ~Holds(queue, id)
    BY <1>2 DEF Cleared, Holds
  <1>3. CASE Holds(queue, id)
    <2> DEFINE s == FirstSlot(queue, id)
    <2>1. s \in Slots /\ queue[s] = id
      BY <1>3, SlotsNat, FirstSlotFound
    <2>2. Cleared(queue, id) = [queue EXCEPT ![s] = 0]
      BY <1>3 DEF Cleared
    <2> HIDE DEF s
    <2> QED
      BY <1>1, <2>1, <2>2
  <1> QED
    BY <1>2, <1>3

\* What is unloaded moves no clock.
LEMMA UnloadClock ==
  ASSUME NEW w \in Worlds, NEW l \in Planets,
         NEW id \in ArtifactIds \cup {NoArtifact}, NEW k \in Planets
  PROVE  /\ Unload(w, l, id).planets[k].last_updated = w.planets[k].last_updated
         /\ Unload(w, l, id).planets[k].is_initialized = w.planets[k].is_initialized
  <1> DEFINE count  == w.ship_counts[l][id[2]]
             docked == Docked(w.planets[l], id[2], count)
  <1>1. CASE id = NoArtifact \/ ~Affects(id, w.planets[l])
    BY <1>1 DEF Unload, Worlds
  <1>2. CASE id # NoArtifact /\ Affects(id, w.planets[l])
    <2>1. w.planets \in [Planets -> Planet] /\ count \in Nat
      BY <1>2 DEF Worlds, Affects
    <2>2. /\ docked.last_updated = w.planets[l].last_updated
          /\ docked.is_initialized = w.planets[l].is_initialized
      BY <2>1, DockedKeeps DEF SamePlace
    <2>3. Unload(w, l, id).planets = [w.planets EXCEPT ![l] = docked]
      BY <1>2 DEF Unload, Worlds
    <2> HIDE DEF docked
    <2> QED
      BY <2>1, <2>2, <2>3
  <1> QED
    BY <1>1, <1>2

LEMMA ExecuteEffect ==
  ASSUME block \in Nat, NEW w, TypedWorld(w), NEW id \in ArrivalIds, CanLand(w, id)
  PROVE  LET l == w.arrivals[id].to_planet
             x == ExecuteArrival(w, id)
         IN  /\ l \in Planets
             /\ x.arrivals = [w.arrivals EXCEPT ![id] = EmptyArrival]
             /\ x.planet_arrivals = [w.planet_arrivals EXCEPT ![l] = Cleared(@, id)]
             /\ x.ok = w.ok
             /\ \A k \in Planets :
                  /\ x.planets[k].is_initialized = w.planets[k].is_initialized
                  /\ x.planets[k].last_updated =
                       IF k = l THEN w.arrivals[id].arrival_block
                                ELSE w.planets[k].last_updated
  <1> DEFINE arrival == w.arrivals[id]
             l       == arrival.to_planet
             planet  == Landed(w.planets[l], Pausers(w, l), arrival)
             queue   == Cleared(w.planet_arrivals[l], id)
             landed  == [w EXCEPT !.planets[l] = planet,
                                  !.planet_arrivals[l] = queue,
                                  !.arrivals[id] = EmptyArrival]
  <1>1. arrival \in Arrival /\ l \in Planets
    BY DEF CanLand, TypedWorld, Worlds, BoundIn
  <1>2. /\ planet \in Planet
        /\ planet.is_initialized = w.planets[l].is_initialized
        /\ planet.last_updated = arrival.arrival_block
    <2>1. /\ arrival.player \in Players \cup {Zero}
          /\ arrival.pop_arriving \in Nat /\ arrival.silver_moved \in Nat
          /\ arrival.arrival_block \in Nat
      BY <1>1 DEF Arrival, Addresses
    <2>2. Hostile(w.planets[l], arrival.player, arrival.arrival_type)
            => w.planets[l].defense # 0
      BY DEF CanLand
    <2>3. w.planets[l] \in Planet /\ Pausers(w, l) \in Nat
      BY <1>1, TypedParts
    <2> HIDE DEF l, arrival
    <2> QED
      BY <2>1, <2>2, <2>3, LandedKeeps
  <1>3. queue \in [Slots -> ArrivalIds \cup {0}]
    BY <1>1, TypedParts, ClearedType
  <1> HIDE DEF planet, queue
  <1>4. /\ landed \in Worlds
        /\ landed.ok = w.ok
        /\ landed.arrivals = [w.arrivals EXCEPT ![id] = EmptyArrival]
        /\ landed.planet_arrivals = [w.planet_arrivals EXCEPT ![l] = queue]
        /\ landed.planets = [w.planets EXCEPT ![l] = planet]
        /\ landed.planet_artifacts = w.planet_artifacts
    BY <1>1, <1>2, <1>3, EmptyArrivalType DEF TypedWorld, Worlds
  <1>5. ExecuteArrival(w, id) = Unload(landed, l, arrival.carried_artifact_id)
    BY DEF ExecuteArrival, planet, queue
  <1>6. arrival.carried_artifact_id \in ArtifactIds \cup {NoArtifact}
    BY <1>1 DEF Arrival
  <1>7. arrival.carried_artifact_id # NoArtifact
          => Holds(landed.planet_artifacts[l], NoArtifact)
    BY <1>4 DEF CanLand
  <1>8. w.planets \in [Planets -> Planet]
    BY TypedParts
  <1> HIDE DEF landed, l, arrival
  <1>9. LET x == ExecuteArrival(w, id) IN
        /\ x.arrivals = landed.arrivals
        /\ x.planet_arrivals = landed.planet_arrivals
        /\ x.ok = landed.ok
    BY <1>1, <1>4, <1>5, <1>6, <1>7, UnloadType
  <1>10. ASSUME NEW k \in Planets
         PROVE  LET x == ExecuteArrival(w, id) IN
                /\ x.planets[k].last_updated = landed.planets[k].last_updated
                /\ x.planets[k].is_initialized = landed.planets[k].is_initialized
    <2> DEFINE x == Unload(landed, l, arrival.carried_artifact_id)
    <2>1. /\ x.planets[k].last_updated = landed.planets[k].last_updated
          /\ x.planets[k].is_initialized = landed.planets[k].is_initialized
      <3>1. landed \in Worlds /\ l \in Planets
        BY <1>1, <1>4
      <3> QED
        BY <1>6, <3>1, UnloadClock
    <2> HIDE DEF x
    <2> QED
      BY <1>5, <2>1 DEF x
  <1>11. \A k \in Planets : LET x == ExecuteArrival(w, id) IN
        /\ x.planets[k].is_initialized = w.planets[k].is_initialized
        /\ x.planets[k].last_updated =
             IF k = l THEN arrival.arrival_block ELSE w.planets[k].last_updated
    BY <1>2, <1>4, <1>8, <1>10
  <1> QED
    BY <1>1, <1>4, <1>9, <1>11 DEF l, arrival, queue

LEMMA ExecuteAfter ==
  ASSUME block \in Nat, NEW w, GoodWorld(w), NEW id \in ArrivalIds, CanLand(w, id),
         \A other \in ArrivalIds :
           Alive(w, other) /\ w.arrivals[other].to_planet = w.arrivals[id].to_planet
             => w.arrivals[id].arrival_block <= w.arrivals[other].arrival_block
  PROVE  /\ After(w, ExecuteArrival(w, id))
         /\ \A k \in Planets, i \in Slots : w.planet_arrivals[k][i] = id =>
              ExecuteArrival(w, id).planet_arrivals[k][i] = 0
  <1> DEFINE x == ExecuteArrival(w, id)
             l == w.arrivals[id].to_planet
  <1>1. TypedWorld(w) /\ TypedWorld(x) /\ Queued(w) /\ Clocked(w)
    BY ExecuteType DEF GoodWorld
  <1>2. /\ l \in Planets
        /\ x.arrivals = [w.arrivals EXCEPT ![id] = EmptyArrival]
        /\ x.planet_arrivals = [w.planet_arrivals EXCEPT ![l] = Cleared(@, id)]
        /\ x.ok = w.ok
        /\ \A k \in Planets :
             /\ x.planets[k].is_initialized = w.planets[k].is_initialized
             /\ x.planets[k].last_updated =
                  IF k = l THEN w.arrivals[id].arrival_block
                           ELSE w.planets[k].last_updated
    BY <1>1, ExecuteEffect
  <1> HIDE DEF x
  <1>3. /\ w.planet_arrivals \in [Planets -> [Slots -> ArrivalIds \cup {0}]]
        /\ w.arrivals \in [ArrivalIds -> Arrival]
        /\ BoundIn(w)
    BY <1>1, TypedParts
  <1>4. id # 0 /\ 0 \notin ArrivalIds /\ ArrivalIds \subseteq Nat
    BY ArtifactAssumption DEF ArrivalIds
  <1>5. \A other \in ArrivalIds :
          x.arrivals[other] = IF other = id THEN EmptyArrival ELSE w.arrivals[other]
    BY <1>2, <1>3
  <1>6. \A k \in Planets, i \in Slots :
          x.planet_arrivals[k][i] = IF w.planet_arrivals[k][i] = id THEN 0
                                    ELSE w.planet_arrivals[k][i]
    <2> SUFFICES ASSUME NEW k \in Planets, NEW i \in Slots
                 PROVE  x.planet_arrivals[k][i] =
                          IF w.planet_arrivals[k][i] = id THEN 0
                          ELSE w.planet_arrivals[k][i]
      OBVIOUS
    <2>1. CASE k = l
      <3>1. x.planet_arrivals[l] = Cleared(w.planet_arrivals[l], id)
        BY <1>2, <1>3
      <3>2. w.planet_arrivals[l] \in [Slots -> ArrivalIds \cup {0}]
        BY <1>2, <1>3
      <3>3. \A m, n \in Slots : w.planet_arrivals[l][m] # 0 /\ m # n =>
              w.planet_arrivals[l][m] # w.planet_arrivals[l][n]
        BY <1>1, <1>2 DEF Queued
      <3> HIDE DEF l
      <3> QED
        BY <2>1, <3>1, <3>2, <3>3, ClearedExact
    <2>2. CASE k # l
      <3>1. x.planet_arrivals[k] = w.planet_arrivals[k]
        BY <1>2, <1>3, <2>2
      <3>2. w.planet_arrivals[k][i] # id
        BY <1>1, <1>4, <2>2 DEF Queued
      <3> QED
        BY <3>1, <3>2
    <2> QED
      BY <2>1, <2>2
  <1>7. ~Alive(x, id)
    BY <1>5, EmptyNotAlive DEF Alive
  <1>8. \A other \in ArrivalIds : Alive(x, other) =>
          /\ Alive(w, other) /\ other # id
          /\ x.arrivals[other] = w.arrivals[other]
    BY <1>5, <1>7 DEF Alive
  <1>9. Queued(x)
    <2>1. ASSUME NEW k \in Planets, NEW i \in Slots, x.planet_arrivals[k][i] # 0
          PROVE  /\ Alive(x, x.planet_arrivals[k][i])
                 /\ x.arrivals[x.planet_arrivals[k][i]].to_planet = k
      <3> DEFINE v == x.planet_arrivals[k][i]
      <3>1. v = w.planet_arrivals[k][i] /\ v # id
        BY <1>6, <2>1
      <3>2. v \in ArrivalIds /\ Alive(w, v) /\ w.arrivals[v].to_planet = k
        BY <1>1, <1>3, <2>1, <3>1 DEF Queued
      <3> HIDE DEF v
      <3>3. x.arrivals[v] = w.arrivals[v]
        BY <1>5, <3>1, <3>2
      <3> QED
        BY <3>2, <3>3 DEF Alive, v
    <2>2. \A k \in Planets, i, j \in Slots :
            x.planet_arrivals[k][i] # 0 /\ i # j =>
              x.planet_arrivals[k][i] # x.planet_arrivals[k][j]
      <3>1. \A k \in Planets, i, j \in Slots :
            w.planet_arrivals[k][i] # 0 /\ i # j =>
              w.planet_arrivals[k][i] # w.planet_arrivals[k][j]
        BY <1>1 DEF Queued
      <3> QED
        BY <1>6, <3>1
    <2>3. ASSUME NEW other \in ArrivalIds, Alive(x, other)
          PROVE  /\ other < next_arrival_id
                 /\ x.arrivals[other].to_planet \in Planets
                 /\ Holds(x.planet_arrivals[x.arrivals[other].to_planet], other)
      <3> DEFINE k == w.arrivals[other].to_planet
      <3>1. /\ Alive(w, other) /\ other # id
            /\ x.arrivals[other].to_planet = k
        BY <1>8, <2>3
      <3>2. /\ other < next_arrival_id /\ k \in Planets
            /\ Holds(w.planet_arrivals[k], other)
        BY <1>1, <3>1 DEF Queued
      <3> HIDE DEF k
      <3>3. PICK i \in Slots : w.planet_arrivals[k][i] = other
        BY <1>3, <3>2 DEF Holds
      <3>4. x.planet_arrivals[k][i] = other
        BY <1>6, <3>1, <3>2, <3>3
      <3>5. DOMAIN x.planet_arrivals[k] = Slots
        BY <1>1, <3>2 DEF TypedWorld, Worlds
      <3> QED
        BY <3>1, <3>2, <3>4, <3>5 DEF Holds
    <2> QED
      BY <2>1, <2>2, <2>3 DEF Queued
  <1>10. Clocked(x)
    <2>1. \A k \in Planets : x.planets[k].last_updated <= block
      BY <1>1, <1>2 DEF Clocked, CanLand
    <2>2. ASSUME NEW other \in ArrivalIds, Alive(x, other)
          PROVE  /\ x.planets[x.arrivals[other].to_planet].is_initialized
                 /\ x.planets[x.arrivals[other].to_planet].last_updated
                      <= x.arrivals[other].arrival_block
      <3> DEFINE k == w.arrivals[other].to_planet
      <3>1. /\ Alive(w, other)
            /\ x.arrivals[other] = w.arrivals[other]
        BY <1>8, <2>2
      <3>2. /\ k \in Planets
            /\ w.planets[k].is_initialized
            /\ w.planets[k].last_updated <= w.arrivals[other].arrival_block
        BY <1>1, <3>1 DEF Clocked, Queued
      <3>3. x.planets[k].is_initialized
        BY <1>2, <3>2
      <3>4. x.planets[k].last_updated <= w.arrivals[other].arrival_block
        BY <1>2, <3>1, <3>2
      <3> QED
        BY <3>1, <3>3, <3>4
    <2> QED
      BY <2>1, <2>2 DEF Clocked
  <1>11. \A k \in Planets : DueSlots(x, k, block) \subseteq DueSlots(w, k, block)
    <2> SUFFICES ASSUME NEW k \in Planets, NEW i \in DueSlots(x, k, block)
                 PROVE  i \in DueSlots(w, k, block)
      OBVIOUS
    <2>1. /\ i \in Slots /\ x.planet_arrivals[k][i] # 0
          /\ x.arrivals[x.planet_arrivals[k][i]].arrival_block \in 1..block
      BY DEF DueSlots
    <2>2. /\ x.planet_arrivals[k][i] = w.planet_arrivals[k][i]
          /\ w.planet_arrivals[k][i] \in ArrivalIds
          /\ w.planet_arrivals[k][i] # id
      BY <1>3, <1>6, <2>1
    <2> QED
      BY <1>5, <2>1, <2>2 DEF DueSlots
  <1>12. InOrder(w, x)
    <2>1. \A other \in ArrivalIds :
            x.arrivals[other] = w.arrivals[other] \/ x.arrivals[other] = EmptyArrival
      BY <1>5
    <2>2. ASSUME NEW a \in ArrivalIds, NEW other \in ArrivalIds,
                 Alive(w, a), ~Alive(x, a)
          PROVE  /\ w.arrivals[a].arrival_block <= block
                 /\ ~(/\ Alive(x, other)
                      /\ w.arrivals[other].to_planet = w.arrivals[a].to_planet
                      /\ w.arrivals[other].arrival_block
                           < w.arrivals[a].arrival_block)
      <3>1. a = id
        BY <1>5, <2>2 DEF Alive
      <3>2. w.arrivals[id].arrival_block \in Nat
            /\ w.arrivals[other].arrival_block \in Nat
        BY <1>3 DEF Arrival
      <3>3. w.arrivals[id].arrival_block <= block
        BY <3>2 DEF CanLand
      <3> QED
        BY <1>8, <3>1, <3>2, <3>3
    <2> QED
      BY <2>1, <2>2 DEF InOrder
  <1> QED
    BY <1>1, <1>2, <1>6, <1>9, <1>10, <1>11, <1>12 DEF After, GoodWorld, x

-----------------------------------------------------------------------------
(* A round, and twelve of them. *)

\* The earliest of the slots that hold all arrivals up to some time is the
\* earliest of all arrivals on their way to the planet.
LEMMA EarliestOfAll ==
  ASSUME NEW w, GoodWorld(w), NEW l \in Planets, NEW slots \in SUBSET Slots,
         slots # {},
         \A i \in slots : /\ w.planet_arrivals[l][i] \in ArrivalIds
                          /\ Alive(w, w.planet_arrivals[l][i]),
         \A i \in slots, j \in Slots :
           /\ w.planet_arrivals[l][j] # 0
           /\ w.arrivals[w.planet_arrivals[l][j]].arrival_block
                <= w.arrivals[w.planet_arrivals[l][i]].arrival_block
           => j \in slots
  PROVE  LET id == EarliestId(w, l, slots) IN
         /\ id \in ArrivalIds
         /\ w.arrivals[id].to_planet = l
         /\ \E i \in slots : w.planet_arrivals[l][i] = id
         /\ \A other \in ArrivalIds :
              Alive(w, other) /\ w.arrivals[other].to_planet = l
                => w.arrivals[id].arrival_block <= w.arrivals[other].arrival_block
  <1>1. TypedWorld(w) /\ Queued(w) /\ w \in Worlds
    BY DEF GoodWorld, TypedWorld
  <1>2. /\ w.planet_arrivals \in [Planets -> [Slots -> ArrivalIds \cup {0}]]
        /\ w.arrivals \in [ArrivalIds -> Arrival]
    BY <1>1, TypedParts
  <1>3. PICK i \in slots :
          /\ EarliestId(w, l, slots) = w.planet_arrivals[l][i]
          /\ \A j \in slots : w.arrivals[w.planet_arrivals[l][i]].arrival_block
                                <= w.arrivals[w.planet_arrivals[l][j]].arrival_block
    BY <1>1, EarliestFound
  <1> DEFINE id == w.planet_arrivals[l][i]
  <1>4. id \in ArrivalIds /\ Alive(w, id) /\ id # 0
    BY DEF ArrivalIds
  <1>5. w.arrivals[id].to_planet = l
    BY <1>1, <1>4 DEF Queued
  <1>6. ASSUME NEW other \in ArrivalIds, Alive(w, other),
               w.arrivals[other].to_planet = l
        PROVE  w.arrivals[id].arrival_block <= w.arrivals[other].arrival_block
    <2>1. Holds(w.planet_arrivals[l], other)
      BY <1>1, <1>6 DEF Queued
    <2>2. PICK j \in Slots : w.planet_arrivals[l][j] = other
      BY <1>2, <2>1 DEF Holds
    <2>3. other # 0
      BY DEF ArrivalIds
    <2>4. /\ w.arrivals[id].arrival_block \in Nat
          /\ w.arrivals[other].arrival_block \in Nat
      BY <1>2, <1>4 DEF Arrival
    <2>5. CASE w.arrivals[other].arrival_block <= w.arrivals[id].arrival_block
      <3>1. j \in slots
        BY <2>2, <2>3, <2>5
      <3> QED
        BY <1>3, <2>2, <3>1
    <2>6. CASE ~(w.arrivals[other].arrival_block <= w.arrivals[id].arrival_block)
      <3> HIDE DEF id
      <3> QED
        BY <2>4, <2>6
    <2> QED
      BY <2>5, <2>6
  <1> QED
    BY <1>3, <1>4, <1>5, <1>6

LEMMA RoundAfter ==
  ASSUME block \in Nat, NEW w, GoodWorld(w), NEW l \in Planets
  PROVE  /\ After(w, Round(w, l))
         /\ ~Done(w, l) /\ Round(w, l).ok =>
              \E i \in DueSlots(w, l, block) : i \notin DueSlots(Round(w, l), l, block)
  <1> DEFINE due == DueSlots(w, l, block)
             id  == EarliestId(w, l, due)
             x   == ExecuteArrival(w, id)
  <1>1. CASE Done(w, l)
    BY <1>1, AfterReflexive DEF Round
  <1>2. CASE ~Done(w, l)
    <2>1. Round(w, l) = x
      BY <1>2 DEF Round
    <2>2. TypedWorld(w) /\ w \in Worlds /\ w.ok /\ due # {}
      BY <1>2 DEF GoodWorld, TypedWorld, Done
    <2>3. /\ w.planet_arrivals \in [Planets -> [Slots -> ArrivalIds \cup {0}]]
          /\ w.arrivals \in [ArrivalIds -> Arrival]
      BY <2>2, TypedParts
    <2>4. /\ id \in ArrivalIds
          /\ w.arrivals[id].to_planet = l
          /\ \E i \in due : w.planet_arrivals[l][i] = id
          /\ \A other \in ArrivalIds :
               Alive(w, other) /\ w.arrivals[other].to_planet = l
                 => w.arrivals[id].arrival_block <= w.arrivals[other].arrival_block
      <3>1. /\ due \in SUBSET Slots
            /\ \A i \in due : w.planet_arrivals[l][i] \in ArrivalIds
        BY <2>2, DueIds
      <3>2. \A i \in due : Alive(w, w.planet_arrivals[l][i])
        BY DEF DueSlots, Alive
      <3>3. ASSUME NEW i \in due, NEW j \in Slots, w.planet_arrivals[l][j] # 0,
                   w.arrivals[w.planet_arrivals[l][j]].arrival_block
                     <= w.arrivals[w.planet_arrivals[l][i]].arrival_block
            PROVE  j \in due
        <4> DEFINE v == w.planet_arrivals[l][j]
        <4>1. v \in ArrivalIds
          BY <2>3, <3>3
        <4>2. Alive(w, v)
          BY <3>3 DEF GoodWorld, Queued
        <4>3. w.arrivals[v].arrival_block \in Nat
          BY <2>3, <4>1 DEF Arrival
        <4>4. w.arrivals[w.planet_arrivals[l][i]].arrival_block \in 1..block
          BY DEF DueSlots
        <4>5. w.arrivals[v].arrival_block \in 1..block
          BY <3>3, <4>2, <4>3, <4>4 DEF Alive
        <4> QED
          BY <3>3, <4>5 DEF DueSlots
      <3> HIDE DEF due
      <3> QED
        BY <2>2, <3>1, <3>2, <3>3, EarliestOfAll
    <2> HIDE DEF id, x
    <2>5. CASE CanLand(w, id)
      <3>1. /\ After(w, x)
            /\ \A k \in Planets, i \in Slots : w.planet_arrivals[k][i] = id =>
                 x.planet_arrivals[k][i] = 0
        BY <2>4, <2>5, ExecuteAfter DEF x
      <3>2. PICK i \in due : w.planet_arrivals[l][i] = id
        BY <2>4
      <3>3. i \in Slots
        BY DEF DueSlots
      <3>4. x.planet_arrivals[l][i] = 0
        BY <3>1, <3>2, <3>3
      <3>5. i \notin DueSlots(x, l, block)
        BY <3>4 DEF DueSlots
      <3> QED
        BY <2>1, <3>1, <3>2, <3>5
    <2>6. CASE ~CanLand(w, id)
      <3>1. x = [w EXCEPT !.ok = FALSE]
        BY <2>6 DEF ExecuteArrival, x
      <3>2. /\ x.ok = FALSE /\ x.planets = w.planets
            /\ x.planet_arrivals = w.planet_arrivals /\ x.arrivals = w.arrivals
        BY <2>2, <3>1 DEF Worlds
      <3>3. TypedWorld(x)
        BY <2>2, <2>4, ExecuteType DEF x
      <3>4. Queued(x)
        BY <3>2 DEF GoodWorld, Queued, Alive
      <3>5. Clocked(x)
        BY <3>2 DEF GoodWorld, Clocked, Alive
      <3>6. After(w, x)
        BY <3>2, <3>3, <3>4, <3>5 DEF After, GoodWorld, DueSlots, InOrder, Alive
      <3> QED
        BY <2>1, <3>2, <3>6
    <2> QED
      BY <2>5, <2>6
  <1> QED
    BY <1>1, <1>2

\* A transaction that is still good has at most n landings to go.
ToGo(w, l, n) == w.ok => Cardinality(DueSlots(w, l, block)) <= n

LEMMA SlotsFinite == IsFiniteSet(Slots) /\ Cardinality(Slots) <= 12
  <1> DEFINE m == 2 * MAX_ARRIVALS_PER_BUCKET
  <1>1. m \in 1..12
    BY LimitAssumption
  <1>2. Slots = 1..m
    BY DEF Slots
  <1> HIDE DEF m
  <1>3. 1 \in Int /\ m \in Int /\ ~(1 > m)
    BY <1>1
  <1>4. IsFiniteSet(1..m) /\ Cardinality(1..m) = m - 1 + 1
    BY <1>3, FS_Interval
  <1> QED
    BY <1>1, <1>2, <1>4

LEMMA DueFinite ==
  ASSUME NEW w, NEW l
  PROVE  /\ IsFiniteSet(DueSlots(w, l, block))
         /\ Cardinality(DueSlots(w, l, block)) \in Nat
         /\ Cardinality(DueSlots(w, l, block)) <= 12
  <1>1. DueSlots(w, l, block) \subseteq Slots
    BY DEF DueSlots
  <1>2. /\ IsFiniteSet(DueSlots(w, l, block))
        /\ Cardinality(DueSlots(w, l, block)) <= Cardinality(Slots)
    BY <1>1, SlotsFinite, FS_Subset
  <1>3. Cardinality(DueSlots(w, l, block)) \in Nat /\ Cardinality(Slots) \in Nat
    BY <1>2, SlotsFinite, FS_CardinalityType
  <1> QED
    BY <1>2, <1>3, SlotsFinite

\* Each round lands one.
LEMMA RoundLeft ==
  ASSUME block \in Nat, NEW w, GoodWorld(w), NEW l \in Planets, NEW n \in Nat,
         ToGo(w, l, n + 1)
  PROVE  GoodWorld(Round(w, l)) /\ After(w, Round(w, l)) /\ ToGo(Round(w, l), l, n)
  <1> DEFINE x   == Round(w, l)
             due == DueSlots(w, l, block)
             now == DueSlots(x, l, block)
  <1>1. After(w, x) /\ GoodWorld(x)
    BY RoundAfter DEF After
  <1>2. CASE ~x.ok
    BY <1>1, <1>2 DEF ToGo
  <1>3. CASE x.ok
    <2>1. w.ok /\ now \subseteq due
      BY <1>1, <1>3 DEF After
    <2>2. CASE Done(w, l)
      <3>1. due = {}
        BY <2>1, <2>2 DEF Done
      <3>2. now = {}
        BY <2>1, <3>1
      <3>3. Cardinality(now) = 0
        BY <3>2, FS_EmptySet
      <3> QED
        BY <1>1, <3>3 DEF ToGo
    <2>3. CASE ~Done(w, l)
      <3>1. PICK i \in due : i \notin now
        BY <1>3, <2>3, RoundAfter
      <3>2. /\ IsFiniteSet(due) /\ Cardinality(due) \in Nat
            /\ Cardinality(due) <= n + 1
        BY <2>1, DueFinite DEF ToGo
      <3>3. Cardinality(now) \in Nat
        BY DueFinite
      <3> HIDE DEF due, now, x
      <3>4. /\ IsFiniteSet(due \ {i})
            /\ Cardinality(due \ {i}) = Cardinality(due) - 1
        BY <3>2, FS_RemoveElement
      <3>5. Cardinality(now) <= Cardinality(due \ {i})
        BY <2>1, <3>1, <3>4, FS_Subset
      <3>6. Cardinality(now) <= n
        BY <3>2, <3>3, <3>4, <3>5
      <3> QED
        BY <1>1, <3>6 DEF ToGo, now, x
    <2> QED
      BY <2>2, <2>3
  <1> QED
    BY <1>2, <1>3

LEMMA ThreeRoundsToGo ==
  ASSUME block \in Nat, NEW w, GoodWorld(w), NEW l \in Planets, NEW n \in Nat,
         ToGo(w, l, n + 3)
  PROVE  /\ GoodWorld(ThreeRounds(w, l)) /\ After(w, ThreeRounds(w, l))
         /\ ToGo(ThreeRounds(w, l), l, n)
  <1> DEFINE x == Round(w, l)
             y == Round(x, l)
  <1>1. n + 1 \in Nat /\ n + 2 \in Nat /\ (n + 2) + 1 = n + 3 /\ (n + 1) + 1 = n + 2
    OBVIOUS
  <1>2. GoodWorld(x) /\ After(w, x) /\ ToGo(x, l, n + 2)
    BY <1>1, RoundLeft
  <1> HIDE DEF x
  <1>3. GoodWorld(y) /\ After(x, y) /\ ToGo(y, l, n + 1)
    BY <1>1, <1>2, RoundLeft
  <1> HIDE DEF y
  <1>4. GoodWorld(Round(y, l)) /\ After(y, Round(y, l)) /\ ToGo(Round(y, l), l, n)
    BY <1>3, RoundLeft
  <1>5. After(w, Round(y, l))
    BY <1>2, <1>3, <1>4, AfterTransitive
  <1> QED
    BY <1>4, <1>5 DEF ThreeRounds, x, y

\* Twelve rounds are enough: when process_pending_arrivals returns, nothing that
\* is due is left in the queue of the planet.
THEOREM ProcessSettles ==
  ASSUME block \in Nat, NEW w, GoodWorld(w), NEW l \in Planets
  PROVE  /\ After(w, ProcessPending(w, l))
         /\ ProcessPending(w, l).ok => DueSlots(ProcessPending(w, l), l, block) = {}
  <1>1. CASE Done(w, l)
    BY <1>1, AfterReflexive DEF ProcessPending, Done
  <1>2. CASE ~Done(w, l)
    <2> DEFINE a == ThreeRounds(w, l)
               b == ThreeRounds(a, l)
               c == ThreeRounds(b, l)
               d == ThreeRounds(c, l)
    <2>1. ToGo(w, l, 9 + 3)
      BY DueFinite DEF ToGo
    <2>2. GoodWorld(a) /\ After(w, a) /\ ToGo(a, l, 6 + 3)
      <3>1. GoodWorld(a) /\ After(w, a) /\ ToGo(a, l, 9)
        BY <2>1, ThreeRoundsToGo
      <3> QED
        BY <3>1
    <2> HIDE DEF a
    <2>3. GoodWorld(b) /\ After(a, b) /\ ToGo(b, l, 3 + 3)
      <3>1. GoodWorld(b) /\ After(a, b) /\ ToGo(b, l, 6)
        BY <2>2, ThreeRoundsToGo
      <3> QED
        BY <3>1
    <2> HIDE DEF b
    <2>4. GoodWorld(c) /\ After(b, c) /\ ToGo(c, l, 0 + 3)
      <3>1. GoodWorld(c) /\ After(b, c) /\ ToGo(c, l, 3)
        BY <2>3, ThreeRoundsToGo
      <3> QED
        BY <3>1
    <2> HIDE DEF c
    <2>5. After(c, d) /\ ToGo(d, l, 0)
      BY <2>4, ThreeRoundsToGo
    <2> HIDE DEF d
    <2>6. After(w, d)
      <3>1. After(w, b)
        BY <2>2, <2>3, AfterTransitive
      <3>2. After(w, c)
        BY <2>4, <3>1, AfterTransitive
      <3> QED
        BY <2>5, <3>2, AfterTransitive
    <2>7. d.ok => DueSlots(d, l, block) = {}
      <3> DEFINE due == DueSlots(d, l, block)
      <3>1. IsFiniteSet(due) /\ Cardinality(due) \in Nat
        BY DueFinite
      <3>2. d.ok => Cardinality(due) <= 0
        BY <2>5 DEF ToGo
      <3> HIDE DEF due
      <3>3. d.ok => Cardinality(due) = 0
        BY <3>1, <3>2
      <3> QED
        BY <3>1, <3>3, FS_EmptySet DEF due
    <2> QED
      BY <1>2, <2>6, <2>7 DEF ProcessPending, a, b, c, d
  <1> QED
    BY <1>1, <1>2

LEMMA WorldGood == ASSUME QInv PROVE GoodWorld(World) /\ block \in Nat
  <1>1. TypedWorld(World) /\ block \in Nat
    BY WorldTyped DEF QInv, TInv, TypeOK
  <1>2. /\ World.planets = planets /\ World.arrivals = arrivals
        /\ World.planet_arrivals = planet_arrivals
    BY DEF World
  <1>3. Queued(World)
    BY <1>2 DEF QInv, QueueExact, Queued, Alive, Live
  <1>4. Clocked(World)
    BY <1>2 DEF QInv, ClockBehindArrivals, Clocked, Alive, Live
  <1> QED
    BY <1>1, <1>3, <1>4 DEF GoodWorld

\* A move has landed what is due at both ends: the second of the two calls of
\* process_pending_arrivals leaves the queue of the first as it was or shorter.
LEMMA SettledGood ==
  ASSUME QInv, NEW from \in Planets, NEW to \in Planets
  PROVE  /\ After(World, Settled(from, to)) /\ GoodWorld(Settled(from, to))
         /\ Settled(from, to).ok => DueSlots(Settled(from, to), from, block) = {}
  <1> DEFINE x == ProcessPending(World, from)
             y == ProcessPending(x, to)
  <1>1. GoodWorld(World) /\ block \in Nat
    BY WorldGood
  <1>2. /\ After(World, x)
        /\ x.ok => DueSlots(x, from, block) = {}
    BY <1>1, ProcessSettles
  <1>3. GoodWorld(x)
    BY <1>2 DEF After
  <1> HIDE DEF x
  <1>4. After(x, y)
    BY <1>1, <1>3, ProcessSettles
  <1> HIDE DEF y
  <1>5. After(World, y)
    BY <1>2, <1>4, AfterTransitive
  <1>6. y.ok => DueSlots(y, from, block) = {}
    BY <1>2, <1>4 DEF After
  <1>7. Settled(from, to) = y
    BY DEF Settled, x, y
  <1> QED
    BY <1>5, <1>6, <1>7 DEF After

LEMMA NothingDue ==
  ASSUME block \in Nat, NEW w, GoodWorld(w), NEW l \in Planets,
         DueSlots(w, l, block) = {}
  PROVE  \A id \in ArrivalIds : Alive(w, id) /\ w.arrivals[id].to_planet = l =>
           block < w.arrivals[id].arrival_block
  <1> SUFFICES ASSUME NEW id \in ArrivalIds, Alive(w, id),
                      w.arrivals[id].to_planet = l
               PROVE  block < w.arrivals[id].arrival_block
    OBVIOUS
  <1>1. /\ w.planet_arrivals \in [Planets -> [Slots -> ArrivalIds \cup {0}]]
        /\ w.arrivals \in [ArrivalIds -> Arrival]
    BY TypedParts DEF GoodWorld
  <1>2. Holds(w.planet_arrivals[l], id) /\ id # 0
    BY DEF GoodWorld, Queued, ArrivalIds
  <1>3. PICK i \in Slots : w.planet_arrivals[l][i] = id
    BY <1>1, <1>2 DEF Holds
  <1>4. w.arrivals[id].arrival_block \in Nat /\ w.arrivals[id].arrival_block # 0
    BY <1>1 DEF Arrival, Alive
  <1>5. i \notin DueSlots(w, l, block)
    OBVIOUS
  <1>6. w.arrivals[id].arrival_block \notin 1..block
    BY <1>2, <1>3, <1>5 DEF DueSlots
  <1> QED
    BY <1>4, <1>6

-----------------------------------------------------------------------------
(* Steps. *)

LandStep ==
    \A id, other \in ArrivalIds :
        Lands(id) =>
          /\ arrivals[id].arrival_block <= block
          /\ ~(/\ Live(other) /\ ~Lands(other)
               /\ arrivals[other].to_planet = arrivals[id].to_planet
               /\ arrivals[other].arrival_block < arrivals[id].arrival_block)

\* No planet is unset.
PlanetsStay ==
    \A l \in Planets : planets[l].is_initialized => planets'[l].is_initialized

QStep == QueueExact' /\ ClockBehindArrivals' /\ LandStep /\ PlanetsStay

\* A move sends one arrival, and sets no planet but its destination.
Sends(to) ==
    /\ next_arrival_id \in ArrivalIds
    /\ next_arrival_id' = next_arrival_id + 1
    /\ arrivals'[next_arrival_id].to_planet = to
    /\ \A l \in Planets :
         planets'[l].is_initialized <=> l = to \/ planets[l].is_initialized

\* A step that neither sends nor lands, and moves no clock but that of a planet
\* it initializes.
LEMMA PlacesKept ==
  ASSUME QInv, UNCHANGED <<block, planet_arrivals, arrivals, next_arrival_id>>,
         \A l \in Planets :
           \/ /\ planets'[l].is_initialized = planets[l].is_initialized
              /\ planets'[l].last_updated = planets[l].last_updated
           \/ ~planets[l].is_initialized /\ planets'[l].last_updated <= block
  PROVE  QStep
  <1>1. QueueExact'
    BY DEF QInv, QueueExact, Live
  <1>2. LandStep
    BY DEF LandStep, Lands, Live
  <1>3. ClockBehindArrivals'
    <2>1. \A l \in Planets : planets'[l].last_updated <= block
      BY DEF QInv, ClockBehindArrivals
    <2>2. ASSUME NEW id \in ArrivalIds, Live(id)
          PROVE  LET l == arrivals[id].to_planet IN
                 /\ planets'[l].is_initialized
                 /\ planets'[l].last_updated <= arrivals[id].arrival_block
      BY <2>2 DEF QInv, ClockBehindArrivals, QueueExact
    <2> QED
      BY <2>1, <2>2 DEF ClockBehindArrivals, Live
  <1>4. PlanetsStay
    BY DEF PlanetsStay
  <1> QED
    BY <1>1, <1>2, <1>3, <1>4 DEF QStep

LEMMA QStutter == ASSUME QInv, UNCHANGED vars PROVE QueueExact' /\ ClockBehindArrivals'
  BY DEF QInv, QueueExact, ClockBehindArrivals, Live, vars, fleetVars

LEMMA QNextBlock == ASSUME QInv, NextBlock PROVE QStep
  <1>1. QueueExact' /\ LandStep
    BY DEF QInv, QueueExact, Live, LandStep, Lands, NextBlock, fleetVars
  <1>2. block \in Nat /\ \A l \in Planets : planets[l].last_updated \in Nat
    BY DEF QInv, TInv, TypeOK, Planet
  <1>3. block' = block + 1 /\ UNCHANGED <<planets, arrivals>>
    BY DEF NextBlock, fleetVars
  <1>4. \A l \in Planets : planets[l].last_updated <= block + 1
    BY <1>2 DEF QInv, ClockBehindArrivals
  <1>5. ClockBehindArrivals'
    BY <1>3, <1>4 DEF QInv, ClockBehindArrivals, Live
  <1> QED
    BY <1>1, <1>3, <1>5 DEF QStep, PlanetsStay

\* A step that lands and writes what is left.
LEMMA QWrite ==
  ASSUME QInv, NEW w, After(World, w), Write(w), UNCHANGED <<block, next_arrival_id>>
  PROVE  QStep
  <1>1. GoodWorld(w) /\ InOrder(World, w) /\ World.arrivals = arrivals
    BY DEF After, World
  <1>2. QueueExact'
    BY <1>1 DEF Write, GoodWorld, Queued, QueueExact, Alive, Live
  <1>3. ClockBehindArrivals'
    BY <1>1 DEF Write, GoodWorld, Clocked, ClockBehindArrivals, Alive, Live
  <1>4. LandStep
    BY <1>1 DEF Write, InOrder, LandStep, Lands, Alive, Live
  <1>5. PlanetsStay
    BY DEF Write, After, World, PlanetsStay
  <1> QED
    BY <1>2, <1>3, <1>4, <1>5 DEF QStep

LEMMA WithDestinationClock ==
  ASSUME QInv, NEW w, GoodWorld(w), NEW to \in Planets
  PROVE  /\ WithDestination(w, to)[to].is_initialized
         /\ \A l \in Planets : WithDestination(w, to)[l].last_updated <= block
         /\ \A l \in Planets : w.planets[l].is_initialized =>
              WithDestination(w, to)[l] = w.planets[l]
         /\ \A l \in Planets : l # to => WithDestination(w, to)[l] = w.planets[l]
  <1> DEFINE new == Destination(w, to)
  <1>1. w.planets \in [Planets -> Planet] /\ block \in Nat
    BY TypedParts DEF GoodWorld, QInv, TInv, TypeOK
  <1>2. \A l \in Planets : w.planets[l].last_updated <= block
    BY DEF GoodWorld, Clocked
  <1>3. CASE w.planets[to].is_initialized
    BY <1>2, <1>3 DEF WithDestination
  <1>4. CASE ~w.planets[to].is_initialized
    <2>1. new.is_initialized = TRUE /\ new.last_updated = block
      BY <1>4 DEF Destination, NewPlanet, DefaultPlanet
    <2>2. WithDestination(w, to) = [w.planets EXCEPT ![to] = new]
      BY <1>4 DEF WithDestination
    <2> HIDE DEF new
    <2> QED
      BY <1>1, <1>2, <1>4, <2>1, <2>2
  <1> QED
    BY <1>3, <1>4

LEMMA QDepart ==
  ASSUME QInv, MayDepart, UNCHANGED block, NEW w, After(World, w),
         NEW from \in Planets, DueSlots(w, from, block) = {},
         w.planets[from].is_initialized, NEW to \in Planets,
         NEW origin \in Planet, origin.is_initialized,
         NEW arrival \in Arrival, arrival.to_planet = to,
         block < arrival.arrival_block, NEW slots, NEW counts,
         Depart(w, from, to, origin, arrival, slots, counts)
  PROVE  QStep /\ Sends(to)
  <1> DEFINE left  == [origin EXCEPT !.last_updated = block]
             n     == next_arrival_id
             there == WithDestination(w, to)
  <1>1. /\ GoodWorld(w) /\ InOrder(World, w) /\ World.arrivals = arrivals
        /\ block \in Nat /\ n \in ArrivalIds /\ n \in Nat
        /\ 0 \notin ArrivalIds /\ ArrivalIds \subseteq Nat
    <2>1. n \in Nat /\ n \in ArrivalIds
      BY DEF QInv, TInv, TypeOK, MayDepart
    <2>2. 0 \notin ArrivalIds /\ ArrivalIds \subseteq Nat
      BY ArtifactAssumption DEF ArrivalIds
    <2> QED
      BY <2>1, <2>2 DEF After, World, QInv, TInv, TypeOK
  <1>2. /\ w.planets \in [Planets -> Planet]
        /\ w.planet_arrivals \in [Planets -> [Slots -> ArrivalIds \cup {0}]]
        /\ w.arrivals \in [ArrivalIds -> Arrival]
        /\ Queued(w) /\ Clocked(w) /\ TypedWorld(w)
    BY <1>1, TypedParts DEF GoodWorld
  <1>3. left.is_initialized /\ left.last_updated = block
    BY DEF Planet
  <1>4. PICK s \in Slots :
          /\ w.planet_arrivals[to][s] = 0
          /\ Put(w.planet_arrivals[to], 0, n) = [w.planet_arrivals[to] EXCEPT ![s] = n]
    <2>1. w.planet_arrivals[to] \in [Slots -> ArrivalIds \cup {0}]
      BY <1>2
    <2>2. n \in ArrivalIds \cup {0} /\ Holds(w.planet_arrivals[to], 0)
      BY <1>1 DEF Depart
    <2> DEFINE queue == w.planet_arrivals[to]
    <2> HIDE DEF n, queue
    <2>3. queue \in [Slots -> ArrivalIds \cup {0}] /\ Holds(queue, 0)
      BY <2>1, <2>2 DEF queue
    <2>4. \E s \in Slots :
            /\ queue[s] = 0
            /\ Put(queue, 0, n) = [queue EXCEPT ![s] = n]
            /\ Put(queue, 0, n) \in [Slots -> ArrivalIds \cup {0}]
      BY <2>2, <2>3, SlotsNat, PutKeeps
    <2> QED
      BY <2>4 DEF queue
  <1>5. /\ planets' = [there EXCEPT ![from] = left]
        /\ planet_arrivals' =
             [w.planet_arrivals EXCEPT ![to] = [@ EXCEPT ![s] = n]]
        /\ arrivals' = [w.arrivals EXCEPT ![n] = arrival]
        /\ next_arrival_id' = n + 1
    BY <1>2, <1>4 DEF Depart
  <1>6. there \in [Planets -> Planet]
    BY <1>2, DestinationType DEF QInv
  <1>7. /\ there[to].is_initialized
        /\ \A l \in Planets : there[l].last_updated <= block
        /\ \A l \in Planets : w.planets[l].is_initialized => there[l] = w.planets[l]
        /\ \A l \in Planets : l # to => there[l] = w.planets[l]
    BY <1>1, WithDestinationClock
  <1>8. ~Alive(w, n)
    BY <1>1, <1>2 DEF Queued
  <1> HIDE DEF left, there, n
  <1>9. \A id \in ArrivalIds : arrivals'[id] = IF id = n THEN arrival ELSE w.arrivals[id]
    BY <1>2, <1>5
  <1>10. \A l \in Planets, i \in Slots :
           planet_arrivals'[l][i] = IF l = to /\ i = s THEN n
                                    ELSE w.planet_arrivals[l][i]
    BY <1>2, <1>5
  <1>11. \A l \in Planets, i \in Slots : w.planet_arrivals[l][i] # n
    BY <1>1, <1>2, <1>8 DEF Queued
  <1>12. arrivals'[n].arrival_block # 0 /\ arrivals'[n].to_planet = to
    BY <1>1, <1>9
  <1>13. QueueExact'
    <2>1. ASSUME NEW l \in Planets, NEW i \in Slots, planet_arrivals'[l][i] # 0
          PROVE  /\ arrivals'[planet_arrivals'[l][i]].arrival_block # 0
                 /\ arrivals'[planet_arrivals'[l][i]].to_planet = l
      <3> DEFINE v == planet_arrivals'[l][i]
      <3>1. CASE l = to /\ i = s
        BY <1>10, <1>12, <3>1
      <3>2. CASE ~(l = to /\ i = s)
        <4>1. v = w.planet_arrivals[l][i]
          BY <1>10, <3>2
        <4>2. /\ v \in ArrivalIds /\ v # n
              /\ Alive(w, v) /\ w.arrivals[v].to_planet = l
          BY <1>2, <1>11, <2>1, <4>1 DEF Queued
        <4> HIDE DEF v
        <4>3. arrivals'[v] = w.arrivals[v]
          BY <1>9, <4>2
        <4> QED
          BY <4>2, <4>3 DEF Alive, v
      <3> QED
        BY <3>1, <3>2
    <2>2. ASSUME NEW l \in Planets, NEW i \in Slots, NEW j \in Slots,
                 planet_arrivals'[l][i] # 0, i # j
          PROVE  planet_arrivals'[l][i] # planet_arrivals'[l][j]
      <3>1. w.planet_arrivals[l][i] # 0
              => w.planet_arrivals[l][i] # w.planet_arrivals[l][j]
        BY <1>2, <2>2 DEF Queued
      <3> QED
        BY <1>10, <1>11, <2>2, <3>1
    <2>3. ASSUME NEW id \in ArrivalIds, arrivals'[id].arrival_block # 0
          PROVE  /\ id < next_arrival_id'
                 /\ arrivals'[id].to_planet \in Planets
                 /\ Holds(planet_arrivals'[arrivals'[id].to_planet], id)
      <3>1. CASE id = n
        <4>1. planet_arrivals'[to][s] = n
          BY <1>10
        <4>2. DOMAIN planet_arrivals'[to] = Slots
          BY <1>2, <1>5
        <4>3. Holds(planet_arrivals'[to], n)
          BY <4>1, <4>2 DEF Holds
        <4> QED
          BY <1>1, <1>5, <1>12, <3>1, <4>3
      <3>2. CASE id # n
        <4> DEFINE l == w.arrivals[id].to_planet
        <4>1. arrivals'[id] = w.arrivals[id] /\ Alive(w, id)
          BY <1>9, <2>3, <3>2 DEF Alive
        <4>2. id < n /\ l \in Planets /\ Holds(w.planet_arrivals[l], id)
          BY <1>2, <4>1 DEF Queued, n
        <4> HIDE DEF l
        <4>3. PICK i \in Slots : w.planet_arrivals[l][i] = id
          BY <1>2, <4>2 DEF Holds
        <4>4. ~(l = to /\ i = s)
          BY <1>1, <1>4, <4>3
        <4>5. planet_arrivals'[l][i] = id
          BY <1>10, <4>2, <4>3, <4>4
        <4>6. DOMAIN planet_arrivals'[l] = Slots
          BY <1>2, <1>5, <4>2
        <4>7. Holds(planet_arrivals'[l], id)
          BY <4>5, <4>6 DEF Holds
        <4>8. id < n + 1
          BY <1>1, <4>2
        <4> QED
          BY <1>5, <4>1, <4>2, <4>7, <4>8 DEF l
      <3> QED
        BY <3>1, <3>2
    <2> QED
      BY <2>1, <2>2, <2>3 DEF QueueExact, Live
  <1>14. ClockBehindArrivals'
    <2>1. \A l \in Planets : planets'[l] = IF l = from THEN left ELSE there[l]
      BY <1>5, <1>6
    <2>2. \A l \in Planets : planets'[l].last_updated <= block
      BY <1>1, <1>3, <1>7, <2>1
    <2>3. ASSUME NEW id \in ArrivalIds, arrivals'[id].arrival_block # 0
          PROVE  /\ planets'[arrivals'[id].to_planet].is_initialized
                 /\ planets'[arrivals'[id].to_planet].last_updated
                      <= arrivals'[id].arrival_block
      <3>1. CASE id = n
        <4>1. arrivals'[id] = arrival /\ arrival.arrival_block \in Nat
          BY <1>9, <3>1 DEF Arrival
        <4>2. planets'[to].is_initialized
          BY <1>3, <1>7, <2>1
        <4>3. planets'[to].last_updated <= block /\ planets'[to].last_updated \in Nat
          BY <1>1, <1>3, <1>6, <2>1, <2>2 DEF Planet
        <4>4. planets'[to].last_updated <= arrival.arrival_block
          BY <1>1, <4>1, <4>3
        <4> QED
          BY <4>1, <4>2, <4>4
      <3>2. CASE id # n
        <4> DEFINE l == w.arrivals[id].to_planet
        <4>1. arrivals'[id] = w.arrivals[id] /\ Alive(w, id)
          BY <1>9, <2>3, <3>2 DEF Alive
        <4>2. /\ l \in Planets /\ w.planets[l].is_initialized
              /\ w.planets[l].last_updated <= w.arrivals[id].arrival_block
          BY <1>2, <4>1 DEF Queued, Clocked
        <4>3. CASE l = from
          <5>1. block < w.arrivals[id].arrival_block
            BY <1>1, <4>1, <4>3, NothingDue
          <5>2. w.arrivals[id].arrival_block \in Nat
            BY <1>2 DEF Arrival
          <5>3. planets'[l] = left
            BY <2>1, <4>2, <4>3
          <5>4. block <= w.arrivals[id].arrival_block
            BY <1>1, <5>1, <5>2
          <5> QED
            BY <1>3, <4>1, <5>3, <5>4
        <4>4. CASE l # from
          <5>1. planets'[l] = w.planets[l]
            BY <1>7, <2>1, <4>2, <4>4
          <5> QED
            BY <4>1, <4>2, <5>1
        <4> QED
          BY <4>3, <4>4
      <3> QED
        BY <3>1, <3>2
    <2> QED
      BY <2>2, <2>3 DEF ClockBehindArrivals, Live
  <1>15. LandStep
    <2> SUFFICES ASSUME NEW id \in ArrivalIds, NEW other \in ArrivalIds, Lands(id)
                 PROVE  /\ arrivals[id].arrival_block <= block
                        /\ ~(/\ Live(other) /\ ~Lands(other)
                             /\ arrivals[other].to_planet = arrivals[id].to_planet
                             /\ arrivals[other].arrival_block
                                  < arrivals[id].arrival_block)
      BY DEF LandStep
    <2>1. ~Live(n)
      BY <1>1 DEF QInv, QueueExact, n
    <2>2. Alive(World, id) /\ id # n
      BY <1>1, <2>1 DEF Lands, Live, Alive
    <2>3. ~Alive(w, id)
      BY <1>9, <2>2 DEF Lands, Alive
    <2>4. Live(other) /\ ~Lands(other) => Alive(w, other)
      BY <1>9, <2>1 DEF Lands, Live, Alive
    <2>5. /\ World.arrivals[id].arrival_block <= block
          /\ ~(/\ Alive(w, other)
               /\ World.arrivals[other].to_planet = World.arrivals[id].to_planet
               /\ World.arrivals[other].arrival_block
                    < World.arrivals[id].arrival_block)
      BY <1>1, <2>2, <2>3 DEF InOrder
    <2> QED
      BY <1>1, <2>4, <2>5
  <1>16. \A l \in Planets :
           planets'[l].is_initialized <=> l = to \/ planets[l].is_initialized
    <2>1. \A l \in Planets : planets'[l] = IF l = from THEN left ELSE there[l]
      BY <1>5, <1>6
    <2>2. \A l \in Planets : w.planets[l].is_initialized = planets[l].is_initialized
      BY DEF After, World
    <2> QED
      BY <1>3, <1>7, <2>1, <2>2
  <1>17. Sends(to)
    BY <1>1, <1>5, <1>12, <1>16 DEF Sends, n
  <1>18. PlanetsStay
    BY <1>16 DEF PlanetsStay
  <1> QED
    BY <1>13, <1>14, <1>15, <1>17, <1>18 DEF QStep

-----------------------------------------------------------------------------
(* One lemma per action. *)

LEMMA NewPlanetClock ==
  ASSUME NEW l, NEW owner, NEW is_home
  PROVE  /\ NewPlanet(l, owner, is_home).is_initialized
         /\ NewPlanet(l, owner, is_home).last_updated = block
  BY DEF NewPlanet, DefaultPlanet

LEMMA QTyped ==
  ASSUME QInv
  PROVE  /\ TInv /\ planets \in [Planets -> Planet] /\ block \in Nat
         /\ planet_artifacts \in
              [Planets -> [ArtifactSlots -> ArtifactIds \cup {NoArtifact}]]
  BY DEF QInv, TInv, TypeOK

\* A step that changes one planet, and not its clock.
LEMMA OnePlaceKept ==
  ASSUME QInv, NEW l \in Planets, NEW planet,
         UNCHANGED <<block, planet_arrivals, arrivals, next_arrival_id>>,
         planets' = [planets EXCEPT ![l] = planet],
         \/ /\ planet.is_initialized = planets[l].is_initialized
            /\ planet.last_updated = planets[l].last_updated
         \/ ~planets[l].is_initialized /\ planet.last_updated = block
  PROVE  QStep
  <1>1. \A k \in Planets : planets'[k] = IF k = l THEN planet ELSE planets[k]
    BY QTyped
  <1>2. block <= block
    BY QTyped
  <1> QED
    BY <1>1, <1>2, PlacesKept

LEMMA QInitPlayer ==
  ASSUME QInv, NEW player \in Players, NEW l \in Planets, InitPlayer(player, l)
  PROVE  QStep
  <1> DEFINE home == NewPlanet(l, player, TRUE)
  <1>1. ~planets[l].is_initialized /\ planets' = [planets EXCEPT ![l] = home]
        /\ UNCHANGED <<block, planet_arrivals, arrivals, next_arrival_id>>
    BY DEF InitPlayer, CanBeHome
  <1>2. home.last_updated = block
    BY NewPlanetClock
  <1> HIDE DEF home
  <1> QED
    BY <1>1, <1>2, OnePlaceKept

LEMMA QRevealNewPlanet ==
  ASSUME QInv, NEW l \in Planets, RevealNewPlanet(l)
  PROVE  QStep
  <1> DEFINE planet == NewPlanet(l, Zero, FALSE)
  <1>1. ~planets[l].is_initialized /\ planets' = [planets EXCEPT ![l] = planet]
        /\ UNCHANGED <<block, planet_arrivals, arrivals, next_arrival_id>>
    BY DEF RevealNewPlanet
  <1>2. planet.last_updated = block
    BY NewPlanetClock
  <1> HIDE DEF planet
  <1> QED
    BY <1>1, <1>2, OnePlaceKept

LEMMA QResolvePlanet ==
  ASSUME QInv, NEW l \in Planets, ResolvePlanet(l)
  PROVE  QStep
  <1>1. After(World, ProcessPending(World, l))
    BY WorldGood, ProcessSettles
  <1> QED
    BY <1>1, QWrite DEF ResolvePlanet

\* The one arrival that resolve_arrival accepts is the earliest of all that fly.
LEMMA EarliestResolved ==
  ASSUME QInv, NEW id \in ArrivalIds, ResolveArrival(id)
  PROVE  After(World, ExecuteArrival(World, id))
  <1> DEFINE l      == arrivals[id].to_planet
             flying == Flying(World, l)
  <1>1. /\ arrivals[id].arrival_block # 0 /\ flying # {}
        /\ EarliestId(World, l, flying) = id
        /\ ExecuteArrival(World, id).ok /\ Write(ExecuteArrival(World, id))
        /\ UNCHANGED <<block, next_arrival_id>>
    BY DEF ResolveArrival
  <1>2. /\ GoodWorld(World) /\ block \in Nat
        /\ World.arrivals = arrivals /\ World.planet_arrivals = planet_arrivals
    BY WorldGood DEF World
  <1>3. l \in Planets
    BY <1>1 DEF QInv, QueueExact, Live
  <1>4. CanLand(World, id)
    <2>1. ~CanLand(World, id) => ExecuteArrival(World, id) = [World EXCEPT !.ok = FALSE]
      BY DEF ExecuteArrival
    <2>2. [World EXCEPT !.ok = FALSE].ok = FALSE
      BY DEF World
    <2> QED
      BY <1>1, <2>1, <2>2
  <1>5. \A other \in ArrivalIds :
          Alive(World, other) /\ World.arrivals[other].to_planet = l
            => World.arrivals[id].arrival_block <= World.arrivals[other].arrival_block
    <2>1. flying \in SUBSET Slots
      BY DEF Flying
    <2>2. \A i \in flying : /\ World.planet_arrivals[l][i] \in ArrivalIds
                            /\ Alive(World, World.planet_arrivals[l][i])
      BY <1>2, <1>3, TypedParts DEF Flying, Alive, GoodWorld
    <2>3. \A j \in Slots : World.planet_arrivals[l][j] # 0 => j \in flying
      BY <1>2, <1>3 DEF Flying, GoodWorld, Queued, Alive
    <2> HIDE DEF flying, l
    <2> QED
      BY <1>1, <1>2, <1>3, <2>1, <2>2, <2>3, EarliestOfAll
  <1> QED
    BY <1>2, <1>4, <1>5, ExecuteAfter

LEMMA QResolveArrival ==
  ASSUME QInv, NEW id \in ArrivalIds, ResolveArrival(id)
  PROVE  QStep
  <1>1. /\ Write(ExecuteArrival(World, id))
        /\ UNCHANGED <<block, next_arrival_id>>
    BY DEF ResolveArrival
  <1> QED
    BY <1>1, EarliestResolved, QWrite

LEMMA QUpgradePlanet ==
  ASSUME QInv, NEW player \in Players, NEW l \in Planets, NEW branch \in Branches,
         UpgradePlanet(player, l, branch)
  PROVE  QStep
  <1> DEFINE w        == ProcessPending(World, l)
             fresh    == Origin(w, l)
             buffed   == BuffPlanet(fresh, UpgradeBuff(branch))
             upgraded == [buffed EXCEPT !.silver = @ - UpgradeCost(fresh),
                                        !.upgrades[branch] = @ + 1]
             x        == [w EXCEPT !.planets[l] = upgraded]
  <1>1. w.ok /\ Write(x) /\ UNCHANGED <<block, next_arrival_id>>
    BY DEF UpgradePlanet
  <1>2. GoodWorld(World) /\ block \in Nat /\ TInv
    BY WorldGood, QTyped
  <1>3. After(World, w) /\ GoodWorld(w) /\ DueSlots(w, l, block) = {}
    BY <1>1, <1>2, ProcessSettles DEF After
  <1>4. fresh \in Planet
    BY <1>2, <1>3, OriginType DEF GoodWorld
  <1>5. SamePlace(fresh, buffed)
    BY <1>4, BuffKeeps, UpgradeBuffType
  <1>6. /\ fresh.is_initialized = w.planets[l].is_initialized
        /\ fresh.last_updated <= block
        /\ fresh.is_initialized => fresh.last_updated = block
    <2>1. w.planets[l] \in Planet /\ Pausers(w, l) \in Nat
          /\ w.planets[l].last_updated <= block
      BY <1>3, TypedParts DEF GoodWorld, Clocked
    <2>2. /\ fresh.is_initialized = w.planets[l].is_initialized
          /\ w.planets[l].is_initialized => fresh.last_updated = block
      BY <1>2, <2>1, RefreshKeeps DEF Origin
    <2>3. ~w.planets[l].is_initialized => fresh = w.planets[l]
      BY DEF Origin, Refresh
    <2> HIDE DEF fresh, w
    <2>4. block <= block
      BY <1>2
    <2> QED
      BY <2>1, <2>2, <2>3, <2>4
  <1>7. /\ upgraded.is_initialized = fresh.is_initialized
        /\ upgraded.last_updated = fresh.last_updated
    <2> HIDE DEF fresh, buffed
    <2> QED
      BY <1>5 DEF SamePlace, Planet
  <1>8. /\ w.planets \in [Planets -> Planet] /\ w \in Worlds
        /\ w.arrivals \in [ArrivalIds -> Arrival]
    BY <1>3, TypedParts DEF GoodWorld, TypedWorld
  <1> HIDE DEF w, fresh, upgraded
  <1>9. /\ x.planets = [w.planets EXCEPT ![l] = upgraded]
        /\ x.arrivals = w.arrivals /\ x.planet_arrivals = w.planet_arrivals
        /\ x.ok = w.ok
    BY <1>8 DEF Worlds
  <1> HIDE DEF x
  <1>10. Queued(x)
    BY <1>3, <1>9 DEF GoodWorld, Queued, Alive
  <1>11. Clocked(x)
    <2>1. \A k \in Planets : x.planets[k] = IF k = l THEN upgraded ELSE w.planets[k]
      BY <1>8, <1>9
    <2>2. \A k \in Planets : x.planets[k].last_updated <= block
      BY <1>3, <1>6, <1>7, <2>1 DEF GoodWorld, Clocked
    <2>3. ASSUME NEW id \in ArrivalIds, Alive(w, id)
          PROVE  LET k == w.arrivals[id].to_planet IN
                 /\ x.planets[k].is_initialized
                 /\ x.planets[k].last_updated <= w.arrivals[id].arrival_block
      <3> DEFINE k == w.arrivals[id].to_planet
      <3>1. /\ k \in Planets /\ w.planets[k].is_initialized
            /\ w.planets[k].last_updated <= w.arrivals[id].arrival_block
        BY <1>3, <2>3 DEF GoodWorld, Queued, Clocked
      <3>2. CASE k = l
        <4>1. block < w.arrivals[id].arrival_block
          BY <1>2, <1>3, <2>3, <3>2, NothingDue
        <4>2. w.arrivals[id].arrival_block \in Nat
          BY <1>8 DEF Arrival
        <4>3. block <= w.arrivals[id].arrival_block
          BY <1>2, <4>1, <4>2
        <4> QED
          BY <1>6, <1>7, <2>1, <3>1, <3>2, <4>3
      <3>3. CASE k # l
        BY <2>1, <3>1, <3>3
      <3> QED
        BY <3>2, <3>3
    <2> QED
      BY <1>9, <2>2, <2>3 DEF Clocked, Alive
  <1>12. QStep
    \* The world x need not be typed for what the step leaves to be so.
    <2>1. /\ InOrder(World, x) /\ World.arrivals = arrivals
      BY <1>3, <1>9 DEF After, InOrder, Alive, World
    <2>2. QueueExact'
      BY <1>1, <1>10 DEF Write, Queued, QueueExact, Alive, Live
    <2>3. ClockBehindArrivals'
      BY <1>1, <1>11 DEF Write, Clocked, ClockBehindArrivals, Alive, Live
    <2>4. LandStep
      BY <1>1, <2>1 DEF Write, InOrder, LandStep, Lands, Alive, Live
    <2>5. PlanetsStay
      <3>1. \A k \in Planets : w.planets[k].is_initialized = planets[k].is_initialized
        BY <1>3 DEF After, World
      <3>2. \A k \in Planets : planets'[k] = IF k = l THEN upgraded ELSE w.planets[k]
        BY <1>1, <1>8, <1>9 DEF Write
      <3> QED
        BY <1>6, <1>7, <3>1, <3>2 DEF PlanetsStay
    <2> QED
      BY <2>2, <2>3, <2>4, <2>5 DEF QStep
  <1> QED
    BY <1>12

LEMMA QSendShip ==
  ASSUME QInv, NEW player \in Players, NEW from \in Planets, NEW to \in Planets,
         NEW ship \in ShipIds, SendShip(player, from, to, ship)
  PROVE  QStep /\ Sends(to)
  <1> DEFINE w      == Settled(from, to)
             origin == Unmoored(w, from, ship)
             counts == CountsWithout(w, from, ship)
             slots  == w.planet_artifacts[from]
             type   == IF ByWormhole(w, from, to) THEN "wormhole" ELSE "normal"
  <1>1. PICK time \in TravelTimes :
          Depart(w, from, to, origin,
                 Flight(Zero, from, to, 0, 0, ship, type, time), slots, counts)
    BY DEF SendShip
  <1> DEFINE arrival == Flight(Zero, from, to, 0, 0, ship, type, time)
  <1>2. w.ok /\ w.planets[from].is_initialized /\ MayDepart /\ UNCHANGED block
    BY DEF SendShip
  <1>3. /\ TInv /\ TypedWorld(w) /\ After(World, w)
        /\ DueSlots(w, from, block) = {}
    BY <1>2, QTyped, SettledGood DEF GoodWorld
  <1> HIDE DEF w
  <1>4. origin \in Planet /\ origin.is_initialized
    <2> DEFINE count == w.ship_counts[from][ship[2]]
    <2>1. Origin(w, from) \in Planet /\ Origin(w, from).is_initialized
      BY <1>2, <1>3, OriginType
    <2>2. CASE Affects(ship, w.planets[from])
      <3>1. count \in Nat
        BY <1>3, <2>2, TypedParts DEF Affects
      <3>2. SamePlace(Origin(w, from), Undocked(Origin(w, from), ship[2], count))
        BY <2>1, <3>1, UndockedKeeps
      <3> QED
        BY <2>1, <2>2, <3>2 DEF Unmoored, SamePlace
    <2>3. CASE ~Affects(ship, w.planets[from])
      BY <2>1, <2>3 DEF Unmoored
    <2> QED
      BY <2>2, <2>3
  <1>5. arrival \in Arrival /\ arrival.to_planet = to /\ block < arrival.arrival_block
    <2>1. ship \in ArtifactIds \cup {NoArtifact} /\ type \in ArrivalTypes
      BY IdsApart DEF ArrivalTypes
    <2>2. ArrivalBlock(time) \in Nat /\ block < ArrivalBlock(time)
      BY <1>2, QTyped, ArrivesLater
    <2> HIDE DEF type
    <2> QED
      BY <2>1, <2>2 DEF Flight, Arrival, Addresses
  <1> HIDE DEF origin, counts, slots, arrival
  <1>6. Depart(w, from, to, origin, arrival, slots, counts)
    BY <1>1 DEF arrival
  <1> QED
    BY <1>2, <1>3, <1>4, <1>5, <1>6, QDepart

LEMMA QSendFleet ==
  ASSUME QInv, NEW player \in Players, NEW from \in Planets, NEW to \in Planets,
         NEW abandoning \in BOOLEAN, SendFleet(player, from, to, abandoning)
  PROVE  QStep /\ Sends(to)
  <1> DEFINE w      == Settled(from, to)
             fresh  == Origin(w, from)
             origin == OriginOfFleet(w, from)
             type   == ArrivalTypeOf(w, from, to)
             slots  == SlotsOfFleet(w, from)
  <1>1. PICK pop \in Shipments, silver \in Shipments, loss \in Losses,
             time \in TravelTimes, cargo \in Cargos(w, from) :
          FleetLeaves(w, player, from, to, pop, silver, loss, time, cargo, abandoning)
    BY DEF SendFleet
  <1> DEFINE load    == Load(origin, pop, silver, abandoning)
             left    == Left(origin, fresh, from, pop, silver, abandoning)
             arrival == Flight(player, from, to, load.pop - loss, load.silver,
                               cargo, type, time)
  <1>2. w.ok /\ MayDepart /\ UNCHANGED block
    BY DEF SendFleet
  <1>3. /\ TInv /\ TypedWorld(w) /\ After(World, w)
        /\ DueSlots(w, from, block) = {}
    BY <1>2, QTyped, SettledGood DEF GoodWorld
  <1> HIDE DEF w
  <1>4. /\ w.planets[from].is_initialized
        /\ ~abandoning => CanSpare(fresh, pop, silver)
        /\ loss < load.pop
        /\ load.silver <= origin.silver
        /\ Depart(w, from, to, left, arrival, slots, w.ship_counts)
    BY <1>1 DEF FleetLeaves
  <1>5. fresh \in Planet /\ fresh.is_initialized = w.planets[from].is_initialized
    BY <1>3, OriginType
  <1>6. origin \in Planet /\ origin.is_initialized
    <2>1. CASE Firing(w, from)
      <3> DEFINE cannon == ActiveIn(w.planet_artifacts[from])
      <3>1. w.planets[from] \in Planet
        BY <1>3, TypedParts
      <3>2. SamePlace(w.planets[from], Debuffed(w.planets[from], artifacts[cannon]))
        BY <1>3, <2>1, <3>1, FiringType, DebuffedType
      <3> QED
        BY <1>4, <2>1, <3>2 DEF OriginOfFleet, SamePlace
    <2>2. CASE ~Firing(w, from)
      BY <1>4, <1>5, <2>2 DEF OriginOfFleet
    <2> QED
      BY <2>1, <2>2
  <1>7. pop \in Nat /\ silver \in Nat /\ loss \in Nat
    BY InputAssumption
  <1> HIDE DEF fresh, origin
  <1>8. load \in [pop : Nat, silver : Nat]
    BY <1>6, <1>7, LoadType
  <1>9. left \in Planet /\ left.is_initialized
    <2>1. ~abandoning => pop < fresh.population /\ silver <= origin.silver
      BY <1>4 DEF CanSpare, Load
    <2>2. left \in Planet
      BY <1>5, <1>6, <1>7, <2>1, LeftType
    <2>3. left.is_initialized = origin.is_initialized
      BY <1>6 DEF Left, Planet
    <2> QED
      BY <1>6, <2>2, <2>3
  <1>10. arrival \in Arrival /\ arrival.to_planet = to /\ block < arrival.arrival_block
    <2>1. load.pop - loss \in Nat /\ load.silver \in Nat
      BY <1>4, <1>7, <1>8
    <2>2. type \in ArrivalTypes /\ cargo \in ArtifactIds \cup {NoArtifact}
      BY IdsApart DEF ArrivalTypeOf, ArrivalTypes, Cargos
    <2>3. ArrivalBlock(time) \in Nat /\ block < ArrivalBlock(time)
      BY <1>2, QTyped, ArrivesLater
    <2> HIDE DEF load, type
    <2> QED
      BY <2>1, <2>2, <2>3 DEF Flight, Arrival, Addresses
  <1> HIDE DEF left, arrival, slots
  <1> QED
    BY <1>2, <1>3, <1>4, <1>6, <1>9, <1>10, QDepart

LEMMA QActivateCrescent ==
  ASSUME QInv, NEW l \in Planets, NEW id \in ShipIds, ActivateCrescent(l, id)
  PROVE  QStep
  <1> DEFINE mine == [planets[l] EXCEPT
               !.planet_type   = "silver_mine",
               !.silver        = IF @ = 0 THEN 1 ELSE @,
               !.silver_growth = IF planets[l].silver = 0
                                 THEN DefaultStats[l]["silver_mine"].silver_growth
                                 ELSE @]
  <1>1. planets' = [planets EXCEPT ![l] = mine]
        /\ UNCHANGED <<block, planet_arrivals, arrivals, next_arrival_id>>
    BY DEF ActivateCrescent
  <1>2. planets[l] \in Planet
    BY QTyped
  <1>3. /\ mine.is_initialized = planets[l].is_initialized
        /\ mine.last_updated = planets[l].last_updated
    BY <1>2 DEF Planet
  <1> HIDE DEF mine
  <1> QED
    BY <1>1, <1>3, OnePlaceKept

LEMMA QActivateArtifact ==
  ASSUME QInv, NEW player \in Players, NEW l \in Planets, NEW id \in FoundIds,
         NEW target \in Planets \cup {Nowhere},
         ActivateArtifact(player, l, id, target)
  PROVE  QStep
  <1> DEFINE artifact == artifacts[id]
             type     == artifact.artifact_type
             filled   == IF type = "bloom_filter"
                         THEN [planets[l] EXCEPT
                                 !.population = planets[l].population_cap,
                                 !.silver = planets[l].silver_cap]
                         ELSE planets[l]
             buff     == Buffs[type][artifact.rarity]
             buffed   == BuffPlanet(filled, buff)
  <1>1. planets' = [planets EXCEPT ![l] = buffed]
        /\ UNCHANGED <<block, planet_arrivals, arrivals, next_arrival_id>>
    BY DEF ActivateArtifact
  <1>2. planets[l] \in Planet
    BY QTyped
  <1>3. /\ filled \in Planet
        /\ filled.is_initialized = planets[l].is_initialized
        /\ filled.last_updated = planets[l].last_updated
    BY <1>2 DEF Planet
  <1>4. artifact.is_initialized /\ id \in ArtifactIds
    BY IdsApart DEF ActivateArtifact
  <1>5. buff \in BuffRecord
    BY <1>4, BuffsType DEF QInv, TInv, ArtifactsKnown
  <1> HIDE DEF filled, buff
  <1>6. SamePlace(filled, buffed)
    BY <1>3, <1>5, BuffKeeps
  <1> HIDE DEF buffed
  <1> QED
    BY <1>1, <1>3, <1>6, OnePlaceKept DEF SamePlace

LEMMA QDeactivateArtifact ==
  ASSUME QInv, NEW player \in Players, NEW l \in Planets,
         DeactivateArtifact(player, l)
  PROVE  QStep
  <1> DEFINE id       == ActiveIn(planet_artifacts[l])
             debuffed == Debuffed(planets[l], artifacts[id])
  <1>1. planets' = [planets EXCEPT ![l] = debuffed] /\ id # NoArtifact
        /\ UNCHANGED <<block, planet_arrivals, arrivals, next_arrival_id>>
    BY DEF DeactivateArtifact
  <1>2. artifacts[id].artifact_type \in ArtifactTypes
        /\ artifacts[id].rarity \in Rarities
    BY <1>1, QTyped, ActiveFound
  <1>3. planets[l] \in Planet
    BY QTyped
  <1> HIDE DEF id
  <1>4. SamePlace(planets[l], debuffed)
    BY <1>2, <1>3, DebuffedType
  <1> HIDE DEF debuffed
  <1> QED
    BY <1>1, <1>4, OnePlaceKept DEF SamePlace

LEMMA QSamePlanets ==
  ASSUME QInv, UNCHANGED <<block, planets, planet_arrivals, arrivals, next_arrival_id>>
  PROVE  QStep
  BY PlacesKept

-----------------------------------------------------------------------------
(* The theorems. *)

LEMMA QInit == Init => QInv
  <1> SUFFICES ASSUME Init PROVE QInv
    OBVIOUS
  <1>1. QueueExact
    BY DEF Init, QueueExact, Live, EmptyArrival
  <1>2. ClockBehindArrivals
    BY DEF Init, ClockBehindArrivals, Live, EmptyArrival, NoPlanet
  <1> QED
    BY <1>1, <1>2, InitType DEF QInv

LEMMA QNext == ASSUME QInv, Next PROVE QStep
  <1>1. CASE NextBlock
    BY <1>1, QNextBlock
  <1>2. CASE FleetNext
    BY <1>2, QInitPlayer, QRevealNewPlanet, QSendFleet, QResolveArrival,
       QResolvePlanet, QUpgradePlanet DEF FleetNext
  <1>3. CASE ShipNext
    <2>1. ASSUME NEW p \in Players, NEW l \in Planets, GiveSpaceShips(p, l)
          PROVE  QStep
      BY <2>1, QSamePlanets DEF GiveSpaceShips
    <2> QED
      BY <1>3, <2>1, QSendShip, QActivateCrescent DEF ShipNext
  <1>4. CASE ArtifactNext
    <2>1. ASSUME NEW p \in Players, NEW l \in Planets, ProspectPlanet(p, l)
          PROVE  QStep
      BY <2>1, QSamePlanets DEF ProspectPlanet, fleetVars
    <2>2. ASSUME NEW p \in Players, NEW l \in Planets, NEW type \in ArtifactTypes,
                 NEW rarity \in Rarities, FindArtifact(p, l, type, rarity)
          PROVE  QStep
      BY <2>2, QSamePlanets DEF FindArtifact
    <2>3. ASSUME NEW p \in Players, NEW l \in Planets, NEW id \in FoundIds,
                 DepositArtifact(p, l, id) \/ WithdrawArtifact(p, l, id)
          PROVE  QStep
      BY <2>3, QSamePlanets DEF DepositArtifact, WithdrawArtifact
    <2> QED
      BY <1>4, <2>1, <2>2, <2>3, QActivateArtifact, QDeactivateArtifact
         DEF ArtifactNext
  <1> QED
    BY <1>1, <1>2, <1>3, <1>4 DEF Next

LEMMA QInductive == QInv /\ [Next]_vars => QInv'
  <1> SUFFICES ASSUME QInv, [Next]_vars PROVE QInv'
    OBVIOUS
  <1>1. TInv'
    BY StepType DEF QInv
  <1>2. QueueExact' /\ ClockBehindArrivals'
    BY QNext, QStutter DEF QStep
  <1> QED
    BY <1>1, <1>2 DEF QInv

THEOREM QueuesInductive == Spec => []QInv
  <1> QED
    BY QInit, QInductive, PTL DEF Spec

\* The slots of the queues hold exactly the arrivals that have not landed.
THEOREM QueueCorrect == Spec => []QueueExact
  <1>1. QInv => QueueExact
    BY DEF QInv
  <1> QED
    BY <1>1, QueuesInductive, PTL

\* No clock of a planet passes an arrival on its way to it.
THEOREM ClockCorrect == Spec => []ClockBehindArrivals
  <1>1. QInv => ClockBehindArrivals
    BY DEF QInv
  <1> QED
    BY <1>1, QueuesInductive, PTL

\* Arrivals land when they are due and in the order they are due.
THEOREM LandingOrderCorrect == Spec => LandInOrder
  <1>1. QInv /\ [Next]_vars => [LandStep]_vars
    BY QNext DEF QStep
  <1>2. Spec => [][LandStep]_vars
    BY <1>1, QueuesInductive, PTL DEF Spec
  <1>3. LandInOrder <=> [][LandStep]_vars
    BY DEF LandInOrder, LandStep
  <1> QED
    BY <1>2, <1>3, PTL

-----------------------------------------------------------------------------
(* DarkForest implements Voyages: every transaction lands what may land, and *)
(* sends one voyage at most.                                                 *)

\* What sails, in terms of arrivals.
LEMMA SailingMembers ==
  /\ \A id \in ArrivalIds : Live(id) <=> Voyage(id) \in Sailing
  /\ \A v \in Sailing : \E id \in ArrivalIds : Live(id) /\ v = Voyage(id)
  /\ \A id, other \in ArrivalIds : Voyage(id) = Voyage(other) => id = other
  BY DEF Sailing, Voyage

\* The voyages that end when a transaction leaves the arrivals of w.
Ended(w) == {Voyage(id) : id \in {i \in ArrivalIds : Live(i) /\ ~Alive(w, i)}}

\* A landing of arrivals is a landing of voyages.
LEMMA EndedMayLand ==
  ASSUME QInv, NEW w, InOrder(World, w)
  PROVE  /\ Ended(w) \in SUBSET Sailing
         /\ V!MayLand(Ended(w))
         /\ Sailing \ Ended(w) =
              {Voyage(id) : id \in {i \in ArrivalIds : Live(i) /\ Alive(w, i)}}
  <1>1. World.arrivals = arrivals
    BY DEF World
  <1>2. Ended(w) \in SUBSET Sailing
    BY DEF Ended, Sailing
  <1>3. Sailing \ Ended(w) =
          {Voyage(id) : id \in {i \in ArrivalIds : Live(i) /\ Alive(w, i)}}
    BY SailingMembers DEF Ended, Sailing
  <1>4. ASSUME NEW v \in Ended(w)
        PROVE  /\ V!Due(v)
               /\ \A u \in Sailing : u.to = v.to /\ u.at < v.at => u \in Ended(w)
    <2>1. PICK id \in ArrivalIds : Live(id) /\ ~Alive(w, id) /\ v = Voyage(id)
      BY DEF Ended
    <2>2. /\ arrivals[id].arrival_block <= block
          /\ \A other \in ArrivalIds :
               ~(/\ Alive(w, other)
                 /\ arrivals[other].to_planet = arrivals[id].to_planet
                 /\ arrivals[other].arrival_block < arrivals[id].arrival_block)
      BY <1>1, <2>1 DEF InOrder, Alive, Live
    <2>3. v.to = arrivals[id].to_planet /\ v.at = arrivals[id].arrival_block
      BY <2>1 DEF Voyage
    <2>4. ASSUME NEW u \in Sailing, u.to = v.to, u.at < v.at
          PROVE  u \in Ended(w)
      <3>1. PICK other \in ArrivalIds : Live(other) /\ u = Voyage(other)
        BY SailingMembers
      <3>2. ~Alive(w, other)
        BY <2>2, <2>3, <2>4, <3>1 DEF Voyage
      <3> QED
        BY <3>1, <3>2 DEF Ended
    <2> QED
      BY <2>2, <2>3, <2>4 DEF V!Due
  <1> QED
    BY <1>2, <1>3, <1>4 DEF V!MayLand

LEMMA LandMapped ==
  ASSUME QInv, NEW w, InOrder(World, w), arrivals' = w.arrivals,
         UNCHANGED <<block, next_arrival_id>>
  PROVE  V!Land
  <1>1. World.arrivals = arrivals
    BY DEF World
  <1>2. \A id \in ArrivalIds :
          /\ Live(id)' <=> Live(id) /\ Alive(w, id)
          /\ Live(id)' => Voyage(id)' = Voyage(id)
    BY <1>1 DEF InOrder, Live, Alive, Voyage, EmptyArrival
  <1>3. Sailing' = {Voyage(id) : id \in {i \in ArrivalIds : Live(i) /\ Alive(w, i)}}
    BY <1>2 DEF Sailing
  <1> QED
    BY <1>3, EndedMayLand DEF V!Land
-----------------------------------------------------------------------------

BerthsKept == \A l \in Planets : V!Moored({v \in Sailing : v.to = l})

\* What sails to a planet has slots of its own there.
LEMMA EachHasSlot == QInv => BerthsKept
  <1> SUFFICES ASSUME QInv, NEW l \in Planets
               PROVE  V!Moored({v \in Sailing : v.to = l})
    BY DEF BerthsKept
  <1> DEFINE S == {v \in Sailing : v.to = l}
             f == [v \in S |-> CHOOSE i \in Slots : planet_arrivals[l][i] = v.id]
  <1>1. \A v \in S : \E i \in Slots : planet_arrivals[l][i] = v.id
    <2> TAKE v \in S
    <2>1. PICK id \in ArrivalIds : Live(id) /\ v = Voyage(id)
      BY SailingMembers
    <2>2. v.id = id /\ arrivals[id].to_planet = l
      BY <2>1 DEF Voyage
    <2>3. Holds(planet_arrivals[l], id)
      BY <2>1, <2>2 DEF QInv, QueueExact
    <2>4. planet_arrivals[l] \in [Slots -> ArrivalIds \cup {0}]
      BY DEF QInv, TInv, TypeOK
    <2> QED
      BY <2>2, <2>3, <2>4 DEF Holds
  <1>2. \A v, u \in S : v.id = u.id => v = u
    BY SailingMembers DEF Voyage
  <1> HIDE DEF S
  <1>3. \A v \in S : f[v] \in Slots /\ planet_arrivals[l][f[v]] = v.id
    BY <1>1
  <1>4. f \in [S -> Slots]
    BY <1>3
  <1>5. \A v, u \in S : f[v] = f[u] => v = u
    BY <1>2, <1>3
  <1> HIDE DEF f
  <1>6. V!Moored(S)
    BY <1>4, <1>5 DEF V!Moored
  <1> QED
    BY <1>6 DEF S

LEMMA DepartMapped ==
  ASSUME QInv, BerthsKept', MayDepart, UNCHANGED block,
         NEW w, GoodWorld(w), InOrder(World, w),
         NEW from \in Planets, DueSlots(w, from, block) = {},
         NEW to \in Planets, DueSlots(w, to, block) = {},
         NEW origin, NEW slots, NEW counts, NEW arrival,
         arrival.from_planet = from, arrival.to_planet = to,
         arrival.arrival_block \in Nat, block < arrival.arrival_block,
         Depart(w, from, to, origin, arrival, slots, counts)
  PROVE  V!Leave
  <1>0. PICK n \in ArrivalIds : n = next_arrival_id
    BY DEF MayDepart
  <1> DEFINE at   == arrival.arrival_block
             new  == [id |-> n, from |-> from, to |-> to, at |-> at]
             left == {Voyage(id) : id \in {i \in ArrivalIds : Live(i) /\ Alive(w, i)}}
  <1>1. /\ World.arrivals = arrivals
        /\ block \in Nat /\ MaxBlock \in Nat
        /\ w.arrivals \in [ArrivalIds -> Arrival]
    BY InputAssumption, TypedParts DEF World, QInv, TInv, TypeOK, GoodWorld
  <1>2. n \in 1..MaxArrivals /\ n \in ArrivalIds /\ ~Live(n)
    <2>1. n \in Nat /\ ~(n < n)
      BY <1>0 DEF QInv, TInv, TypeOK
    <2> QED
      BY <1>0, <2>1 DEF QInv, QueueExact, ArrivalIds
  <1>3. /\ arrivals' = [w.arrivals EXCEPT ![n] = arrival]
        /\ next_arrival_id' = n + 1
        /\ at <= MaxBlock
    BY <1>0 DEF Depart
  <1>4. at \in (block + 1)..MaxBlock
    BY <1>1, <1>3
  <1>5. /\ \A id \in ArrivalIds : id # n => arrivals'[id] = w.arrivals[id]
        /\ arrivals'[n] = arrival
    BY <1>1, <1>2, <1>3
  <1>6. /\ Live(n)' /\ Voyage(n)' = new
        /\ \A id \in ArrivalIds : id # n =>
             /\ Live(id)' <=> Live(id) /\ Alive(w, id)
             /\ Live(id)' => Voyage(id)' = Voyage(id)
    <2>1. arrivals'[n].arrival_block # 0
      BY <1>1, <1>5
    <2>2. \A id \in ArrivalIds :
            w.arrivals[id] = arrivals[id] \/ w.arrivals[id] = EmptyArrival
      BY <1>1 DEF InOrder
    <2>3. Live(n)' /\ Voyage(n)' = new
      BY <1>5, <2>1 DEF Live, Voyage
    <2> QED
      BY <1>5, <2>2, <2>3 DEF Live, Alive, Voyage, EmptyArrival
  <1> HIDE DEF new
  <1>7. Sailing' = left \cup {new}
    <2>1. ASSUME NEW v \in Sailing' PROVE v \in left \cup {new}
      <3>1. PICK id \in ArrivalIds : Live(id)' /\ v = Voyage(id)'
        BY DEF Sailing
      <3>2. CASE id = n
        BY <1>6, <3>1, <3>2
      <3>3. CASE id # n
        BY <1>6, <3>1, <3>3
      <3> QED
        BY <3>2, <3>3
    <2>2. new \in Sailing'
      BY <1>2, <1>6 DEF Sailing
    <2>3. ASSUME NEW v \in left PROVE v \in Sailing'
      <3>1. PICK id \in ArrivalIds : Live(id) /\ Alive(w, id) /\ v = Voyage(id)
        OBVIOUS
      <3>2. id # n
        BY <1>2, <3>1
      <3>3. Live(id)' /\ v = Voyage(id)'
        BY <1>6, <3>1, <3>2
      <3> QED
        BY <3>3 DEF Sailing
    <2> QED
      BY <2>1, <2>2, <2>3
  <1>8. /\ Ended(w) \in SUBSET Sailing
        /\ V!MayLand(Ended(w))
        /\ Sailing \ Ended(w) = left
    BY EndedMayLand
  <1>9. \A v \in left : v.to \in {from, to} => ~V!Due(v)
    <2> SUFFICES ASSUME NEW id \in ArrivalIds, Live(id), Alive(w, id),
                        arrivals[id].to_planet \in {from, to}
                 PROVE  ~(arrivals[id].arrival_block <= block)
      BY DEF V!Due, Voyage
    <2>1. w.arrivals[id] = arrivals[id]
      BY <1>1 DEF InOrder, Alive, EmptyArrival
    <2>2. block < w.arrivals[id].arrival_block
      BY <1>1, <2>1, NothingDue
    <2>3. w.arrivals[id].arrival_block \in Nat
      BY <1>1 DEF Arrival
    <2> QED
      BY <1>1, <2>1, <2>2, <2>3
  <1> HIDE DEF left
  <1>10. V!Moored({v \in Sailing' : v.to = to})
    BY DEF BerthsKept
  <1>11. /\ next_arrival_id \in 1..MaxArrivals
         /\ next_arrival_id' = next_arrival_id + 1
         /\ Sailing' = (Sailing \ Ended(w)) \cup
              {[id |-> next_arrival_id, from |-> from, to |-> to, at |-> at]}
         /\ \A v \in Sailing \ Ended(w) : v.to \in {from, to} => ~V!Due(v)
    BY <1>0, <1>2, <1>3, <1>7, <1>8, <1>9 DEF new
  <1> HIDE DEF at
  <1> QED
    BY <1>4, <1>8, <1>10, <1>11 DEF V!Leave

LEMMA BothEndsSettled ==
  ASSUME QInv, NEW from \in Planets, NEW to \in Planets, Settled(from, to).ok
  PROVE  LET w == Settled(from, to) IN
         /\ GoodWorld(w) /\ InOrder(World, w)
         /\ DueSlots(w, from, block) = {}
         /\ DueSlots(w, to, block) = {}
  <1> DEFINE x == ProcessPending(World, from)
             w == Settled(from, to)
  <1>1. GoodWorld(World) /\ block \in Nat
    BY WorldGood
  <1>2. After(World, x)
    BY <1>1, ProcessSettles
  <1>3. GoodWorld(x)
    BY <1>2 DEF After
  <1> HIDE DEF x
  <1>4. w = ProcessPending(x, to)
    BY DEF Settled, x
  <1>5. DueSlots(w, to, block) = {}
    BY <1>1, <1>3, <1>4, ProcessSettles
  <1> QED
    BY <1>5, SettledGood DEF After

LEMMA SendShipMapped ==
  ASSUME QInv, BerthsKept', NEW player \in Players, NEW from \in Planets,
         NEW to \in Planets, NEW ship \in ShipIds, SendShip(player, from, to, ship)
  PROVE  V!Leave
  <1> DEFINE w    == Settled(from, to)
             type == IF ByWormhole(w, from, to) THEN "wormhole" ELSE "normal"
  <1>1. PICK time \in TravelTimes :
          Depart(w, from, to, Unmoored(w, from, ship),
                 Flight(Zero, from, to, 0, 0, ship, type, time),
                 w.planet_artifacts[from], CountsWithout(w, from, ship))
    BY DEF SendShip
  <1> DEFINE arrival == Flight(Zero, from, to, 0, 0, ship, type, time)
  <1>2. w.ok /\ MayDepart /\ UNCHANGED block
    BY DEF SendShip
  <1>3. /\ GoodWorld(w) /\ InOrder(World, w)
        /\ DueSlots(w, from, block) = {} /\ DueSlots(w, to, block) = {}
    BY <1>2, BothEndsSettled
  <1>4. /\ arrival.from_planet = from /\ arrival.to_planet = to
        /\ arrival.arrival_block = ArrivalBlock(time)
    BY DEF Flight
  <1>5. ArrivalBlock(time) \in Nat /\ block < ArrivalBlock(time)
    BY <1>2, ArrivesLater, QTyped
  <1> HIDE DEF w, arrival
  <1> QED
    BY <1>1, <1>2, <1>3, <1>4, <1>5, DepartMapped DEF arrival

LEMMA SendFleetMapped ==
  ASSUME QInv, BerthsKept', NEW player \in Players, NEW from \in Planets,
         NEW to \in Planets, NEW abandoning \in BOOLEAN,
         SendFleet(player, from, to, abandoning)
  PROVE  V!Leave
  <1> DEFINE w      == Settled(from, to)
             origin == OriginOfFleet(w, from)
  <1>1. PICK pop \in Shipments, silver \in Shipments, loss \in Losses,
             time \in TravelTimes, cargo \in Cargos(w, from) :
          FleetLeaves(w, player, from, to, pop, silver, loss, time, cargo, abandoning)
    BY DEF SendFleet
  <1> DEFINE load    == Load(origin, pop, silver, abandoning)
             left    == Left(origin, Origin(w, from), from, pop, silver, abandoning)
             arrival == Flight(player, from, to, load.pop - loss, load.silver, cargo,
                               ArrivalTypeOf(w, from, to), time)
  <1>2. w.ok /\ MayDepart /\ UNCHANGED block
    BY DEF SendFleet
  <1>3. /\ GoodWorld(w) /\ InOrder(World, w)
        /\ DueSlots(w, from, block) = {} /\ DueSlots(w, to, block) = {}
    BY <1>2, BothEndsSettled
  <1>4. Depart(w, from, to, left, arrival, SlotsOfFleet(w, from), w.ship_counts)
    BY <1>1 DEF FleetLeaves
  <1>5. /\ arrival.from_planet = from /\ arrival.to_planet = to
        /\ arrival.arrival_block = ArrivalBlock(time)
    BY DEF Flight
  <1>6. ArrivalBlock(time) \in Nat /\ block < ArrivalBlock(time)
    BY <1>2, ArrivesLater, QTyped
  <1> HIDE DEF w, arrival, left
  <1> QED
    BY <1>2, <1>3, <1>4, <1>5, <1>6, DepartMapped

-----------------------------------------------------------------------------

LEMMA NextMapped ==
  ASSUME QInv, BerthsKept', Next
  PROVE  V!Next \/ UNCHANGED V!vars
  <1>1. CASE NextBlock
    <2>1. block < MaxBlock /\ block' = block + 1 /\ next_arrival_id' = next_arrival_id
          /\ arrivals' = arrivals
      BY <1>1 DEF NextBlock, fleetVars
    <2>2. Sailing' = Sailing
      BY <2>1 DEF Sailing, Live, Voyage
    <2> QED
      BY <2>1, <2>2 DEF V!Next, V!Tick
  <1>2. ASSUME NEW p \in Players, NEW from \in Planets, NEW to \in Planets,
               \/ \E abandoning \in BOOLEAN : SendFleet(p, from, to, abandoning)
               \/ \E ship \in ShipIds : SendShip(p, from, to, ship)
        PROVE  V!Next
    BY <1>2, SendFleetMapped, SendShipMapped DEF V!Next
  <1>3. ASSUME NEW id \in ArrivalIds, ResolveArrival(id)
        PROVE  V!Next
    <2> DEFINE w == ExecuteArrival(World, id)
    <2>1. w.ok /\ Write(w) /\ UNCHANGED <<block, next_arrival_id>>
      BY <1>3 DEF ResolveArrival
    <2>2. InOrder(World, w)
      BY <1>3, EarliestResolved DEF After
    <2> HIDE DEF w
    <2> QED
      BY <2>1, <2>2, LandMapped DEF Write, V!Next
  <1>4. ASSUME NEW l \in Planets, NEW x,
               ProcessPending(World, l).ok,
               x.arrivals = ProcessPending(World, l).arrivals,
               Write(x), UNCHANGED <<block, next_arrival_id>>
        PROVE  V!Next
    <2> DEFINE w == ProcessPending(World, l)
    <2>1. InOrder(World, w)
      BY WorldGood, ProcessSettles DEF After
    <2> HIDE DEF w
    <2> QED
      BY <1>4, <2>1, LandMapped DEF w, Write, V!Next
  <1>5. ASSUME NEW l \in Planets, ResolvePlanet(l)
        PROVE  V!Next
    BY <1>4, <1>5 DEF ResolvePlanet
  <1>6. ASSUME NEW p \in Players, NEW l \in Planets, NEW branch \in Branches,
               UpgradePlanet(p, l, branch)
        PROVE  V!Next
    <2> DEFINE w == ProcessPending(World, l)
    <2>1. PICK planet :
            /\ w.ok /\ Write([w EXCEPT !.planets[l] = planet])
            /\ UNCHANGED <<block, next_arrival_id>>
      BY <1>6 DEF UpgradePlanet
    <2>2. w \in Worlds
      BY WorldGood, ProcessSettles DEF After, GoodWorld, TypedWorld
    <2> HIDE DEF w
    <2>3. [w EXCEPT !.planets[l] = planet].arrivals = w.arrivals
      BY <2>2 DEF Worlds
    <2> QED
      BY <1>4, <2>1, <2>3 DEF w
  <1>7. CASE UNCHANGED <<block, arrivals, next_arrival_id>>
    BY <1>7 DEF V!vars, Sailing, Live, Voyage
  <1>8. CASE FleetNext
    <2>1. ASSUME NEW p \in Players, NEW l \in Planets,
                 InitPlayer(p, l) \/ RevealNewPlanet(l)
          PROVE  UNCHANGED <<block, arrivals, next_arrival_id>>
      BY <2>1 DEF InitPlayer, RevealNewPlanet
    <2>2. ASSUME NEW l \in Planets, RevealNewPlanet(l)
          PROVE  UNCHANGED <<block, arrivals, next_arrival_id>>
      BY <2>2 DEF RevealNewPlanet
    <2> QED
      BY <1>2, <1>3, <1>5, <1>6, <1>7, <1>8, <2>1, <2>2 DEF FleetNext
  <1>9. CASE ShipNext
    <2>1. ASSUME NEW p \in Players, NEW l \in Planets, GiveSpaceShips(p, l)
          PROVE  UNCHANGED <<block, arrivals, next_arrival_id>>
      BY <2>1 DEF GiveSpaceShips
    <2>2. ASSUME NEW l \in Planets, NEW id \in ShipIds, ActivateCrescent(l, id)
          PROVE  UNCHANGED <<block, arrivals, next_arrival_id>>
      BY <2>2 DEF ActivateCrescent
    <2> QED
      BY <1>2, <1>7, <1>9, <2>1, <2>2 DEF ShipNext
  <1>10. CASE ArtifactNext
    <2>1. ASSUME NEW p \in Players, NEW l \in Planets, ProspectPlanet(p, l)
          PROVE  UNCHANGED <<block, arrivals, next_arrival_id>>
      BY <2>1 DEF ProspectPlanet, fleetVars
    <2>2. ASSUME NEW p \in Players, NEW l \in Planets,
                 NEW type \in ArtifactTypes, NEW rarity \in Rarities,
                 FindArtifact(p, l, type, rarity)
          PROVE  UNCHANGED <<block, arrivals, next_arrival_id>>
      BY <2>2 DEF FindArtifact, fleetVars
    <2>3. ASSUME NEW p \in Players, NEW l \in Planets, NEW id \in FoundIds,
                 DepositArtifact(p, l, id)
          PROVE  UNCHANGED <<block, arrivals, next_arrival_id>>
      BY <2>3 DEF DepositArtifact, fleetVars
    <2>4. ASSUME NEW p \in Players, NEW l \in Planets, NEW id \in FoundIds,
                 WithdrawArtifact(p, l, id)
          PROVE  UNCHANGED <<block, arrivals, next_arrival_id>>
      BY <2>4 DEF WithdrawArtifact, fleetVars
    <2>5. ASSUME NEW p \in Players, NEW l \in Planets, NEW id \in FoundIds,
                 NEW target \in Planets \cup {Nowhere},
                 ActivateArtifact(p, l, id, target)
          PROVE  UNCHANGED <<block, arrivals, next_arrival_id>>
      BY <2>5 DEF ActivateArtifact, fleetVars
    <2>6. ASSUME NEW p \in Players, NEW l \in Planets, DeactivateArtifact(p, l)
          PROVE  UNCHANGED <<block, arrivals, next_arrival_id>>
      BY <2>6 DEF DeactivateArtifact, fleetVars
    <2> QED
      BY <1>7, <1>10, <2>1, <2>2, <2>3, <2>4, <2>5, <2>6 DEF ArtifactNext
  <1> QED
    BY <1>1, <1>8, <1>9, <1>10 DEF Next

\* DarkForest implements Voyages.
THEOREM VoyagesImplemented == Spec => ArrivalsAreVoyages
  <1>1. Init => V!Init
    BY DEF Init, V!Init, Sailing, Live, EmptyArrival
  <1>2. QInv /\ QInv' /\ [Next]_vars => [V!Next]_V!vars
    <2> SUFFICES ASSUME QInv, QInv', [Next]_vars
                 PROVE  V!Next \/ UNCHANGED V!vars
      OBVIOUS
    <2>1. CASE UNCHANGED vars
      BY <2>1 DEF vars, fleetVars, V!vars, Sailing, Live, Voyage
    <2>2. CASE Next
      <3>1. BerthsKept'
        BY EachHasSlot, PTL
      <3> QED
        BY <2>2, <3>1, NextMapped
    <2> QED
      BY <2>1, <2>2
  <1>3. Spec => V!Spec
    BY <1>1, <1>2, QueuesInductive, PTL DEF Spec, V!Spec
  <1> QED
    BY <1>3 DEF ArrivalsAreVoyages

=============================================================================
