--------------------------- MODULE DFPlaceProofs ---------------------------
(***************************************************************************)
(* Proofs about DarkForest: where ships and artifacts are, whose planets   *)
(* are, and who is on them; which queues settle; how planets grow; and     *)
(* what the activation of an artifact gives and its end takes back.        *)
(*                                                                         *)
(* Every transaction is a chain of landings and one operation.  Each of    *)
(* them is first shown to do to the storage of a transaction (w, then x)   *)
(* no more than move things from one place to another: PStep for places,   *)
(* HStep for owners and garrisons, Steady and Plain for the statistics of  *)
(* planets, Rests and Turn for what is active.  One lemma per landing step *)
(* and per action says so; the theorems are at the end of each part.       *)
(***************************************************************************)
EXTENDS DFQueueProofs

-----------------------------------------------------------------------------
(* Where an artifact is, in the storage w of a transaction. *)

Aboard(w, a, id) == Alive(w, a) /\ w.arrivals[a].carried_artifact_id = id

Somewhere(w, id) ==
    \/ \E l \in Planets, i \in ArtifactSlots : w.planet_artifacts[l][i] = id
    \/ \E a \in ArrivalIds : Aboard(w, a, id)

\* It is in one place at most, and its location says so.
Tidy(w, id) ==
    /\ \A l, k \in Planets, i, j \in ArtifactSlots :
         w.planet_artifacts[l][i] = id /\ w.planet_artifacts[k][j] = id
           => l = k /\ i = j
    /\ \A a, b \in ArrivalIds : Aboard(w, a, id) /\ Aboard(w, b, id) => a = b
    /\ \A l \in Planets, i \in ArtifactSlots : w.planet_artifacts[l][i] = id =>
         /\ w.artifact_locations[id] = l
         /\ \A a \in ArrivalIds : ~Aboard(w, a, id)
    /\ \A a \in ArrivalIds : Aboard(w, a, id) => w.artifact_locations[id] = Nowhere

\* From w to x nothing happened to it.
SamePlaces(w, x, id) ==
    /\ \A l \in Planets, i \in ArtifactSlots :
         x.planet_artifacts[l][i] = id <=> w.planet_artifacts[l][i] = id
    /\ \A a \in ArrivalIds : Aboard(x, a, id) <=> Aboard(w, a, id)
    /\ x.artifact_locations[id] = w.artifact_locations[id]

\* It is in slot s of l, and nowhere else.
OnlyIn(w, l, s, id) ==
    /\ \A k \in Planets, i \in ArtifactSlots :
         w.planet_artifacts[k][i] = id <=> k = l /\ i = s
    /\ \A a \in ArrivalIds : ~Aboard(w, a, id)
    /\ w.artifact_locations[id] = l

\* It is on board of a, and nowhere else.
OnlyAboard(w, a, id) ==
    /\ \A k \in Planets, i \in ArtifactSlots : w.planet_artifacts[k][i] # id
    /\ \A b \in ArrivalIds : Aboard(w, b, id) <=> b = a
    /\ w.artifact_locations[id] = Nowhere

LEMMA SameTidy ==
  ASSUME NEW w, NEW x, NEW id, SamePlaces(w, x, id)
  PROVE  /\ Tidy(w, id) => Tidy(x, id)
         /\ Somewhere(x, id) <=> Somewhere(w, id)
  <1>1. Somewhere(x, id) <=> Somewhere(w, id)
    BY DEF SamePlaces, Somewhere
  <1>2. ASSUME Tidy(w, id) PROVE Tidy(x, id)
    BY <1>2 DEF SamePlaces, Tidy
  <1> QED
    BY <1>1, <1>2

LEMMA OnlyInTidy ==
  ASSUME NEW w, NEW l \in Planets, NEW s \in ArtifactSlots, NEW id,
         OnlyIn(w, l, s, id)
  PROVE  Tidy(w, id) /\ Somewhere(w, id)
  BY DEF OnlyIn, Tidy, Somewhere

LEMMA OnlyAboardTidy ==
  ASSUME NEW w, NEW a \in ArrivalIds, NEW id, OnlyAboard(w, a, id)
  PROVE  Tidy(w, id) /\ Somewhere(w, id)
  BY DEF OnlyAboard, Tidy, Somewhere

LEMMA NowhereTidy ==
  ASSUME NEW w, NEW id, ~Somewhere(w, id)
  PROVE  Tidy(w, id)
  BY DEF Tidy, Somewhere

\* What is put into a free slot, and was nowhere, is only there.
LEMMA PutOnlyIn ==
  ASSUME NEW w, NEW x, NEW l \in Planets, NEW s \in ArtifactSlots, NEW id,
         ~Somewhere(w, id),
         \A k \in Planets, i \in ArtifactSlots :
           x.planet_artifacts[k][i] =
             IF k = l /\ i = s THEN id ELSE w.planet_artifacts[k][i],
         \A a \in ArrivalIds : Aboard(x, a, id) => Aboard(w, a, id),
         x.artifact_locations[id] = l
  PROVE  OnlyIn(x, l, s, id)
  BY DEF Somewhere, OnlyIn

-----------------------------------------------------------------------------
(* Planets and their garrisons. *)

\* A planet of someone is populated, and its population can grow at all.
Manned(planet) ==
    planet.population_cap > 0 /\ (planet.owner # Zero => planet.population > 0)

LEMMA CappedPositive ==
  ASSUME NEW planet \in Planet, NEW pausers, NEW population \in Nat \ {0},
         planet.population_cap > 0
  PROVE  Capped(planet, pausers, population) > 0
  BY DEF Capped, Least, Planet

LEMMA GrownPositive ==
  ASSUME NEW planet \in Planet, NEW blocks \in Nat,
         planet.population_cap > 0, planet.population > 0
  PROVE  Grown(planet, blocks) \in Nat \ {0}
  <1> DEFINE step == planet.population_growth * blocks
  <1>1. /\ planet.population \in Nat /\ planet.population_cap \in Nat
        /\ step \in Nat
    BY TimesNat DEF Planet
  <1> HIDE DEF step
  <1> QED
    BY <1>1 DEF Grown, Least, Greatest, step

LEMMA UpdatePositive ==
  ASSUME NEW planet \in Planet, NEW blocks \in Nat, NEW pausers,
         planet.population_cap > 0, planet.population > 0
  PROVE  UpdatePopulation(planet, blocks, pausers) > 0
  <1>1. Grown(planet, blocks) \in Nat \ {0}
    BY GrownPositive
  <1>2. planet.population \in Nat \ {0} /\ planet.population_cap # 0
    BY DEF Planet
  <1>3. Least(Grown(planet, blocks), planet.population) \in Nat \ {0}
    BY <1>1, <1>2 DEF Least
  <1> QED
    BY <1>1, <1>2, <1>3, CappedPositive DEF UpdatePopulation

LEMMA RefreshManned ==
  ASSUME NEW planet \in Planet, NEW pausers \in Nat, NEW update_block \in Nat
  PROVE  LET fresh == Refresh(planet, pausers, update_block) IN
         /\ fresh.population_cap = planet.population_cap
         /\ Manned(planet) => Manned(fresh)
  <1> DEFINE blocks == update_block - planet.last_updated
             fresh  == Refresh(planet, pausers, update_block)
  <1>1. CASE ~planet.is_initialized \/ update_block <= planet.last_updated
    BY <1>1 DEF Refresh
  <1>2. CASE ~(~planet.is_initialized \/ update_block <= planet.last_updated)
    <2>1. blocks \in Nat
      BY <1>2 DEF Planet
    <2>2. CASE planet.owner = Zero
      <3>1. fresh = [planet EXCEPT !.last_updated = update_block]
        BY <1>2, <2>2 DEF Refresh
      <3> QED
        BY <2>2, <3>1 DEF Manned, Planet
    <2>3. CASE planet.owner # Zero
      <3> DEFINE pop == UpdatePopulation(planet, blocks, pausers)
                 sil == UpdateSilver(planet, blocks)
      <3>1. fresh = [planet EXCEPT !.population = pop, !.silver = sil,
                                   !.last_updated = update_block]
        BY <1>2, <2>3 DEF Refresh
      <3>2. Manned(planet) => pop > 0
        BY <2>1, <2>3, UpdatePositive DEF Manned
      <3> HIDE DEF pop, sil, fresh
      <3>3. /\ fresh.population_cap = planet.population_cap
            /\ fresh.owner = planet.owner /\ fresh.population = pop
        BY <3>1 DEF Planet
      <3> QED
        BY <3>2, <3>3 DEF Manned, fresh
    <2> QED
      BY <2>2, <2>3
  <1> QED
    BY <1>1, <1>2

\* A landing changes the owner only to the one who lands, and whoever holds the
\* planet after it holds it with someone.
LEMMA ClashOwner ==
  ASSUME NEW planet \in Planet, NEW player \in Players \cup {Zero},
         NEW force \in Nat, NEW type,
         Hostile(planet, player, type) => planet.defense # 0
  PROVE  LET clash == Clash(planet, player, force, type) IN
         /\ clash.owner # planet.owner => clash.owner = player /\ player # Zero
         /\ Manned(planet) /\ clash.owner # Zero => clash.population \in Nat \ {0}
  <1> DEFINE clash    == Clash(planet, player, force, type)
             damage   == (force * 100) \div planet.defense
             survivor == force - ((planet.population * planet.defense) \div 100)
  <1>1. /\ planet.owner \in Players \cup {Zero}
        /\ planet.population \in Nat
        /\ planet.defense \in Nat
        /\ clash \in [owner : Players \cup {Zero}, population : Nat]
    BY ClashType DEF Planet
  <1>2. CASE player = planet.owner
    <2>1. clash = [owner |-> player, population |-> planet.population + force]
      BY <1>2 DEF Clash
    <2> QED
      BY <1>1, <1>2, <2>1 DEF Manned
  <1>3. CASE player # planet.owner /\ ~Hostile(planet, player, type)
    <2>1. clash = [owner |-> planet.owner, population |-> planet.population]
      BY <1>3 DEF Clash
    <2> QED
      BY <1>1, <1>3, <2>1 DEF Manned
  <1>4. CASE Hostile(planet, player, type) /\ planet.population > damage
    <2>1. clash = [owner |-> planet.owner, population |-> planet.population - damage]
      BY <1>4 DEF Clash, Hostile
    <2>2. planet.defense \in Nat \ {0} /\ damage \in Nat
      BY <1>1, <1>4, TimesNat, DivNat
    <2> HIDE DEF damage
    <2> QED
      BY <1>1, <1>4, <2>1, <2>2
  <1>5. CASE Hostile(planet, player, type) /\ ~(planet.population > damage)
    <2>1. clash = [owner |-> IF player = Zero THEN planet.owner ELSE player,
                   population |-> IF survivor = 0 THEN 1 ELSE survivor]
      BY <1>5 DEF Clash, Hostile
    <2>2. survivor \in Nat
      BY <1>1, <1>5, SurvivorsNat
    <2> HIDE DEF survivor
    <2> QED
      BY <1>1, <1>5, <2>1, <2>2
  <1> QED
    BY <1>2, <1>3, <1>4, <1>5 DEF Hostile

LEMMA LandedOwner ==
  ASSUME NEW planet \in Planet, NEW pausers \in Nat, NEW arrival,
         arrival.player \in Players \cup {Zero},
         arrival.pop_arriving \in Nat, arrival.silver_moved \in Nat,
         arrival.arrival_block \in Nat,
         Hostile(planet, arrival.player, arrival.arrival_type)
           => planet.defense # 0
  PROVE  LET landed == Landed(planet, pausers, arrival) IN
         /\ landed.population_cap = planet.population_cap
         /\ landed.owner # planet.owner =>
              landed.owner = arrival.player /\ arrival.player # Zero
         /\ Manned(planet) => Manned(landed)
  <1> DEFINE aged  == Refresh(planet, pausers, arrival.arrival_block)
             clash == Clash(aged, arrival.player, arrival.pop_arriving,
                            arrival.arrival_type)
             pop   == Capped(aged, pausers, clash.population)
             silver == Least(aged.silver + arrival.silver_moved, aged.silver_cap)
             landed == Landed(planet, pausers, arrival)
  <1>1. /\ aged \in Planet /\ aged.owner = planet.owner
        /\ aged.defense = planet.defense
    BY RefreshKeeps
  <1>2. /\ aged.population_cap = planet.population_cap
        /\ Manned(planet) => Manned(aged)
    BY RefreshManned
  <1>3. Hostile(aged, arrival.player, arrival.arrival_type) => aged.defense # 0
    BY <1>1 DEF Hostile
  <1>4. landed = [aged EXCEPT !.owner = clash.owner, !.population = pop,
                              !.silver = silver,
                              !.last_updated = arrival.arrival_block]
    BY DEF Landed
  <1> HIDE DEF aged
  <1>5. /\ clash.owner # aged.owner =>
             clash.owner = arrival.player /\ arrival.player # Zero
        /\ Manned(aged) /\ clash.owner # Zero => clash.population \in Nat \ {0}
    BY <1>1, <1>3, ClashOwner
  <1> HIDE DEF clash
  <1>6. Manned(aged) /\ clash.owner # Zero => pop > 0
    BY <1>1, <1>5, CappedPositive DEF Manned
  <1> HIDE DEF pop, silver, landed
  <1>7. /\ landed.owner = clash.owner /\ landed.population = pop
        /\ landed.population_cap = aged.population_cap
    BY <1>1, <1>4 DEF Planet
  <1> HIDE DEF Manned
  <1>8. Manned(planet) => Manned(landed)
    BY <1>2, <1>6, <1>7 DEF Manned
  <1> QED
    BY <1>1, <1>2, <1>5, <1>7, <1>8 DEF landed

-----------------------------------------------------------------------------
(* Landings. *)

ShipsIn(w, l, type) ==
    {i \in ArtifactSlots : /\ w.planet_artifacts[l][i] \in ShipIds
                           /\ w.planet_artifacts[l][i][2] = type}

Counted(w) ==
    \A l \in Planets, type \in EffectShips :
        w.ship_counts[l][type] = IF w.planets[l].is_home_planet THEN 0
                                 ELSE Cardinality(ShipsIn(w, l, type))

\* A planet nobody has touched is nobody's, is no home, and has nothing in its
\* slots.
Bare(w) ==
    \A l \in Planets : ~w.planets[l].is_initialized =>
        /\ w.planets[l].owner = Zero
        /\ ~w.planets[l].is_home_planet
        /\ \A i \in ArtifactSlots : w.planet_artifacts[l][i] = NoArtifact

\* What a transaction that has come from w to x by landings alone has kept:
\* no artifact is lost or doubled, ...
Carried(w, x) ==
    \A id \in ArtifactIds :
        /\ Tidy(w, id) => Tidy(x, id)
        /\ Somewhere(x, id) <=> Somewhere(w, id)
        /\ ~Somewhere(w, id) => x.artifact_locations[id] = w.artifact_locations[id]

\* ... a planet that changed hands was landed on by its new owner, ...
Conquered(w, x) ==
    \A l \in Planets : x.planets[l].owner # w.planets[l].owner =>
        \E a \in ArrivalIds :
            /\ Alive(w, a) /\ ~Alive(x, a)
            /\ w.arrivals[a].to_planet = l
            /\ w.arrivals[a].player = x.planets[l].owner
            /\ w.arrivals[a].player # Zero

\* ... and nobody holds an empty planet.
Garrisoned(w, x) ==
    \A l \in Planets :
        /\ x.planets[l].population_cap = w.planets[l].population_cap
        /\ Manned(w.planets[l]) => Manned(x.planets[l])

Lawful(w, x) ==
    /\ Carried(w, x)
    /\ Conquered(w, x)
    /\ Garrisoned(w, x)
    /\ Counted(w) => Counted(x)
    /\ Bare(w) => Bare(x)
    /\ \A l \in Planets :
         /\ x.planets[l].is_initialized = w.planets[l].is_initialized
         /\ x.planets[l].is_home_planet = w.planets[l].is_home_planet
    /\ \A a \in ArrivalIds :
         x.arrivals[a] = w.arrivals[a] \/ x.arrivals[a] = EmptyArrival

LEMMA LawfulReflexive == ASSUME NEW w PROVE Lawful(w, w)
  BY DEF Lawful, Carried, Conquered, Garrisoned

LEMMA LawfulTransitive ==
  ASSUME NEW w, NEW x, NEW y, Lawful(w, x), Lawful(x, y)
  PROVE  Lawful(w, y)
  <1>1. Carried(w, y)
    BY DEF Lawful, Carried
  <1>2. Garrisoned(w, y)
    BY DEF Lawful, Garrisoned
  <1>3. Conquered(w, y)
    <2> SUFFICES ASSUME NEW l \in Planets, y.planets[l].owner # w.planets[l].owner
                 PROVE  \E a \in ArrivalIds :
                          /\ Alive(w, a) /\ ~Alive(y, a)
                          /\ w.arrivals[a].to_planet = l
                          /\ w.arrivals[a].player = y.planets[l].owner
                          /\ w.arrivals[a].player # Zero
      BY DEF Conquered
    <2>1. CASE y.planets[l].owner # x.planets[l].owner
      <3>1. PICK a \in ArrivalIds :
              /\ Alive(x, a) /\ ~Alive(y, a)
              /\ x.arrivals[a].to_planet = l
              /\ x.arrivals[a].player = y.planets[l].owner
              /\ x.arrivals[a].player # Zero
        BY <2>1 DEF Lawful, Conquered
      <3>2. x.arrivals[a] = w.arrivals[a] /\ Alive(w, a)
        BY <3>1, EmptyNotAlive DEF Lawful, Alive
      <3> QED
        BY <3>1, <3>2
    <2>2. CASE y.planets[l].owner = x.planets[l].owner
      <3>1. PICK a \in ArrivalIds :
              /\ Alive(w, a) /\ ~Alive(x, a)
              /\ w.arrivals[a].to_planet = l
              /\ w.arrivals[a].player = x.planets[l].owner
              /\ w.arrivals[a].player # Zero
        BY <2>2 DEF Lawful, Conquered
      <3>2. ~Alive(y, a)
        BY <3>1, EmptyNotAlive DEF Lawful, Alive
      <3> QED
        BY <2>2, <3>1, <3>2
    <2> QED
      BY <2>1, <2>2
  <1>4. \A a \in ArrivalIds :
          y.arrivals[a] = w.arrivals[a] \/ y.arrivals[a] = EmptyArrival
    BY DEF Lawful
  <1> QED
    BY <1>1, <1>2, <1>3, <1>4 DEF Lawful

\* From w to x the artifact id came into a free slot of l, and acted if it is a
\* ship.
Unloaded(w, x, l, id) ==
    /\ \E s \in ArtifactSlots :
         /\ w.planet_artifacts[l][s] = NoArtifact
         /\ \A k \in Planets, i \in ArtifactSlots :
              x.planet_artifacts[k][i] =
                IF k = l /\ i = s THEN id ELSE w.planet_artifacts[k][i]
    /\ x.artifact_locations = [w.artifact_locations EXCEPT ![id] = l]
    /\ x.ship_counts = IF Affects(id, w.planets[l])
                       THEN [w.ship_counts EXCEPT ![l][id[2]] = @ + 1]
                       ELSE w.ship_counts

\* Homes, owners and garrisons of x are those of w.
SameGarrisons(w, x) ==
    \A k \in Planets :
        /\ x.planets[k].is_home_planet = w.planets[k].is_home_planet
        /\ x.planets[k].owner = w.planets[k].owner
        /\ x.planets[k].population = w.planets[k].population
        /\ x.planets[k].population_cap = w.planets[k].population_cap

LEMMA UnloadEffect ==
  ASSUME NEW w \in Worlds, NEW l \in Planets, NEW id \in ArtifactIds,
         Holds(w.planet_artifacts[l], NoArtifact)
  PROVE  /\ Unloaded(w, Unload(w, l, id), l, id)
         /\ SameGarrisons(w, Unload(w, l, id))
  <1> DEFINE slots  == w.planet_artifacts[l]
             put    == Put(slots, NoArtifact, id)
             count  == w.ship_counts[l][id[2]]
             docked == Docked(w.planets[l], id[2], count)
             x      == Unload(w, l, id)
  <1>1. id # NoArtifact
    BY SentinelsAssumption
  <1>2. slots \in [ArtifactSlots -> ArtifactIds \cup {NoArtifact}]
    BY DEF Worlds
  <1>3. PICK s \in ArtifactSlots : /\ slots[s] = NoArtifact
                                   /\ put = [slots EXCEPT ![s] = id]
    <2>1. id \in ArtifactIds \cup {NoArtifact} /\ Holds(slots, NoArtifact)
      OBVIOUS
    <2> HIDE DEF slots
    <2>2. \E s \in ArtifactSlots :
            /\ slots[s] = NoArtifact
            /\ Put(slots, NoArtifact, id) = [slots EXCEPT ![s] = id]
            /\ Put(slots, NoArtifact, id)
                 \in [ArtifactSlots -> ArtifactIds \cup {NoArtifact}]
      BY <1>2, <2>1, SlotsNat, PutKeeps
    <2> QED
      BY <2>2
  <1> HIDE DEF put
  <1>4. /\ x.planet_artifacts = [w.planet_artifacts EXCEPT ![l] = put]
        /\ x.artifact_locations = [w.artifact_locations EXCEPT ![id] = l]
        /\ x.ship_counts = IF Affects(id, w.planets[l])
                           THEN [w.ship_counts EXCEPT ![l][id[2]] = @ + 1]
                           ELSE w.ship_counts
        /\ x.planets = IF Affects(id, w.planets[l])
                       THEN [w.planets EXCEPT ![l] = docked] ELSE w.planets
    BY <1>1 DEF Unload, Worlds, put
  <1>5. \A k \in Planets, i \in ArtifactSlots :
          x.planet_artifacts[k][i] =
            IF k = l /\ i = s THEN id ELSE w.planet_artifacts[k][i]
    <2>1. w.planet_artifacts \in
            [Planets -> [ArtifactSlots -> ArtifactIds \cup {NoArtifact}]]
      BY DEF Worlds
    <2> HIDE DEF x
    <2> QED
      BY <1>3, <1>4, <2>1
  <1>6. Affects(id, w.planets[l]) => count \in Nat
    BY DEF Affects, Worlds
  <1>7. Affects(id, w.planets[l]) =>
          /\ docked.is_home_planet = w.planets[l].is_home_planet
          /\ docked.owner = w.planets[l].owner
          /\ docked.population = w.planets[l].population
          /\ docked.population_cap = w.planets[l].population_cap
    <2>1. w.planets[l] \in Planet
      BY DEF Worlds
    <2> QED
      BY <1>6, <2>1 DEF Docked, Planet
  <1> HIDE DEF docked
  <1>8. w.planets \in [Planets -> Planet]
    BY DEF Worlds
  <1>9. \A k \in Planets :
          /\ x.planets[k].is_home_planet = w.planets[k].is_home_planet
          /\ x.planets[k].owner = w.planets[k].owner
          /\ x.planets[k].population = w.planets[k].population
          /\ x.planets[k].population_cap = w.planets[k].population_cap
    <2> HIDE DEF x
    <2> QED
      BY <1>4, <1>7, <1>8
  <1> QED
    BY <1>3, <1>4, <1>5, <1>9 DEF Unloaded, SameGarrisons

LEMMA ShipsInFinite ==
  ASSUME NEW w, NEW l, NEW type
  PROVE  /\ IsFiniteSet(ShipsIn(w, l, type))
         /\ Cardinality(ShipsIn(w, l, type)) \in Nat
  <1>1. IsFiniteSet(ArtifactSlots)
    <2>1. 1 \in Int /\ MAX_PLANET_ARTIFACTS \in Int
      BY LimitAssumption
    <2> QED
      BY <2>1, FS_Interval DEF ArtifactSlots
  <1>2. ShipsIn(w, l, type) \subseteq ArtifactSlots
    BY DEF ShipsIn
  <1>3. IsFiniteSet(ShipsIn(w, l, type))
    BY <1>1, <1>2, FS_Subset
  <1> QED
    BY <1>3, FS_CardinalityType

\* A landing, taken apart: the cargo leaves the arrival for a free slot.
LEMMA ExecuteCargo ==
  ASSUME block \in Nat, NEW w, TypedWorld(w), NEW a \in ArrivalIds, CanLand(w, a)
  PROVE  LET arrival == w.arrivals[a]
             l       == arrival.to_planet
             cargo   == arrival.carried_artifact_id
             x       == ExecuteArrival(w, a)
         IN  /\ l \in Planets /\ cargo \in ArtifactIds \cup {NoArtifact}
             /\ \A b \in ArrivalIds :
                  x.arrivals[b] = IF b = a THEN EmptyArrival ELSE w.arrivals[b]
             /\ \A k \in Planets :
                  x.planets[k].is_home_planet = w.planets[k].is_home_planet
             /\ Garrisoned(w, x)
             /\ \A k \in Planets : x.planets[k].owner # w.planets[k].owner =>
                  /\ k = l
                  /\ x.planets[k].owner = arrival.player /\ arrival.player # Zero
             /\ cargo = NoArtifact =>
                  /\ x.planet_artifacts = w.planet_artifacts
                  /\ x.artifact_locations = w.artifact_locations
                  /\ x.ship_counts = w.ship_counts
             /\ cargo # NoArtifact => Unloaded(w, x, l, cargo)
  <1> DEFINE arrival == w.arrivals[a]
             l       == arrival.to_planet
             cargo   == arrival.carried_artifact_id
             planet  == Landed(w.planets[l], Pausers(w, l), arrival)
             queue   == Cleared(w.planet_arrivals[l], a)
             landed  == [w EXCEPT !.planets[l] = planet,
                                  !.planet_arrivals[l] = queue,
                                  !.arrivals[a] = EmptyArrival]
             x       == ExecuteArrival(w, a)
  <1>1. arrival \in Arrival /\ l \in Planets /\ w \in Worlds
    BY DEF CanLand, TypedWorld, Worlds, BoundIn
  <1>2. /\ planet \in Planet
        /\ planet.is_home_planet = w.planets[l].is_home_planet
        /\ planet.population_cap = w.planets[l].population_cap
        /\ planet.owner # w.planets[l].owner =>
             planet.owner = arrival.player /\ arrival.player # Zero
        /\ Manned(w.planets[l]) => Manned(planet)
    <2>1. /\ arrival.player \in Players \cup {Zero}
          /\ arrival.pop_arriving \in Nat /\ arrival.silver_moved \in Nat
          /\ arrival.arrival_block \in Nat
      BY <1>1 DEF Arrival, Addresses
    <2>2. Hostile(w.planets[l], arrival.player, arrival.arrival_type)
            => w.planets[l].defense # 0
      BY DEF CanLand
    <2>3. w.planets[l] \in Planet /\ Pausers(w, l) \in Nat
      BY <1>1, TypedParts
    <2> HIDE DEF l, arrival
    <2>4. planet \in Planet /\ planet.is_home_planet = w.planets[l].is_home_planet
      BY <2>1, <2>2, <2>3, LandedKeeps
    <2> QED
      BY <2>1, <2>2, <2>3, <2>4, LandedOwner
  <1>3. queue \in [Slots -> ArrivalIds \cup {0}]
    BY <1>1, TypedParts, ClearedType
  <1> HIDE DEF planet, queue
  <1>4. /\ landed \in Worlds
        /\ landed.arrivals = [w.arrivals EXCEPT ![a] = EmptyArrival]
        /\ landed.planets = [w.planets EXCEPT ![l] = planet]
        /\ landed.planet_artifacts = w.planet_artifacts
        /\ landed.artifact_locations = w.artifact_locations
        /\ landed.ship_counts = w.ship_counts
    BY <1>1, <1>2, <1>3, EmptyArrivalType DEF Worlds
  <1>5. x = Unload(landed, l, cargo)
    BY DEF ExecuteArrival, planet, queue
  <1>6. cargo \in ArtifactIds \cup {NoArtifact}
    BY <1>1 DEF Arrival
  <1>7. cargo # NoArtifact => Holds(landed.planet_artifacts[l], NoArtifact)
    BY <1>4 DEF CanLand
  <1>8. w.planets \in [Planets -> Planet] /\ w.arrivals \in [ArrivalIds -> Arrival]
    BY TypedParts
  <1>9. \A k \in Planets :
          /\ landed.planets[k].is_home_planet = w.planets[k].is_home_planet
          /\ landed.planets[k].population_cap = w.planets[k].population_cap
          /\ landed.planets[k].owner # w.planets[k].owner =>
               k = l /\ landed.planets[k].owner = arrival.player
                     /\ arrival.player # Zero
          /\ Manned(w.planets[k]) => Manned(landed.planets[k])
    <2> HIDE DEF landed, l, arrival, Manned
    <2> QED
      BY <1>1, <1>2, <1>4, <1>8
  <1>10. \A b \in ArrivalIds :
           landed.arrivals[b] = IF b = a THEN EmptyArrival ELSE w.arrivals[b]
    <2> HIDE DEF landed
    <2> QED
      BY <1>4, <1>8
  <1> HIDE DEF landed, x, l, arrival, cargo
  <1>11. Affects(cargo, landed.planets[l]) <=> Affects(cargo, w.planets[l])
    BY <1>1, <1>9 DEF Affects
  <1>12. CASE cargo = NoArtifact
    <2>1. x = landed
      BY <1>5, <1>12 DEF Unload
    <2>2. Garrisoned(w, x)
      BY <1>9, <2>1 DEF Garrisoned
    <2> QED
      BY <1>1, <1>4, <1>6, <1>9, <1>10, <1>12, <2>1, <2>2
         DEF x, l, arrival, cargo
  <1>13. CASE cargo # NoArtifact
    <2>1. cargo \in ArtifactIds
      BY <1>6, <1>13
    <2>2. x.arrivals = landed.arrivals
      BY <1>1, <1>4, <1>5, <1>6, <1>7, UnloadType
    <2>3. Unloaded(landed, x, l, cargo) /\ SameGarrisons(landed, x)
      <3>1. /\ Unloaded(landed, Unload(landed, l, cargo), l, cargo)
            /\ SameGarrisons(landed, Unload(landed, l, cargo))
        <4>1. landed \in Worlds /\ l \in Planets
              /\ Holds(landed.planet_artifacts[l], NoArtifact)
          BY <1>1, <1>4, <1>7, <1>13
        <4> QED
          BY <2>1, <4>1, UnloadEffect
      <3> QED
        BY <1>5, <3>1
    <2>4. Garrisoned(w, x)
      BY <1>9, <2>3 DEF Garrisoned, Manned, SameGarrisons
    <2>5. \A k \in Planets :
            x.planets[k].is_home_planet = w.planets[k].is_home_planet
      BY <1>9, <2>3 DEF SameGarrisons
    <2>6. \A k \in Planets : x.planets[k].owner # w.planets[k].owner =>
            k = l /\ x.planets[k].owner = arrival.player /\ arrival.player # Zero
      BY <1>9, <2>3 DEF SameGarrisons
    <2>7. Unloaded(w, x, l, cargo)
      BY <1>4, <1>11, <2>3 DEF Unloaded
    <2>8. \A b \in ArrivalIds :
            x.arrivals[b] = IF b = a THEN EmptyArrival ELSE w.arrivals[b]
      BY <1>10, <2>2
    <2> QED
      BY <1>1, <1>6, <1>13, <2>4, <2>5, <2>6, <2>7, <2>8 DEF x, l, arrival, cargo
  <1> QED
    BY <1>12, <1>13

\* The counters follow what is unloaded.
LEMMA UnloadedCounted ==
  ASSUME NEW w, w.planet_artifacts \in
                  [Planets -> [ArtifactSlots -> ArtifactIds \cup {NoArtifact}]],
         w.ship_counts \in [Planets -> [EffectShips -> Nat]],
         NEW x, NEW l \in Planets, NEW id \in ArtifactIds,
         Unloaded(w, x, l, id), Counted(w),
         \A k \in Planets : x.planets[k].is_home_planet = w.planets[k].is_home_planet
  PROVE  Counted(x)
  <1> SUFFICES ASSUME NEW k \in Planets, NEW type \in EffectShips
               PROVE  x.ship_counts[k][type] =
                        IF x.planets[k].is_home_planet THEN 0
                        ELSE Cardinality(ShipsIn(x, k, type))
    BY DEF Counted
  <1> DEFINE before == ShipsIn(w, k, type)
             after  == ShipsIn(x, k, type)
  <1>1. PICK s \in ArtifactSlots :
          /\ w.planet_artifacts[l][s] = NoArtifact
          /\ \A n \in Planets, i \in ArtifactSlots :
               x.planet_artifacts[n][i] =
                 IF n = l /\ i = s THEN id ELSE w.planet_artifacts[n][i]
    BY DEF Unloaded
  <1>2. w.ship_counts[k][type] = IF w.planets[k].is_home_planet THEN 0
                                 ELSE Cardinality(before)
    BY DEF Counted
  <1>3. NoArtifact \notin ShipIds
    BY SentinelsAssumption, IdsApart
  <1>4. CASE k = l /\ id \in ShipIds /\ id[2] = type
    <2>1. after = before \cup {s} /\ s \notin before
      BY <1>1, <1>3, <1>4 DEF ShipsIn
    <2>2. Cardinality(after) = Cardinality(before) + 1
      BY <2>1, ShipsInFinite, FS_AddElement
    <2>3. Affects(id, w.planets[l]) <=> ~w.planets[k].is_home_planet
      BY <1>4 DEF Affects, IsShip
    <2>4. x.ship_counts[k][type] = IF w.planets[k].is_home_planet
                                   THEN w.ship_counts[k][type]
                                   ELSE w.ship_counts[k][type] + 1
      BY <1>4, <2>3 DEF Unloaded
    <2> HIDE DEF before, after
    <2> QED
      BY <1>2, <2>2, <2>4 DEF after
  <1>5. CASE ~(k = l /\ id \in ShipIds /\ id[2] = type)
    <2>1. after = before
      BY <1>1, <1>3, <1>5 DEF ShipsIn
    <2>2. x.ship_counts[k][type] = w.ship_counts[k][type]
      <3>1. CASE Affects(id, w.planets[l])
        <4>1. id \in ShipIds /\ id[2] \in EffectShips
          BY <3>1 DEF Affects, IsShip
        <4> DEFINE t == id[2]
        <4>2. x.ship_counts = [w.ship_counts EXCEPT ![l][t] = @ + 1] /\ ~(k = l /\ t = type)
          BY <1>5, <3>1, <4>1 DEF Unloaded
        <4> HIDE DEF t
        <4> QED
          BY <4>2
      <3>2. CASE ~Affects(id, w.planets[l])
        BY <3>2 DEF Unloaded
      <3> QED
        BY <3>1, <3>2
    <2> QED
      BY <1>2, <2>1, <2>2
  <1> QED
    BY <1>4, <1>5

LEMMA ExecuteLawful ==
  ASSUME block \in Nat, NEW w, GoodWorld(w), NEW a \in ArrivalIds, CanLand(w, a)
  PROVE  Lawful(w, ExecuteArrival(w, a))
  <1> DEFINE arrival == w.arrivals[a]
             l       == arrival.to_planet
             cargo   == arrival.carried_artifact_id
             x       == ExecuteArrival(w, a)
  <1>1. TypedWorld(w) /\ Alive(w, a)
    BY DEF GoodWorld, CanLand, Alive
  <1>2. /\ l \in Planets /\ cargo \in ArtifactIds \cup {NoArtifact}
        /\ \A b \in ArrivalIds :
             x.arrivals[b] = IF b = a THEN EmptyArrival ELSE w.arrivals[b]
        /\ \A k \in Planets :
             x.planets[k].is_home_planet = w.planets[k].is_home_planet
        /\ Garrisoned(w, x)
        /\ \A k \in Planets : x.planets[k].owner # w.planets[k].owner =>
             /\ k = l
             /\ x.planets[k].owner = arrival.player /\ arrival.player # Zero
        /\ cargo = NoArtifact =>
             /\ x.planet_artifacts = w.planet_artifacts
             /\ x.artifact_locations = w.artifact_locations
             /\ x.ship_counts = w.ship_counts
        /\ cargo # NoArtifact => Unloaded(w, x, l, cargo)
    BY <1>1, ExecuteCargo
  <1>3. \A k \in Planets :
          /\ x.planets[k].is_initialized = w.planets[k].is_initialized
          /\ x.planets[k].last_updated =
               IF k = l THEN w.arrivals[a].arrival_block
                        ELSE w.planets[k].last_updated
    BY <1>1, ExecuteEffect
  <1>4. /\ w.planet_artifacts \in
             [Planets -> [ArtifactSlots -> ArtifactIds \cup {NoArtifact}]]
        /\ w.artifact_locations \in
             [ArtifactIds -> Planets \cup {Nowhere, MaxLocation}]
        /\ w.ship_counts \in [Planets -> [EffectShips -> Nat]]
    BY <1>1, TypedParts
  <1>5. w.planets[l].is_initialized
    BY <1>1 DEF GoodWorld, Clocked
  <1>6. NoArtifact \notin ArtifactIds
    BY SentinelsAssumption
  <1> HIDE DEF x
  <1>7. \A b \in ArrivalIds, id \in ArtifactIds :
          Aboard(x, b, id) <=> b # a /\ Aboard(w, b, id)
    BY <1>2, EmptyNotAlive DEF Aboard, Alive
  <1>8. Carried(w, x)
    <2> SUFFICES ASSUME NEW id \in ArtifactIds
                 PROVE  /\ Tidy(w, id) => Tidy(x, id)
                        /\ Somewhere(x, id) <=> Somewhere(w, id)
                        /\ ~Somewhere(w, id) =>
                             x.artifact_locations[id] = w.artifact_locations[id]
      BY DEF Carried
    <2>1. Aboard(w, a, id) <=> id = cargo
      BY <1>1 DEF Aboard
    <2>2. CASE id = cargo
      <3>1. PICK s \in ArtifactSlots :
              /\ w.planet_artifacts[l][s] = NoArtifact
              /\ \A k \in Planets, i \in ArtifactSlots :
                   x.planet_artifacts[k][i] =
                     IF k = l /\ i = s THEN cargo ELSE w.planet_artifacts[k][i]
        BY <1>2, <1>6, <2>2 DEF Unloaded
      <3>2. Somewhere(w, id) /\ Somewhere(x, id)
        BY <1>2, <2>1, <2>2, <3>1 DEF Somewhere
      <3>3. x.artifact_locations[id] = l
        BY <1>2, <1>4, <1>6, <2>2 DEF Unloaded
      <3>4. ASSUME Tidy(w, id) PROVE Tidy(x, id)
        <4>1. \A k \in Planets, i \in ArtifactSlots : w.planet_artifacts[k][i] # id
          BY <2>1, <2>2, <3>4 DEF Tidy
        <4>2. \A b \in ArrivalIds : ~Aboard(x, b, id)
          BY <1>7, <2>1, <2>2, <3>4 DEF Tidy
        <4>3. OnlyIn(x, l, s, id)
          BY <2>2, <3>1, <3>3, <4>1, <4>2 DEF OnlyIn
        <4> QED
          BY <1>2, <4>3, OnlyInTidy
      <3> QED
        BY <3>2, <3>4
    <2>3. CASE id # cargo
      <3>1. SamePlaces(w, x, id)
        <4>1. \A b \in ArrivalIds : Aboard(x, b, id) <=> Aboard(w, b, id)
          BY <1>7, <2>1, <2>3
        <4>2. CASE cargo = NoArtifact
          BY <1>2, <4>1, <4>2 DEF SamePlaces
        <4>3. CASE cargo # NoArtifact
          <5>1. Unloaded(w, x, l, cargo) /\ id # NoArtifact
            BY <1>2, <1>6, <4>3
          <5>2. x.artifact_locations[id] = w.artifact_locations[id]
            BY <1>4, <2>3, <5>1 DEF Unloaded
          <5> QED
            BY <2>3, <4>1, <5>1, <5>2 DEF SamePlaces, Unloaded
        <4> QED
          BY <4>2, <4>3
      <3> QED
        BY <3>1, SameTidy DEF SamePlaces
    <2> QED
      BY <2>2, <2>3
  <1>9. Conquered(w, x)
    <2> SUFFICES ASSUME NEW k \in Planets, x.planets[k].owner # w.planets[k].owner
                 PROVE  \E b \in ArrivalIds :
                          /\ Alive(w, b) /\ ~Alive(x, b)
                          /\ w.arrivals[b].to_planet = k
                          /\ w.arrivals[b].player = x.planets[k].owner
                          /\ w.arrivals[b].player # Zero
      BY DEF Conquered
    <2>1. ~Alive(x, a)
      BY <1>2, EmptyNotAlive DEF Alive
    <2> QED
      BY <1>1, <1>2, <2>1
  <1>10. Counted(w) => Counted(x)
    <2>1. CASE cargo = NoArtifact
      <3>1. \A k \in Planets, type \in EffectShips :
              ShipsIn(x, k, type) = ShipsIn(w, k, type)
        BY <1>2, <2>1 DEF ShipsIn
      <3> QED
        BY <1>2, <2>1, <3>1 DEF Counted
    <2>2. CASE cargo # NoArtifact
      <3>1. cargo \in ArtifactIds /\ Unloaded(w, x, l, cargo)
        BY <1>2, <2>2
      <3> HIDE DEF cargo, l
      <3> QED
        BY <1>2, <1>4, <3>1, UnloadedCounted
    <2> QED
      BY <2>1, <2>2
  <1>11. ASSUME Bare(w) PROVE Bare(x)
    <2> SUFFICES ASSUME NEW k \in Planets, ~x.planets[k].is_initialized
                 PROVE  /\ x.planets[k].owner = Zero
                        /\ ~x.planets[k].is_home_planet
                        /\ \A i \in ArtifactSlots : x.planet_artifacts[k][i] = NoArtifact
      BY DEF Bare
    <2>1. k # l /\ ~w.planets[k].is_initialized
      BY <1>3, <1>5
    <2>2. /\ w.planets[k].owner = Zero
          /\ ~w.planets[k].is_home_planet
          /\ \A i \in ArtifactSlots : w.planet_artifacts[k][i] = NoArtifact
      BY <1>11, <2>1 DEF Bare
    <2>3. \A i \in ArtifactSlots : x.planet_artifacts[k][i] = w.planet_artifacts[k][i]
      BY <1>2, <2>1 DEF Unloaded
    <2> QED
      BY <1>2, <2>1, <2>2, <2>3
  <1> QED
    BY <1>2, <1>3, <1>8, <1>9, <1>10, <1>11 DEF Lawful, x

LEMMA RoundLawful ==
  ASSUME block \in Nat, NEW w, GoodWorld(w), NEW l \in Planets
  PROVE  Lawful(w, Round(w, l)) /\ GoodWorld(Round(w, l))
  <1> DEFINE due == DueSlots(w, l, block)
             id  == EarliestId(w, l, due)
             x   == ExecuteArrival(w, id)
  <1>1. GoodWorld(Round(w, l))
    BY RoundAfter DEF After
  <1>2. CASE Done(w, l)
    BY <1>1, <1>2, LawfulReflexive DEF Round
  <1>3. CASE ~Done(w, l)
    <2>1. Round(w, l) = x /\ due # {} /\ w \in Worlds
      BY <1>3 DEF Round, Done, GoodWorld, TypedWorld
    <2>2. id \in ArrivalIds
      <3>1. /\ due \in SUBSET Slots
            /\ \A i \in due : w.planet_arrivals[l][i] \in ArrivalIds
        BY <2>1, DueIds
      <3> HIDE DEF due
      <3> QED
        BY <2>1, <3>1, EarliestFound
    <2> HIDE DEF id
    <2>3. CASE CanLand(w, id)
      BY <1>1, <2>1, <2>2, <2>3, ExecuteLawful
    <2>4. CASE ~CanLand(w, id)
      <3>1. x = [w EXCEPT !.ok = FALSE]
        BY <2>4 DEF ExecuteArrival
      <3> HIDE DEF x
      <3>2. /\ x.planets = w.planets /\ x.arrivals = w.arrivals
            /\ x.planet_artifacts = w.planet_artifacts
            /\ x.artifact_locations = w.artifact_locations
            /\ x.ship_counts = w.ship_counts
        BY <2>1, <3>1 DEF Worlds
      <3>3. \A i \in ArtifactIds : SamePlaces(w, x, i)
        BY <3>2 DEF SamePlaces, Aboard, Alive
      <3>4. Carried(w, x)
        BY <3>2, <3>3, SameTidy DEF Carried
      <3>5. Counted(w) => Counted(x)
        BY <3>2 DEF Counted, ShipsIn
      <3> QED
        BY <1>1, <2>1, <3>2, <3>4, <3>5
           DEF Lawful, Conquered, Garrisoned, Bare
    <2> QED
      BY <2>3, <2>4
  <1> QED
    BY <1>2, <1>3

LEMMA ThreeRoundsLawful ==
  ASSUME block \in Nat, NEW w, GoodWorld(w), NEW l \in Planets
  PROVE  Lawful(w, ThreeRounds(w, l)) /\ GoodWorld(ThreeRounds(w, l))
  <1> DEFINE x == Round(w, l)
             y == Round(x, l)
  <1>1. Lawful(w, x) /\ GoodWorld(x)
    BY RoundLawful
  <1> HIDE DEF x
  <1>2. Lawful(x, y) /\ GoodWorld(y)
    BY <1>1, RoundLawful
  <1> HIDE DEF y
  <1>3. Lawful(y, Round(y, l)) /\ GoodWorld(Round(y, l))
    BY <1>2, RoundLawful
  <1>4. Lawful(w, Round(y, l))
    BY <1>1, <1>2, <1>3, LawfulTransitive
  <1> QED
    BY <1>3, <1>4 DEF ThreeRounds, x, y

LEMMA ProcessLawful ==
  ASSUME block \in Nat, NEW w, GoodWorld(w), NEW l \in Planets
  PROVE  Lawful(w, ProcessPending(w, l)) /\ GoodWorld(ProcessPending(w, l))
  <1>1. CASE Done(w, l)
    BY <1>1, LawfulReflexive DEF ProcessPending, Done
  <1>2. CASE ~Done(w, l)
    <2> DEFINE a == ThreeRounds(w, l)
               b == ThreeRounds(a, l)
               c == ThreeRounds(b, l)
               d == ThreeRounds(c, l)
    <2>1. Lawful(w, a) /\ GoodWorld(a)
      BY ThreeRoundsLawful
    <2> HIDE DEF a
    <2>2. Lawful(a, b) /\ GoodWorld(b)
      BY <2>1, ThreeRoundsLawful
    <2> HIDE DEF b
    <2>3. Lawful(b, c) /\ GoodWorld(c)
      BY <2>2, ThreeRoundsLawful
    <2> HIDE DEF c
    <2>4. Lawful(c, d) /\ GoodWorld(d)
      BY <2>3, ThreeRoundsLawful
    <2> HIDE DEF d
    <2>5. Lawful(w, c)
      BY <2>1, <2>2, <2>3, LawfulTransitive
    <2>6. Lawful(w, d)
      BY <2>4, <2>5, LawfulTransitive
    <2> QED
      BY <1>2, <2>4, <2>6 DEF ProcessPending, a, b, c, d
  <1> QED
    BY <1>1, <1>2

LEMMA SettledLawful ==
  ASSUME QInv, NEW from \in Planets, NEW to \in Planets
  PROVE  Lawful(World, Settled(from, to)) /\ GoodWorld(Settled(from, to))
  <1> DEFINE x == ProcessPending(World, from)
             y == ProcessPending(x, to)
  <1>1. GoodWorld(World) /\ block \in Nat
    BY WorldGood
  <1>2. Lawful(World, x) /\ GoodWorld(x)
    BY <1>1, ProcessLawful
  <1> HIDE DEF x
  <1>3. Lawful(x, y) /\ GoodWorld(y)
    BY <1>1, <1>2, ProcessLawful
  <1> HIDE DEF y
  <1>4. Lawful(World, y)
    BY <1>2, <1>3, LawfulTransitive
  <1> QED
    BY <1>3, <1>4 DEF Settled, x, y

-----------------------------------------------------------------------------
(* The invariant. *)

\* A player's home is marked as one and is no one else's, and only who has
\* claimed the ships of a home has any of them.
HomesKnown ==
    /\ \A p \in Players : home_planets[p] \in Planets =>
         planets[home_planets[p]].is_home_planet
    /\ \A p, q \in Players :
         home_planets[p] \in Planets /\ home_planets[p] = home_planets[q] => p = q
    /\ \A id \in ShipIds : spaceship_owners[id] # Zero =>
         \E p \in Players : home_planets[p] = id[1] /\ claimed_ships[p]

\* A ship is somewhere exactly when it was given out, and never in two places.
ShipsKnown ==
    \A id \in ShipIds :
        Tidy(World, id) /\ (Somewhere(World, id) <=> spaceship_owners[id] # Zero)

KeptAt(id) ==
    artifacts[id].is_initialized /\ ~artifacts[id].burned =>
        Somewhere(World, id) \/ nft_owners[id] \in Players

FoundKept == \A id \in FoundIds : KeptAt(id)

Places ==
    HomesKnown /\ ShipsKnown /\ FoundKept /\ Counted(World) /\ Bare(World)

PInv == QInv /\ Places

\* What holds of a found artifact, too, as long as none is deposited while it
\* is on its way: it is in one place at most, and in none once it is burned.
OrderlyAt(id) ==
    /\ Tidy(World, id)
    /\ Somewhere(World, id) => artifacts[id].is_initialized /\ ~artifacts[id].burned
    /\ artifacts[id].burned => artifact_locations[id] = MaxLocation

Orderly == \A id \in FoundIds : OrderlyAt(id)

\* What every step keeps, and every step but the deposit of an artifact in flight.
PStep == Places' /\ (Orderly => Orderly')

LEMMA WorldFields ==
  /\ World.planets = planets /\ World.arrivals = arrivals
  /\ World.planet_artifacts = planet_artifacts
  /\ World.artifact_locations = artifact_locations
  /\ World.ship_counts = ship_counts
  /\ World'.planets = planets' /\ World'.arrivals = arrivals'
  /\ World'.planet_artifacts = planet_artifacts'
  /\ World'.artifact_locations = artifact_locations'
  /\ World'.ship_counts = ship_counts'
  BY DEF World

LEMMA PlaceTypes ==
  ASSUME QInv
  PROVE  /\ planet_artifacts \in
              [Planets -> [ArtifactSlots -> ArtifactIds \cup {NoArtifact}]]
         /\ artifact_locations \in
              [ArtifactIds -> Planets \cup {Nowhere, MaxLocation}]
         /\ ship_counts \in [Planets -> [EffectShips -> Nat]]
         /\ artifacts \in [ArtifactIds -> Artifact]
         /\ nft_owners \in [ArtifactIds -> Addresses \cup {Contract}]
         /\ planets \in [Planets -> Planet]
         /\ arrivals \in [ArrivalIds -> Arrival]
         /\ home_planets \in [Players -> Planets \cup {Nowhere}]
         /\ claimed_ships \in [Players -> BOOLEAN]
         /\ spaceship_owners \in [ShipIds -> Addresses]
  BY DEF QInv, TInv, TypeOK

\* An artifact that lands like others, or stays, and then is left alone.
LEMMA FoundStay ==
  ASSUME NEW w, Carried(World, w), NEW id \in FoundIds, SamePlaces(w, World', id),
         KeptAt(id), nft_owners'[id] = nft_owners[id],
         artifacts'[id].is_initialized = artifacts[id].is_initialized,
         artifacts'[id].burned = artifacts[id].burned
  PROVE  KeptAt(id)' /\ (OrderlyAt(id) => OrderlyAt(id)')
  <1>1. id \in ArtifactIds
    BY IdsApart
  <1>2. /\ Tidy(World, id) => Tidy(World', id)
        /\ Somewhere(World', id) <=> Somewhere(World, id)
        /\ ~Somewhere(World, id) =>
             World'.artifact_locations[id] = World.artifact_locations[id]
    BY <1>1, SameTidy DEF Carried, SamePlaces
  <1>3. KeptAt(id)'
    BY <1>2 DEF KeptAt
  <1>4. ASSUME OrderlyAt(id) PROVE OrderlyAt(id)'
    BY <1>2, <1>4, WorldFields DEF OrderlyAt
  <1> QED
    BY <1>3, <1>4

\* The same of ships.
LEMMA ShipsStay ==
  ASSUME ShipsKnown, NEW w, Carried(World, w),
         \A id \in ShipIds : SamePlaces(w, World', id), UNCHANGED spaceship_owners
  PROVE  ShipsKnown'
  <1> SUFFICES ASSUME NEW id \in ShipIds
               PROVE  /\ Tidy(World', id)
                      /\ Somewhere(World', id) <=> spaceship_owners[id] # Zero
    BY DEF ShipsKnown
  <1>1. id \in ArtifactIds
    BY IdsApart
  <1>2. /\ Tidy(World, id) => Tidy(World', id)
        /\ Somewhere(World', id) <=> Somewhere(World, id)
    BY <1>1, SameTidy DEF Carried
  <1> QED
    BY <1>2 DEF ShipsKnown

LEMMA CountedStay ==
  ASSUME NEW w, Counted(w), \A id \in ShipIds : SamePlaces(w, World', id),
         ship_counts' = w.ship_counts,
         \A l \in Planets :
           planets'[l].is_home_planet = w.planets[l].is_home_planet
  PROVE  Counted(World')
  <1>1. \A l \in Planets, type \in EffectShips :
          ShipsIn(World', l, type) = ShipsIn(w, l, type)
    BY DEF ShipsIn, SamePlaces
  <1> QED
    BY <1>1, WorldFields DEF Counted

LEMMA HomesStay ==
  ASSUME HomesKnown, UNCHANGED <<home_planets, claimed_ships, spaceship_owners>>,
         \A l \in Planets : planets[l].is_home_planet => planets'[l].is_home_planet
  PROVE  HomesKnown'
  BY DEF HomesKnown

\* A step that lands, and then leaves all ships and artifacts where they are.
LEMMA QuietStep ==
  ASSUME PInv, NEW w, Lawful(World, w),
         planet_artifacts' = w.planet_artifacts,
         artifact_locations' = w.artifact_locations,
         arrivals' = w.arrivals, ship_counts' = w.ship_counts,
         \A l \in Planets :
           /\ planets'[l].is_home_planet = w.planets[l].is_home_planet
           /\ ~planets'[l].is_initialized => planets'[l] = w.planets[l],
         UNCHANGED <<home_planets, claimed_ships, spaceship_owners, nft_owners>>,
         \A id \in FoundIds :
           /\ artifacts'[id].is_initialized = artifacts[id].is_initialized
           /\ artifacts'[id].burned = artifacts[id].burned
  PROVE  PStep
  <1>1. \A id : SamePlaces(w, World', id)
    BY WorldFields DEF SamePlaces, Aboard, Alive
  <1>2. Places /\ Carried(World, w) /\ Counted(w) /\ Bare(w)
    BY DEF PInv, Places, Lawful
  <1>3. HomesKnown'
    BY <1>2, HomesStay, WorldFields DEF Places, Lawful
  <1>4. ShipsKnown'
    BY <1>1, <1>2, ShipsStay DEF Places
  <1>5. Counted(World')
    BY <1>1, <1>2, CountedStay
  <1>6. Bare(World')
    BY <1>2, WorldFields DEF Bare
  <1>7. FoundKept' /\ (Orderly => Orderly')
    BY <1>1, <1>2, FoundStay DEF Places, FoundKept, Orderly
  <1> QED
    BY <1>3, <1>4, <1>5, <1>6, <1>7 DEF PStep, Places

-----------------------------------------------------------------------------
(* Steps that put nothing anywhere. *)

\* A step without landings that leaves the slots and arrivals as they are.
LEMMA StillStep ==
  ASSUME PInv, UNCHANGED <<planet_artifacts, artifact_locations, arrivals,
                           ship_counts>>,
         \A l \in Planets :
           /\ planets'[l].is_home_planet = planets[l].is_home_planet
           /\ ~planets'[l].is_initialized => planets'[l] = planets[l],
         UNCHANGED <<home_planets, claimed_ships, spaceship_owners, nft_owners>>,
         \A id \in FoundIds :
           /\ artifacts'[id].is_initialized = artifacts[id].is_initialized
           /\ artifacts'[id].burned = artifacts[id].burned
  PROVE  PStep
  BY LawfulReflexive, WorldFields, QuietStep

LEMMA PStutter == ASSUME PInv, UNCHANGED vars PROVE PStep
  BY StillStep DEF vars, fleetVars, playerVars, artifactVars

LEMMA PNextBlock == ASSUME PInv, NextBlock PROVE PStep
  BY StillStep DEF NextBlock, fleetVars, playerVars, artifactVars

LEMMA PProspectPlanet ==
  ASSUME PInv, NEW player \in Players, NEW l \in Planets, ProspectPlanet(player, l)
  PROVE  PStep
  BY StillStep DEF ProspectPlanet, fleetVars, playerVars

\* One planet changes, and stays the home it is or is not.
LEMMA OnePlanetStep ==
  ASSUME PInv, NEW l \in Planets, NEW planet,
         planets' = [planets EXCEPT ![l] = planet],
         planet.is_home_planet = planets[l].is_home_planet,
         planet.is_initialized \/ planet = planets[l],
         UNCHANGED <<planet_artifacts, artifact_locations, arrivals, ship_counts>>,
         UNCHANGED <<home_planets, claimed_ships, spaceship_owners, nft_owners>>,
         \A id \in FoundIds :
           /\ artifacts'[id].is_initialized = artifacts[id].is_initialized
           /\ artifacts'[id].burned = artifacts[id].burned
  PROVE  PStep
  <1>1. \A k \in Planets : planets'[k] = IF k = l THEN planet ELSE planets[k]
    BY PlaceTypes DEF PInv
  <1> QED
    BY <1>1, StillStep

LEMMA PRevealNewPlanet ==
  ASSUME PInv, NEW l \in Planets, RevealNewPlanet(l)
  PROVE  PStep
  <1> DEFINE planet == NewPlanet(l, Zero, FALSE)
  <1>1. /\ planets' = [planets EXCEPT ![l] = planet] /\ ~planets[l].is_initialized
        /\ UNCHANGED <<planet_artifacts, artifact_locations, arrivals, ship_counts>>
        /\ UNCHANGED <<home_planets, claimed_ships, artifacts, spaceship_owners,
                       nft_owners>>
    BY DEF RevealNewPlanet, playerVars, artifactVars
  <1>2. planet.is_initialized /\ planet.is_home_planet = FALSE
    BY DEF NewPlanet, DefaultPlanet
  <1>3. planets[l].is_home_planet = FALSE
    <2>1. planets[l].is_home_planet \in BOOLEAN
      BY PlaceTypes DEF PInv, Planet
    <2> QED
      BY <1>1, <2>1, WorldFields DEF PInv, Places, Bare
  <1> HIDE DEF planet
  <1> QED
    BY <1>1, <1>2, <1>3, OnePlanetStep

\* A ship that is activated is a ship still.
LEMMA PActivateCrescent ==
  ASSUME PInv, NEW l \in Planets, NEW id \in ShipIds, ActivateCrescent(l, id)
  PROVE  PStep
  <1> DEFINE mine == [planets[l] EXCEPT
               !.planet_type   = "silver_mine",
               !.silver        = IF @ = 0 THEN 1 ELSE @,
               !.silver_growth = IF planets[l].silver = 0
                                 THEN DefaultStats[l]["silver_mine"].silver_growth
                                 ELSE @]
             spent == [NewArtifact("crescent", 0) EXCEPT !.last_activated = block,
                                                         !.last_deactivated = block]
  <1>1. /\ planets' = [planets EXCEPT ![l] = mine]
        /\ artifacts' = [artifacts EXCEPT ![id] = spent]
        /\ Holds(planet_artifacts[l], id)
        /\ UNCHANGED <<planet_artifacts, artifact_locations, arrivals, ship_counts>>
        /\ UNCHANGED <<home_planets, claimed_ships, spaceship_owners, nft_owners>>
    BY DEF ActivateCrescent, playerVars
  <1>2. planets[l] \in Planet
    BY PlaceTypes DEF PInv
  <1>3. /\ mine.is_home_planet = planets[l].is_home_planet
        /\ mine.is_initialized = planets[l].is_initialized
    BY <1>2 DEF Planet
  <1>4. planets[l].is_initialized
    <2>1. PICK i \in ArtifactSlots : planet_artifacts[l][i] = id
      BY <1>1, PlaceTypes DEF PInv, Holds
    <2>2. id # NoArtifact
      BY SentinelsAssumption, IdsApart
    <2> QED
      BY <2>1, <2>2, WorldFields DEF PInv, Places, Bare
  <1>5. \A other \in FoundIds : artifacts'[other] = artifacts[other]
    BY <1>1, IdsApart, PlaceTypes DEF PInv
  <1> HIDE DEF mine, spent
  <1> QED
    BY <1>1, <1>3, <1>4, <1>5, OnePlanetStep

LEMMA PResolveArrival ==
  ASSUME PInv, NEW id \in ArrivalIds, ResolveArrival(id)
  PROVE  PStep
  <1> DEFINE w == ExecuteArrival(World, id)
  <1>1. /\ w.ok /\ Write(w)
        /\ UNCHANGED <<home_planets, claimed_ships, artifacts, spaceship_owners,
                       nft_owners>>
    BY DEF ResolveArrival, playerVars, artifactVars
  <1>2. CanLand(World, id)
    <2>1. ~CanLand(World, id) => w = [World EXCEPT !.ok = FALSE]
      BY DEF ExecuteArrival
    <2>2. [World EXCEPT !.ok = FALSE].ok = FALSE
      BY DEF World
    <2> QED
      BY <1>1, <2>1, <2>2
  <1>3. Lawful(World, w)
    BY <1>2, WorldGood, ExecuteLawful DEF PInv
  <1> HIDE DEF w
  <1> QED
    BY <1>1, <1>3, QuietStep DEF Write

LEMMA PResolvePlanet ==
  ASSUME PInv, NEW l \in Planets, ResolvePlanet(l)
  PROVE  PStep
  <1> DEFINE w == ProcessPending(World, l)
  <1>1. /\ w.ok /\ Write(w)
        /\ UNCHANGED <<home_planets, claimed_ships, artifacts, spaceship_owners,
                       nft_owners>>
    BY DEF ResolvePlanet, playerVars, artifactVars
  <1>2. Lawful(World, w)
    BY WorldGood, ProcessLawful DEF PInv
  <1> HIDE DEF w
  <1> QED
    BY <1>1, <1>2, QuietStep DEF Write

LEMMA PUpgradePlanet ==
  ASSUME PInv, NEW player \in Players, NEW l \in Planets, NEW branch \in Branches,
         UpgradePlanet(player, l, branch)
  PROVE  PStep
  <1> DEFINE w        == ProcessPending(World, l)
             fresh    == Origin(w, l)
             buffed   == BuffPlanet(fresh, UpgradeBuff(branch))
             upgraded == [buffed EXCEPT !.silver = @ - UpgradeCost(fresh),
                                        !.upgrades[branch] = @ + 1]
             x        == [w EXCEPT !.planets[l] = upgraded]
  <1>1. /\ w.ok /\ Write(x) /\ fresh.owner = player
        /\ UNCHANGED <<home_planets, claimed_ships, artifacts, spaceship_owners,
                       nft_owners>>
    BY DEF UpgradePlanet, playerVars, artifactVars
  <1>2. Lawful(World, w) /\ GoodWorld(w) /\ TInv
    BY WorldGood, ProcessLawful, QTyped DEF PInv
  <1>3. /\ fresh \in Planet /\ fresh.owner = w.planets[l].owner
        /\ fresh.is_home_planet = w.planets[l].is_home_planet
        /\ fresh.is_initialized = w.planets[l].is_initialized
    BY <1>2, OriginType DEF GoodWorld
  <1>4. SamePlace(fresh, buffed)
    BY <1>3, BuffKeeps, UpgradeBuffType
  <1>5. /\ upgraded.is_home_planet = w.planets[l].is_home_planet
        /\ upgraded.is_initialized = w.planets[l].is_initialized
    <2> HIDE DEF fresh, buffed
    <2> QED
      BY <1>3, <1>4 DEF SamePlace, Planet
  <1>6. w.planets \in [Planets -> Planet] /\ w \in Worlds
    BY <1>2, TypedParts DEF GoodWorld, TypedWorld
  <1>7. w.planets[l].is_initialized
    <2>1. player # Zero
      BY SentinelAssumption
    <2> QED
      BY <1>1, <1>2, <1>3, <2>1 DEF PInv, Places, Lawful, Bare
  <1> HIDE DEF w, fresh, upgraded
  <1>8. /\ planets' = [w.planets EXCEPT ![l] = upgraded]
        /\ planet_artifacts' = w.planet_artifacts
        /\ artifact_locations' = w.artifact_locations
        /\ arrivals' = w.arrivals /\ ship_counts' = w.ship_counts
    BY <1>1, <1>6 DEF Write, Worlds
  <1>9. \A k \in Planets : planets'[k] = IF k = l THEN upgraded ELSE w.planets[k]
    BY <1>6, <1>8
  <1>10. \A k \in Planets :
           /\ planets'[k].is_home_planet = w.planets[k].is_home_planet
           /\ ~planets'[k].is_initialized => planets'[k] = w.planets[k]
    BY <1>5, <1>7, <1>9
  <1> QED
    BY <1>1, <1>2, <1>8, <1>10, QuietStep

\* A home is made of a planet where nothing is, so nothing has to be counted.
LEMMA PInitPlayer ==
  ASSUME PInv, NEW player \in Players, NEW l \in Planets, InitPlayer(player, l)
  PROVE  PStep
  <1> DEFINE home == NewPlanet(l, player, TRUE)
  <1>1. /\ planets' = [planets EXCEPT ![l] = home] /\ ~planets[l].is_initialized
        /\ home_planets[player] = Nowhere
        /\ home_planets' = [home_planets EXCEPT ![player] = l]
        /\ claimed_ships' = [claimed_ships EXCEPT ![player] = FALSE]
        /\ UNCHANGED <<planet_artifacts, artifact_locations, arrivals, ship_counts>>
        /\ UNCHANGED <<artifacts, spaceship_owners, nft_owners>>
    BY DEF InitPlayer, CanBeHome, artifactVars
  <1>2. home.is_initialized /\ home.is_home_planet
    BY DEF NewPlanet, DefaultPlanet
  <1> HIDE DEF home
  <1>3. \A k \in Planets : planets'[k] = IF k = l THEN home ELSE planets[k]
    BY <1>1, PlaceTypes DEF PInv
  <1>4. /\ \A p \in Players : home_planets'[p] = IF p = player THEN l
                                                ELSE home_planets[p]
        /\ \A p \in Players : claimed_ships'[p] = IF p = player THEN FALSE
                                                 ELSE claimed_ships[p]
    BY <1>1, PlaceTypes DEF PInv
  <1>5. /\ HomesKnown /\ ShipsKnown /\ FoundKept /\ Counted(World)
        /\ Carried(World, World)
        /\ \A k \in Planets : ~planets[k].is_initialized =>
             /\ ~planets[k].is_home_planet
             /\ \A i \in ArtifactSlots : planet_artifacts[k][i] = NoArtifact
    BY WorldFields, LawfulReflexive DEF PInv, Places, Bare, Lawful
  <1>6. HomesKnown'
    <2>1. \A p \in Players : home_planets'[p] \in Planets =>
            planets'[home_planets'[p]].is_home_planet
      BY <1>2, <1>3, <1>4, <1>5 DEF HomesKnown
    <2>2. \A p \in Players : home_planets[p] # l
      BY <1>1, <1>5 DEF HomesKnown
    <2>3. \A p, q \in Players :
            home_planets'[p] \in Planets /\ home_planets'[p] = home_planets'[q] => p = q
      BY <1>4, <1>5, <2>2 DEF HomesKnown
    <2>4. ASSUME NEW id \in ShipIds, spaceship_owners[id] # Zero
          PROVE  \E p \in Players : home_planets'[p] = id[1] /\ claimed_ships'[p]
      <3>1. PICK p \in Players : home_planets[p] = id[1] /\ claimed_ships[p]
        BY <1>5, <2>4 DEF HomesKnown
      <3>2. id[1] \in Planets
        BY DEF ShipIds
      <3>3. p # player
        BY <1>1, <3>1, <3>2, SentinelAssumption
      <3> QED
        BY <1>4, <3>1, <3>3
    <2> QED
      BY <1>1, <2>1, <2>3, <2>4 DEF HomesKnown
  <1>7. \A id : SamePlaces(World, World', id)
    BY <1>1, WorldFields DEF SamePlaces, Aboard, Alive
  <1>8. ShipsKnown'
    BY <1>1, <1>5, <1>7, ShipsStay
  <1>9. FoundKept' /\ (Orderly => Orderly')
    BY <1>1, <1>5, <1>7, FoundStay DEF FoundKept, Orderly
  <1>10. Counted(World')
    <2> SUFFICES ASSUME NEW k \in Planets, NEW type \in EffectShips
                 PROVE  ship_counts[k][type] =
                          IF planets'[k].is_home_planet THEN 0
                          ELSE Cardinality(ShipsIn(World', k, type))
      BY <1>1, WorldFields DEF Counted
    <2>1. ShipsIn(World', k, type) = ShipsIn(World, k, type)
      BY <1>1, WorldFields DEF ShipsIn
    <2>2. ship_counts[k][type] = IF planets[k].is_home_planet THEN 0
                                 ELSE Cardinality(ShipsIn(World, k, type))
      BY <1>5, WorldFields DEF Counted
    <2>3. CASE k = l
      <3>1. NoArtifact \notin ShipIds
        BY SentinelsAssumption, IdsApart
      <3>2. ShipsIn(World, l, type) = {}
        BY <1>1, <1>5, <3>1, WorldFields DEF ShipsIn
      <3>3. ship_counts[k][type] = 0
        BY <2>2, <2>3, <3>2, FS_EmptySet
      <3> QED
        BY <1>2, <1>3, <2>3, <3>3
    <2>4. CASE k # l
      BY <1>3, <2>1, <2>2, <2>4
    <2> QED
      BY <2>3, <2>4
  <1>11. Bare(World')
    BY <1>1, <1>2, <1>3, WorldFields DEF PInv, Places, Bare
  <1> QED
    BY <1>6, <1>8, <1>9, <1>10, <1>11 DEF PStep, Places

-----------------------------------------------------------------------------
(* Steps that put an artifact into a slot, or take one out. *)

LEMMA PutSlot ==
  ASSUME NEW slots \in [ArtifactSlots -> ArtifactIds \cup {NoArtifact}],
         NEW id \in ArtifactIds, Holds(slots, NoArtifact)
  PROVE  \E s \in ArtifactSlots :
           /\ slots[s] = NoArtifact
           /\ Put(slots, NoArtifact, id) = [slots EXCEPT ![s] = id]
  <1>1. id \in ArtifactIds \cup {NoArtifact}
    OBVIOUS
  <1>2. \E s \in ArtifactSlots :
          /\ slots[s] = NoArtifact
          /\ Put(slots, NoArtifact, id) = [slots EXCEPT ![s] = id]
          /\ Put(slots, NoArtifact, id)
               \in [ArtifactSlots -> ArtifactIds \cup {NoArtifact}]
    BY <1>1, SlotsNat, PutKeeps
  <1> QED
    BY <1>2

LEMMA PutEffect ==
  ASSUME PInv, NEW l \in Planets, NEW id \in ArtifactIds,
         Holds(planet_artifacts[l], NoArtifact),
         planet_artifacts' =
           [planet_artifacts EXCEPT ![l] = Put(@, NoArtifact, id)],
         artifact_locations' = [artifact_locations EXCEPT ![id] = l],
         UNCHANGED arrivals
  PROVE  /\ \A k \in Planets \ {l}, i \in ArtifactSlots :
              planet_artifacts'[k][i] = planet_artifacts[k][i]
         /\ \A other \in ArtifactIds \ {id} : SamePlaces(World, World', other)
         /\ Somewhere(World', id)
         /\ ~Somewhere(World, id) => Tidy(World', id)
  <1> DEFINE put == Put(planet_artifacts[l], NoArtifact, id)
  <1>1. planet_artifacts[l] \in [ArtifactSlots -> ArtifactIds \cup {NoArtifact}]
    BY PlaceTypes DEF PInv
  <1>2. PICK s \in ArtifactSlots :
          /\ planet_artifacts[l][s] = NoArtifact
          /\ put = [planet_artifacts[l] EXCEPT ![s] = id]
    BY <1>1, PutSlot
  <1>3. planet_artifacts' = [planet_artifacts EXCEPT ![l] = put]
    OBVIOUS
  <1> HIDE DEF put
  <1>4. \A k \in Planets, i \in ArtifactSlots :
          planet_artifacts'[k][i] =
            IF k = l /\ i = s THEN id ELSE planet_artifacts[k][i]
    BY <1>1, <1>2, <1>3, PlaceTypes DEF PInv
  <1>5. /\ \A other \in ArtifactIds :
             artifact_locations'[other] = IF other = id THEN l
                                          ELSE artifact_locations[other]
        /\ NoArtifact \notin ArtifactIds
        /\ \A a, other : Aboard(World', a, other) <=> Aboard(World, a, other)
    BY PlaceTypes, SentinelsAssumption, WorldFields DEF PInv, Aboard, Alive
  <1>6. ASSUME NEW other \in ArtifactIds \ {id}
        PROVE  SamePlaces(World, World', other)
    <2>1. \A k \in Planets, i \in ArtifactSlots :
            planet_artifacts'[k][i] = other <=> planet_artifacts[k][i] = other
      BY <1>2, <1>4, <1>5
    <2>2. artifact_locations'[other] = artifact_locations[other]
      BY <1>5
    <2> QED
      BY <1>5, <2>1, <2>2, WorldFields DEF SamePlaces
  <1>7. Somewhere(World', id)
    BY <1>4, WorldFields DEF Somewhere
  <1>8. ASSUME ~Somewhere(World, id) PROVE Tidy(World', id)
    <2>1. \A k \in Planets, i \in ArtifactSlots :
            World'.planet_artifacts[k][i] =
              IF k = l /\ i = s THEN id ELSE World.planet_artifacts[k][i]
      BY <1>4, WorldFields
    <2>2. World'.artifact_locations[id] = l
      BY <1>5, WorldFields
    <2>3. OnlyIn(World', l, s, id)
      BY <1>5, <1>8, <2>1, <2>2, PutOnlyIn
    <2> QED
      BY <2>3, OnlyInTidy
  <1> QED
    BY <1>4, <1>6, <1>7, <1>8

LEMMA TakeEffect ==
  ASSUME PInv, NEW l \in Planets, NEW id \in ArtifactIds,
         planet_artifacts' =
           [planet_artifacts EXCEPT ![l] = Without(@, NoArtifact, id)],
         NEW location,
         artifact_locations' = [artifact_locations EXCEPT ![id] = location],
         UNCHANGED arrivals
  PROVE  /\ \A k \in Planets, i \in ArtifactSlots :
              planet_artifacts[k][i] = NoArtifact => planet_artifacts'[k][i] = NoArtifact
         /\ \A other \in ArtifactIds \ {id} : SamePlaces(World, World', other)
         /\ artifact_locations'[id] = location
         /\ Tidy(World, id) /\ Holds(planet_artifacts[l], id) => ~Somewhere(World', id)
  <1>1. \A k \in Planets, i \in ArtifactSlots :
          planet_artifacts'[k][i] =
            IF k = l /\ planet_artifacts[k][i] = id THEN NoArtifact
            ELSE planet_artifacts[k][i]
    BY PlaceTypes DEF PInv, Without
  <1>2. /\ \A other \in ArtifactIds :
             artifact_locations'[other] = IF other = id THEN location
                                          ELSE artifact_locations[other]
        /\ NoArtifact \notin ArtifactIds
        /\ \A a, other : Aboard(World', a, other) <=> Aboard(World, a, other)
    BY PlaceTypes, SentinelsAssumption, WorldFields DEF PInv, Aboard, Alive
  <1>3. ASSUME NEW other \in ArtifactIds \ {id}
        PROVE  SamePlaces(World, World', other)
    BY <1>1, <1>2, WorldFields DEF SamePlaces
  <1>4. ASSUME Tidy(World, id), Holds(planet_artifacts[l], id)
        PROVE  ~Somewhere(World', id)
    <2>1. PICK i \in ArtifactSlots : planet_artifacts[l][i] = id
      BY <1>4, PlaceTypes DEF PInv, Holds
    <2>2. \A a \in ArrivalIds : ~Aboard(World, a, id)
      BY <1>4, <2>1, WorldFields DEF Tidy
    <2>3. \A k \in Planets, j \in ArtifactSlots : planet_artifacts[k][j] = id => k = l
      BY <1>4, <2>1, WorldFields DEF Tidy
    <2> QED
      BY <1>1, <1>2, <2>2, <2>3, WorldFields DEF Somewhere
  <1> QED
    BY <1>1, <1>2, <1>3, <1>4

\* A step that puts or takes found artifacts only, on planets that are someone's.
LEMMA FoundStep ==
  ASSUME PInv, NEW id \in FoundIds,
         \A other \in ArtifactIds \ {id} : SamePlaces(World, World', other),
         \A l \in Planets :
           /\ planets'[l].is_home_planet = planets[l].is_home_planet
           /\ ~planets'[l].is_initialized =>
                /\ planets'[l] = planets[l]
                /\ \A i \in ArtifactSlots :
                     planet_artifacts[l][i] = NoArtifact
                       => planet_artifacts'[l][i] = NoArtifact,
         UNCHANGED <<ship_counts, home_planets, claimed_ships, spaceship_owners>>,
         \A other \in FoundIds \ {id} :
           /\ nft_owners'[other] = nft_owners[other]
           /\ artifacts'[other] = artifacts[other],
         KeptAt(id)'
  PROVE  Places' /\ (Orderly /\ OrderlyAt(id)' => Orderly')
  <1>1. Places /\ Carried(World, World)
    BY LawfulReflexive DEF PInv, Lawful
  <1>2. \A ship \in ShipIds : SamePlaces(World, World', ship)
    BY IdsApart
  <1>3. HomesKnown'
    BY <1>1, HomesStay DEF Places
  <1>4. ShipsKnown'
    BY <1>1, <1>2, ShipsStay DEF Places
  <1>5. Counted(World')
    BY <1>1, <1>2, CountedStay, WorldFields DEF Places
  <1>6. Bare(World')
    BY <1>1, WorldFields DEF Places, Bare
  <1>7. ASSUME NEW other \in FoundIds
        PROVE  KeptAt(other)' /\ (Orderly /\ OrderlyAt(id)' => OrderlyAt(other)')
    <2>1. CASE other = id
      BY <2>1
    <2>2. CASE other # id
      <3>1. SamePlaces(World, World', other)
        BY <2>2, IdsApart
      <3>2. KeptAt(other)' /\ (OrderlyAt(other) => OrderlyAt(other)')
        BY <1>1, <2>2, <3>1, FoundStay DEF Places, FoundKept
      <3> QED
        BY <3>2 DEF Orderly
    <2> QED
      BY <2>1, <2>2
  <1> QED
    BY <1>3, <1>4, <1>5, <1>6, <1>7 DEF Places, FoundKept, Orderly

LEMMA OwnedInitialized ==
  ASSUME PInv, NEW l \in Planets, planets[l].owner \in Players
  PROVE  planets[l].is_initialized
  BY WorldFields, SentinelAssumption DEF PInv, Places, Bare

LEMMA PFindArtifact ==
  ASSUME PInv, NEW player \in Players, NEW l \in Planets, NEW type \in ArtifactTypes,
         NEW rarity \in Rarities, FindArtifact(player, l, type, rarity)
  PROVE  PStep
  <1> DEFINE id    == <<l, "found">>
             found == NewArtifact(type, rarity)
  <1>1. id \in FoundIds /\ id \in ArtifactIds
    BY IdsApart DEF FoundIds
  <1>2. /\ planets[l].owner = player
        /\ ~artifacts[id].is_initialized
        /\ Holds(planet_artifacts[l], NoArtifact)
        /\ artifacts' = [artifacts EXCEPT ![id] = found]
        /\ planet_artifacts' = [planet_artifacts EXCEPT ![l] = Put(@, NoArtifact, id)]
        /\ artifact_locations' = [artifact_locations EXCEPT ![id] = l]
        /\ nft_owners' = [nft_owners EXCEPT ![id] = Contract]
        /\ UNCHANGED <<planets, arrivals, ship_counts, home_planets, claimed_ships,
                       spaceship_owners>>
    BY DEF FindArtifact, Standing, playerVars
  <1>3. found.is_initialized /\ ~found.burned
    BY DEF NewArtifact
  <1> HIDE DEF id, found
  <1>4. /\ \A k \in Planets \ {l}, i \in ArtifactSlots :
             planet_artifacts'[k][i] = planet_artifacts[k][i]
        /\ \A other \in ArtifactIds \ {id} : SamePlaces(World, World', other)
        /\ Somewhere(World', id)
        /\ ~Somewhere(World, id) => Tidy(World', id)
    BY <1>1, <1>2, PutEffect
  <1>5. planets[l].is_initialized
    BY <1>2, OwnedInitialized
  <1>6. /\ artifacts'[id] = found
        /\ \A other \in FoundIds \ {id} : /\ nft_owners'[other] = nft_owners[other]
                                          /\ artifacts'[other] = artifacts[other]
    BY <1>1, <1>2, IdsApart, PlaceTypes DEF PInv
  <1>7. KeptAt(id)'
    BY <1>4 DEF KeptAt
  <1>8. Orderly => OrderlyAt(id)'
    BY <1>1, <1>2, <1>3, <1>4, <1>6 DEF Orderly, OrderlyAt
  <1>9. Places' /\ (Orderly /\ OrderlyAt(id)' => Orderly')
    BY <1>1, <1>2, <1>4, <1>5, <1>6, <1>7, FoundStep
  <1> QED
    BY <1>8, <1>9 DEF PStep

\* Not on its way anywhere.
Adrift(id) == \A a \in ArrivalIds : ~CarriedBy(a, id)

\* The one step that may leave an artifact in two places: one that is on its way
\* is deposited.
LEMMA PDepositArtifact ==
  ASSUME PInv, NEW player \in Players, NEW l \in Planets, NEW id \in FoundIds,
         DepositArtifact(player, l, id)
  PROVE  Places' /\ (Orderly /\ Adrift(id) => Orderly')
  <1>1. id \in ArtifactIds
    BY IdsApart
  <1>2. /\ planets[l].owner = player
        /\ artifacts[id].is_initialized /\ ~artifacts[id].burned
        /\ artifact_locations[id] = Nowhere
        /\ Holds(planet_artifacts[l], NoArtifact)
        /\ planet_artifacts' = [planet_artifacts EXCEPT ![l] = Put(@, NoArtifact, id)]
        /\ artifact_locations' = [artifact_locations EXCEPT ![id] = l]
        /\ nft_owners' = [nft_owners EXCEPT ![id] = Contract]
        /\ UNCHANGED <<planets, arrivals, ship_counts, home_planets, claimed_ships,
                       artifacts, spaceship_owners>>
    BY DEF DepositArtifact, Tradable, Standing, playerVars
  <1>3. /\ \A k \in Planets \ {l}, i \in ArtifactSlots :
             planet_artifacts'[k][i] = planet_artifacts[k][i]
        /\ \A other \in ArtifactIds \ {id} : SamePlaces(World, World', other)
        /\ Somewhere(World', id)
        /\ ~Somewhere(World, id) => Tidy(World', id)
    BY <1>1, <1>2, PutEffect
  <1>4. planets[l].is_initialized
    BY <1>2, OwnedInitialized
  <1>5. \A other \in FoundIds \ {id} : nft_owners'[other] = nft_owners[other]
    BY <1>1, <1>2, IdsApart, PlaceTypes DEF PInv
  <1>6. KeptAt(id)'
    BY <1>3 DEF KeptAt
  <1>7. ASSUME Orderly, Adrift(id) PROVE OrderlyAt(id)'
    <2>1. Tidy(World, id)
      BY <1>7 DEF Orderly, OrderlyAt
    <2>2. \A k \in Planets, i \in ArtifactSlots : planet_artifacts[k][i] # id
      BY <1>2, <2>1, SentinelAssumption, WorldFields DEF Tidy
    <2>3. \A a \in ArrivalIds : ~Aboard(World, a, id)
      BY <1>7, WorldFields DEF Adrift, CarriedBy, Live, Aboard, Alive
    <2>4. ~Somewhere(World, id)
      BY <2>2, <2>3, WorldFields DEF Somewhere
    <2> QED
      BY <1>2, <1>3, <2>4 DEF OrderlyAt
  <1>8. Places' /\ (Orderly /\ OrderlyAt(id)' => Orderly')
    BY <1>2, <1>3, <1>4, <1>5, <1>6, FoundStep
  <1> QED
    BY <1>7, <1>8

LEMMA PWithdrawArtifact ==
  ASSUME PInv, NEW player \in Players, NEW l \in Planets, NEW id \in FoundIds,
         WithdrawArtifact(player, l, id)
  PROVE  PStep
  <1>1. id \in ArtifactIds
    BY IdsApart
  <1>2. /\ ~artifacts[id].burned
        /\ Holds(planet_artifacts[l], id)
        /\ planet_artifacts' =
             [planet_artifacts EXCEPT ![l] = Without(@, NoArtifact, id)]
        /\ artifact_locations' = [artifact_locations EXCEPT ![id] = Nowhere]
        /\ nft_owners' = [nft_owners EXCEPT ![id] = player]
        /\ UNCHANGED <<planets, arrivals, ship_counts, home_planets, claimed_ships,
                       artifacts, spaceship_owners>>
    BY DEF WithdrawArtifact, Tradable, playerVars
  <1>3. /\ \A k \in Planets, i \in ArtifactSlots :
             planet_artifacts[k][i] = NoArtifact => planet_artifacts'[k][i] = NoArtifact
        /\ \A other \in ArtifactIds \ {id} : SamePlaces(World, World', other)
        /\ artifact_locations'[id] = Nowhere
        /\ Tidy(World, id) /\ Holds(planet_artifacts[l], id) => ~Somewhere(World', id)
    BY <1>1, <1>2, TakeEffect
  <1>4. /\ nft_owners'[id] = player
        /\ \A other \in FoundIds \ {id} : nft_owners'[other] = nft_owners[other]
    BY <1>1, <1>2, IdsApart, PlaceTypes DEF PInv
  <1>5. KeptAt(id)'
    BY <1>4 DEF KeptAt
  <1>6. Orderly => OrderlyAt(id)'
    BY <1>2, <1>3, NowhereTidy DEF Orderly, OrderlyAt
  <1>7. Places' /\ (Orderly /\ OrderlyAt(id)' => Orderly')
    BY <1>2, <1>3, <1>4, <1>5, FoundStep
  <1> QED
    BY <1>6, <1>7 DEF PStep

\* An artifact is taken from its slot to be burned.
LEMMA BurnStep ==
  ASSUME PInv, NEW l \in Planets, NEW id \in FoundIds, NEW planet, NEW burned,
         Holds(planet_artifacts[l], id), burned.burned,
         planets' = [planets EXCEPT ![l] = planet],
         planet.is_home_planet = planets[l].is_home_planet,
         planet.is_initialized,
         planet_artifacts' =
           [planet_artifacts EXCEPT ![l] = Without(@, NoArtifact, id)],
         artifact_locations' = [artifact_locations EXCEPT ![id] = MaxLocation],
         artifacts' = [artifacts EXCEPT ![id] = burned],
         nft_owners' = [nft_owners EXCEPT ![id] = Contract],
         UNCHANGED <<arrivals, ship_counts, home_planets, claimed_ships,
                     spaceship_owners>>
  PROVE  PStep
  <1>1. id \in ArtifactIds
    BY IdsApart
  <1>2. /\ \A k \in Planets, i \in ArtifactSlots :
             planet_artifacts[k][i] = NoArtifact => planet_artifacts'[k][i] = NoArtifact
        /\ \A other \in ArtifactIds \ {id} : SamePlaces(World, World', other)
        /\ artifact_locations'[id] = MaxLocation
        /\ Tidy(World, id) /\ Holds(planet_artifacts[l], id) => ~Somewhere(World', id)
    BY <1>1, TakeEffect
  <1>3. \A k \in Planets : planets'[k] = IF k = l THEN planet ELSE planets[k]
    BY PlaceTypes DEF PInv
  <1>4. /\ artifacts'[id] = burned
        /\ \A other \in FoundIds \ {id} : /\ nft_owners'[other] = nft_owners[other]
                                          /\ artifacts'[other] = artifacts[other]
    BY <1>1, IdsApart, PlaceTypes DEF PInv
  <1>5. KeptAt(id)'
    BY <1>4 DEF KeptAt
  <1>6. Orderly => OrderlyAt(id)'
    BY <1>2, <1>4, NowhereTidy DEF Orderly, OrderlyAt
  <1>7. Places' /\ (Orderly /\ OrderlyAt(id)' => Orderly')
    BY <1>2, <1>3, <1>4, <1>5, FoundStep
  <1> QED
    BY <1>6, <1>7 DEF PStep

LEMMA PActivateArtifact ==
  ASSUME PInv, NEW player \in Players, NEW l \in Planets, NEW id \in FoundIds,
         NEW target \in Planets \cup {Nowhere},
         ActivateArtifact(player, l, id, target)
  PROVE  PStep
  <1> DEFINE artifact == artifacts[id]
             type     == artifact.artifact_type
             blooms   == type = "bloom_filter"
             burns    == blooms \/ type = "black_domain"
             filled   == IF blooms
                         THEN [planets[l] EXCEPT
                                 !.population = planets[l].population_cap,
                                 !.silver = planets[l].silver_cap]
                         ELSE planets[l]
             buff     == Buffs[type][artifact.rarity]
             buffed   == BuffPlanet(filled, buff)
             after    == [artifact EXCEPT
               !.last_activated   = block,
               !.last_deactivated = IF burns THEN block ELSE @,
               !.wormhole_to      = IF burns THEN Nowhere
                                    ELSE IF type = "wormhole" THEN target ELSE @,
               !.burned           = burns]
  <1>1. /\ planets' = [planets EXCEPT ![l] = buffed]
        /\ artifacts' = [artifacts EXCEPT ![id] = after]
        /\ planets[l].owner = player
        /\ artifact.is_initialized /\ ~artifact.burned
        /\ Holds(planet_artifacts[l], id)
        /\ IF burns
           THEN /\ planet_artifacts' =
                     [planet_artifacts EXCEPT ![l] = Without(@, NoArtifact, id)]
                /\ artifact_locations' = [artifact_locations EXCEPT ![id] = MaxLocation]
                /\ nft_owners' = [nft_owners EXCEPT ![id] = Contract]
           ELSE UNCHANGED <<planet_artifacts, artifact_locations, nft_owners>>
        /\ UNCHANGED <<arrivals, ship_counts, home_planets, claimed_ships,
                       spaceship_owners>>
    BY DEF ActivateArtifact, playerVars
  <1>2. /\ artifact \in Artifact /\ id \in ArtifactIds
        /\ type \in ArtifactTypes /\ artifact.rarity \in Rarities
    BY <1>1, IdsApart, PlaceTypes DEF PInv, QInv, TInv, ArtifactsKnown
  <1>3. /\ after.burned = burns
        /\ after.is_initialized = artifact.is_initialized
    BY <1>2 DEF Artifact
  <1>4. planets[l].is_initialized
    BY <1>1, OwnedInitialized
  <1>5. /\ filled \in Planet
        /\ filled.is_initialized = planets[l].is_initialized
        /\ filled.is_home_planet = planets[l].is_home_planet
    <2>1. planets[l] \in Planet
      BY PlaceTypes DEF PInv
    <2> QED
      BY <2>1 DEF Planet
  <1>6. buff \in BuffRecord
    BY <1>2, BuffsType
  <1> HIDE DEF filled, buff
  <1>7. SamePlace(filled, buffed)
    BY <1>5, <1>6, BuffKeeps
  <1>8. /\ buffed.is_initialized
        /\ buffed.is_home_planet = planets[l].is_home_planet
    BY <1>4, <1>5, <1>7 DEF SamePlace
  <1> HIDE DEF after, buffed
  <1>9. CASE burns
    <2>1. after.burned
      BY <1>3, <1>9
    <2> QED
      BY <1>1, <1>8, <1>9, <2>1, BurnStep
  <1>10. CASE ~burns
    <2>1. after.burned = FALSE
      BY <1>3, <1>10
    <2> HIDE DEF burns
    <2>2. \A other \in FoundIds :
            /\ artifacts'[other].is_initialized = artifacts[other].is_initialized
            /\ artifacts'[other].burned = artifacts[other].burned
      <3>1. \A other \in FoundIds :
              artifacts'[other] = IF other = id THEN after ELSE artifacts[other]
        BY <1>1, IdsApart, PlaceTypes DEF PInv
      <3>2. artifact.is_initialized \in BOOLEAN /\ artifact.burned \in BOOLEAN
        BY <1>2 DEF Artifact
      <3>3. after.is_initialized = artifact.is_initialized
        BY <1>3
      <3>4. after.burned = artifact.burned
        BY <1>1, <2>1, <3>2
      <3> QED
        BY <3>1, <3>3, <3>4
    <2> QED
      BY <1>1, <1>8, <1>10, <2>2, OnePlanetStep
  <1> QED
    BY <1>9, <1>10

LEMMA PDeactivateArtifact ==
  ASSUME PInv, NEW player \in Players, NEW l \in Planets,
         DeactivateArtifact(player, l)
  PROVE  PStep
  <1> DEFINE id       == ActiveIn(planet_artifacts[l])
             debuffed == Debuffed(planets[l], artifacts[id])
             after    == Deactivated(artifacts[id])
  <1>1. /\ id \in FoundIds /\ Holds(planet_artifacts[l], id)
        /\ artifacts[id].artifact_type \in ArtifactTypes
        /\ artifacts[id].rarity \in Rarities
    <2>1. id # NoArtifact
      BY DEF DeactivateArtifact
    <2> QED
      BY <2>1, QTyped, ActiveFound DEF PInv
  <1>2. /\ planets' = [planets EXCEPT ![l] = debuffed]
        /\ planets[l].owner = player
        /\ artifacts' = [artifacts EXCEPT ![id] = after]
        /\ IF Burns(artifacts[id])
           THEN /\ planet_artifacts' =
                     [planet_artifacts EXCEPT ![l] = Without(@, NoArtifact, id)]
                /\ artifact_locations' = [artifact_locations EXCEPT ![id] = MaxLocation]
                /\ nft_owners' = [nft_owners EXCEPT ![id] = Contract]
           ELSE UNCHANGED <<planet_artifacts, artifact_locations, nft_owners>>
        /\ UNCHANGED <<arrivals, ship_counts, home_planets, claimed_ships,
                       spaceship_owners>>
    BY DEF DeactivateArtifact, playerVars
  <1> HIDE DEF id
  <1>3. planets[l] \in Planet /\ artifacts[id] \in Artifact
    BY <1>1, IdsApart, PlaceTypes DEF PInv
  <1>4. planets[l].is_initialized
    BY <1>2, OwnedInitialized
  <1>5. SamePlace(planets[l], debuffed)
    BY <1>1, <1>3, DebuffedType
  <1>6. /\ debuffed.is_initialized
        /\ debuffed.is_home_planet = planets[l].is_home_planet
    BY <1>4, <1>5 DEF SamePlace
  <1>7. /\ after.is_initialized = artifacts[id].is_initialized
        /\ after.burned = (artifacts[id].burned \/ Burns(artifacts[id]))
    BY <1>3 DEF Deactivated, Artifact
  <1> HIDE DEF debuffed, after
  <1>8. CASE Burns(artifacts[id])
    BY <1>1, <1>2, <1>6, <1>7, <1>8, BurnStep
  <1>9. CASE ~Burns(artifacts[id])
    <2>1. after.burned = artifacts[id].burned
      <3>1. artifacts[id].burned \in BOOLEAN
        BY <1>3 DEF Artifact
      <3> QED
        BY <1>7, <1>9, <3>1
    <2>2. \A other \in FoundIds :
            artifacts'[other] = IF other = id THEN after ELSE artifacts[other]
      BY <1>2, IdsApart, PlaceTypes DEF PInv
    <2> QED
      BY <1>2, <1>6, <1>7, <1>9, <2>1, <2>2, OnePlanetStep
  <1> QED
    BY <1>8, <1>9

-----------------------------------------------------------------------------
(* Departures: w is the storage once both ends have landed what was due. *)

\* The arrival takes an id that no arrival has, and its cargo leaves the slots.
Sailed(w, from, arrival, slots) ==
    /\ \A k \in Planets, i \in ArtifactSlots :
         planet_artifacts'[k][i] =
           IF k # from THEN w.planet_artifacts[k][i]
           ELSE IF slots[i] = arrival.carried_artifact_id THEN NoArtifact
           ELSE slots[i]
    /\ next_arrival_id \in ArrivalIds /\ ~Alive(w, next_arrival_id)
    /\ \A a \in ArrivalIds :
         arrivals'[a] = IF a = next_arrival_id THEN arrival ELSE w.arrivals[a]
    /\ arrival.arrival_block # 0

\* Only the origin changes, and the destination that nobody had touched.
LeftAlone(w, from, origin) ==
    /\ planets'[from] = [origin EXCEPT !.last_updated = block]
    /\ \A k \in Planets \ {from} :
         \/ planets'[k] = w.planets[k]
         \/ ~w.planets[k].is_initialized /\ planets'[k] = NewPlanet(k, Zero, FALSE)

LEMMA DepartEffect ==
  ASSUME QInv, MayDepart, NEW w, GoodWorld(w), NEW from \in Planets,
         NEW to \in Planets, NEW origin \in Planet, NEW arrival \in Arrival,
         block < arrival.arrival_block,
         NEW slots \in [ArtifactSlots -> ArtifactIds \cup {NoArtifact}], NEW counts,
         Depart(w, from, to, origin, arrival, slots, counts)
  PROVE  /\ Sailed(w, from, arrival, slots) /\ LeftAlone(w, from, origin)
         /\ ship_counts' = counts
  <1> DEFINE left  == [origin EXCEPT !.last_updated = block]
             cargo == arrival.carried_artifact_id
             taken == CargoTaken(slots, cargo)
             there == WithDestination(w, to)
  <1>1. /\ w.planets \in [Planets -> Planet] /\ w.arrivals \in [ArrivalIds -> Arrival]
        /\ w.planet_artifacts \in
             [Planets -> [ArtifactSlots -> ArtifactIds \cup {NoArtifact}]]
        /\ TypedWorld(w) /\ Queued(w) /\ TInv
    BY TypedParts, QTyped DEF GoodWorld
  <1>2. /\ planets' = [there EXCEPT ![from] = left]
        /\ arrivals' = [w.arrivals EXCEPT ![next_arrival_id] = arrival]
        /\ planet_artifacts' = [w.planet_artifacts EXCEPT ![from] = taken]
        /\ ship_counts' = counts
    BY DEF Depart
  <1>3. /\ next_arrival_id \in ArrivalIds /\ next_arrival_id \in Nat
        /\ block \in Nat /\ arrival.arrival_block \in Nat
    BY <1>1 DEF MayDepart, TInv, TypeOK, Arrival
  <1>4. ~Alive(w, next_arrival_id) /\ arrival.arrival_block # 0
    BY <1>1, <1>3 DEF Queued
  <1>5. \A i \in ArtifactSlots :
          taken[i] = IF slots[i] = cargo THEN NoArtifact ELSE slots[i]
    BY DEF CargoTaken, Without
  <1>6. there \in [Planets -> Planet]
    BY <1>1, DestinationType
  <1>7. \A k \in Planets :
          \/ there[k] = w.planets[k]
          \/ ~w.planets[k].is_initialized /\ there[k] = NewPlanet(k, Zero, FALSE)
    BY <1>1 DEF WithDestination, Destination
  <1> HIDE DEF left, taken, there, cargo
  <1>8. \A k \in Planets : planets'[k] = IF k = from THEN left ELSE there[k]
    BY <1>2, <1>6
  <1>9. LeftAlone(w, from, origin)
    BY <1>7, <1>8 DEF LeftAlone, left
  <1>10. \A k \in Planets, i \in ArtifactSlots :
           planet_artifacts'[k][i] = IF k # from THEN w.planet_artifacts[k][i]
                                     ELSE taken[i]
    BY <1>1, <1>2
  <1>11. \A a \in ArrivalIds :
           arrivals'[a] = IF a = next_arrival_id THEN arrival ELSE w.arrivals[a]
    BY <1>1, <1>2
  <1>12. Sailed(w, from, arrival, slots)
    BY <1>3, <1>4, <1>5, <1>10, <1>11 DEF Sailed, cargo
  <1> QED
    BY <1>2, <1>9, <1>12

LEMMA SailedAboard ==
  ASSUME NEW w, NEW from, NEW arrival, NEW slots, Sailed(w, from, arrival, slots),
         NEW id
  PROVE  \A a \in ArrivalIds :
           Aboard(World', a, id) <=>
             IF a = next_arrival_id THEN arrival.carried_artifact_id = id
             ELSE Aboard(w, a, id)
  BY WorldFields DEF Sailed, Aboard, Alive

\* What is not on board stays where it is.
LEMMA SailedOthers ==
  ASSUME NEW w, NEW from \in Planets, NEW arrival, NEW slots,
         Sailed(w, from, arrival, slots),
         NEW id, id # NoArtifact, id # arrival.carried_artifact_id,
         \A i \in ArtifactSlots : slots[i] = id <=> w.planet_artifacts[from][i] = id,
         artifact_locations'[id] = w.artifact_locations[id]
  PROVE  SamePlaces(w, World', id)
  <1>1. \A k \in Planets, i \in ArtifactSlots :
          planet_artifacts'[k][i] = id <=> w.planet_artifacts[k][i] = id
    BY DEF Sailed
  <1>2. \A a \in ArrivalIds : Aboard(World', a, id) <=> Aboard(w, a, id)
    <2>1. ~Aboard(w, next_arrival_id, id)
      BY DEF Sailed, Aboard
    <2> QED
      BY <2>1, SailedAboard
  <1> QED
    BY <1>1, <1>2, WorldFields DEF SamePlaces

\* What is on board was in a slot of the origin, and is in none now.
LEMMA SailedCargo ==
  ASSUME NEW w, NEW from \in Planets, NEW arrival, NEW slots,
         Sailed(w, from, arrival, slots),
         NEW id \in ArtifactIds, id = arrival.carried_artifact_id,
         NEW i \in ArtifactSlots, w.planet_artifacts[from][i] = id, Tidy(w, id),
         artifact_locations'[id] = Nowhere
  PROVE  OnlyAboard(World', next_arrival_id, id)
  <1>1. id # NoArtifact
    BY SentinelsAssumption
  <1>2. \A k \in Planets, j \in ArtifactSlots :
          w.planet_artifacts[k][j] = id => k = from
    BY DEF Tidy
  <1>3. \A k \in Planets, j \in ArtifactSlots : planet_artifacts'[k][j] # id
    BY <1>1, <1>2 DEF Sailed
  <1>4. \A a \in ArrivalIds : ~Aboard(w, a, id)
    BY DEF Tidy
  <1>5. \A a \in ArrivalIds : Aboard(World', a, id) <=> a = next_arrival_id
    BY <1>4, SailedAboard
  <1> QED
    BY <1>3, <1>5, WorldFields DEF OnlyAboard

\* A planet that a departure writes is as much of a home as it was, and bare
\* planets stay bare.
LEMMA SailedBare ==
  ASSUME NEW w, w.planets \in [Planets -> Planet], NEW from \in Planets,
         NEW origin \in Planet, NEW arrival, NEW slots,
         Sailed(w, from, arrival, slots), LeftAlone(w, from, origin), Bare(w),
         origin.is_initialized,
         origin.is_home_planet = w.planets[from].is_home_planet
  PROVE  /\ Bare(World')
         /\ \A k \in Planets :
              planets'[k].is_home_planet = w.planets[k].is_home_planet
  <1>1. /\ planets'[from].is_initialized
        /\ planets'[from].is_home_planet = w.planets[from].is_home_planet
    BY DEF LeftAlone, Planet
  <1>2. \A k \in Planets : /\ NewPlanet(k, Zero, FALSE).is_initialized
                           /\ NewPlanet(k, Zero, FALSE).is_home_planet = FALSE
    BY DEF NewPlanet, DefaultPlanet
  <1>3. ASSUME NEW k \in Planets \ {from}
        PROVE  /\ planets'[k].is_home_planet = w.planets[k].is_home_planet
               /\ ~planets'[k].is_initialized => planets'[k] = w.planets[k]
    <2>1. CASE planets'[k] = w.planets[k]
      BY <2>1
    <2>2. CASE ~w.planets[k].is_initialized /\ planets'[k] = NewPlanet(k, Zero, FALSE)
      <3>1. ~w.planets[k].is_home_planet /\ w.planets[k].is_home_planet \in BOOLEAN
        BY <2>2 DEF Bare, Planet
      <3> QED
        BY <1>2, <2>2, <3>1
    <2> QED
      BY <2>1, <2>2 DEF LeftAlone
  <1>4. Bare(World')
    <2> SUFFICES ASSUME NEW k \in Planets, ~planets'[k].is_initialized
                 PROVE  /\ planets'[k].owner = Zero
                        /\ ~planets'[k].is_home_planet
                        /\ \A i \in ArtifactSlots :
                             planet_artifacts'[k][i] = NoArtifact
      BY WorldFields DEF Bare
    <2>1. k # from
      BY <1>1
    <2>2. planets'[k] = w.planets[k]
      BY <1>3, <2>1
    <2>3. \A i \in ArtifactSlots : planet_artifacts'[k][i] = w.planet_artifacts[k][i]
      BY <2>1 DEF Sailed
    <2> QED
      BY <2>2, <2>3 DEF Bare
  <1> QED
    BY <1>1, <1>3, <1>4

-----------------------------------------------------------------------------
(* A ship departs. *)

\* The counters of the origin give up the ship that leaves.
LEMMA UnmooredCounted ==
  ASSUME NEW w, w.ship_counts \in [Planets -> [EffectShips -> Nat]],
         NEW from \in Planets, NEW ship \in ShipIds, NEW s \in ArtifactSlots,
         w.planet_artifacts[from][s] = ship, Counted(w),
         \A k \in Planets, i \in ArtifactSlots :
           planet_artifacts'[k][i] = IF k = from /\ i = s THEN NoArtifact
                                     ELSE w.planet_artifacts[k][i],
         ship_counts' = CountsWithout(w, from, ship),
         \A k \in Planets : planets'[k].is_home_planet = w.planets[k].is_home_planet
  PROVE  Counted(World')
  <1> SUFFICES ASSUME NEW k \in Planets, NEW type \in EffectShips
               PROVE  ship_counts'[k][type] =
                        IF w.planets[k].is_home_planet THEN 0
                        ELSE Cardinality(ShipsIn(World', k, type))
    BY WorldFields DEF Counted
  <1> DEFINE before == ShipsIn(w, k, type)
             after  == ShipsIn(World', k, type)
  <1>1. w.ship_counts[k][type] = IF w.planets[k].is_home_planet THEN 0
                                 ELSE Cardinality(before)
    BY DEF Counted
  <1>2. NoArtifact \notin ShipIds
    BY SentinelsAssumption, IdsApart
  <1>3. CASE k = from /\ ship[2] = type
    <2>1. after = before \ {s} /\ s \in before
      BY <1>2, <1>3, WorldFields DEF ShipsIn
    <2>2. IsFiniteSet(before) /\ Cardinality(before) \in Nat
          /\ Cardinality(after) \in Nat
      BY ShipsInFinite
    <2>3. Cardinality(after) = Cardinality(before) - 1
      BY <2>1, <2>2, FS_RemoveElement
    <2>4. Affects(ship, w.planets[from]) <=> ~w.planets[k].is_home_planet
      BY <1>3 DEF Affects, IsShip
    <2>5. ship_counts'[k][type] =
            IF w.planets[k].is_home_planet THEN w.ship_counts[k][type]
            ELSE Greatest(0, w.ship_counts[k][type] - 1)
      BY <1>3, <2>4 DEF CountsWithout
    <2>6. Greatest(0, Cardinality(before) - 1) = Cardinality(after)
      <3> HIDE DEF before, after
      <3> QED
        BY <2>2, <2>3 DEF Greatest
    <2> HIDE DEF before, after
    <2> QED
      BY <1>1, <2>5, <2>6 DEF after
  <1>4. CASE ~(k = from /\ ship[2] = type)
    <2>1. after = before
      BY <1>2, <1>4, WorldFields DEF ShipsIn
    <2>2. ship_counts'[k][type] = w.ship_counts[k][type]
      <3>1. CASE Affects(ship, w.planets[from])
        <4>1. ship[2] \in EffectShips
          BY <3>1 DEF Affects
        <4> DEFINE t == ship[2]
                   less == Greatest(0, w.ship_counts[from][t] - 1)
        <4>2. ship_counts' = [w.ship_counts EXCEPT ![from][t] = less]
              /\ ~(k = from /\ t = type)
          BY <1>4, <3>1, <4>1 DEF CountsWithout
        <4> HIDE DEF t, less
        <4> QED
          BY <4>2
      <3>2. CASE ~Affects(ship, w.planets[from])
        BY <3>2 DEF CountsWithout
      <3> QED
        BY <3>1, <3>2
    <2> QED
      BY <1>1, <2>1, <2>2
  <1> QED
    BY <1>3, <1>4

LEMMA UnmooredKeeps ==
  ASSUME QInv, NEW w, GoodWorld(w), NEW from \in Planets, NEW ship \in ShipIds
  PROVE  LET origin == Unmoored(w, from, ship) IN
         /\ origin \in Planet
         /\ origin.owner = w.planets[from].owner
         /\ origin.is_initialized = w.planets[from].is_initialized
         /\ origin.is_home_planet = w.planets[from].is_home_planet
         /\ origin.population_cap = Origin(w, from).population_cap
         /\ origin.population = Origin(w, from).population
  <1> DEFINE count == w.ship_counts[from][ship[2]]
             fresh == Origin(w, from)
  <1>1. /\ TypedWorld(w) /\ TInv
    BY QTyped DEF GoodWorld
  <1>2. /\ fresh \in Planet /\ fresh.owner = w.planets[from].owner
        /\ fresh.is_home_planet = w.planets[from].is_home_planet
        /\ fresh.is_initialized = w.planets[from].is_initialized
    BY <1>1, OriginType
  <1> HIDE DEF fresh
  <1>3. CASE Affects(ship, w.planets[from])
    <2>1. count \in Nat
      BY <1>1, <1>3, TypedParts DEF Affects
    <2>2. SamePlace(fresh, Undocked(fresh, ship[2], count))
      BY <1>2, <2>1, UndockedKeeps
    <2>3. Unmoored(w, from, ship) = Undocked(fresh, ship[2], count)
      BY <1>3 DEF Unmoored, fresh
    <2>4. Undocked(fresh, ship[2], count).population_cap = fresh.population_cap
      BY <1>2 DEF Undocked, Planet
    <2> QED
      BY <1>2, <2>2, <2>3, <2>4 DEF SamePlace, fresh
  <1>4. CASE ~Affects(ship, w.planets[from])
    BY <1>2, <1>4 DEF Unmoored, fresh
  <1> QED
    BY <1>3, <1>4

LEMMA PSendShip ==
  ASSUME PInv, NEW player \in Players, NEW from \in Planets, NEW to \in Planets,
         NEW ship \in ShipIds, SendShip(player, from, to, ship)
  PROVE  PStep
  <1> DEFINE w      == Settled(from, to)
             origin == Unmoored(w, from, ship)
             counts == CountsWithout(w, from, ship)
             slots  == w.planet_artifacts[from]
             type   == IF ByWormhole(w, from, to) THEN "wormhole" ELSE "normal"
  <1>1. PICK time \in TravelTimes :
          Depart(w, from, to, origin,
                 Flight(Zero, from, to, 0, 0, ship, type, time), slots, counts)
    BY DEF SendShip
  <1> DEFINE arrival == Flight(Zero, from, to, 0, 0, ship, type, time)
  <1>2. /\ MayDepart /\ spaceship_owners[ship] = player
        /\ w.planets[from].is_initialized
        /\ Holds(w.planet_artifacts[from], ship)
        /\ artifact_locations' = [w.artifact_locations EXCEPT ![ship] = Nowhere]
        /\ UNCHANGED <<home_planets, claimed_ships, artifacts, spaceship_owners,
                       nft_owners>>
    BY DEF SendShip, playerVars, artifactVars
  <1>3. Lawful(World, w) /\ GoodWorld(w) /\ QInv /\ Places
    BY SettledLawful DEF PInv
  <1>4. type \in ArrivalTypes
    BY DEF ArrivalTypes
  <1> HIDE DEF w, type
  <1>5. /\ w.planets \in [Planets -> Planet]
        /\ w.planet_artifacts \in
             [Planets -> [ArtifactSlots -> ArtifactIds \cup {NoArtifact}]]
        /\ w.artifact_locations \in
             [ArtifactIds -> Planets \cup {Nowhere, MaxLocation}]
        /\ w.ship_counts \in [Planets -> [EffectShips -> Nat]]
        /\ slots \in [ArtifactSlots -> ArtifactIds \cup {NoArtifact}]
    BY <1>3, TypedParts DEF GoodWorld
  <1>6. /\ arrival \in Arrival /\ block < arrival.arrival_block
        /\ arrival.carried_artifact_id = ship
    <2>1. ship \in ArtifactIds \cup {NoArtifact}
      BY IdsApart
    <2>2. ArrivalBlock(time) \in Nat /\ block < ArrivalBlock(time)
      BY <1>2, <1>3, QTyped, ArrivesLater
    <2> QED
      BY <1>4, <2>1, <2>2 DEF Flight, Arrival, Addresses
  <1>7. /\ origin \in Planet /\ origin.is_initialized
        /\ origin.is_home_planet = w.planets[from].is_home_planet
    BY <1>2, <1>3, UnmooredKeeps
  <1> HIDE DEF origin, counts, arrival
  <1>8. /\ Sailed(w, from, arrival, slots) /\ LeftAlone(w, from, origin)
        /\ ship_counts' = counts
    BY <1>1, <1>2, <1>3, <1>5, <1>6, <1>7, DepartEffect DEF arrival
  <1>9. PICK s \in ArtifactSlots : w.planet_artifacts[from][s] = ship
    BY <1>2, <1>5 DEF Holds
  <1>10. ship \in ArtifactIds /\ ship # NoArtifact
    BY SentinelsAssumption, IdsApart
  <1>11. /\ Tidy(w, ship)
         /\ Carried(World, w) /\ Counted(w) /\ Bare(w)
    BY <1>3, <1>10 DEF Lawful, Carried, Places, ShipsKnown
  <1>12. /\ artifact_locations'[ship] = Nowhere
         /\ \A id \in ArtifactIds \ {ship} :
              artifact_locations'[id] = w.artifact_locations[id]
    BY <1>2, <1>5, <1>10
  <1>13. ASSUME NEW id \in ArtifactIds \ {ship} PROVE SamePlaces(w, World', id)
    <2>1. id # NoArtifact
      BY SentinelsAssumption
    <2> QED
      BY <1>6, <1>8, <1>12, <2>1, SailedOthers
  <1>14. OnlyAboard(World', next_arrival_id, ship)
    BY <1>6, <1>8, <1>9, <1>10, <1>11, <1>12, SailedCargo
  <1>15. Tidy(World', ship) /\ Somewhere(World', ship)
    BY <1>8, <1>14, OnlyAboardTidy DEF Sailed
  <1>16. /\ Bare(World')
         /\ \A k \in Planets :
              planets'[k].is_home_planet = w.planets[k].is_home_planet
    BY <1>5, <1>7, <1>8, <1>11, SailedBare
  <1>17. Counted(World')
    <2>1. \A k \in Planets, i \in ArtifactSlots :
            w.planet_artifacts[k][i] = ship => k = from /\ i = s
      BY <1>9, <1>11 DEF Tidy
    <2>2. \A k \in Planets, i \in ArtifactSlots :
            planet_artifacts'[k][i] = IF k = from /\ i = s THEN NoArtifact
                                      ELSE w.planet_artifacts[k][i]
      BY <1>6, <1>8, <1>9, <2>1 DEF Sailed
    <2> QED
      BY <1>5, <1>8, <1>9, <1>11, <1>16, <2>2, UnmooredCounted DEF counts
  <1>18. HomesKnown'
    BY <1>2, <1>3, <1>16, HomesStay, WorldFields DEF Places, Lawful
  <1>19. ShipsKnown'
    <2> SUFFICES ASSUME NEW id \in ShipIds
                 PROVE  /\ Tidy(World', id)
                        /\ Somewhere(World', id) <=> spaceship_owners[id] # Zero
      BY <1>2 DEF ShipsKnown
    <2>1. CASE id = ship
      BY <1>2, <1>15, <2>1, SentinelAssumption
    <2>2. CASE id # ship
      <3>1. SamePlaces(w, World', id) /\ id \in ArtifactIds
        BY <1>13, <2>2, IdsApart
      <3>2. /\ Tidy(World, id) => Tidy(World', id)
            /\ Somewhere(World', id) <=> Somewhere(World, id)
        BY <1>11, <3>1, SameTidy DEF Carried
      <3> QED
        BY <1>3, <3>2 DEF Places, ShipsKnown
    <2> QED
      BY <2>1, <2>2
  <1>20. FoundKept' /\ (Orderly => Orderly')
    <2>1. \A id \in FoundIds : SamePlaces(w, World', id)
      BY <1>13, IdsApart
    <2> QED
      BY <1>2, <1>3, <1>11, <2>1, FoundStay DEF Places, FoundKept, Orderly
  <1> QED
    BY <1>16, <1>17, <1>18, <1>19, <1>20 DEF PStep, Places

-----------------------------------------------------------------------------
(* Population caps. *)

\* Planets begin with a cap, and no artifact there is changes one.  So it is when
\* there are no Monoliths: upgrade_for_artifact gives 100 percent for every other
\* type of the model.
Neutral ==
    /\ \A l \in Planets, t \in PlanetTypes : DefaultStats[l][t].population_cap > 0
    /\ \A t \in ArtifactTypes, r \in Rarities : Buffs[t][r].population_cap = 100

\* Nothing has become uninhabitable.
Lively(planet, after) ==
    /\ after.is_initialized = planet.is_initialized
    /\ Neutral /\ planet.population_cap > 0 => after.population_cap > 0

LEMMA FullPercent == \A n \in Nat : (n * 100) \div 100 = n
  OBVIOUS

LEMMA MorePercent == \A n \in Nat : n > 0 => (n * 120) \div 100 > 0
  OBVIOUS

LEMMA NeutralCaps ==
  ASSUME NEW planet \in Planet, NEW t \in ArtifactTypes, NEW r \in Rarities
  PROVE  /\ Lively(planet, BuffPlanet(planet, Buffs[t][r]))
         /\ Lively(planet, DebuffPlanet(planet, Buffs[t][r]))
  <1> DEFINE buff == Buffs[t][r]
  <1>1. buff \in BuffRecord
    BY BuffsType
  <1>2. Neutral => buff.population_cap = 100
    BY DEF Neutral
  <1> HIDE DEF buff
  <1>3. /\ BuffPlanet(planet, buff).population_cap =
             (planet.population_cap * buff.population_cap) \div 100
        /\ DebuffPlanet(planet, buff).population_cap =
             (planet.population_cap * 100) \div buff.population_cap
    BY DEF BuffPlanet, DebuffPlanet, Planet
  <1>4. planet.population_cap \in Nat
    BY DEF Planet
  <1>5. /\ BuffPlanet(planet, buff).is_initialized = planet.is_initialized
        /\ DebuffPlanet(planet, buff).is_initialized = planet.is_initialized
    BY <1>1, BuffKeeps, DebuffKeeps DEF SamePlace
  <1>6. Neutral => /\ BuffPlanet(planet, buff).population_cap = planet.population_cap
                   /\ DebuffPlanet(planet, buff).population_cap = planet.population_cap
    BY <1>2, <1>3, <1>4, FullPercent
  <1> QED
    BY <1>5, <1>6 DEF Lively, buff

\* Refreshing a planet, too, leaves its cap as it is.
LEMMA OriginLively ==
  ASSUME TInv, NEW w, TypedWorld(w), NEW l \in Planets
  PROVE  /\ Lively(w.planets[l], Origin(w, l))
         /\ Manned(w.planets[l]) => Manned(Origin(w, l))
  <1>1. block \in Nat /\ w.planets[l] \in Planet /\ Pausers(w, l) \in Nat
    BY TypedParts DEF TInv, TypeOK
  <1>2. /\ Origin(w, l).population_cap = w.planets[l].population_cap
        /\ Manned(w.planets[l]) => Manned(Origin(w, l))
    BY <1>1, RefreshManned DEF Origin
  <1>3. Origin(w, l).is_initialized = w.planets[l].is_initialized
    BY OriginType
  <1> QED
    BY <1>2, <1>3 DEF Lively

-----------------------------------------------------------------------------
(* A fleet departs. *)

\* What a fleet leaves on its origin, w being as above.
FleetLeft(w, from, left, player, abandoning) ==
    /\ w.planets[from].is_initialized /\ w.planets[from].owner = player
    /\ left.is_initialized
    /\ left.is_home_planet = w.planets[from].is_home_planet
    /\ Lively(w.planets[from], left)
    /\ abandoning => /\ left.owner = Zero
                     /\ \A i \in Slots : w.planet_arrivals[from][i] = 0
    /\ ~abandoning => left.owner = player /\ left.population > 0

\* The silver an arrival carries is what is missing from its origin.
Laden(w, from, left, arrival, abandoning) ==
    \E pop, silver \in Nat :
      LET origin == OriginOfFleet(w, from)
          load   == Load(origin, pop, silver, abandoning)
      IN  /\ left = Left(origin, Origin(w, from), from, pop, silver, abandoning)
          /\ arrival.silver_moved = load.silver
          /\ load.silver <= origin.silver

LEMMA FleetEffect ==
  ASSUME QInv, NEW player \in Players, NEW from \in Planets, NEW to \in Planets,
         NEW abandoning \in BOOLEAN, SendFleet(player, from, to, abandoning)
  PROVE  LET w == Settled(from, to) IN
         /\ \E cargo \in Cargos(w, from), arrival \in Arrival, left \in Planet :
              /\ arrival.carried_artifact_id = cargo
              /\ Sailed(w, from, arrival, SlotsOfFleet(w, from))
              /\ LeftAlone(w, from, left)
              /\ FleetLeft(w, from, left, player, abandoning)
              /\ Laden(w, from, left, arrival, abandoning)
              /\ FireCannon(w, from, cargo)
         /\ ship_counts' = w.ship_counts
         /\ UNCHANGED <<home_planets, claimed_ships, spaceship_owners>>
  <1> DEFINE w      == Settled(from, to)
             fresh  == Origin(w, from)
             origin == OriginOfFleet(w, from)
             type   == ArrivalTypeOf(w, from, to)
             slots  == SlotsOfFleet(w, from)
  <1>1. PICK pop \in Shipments, silver \in Shipments, loss \in Losses,
             time \in TravelTimes, cargo \in Cargos(w, from) :
          FleetLeaves(w, player, from, to, pop, silver, loss, time, cargo, abandoning)
    BY DEF SendFleet
  <1> DEFINE load    == Load(origin, pop, silver, abandoning)
             left    == Left(origin, fresh, from, pop, silver, abandoning)
             arrival == Flight(player, from, to, load.pop - loss, load.silver,
                               cargo, type, time)
  <1>2. /\ MayDepart
        /\ UNCHANGED <<home_planets, claimed_ships, spaceship_owners>>
    BY DEF SendFleet
  <1>3. GoodWorld(w) /\ TypedWorld(w) /\ TInv
    BY SettledLawful, QTyped DEF GoodWorld
  <1> HIDE DEF w
  <1>4. /\ w.planets[from].is_initialized /\ fresh.owner = player
        /\ ~abandoning => CanSpare(fresh, pop, silver)
        /\ abandoning => \A i \in Slots : w.planet_arrivals[from][i] = 0
        /\ loss < load.pop
        /\ load.silver <= origin.silver
        /\ Depart(w, from, to, left, arrival, slots, w.ship_counts)
        /\ FireCannon(w, from, cargo)
    BY <1>1 DEF FleetLeaves
  <1>5. /\ fresh \in Planet /\ fresh.owner = w.planets[from].owner
        /\ fresh.is_initialized = w.planets[from].is_initialized
        /\ fresh.is_home_planet = w.planets[from].is_home_planet
    BY <1>3, OriginType
  <1>6. /\ origin \in Planet /\ origin.owner = player /\ origin.is_initialized
        /\ origin.is_home_planet = w.planets[from].is_home_planet
        /\ Lively(w.planets[from], origin)
    <2>1. CASE Firing(w, from)
      <3> DEFINE cannon == ActiveIn(w.planet_artifacts[from])
      <3>1. w.planets[from] \in Planet
        BY <1>3, TypedParts
      <3>2. SamePlace(w.planets[from], Debuffed(w.planets[from], artifacts[cannon]))
        BY <1>3, <2>1, <3>1, FiringType, DebuffedType
      <3>3. Lively(w.planets[from], Debuffed(w.planets[from], artifacts[cannon]))
        BY <1>3, <2>1, <3>1, FiringType, NeutralCaps DEF Debuffed
      <3> QED
        BY <1>4, <1>5, <2>1, <3>2, <3>3 DEF OriginOfFleet, SamePlace
    <2>2. CASE ~Firing(w, from)
      BY <1>3, <1>4, <1>5, <2>2, OriginLively DEF OriginOfFleet
    <2> QED
      BY <2>1, <2>2
  <1>7. pop \in Nat /\ silver \in Nat /\ loss \in Nat
    BY InputAssumption
  <1> HIDE DEF fresh, origin
  <1>8. load \in [pop : Nat, silver : Nat]
    BY <1>6, <1>7, LoadType
  <1>9. left \in Planet /\ FleetLeft(w, from, left, player, abandoning)
    <2>1. ~abandoning => pop < fresh.population /\ silver <= origin.silver
      BY <1>4 DEF CanSpare, Load
    <2>2. left \in Planet
      BY <1>5, <1>6, <1>7, <2>1, LeftType
    <2>3. /\ left.is_initialized = origin.is_initialized
          /\ left.is_home_planet = origin.is_home_planet
          /\ left.population_cap = origin.population_cap
          /\ left.owner = IF abandoning THEN Zero ELSE origin.owner
          /\ ~abandoning => left.population = fresh.population - pop
      BY <1>6 DEF Left, Planet
    <2>4. ~abandoning => left.population > 0
      <3>1. fresh.population \in Nat
        BY <1>5 DEF Planet
      <3> HIDE DEF left
      <3> QED
        BY <1>7, <2>1, <2>3, <3>1
    <2> HIDE DEF left
    <2> QED
      BY <1>4, <1>5, <1>6, <2>2, <2>3, <2>4 DEF FleetLeft, Lively
  <1>10. /\ arrival \in Arrival /\ block < arrival.arrival_block
         /\ arrival.carried_artifact_id = cargo
    <2>1. load.pop - loss \in Nat /\ load.silver \in Nat
      BY <1>4, <1>7, <1>8
    <2>2. type \in ArrivalTypes /\ cargo \in ArtifactIds \cup {NoArtifact}
      BY IdsApart DEF ArrivalTypeOf, ArrivalTypes, Cargos
    <2>3. ArrivalBlock(time) \in Nat /\ block < ArrivalBlock(time)
      BY <1>2, <1>3, ArrivesLater
    <2> HIDE DEF load, type
    <2> QED
      BY <2>1, <2>2, <2>3 DEF Flight, Arrival, Addresses
  <1>11. slots \in [ArtifactSlots -> ArtifactIds \cup {NoArtifact}]
    <2>1. w.planet_artifacts[from] \in
            [ArtifactSlots -> ArtifactIds \cup {NoArtifact}]
      BY <1>3, TypedParts
    <2> QED
      BY <2>1, WithoutKeeps DEF SlotsOfFleet
  <1>12. Laden(w, from, left, arrival, abandoning)
    <2>1. arrival.silver_moved = load.silver
      BY DEF Flight
    <2> HIDE DEF arrival
    <2> QED
      BY <1>4, <1>7, <2>1 DEF Laden, fresh, origin
  <1> HIDE DEF left, arrival, slots
  <1>13. /\ Sailed(w, from, arrival, slots) /\ LeftAlone(w, from, left)
         /\ ship_counts' = w.ship_counts
    BY <1>2, <1>3, <1>4, <1>9, <1>10, <1>11, DepartEffect
  <1> QED
    BY <1>2, <1>4, <1>9, <1>10, <1>12, <1>13 DEF w, slots

\* The cannon that fires is not the cargo, and is burned; whatever else is on the
\* origin stays.
LEMMA FireEffect ==
  ASSUME QInv, NEW w, GoodWorld(w), NEW from \in Planets, NEW cargo \in Cargos(w, from),
         FireCannon(w, from, cargo)
  PROVE  LET cannon == ActiveIn(w.planet_artifacts[from]) IN
         /\ Firing(w, from) =>
              /\ cannon \in FoundIds /\ cannon # cargo
              /\ \E i \in ArtifactSlots : w.planet_artifacts[from][i] = cannon
              /\ \A i \in ArtifactSlots : SlotsOfFleet(w, from)[i] # cannon
              /\ artifacts'[cannon].burned /\ artifact_locations'[cannon] = MaxLocation
         /\ cargo # NoArtifact => artifact_locations'[cargo] = Nowhere
         /\ \A id \in ArtifactIds : ~(Firing(w, from) /\ id = cannon) =>
              /\ artifacts'[id] = artifacts[id] /\ nft_owners'[id] = nft_owners[id]
              /\ id # cargo => artifact_locations'[id] = w.artifact_locations[id]
              /\ \A i \in ArtifactSlots :
                   SlotsOfFleet(w, from)[i] = id <=> w.planet_artifacts[from][i] = id
  <1> DEFINE cannon   == ActiveIn(w.planet_artifacts[from])
             location == IF cargo = NoArtifact THEN w.artifact_locations
                         ELSE [w.artifact_locations EXCEPT ![cargo] = Nowhere]
             after    == Deactivated(artifacts[cannon])
             slots    == w.planet_artifacts[from]
  <1>1. TInv /\ TypedWorld(w)
    BY QTyped DEF GoodWorld
  <1>2. /\ slots \in [ArtifactSlots -> ArtifactIds \cup {NoArtifact}]
        /\ location \in [ArtifactIds -> Planets \cup {Nowhere, MaxLocation}]
        /\ \A id \in ArtifactIds \ {cargo} : location[id] = w.artifact_locations[id]
        /\ cargo # NoArtifact => location[cargo] = Nowhere
    <2>1. cargo # NoArtifact => cargo \in ArtifactIds
      BY IdsApart DEF Cargos
    <2> QED
      BY <1>1, <2>1, TypedParts
  <1>3. NoArtifact \notin ArtifactIds
    BY SentinelsAssumption
  <1>4. CASE ~Firing(w, from)
    <2>1. /\ artifact_locations' = location /\ UNCHANGED <<artifacts, nft_owners>>
          /\ SlotsOfFleet(w, from) = slots
      BY <1>4 DEF FireCannon, SlotsOfFleet
    <2> QED
      BY <1>2, <1>4, <2>1
  <1>5. CASE Firing(w, from)
    <2>1. /\ cannon \in FoundIds /\ IsActive(artifacts[cannon])
          /\ Holds(slots, cannon)
          /\ artifacts[cannon].artifact_type = "photoid_cannon"
      BY <1>1, <1>2, <1>5, ActiveFound DEF Firing
    <2>2. cannon # cargo
      BY <1>3, <2>1, IdsApart DEF Cargos
    <2>3. after.burned
      <3>1. artifacts[cannon] \in Artifact
        BY <2>1, IdsApart, PlaceTypes
      <3> QED
        BY <2>1, <3>1 DEF Deactivated, Burns, Artifact
    <2>4. /\ artifacts' = [artifacts EXCEPT ![cannon] = after]
          /\ nft_owners' = [nft_owners EXCEPT ![cannon] = Contract]
          /\ artifact_locations' = [location EXCEPT ![cannon] = MaxLocation]
          /\ SlotsOfFleet(w, from) = Without(slots, NoArtifact, cannon)
      BY <1>5 DEF FireCannon, SlotsOfFleet
    <2> HIDE DEF cannon, location, after, slots
    <2>5. /\ artifacts'[cannon] = after /\ artifact_locations'[cannon] = MaxLocation
          /\ cargo # NoArtifact => artifact_locations'[cargo] = Nowhere
      <3>1. cargo # NoArtifact => cargo \in ArtifactIds
        BY IdsApart DEF Cargos
      <3> QED
        BY <1>2, <2>1, <2>2, <2>4, <3>1, IdsApart, PlaceTypes
    <2>6. \A i \in ArtifactSlots :
            SlotsOfFleet(w, from)[i] = IF slots[i] = cannon THEN NoArtifact
                                       ELSE slots[i]
      BY <1>2, <2>4 DEF Without
    <2>7. \E i \in ArtifactSlots : slots[i] = cannon
      BY <1>2, <2>1 DEF Holds
    <2>8. ASSUME NEW id \in ArtifactIds, id # cannon
          PROVE  /\ artifacts'[id] = artifacts[id] /\ nft_owners'[id] = nft_owners[id]
                 /\ id # cargo => artifact_locations'[id] = w.artifact_locations[id]
                 /\ \A i \in ArtifactSlots :
                      SlotsOfFleet(w, from)[i] = id <=> slots[i] = id
      BY <1>2, <1>3, <2>4, <2>6, <2>8, PlaceTypes
    <2> QED
      BY <1>3, <1>5, <2>1, <2>2, <2>3, <2>5, <2>6, <2>7, <2>8, IdsApart
         DEF cannon, slots
  <1> QED
    BY <1>4, <1>5

LEMMA PSendFleet ==
  ASSUME PInv, NEW player \in Players, NEW from \in Planets, NEW to \in Planets,
         NEW abandoning \in BOOLEAN, SendFleet(player, from, to, abandoning)
  PROVE  PStep
  <1> DEFINE w      == Settled(from, to)
             cannon == ActiveIn(w.planet_artifacts[from])
             slots  == SlotsOfFleet(w, from)
             fires  == Firing(w, from)
  <1>1. Lawful(World, w) /\ GoodWorld(w) /\ QInv /\ Places
    BY SettledLawful DEF PInv
  <1>2. PICK cargo \in Cargos(w, from), arrival \in Arrival, left \in Planet :
          /\ arrival.carried_artifact_id = cargo
          /\ Sailed(w, from, arrival, slots)
          /\ LeftAlone(w, from, left)
          /\ FleetLeft(w, from, left, player, abandoning)
          /\ FireCannon(w, from, cargo)
    BY <1>1, FleetEffect
  <1>3. /\ ship_counts' = w.ship_counts
        /\ UNCHANGED <<home_planets, claimed_ships, spaceship_owners>>
    BY <1>1, FleetEffect
  <1> HIDE DEF w
  <1>4. /\ w.planets \in [Planets -> Planet]
        /\ w.planet_artifacts \in
             [Planets -> [ArtifactSlots -> ArtifactIds \cup {NoArtifact}]]
    BY <1>1, TypedParts DEF GoodWorld
  <1>5. /\ fires =>
             /\ cannon \in FoundIds /\ cannon # cargo
             /\ \E i \in ArtifactSlots : w.planet_artifacts[from][i] = cannon
             /\ \A i \in ArtifactSlots : slots[i] # cannon
             /\ artifacts'[cannon].burned /\ artifact_locations'[cannon] = MaxLocation
        /\ cargo # NoArtifact => artifact_locations'[cargo] = Nowhere
        /\ \A id \in ArtifactIds : ~(fires /\ id = cannon) =>
             /\ artifacts'[id] = artifacts[id] /\ nft_owners'[id] = nft_owners[id]
             /\ id # cargo => artifact_locations'[id] = w.artifact_locations[id]
             /\ \A i \in ArtifactSlots :
                  slots[i] = id <=> w.planet_artifacts[from][i] = id
    BY <1>1, <1>2, FireEffect
  <1> HIDE DEF cannon, slots, fires
  <1>6. NoArtifact \notin ArtifactIds /\ FoundIds \subseteq ArtifactIds
        /\ ShipIds \subseteq ArtifactIds /\ FoundIds \cap ShipIds = {}
    BY SentinelsAssumption, IdsApart
  <1>7. Carried(World, w) /\ Counted(w) /\ Bare(w)
    BY <1>1 DEF Lawful, Places
  <1>8. ASSUME NEW id \in ArtifactIds, id # cargo, ~(fires /\ id = cannon)
        PROVE  SamePlaces(w, World', id)
    BY <1>2, <1>5, <1>6, <1>8, SailedOthers
  <1>9. \A id \in ShipIds : SamePlaces(w, World', id)
    <2>1. \A id \in ShipIds : id # cargo /\ ~(fires /\ id = cannon)
      BY <1>5, <1>6 DEF Cargos
    <2> QED
      BY <1>6, <1>8, <2>1
  <1>10. /\ Bare(World')
         /\ \A k \in Planets :
              planets'[k].is_home_planet = w.planets[k].is_home_planet
    BY <1>2, <1>4, <1>7, SailedBare DEF FleetLeft
  <1>11. Counted(World')
    BY <1>3, <1>7, <1>9, <1>10, CountedStay
  <1>12. HomesKnown'
    BY <1>1, <1>3, <1>10, HomesStay, WorldFields DEF Places, Lawful
  <1>13. ShipsKnown'
    BY <1>1, <1>3, <1>7, <1>9, ShipsStay DEF Places
  <1>14. ASSUME NEW id \in FoundIds
         PROVE  KeptAt(id)' /\ (Orderly => OrderlyAt(id)')
    <2>1. CASE id # cargo /\ ~(fires /\ id = cannon)
      <3>1. SamePlaces(w, World', id) /\ artifacts'[id] = artifacts[id]
            /\ nft_owners'[id] = nft_owners[id]
        BY <1>5, <1>6, <1>8, <2>1
      <3>2. KeptAt(id)' /\ (OrderlyAt(id) => OrderlyAt(id)')
        BY <1>1, <1>7, <3>1, FoundStay DEF Places, FoundKept
      <3> QED
        BY <3>2 DEF Orderly
    <2>2. CASE id = cargo
      <3>1. /\ artifacts'[id] = artifacts[id] /\ artifact_locations'[id] = Nowhere
            /\ id \in ArtifactIds /\ id # NoArtifact
        BY <1>5, <1>6, <2>2
      <3>2. PICK i \in ArtifactSlots : w.planet_artifacts[from][i] = id
        BY <1>4, <1>6, <2>2 DEF Cargos, Holds
      <3>3. next_arrival_id \in ArrivalIds /\ Aboard(World', next_arrival_id, id)
        <4>1. next_arrival_id \in ArrivalIds
          BY <1>2 DEF Sailed
        <4>2. \A a \in ArrivalIds :
                Aboard(World', a, id) <=>
                  IF a = next_arrival_id THEN arrival.carried_artifact_id = id
                  ELSE Aboard(w, a, id)
          BY <1>2, SailedAboard
        <4> QED
          BY <1>2, <2>2, <4>1, <4>2
      <3>4. Somewhere(World', id)
        BY <3>3 DEF Somewhere
      <3>5. Somewhere(World, id)
        BY <1>7, <3>1, <3>2 DEF Carried, Somewhere
      <3>6. ASSUME Orderly PROVE OrderlyAt(id)'
        <4>1. Tidy(w, id) /\ artifacts[id].is_initialized /\ ~artifacts[id].burned
          BY <1>7, <3>1, <3>5, <3>6 DEF Carried, Orderly, OrderlyAt
        <4>2. OnlyAboard(World', next_arrival_id, id)
          BY <1>2, <2>2, <3>1, <3>2, <4>1, SailedCargo
        <4>3. Tidy(World', id)
          BY <3>3, <4>2, OnlyAboardTidy
        <4> QED
          BY <3>1, <4>1, <4>3 DEF OrderlyAt
      <3>7. KeptAt(id)'
        BY <3>4 DEF KeptAt
      <3> QED
        BY <3>6, <3>7
    <2>3. CASE fires /\ id = cannon
      <3>1. KeptAt(id)'
        BY <1>5, <2>3 DEF KeptAt
      <3>2. ASSUME Orderly PROVE OrderlyAt(id)'
        <4>1. Tidy(w, id)
          BY <1>6, <1>7, <3>2 DEF Carried, Orderly, OrderlyAt
        <4>2. PICK i \in ArtifactSlots : w.planet_artifacts[from][i] = id
          BY <1>5, <2>3
        <4>3. \A k \in Planets, j \in ArtifactSlots : planet_artifacts'[k][j] # id
          <5>1. \A k \in Planets, j \in ArtifactSlots :
                  w.planet_artifacts[k][j] = id => k = from
            BY <4>1, <4>2 DEF Tidy
          <5>2. id # NoArtifact
            BY <1>6
          <5> QED
            BY <1>2, <1>5, <2>3, <5>1, <5>2 DEF Sailed
        <4>4. \A a \in ArrivalIds : ~Aboard(World', a, id)
          <5>1. \A a \in ArrivalIds : ~Aboard(w, a, id)
            BY <4>1, <4>2 DEF Tidy
          <5> QED
            BY <1>2, <1>5, <2>3, <5>1, SailedAboard
        <4>5. ~Somewhere(World', id)
          BY <4>3, <4>4, WorldFields DEF Somewhere
        <4> QED
          BY <1>5, <2>3, <4>5, NowhereTidy DEF OrderlyAt
      <3> QED
        BY <3>1, <3>2
    <2> QED
      BY <2>1, <2>2, <2>3
  <1>15. FoundKept' /\ (Orderly => Orderly')
    BY <1>14 DEF FoundKept, Orderly
  <1> QED
    BY <1>10, <1>11, <1>12, <1>13, <1>15 DEF PStep, Places

-----------------------------------------------------------------------------
(* Ships are given. *)

Free(slots) == {i \in ArtifactSlots : slots[i] = NoArtifact}

\* The ships of the given types have each taken one free slot of `slots`, and
\* there is room for those still to come.
Boarded(l, slots, new, types) ==
    /\ new \in [ArtifactSlots -> ArtifactIds \cup {NoArtifact}]
    /\ Cardinality(Free(new)) >= Cardinality(ShipTypes \ types)
    /\ \A i \in ArtifactSlots :
         new[i] # slots[i] => /\ slots[i] = NoArtifact
                              /\ \E t \in ShipTypes \cap types : new[i] = <<l, t>>
    /\ \A t \in ShipTypes \cap types :
         \E s \in ArtifactSlots :
           \A i \in ArtifactSlots : new[i] = <<l, t>> <=> i = s

LEMMA FreeFinite ==
  ASSUME NEW slots
  PROVE  IsFiniteSet(Free(slots)) /\ Cardinality(Free(slots)) \in Nat
  <1>1. 1 \in Int /\ MAX_PLANET_ARTIFACTS \in Int
    BY LimitAssumption
  <1>2. IsFiniteSet(ArtifactSlots)
    BY <1>1, FS_Interval DEF ArtifactSlots
  <1>3. Free(slots) \subseteq ArtifactSlots
    BY DEF Free
  <1>4. IsFiniteSet(Free(slots))
    BY <1>2, <1>3, FS_Subset
  <1> QED
    BY <1>4, FS_CardinalityType

LEMMA ShipTypesFinite ==
  ASSUME NEW types
  PROVE  /\ IsFiniteSet(ShipTypes \ types)
         /\ Cardinality(ShipTypes \ types) \in Nat
  <1> DEFINE five == {"mothership", "whale", "titan", "crescent", "gear"}
  <1>1. IsFiniteSet(five)
    <2>1. IsFiniteSet({})
      BY FS_EmptySet
    <2>2. IsFiniteSet({} \cup {"mothership"})
      BY <2>1, FS_AddElement
    <2>3. IsFiniteSet(({} \cup {"mothership"}) \cup {"whale"})
      BY <2>2, FS_AddElement
    <2>4. IsFiniteSet((({} \cup {"mothership"}) \cup {"whale"}) \cup {"titan"})
      BY <2>3, FS_AddElement
    <2>5. IsFiniteSet(((({} \cup {"mothership"}) \cup {"whale"}) \cup {"titan"})
                        \cup {"crescent"})
      BY <2>4, FS_AddElement
    <2>6. IsFiniteSet((((({} \cup {"mothership"}) \cup {"whale"}) \cup {"titan"})
                        \cup {"crescent"}) \cup {"gear"})
      BY <2>5, FS_AddElement
    <2>7. five = ((((({} \cup {"mothership"}) \cup {"whale"}) \cup {"titan"})
                        \cup {"crescent"}) \cup {"gear"})
      OBVIOUS
    <2> HIDE DEF five
    <2> QED
      BY <2>6, <2>7
  <1>2. ShipTypes \ types \subseteq five
    BY ArtifactAssumption DEF EffectShips
  <1> HIDE DEF five
  <1>3. IsFiniteSet(ShipTypes \ types)
    BY <1>1, <1>2, FS_Subset
  <1> QED
    BY <1>3, FS_CardinalityType

LEMMA WithShipBoards ==
  ASSUME NEW l \in Planets,
         NEW slots \in [ArtifactSlots -> ArtifactIds \cup {NoArtifact}],
         NEW new, NEW types, Boarded(l, slots, new, types),
         NEW type, type \notin types,
         type \in ShipTypes => \A i \in ArtifactSlots : slots[i] # <<l, type>>
  PROVE  Boarded(l, slots, WithShip(new, l, type), types \cup {type})
  <1> DEFINE ship  == <<l, type>>
             after == WithShip(new, l, type)
             later == types \cup {type}
  <1>1. CASE type \notin ShipTypes
    <2>1. after = new /\ ShipTypes \ later = ShipTypes \ types
          /\ ShipTypes \cap later = ShipTypes \cap types
      BY <1>1 DEF WithShip
    <2> HIDE DEF after, later
    <2>2. Cardinality(ShipTypes \ later) = Cardinality(ShipTypes \ types)
      BY <2>1, Zenon
    <2>3. Boarded(l, slots, new, types)
      OBVIOUS
    <2>4. /\ after \in [ArtifactSlots -> ArtifactIds \cup {NoArtifact}]
          /\ Cardinality(Free(after)) >= Cardinality(ShipTypes \ later)
      BY <2>1, <2>2, <2>3, Zenon DEF Boarded
    <2>5. \A i \in ArtifactSlots :
            after[i] # slots[i] => /\ slots[i] = NoArtifact
                                   /\ \E t \in ShipTypes \cap later :
                                        after[i] = <<l, t>>
      BY <2>1, <2>3, Zenon DEF Boarded
    <2>6. ASSUME NEW t \in ShipTypes \cap later
          PROVE  \E s \in ArtifactSlots :
                   \A i \in ArtifactSlots : after[i] = <<l, t>> <=> i = s
      <3>1. t \in ShipTypes \cap types
        BY <2>1
      <3>2. after = new
        BY <2>1
      <3>3. \E s \in ArtifactSlots :
              \A i \in ArtifactSlots : new[i] = <<l, t>> <=> i = s
        BY <3>1 DEF Boarded
      <3> QED
        BY <3>2, <3>3
    <2>7. Boarded(l, slots, after, later)
      BY <2>4, <2>5, <2>6, Zenon DEF Boarded
    <2> QED
      BY <2>7 DEF after, later
  <1>2. CASE type \in ShipTypes
    <2>1. ship \in ArtifactIds /\ NoArtifact \notin ArtifactIds
      BY <1>2, SentinelsAssumption DEF ShipIds, ArtifactIds
    <2> DEFINE toCome == ShipTypes \ types
               toStay == ShipTypes \ later
               before == Free(new)
               left   == Free(after)
    <2>2. /\ Cardinality(toCome) \in Nat /\ Cardinality(toStay) \in Nat
          /\ Cardinality(toCome) = Cardinality(toStay) + 1
      <3>1. IsFiniteSet(toCome) /\ type \in toCome
            /\ Cardinality(toCome) \in Nat /\ Cardinality(toStay) \in Nat
        BY <1>2, ShipTypesFinite
      <3>2. toCome \ {type} = toStay
        OBVIOUS
      <3> HIDE DEF toCome, toStay
      <3>3. Cardinality(toCome \ {type}) = Cardinality(toCome) - 1
        BY <3>1, FS_RemoveElement
      <3>4. Cardinality(toStay) = Cardinality(toCome) - 1
        BY <3>2, <3>3
      <3> QED
        BY <3>1, <3>4
    <2> HIDE DEF after
    <2>3. Holds(new, NoArtifact)
      <3>1. Cardinality(before) >= 1
        <4>1. Cardinality(before) \in Nat /\ Cardinality(before) >= Cardinality(toCome)
          BY FreeFinite DEF Boarded
        <4> HIDE DEF before, toCome, toStay
        <4> QED
          BY <2>2, <4>1
      <3>2. Free(new) # {}
        BY <3>1, FS_EmptySet
      <3> QED
        BY <3>2 DEF Free, Holds, Boarded
    <2>4. PICK s \in ArtifactSlots :
            new[s] = NoArtifact /\ after = [new EXCEPT ![s] = ship]
      <3>1. new \in [ArtifactSlots -> ArtifactIds \cup {NoArtifact}]
        BY DEF Boarded
      <3>2. after = Put(new, NoArtifact, ship)
        BY <1>2 DEF WithShip, after
      <3> HIDE DEF ship
      <3> QED
        BY <2>1, <2>3, <3>1, <3>2, PutSlot
    <2>5. \A i \in ArtifactSlots : new[i] # ship
      BY <1>2 DEF Boarded
    <2> HIDE DEF after, ship
    <2>6. after \in [ArtifactSlots -> ArtifactIds \cup {NoArtifact}]
      BY <2>1, <2>4 DEF Boarded
    <2>7. \A i \in ArtifactSlots : after[i] = IF i = s THEN ship ELSE new[i]
      BY <2>4 DEF Boarded
    <2>8. Cardinality(Free(after)) >= Cardinality(ShipTypes \ later)
      <3>1. Free(after) = Free(new) \ {s} /\ s \in Free(new)
        BY <2>1, <2>4, <2>7 DEF Free
      <3>2. Cardinality(left) = Cardinality(before) - 1
        BY <3>1, FreeFinite, FS_RemoveElement
      <3>3. /\ Cardinality(before) >= Cardinality(toCome)
            /\ Cardinality(before) \in Nat /\ Cardinality(left) \in Nat
        BY FreeFinite DEF Boarded
      <3>4. Cardinality(left) >= Cardinality(toStay)
        <4> HIDE DEF before, left, toCome, toStay
        <4> QED
          BY <2>2, <3>2, <3>3
      <3> QED
        BY <3>4
    <2>9. ASSUME NEW i \in ArtifactSlots, after[i] # slots[i]
          PROVE  /\ slots[i] = NoArtifact
                 /\ \E t \in ShipTypes \cap later : after[i] = <<l, t>>
      <3>1. CASE i = s
        <4>1. slots[i] = NoArtifact
          <5>1. CASE new[i] = slots[i]
            BY <2>4, <3>1, <5>1
          <5>2. CASE new[i] # slots[i]
            BY <5>2 DEF Boarded
          <5> QED
            BY <5>1, <5>2
        <4> QED
          BY <1>2, <2>7, <3>1, <4>1 DEF ship
      <3>2. CASE i # s
        BY <2>7, <2>9, <3>2 DEF Boarded
      <3> QED
        BY <3>1, <3>2
    <2>10. ASSUME NEW t \in ShipTypes \cap later
           PROVE  \E k \in ArtifactSlots :
                    \A i \in ArtifactSlots : after[i] = <<l, t>> <=> i = k
      <3>1. CASE t = type
        <4>1. \A i \in ArtifactSlots : after[i] = ship <=> i = s
          BY <2>5, <2>7
        <4> QED
          BY <3>1, <4>1 DEF ship
      <3>2. CASE t # type
        <4>1. PICK k \in ArtifactSlots :
                \A i \in ArtifactSlots : new[i] = <<l, t>> <=> i = k
          BY <3>2 DEF Boarded
        <4>2. ship # <<l, t>> /\ NoArtifact # <<l, t>>
          <5>1. <<l, t>> \in ArtifactIds
            BY DEF ShipIds, ArtifactIds
          <5> QED
            BY <2>1, <3>2, <5>1 DEF ship
        <4>3. \A i \in ArtifactSlots : after[i] = <<l, t>> <=> i = k
          BY <2>4, <2>7, <4>1, <4>2
        <4> QED
          BY <4>3
      <3> QED
        BY <3>1, <3>2
    <2> HIDE DEF later
    <2>11. Boarded(l, slots, after, later)
      BY <2>6, <2>8, <2>9, <2>10 DEF Boarded
    <2> QED
      BY <2>11 DEF after, later
  <1> QED
    BY <1>1, <1>2

\* The five ships of a claim, and nothing else, come into slots of the planet.
LEMMA FleetBoards ==
  ASSUME NEW l \in Planets,
         NEW slots \in [ArtifactSlots -> ArtifactIds \cup {NoArtifact}],
         \A t \in ShipTypes, i \in ArtifactSlots : slots[i] # <<l, t>>,
         Cardinality(Free(slots)) >= Cardinality(ShipTypes)
  PROVE  \E types :
           /\ ShipTypes \subseteq types
           /\ Boarded(l, slots,
                WithShip(WithShip(WithShip(WithShip(WithShip(slots, l, "mothership"),
                  l, "crescent"), l, "whale"), l, "gear"), l, "titan"), types)
  <1> DEFINE s1 == WithShip(slots, l, "mothership")
             s2 == WithShip(s1, l, "crescent")
             s3 == WithShip(s2, l, "whale")
             s4 == WithShip(s3, l, "gear")
             s5 == WithShip(s4, l, "titan")
             t1 == {"mothership"}
             t2 == t1 \cup {"crescent"}
             t3 == t2 \cup {"whale"}
             t4 == t3 \cup {"gear"}
             t5 == t4 \cup {"titan"}
  <1>1. Boarded(l, slots, slots, {})
    <2>1. ShipTypes \ {} = ShipTypes
      OBVIOUS
    <2> QED
      BY <2>1 DEF Boarded
  <1>2. Boarded(l, slots, s1, t1)
    <2>1. {} \cup {"mothership"} = t1
      OBVIOUS
    <2>2. Boarded(l, slots, s1, {} \cup {"mothership"})
      BY <1>1, WithShipBoards
    <2> QED
      BY <2>1, <2>2
  <1> HIDE DEF s1
  <1>3. Boarded(l, slots, s2, t2)
    BY <1>2, WithShipBoards
  <1> HIDE DEF s2
  <1>4. Boarded(l, slots, s3, t3)
    BY <1>3, WithShipBoards
  <1> HIDE DEF s3
  <1>5. Boarded(l, slots, s4, t4)
    BY <1>4, WithShipBoards
  <1> HIDE DEF s4
  <1>6. Boarded(l, slots, s5, t5)
    BY <1>5, WithShipBoards
  <1>7. ShipTypes \subseteq t5
    BY ArtifactAssumption DEF EffectShips
  <1> HIDE DEF s5, t5
  <1> QED
    BY <1>6, <1>7 DEF s1, s2, s3, s4, s5

LEMMA GiveEffect ==
  ASSUME PInv, NEW player \in Players, NEW l \in Planets, GiveSpaceShips(player, l)
  PROVE  LET fleet == {<<l, t>> : t \in ShipTypes} IN
         /\ \A k \in Planets \ {l}, i \in ArtifactSlots :
              planet_artifacts'[k][i] = planet_artifacts[k][i]
         /\ \A id \in fleet : Tidy(World', id) /\ Somewhere(World', id)
         /\ \A id \in ArtifactIds \ fleet : SamePlaces(World, World', id)
  <1> DEFINE fleet == {<<l, t>> : t \in ShipTypes}
             slots == planet_artifacts[l]
             new   == WithShip(WithShip(WithShip(WithShip(WithShip(
                        slots, l, "mothership"), l, "crescent"), l, "whale"),
                        l, "gear"), l, "titan")
  <1>1. /\ home_planets[player] = l /\ ~claimed_ships[player]
        /\ Cardinality(Free(slots)) >= Cardinality(ShipTypes)
        /\ planet_artifacts' = [planet_artifacts EXCEPT ![l] = new]
        /\ artifact_locations' = [id \in ArtifactIds |->
             IF id \in fleet THEN l ELSE artifact_locations[id]]
        /\ UNCHANGED arrivals
    BY DEF GiveSpaceShips, Free
  <1>2. QInv /\ HomesKnown /\ ShipsKnown
    BY DEF PInv, Places
  <1>3. /\ slots \in [ArtifactSlots -> ArtifactIds \cup {NoArtifact}]
        /\ planet_artifacts \in
             [Planets -> [ArtifactSlots -> ArtifactIds \cup {NoArtifact}]]
    BY <1>2, PlaceTypes
  <1>4. /\ fleet \subseteq ShipIds /\ FoundIds \cap fleet = {}
        /\ NoArtifact \notin ArtifactIds /\ ShipIds \subseteq ArtifactIds
    BY SentinelsAssumption, IdsApart DEF ShipIds
  <1>5. ASSUME NEW id \in fleet PROVE ~Somewhere(World, id)
    <2>1. id[1] = l /\ id \in ShipIds
      BY <1>4
    <2>2. ASSUME spaceship_owners[id] # Zero PROVE FALSE
      <3>1. PICK p \in Players : home_planets[p] = l /\ claimed_ships[p]
        BY <1>2, <2>1, <2>2 DEF HomesKnown
      <3>2. p = player
        BY <1>1, <1>2, <3>1 DEF HomesKnown
      <3> QED
        BY <1>1, <3>1, <3>2
    <2> QED
      BY <1>2, <2>1, <2>2 DEF ShipsKnown
  <1>6. \A t \in ShipTypes, i \in ArtifactSlots : slots[i] # <<l, t>>
    BY <1>5, WorldFields DEF Somewhere
  <1> HIDE DEF slots
  <1>7. PICK types : ShipTypes \subseteq types /\ Boarded(l, slots, new, types)
    BY <1>1, <1>3, <1>6, FleetBoards
  <1> HIDE DEF new
  <1>8. \A k \in Planets, i \in ArtifactSlots :
          planet_artifacts'[k][i] = IF k = l THEN new[i] ELSE planet_artifacts[k][i]
    BY <1>1, <1>3, <1>7 DEF Boarded
  <1>9. \A i \in ArtifactSlots :
          new[i] # slots[i] => slots[i] = NoArtifact /\ new[i] \in fleet
    BY <1>7 DEF Boarded
  <1>10. \A a, id : Aboard(World', a, id) <=> Aboard(World, a, id)
    BY <1>1, WorldFields DEF Aboard, Alive
  <1>11. ASSUME NEW id \in fleet PROVE Tidy(World', id) /\ Somewhere(World', id)
    <2>1. PICK t \in ShipTypes : id = <<l, t>>
      OBVIOUS
    <2>2. t \in ShipTypes \cap types
      BY <1>7
    <2>3. PICK s \in ArtifactSlots : \A i \in ArtifactSlots : new[i] = id <=> i = s
      BY <1>7, <2>1, <2>2 DEF Boarded
    <2>4. \A k \in Planets, i \in ArtifactSlots : planet_artifacts[k][i] # id
      BY <1>5, WorldFields DEF Somewhere
    <2>5. \A k \in Planets, i \in ArtifactSlots :
            planet_artifacts'[k][i] = id <=> k = l /\ i = s
      BY <1>8, <2>3, <2>4
    <2>6. \A a \in ArrivalIds : ~Aboard(World', a, id)
      BY <1>5, <1>10 DEF Somewhere
    <2>7. artifact_locations'[id] = l
      BY <1>1, <1>4
    <2>8. OnlyIn(World', l, s, id)
      BY <2>5, <2>6, <2>7, WorldFields DEF OnlyIn
    <2> QED
      BY <2>8, OnlyInTidy
  <1>12. ASSUME NEW id \in ArtifactIds \ fleet PROVE SamePlaces(World, World', id)
    <2>1. \A i \in ArtifactSlots : new[i] = id <=> slots[i] = id
      BY <1>4, <1>9
    <2>2. \A k \in Planets, i \in ArtifactSlots :
            planet_artifacts'[k][i] = id <=> planet_artifacts[k][i] = id
      BY <1>8, <2>1 DEF slots
    <2>3. artifact_locations'[id] = artifact_locations[id]
      BY <1>1
    <2> QED
      BY <1>10, <2>2, <2>3, WorldFields DEF SamePlaces
  <1> QED
    BY <1>8, <1>11, <1>12

LEMMA PGiveSpaceShips ==
  ASSUME PInv, NEW player \in Players, NEW l \in Planets, GiveSpaceShips(player, l)
  PROVE  PStep
  <1> DEFINE fleet == {<<l, t>> : t \in ShipTypes}
  <1>1. /\ home_planets[player] = l
        /\ planets[l].owner = player
        /\ spaceship_owners' = [id \in ShipIds |->
             IF id \in fleet THEN player ELSE spaceship_owners[id]]
        /\ nft_owners' = [id \in ArtifactIds |->
             IF id \in fleet THEN player ELSE nft_owners[id]]
        /\ claimed_ships' = [claimed_ships EXCEPT ![player] = TRUE]
        /\ UNCHANGED <<planets, arrivals, ship_counts, home_planets, artifacts>>
    BY DEF GiveSpaceShips
  <1>2. /\ QInv /\ HomesKnown /\ ShipsKnown /\ FoundKept /\ Counted(World)
        /\ Bare(World) /\ Carried(World, World)
    BY LawfulReflexive DEF PInv, Places, Lawful
  <1>3. fleet \subseteq ShipIds /\ FoundIds \cap fleet = {}
    BY IdsApart DEF ShipIds
  <1>4. /\ \A k \in Planets \ {l}, i \in ArtifactSlots :
             planet_artifacts'[k][i] = planet_artifacts[k][i]
        /\ \A id \in fleet : Tidy(World', id) /\ Somewhere(World', id)
        /\ \A id \in ArtifactIds \ fleet : SamePlaces(World, World', id)
    BY GiveEffect
  <1> HIDE DEF fleet
  <1>5. /\ \A id \in ShipIds : spaceship_owners'[id] =
              IF id \in fleet THEN player ELSE spaceship_owners[id]
        /\ \A id \in FoundIds : nft_owners'[id] = nft_owners[id]
        /\ claimed_ships'[player]
        /\ \A p \in Players : claimed_ships[p] => claimed_ships'[p]
    BY <1>1, <1>2, <1>3, IdsApart, PlaceTypes
  <1>6. HomesKnown'
    <2>1. ASSUME NEW id \in ShipIds, spaceship_owners'[id] # Zero
          PROVE  \E p \in Players : home_planets[p] = id[1] /\ claimed_ships'[p]
      <3>1. CASE id \in fleet
        BY <1>1, <1>5, <3>1 DEF fleet
      <3>2. CASE id \notin fleet
        BY <1>2, <1>5, <2>1, <3>2 DEF HomesKnown
      <3> QED
        BY <3>1, <3>2
    <2> QED
      BY <1>1, <1>2, <2>1 DEF HomesKnown
  <1>7. ShipsKnown'
    <2> SUFFICES ASSUME NEW id \in ShipIds
                 PROVE  /\ Tidy(World', id)
                        /\ Somewhere(World', id) <=> spaceship_owners'[id] # Zero
      BY DEF ShipsKnown
    <2>1. CASE id \in fleet
      BY <1>4, <1>5, <2>1, SentinelAssumption
    <2>2. CASE id \notin fleet
      <3>1. SamePlaces(World, World', id)
        BY <1>3, <1>4, <2>2, IdsApart
      <3> QED
        BY <1>2, <1>5, <2>2, <3>1, SameTidy DEF ShipsKnown
    <2> QED
      BY <2>1, <2>2
  <1>8. FoundKept' /\ (Orderly => Orderly')
    <2>1. \A id \in FoundIds : SamePlaces(World, World', id)
      BY <1>3, <1>4, IdsApart
    <2> QED
      BY <1>1, <1>2, <1>5, <2>1, FoundStay DEF FoundKept, Orderly
  <1>9. Counted(World')
    <2> SUFFICES ASSUME NEW k \in Planets, NEW type \in EffectShips
                 PROVE  ship_counts[k][type] =
                          IF planets[k].is_home_planet THEN 0
                          ELSE Cardinality(ShipsIn(World', k, type))
      BY <1>1, WorldFields DEF Counted
    <2>1. ship_counts[k][type] = IF planets[k].is_home_planet THEN 0
                                 ELSE Cardinality(ShipsIn(World, k, type))
      BY <1>2, WorldFields DEF Counted
    <2>2. CASE k = l
      BY <1>1, <1>2, <2>1, <2>2 DEF HomesKnown
    <2>3. CASE k # l
      <3>1. ShipsIn(World', k, type) = ShipsIn(World, k, type)
        BY <1>4, <2>3, WorldFields DEF ShipsIn
      <3> QED
        BY <2>1, <3>1
    <2> QED
      BY <2>2, <2>3
  <1>10. Bare(World')
    <2>1. planets[l].is_initialized
      BY <1>1, OwnedInitialized
    <2> QED
      BY <1>1, <1>2, <1>4, <2>1, WorldFields DEF Bare
  <1> QED
    BY <1>6, <1>7, <1>8, <1>9, <1>10 DEF PStep, Places

-----------------------------------------------------------------------------
(* The theorems on places. *)

\* No artifact is deposited while it is on its way.
Calm == \A p \in Players, l \in Planets, id \in FoundIds :
            DepositArtifact(p, l, id) => Adrift(id)

LEMMA PInit == Init => PInv /\ Orderly
  <1> SUFFICES ASSUME Init PROVE PInv /\ Orderly
    OBVIOUS
  <1>1. QInv
    BY QInit
  <1>2. NoArtifact \notin ArtifactIds /\ ShipIds \subseteq ArtifactIds
        /\ FoundIds \subseteq ArtifactIds
    BY SentinelsAssumption, IdsApart
  <1>3. /\ \A l \in Planets, i \in ArtifactSlots : planet_artifacts[l][i] = NoArtifact
        /\ \A a \in ArrivalIds : arrivals[a].arrival_block = 0
    BY EmptyNotAlive DEF Init
  <1>4. \A id \in ArtifactIds : ~Somewhere(World, id)
    BY <1>2, <1>3, WorldFields DEF Somewhere, Aboard, Alive
  <1>5. HomesKnown
    BY SentinelAssumption DEF Init, HomesKnown
  <1>6. ShipsKnown
    BY <1>2, <1>4, NowhereTidy DEF Init, ShipsKnown
  <1>7. \A id \in FoundIds : ~artifacts[id].is_initialized /\ ~artifacts[id].burned
    <2>1. /\ ~EmptyArtifact.is_initialized
          /\ ~EmptyArtifact.burned
      BY DEF EmptyArtifact, NewArtifact
    <2> QED
      BY <1>2, <2>1 DEF Init
  <1>8. Counted(World)
    <2> SUFFICES ASSUME NEW l \in Planets, NEW type \in EffectShips
                 PROVE  ship_counts[l][type] =
                          IF planets[l].is_home_planet THEN 0
                          ELSE Cardinality(ShipsIn(World, l, type))
      BY WorldFields DEF Counted
    <2>1. ship_counts[l][type] = 0
      BY DEF Init
    <2>2. ShipsIn(World, l, type) = {}
      BY <1>2, <1>3, WorldFields DEF ShipsIn
    <2>3. Cardinality(ShipsIn(World, l, type)) = 0
      BY <2>2, FS_EmptySet
    <2> QED
      BY <2>1, <2>3
  <1>9. Bare(World)
    BY <1>3, WorldFields DEF Init, Bare, NoPlanet
  <1>10. FoundKept /\ Orderly
    BY <1>2, <1>4, <1>7, NowhereTidy DEF FoundKept, KeptAt, Orderly, OrderlyAt
  <1> QED
    BY <1>1, <1>5, <1>6, <1>8, <1>9, <1>10 DEF PInv, Places

LEMMA PNext == ASSUME PInv, Next PROVE Places' /\ (Orderly /\ Calm => Orderly')
  <1>1. CASE NextBlock
    BY <1>1, PNextBlock DEF PStep
  <1>2. CASE FleetNext
    BY <1>2, PInitPlayer, PRevealNewPlanet, PSendFleet, PResolveArrival,
       PResolvePlanet, PUpgradePlanet DEF FleetNext, PStep
  <1>3. CASE ShipNext
    BY <1>3, PGiveSpaceShips, PSendShip, PActivateCrescent DEF ShipNext, PStep
  <1>4. CASE ArtifactNext
    <2>1. ASSUME NEW p \in Players, NEW l \in Planets, NEW id \in FoundIds,
                 DepositArtifact(p, l, id)
          PROVE  Places' /\ (Orderly /\ Calm => Orderly')
      BY <2>1, PDepositArtifact DEF Calm
    <2> QED
      BY <1>4, <2>1, PProspectPlanet, PFindArtifact, PWithdrawArtifact,
         PActivateArtifact, PDeactivateArtifact DEF ArtifactNext, PStep
  <1> QED
    BY <1>1, <1>2, <1>3, <1>4 DEF Next

LEMMA PInductive == PInv /\ [Next]_vars => PInv'
  <1> SUFFICES ASSUME PInv, [Next]_vars PROVE PInv'
    OBVIOUS
  <1>1. QInv'
    BY QInductive DEF PInv
  <1>2. Places'
    BY PNext, PStutter DEF PStep
  <1> QED
    BY <1>1, <1>2 DEF PInv

\* The inductive invariant of places.
THEOREM PlacesInductive == Spec => []PInv
  <1> QED
    BY PInit, PInductive, PTL DEF Spec

LEMMA OnePlaceCounted ==
  ASSUME NEW id \in ArtifactIds, Tidy(World, id)
  PROVE  LET slots   == {at \in Planets \X ArtifactSlots :
                           planet_artifacts[at[1]][at[2]] = id}
             flights == {a \in ArrivalIds : CarriedBy(a, id)}
         IN  Cardinality(slots) + Cardinality(flights) =
               IF Somewhere(World, id) THEN 1 ELSE 0
  <1> DEFINE slots   == {at \in Planets \X ArtifactSlots :
                           planet_artifacts[at[1]][at[2]] = id}
             flights == {a \in ArrivalIds : CarriedBy(a, id)}
  <1>1. \A a \in ArrivalIds : CarriedBy(a, id) <=> Aboard(World, a, id)
    BY WorldFields DEF CarriedBy, Live, Aboard, Alive
  <1>2. Cardinality({}) = 0 /\ \A x : Cardinality({x}) = 1
    BY FS_EmptySet, FS_Singleton
  <1>3. ASSUME ~Somewhere(World, id)
        PROVE  Cardinality(slots) + Cardinality(flights) = 0
    <2>1. slots = {} /\ flights = {}
      BY <1>1, <1>3, WorldFields DEF Somewhere
    <2>2. Cardinality(slots) = 0 /\ Cardinality(flights) = 0
      BY <1>2, <2>1
    <2> QED
      BY <1>3, <2>2
  <1>4. ASSUME NEW l \in Planets, NEW i \in ArtifactSlots, planet_artifacts[l][i] = id
        PROVE  Cardinality(slots) + Cardinality(flights) = 1
    <2>1. slots = {<<l, i>>}
      BY <1>4, WorldFields DEF Tidy
    <2>2. flights = {}
      BY <1>1, <1>4, WorldFields DEF Tidy
    <2>3. Cardinality({<<l, i>>}) = 1
      BY FS_Singleton
    <2>4. Cardinality(slots) = 1 /\ Cardinality(flights) = 0
      BY <1>2, <2>1, <2>2, <2>3
    <2> QED
      BY <2>4
  <1>5. ASSUME NEW a \in ArrivalIds, Aboard(World, a, id)
        PROVE  Cardinality(slots) + Cardinality(flights) = 1
    <2>1. flights = {a}
      BY <1>1, <1>5 DEF Tidy
    <2>2. slots = {}
      BY <1>5, WorldFields DEF Tidy
    <2>3. Cardinality(slots) = 0 /\ Cardinality(flights) = 1
      BY <1>2, <2>1, <2>2
    <2> QED
      BY <2>3
  <1>6. ASSUME Somewhere(World, id)
        PROVE  Cardinality(slots) + Cardinality(flights) = 1
    <2> HIDE DEF slots, flights
    <2> QED
      BY <1>4, <1>5, <1>6, WorldFields DEF Somewhere
  <1>7. Cardinality(slots) + Cardinality(flights) =
          IF Somewhere(World, id) THEN 1 ELSE 0
    <2> HIDE DEF slots, flights
    <2> QED
      BY <1>3, <1>6
  <1> QED
    BY <1>7

\* A ship that was given out is in one slot of one planet or on board of one
\* arrival, whatever was sent, landed, destroyed or claimed; one that was not
\* is nowhere.
THEOREM ShipsInOnePlace == Spec => []ShipInOnePlace
  <1>1. PInv => ShipInOnePlace
    <2> SUFFICES ASSUME PInv, NEW id \in ShipIds
                 PROVE  LET slots   == {at \in Planets \X ArtifactSlots :
                                          planet_artifacts[at[1]][at[2]] = id}
                            flights == {a \in ArrivalIds : CarriedBy(a, id)}
                        IN  Cardinality(slots) + Cardinality(flights) =
                              IF spaceship_owners[id] = Zero THEN 0 ELSE 1
      BY DEF ShipInOnePlace
    <2>1. Tidy(World, id) /\ (Somewhere(World, id) <=> spaceship_owners[id] # Zero)
          /\ id \in ArtifactIds
      BY IdsApart DEF PInv, Places, ShipsKnown
    <2> QED
      BY <2>1, OnePlaceCounted
  <1> QED
    BY <1>1, PlacesInductive, PTL

\* The pausers and the doubler counters of a planet count the ships in its slots,
\* and those of a home count nothing.
THEOREM CountersCorrect == Spec => []CountersMatchShips
  <1>1. PInv => CountersMatchShips
    <2>1. \A l, type : ShipsAt(l, type) = ShipsIn(World, l, type)
      BY WorldFields DEF ShipsAt, ShipsIn
    <2> QED
      BY <2>1, WorldFields DEF PInv, Places, Counted, CountersMatchShips
  <1> QED
    BY <1>1, PlacesInductive, PTL

\* Where Somewhere and Holds say the same.
LEMMA SlotsHold ==
  ASSUME PInv, NEW id
  PROVE  /\ \A l \in Planets : InSlot(id, l) <=>
              \E i \in ArtifactSlots : planet_artifacts[l][i] = id
         /\ \A a \in ArrivalIds : CarriedBy(a, id) <=> Aboard(World, a, id)
  BY PlaceTypes, WorldFields
     DEF PInv, InSlot, Holds, CarriedBy, Live, Aboard, Alive

\* An artifact that was found and not burned is in a slot, on its way or in a
\* player's hands.
THEOREM NoArtifactLost == Spec => []ArtifactNotLost
  <1>1. PInv => ArtifactNotLost
    BY SlotsHold, WorldFields
       DEF PInv, Places, FoundKept, KeptAt, Somewhere, ArtifactNotLost
  <1> QED
    BY <1>1, PlacesInductive, PTL

\* The location of a ship names the planet whose slots hold it.
THEOREM ShipsLocated ==
  Spec => [](\A id \in ShipIds, l \in Planets :
                InSlot(id, l) => artifact_locations[id] = l)
  <1>1. PInv => \A id \in ShipIds, l \in Planets :
                  InSlot(id, l) => artifact_locations[id] = l
    <2> SUFFICES ASSUME PInv, NEW id \in ShipIds, NEW l \in Planets, InSlot(id, l)
                 PROVE  artifact_locations[id] = l
      OBVIOUS
    <2>1. Tidy(World, id)
      BY DEF PInv, Places, ShipsKnown
    <2> QED
      BY <2>1, SlotsHold, WorldFields DEF Tidy
  <1> QED
    BY <1>1, PlacesInductive, PTL

LEMMA OrderlyInductive ==
  PInv /\ Orderly /\ [Next]_vars /\ [Calm]_vars => (PInv /\ Orderly)'
  <1> SUFFICES ASSUME PInv, Orderly, [Next]_vars, [Calm]_vars PROVE PInv' /\ Orderly'
    OBVIOUS
  <1>1. PInv'
    BY PInductive
  <1>2. CASE UNCHANGED vars
    BY <1>1, <1>2, PStutter DEF PStep
  <1>3. CASE Next /\ Calm
    BY <1>1, <1>3, PNext
  <1> QED
    BY <1>2, <1>3

\* In a behaviour in which no artifact is deposited while it is on its way, found
\* artifacts are as orderly as ships.  The contract does not see to that: action
\* 10 takes an artifact whose location is 0 for one in a player's hands, and the
\* run two_places finds the behaviour that ends with it in two places.
THEOREM OrderKept == Spec /\ [][Calm]_vars => [](PInv /\ Orderly)
  <1> QED
    BY PInit, OrderlyInductive, PTL DEF Spec

\* As long as no artifact is deposited while it is on its way, artifact_locations
\* names the planet whose slots hold the artifact.
THEOREM LocationsCorrect == Spec /\ [][Calm]_vars => []LocationNamesPlanet
  <1>1. PInv /\ Orderly => LocationNamesPlanet
    <2> SUFFICES ASSUME PInv, Orderly, NEW id \in ArtifactIds, NEW l \in Planets,
                        InSlot(id, l)
                 PROVE  artifact_locations[id] = l
      BY DEF LocationNamesPlanet
    <2>1. Tidy(World, id)
      BY DEF ArtifactIds, PInv, Places, ShipsKnown, Orderly, OrderlyAt
    <2> QED
      BY <2>1, SlotsHold, WorldFields DEF Tidy
  <1> QED
    BY <1>1, OrderKept, PTL

\* As long as no artifact is deposited while it is on its way, a burned artifact is
\* in no slot and on no arrival for good.
THEOREM BurnedStaysGone == Spec /\ [][Calm]_vars => []BurnedIsGone
  <1>1. PInv /\ Orderly => BurnedIsGone
    BY SlotsHold, WorldFields DEF Orderly, OrderlyAt, Somewhere, BurnedIsGone
  <1> QED
    BY <1>1, OrderKept, PTL

-----------------------------------------------------------------------------
(* Whose planets are, and who is on them. *)

\* OwnersChangeByArms of one step.
OwnersStep ==
    \A l \in Planets :
        planets[l].is_initialized /\ planets'[l].owner # planets[l].owner =>
          IF planets'[l].owner = Zero
          THEN \A id \in ArrivalIds : Live(id) /\ arrivals[id].to_planet = l
                                        => Lands(id)
          ELSE \E id \in ArrivalIds :
                 /\ Lands(id)
                 /\ arrivals[id].to_planet = l
                 /\ arrivals[id].player = planets'[l].owner

\* Some population can live on every planet: no cap was rounded down to 0.
Habitable == \A l \in Planets : planets[l].is_initialized => planets[l].population_cap > 0

HStep ==
    /\ OwnersStep
    /\ OwnedPopulated /\ Habitable => OwnedPopulated'
    /\ Neutral /\ Habitable => Habitable'

Held(planet) == planet.owner # Zero => planet.population > 0

\* The three things that a transaction, having landed what is due, does to a
\* planet: it leaves it to its owner, makes it, or abandons it.
Kept(planet, after) ==
    /\ after.owner = planet.owner
    /\ Manned(planet) => Held(after)
    /\ Lively(planet, after)

Made(planet, after) ==
    ~planet.is_initialized /\ Held(after) /\ (Neutral => after.population_cap > 0)

Abandoned(l, planet, after) ==
    /\ after.owner = Zero
    /\ Lively(planet, after)
    /\ \A a \in ArrivalIds : Live(a) /\ arrivals[a].to_planet = l => Lands(a)

LEMMA HoldStep ==
  ASSUME PInv, NEW w, Lawful(World, w),
         \A a \in ArrivalIds : Live(a) => arrivals'[a] = w.arrivals[a],
         \A l \in Planets : \/ Kept(w.planets[l], planets'[l])
                            \/ Made(w.planets[l], planets'[l])
                            \/ Abandoned(l, w.planets[l], planets'[l])
  PROVE  HStep
  <1>1. /\ Conquered(World, w) /\ Garrisoned(World, w) /\ Bare(w)
        /\ \A l \in Planets : w.planets[l].is_initialized = planets[l].is_initialized
    BY WorldFields DEF Lawful, PInv, Places
  <1>2. ASSUME NEW l \in Planets, planets[l].is_initialized,
               planets'[l].owner # planets[l].owner
        PROVE  IF planets'[l].owner = Zero
               THEN \A id \in ArrivalIds : Live(id) /\ arrivals[id].to_planet = l
                                             => Lands(id)
               ELSE \E id \in ArrivalIds :
                      /\ Lands(id)
                      /\ arrivals[id].to_planet = l
                      /\ arrivals[id].player = planets'[l].owner
    <2>1. CASE Kept(w.planets[l], planets'[l])
      <3>1. w.planets[l].owner = planets'[l].owner
        BY <2>1 DEF Kept
      <3>2. PICK a \in ArrivalIds :
              /\ Alive(World, a) /\ ~Alive(w, a)
              /\ arrivals[a].to_planet = l
              /\ arrivals[a].player = planets'[l].owner
              /\ arrivals[a].player # Zero
        BY <1>1, <1>2, <3>1, WorldFields DEF Conquered
      <3>3. Lands(a)
        BY <3>2, WorldFields DEF Alive, Lands, Live
      <3> QED
        BY <3>2, <3>3
    <2>2. CASE Made(w.planets[l], planets'[l])
      BY <1>1, <1>2, <2>2 DEF Made
    <2>3. CASE Abandoned(l, w.planets[l], planets'[l])
      BY <2>3 DEF Abandoned
    <2> QED
      BY <2>1, <2>2, <2>3
  <1>3. ASSUME OwnedPopulated, Habitable, NEW l \in Planets
        PROVE  Held(planets'[l])
    <2>1. CASE Kept(w.planets[l], planets'[l]) /\ planets[l].is_initialized
      <3>1. Manned(planets[l])
        BY <1>3, <2>1 DEF OwnedPopulated, Habitable, Manned
      <3> QED
        BY <1>1, <2>1, <3>1, WorldFields DEF Garrisoned, Kept
    <2>2. CASE Kept(w.planets[l], planets'[l]) /\ ~planets[l].is_initialized
      BY <1>1, <2>2 DEF Kept, Bare, Held
    <2>3. CASE Made(w.planets[l], planets'[l]) \/ Abandoned(l, w.planets[l], planets'[l])
      BY <2>3 DEF Made, Abandoned, Held
    <2> QED
      BY <2>1, <2>2, <2>3
  <1>4. ASSUME Neutral, Habitable, NEW l \in Planets, planets'[l].is_initialized
        PROVE  planets'[l].population_cap > 0
    <2>1. CASE Made(w.planets[l], planets'[l])
      BY <1>4, <2>1 DEF Made
    <2>2. CASE Lively(w.planets[l], planets'[l])
      BY <1>1, <1>4, <2>2, WorldFields DEF Lively, Habitable, Garrisoned
    <2> QED
      BY <2>1, <2>2 DEF Kept, Abandoned
  <1> QED
    BY <1>2, <1>3, <1>4 DEF HStep, OwnersStep, OwnedPopulated, Habitable, Held

\* The same of a step that lands nothing.
LEMMA HoldStill ==
  ASSUME PInv, UNCHANGED arrivals,
         \A l \in Planets : \/ Kept(planets[l], planets'[l])
                            \/ Made(planets[l], planets'[l])
  PROVE  HStep
  BY LawfulReflexive, HoldStep, WorldFields

LEMMA HoldSame ==
  ASSUME PInv, UNCHANGED <<arrivals, planets>>
  PROVE  HStep
  BY HoldStill DEF Kept, Lively, Manned, Held

LEMMA HoldOne ==
  ASSUME PInv, UNCHANGED arrivals, NEW l \in Planets, NEW planet,
         planets' = [planets EXCEPT ![l] = planet],
         Kept(planets[l], planet) \/ Made(planets[l], planet)
  PROVE  HStep
  <1>1. \A k \in Planets : planets'[k] = IF k = l THEN planet ELSE planets[k]
    BY PlaceTypes DEF PInv
  <1> QED
    BY <1>1, HoldStill DEF Kept, Lively, Manned, Held

LEMMA NewPlanetCap ==
  ASSUME NEW l \in Planets, NEW owner, NEW is_home
  PROVE  Neutral => NewPlanet(l, owner, is_home).population_cap > 0
  <1>1. Geography[l].planet_type \in PlanetTypes
    BY StatsAssumption
  <1>2. NewPlanet(l, owner, is_home).population_cap =
          DefaultStats[l][Geography[l].planet_type].population_cap
    BY DEF NewPlanet, DefaultPlanet
  <1> QED
    BY <1>1, <1>2 DEF Neutral

LEMMA HInitPlayer ==
  ASSUME PInv, NEW player \in Players, NEW l \in Planets, InitPlayer(player, l)
  PROVE  HStep
  <1> DEFINE home == NewPlanet(l, player, TRUE)
  <1>1. /\ planets' = [planets EXCEPT ![l] = home] /\ ~planets[l].is_initialized
        /\ UNCHANGED arrivals
    BY DEF InitPlayer, CanBeHome
  <1>2. Made(planets[l], home)
    <2>1. home.population = HOME_PLANET_POPULATION
      BY DEF NewPlanet, DefaultPlanet
    <2>2. Neutral => home.population_cap > 0
      BY NewPlanetCap
    <2> HIDE DEF home
    <2> QED
      BY <1>1, <2>1, <2>2, LimitAssumption DEF Made, Held
  <1> HIDE DEF home
  <1> QED
    BY <1>1, <1>2, HoldOne

LEMMA HRevealNewPlanet ==
  ASSUME PInv, NEW l \in Planets, RevealNewPlanet(l)
  PROVE  HStep
  <1> DEFINE planet == NewPlanet(l, Zero, FALSE)
  <1>1. /\ planets' = [planets EXCEPT ![l] = planet] /\ ~planets[l].is_initialized
        /\ UNCHANGED arrivals
    BY DEF RevealNewPlanet
  <1>2. Made(planets[l], planet)
    <2>1. planet.owner = Zero
      BY DEF NewPlanet, DefaultPlanet
    <2>2. Neutral => planet.population_cap > 0
      BY NewPlanetCap
    <2> HIDE DEF planet
    <2> QED
      BY <1>1, <2>1, <2>2 DEF Made, Held
  <1> HIDE DEF planet
  <1> QED
    BY <1>1, <1>2, HoldOne

\* A step that only lands.
LEMMA HWrite ==
  ASSUME PInv, NEW w, Lawful(World, w), Write(w)
  PROVE  HStep
  <1>1. \A l \in Planets : Kept(w.planets[l], planets'[l])
    BY DEF Write, Kept, Lively, Manned, Held
  <1> QED
    BY <1>1, HoldStep DEF Write

LEMMA HResolveArrival ==
  ASSUME PInv, NEW id \in ArrivalIds, ResolveArrival(id)
  PROVE  HStep
  <1> DEFINE w == ExecuteArrival(World, id)
  <1>1. w.ok /\ Write(w)
    BY DEF ResolveArrival
  <1>2. CanLand(World, id)
    <2>1. ~CanLand(World, id) => w = [World EXCEPT !.ok = FALSE]
      BY DEF ExecuteArrival
    <2>2. [World EXCEPT !.ok = FALSE].ok = FALSE
      BY DEF World
    <2> QED
      BY <1>1, <2>1, <2>2
  <1>3. Lawful(World, w)
    BY <1>2, WorldGood, ExecuteLawful DEF PInv
  <1> HIDE DEF w
  <1> QED
    BY <1>1, <1>3, HWrite

LEMMA HResolvePlanet ==
  ASSUME PInv, NEW l \in Planets, ResolvePlanet(l)
  PROVE  HStep
  <1>1. Lawful(World, ProcessPending(World, l))
    BY WorldGood, ProcessLawful DEF PInv
  <1> QED
    BY <1>1, HWrite DEF ResolvePlanet

\* Refreshing a planet keeps its owner and leaves someone on it.
LEMMA OriginKept ==
  ASSUME TInv, NEW w, TypedWorld(w), NEW l \in Planets
  PROVE  Kept(w.planets[l], Origin(w, l))
  BY OriginType, OriginLively DEF Kept, Manned, Held

LEMMA HUpgradePlanet ==
  ASSUME PInv, NEW player \in Players, NEW l \in Planets, NEW branch \in Branches,
         UpgradePlanet(player, l, branch)
  PROVE  HStep
  <1> DEFINE w        == ProcessPending(World, l)
             fresh    == Origin(w, l)
             buffed   == BuffPlanet(fresh, UpgradeBuff(branch))
             upgraded == [buffed EXCEPT !.silver = @ - UpgradeCost(fresh),
                                        !.upgrades[branch] = @ + 1]
             x        == [w EXCEPT !.planets[l] = upgraded]
  <1>1. Write(x)
    BY DEF UpgradePlanet
  <1>2. Lawful(World, w) /\ TypedWorld(w) /\ TInv
    BY WorldGood, ProcessLawful, QTyped DEF PInv, GoodWorld
  <1>3. w.planets \in [Planets -> Planet] /\ w \in Worlds
    BY <1>2, TypedParts DEF TypedWorld
  <1> HIDE DEF w
  <1>4. fresh \in Planet /\ Kept(w.planets[l], fresh)
    BY <1>2, OriginType, OriginKept
  <1> HIDE DEF fresh
  <1>5. /\ SamePlace(fresh, buffed)
        /\ fresh.population_cap > 0 => buffed.population_cap > 0
    <2>1. fresh.population_cap \in Nat
      BY <1>4 DEF Planet
    <2>2. buffed.population_cap = (fresh.population_cap * 120) \div 100
      BY <1>4 DEF BuffPlanet, UpgradeBuff, Planet
    <2> QED
      BY <1>4, <2>1, <2>2, BuffKeeps, UpgradeBuffType, MorePercent
  <1> HIDE DEF buffed
  <1>6. /\ upgraded.owner = fresh.owner /\ upgraded.population = fresh.population
        /\ upgraded.is_initialized = fresh.is_initialized
        /\ upgraded.population_cap = buffed.population_cap
    BY <1>5 DEF SamePlace, Planet
  <1> HIDE DEF upgraded
  <1>7. /\ planets' = [w.planets EXCEPT ![l] = upgraded] /\ arrivals' = w.arrivals
    BY <1>1, <1>3 DEF Write, Worlds
  <1>8. \A k \in Planets : Kept(w.planets[k], planets'[k])
    <2>1. \A k \in Planets : planets'[k] = IF k = l THEN upgraded ELSE w.planets[k]
      BY <1>3, <1>7
    <2> QED
      BY <1>4, <1>5, <1>6, <2>1 DEF Kept, Lively, Manned, Held
  <1> QED
    BY <1>2, <1>7, <1>8, HoldStep

LEMMA HActivateCrescent ==
  ASSUME PInv, NEW l \in Planets, NEW id \in ShipIds, ActivateCrescent(l, id)
  PROVE  HStep
  <1> DEFINE mine == [planets[l] EXCEPT
               !.planet_type   = "silver_mine",
               !.silver        = IF @ = 0 THEN 1 ELSE @,
               !.silver_growth = IF planets[l].silver = 0
                                 THEN DefaultStats[l]["silver_mine"].silver_growth
                                 ELSE @]
  <1>1. planets' = [planets EXCEPT ![l] = mine] /\ UNCHANGED arrivals
    BY DEF ActivateCrescent
  <1>2. planets[l] \in Planet
    BY PlaceTypes DEF PInv
  <1>3. /\ mine.owner = planets[l].owner /\ mine.population = planets[l].population
        /\ mine.is_initialized = planets[l].is_initialized
        /\ mine.population_cap = planets[l].population_cap
    BY <1>2 DEF Planet
  <1> HIDE DEF mine
  <1>4. Kept(planets[l], mine)
    BY <1>3 DEF Kept, Lively, Manned, Held
  <1> QED
    BY <1>1, <1>4, HoldOne

\* A bloom filter fills the planet up to its cap, which is why that must not be 0.
LEMMA HActivateArtifact ==
  ASSUME PInv, NEW player \in Players, NEW l \in Planets, NEW id \in FoundIds,
         NEW target \in Planets \cup {Nowhere},
         ActivateArtifact(player, l, id, target)
  PROVE  HStep
  <1> DEFINE artifact == artifacts[id]
             filled   == IF artifact.artifact_type = "bloom_filter"
                         THEN [planets[l] EXCEPT
                                 !.population = planets[l].population_cap,
                                 !.silver = planets[l].silver_cap]
                         ELSE planets[l]
             buff     == Buffs[artifact.artifact_type][artifact.rarity]
             buffed   == BuffPlanet(filled, buff)
  <1>1. /\ planets' = [planets EXCEPT ![l] = buffed] /\ UNCHANGED arrivals
        /\ artifact.is_initialized
    BY DEF ActivateArtifact
  <1>2. artifact.artifact_type \in ArtifactTypes /\ artifact.rarity \in Rarities
    BY <1>1, IdsApart, PlaceTypes DEF PInv, QInv, TInv, ArtifactsKnown
  <1>3. planets[l] \in Planet
    BY PlaceTypes DEF PInv
  <1>4. filled \in Planet /\ Kept(planets[l], filled)
    BY <1>3 DEF Planet, Kept, Lively, Manned, Held
  <1>5. buff \in BuffRecord
    BY <1>2, BuffsType
  <1> HIDE DEF filled, buff
  <1>6. SamePlace(filled, buffed) /\ Lively(filled, buffed)
    BY <1>2, <1>4, <1>5, BuffKeeps, NeutralCaps DEF buff
  <1> HIDE DEF buffed
  <1>7. Kept(planets[l], buffed)
    BY <1>4, <1>6 DEF SamePlace, Kept, Lively, Held
  <1> QED
    BY <1>1, <1>7, HoldOne

LEMMA HDeactivateArtifact ==
  ASSUME PInv, NEW player \in Players, NEW l \in Planets,
         DeactivateArtifact(player, l)
  PROVE  HStep
  <1> DEFINE id       == ActiveIn(planet_artifacts[l])
             debuffed == Debuffed(planets[l], artifacts[id])
  <1>1. planets' = [planets EXCEPT ![l] = debuffed] /\ id # NoArtifact
        /\ UNCHANGED arrivals
    BY DEF DeactivateArtifact
  <1>2. artifacts[id].artifact_type \in ArtifactTypes
        /\ artifacts[id].rarity \in Rarities
    BY <1>1, QTyped, ActiveFound DEF PInv
  <1>3. planets[l] \in Planet
    BY PlaceTypes DEF PInv
  <1> HIDE DEF id
  <1>4. SamePlace(planets[l], debuffed) /\ Lively(planets[l], debuffed)
    BY <1>2, <1>3, DebuffedType, NeutralCaps DEF Debuffed
  <1> HIDE DEF debuffed
  <1>5. Kept(planets[l], debuffed)
    BY <1>4 DEF SamePlace, Kept, Manned, Held
  <1> QED
    BY <1>1, <1>5, HoldOne

\* What a departure does to planets, w being the storage it departs from.
LEMMA HDepart ==
  ASSUME PInv, NEW w, Lawful(World, w), NEW from \in Planets, NEW arrival, NEW slots,
         NEW origin \in Planet, Sailed(w, from, arrival, slots),
         LeftAlone(w, from, origin),
         Kept(w.planets[from], origin) \/ Abandoned(from, w.planets[from], origin)
  PROVE  HStep
  <1>1. \A a \in ArrivalIds : Live(a) => arrivals'[a] = w.arrivals[a]
    <2>1. ~Live(next_arrival_id)
      BY DEF Sailed, PInv, QInv, TInv, TypeOK, QueueExact
    <2> QED
      BY <2>1 DEF Sailed
  <1>2. \/ Kept(w.planets[from], planets'[from])
        \/ Abandoned(from, w.planets[from], planets'[from])
    <2>1. /\ planets'[from].owner = origin.owner
          /\ planets'[from].population = origin.population
          /\ planets'[from].is_initialized = origin.is_initialized
          /\ planets'[from].population_cap = origin.population_cap
      BY DEF LeftAlone, Planet
    <2> QED
      BY <2>1 DEF Kept, Abandoned, Lively, Held
  <1>3. \A k \in Planets \ {from} : \/ Kept(w.planets[k], planets'[k])
                                    \/ Made(w.planets[k], planets'[k])
    <2>1. \A k \in Planets : NewPlanet(k, Zero, FALSE).owner = Zero
      BY DEF NewPlanet, DefaultPlanet
    <2>2. ASSUME NEW k \in Planets, ~w.planets[k].is_initialized,
                 planets'[k] = NewPlanet(k, Zero, FALSE)
          PROVE  Made(w.planets[k], planets'[k])
      BY <2>1, <2>2, NewPlanetCap DEF Made, Held
    <2>3. ASSUME NEW k \in Planets, planets'[k] = w.planets[k]
          PROVE  Kept(w.planets[k], planets'[k])
      BY <2>3 DEF Kept, Lively, Manned, Held
    <2> QED
      BY <2>2, <2>3 DEF LeftAlone
  <1> QED
    BY <1>1, <1>2, <1>3, HoldStep

LEMMA HSendShip ==
  ASSUME PInv, NEW player \in Players, NEW from \in Planets, NEW to \in Planets,
         NEW ship \in ShipIds, SendShip(player, from, to, ship)
  PROVE  HStep
  <1> DEFINE w      == Settled(from, to)
             origin == Unmoored(w, from, ship)
             counts == CountsWithout(w, from, ship)
             slots  == w.planet_artifacts[from]
             type   == IF ByWormhole(w, from, to) THEN "wormhole" ELSE "normal"
  <1>1. PICK time \in TravelTimes :
          Depart(w, from, to, origin,
                 Flight(Zero, from, to, 0, 0, ship, type, time), slots, counts)
    BY DEF SendShip
  <1> DEFINE arrival == Flight(Zero, from, to, 0, 0, ship, type, time)
  <1>2. MayDepart
    BY DEF SendShip
  <1>3. Lawful(World, w) /\ GoodWorld(w) /\ TypedWorld(w) /\ QInv /\ TInv
    BY SettledLawful, QTyped DEF PInv, GoodWorld
  <1>4. type \in ArrivalTypes
    BY DEF ArrivalTypes
  <1> HIDE DEF w, type
  <1>5. slots \in [ArtifactSlots -> ArtifactIds \cup {NoArtifact}]
    BY <1>3, TypedParts
  <1>6. arrival \in Arrival /\ block < arrival.arrival_block
    <2>1. ship \in ArtifactIds \cup {NoArtifact}
      BY IdsApart
    <2>2. ArrivalBlock(time) \in Nat /\ block < ArrivalBlock(time)
      BY <1>2, <1>3, ArrivesLater
    <2> QED
      BY <1>4, <2>1, <2>2 DEF Flight, Arrival, Addresses
  <1>7. origin \in Planet /\ Kept(w.planets[from], origin)
    <2>1. Kept(w.planets[from], Origin(w, from))
      BY <1>3, OriginKept
    <2>2. /\ origin \in Planet /\ origin.owner = w.planets[from].owner
          /\ origin.population = Origin(w, from).population
          /\ origin.population_cap = Origin(w, from).population_cap
          /\ origin.is_initialized = w.planets[from].is_initialized
      BY <1>3, UnmooredKeeps
    <2> HIDE DEF origin
    <2> QED
      BY <2>1, <2>2 DEF Kept, Lively, Held
  <1> HIDE DEF origin, counts, arrival
  <1>8. Sailed(w, from, arrival, slots) /\ LeftAlone(w, from, origin)
    BY <1>1, <1>2, <1>3, <1>5, <1>6, <1>7, DepartEffect DEF arrival
  <1> QED
    BY <1>3, <1>7, <1>8, HDepart

\* An abandoned planet has nothing on its way to it, because its queue holds all
\* that is.
LEMMA HSendFleet ==
  ASSUME PInv, NEW player \in Players, NEW from \in Planets, NEW to \in Planets,
         NEW abandoning \in BOOLEAN, SendFleet(player, from, to, abandoning)
  PROVE  HStep
  <1> DEFINE w     == Settled(from, to)
             slots == SlotsOfFleet(w, from)
  <1>1. Lawful(World, w) /\ GoodWorld(w) /\ QInv
    BY SettledLawful DEF PInv
  <1>2. PICK arrival \in Arrival, left \in Planet :
          /\ Sailed(w, from, arrival, slots)
          /\ LeftAlone(w, from, left)
          /\ FleetLeft(w, from, left, player, abandoning)
    BY <1>1, FleetEffect
  <1> HIDE DEF w, slots
  <1>3. CASE ~abandoning
    <2>1. Kept(w.planets[from], left)
      BY <1>2, <1>3 DEF FleetLeft, Kept, Held
    <2> QED
      BY <1>1, <1>2, <2>1, HDepart
  <1>4. CASE abandoning
    <2>1. ASSUME NEW a \in ArrivalIds, Live(a), arrivals[a].to_planet = from
          PROVE  Lands(a)
      <3>1. ~Alive(w, a)
        <4>1. Alive(w, a) => w.arrivals[a] = arrivals[a]
          BY <1>1, EmptyNotAlive, WorldFields DEF Lawful, Alive
        <4>2. Alive(w, a) => Holds(w.planet_arrivals[from], a)
          BY <1>1, <2>1, <4>1 DEF GoodWorld, Queued
        <4>3. w.planet_arrivals[from] \in [Slots -> ArrivalIds \cup {0}]
          BY <1>1, TypedParts DEF GoodWorld
        <4>4. a # 0
          BY DEF ArrivalIds
        <4> QED
          BY <1>2, <1>4, <4>2, <4>3, <4>4 DEF FleetLeft, Holds
      <3>2. a # next_arrival_id
        BY <1>1, <2>1 DEF QInv, TInv, TypeOK, QueueExact
      <3>3. arrivals'[a] = w.arrivals[a]
        BY <1>2, <3>2 DEF Sailed
      <3> QED
        BY <2>1, <3>1, <3>3 DEF Lands, Alive
    <2>2. Abandoned(from, w.planets[from], left)
      BY <1>2, <1>4, <2>1 DEF FleetLeft, Abandoned
    <2> QED
      BY <1>1, <1>2, <2>2, HDepart
  <1> QED
    BY <1>3, <1>4

LEMMA HStutter == ASSUME PInv, UNCHANGED vars PROVE HStep
  BY HoldSame DEF vars, fleetVars

LEMMA HNext == ASSUME PInv, Next PROVE HStep
  <1>1. CASE NextBlock
    BY <1>1, HoldSame DEF NextBlock, fleetVars
  <1>2. CASE FleetNext
    BY <1>2, HInitPlayer, HRevealNewPlanet, HSendFleet, HResolveArrival,
       HResolvePlanet, HUpgradePlanet DEF FleetNext
  <1>3. CASE ShipNext
    <2>1. ASSUME NEW p \in Players, NEW l \in Planets, GiveSpaceShips(p, l)
          PROVE  HStep
      BY <2>1, HoldSame DEF GiveSpaceShips
    <2> QED
      BY <1>3, <2>1, HSendShip, HActivateCrescent DEF ShipNext
  <1>4. CASE ArtifactNext
    <2>1. ASSUME NEW p \in Players, NEW l \in Planets, ProspectPlanet(p, l)
          PROVE  HStep
      BY <2>1, HoldSame DEF ProspectPlanet, fleetVars
    <2>2. ASSUME NEW p \in Players, NEW l \in Planets, NEW type \in ArtifactTypes,
                 NEW rarity \in Rarities, FindArtifact(p, l, type, rarity)
          PROVE  HStep
      BY <2>2, HoldSame DEF FindArtifact
    <2>3. ASSUME NEW p \in Players, NEW l \in Planets, NEW id \in FoundIds,
                 DepositArtifact(p, l, id) \/ WithdrawArtifact(p, l, id)
          PROVE  HStep
      BY <2>3, HoldSame DEF DepositArtifact, WithdrawArtifact
    <2> QED
      BY <1>4, <2>1, <2>2, <2>3, HActivateArtifact, HDeactivateArtifact
         DEF ArtifactNext
  <1> QED
    BY <1>1, <1>2, <1>3, <1>4 DEF Next

\* A planet changes hands only by an arrival of its new owner that lands, or by
\* being abandoned with nothing on its way to it.
THEOREM OwnersCorrect == Spec => OwnersChangeByArms
  <1>1. PInv /\ [Next]_vars => [OwnersStep]_vars
    BY HNext DEF HStep
  <1>2. Spec => [][OwnersStep]_vars
    BY <1>1, PlacesInductive, PTL DEF Spec
  <1>3. OwnersChangeByArms <=> [][OwnersStep]_vars
    BY DEF OwnersChangeByArms, OwnersStep
  <1> QED
    BY <1>2, <1>3, PTL

\* As long as no population cap has come down to 0, no planet that belongs to
\* someone is empty.  A Monolith can bring one down: activated on one planet,
\* withdrawn, and deactivated on another, it takes from the second what it gave
\* the first.  A bloom filter then fills the planet with nobody.
THEOREM GarrisonsHold == Spec /\ []Habitable => []OwnedPopulated
  <1>1. Init => OwnedPopulated
    BY DEF Init, OwnedPopulated, NoPlanet
  <1>2. PInv /\ Habitable /\ OwnedPopulated /\ [Next]_vars => OwnedPopulated'
    BY HNext, HStutter DEF HStep
  <1> QED
    BY <1>1, <1>2, PlacesInductive, PTL DEF Spec

\* In a game without Monoliths none does: no planet of anyone is ever empty.
THEOREM GarrisonsHoldWithoutMonoliths ==
  ASSUME Neutral PROVE Spec => []OwnedPopulated
  <1>1. Init => Habitable
    BY DEF Init, Habitable, NoPlanet
  <1>2. PInv /\ Habitable /\ [Next]_vars => Habitable'
    BY HNext, HStutter DEF HStep
  <1>3. Spec => []Habitable
    BY <1>1, <1>2, PlacesInductive, PTL DEF Spec
  <1> QED
    BY <1>3, GarrisonsHold, PTL

-----------------------------------------------------------------------------
(* What landings do to the statistics of planets. *)

\* The growth of l is g, doubled if a Mothership is there.
Doubled(w, l, g) ==
    w.planets[l].population_growth =
        (IF w.ship_counts[l]["mothership"] > 0 THEN 2 ELSE 1) * g

\* Cap and defense of x are those of w, and growth is doubled in x if it was in w.
Unvaried(w, x) ==
    \A l \in Planets :
        /\ x.planets[l].population_cap = w.planets[l].population_cap
        /\ x.planets[l].defense = w.planets[l].defense
        /\ \A g \in Nat : Doubled(w, l, g) => Doubled(x, l, g)

\* A slot that is taken stays as it is, what comes into a free one was on its way,
\* and whatever still is on its way was.
Unpacked(w, x) ==
    /\ \A l \in Planets, i \in ArtifactSlots :
         \/ x.planet_artifacts[l][i] = w.planet_artifacts[l][i]
         \/ /\ w.planet_artifacts[l][i] = NoArtifact
            /\ \E a \in ArrivalIds : Aboard(w, a, x.planet_artifacts[l][i])
    /\ \A a \in ArrivalIds : Alive(x, a) => x.arrivals[a] = w.arrivals[a]

Steady(w, x) == Unvaried(w, x) /\ Unpacked(w, x)

LEMMA UnvariedTransitive ==
  ASSUME NEW w, NEW x, NEW y, Unvaried(w, x), Unvaried(x, y)
  PROVE  Unvaried(w, y)
  BY DEF Unvaried

LEMMA SteadyTransitive ==
  ASSUME NEW w, NEW x, NEW y, Steady(w, x), Steady(x, y)
  PROVE  Steady(w, y)
  <1>1. Unvaried(w, y)
    BY UnvariedTransitive DEF Steady
  <1>2. \A id : \A a \in ArrivalIds : Aboard(x, a, id) => Aboard(w, a, id)
    BY DEF Steady, Unpacked, Aboard, Alive
  <1>3. Unpacked(w, y)
    BY <1>2 DEF Steady, Unpacked, Alive
  <1> QED
    BY <1>1, <1>3 DEF Steady

LEMMA SteadyReflexive == ASSUME NEW w PROVE Steady(w, w)
  BY DEF Steady, Unvaried, Unpacked

LEMMA RefreshSteady ==
  ASSUME NEW planet \in Planet, NEW pausers, NEW until
  PROVE  LET fresh == Refresh(planet, pausers, until) IN
         /\ fresh.population_cap = planet.population_cap
         /\ fresh.defense = planet.defense
         /\ fresh.population_growth = planet.population_growth
  BY DEF Refresh, Planet

LEMMA LandedSteady ==
  ASSUME NEW planet \in Planet, NEW pausers, NEW arrival
  PROVE  LET landed == Landed(planet, pausers, arrival) IN
         /\ landed.population_cap = planet.population_cap
         /\ landed.defense = planet.defense
         /\ landed.population_growth = planet.population_growth
  <1> DEFINE aged  == Refresh(planet, pausers, arrival.arrival_block)
             clash == Clash(aged, arrival.player, arrival.pop_arriving,
                            arrival.arrival_type)
             held  == Capped(aged, pausers, clash.population)
             full  == Least(aged.silver + arrival.silver_moved, aged.silver_cap)
  <1>1. /\ aged.population_cap = planet.population_cap
        /\ aged.defense = planet.defense
        /\ aged.population_growth = planet.population_growth
    BY RefreshSteady
  <1>2. Landed(planet, pausers, arrival) =
          [aged EXCEPT !.owner = clash.owner, !.population = held, !.silver = full,
                       !.last_updated = arrival.arrival_block]
    BY DEF Landed
  <1>3. "population_cap" \in DOMAIN aged /\ "defense" \in DOMAIN aged
        /\ "population_growth" \in DOMAIN aged
    BY DEF Refresh, Planet
  <1> HIDE DEF aged, clash, held, full
  <1> QED
    BY <1>1, <1>2, <1>3

\* A Mothership that docks where there is none doubles the growth, and is counted.
LEMMA DockedDoubled ==
  ASSUME NEW planet \in Planet, NEW ship \in EffectShips,
         NEW counts \in [EffectShips -> Nat], NEW g \in Nat,
         planet.population_growth = (IF counts["mothership"] > 0 THEN 2 ELSE 1) * g
  PROVE  LET docked == Docked(planet, ship, counts[ship])
             more   == [counts EXCEPT ![ship] = @ + 1]
         IN  /\ docked.population_cap = planet.population_cap
             /\ docked.defense = planet.defense
             /\ docked.population_growth =
                  (IF more["mothership"] > 0 THEN 2 ELSE 1) * g
  <1>1. "mothership" \in EffectShips
    BY DEF EffectShips
  <1>2. CASE ship = "mothership"
    <2>1. counts[ship] \in Nat
      OBVIOUS
    <2>2. [counts EXCEPT ![ship] = @ + 1]["mothership"] = counts[ship] + 1
      BY <1>1, <1>2
    <2>3. planet.population_growth \in Nat
      BY DEF Planet
    <2>4. Docked(planet, ship, counts[ship]).population_growth =
            IF counts[ship] = 0 THEN 2 * planet.population_growth
                                ELSE planet.population_growth
      BY <1>2 DEF Docked, Planet
    <2>5. /\ Docked(planet, ship, counts[ship]).population_cap = planet.population_cap
          /\ Docked(planet, ship, counts[ship]).defense = planet.defense
      BY DEF Docked, Planet
    <2> QED
      BY <1>2, <2>1, <2>2, <2>3, <2>4, <2>5
  <1>3. CASE ship # "mothership"
    <2>1. [counts EXCEPT ![ship] = @ + 1]["mothership"] = counts["mothership"]
      BY <1>1, <1>3
    <2>2. /\ Docked(planet, ship, counts[ship]).population_growth
               = planet.population_growth
          /\ Docked(planet, ship, counts[ship]).population_cap = planet.population_cap
          /\ Docked(planet, ship, counts[ship]).defense = planet.defense
      BY <1>3 DEF Docked, Planet
    <2> QED
      BY <2>1, <2>2
  <1> QED
    BY <1>2, <1>3

LEMMA UnloadUnvaried ==
  ASSUME NEW w \in Worlds, NEW l \in Planets, NEW id \in ArtifactIds \cup {NoArtifact}
  PROVE  Unvaried(w, Unload(w, l, id))
  <1> DEFINE x      == Unload(w, l, id)
             ship   == id[2]
             counts == w.ship_counts[l]
             docked == Docked(w.planets[l], ship, counts[ship])
             more   == [counts EXCEPT ![ship] = @ + 1]
  <1>1. /\ w.planets \in [Planets -> Planet]
        /\ w.ship_counts \in [Planets -> [EffectShips -> Nat]]
    BY DEF Worlds
  <1>2. CASE id = NoArtifact \/ ~Affects(id, w.planets[l])
    <2>1. x.planets = w.planets /\ x.ship_counts = w.ship_counts
      BY <1>2 DEF Unload, Worlds
    <2> HIDE DEF x
    <2>2. Unvaried(w, x)
      BY <2>1 DEF Unvaried, Doubled
    <2> QED
      BY <2>2 DEF x
  <1>3. CASE id # NoArtifact /\ Affects(id, w.planets[l])
    <2>1. ship \in EffectShips
      BY <1>3 DEF Affects
    <2>2. /\ x.planets = [w.planets EXCEPT ![l] = docked]
          /\ x.ship_counts = [w.ship_counts EXCEPT ![l] = more]
      BY <1>3 DEF Unload, Worlds
    <2>3. /\ docked.population_cap = w.planets[l].population_cap
          /\ docked.defense = w.planets[l].defense
      BY <1>1 DEF Docked, Planet
    <2>4. ASSUME NEW g \in Nat,
                 w.planets[l].population_growth =
                   (IF counts["mothership"] > 0 THEN 2 ELSE 1) * g
          PROVE  docked.population_growth =
                   (IF more["mothership"] > 0 THEN 2 ELSE 1) * g
      <3>1. w.planets[l] \in Planet /\ counts \in [EffectShips -> Nat]
        BY <1>1
      <3> HIDE DEF counts, ship
      <3> QED
        BY <2>1, <2>4, <3>1, DockedDoubled
    <2> HIDE DEF x, docked, more, ship
    <2>5. \A k \in Planets :
            /\ x.planets[k] = IF k = l THEN docked ELSE w.planets[k]
            /\ x.ship_counts[k] = IF k = l THEN more ELSE w.ship_counts[k]
      BY <1>1, <2>2
    <2>6. Unvaried(w, x)
      BY <2>3, <2>4, <2>5 DEF Unvaried, Doubled, counts
    <2> QED
      BY <2>6 DEF x
  <1> QED
    BY <1>2, <1>3

LEMMA ExecuteUnvaried ==
  ASSUME block \in Nat, NEW w, TypedWorld(w), NEW a \in ArrivalIds, CanLand(w, a)
  PROVE  Unvaried(w, ExecuteArrival(w, a))
  <1> DEFINE arrival == w.arrivals[a]
             l       == arrival.to_planet
             cargo   == arrival.carried_artifact_id
             planet  == Landed(w.planets[l], Pausers(w, l), arrival)
             queue   == Cleared(w.planet_arrivals[l], a)
             landed  == [w EXCEPT !.planets[l] = planet,
                                  !.planet_arrivals[l] = queue,
                                  !.arrivals[a] = EmptyArrival]
  <1>1. arrival \in Arrival /\ l \in Planets /\ w \in Worlds
    BY DEF CanLand, TypedWorld, Worlds, BoundIn
  <1>2. /\ planet \in Planet
        /\ planet.population_cap = w.planets[l].population_cap
        /\ planet.defense = w.planets[l].defense
        /\ planet.population_growth = w.planets[l].population_growth
    <2>1. /\ arrival.player \in Players \cup {Zero}
          /\ arrival.pop_arriving \in Nat /\ arrival.silver_moved \in Nat
          /\ arrival.arrival_block \in Nat
      BY <1>1 DEF Arrival, Addresses
    <2>2. Hostile(w.planets[l], arrival.player, arrival.arrival_type)
            => w.planets[l].defense # 0
      BY DEF CanLand
    <2>3. w.planets[l] \in Planet /\ Pausers(w, l) \in Nat
      BY <1>1, TypedParts
    <2> HIDE DEF l, arrival
    <2>4. planet \in Planet
      BY <2>1, <2>2, <2>3, LandedKeeps
    <2> QED
      BY <2>3, <2>4, LandedSteady
  <1>3. queue \in [Slots -> ArrivalIds \cup {0}]
    BY <1>1, TypedParts, ClearedType
  <1> HIDE DEF planet, queue
  <1>4. /\ landed \in Worlds
        /\ landed.planets = [w.planets EXCEPT ![l] = planet]
        /\ landed.ship_counts = w.ship_counts
    BY <1>1, <1>2, <1>3, EmptyArrivalType DEF Worlds
  <1>5. ExecuteArrival(w, a) = Unload(landed, l, cargo)
    BY DEF ExecuteArrival, planet, queue
  <1>6. cargo \in ArtifactIds \cup {NoArtifact}
    BY <1>1 DEF Arrival
  <1>7. w.planets \in [Planets -> Planet]
    BY TypedParts
  <1> HIDE DEF landed, l, arrival, cargo
  <1>8. Unvaried(w, landed)
    BY <1>1, <1>2, <1>4, <1>7 DEF Unvaried, Doubled
  <1>9. Unvaried(landed, Unload(landed, l, cargo))
    BY <1>1, <1>4, <1>6, UnloadUnvaried
  <1> QED
    BY <1>5, <1>8, <1>9, UnvariedTransitive

LEMMA ExecuteSteady ==
  ASSUME block \in Nat, NEW w, TypedWorld(w), NEW a \in ArrivalIds, CanLand(w, a)
  PROVE  Steady(w, ExecuteArrival(w, a))
  <1> DEFINE l     == w.arrivals[a].to_planet
             cargo == w.arrivals[a].carried_artifact_id
             x     == ExecuteArrival(w, a)
  <1>1. /\ \A b \in ArrivalIds :
             x.arrivals[b] = IF b = a THEN EmptyArrival ELSE w.arrivals[b]
        /\ cargo = NoArtifact => x.planet_artifacts = w.planet_artifacts
        /\ cargo # NoArtifact => Unloaded(w, x, l, cargo)
    BY ExecuteCargo
  <1>2. Aboard(w, a, cargo)
    BY DEF CanLand, Aboard, Alive
  <1>3. Unvaried(w, x)
    BY ExecuteUnvaried
  <1> HIDE DEF l, cargo, x
  <1>4. \A b \in ArrivalIds : Alive(x, b) => x.arrivals[b] = w.arrivals[b]
    BY <1>1, EmptyNotAlive DEF Alive
  <1>5. Unpacked(w, x)
    BY <1>1, <1>2, <1>4 DEF Unpacked, Unloaded
  <1> QED
    BY <1>3, <1>5 DEF Steady, x

LEMMA RoundSteady ==
  ASSUME block \in Nat, NEW w, GoodWorld(w), NEW l \in Planets
  PROVE  Steady(w, Round(w, l)) /\ GoodWorld(Round(w, l))
  <1> DEFINE due == DueSlots(w, l, block)
             id  == EarliestId(w, l, due)
             x   == ExecuteArrival(w, id)
  <1>1. GoodWorld(Round(w, l))
    BY RoundAfter DEF After
  <1>2. CASE Done(w, l)
    BY <1>1, <1>2, SteadyReflexive DEF Round
  <1>3. CASE ~Done(w, l)
    <2>1. Round(w, l) = x /\ due # {} /\ w \in Worlds /\ TypedWorld(w)
      BY <1>3 DEF Round, Done, GoodWorld, TypedWorld
    <2>2. id \in ArrivalIds
      <3>1. /\ due \in SUBSET Slots
            /\ \A i \in due : w.planet_arrivals[l][i] \in ArrivalIds
        BY <2>1, DueIds
      <3> HIDE DEF due
      <3> QED
        BY <2>1, <3>1, EarliestFound
    <2> HIDE DEF id
    <2>3. CASE CanLand(w, id)
      BY <1>1, <2>1, <2>2, <2>3, ExecuteSteady
    <2>4. CASE ~CanLand(w, id)
      <3>1. x = [w EXCEPT !.ok = FALSE]
        BY <2>4 DEF ExecuteArrival
      <3> HIDE DEF x
      <3>2. /\ x.planets = w.planets /\ x.ship_counts = w.ship_counts
            /\ x.planet_artifacts = w.planet_artifacts /\ x.arrivals = w.arrivals
        BY <2>1, <3>1 DEF Worlds
      <3> QED
        BY <1>1, <2>1, <3>2 DEF Steady, Unvaried, Unpacked, Doubled
    <2> QED
      BY <2>3, <2>4
  <1> QED
    BY <1>2, <1>3

LEMMA ThreeRoundsSteady ==
  ASSUME block \in Nat, NEW w, GoodWorld(w), NEW l \in Planets
  PROVE  Steady(w, ThreeRounds(w, l)) /\ GoodWorld(ThreeRounds(w, l))
  <1> DEFINE x == Round(w, l)
             y == Round(x, l)
  <1>1. Steady(w, x) /\ GoodWorld(x)
    BY RoundSteady
  <1> HIDE DEF x
  <1>2. Steady(x, y) /\ GoodWorld(y)
    BY <1>1, RoundSteady
  <1> HIDE DEF y
  <1>3. Steady(y, Round(y, l)) /\ GoodWorld(Round(y, l))
    BY <1>2, RoundSteady
  <1>4. Steady(w, Round(y, l))
    BY <1>1, <1>2, <1>3, SteadyTransitive
  <1> QED
    BY <1>3, <1>4 DEF ThreeRounds, x, y

LEMMA ProcessSteady ==
  ASSUME block \in Nat, NEW w, GoodWorld(w), NEW l \in Planets
  PROVE  Steady(w, ProcessPending(w, l)) /\ GoodWorld(ProcessPending(w, l))
  <1>1. CASE Done(w, l)
    BY <1>1, SteadyReflexive DEF ProcessPending, Done
  <1>2. CASE ~Done(w, l)
    <2> DEFINE a == ThreeRounds(w, l)
               b == ThreeRounds(a, l)
               c == ThreeRounds(b, l)
               d == ThreeRounds(c, l)
    <2>1. Steady(w, a) /\ GoodWorld(a)
      BY ThreeRoundsSteady
    <2> HIDE DEF a
    <2>2. Steady(a, b) /\ GoodWorld(b)
      BY <2>1, ThreeRoundsSteady
    <2> HIDE DEF b
    <2>3. Steady(b, c) /\ GoodWorld(c)
      BY <2>2, ThreeRoundsSteady
    <2> HIDE DEF c
    <2>4. Steady(c, d) /\ GoodWorld(d)
      BY <2>3, ThreeRoundsSteady
    <2> HIDE DEF d
    <2>5. Steady(w, c)
      BY <2>1, <2>2, <2>3, SteadyTransitive
    <2>6. Steady(w, d)
      BY <2>4, <2>5, SteadyTransitive
    <2> QED
      BY <1>2, <2>4, <2>6 DEF ProcessPending, a, b, c, d
  <1> QED
    BY <1>1, <1>2

LEMMA SettledSteady ==
  ASSUME QInv, NEW from \in Planets, NEW to \in Planets
  PROVE  Steady(World, Settled(from, to)) /\ GoodWorld(Settled(from, to))
  <1> DEFINE x == ProcessPending(World, from)
             y == ProcessPending(x, to)
  <1>1. GoodWorld(World) /\ block \in Nat
    BY WorldGood
  <1>2. Steady(World, x) /\ GoodWorld(x)
    BY <1>1, ProcessSteady
  <1> HIDE DEF x
  <1>3. Steady(x, y) /\ GoodWorld(y)
    BY <1>1, <1>2, ProcessSteady
  <1> HIDE DEF y
  <1>4. Steady(World, y)
    BY <1>2, <1>3, SteadyTransitive
  <1> QED
    BY <1>3, <1>4 DEF Settled, x, y

-----------------------------------------------------------------------------
(* Queues that are not blocked. *)

\* The slots with due arrivals that bring an artifact or a ship.
DueCargo(w, l) ==
    {i \in DueSlots(w, l, block) :
        w.arrivals[w.planet_arrivals[l][i]].carried_artifact_id # NoArtifact}

\* No assertion stands in the way of what is due at l: the planet is there, it has
\* a defense, and a free slot for each artifact that comes.
Passable(w, l) ==
    /\ ~planet_destroyed[l]
    /\ w.planets[l].defense # 0
    /\ Cardinality(DueCargo(w, l)) <= Cardinality(Free(w.planet_artifacts[l]))

LEMMA CargoFinite ==
  ASSUME NEW w, NEW l
  PROVE  IsFiniteSet(DueCargo(w, l)) /\ Cardinality(DueCargo(w, l)) \in Nat
  <1>1. IsFiniteSet(DueSlots(w, l, block)) /\ DueCargo(w, l) \subseteq DueSlots(w, l, block)
    BY DueFinite DEF DueCargo
  <1>2. IsFiniteSet(DueCargo(w, l))
    BY <1>1, FS_Subset
  <1> QED
    BY <1>2, FS_CardinalityType

\* The earliest that is due can land, ...
LEMMA PassableLands ==
  ASSUME block \in Nat, NEW w, GoodWorld(w), NEW l \in Planets, Passable(w, l),
         NEW i \in DueSlots(w, l, block)
  PROVE  LET id == w.planet_arrivals[l][i] IN
         id \in ArrivalIds /\ w.arrivals[id].to_planet = l /\ CanLand(w, id)
  <1> DEFINE id == w.planet_arrivals[l][i]
  <1>1. i \in Slots /\ id # 0 /\ w.arrivals[id].arrival_block \in 1..block
    BY DEF DueSlots
  <1>2. id \in ArrivalIds
    <2>1. w.planet_arrivals \in [Planets -> [Slots -> ArrivalIds \cup {0}]]
      BY TypedParts DEF GoodWorld
    <2> QED
      BY <1>1, <2>1
  <1>3. w.arrivals[id].to_planet = l
    BY <1>1 DEF GoodWorld, Queued
  <1>4. w.arrivals[id].arrival_block # 0 /\ w.arrivals[id].arrival_block <= block
    BY <1>1
  <1>5. w.planets[l].last_updated <= w.arrivals[id].arrival_block
    BY <1>2, <1>3, <1>4 DEF GoodWorld, Clocked, Alive
  <1>6. ASSUME w.arrivals[id].carried_artifact_id # NoArtifact
        PROVE  Holds(w.planet_artifacts[l], NoArtifact)
    <2> DEFINE cargo == DueCargo(w, l)
               free  == Free(w.planet_artifacts[l])
    <2>1. i \in cargo
      BY <1>6 DEF DueCargo
    <2>2. IsFiniteSet(cargo) /\ Cardinality(cargo) \in Nat
      BY CargoFinite
    <2>3. Cardinality(cargo) <= Cardinality(free)
      BY DEF Passable
    <2>4. w.planet_artifacts \in
            [Planets -> [ArtifactSlots -> ArtifactIds \cup {NoArtifact}]]
      BY TypedParts DEF GoodWorld
    <2> HIDE DEF cargo
    <2>5. Cardinality(cargo) # 0
      BY <2>1, <2>2, FS_EmptySet
    <2>6. free # {}
      <3>1. Cardinality({}) = 0
        BY FS_EmptySet
      <3> QED
        BY <2>2, <2>3, <2>5, <3>1
    <2> QED
      BY <2>4, <2>6 DEF Free, Holds
  <1> HIDE DEF id
  <1>7. CanLand(w, id)
    <2>1. block >= w.arrivals[id].arrival_block
      BY <1>1
    <2> QED
      BY <1>3, <1>4, <1>5, <1>6, <2>1 DEF CanLand, Passable
  <1> QED
    BY <1>2, <1>3, <1>7 DEF id

\* ... and leaves room for the others.
LEMMA LandedPassable ==
  ASSUME block \in Nat, NEW w, GoodWorld(w), NEW l \in Planets, Passable(w, l),
         NEW i \in DueSlots(w, l, block)
  PROVE  LET x == ExecuteArrival(w, w.planet_arrivals[l][i]) IN
         x.ok = w.ok /\ Passable(x, l)
  <1> DEFINE id    == w.planet_arrivals[l][i]
             x     == ExecuteArrival(w, id)
             cargo == w.arrivals[id].carried_artifact_id
  <1>1. /\ id \in ArrivalIds /\ w.arrivals[id].to_planet = l /\ CanLand(w, id)
        /\ TypedWorld(w) /\ i \in Slots
    BY PassableLands DEF GoodWorld, DueSlots
  <1> HIDE DEF id
  <1>2. /\ x.arrivals = [w.arrivals EXCEPT ![id] = EmptyArrival]
        /\ x.planet_arrivals = [w.planet_arrivals EXCEPT ![l] = Cleared(@, id)]
        /\ x.ok = w.ok
    BY <1>1, ExecuteEffect
  <1>3. /\ cargo \in ArtifactIds \cup {NoArtifact}
        /\ cargo = NoArtifact => x.planet_artifacts = w.planet_artifacts
        /\ cargo # NoArtifact => Unloaded(w, x, l, cargo)
    BY <1>1, ExecuteCargo
  <1>4. x.planets[l].defense = w.planets[l].defense
    BY <1>1, ExecuteSteady DEF Steady, Unvaried
  <1> HIDE DEF x
  <1>5. \A j \in Slots : x.planet_arrivals[l][j] =
          IF w.planet_arrivals[l][j] = id THEN 0 ELSE w.planet_arrivals[l][j]
    <2>1. w.planet_arrivals \in [Planets -> [Slots -> ArrivalIds \cup {0}]]
      BY <1>1, TypedParts
    <2>2. \A m, n \in Slots : w.planet_arrivals[l][m] # 0 /\ m # n =>
            w.planet_arrivals[l][m] # w.planet_arrivals[l][n]
      BY DEF GoodWorld, Queued
    <2>3. w.planet_arrivals[l] \in [Slots -> ArrivalIds \cup {0}]
      BY <2>1
    <2>4. x.planet_arrivals[l] = Cleared(w.planet_arrivals[l], id)
      BY <1>2, <2>1
    <2> QED
      BY <1>1, <2>2, <2>3, <2>4, ClearedExact
  <1>6. DueCargo(x, l) \subseteq DueCargo(w, l) \ {i}
    <2> SUFFICES ASSUME NEW j \in DueCargo(x, l)
                 PROVE  j \in DueCargo(w, l) /\ j # i
      OBVIOUS
    <2> DEFINE v == w.planet_arrivals[l][j]
    <2>1. j \in Slots /\ x.planet_arrivals[l][j] # 0
      BY DEF DueCargo, DueSlots
    <2>2. v # id /\ x.planet_arrivals[l][j] = v /\ v # 0
      BY <1>5, <2>1
    <2>3. v \in ArrivalIds /\ w.arrivals \in [ArrivalIds -> Arrival]
      <3>1. /\ w.planet_arrivals \in [Planets -> [Slots -> ArrivalIds \cup {0}]]
            /\ w.arrivals \in [ArrivalIds -> Arrival]
        BY <1>1, TypedParts
      <3> QED
        BY <2>1, <2>2, <3>1
    <2> HIDE DEF v
    <2>4. x.arrivals[v] = w.arrivals[v]
      BY <1>2, <2>2, <2>3
    <2>5. j # i
      BY <2>2 DEF v, id
    <2> QED
      BY <2>1, <2>2, <2>4, <2>5 DEF DueCargo, DueSlots, v
  <1>7. /\ IsFiniteSet(DueCargo(w, l)) /\ Cardinality(DueCargo(w, l)) \in Nat
        /\ IsFiniteSet(DueCargo(x, l)) /\ Cardinality(DueCargo(x, l)) \in Nat
    BY CargoFinite
  <1>8. Cardinality(DueCargo(x, l)) <= Cardinality(Free(x.planet_artifacts[l]))
    <2>1. CASE cargo = NoArtifact
      <3>1. x.planet_artifacts = w.planet_artifacts
        BY <1>3, <2>1
      <3>2. Cardinality(DueCargo(x, l)) <= Cardinality(DueCargo(w, l))
        BY <1>6, <1>7, FS_Subset
      <3>3. Cardinality(Free(w.planet_artifacts[l])) \in Nat
        BY FreeFinite
      <3>4. Cardinality(DueCargo(w, l)) <= Cardinality(Free(w.planet_artifacts[l]))
        BY DEF Passable
      <3> QED
        BY <1>7, <3>1, <3>2, <3>3, <3>4
    <2>2. CASE cargo # NoArtifact
      <3> DEFINE old == Free(w.planet_artifacts[l])
                 new == Free(x.planet_artifacts[l])
      <3>1. PICK s \in ArtifactSlots :
              /\ w.planet_artifacts[l][s] = NoArtifact
              /\ \A k \in Planets, j \in ArtifactSlots :
                   x.planet_artifacts[k][j] =
                     IF k = l /\ j = s THEN cargo ELSE w.planet_artifacts[k][j]
        BY <1>3, <2>2 DEF Unloaded
      <3>2. new = old \ {s} /\ s \in old
        BY <2>2, <3>1 DEF Free
      <3>3. i \in DueCargo(w, l)
        BY <2>2 DEF DueCargo, id
      <3>4. IsFiniteSet(old) /\ Cardinality(old) \in Nat
        BY FreeFinite
      <3>5. Cardinality(DueCargo(w, l)) <= Cardinality(old)
        BY DEF Passable
      <3> HIDE DEF old, new
      <3>6. Cardinality(new) = Cardinality(old) - 1
        BY <3>2, <3>4, FS_RemoveElement
      <3>7. /\ IsFiniteSet(DueCargo(w, l) \ {i})
            /\ Cardinality(DueCargo(w, l) \ {i}) = Cardinality(DueCargo(w, l)) - 1
        BY <1>7, <3>3, FS_RemoveElement
      <3>8. Cardinality(DueCargo(x, l)) <= Cardinality(DueCargo(w, l) \ {i})
        BY <1>6, <3>7, FS_Subset
      <3>9. Cardinality(DueCargo(x, l)) <= Cardinality(new)
        BY <1>7, <3>4, <3>5, <3>6, <3>7, <3>8
      <3> QED
        BY <3>9 DEF new
    <2> QED
      BY <2>1, <2>2
  <1> QED
    BY <1>2, <1>4, <1>8 DEF Passable, x, id

LEMMA RoundPasses ==
  ASSUME block \in Nat, NEW w, GoodWorld(w), NEW l \in Planets, w.ok, Passable(w, l)
  PROVE  /\ GoodWorld(Round(w, l)) /\ Round(w, l).ok
         /\ Passable(Round(w, l), l)
  <1> DEFINE due == DueSlots(w, l, block)
             id  == EarliestId(w, l, due)
  <1>1. GoodWorld(Round(w, l))
    BY RoundAfter DEF After
  <1>2. CASE Done(w, l)
    BY <1>1, <1>2 DEF Round
  <1>3. CASE ~Done(w, l)
    <2>1. Round(w, l) = ExecuteArrival(w, id) /\ due # {} /\ w \in Worlds
          /\ TypedWorld(w)
      BY <1>3 DEF Round, Done, GoodWorld, TypedWorld
    <2>2. \E i \in due : id = w.planet_arrivals[l][i]
      <3>1. /\ due \in SUBSET Slots
            /\ \A i \in due : w.planet_arrivals[l][i] \in ArrivalIds
        BY <2>1, DueIds
      <3> HIDE DEF due
      <3> QED
        BY <2>1, <3>1, EarliestFound
    <2> HIDE DEF id
    <2>3. PICK i \in due : id = w.planet_arrivals[l][i]
      BY <2>2
    <2>4. LET x == ExecuteArrival(w, w.planet_arrivals[l][i]) IN
          x.ok = w.ok /\ Passable(x, l)
      BY LandedPassable
    <2> QED
      BY <1>1, <2>1, <2>3, <2>4
  <1> QED
    BY <1>2, <1>3

LEMMA ThreeRoundsPass ==
  ASSUME block \in Nat, NEW w, GoodWorld(w), NEW l \in Planets, w.ok, Passable(w, l)
  PROVE  /\ GoodWorld(ThreeRounds(w, l)) /\ ThreeRounds(w, l).ok
         /\ Passable(ThreeRounds(w, l), l)
  <1> DEFINE x == Round(w, l)
             y == Round(x, l)
  <1>1. GoodWorld(x) /\ x.ok /\ Passable(x, l)
    BY RoundPasses
  <1> HIDE DEF x
  <1>2. GoodWorld(y) /\ y.ok /\ Passable(y, l)
    BY <1>1, RoundPasses
  <1> HIDE DEF y
  <1>3. GoodWorld(Round(y, l)) /\ Round(y, l).ok /\ Passable(Round(y, l), l)
    BY <1>2, RoundPasses
  <1> QED
    BY <1>3 DEF ThreeRounds, x, y

LEMMA ProcessPasses ==
  ASSUME block \in Nat, NEW w, GoodWorld(w), NEW l \in Planets, w.ok, Passable(w, l)
  PROVE  ProcessPending(w, l).ok
  <1> DEFINE a == ThreeRounds(w, l)
             b == ThreeRounds(a, l)
             c == ThreeRounds(b, l)
             d == ThreeRounds(c, l)
  <1>1. GoodWorld(a) /\ a.ok /\ Passable(a, l)
    BY ThreeRoundsPass
  <1> HIDE DEF a
  <1>2. GoodWorld(b) /\ b.ok /\ Passable(b, l)
    BY <1>1, ThreeRoundsPass
  <1> HIDE DEF b
  <1>3. GoodWorld(c) /\ c.ok /\ Passable(c, l)
    BY <1>2, ThreeRoundsPass
  <1> HIDE DEF c
  <1>4. d.ok
    BY <1>3, ThreeRoundsPass
  <1> QED
    BY <1>4 DEF ProcessPending, a, b, c, d

\* Whatever is due at a planet can be landed, unless the planet is destroyed or has
\* no defense, or more artifacts come than there is room for: no other assertion
\* of execute_arrival ever stands in the way of process_pending_arrivals.
THEOREM QueuesPass ==
  Spec => [](\A l \in Planets : Passable(World, l) => ProcessPending(World, l).ok)
  <1>1. QInv => \A l \in Planets : Passable(World, l) => ProcessPending(World, l).ok
    <2> SUFFICES ASSUME QInv, NEW l \in Planets, Passable(World, l)
                 PROVE  ProcessPending(World, l).ok
      OBVIOUS
    <2>1. GoodWorld(World) /\ block \in Nat /\ World.ok
      BY WorldGood DEF World
    <2> QED
      BY <2>1, ProcessPasses
  <1> QED
    BY <1>1, QueuesInductive, PTL

-----------------------------------------------------------------------------
(* Statistics that nobody changes. *)

\* No one upgrades l or gives or takes a buff of an artifact there, whatever its
\* type: in actions 3, 12 and 13, or by the firing of a cannon.
Unbuilt(l) ==
    \A p \in Players :
        /\ \A b \in Branches : ~UpgradePlanet(p, l, b)
        /\ \A id \in FoundIds, target \in Planets \cup {Nowhere} :
             ~ActivateArtifact(p, l, id, target)
        /\ ~DeactivateArtifact(p, l)
        /\ \A to \in Planets, abandoning \in BOOLEAN :
             SendFleet(p, l, to, abandoning) => ~Firing(Settled(l, to), l)

\* The statistics of l stay, but for a Mothership that comes or goes, ...
Even(l) ==
    /\ planets'[l].is_initialized = planets[l].is_initialized
    /\ planets'[l].population_cap = planets[l].population_cap
    /\ planets'[l].defense = planets[l].defense
    /\ \A g \in Nat : Doubled(World, l, g) => Doubled(World', l, g)

\* ... or are those of a planet that is made.
Fresh(l) ==
    LET default == DefaultStats[l][Geography[l].planet_type] IN
    /\ ~planets[l].is_initialized
    /\ planets'[l].is_initialized
    /\ planets'[l].population_cap = default.population_cap
    /\ planets'[l].defense = default.defense
    /\ Doubled(World', l, default.population_growth)

Plain(l) == Even(l) \/ Fresh(l)

LEMMA EvenSame ==
  ASSUME NEW l \in Planets, UNCHANGED <<planets, ship_counts>>
  PROVE  Even(l)
  BY WorldFields DEF Even, Doubled

\* A step that leaves l to what landings (w) made of it.
LEMMA EvenLanded ==
  ASSUME NEW w, Steady(World, w), Lawful(World, w), NEW l \in Planets,
         planets'[l].is_initialized = w.planets[l].is_initialized,
         planets'[l].population_cap = w.planets[l].population_cap,
         planets'[l].defense = w.planets[l].defense,
         \A g \in Nat : Doubled(w, l, g) => Doubled(World', l, g)
  PROVE  Even(l)
  BY WorldFields DEF Even, Steady, Unvaried, Lawful

\* There is no ship where no planet is.
LEMMA FreshMade ==
  ASSUME NEW w, Lawful(World, w), PInv, NEW l \in Planets, ~w.planets[l].is_initialized,
         NEW owner, NEW is_home, planets'[l] = NewPlanet(l, owner, is_home),
         ship_counts'[l]["mothership"] = w.ship_counts[l]["mothership"]
  PROVE  Fresh(l)
  <1> DEFINE default == DefaultStats[l][Geography[l].planet_type]
  <1>1. Counted(w) /\ Bare(w) /\ ~planets[l].is_initialized
    BY WorldFields DEF PInv, Places, Lawful
  <1>2. ShipsIn(w, l, "mothership") = {}
    BY <1>1, SentinelsAssumption DEF Bare, ShipsIn, ArtifactIds
  <1>3. "mothership" \in EffectShips
    BY DEF EffectShips
  <1>4. w.ship_counts[l]["mothership"] = 0
    BY <1>1, <1>2, <1>3, FS_EmptySet DEF Counted
  <1>5. /\ planets'[l].is_initialized
        /\ planets'[l].population_cap = default.population_cap
        /\ planets'[l].defense = default.defense
        /\ planets'[l].population_growth = default.population_growth
    BY DEF NewPlanet, DefaultPlanet
  <1>6. default.population_growth \in Nat
    BY StatsAssumption
  <1> HIDE DEF default
  <1>7. Doubled(World', l, default.population_growth)
    BY <1>4, <1>5, <1>6, WorldFields DEF Doubled
  <1> QED
    BY <1>1, <1>5, <1>7 DEF Fresh, default

LEMMA GInitPlayer ==
  ASSUME PInv, NEW player \in Players, NEW k \in Planets, InitPlayer(player, k),
         NEW l \in Planets
  PROVE  Plain(l)
  <1>1. /\ ~planets[k].is_initialized
        /\ planets' = [planets EXCEPT ![k] = NewPlanet(k, player, TRUE)]
        /\ ship_counts' = ship_counts
    BY DEF InitPlayer, CanBeHome
  <1>2. planets'[l] = IF l = k THEN NewPlanet(k, player, TRUE) ELSE planets[l]
    BY <1>1, PlaceTypes DEF PInv
  <1>3. CASE l = k
    <2>1. /\ ~World.planets[l].is_initialized
          /\ planets'[l] = NewPlanet(l, player, TRUE)
          /\ ship_counts'[l]["mothership"] = World.ship_counts[l]["mothership"]
      BY <1>1, <1>2, <1>3, WorldFields
    <2>2. Fresh(l)
      BY <2>1, LawfulReflexive, FreshMade
    <2> QED
      BY <2>2 DEF Plain
  <1>4. CASE l # k
    BY <1>1, <1>2, <1>4, WorldFields DEF Plain, Even, Doubled
  <1> QED
    BY <1>3, <1>4

LEMMA GRevealNewPlanet ==
  ASSUME PInv, NEW k \in Planets, RevealNewPlanet(k), NEW l \in Planets
  PROVE  Plain(l)
  <1>1. /\ ~planets[k].is_initialized
        /\ planets' = [planets EXCEPT ![k] = NewPlanet(k, Zero, FALSE)]
        /\ ship_counts' = ship_counts
    BY DEF RevealNewPlanet
  <1>2. planets'[l] = IF l = k THEN NewPlanet(k, Zero, FALSE) ELSE planets[l]
    BY <1>1, PlaceTypes DEF PInv
  <1>3. CASE l = k
    <2>1. /\ ~World.planets[l].is_initialized
          /\ planets'[l] = NewPlanet(l, Zero, FALSE)
          /\ ship_counts'[l]["mothership"] = World.ship_counts[l]["mothership"]
      BY <1>1, <1>2, <1>3, WorldFields
    <2>2. Fresh(l)
      BY <2>1, LawfulReflexive, FreshMade
    <2> QED
      BY <2>2 DEF Plain
  <1>4. CASE l # k
    BY <1>1, <1>2, <1>4, WorldFields DEF Plain, Even, Doubled
  <1> QED
    BY <1>3, <1>4

LEMMA GWrite ==
  ASSUME NEW w, Steady(World, w), Lawful(World, w), Write(w), NEW l \in Planets
  PROVE  Plain(l)
  <1>1. \A g \in Nat : Doubled(w, l, g) => Doubled(World', l, g)
    BY WorldFields DEF Write, Doubled
  <1> QED
    BY <1>1, EvenLanded DEF Write, Plain

LEMMA GResolveArrival ==
  ASSUME PInv, NEW id \in ArrivalIds, ResolveArrival(id), NEW l \in Planets
  PROVE  Plain(l)
  <1> DEFINE w == ExecuteArrival(World, id)
  <1>1. w.ok /\ Write(w)
    BY DEF ResolveArrival
  <1>2. CanLand(World, id)
    <2>1. ~CanLand(World, id) => w = [World EXCEPT !.ok = FALSE]
      BY DEF ExecuteArrival
    <2>2. [World EXCEPT !.ok = FALSE].ok = FALSE
      BY DEF World
    <2> QED
      BY <1>1, <2>1, <2>2
  <1>3. Lawful(World, w) /\ Steady(World, w)
    BY <1>2, WorldGood, ExecuteLawful, ExecuteSteady DEF PInv, GoodWorld
  <1> HIDE DEF w
  <1> QED
    BY <1>1, <1>3, GWrite

LEMMA GResolvePlanet ==
  ASSUME PInv, NEW k \in Planets, ResolvePlanet(k), NEW l \in Planets
  PROVE  Plain(l)
  <1> DEFINE w == ProcessPending(World, k)
  <1>1. Write(w)
    BY DEF ResolvePlanet
  <1>2. Lawful(World, w) /\ Steady(World, w)
    BY WorldGood, ProcessLawful, ProcessSteady DEF PInv
  <1> HIDE DEF w
  <1> QED
    BY <1>1, <1>2, GWrite

LEMMA GUpgradeElsewhere ==
  ASSUME PInv, NEW player \in Players, NEW k \in Planets, NEW branch \in Branches,
         UpgradePlanet(player, k, branch), NEW l \in Planets \ {k}
  PROVE  Plain(l)
  <1> DEFINE w        == ProcessPending(World, k)
             fresh    == Origin(w, k)
             upgraded == [BuffPlanet(fresh, UpgradeBuff(branch)) EXCEPT
                            !.silver = @ - UpgradeCost(fresh),
                            !.upgrades[branch] = @ + 1]
  <1>1. Write([w EXCEPT !.planets[k] = upgraded])
    BY DEF UpgradePlanet
  <1>2. Lawful(World, w) /\ Steady(World, w) /\ TypedWorld(w)
    BY WorldGood, ProcessLawful, ProcessSteady DEF PInv, GoodWorld
  <1> HIDE DEF w, upgraded
  <1>3. planets' = [w.planets EXCEPT ![k] = upgraded] /\ ship_counts' = w.ship_counts
    BY <1>1, <1>2 DEF Write, TypedWorld, Worlds
  <1>4. planets'[l] = w.planets[l]
    BY <1>2, <1>3, TypedParts
  <1>5. \A g \in Nat : Doubled(w, l, g) => Doubled(World', l, g)
    BY <1>3, <1>4, WorldFields DEF Doubled
  <1> QED
    BY <1>2, <1>4, <1>5, EvenLanded DEF Plain

LEMMA GActivateCrescent ==
  ASSUME PInv, NEW k \in Planets, NEW id \in ShipIds, ActivateCrescent(k, id),
         NEW l \in Planets
  PROVE  Plain(l)
  <1> DEFINE mine == [planets[k] EXCEPT
               !.planet_type   = "silver_mine",
               !.silver        = IF @ = 0 THEN 1 ELSE @,
               !.silver_growth = IF planets[k].silver = 0
                                 THEN DefaultStats[k]["silver_mine"].silver_growth
                                 ELSE @]
  <1>1. planets' = [planets EXCEPT ![k] = mine] /\ ship_counts' = ship_counts
    BY DEF ActivateCrescent
  <1>2. planets \in [Planets -> Planet]
    BY PlaceTypes DEF PInv
  <1>3. /\ mine.is_initialized = planets[k].is_initialized
        /\ mine.population_cap = planets[k].population_cap
        /\ mine.defense = planets[k].defense
        /\ mine.population_growth = planets[k].population_growth
    BY <1>2 DEF Planet
  <1> HIDE DEF mine
  <1>4. planets'[l] = IF l = k THEN mine ELSE planets[l]
    BY <1>1, <1>2
  <1> QED
    BY <1>1, <1>3, <1>4, WorldFields DEF Plain, Even, Doubled

LEMMA GBuffElsewhere ==
  ASSUME PInv, NEW k \in Planets, NEW planet, NEW l \in Planets \ {k},
         planets' = [planets EXCEPT ![k] = planet], ship_counts' = ship_counts
  PROVE  Plain(l)
  <1>1. planets'[l] = planets[l]
    BY PlaceTypes DEF PInv
  <1> QED
    BY <1>1, WorldFields DEF Plain, Even, Doubled

\* The last Mothership to leave halves the growth again, exactly.
LEMMA UndockedDoubled ==
  ASSUME NEW planet \in Planet, NEW ship \in EffectShips,
         NEW counts \in [EffectShips -> Nat], NEW g \in Nat,
         planet.population_growth = (IF counts["mothership"] > 0 THEN 2 ELSE 1) * g
  PROVE  LET undocked == Undocked(planet, ship, counts[ship])
             fewer    == [counts EXCEPT ![ship] = Greatest(0, @ - 1)]
         IN  undocked.population_growth = (IF fewer["mothership"] > 0 THEN 2 ELSE 1) * g
  <1>1. "mothership" \in EffectShips /\ counts["mothership"] \in Nat
    BY DEF EffectShips
  <1>2. CASE ship = "mothership"
    <2>1. [counts EXCEPT ![ship] = Greatest(0, @ - 1)]["mothership"] =
            Greatest(0, counts["mothership"] - 1)
      BY <1>1, <1>2
    <2>2. planet.population_growth \in Nat
      BY DEF Planet
    <2>3. Undocked(planet, ship, counts[ship]).population_growth =
            IF counts["mothership"] = 1 THEN planet.population_growth \div 2
                                        ELSE planet.population_growth
      BY <1>2 DEF Undocked, Planet
    <2>4. (2 * g) \div 2 = g
      OBVIOUS
    <2> QED
      BY <1>1, <2>1, <2>2, <2>3, <2>4 DEF Greatest
  <1>3. CASE ship # "mothership"
    <2>1. [counts EXCEPT ![ship] = Greatest(0, @ - 1)]["mothership"] = counts["mothership"]
      BY <1>1, <1>3
    <2>2. Undocked(planet, ship, counts[ship]).population_growth
            = planet.population_growth
      BY <1>3 DEF Undocked, Planet
    <2> QED
      BY <2>1, <2>2
  <1> QED
    BY <1>2, <1>3

\* A planet that is not the origin of a move is as landings left it, or made.
LEMMA GDepartElsewhere ==
  ASSUME PInv, NEW w, Lawful(World, w), Steady(World, w), NEW from \in Planets,
         NEW origin, LeftAlone(w, from, origin), NEW l \in Planets \ {from},
         ship_counts'[l]["mothership"] = w.ship_counts[l]["mothership"]
  PROVE  Plain(l)
  <1>1. CASE planets'[l] = w.planets[l]
    <2>1. \A g \in Nat : Doubled(w, l, g) => Doubled(World', l, g)
      BY <1>1, WorldFields DEF Doubled
    <2> QED
      BY <1>1, <2>1, EvenLanded DEF Plain
  <1>2. CASE ~w.planets[l].is_initialized /\ planets'[l] = NewPlanet(l, Zero, FALSE)
    BY <1>2, FreshMade DEF Plain
  <1> QED
    BY <1>1, <1>2 DEF LeftAlone

LEMMA GSendShip ==
  ASSUME PInv, NEW player \in Players, NEW from \in Planets, NEW to \in Planets,
         NEW ship \in ShipIds, SendShip(player, from, to, ship), NEW l \in Planets
  PROVE  Plain(l)
  <1> DEFINE w      == Settled(from, to)
             fresh  == Origin(w, from)
             origin == Unmoored(w, from, ship)
             counts == CountsWithout(w, from, ship)
             slots  == w.planet_artifacts[from]
             type   == IF ByWormhole(w, from, to) THEN "wormhole" ELSE "normal"
  <1>1. PICK time \in TravelTimes :
          Depart(w, from, to, origin,
                 Flight(Zero, from, to, 0, 0, ship, type, time), slots, counts)
    BY DEF SendShip
  <1> DEFINE arrival == Flight(Zero, from, to, 0, 0, ship, type, time)
  <1>2. MayDepart
    BY DEF SendShip
  <1>3. /\ Lawful(World, w) /\ Steady(World, w) /\ GoodWorld(w) /\ TypedWorld(w)
        /\ QInv /\ TInv
    BY SettledLawful, SettledSteady, QTyped DEF PInv, GoodWorld
  <1>4. type \in ArrivalTypes
    BY DEF ArrivalTypes
  <1> HIDE DEF w, type
  <1>5. /\ slots \in [ArtifactSlots -> ArtifactIds \cup {NoArtifact}]
        /\ w.planets \in [Planets -> Planet]
        /\ w.ship_counts \in [Planets -> [EffectShips -> Nat]]
    BY <1>3, TypedParts
  <1>6. arrival \in Arrival /\ block < arrival.arrival_block
    <2>1. ship \in ArtifactIds \cup {NoArtifact}
      BY IdsApart
    <2>2. ArrivalBlock(time) \in Nat /\ block < ArrivalBlock(time)
      BY <1>2, <1>3, ArrivesLater
    <2> QED
      BY <1>4, <2>1, <2>2 DEF Flight, Arrival, Addresses
  <1>7. origin \in Planet /\ origin.is_initialized = w.planets[from].is_initialized
    BY <1>3, UnmooredKeeps
  <1>8. /\ fresh \in Planet
        /\ fresh.population_cap = w.planets[from].population_cap
        /\ fresh.defense = w.planets[from].defense
        /\ fresh.population_growth = w.planets[from].population_growth
    BY <1>3, <1>5, OriginType, RefreshSteady DEF Origin
  <1>9. /\ origin.population_cap = w.planets[from].population_cap
        /\ origin.defense = w.planets[from].defense
    <2> HIDE DEF fresh
    <2> QED
      BY <1>8 DEF Unmoored, Undocked, Planet, fresh
  <1>10. \A g \in Nat : Doubled(w, from, g) =>
           origin.population_growth =
             (IF counts[from]["mothership"] > 0 THEN 2 ELSE 1) * g
    <2> SUFFICES ASSUME NEW g \in Nat, Doubled(w, from, g)
                 PROVE  origin.population_growth =
                          (IF counts[from]["mothership"] > 0 THEN 2 ELSE 1) * g
      OBVIOUS
    <2> DEFINE here == w.ship_counts[from]
    <2>1. fresh.population_growth = (IF here["mothership"] > 0 THEN 2 ELSE 1) * g
      BY <1>8 DEF Doubled
    <2>2. CASE ~Affects(ship, w.planets[from])
      BY <2>1, <2>2 DEF Unmoored, CountsWithout
    <2>3. CASE Affects(ship, w.planets[from])
      <3>1. ship[2] \in EffectShips
        BY <2>3 DEF Affects
      <3>2. origin = Undocked(fresh, ship[2], here[ship[2]])
        BY <2>3 DEF Unmoored
      <3>3. counts[from] = [here EXCEPT ![ship[2]] = Greatest(0, @ - 1)]
        BY <1>5, <2>3, <3>1 DEF CountsWithout
      <3>4. here \in [EffectShips -> Nat]
        BY <1>5
      <3> DEFINE kind == ship[2]
      <3> HIDE DEF fresh, origin, counts, here, kind
      <3> QED
        BY <1>8, <2>1, <3>1, <3>2, <3>3, <3>4, UndockedDoubled DEF kind
    <2> QED
      BY <2>2, <2>3
  <1>11. \A k \in Planets \ {from} : counts[k] = w.ship_counts[k]
    BY <1>5 DEF CountsWithout
  <1> HIDE DEF origin, counts, arrival, fresh
  <1>12. LeftAlone(w, from, origin) /\ ship_counts' = counts
    BY <1>1, <1>2, <1>3, <1>5, <1>6, <1>7, DepartEffect DEF arrival
  <1>13. CASE l = from
    <2>1. /\ planets'[l].is_initialized = w.planets[l].is_initialized
          /\ planets'[l].population_cap = w.planets[l].population_cap
          /\ planets'[l].defense = w.planets[l].defense
          /\ planets'[l].population_growth = origin.population_growth
      BY <1>7, <1>9, <1>12, <1>13 DEF LeftAlone, Planet
    <2>2. \A g \in Nat : Doubled(w, l, g) => Doubled(World', l, g)
      BY <1>10, <1>12, <1>13, <2>1, WorldFields DEF Doubled
    <2> QED
      BY <1>3, <2>1, <2>2, EvenLanded DEF Plain
  <1>14. CASE l # from
    BY <1>3, <1>11, <1>12, <1>14, GDepartElsewhere
  <1> QED
    BY <1>13, <1>14

\* A fleet takes population and silver along, and nothing else from its origin.
LEMMA GSendFleet ==
  ASSUME PInv, NEW player \in Players, NEW from \in Planets, NEW to \in Planets,
         NEW abandoning \in BOOLEAN, SendFleet(player, from, to, abandoning),
         NEW l \in Planets, l = from => ~Firing(Settled(from, to), from)
  PROVE  Plain(l)
  <1> DEFINE w     == Settled(from, to)
             fresh == Origin(w, from)
  <1>1. /\ Lawful(World, w) /\ Steady(World, w) /\ GoodWorld(w) /\ TypedWorld(w)
        /\ QInv /\ TInv
    BY SettledLawful, SettledSteady, QTyped DEF PInv, GoodWorld
  <1>2. PICK arrival \in Arrival, left \in Planet :
          /\ LeftAlone(w, from, left)
          /\ FleetLeft(w, from, left, player, abandoning)
          /\ Laden(w, from, left, arrival, abandoning)
    BY <1>1, FleetEffect
  <1>3. ship_counts' = w.ship_counts
    BY <1>1, FleetEffect
  <1> HIDE DEF w
  <1>4. CASE l # from
    BY <1>1, <1>2, <1>3, <1>4, GDepartElsewhere
  <1>5. CASE l = from
    <2>1. OriginOfFleet(w, from) = fresh
      BY <1>5 DEF OriginOfFleet, w
    <2>2. PICK pop \in Nat, silver \in Nat :
            left = Left(fresh, fresh, from, pop, silver, abandoning)
      BY <1>2, <2>1 DEF Laden
    <2>3. /\ fresh \in Planet
          /\ fresh.population_cap = w.planets[from].population_cap
          /\ fresh.defense = w.planets[from].defense
          /\ fresh.population_growth = w.planets[from].population_growth
      BY <1>1, TypedParts, OriginType, RefreshSteady DEF Origin
    <2> HIDE DEF fresh
    <2>4. /\ left.population_cap = w.planets[from].population_cap
          /\ left.defense = w.planets[from].defense
          /\ left.population_growth = w.planets[from].population_growth
      BY <2>2, <2>3 DEF Left, Planet
    <2>5. left.is_initialized = w.planets[from].is_initialized
      BY <1>2 DEF FleetLeft
    <2>6. /\ planets'[l].is_initialized = w.planets[l].is_initialized
          /\ planets'[l].population_cap = w.planets[l].population_cap
          /\ planets'[l].defense = w.planets[l].defense
          /\ planets'[l].population_growth = w.planets[l].population_growth
      BY <1>2, <1>5, <2>4, <2>5 DEF LeftAlone, Planet
    <2>7. \A g \in Nat : Doubled(w, l, g) => Doubled(World', l, g)
      BY <1>3, <2>6, WorldFields DEF Doubled
    <2> QED
      BY <1>1, <2>6, <2>7, EvenLanded DEF Plain
  <1> QED
    BY <1>4, <1>5

LEMMA GNext ==
  ASSUME PInv, Next, NEW l \in Planets, Unbuilt(l)
  PROVE  Plain(l)
  <1>1. CASE NextBlock
    BY <1>1, EvenSame DEF NextBlock, fleetVars, Plain
  <1>2. CASE FleetNext
    <2>1. ASSUME NEW p \in Players, NEW from \in Planets, NEW to \in Planets,
                 NEW abandoning \in BOOLEAN, SendFleet(p, from, to, abandoning)
          PROVE  Plain(l)
      BY <2>1, GSendFleet DEF Unbuilt
    <2>2. ASSUME NEW p \in Players, NEW k \in Planets, NEW b \in Branches,
                 UpgradePlanet(p, k, b)
          PROVE  Plain(l)
      <3>1. k # l
        BY <2>2 DEF Unbuilt
      <3> QED
        BY <2>2, <3>1, GUpgradeElsewhere
    <2> QED
      BY <1>2, <2>1, <2>2, GInitPlayer, GRevealNewPlanet, GResolveArrival,
         GResolvePlanet DEF FleetNext
  <1>3. CASE ShipNext
    <2>1. ASSUME NEW p \in Players, NEW k \in Planets, GiveSpaceShips(p, k)
          PROVE  Plain(l)
      BY <2>1, EvenSame DEF GiveSpaceShips, Plain
    <2> QED
      BY <1>3, <2>1, GSendShip, GActivateCrescent DEF ShipNext
  <1>4. CASE ArtifactNext
    <2>1. ASSUME NEW p \in Players, NEW k \in Planets, ProspectPlanet(p, k)
          PROVE  Plain(l)
      BY <2>1, EvenSame DEF ProspectPlanet, fleetVars, Plain
    <2>2. ASSUME NEW p \in Players, NEW k \in Planets, NEW type \in ArtifactTypes,
                 NEW rarity \in Rarities, FindArtifact(p, k, type, rarity)
          PROVE  Plain(l)
      BY <2>2, EvenSame DEF FindArtifact, Plain
    <2>3. ASSUME NEW p \in Players, NEW k \in Planets, NEW id \in FoundIds,
                 DepositArtifact(p, k, id) \/ WithdrawArtifact(p, k, id)
          PROVE  Plain(l)
      BY <2>3, EvenSame DEF DepositArtifact, WithdrawArtifact, Plain
    <2>4. ASSUME NEW p \in Players, NEW k \in Planets, NEW id \in FoundIds,
                 NEW target \in Planets \cup {Nowhere},
                 ActivateArtifact(p, k, id, target)
          PROVE  Plain(l)
      <3>1. k # l
        BY <2>4 DEF Unbuilt
      <3>2. \E planet : planets' = [planets EXCEPT ![k] = planet]
        BY <2>4 DEF ActivateArtifact
      <3>3. ship_counts' = ship_counts
        BY <2>4 DEF ActivateArtifact
      <3> QED
        BY <3>1, <3>2, <3>3, GBuffElsewhere
    <2>5. ASSUME NEW p \in Players, NEW k \in Planets, DeactivateArtifact(p, k)
          PROVE  Plain(l)
      <3>1. k # l
        BY <2>5 DEF Unbuilt
      <3>2. \E planet : planets' = [planets EXCEPT ![k] = planet]
        BY <2>5 DEF DeactivateArtifact
      <3>3. ship_counts' = ship_counts
        BY <2>5 DEF DeactivateArtifact
      <3> QED
        BY <3>1, <3>2, <3>3, GBuffElsewhere
    <2> QED
      BY <1>4, <2>1, <2>2, <2>3, <2>4, <2>5 DEF ArtifactNext
  <1> QED
    BY <1>1, <1>2, <1>3, <1>4 DEF Next

LEMMA GrowthStep ==
  ASSUME PInv, NEW l \in Planets, GrowthAt(l), [Next]_vars, [Unbuilt(l)]_vars
  PROVE  GrowthAt(l)'
  <1> DEFINE growth == DefaultStats[l][Geography[l].planet_type].population_growth
  <1>1. growth \in Nat
    BY StatsAssumption
  <1>2. Plain(l)
    BY GNext, EvenSame DEF Plain, vars, fleetVars
  <1>3. /\ Doubled(World, l, growth) <=>
             planets[l].population_growth =
               (IF ship_counts[l]["mothership"] > 0 THEN 2 ELSE 1) * growth
        /\ Doubled(World', l, growth) <=>
             planets'[l].population_growth =
               (IF ship_counts'[l]["mothership"] > 0 THEN 2 ELSE 1) * growth
    BY WorldFields DEF Doubled
  <1>4. GrowthAt(l) <=> (planets[l].is_initialized => Doubled(World, l, growth))
    BY <1>3 DEF GrowthAt
  <1>5. GrowthAt(l)' <=> (planets'[l].is_initialized => Doubled(World', l, growth))
    BY <1>3 DEF GrowthAt
  <1>6. Fresh(l) => Doubled(World', l, growth)
    BY DEF Fresh
  <1>7. Even(l) => /\ planets'[l].is_initialized = planets[l].is_initialized
                   /\ Doubled(World, l, growth) => Doubled(World', l, growth)
    BY <1>1 DEF Even
  <1>8. planets'[l].is_initialized => Doubled(World', l, growth)
    BY <1>2, <1>4, <1>6, <1>7 DEF Plain
  <1> QED
    BY <1>5, <1>8

\* A planet that nobody upgrades or gives a buff grows as it always did, twice as
\* fast exactly while a Mothership is there: of however many that come and go, the
\* first to dock doubles and the last to leave halves.  An upgrade in between
\* would leave what it gave to be halved, rounded down.
THEOREM GrowthCorrect ==
  ASSUME NEW l \in Planets
  PROVE  Spec /\ [][Unbuilt(l)]_vars => []GrowthAt(l)
  <1>1. Init => GrowthAt(l)
    BY DEF Init, GrowthAt, NoPlanet
  <1>2. PInv /\ GrowthAt(l) /\ [Next]_vars /\ [Unbuilt(l)]_vars => GrowthAt(l)'
    BY GrowthStep
  <1> QED
    BY <1>1, <1>2, PlacesInductive, PTL DEF Spec

\* In a game without upgrades and buffs all planets do.
THEOREM GrowthsCorrect ==
  Spec /\ [][\A l \in Planets : Unbuilt(l)]_vars => []GrowthMatchesShips
  <1>1. Init => GrowthMatchesShips
    BY DEF Init, GrowthMatchesShips, GrowthAt, NoPlanet
  <1>2. PInv /\ GrowthMatchesShips /\ [Next]_vars /\ [\A l \in Planets : Unbuilt(l)]_vars
          => GrowthMatchesShips'
    BY GrowthStep DEF GrowthMatchesShips
  <1> QED
    BY <1>1, <1>2, PlacesInductive, PTL DEF Spec

-----------------------------------------------------------------------------
(* Activations. *)

\* No artifact is withdrawn while it is active, ...
Careful == \A p \in Players, l \in Planets, id \in FoundIds :
               WithdrawArtifact(p, l, id) => ~IsActive(artifacts[id])

\* ... and nobody upgrades l.
Unraised(l) == \A p \in Players, b \in Branches : ~UpgradePlanet(p, l, b)

\* The active artifacts of l.
Lit(l) == {id \in FoundIds : /\ IsActive(artifacts[id])
                             /\ \E i \in ArtifactSlots : planet_artifacts[l][i] = id}

\* No stamp is later than the block, ...
Stamped(id) ==
    artifacts[id].last_activated <= block /\ artifacts[id].last_deactivated <= block

\* ... and what is active is in a slot.
Steadfast(id) ==
    Stamped(id) /\ (IsActive(artifacts[id]) => \E l \in Planets : id \in Lit(l))

\* At most one artifact is active on a planet.
Alone(l) == \A id, other \in Lit(l) : id = other

AInv ==
    /\ PInv /\ Orderly
    /\ block > 0
    /\ \A id \in FoundIds : Steadfast(id)
    /\ \A l \in Planets : Alone(l)

\* The step neither activates nor deactivates id, nor moves it while it is active.
Rests(id) ==
    /\ IsActive(artifacts'[id]) <=> IsActive(artifacts[id])
    /\ IsActive(artifacts[id]) =>
         /\ artifacts'[id].artifact_type = artifacts[id].artifact_type
         /\ artifacts'[id].rarity = artifacts[id].rarity
         /\ \A l \in Planets, i \in ArtifactSlots :
              planet_artifacts'[l][i] = id <=> planet_artifacts[l][i] = id

\* What is active on l, and the statistics of l, stay, ...
Alike(l) ==
    /\ Lit(l)' = Lit(l)
    /\ \A id \in Lit(l) :
         /\ artifacts'[id].artifact_type = artifacts[id].artifact_type
         /\ artifacts'[id].rarity = artifacts[id].rarity

Level(l) ==
    /\ planets'[l].is_initialized = planets[l].is_initialized
    /\ planets'[l].population_cap = planets[l].population_cap
    /\ planets'[l].defense = planets[l].defense

\* ... or an artifact has given its buff to l, or taken it back.
Becomes(l, planet) ==
    /\ planets'[l].is_initialized = planets[l].is_initialized
    /\ planets'[l].population_cap = planet.population_cap
    /\ planets'[l].defense = planet.defense

BuffOf(artifact) == Buffs[artifact.artifact_type][artifact.rarity]

Turn(l) ==
    \/ Alike(l) /\ (Unraised(l) => Level(l) \/ Fresh(l))
    \/ \E id \in FoundIds :
         /\ Lit(l) = {} /\ Lit(l)' = {id}
         /\ Becomes(l, BuffPlanet(planets[l], BuffOf(artifacts'[id])))
    \/ \E id \in FoundIds :
         /\ Lit(l) = {id} /\ Lit(l)' = {}
         /\ Becomes(l, DebuffPlanet(planets[l], BuffOf(artifacts[id])))

AStep == (\A id \in FoundIds : Steadfast(id)') /\ \A l \in Planets : Turn(l)

\* An active artifact is in one slot, and not aboard.
LEMMA LitOnce ==
  ASSUME AInv, NEW id \in FoundIds, IsActive(artifacts[id])
  PROVE  /\ id # NoArtifact
         /\ \A a \in ArrivalIds : ~Aboard(World, a, id)
         /\ \A l, k \in Planets : id \in Lit(l) /\ id \in Lit(k) => l = k
  <1>1. Tidy(World, id)
    BY DEF AInv, Orderly, OrderlyAt
  <1>2. PICK l \in Planets, i \in ArtifactSlots : planet_artifacts[l][i] = id
    BY DEF AInv, Steadfast, Lit
  <1>3. \A a \in ArrivalIds : ~Aboard(World, a, id)
    BY <1>1, <1>2, WorldFields DEF Tidy
  <1>4. \A k, m \in Planets : id \in Lit(k) /\ id \in Lit(m) => k = m
    BY <1>1, WorldFields DEF Tidy, Lit
  <1>5. id # NoArtifact
    BY SentinelsAssumption, IdsApart
  <1> QED
    BY <1>3, <1>4, <1>5

\* Landings (w) leave an active artifact in its slot; what comes after them does
\* too if it does not touch it.
LEMMA LandedRests ==
  ASSUME AInv, NEW w, Steady(World, w), NEW id \in FoundIds,
         artifacts'[id] = artifacts[id],
         IsActive(artifacts[id]) =>
           \A l \in Planets, i \in ArtifactSlots :
             planet_artifacts'[l][i] = id <=> w.planet_artifacts[l][i] = id
  PROVE  Rests(id)
  <1> SUFFICES ASSUME IsActive(artifacts[id]), NEW l \in Planets,
                      NEW i \in ArtifactSlots
               PROVE  w.planet_artifacts[l][i] = id <=> planet_artifacts[l][i] = id
    BY DEF Rests
  <1>1. id # NoArtifact /\ \A a \in ArrivalIds : ~Aboard(World, a, id)
    BY LitOnce
  <1>2. \/ w.planet_artifacts[l][i] = planet_artifacts[l][i]
        \/ /\ planet_artifacts[l][i] = NoArtifact
           /\ \E a \in ArrivalIds : Aboard(World, a, w.planet_artifacts[l][i])
    BY WorldFields DEF Steady, Unpacked
  <1> QED
    BY <1>1, <1>2

LEMMA StillRests ==
  ASSUME AInv, NEW id \in FoundIds, artifacts'[id] = artifacts[id],
         IsActive(artifacts[id]) =>
           \A l \in Planets, i \in ArtifactSlots :
             planet_artifacts'[l][i] = id <=> planet_artifacts[l][i] = id
  PROVE  Rests(id)
  BY DEF Rests

\* What rests goes on as it was.
LEMMA RestsKeeps ==
  ASSUME AInv, NEW id \in FoundIds, Rests(id)
  PROVE  /\ \A l \in Planets : id \in Lit(l)' <=> id \in Lit(l)
         /\ IsActive(artifacts'[id]) => \E l \in Planets : id \in Lit(l)'
  <1>1. \A l \in Planets : id \in Lit(l)' <=> id \in Lit(l)
    BY DEF Rests, Lit
  <1>2. Steadfast(id)
    BY DEF AInv
  <1> QED
    BY <1>1, <1>2 DEF Rests, Steadfast

LEMMA RestStep ==
  ASSUME AInv, \A id \in FoundIds : Rests(id) /\ Stamped(id)',
         \A l \in Planets : Unraised(l) => Level(l) \/ Fresh(l)
  PROVE  AStep
  <1>1. \A id \in FoundIds : Steadfast(id)'
    BY RestsKeeps DEF Steadfast
  <1>2. ASSUME NEW l \in Planets PROVE Alike(l)
    <2>1. Lit(l)' = Lit(l)
      BY RestsKeeps DEF Lit
    <2>2. \A id \in Lit(l) : id \in FoundIds /\ IsActive(artifacts[id])
      BY DEF Lit
    <2> QED
      BY <2>1, <2>2 DEF Alike, Rests
  <1> QED
    BY <1>1, <1>2 DEF AStep, Turn

LEMMA LightStep ==
  ASSUME AInv, NEW k \in Planets, NEW id \in FoundIds, Lit(k) = {},
         \A other \in FoundIds \ {id} : Rests(other),
         \A other \in FoundIds : Stamped(other)',
         ~IsActive(artifacts[id]), IsActive(artifacts'[id]),
         UNCHANGED planet_artifacts,
         \E i \in ArtifactSlots : planet_artifacts[k][i] = id,
         Becomes(k, BuffPlanet(planets[k], BuffOf(artifacts'[id]))),
         \A l \in Planets \ {k} : Unraised(l) => Level(l) \/ Fresh(l)
  PROVE  AStep
  <1>1. id \in Lit(k)' /\ \A l \in Planets : id \notin Lit(l)
    BY DEF Lit
  <1>2. \A l \in Planets \ {k} : id \notin Lit(l)'
    <2>1. Tidy(World, id)
      BY DEF AInv, Orderly, OrderlyAt
    <2> QED
      BY <2>1, WorldFields DEF Tidy, Lit
  <1>3. \A other \in FoundIds : Steadfast(other)'
    BY <1>1, RestsKeeps DEF Steadfast
  <1>4. Turn(k)
    <2>1. \A other \in FoundIds : other \in Lit(k)' <=> other = id
      BY <1>1, RestsKeeps
    <2>2. Lit(k)' = {id}
      BY <2>1 DEF Lit
    <2> QED
      BY <2>2 DEF Turn
  <1>5. ASSUME NEW l \in Planets \ {k} PROVE Turn(l)
    <2>1. Lit(l)' = Lit(l)
      BY <1>1, <1>2, RestsKeeps DEF Lit
    <2>2. \A other \in Lit(l) : other \in FoundIds \ {id} /\ IsActive(artifacts[other])
      BY <1>1 DEF Lit
    <2>3. Alike(l)
      BY <2>1, <2>2 DEF Alike, Rests
    <2> QED
      BY <2>3 DEF Turn
  <1> QED
    BY <1>3, <1>4, <1>5 DEF AStep

LEMMA DimStep ==
  ASSUME AInv, NEW k \in Planets, NEW id \in Lit(k),
         \A other \in FoundIds \ {id} : Rests(other),
         \A other \in FoundIds : Stamped(other)',
         ~IsActive(artifacts'[id]),
         Becomes(k, DebuffPlanet(planets[k], BuffOf(artifacts[id]))),
         \A l \in Planets \ {k} : Unraised(l) => Level(l) \/ Fresh(l)
  PROVE  AStep
  <1>1. /\ id \in FoundIds /\ IsActive(artifacts[id])
        /\ \A l \in Planets : id \notin Lit(l)'
    BY DEF Lit
  <1>2. \A l \in Planets \ {k} : id \notin Lit(l)
    BY <1>1, LitOnce
  <1>3. \A other \in FoundIds : Steadfast(other)'
    BY <1>1, RestsKeeps DEF Steadfast
  <1>4. Turn(k)
    <2>1. \A other \in Lit(k) : other = id
      BY DEF AInv, Alone
    <2>2. \A other \in FoundIds : other \notin Lit(k)'
      BY <1>1, <2>1, RestsKeeps
    <2>3. Lit(k)' = {} /\ Lit(k) = {id}
      BY <2>1, <2>2 DEF Lit
    <2> QED
      BY <1>1, <2>3 DEF Turn
  <1>5. ASSUME NEW l \in Planets \ {k} PROVE Turn(l)
    <2>1. Lit(l)' = Lit(l)
      BY <1>1, <1>2, RestsKeeps DEF Lit
    <2>2. \A other \in Lit(l) : other \in FoundIds \ {id} /\ IsActive(artifacts[other])
      BY <1>2 DEF Lit
    <2>3. Alike(l)
      BY <2>1, <2>2 DEF Alike, Rests
    <2> QED
      BY <2>3 DEF Turn
  <1> QED
    BY <1>3, <1>4, <1>5 DEF AStep

-----------------------------------------------------------------------------
(* Steps that activate and deactivate nothing. *)

Resting == \A id \in FoundIds : Rests(id) /\ Stamped(id)'

LEMMA LandedResting ==
  ASSUME AInv, NEW w, Steady(World, w), block' \in Nat, block <= block',
         \A id \in FoundIds : artifacts'[id] = artifacts[id],
         \A id \in FoundIds : IsActive(artifacts[id]) =>
           \A l \in Planets, i \in ArtifactSlots :
             planet_artifacts'[l][i] = id <=> w.planet_artifacts[l][i] = id
  PROVE  Resting
  <1>1. block \in Nat /\ artifacts \in [ArtifactIds -> Artifact]
    BY QTyped, PlaceTypes DEF AInv, PInv
  <1>2. ASSUME NEW id \in FoundIds PROVE Stamped(id)'
    <2>1. artifacts[id] \in Artifact /\ Stamped(id)
      BY <1>1, IdsApart DEF AInv, Steadfast
    <2>2. /\ artifacts[id].last_activated \in Nat
          /\ artifacts[id].last_deactivated \in Nat
      BY <2>1 DEF Artifact
    <2> QED
      BY <1>1, <2>1, <2>2 DEF Stamped
  <1> QED
    BY <1>2, LandedRests DEF Resting

LEMMA StillResting ==
  ASSUME AInv, block' \in Nat, block <= block',
         \A id \in FoundIds : artifacts'[id] = artifacts[id],
         \A id \in FoundIds : IsActive(artifacts[id]) =>
           \A l \in Planets, i \in ArtifactSlots :
             planet_artifacts'[l][i] = id <=> planet_artifacts[l][i] = id
  PROVE  Resting
  BY SteadyReflexive, WorldFields, LandedResting

LEMMA BlockStays ==
  ASSUME AInv, UNCHANGED block
  PROVE  block' \in Nat /\ block <= block'
  BY QTyped DEF AInv, PInv

LEMMA RNextBlock == ASSUME AInv, NextBlock PROVE Resting
  <1>1. block \in Nat
    BY QTyped DEF AInv, PInv
  <1> QED
    BY <1>1, StillResting DEF NextBlock, fleetVars, artifactVars

LEMMA RStutter == ASSUME AInv, UNCHANGED vars PROVE Resting
  BY BlockStays, StillResting DEF vars, fleetVars, artifactVars

LEMMA RInitPlayer ==
  ASSUME AInv, NEW player \in Players, NEW l \in Planets, InitPlayer(player, l)
  PROVE  Resting
  BY BlockStays, StillResting DEF InitPlayer, artifactVars

LEMMA RRevealNewPlanet ==
  ASSUME AInv, NEW l \in Planets, RevealNewPlanet(l)
  PROVE  Resting
  BY BlockStays, StillResting DEF RevealNewPlanet, artifactVars

LEMMA RProspectPlanet ==
  ASSUME AInv, NEW player \in Players, NEW l \in Planets, ProspectPlanet(player, l)
  PROVE  Resting
  BY BlockStays, StillResting DEF ProspectPlanet, fleetVars

LEMMA RActivateCrescent ==
  ASSUME AInv, NEW l \in Planets, NEW id \in ShipIds, ActivateCrescent(l, id)
  PROVE  Resting
  <1>1. \A other \in FoundIds : artifacts'[other] = artifacts[other]
    BY IdsApart, PlaceTypes DEF ActivateCrescent, AInv, PInv
  <1> QED
    BY <1>1, BlockStays, StillResting DEF ActivateCrescent

LEMMA RResolveArrival ==
  ASSUME AInv, NEW id \in ArrivalIds, ResolveArrival(id)
  PROVE  Resting
  <1> DEFINE w == ExecuteArrival(World, id)
  <1>1. w.ok /\ Write(w) /\ UNCHANGED <<block, artifactVars>>
    BY DEF ResolveArrival
  <1>2. CanLand(World, id)
    <2>1. ~CanLand(World, id) => w = [World EXCEPT !.ok = FALSE]
      BY DEF ExecuteArrival
    <2>2. [World EXCEPT !.ok = FALSE].ok = FALSE
      BY DEF World
    <2> QED
      BY <1>1, <2>1, <2>2
  <1>3. Steady(World, w)
    BY <1>2, WorldGood, ExecuteSteady DEF AInv, PInv, GoodWorld
  <1> HIDE DEF w
  <1> QED
    BY <1>1, <1>3, BlockStays, LandedResting DEF Write, artifactVars

LEMMA RResolvePlanet ==
  ASSUME AInv, NEW l \in Planets, ResolvePlanet(l)
  PROVE  Resting
  <1> DEFINE w == ProcessPending(World, l)
  <1>1. Write(w) /\ UNCHANGED <<block, artifactVars>>
    BY DEF ResolvePlanet
  <1>2. Steady(World, w)
    BY WorldGood, ProcessSteady DEF AInv, PInv
  <1> HIDE DEF w
  <1> QED
    BY <1>1, <1>2, BlockStays, LandedResting DEF Write, artifactVars

LEMMA RUpgradePlanet ==
  ASSUME AInv, NEW player \in Players, NEW l \in Planets, NEW branch \in Branches,
         UpgradePlanet(player, l, branch)
  PROVE  Resting
  <1> DEFINE w        == ProcessPending(World, l)
             fresh    == Origin(w, l)
             upgraded == [BuffPlanet(fresh, UpgradeBuff(branch)) EXCEPT
                            !.silver = @ - UpgradeCost(fresh),
                            !.upgrades[branch] = @ + 1]
  <1>1. Write([w EXCEPT !.planets[l] = upgraded]) /\ UNCHANGED <<block, artifactVars>>
    BY DEF UpgradePlanet
  <1>2. Steady(World, w) /\ TypedWorld(w)
    BY WorldGood, ProcessSteady DEF AInv, PInv, GoodWorld
  <1> HIDE DEF w, upgraded
  <1>3. planet_artifacts' = w.planet_artifacts
    BY <1>1, <1>2 DEF Write, TypedWorld, Worlds
  <1> QED
    BY <1>1, <1>2, <1>3, BlockStays, LandedResting DEF artifactVars

LEMMA RGiveSpaceShips ==
  ASSUME AInv, NEW player \in Players, NEW l \in Planets, GiveSpaceShips(player, l)
  PROVE  Resting
  <1> DEFINE fleet == {<<l, t>> : t \in ShipTypes}
  <1>1. UNCHANGED <<block, artifacts>>
    BY DEF GiveSpaceShips
  <1>2. \A id \in ArtifactIds \ fleet : SamePlaces(World, World', id)
    BY GiveEffect DEF AInv
  <1>3. \A id \in FoundIds : id \in ArtifactIds \ fleet
    BY IdsApart DEF ShipIds
  <1> HIDE DEF fleet
  <1>4. \A id \in FoundIds, k \in Planets, i \in ArtifactSlots :
          planet_artifacts'[k][i] = id <=> planet_artifacts[k][i] = id
    BY <1>2, <1>3, WorldFields DEF SamePlaces
  <1> QED
    BY <1>1, <1>4, BlockStays, StillResting

LEMMA RSendShip ==
  ASSUME AInv, NEW player \in Players, NEW from \in Planets, NEW to \in Planets,
         NEW ship \in ShipIds, SendShip(player, from, to, ship)
  PROVE  Resting
  <1> DEFINE w      == Settled(from, to)
             slots  == w.planet_artifacts[from]
             origin == Unmoored(w, from, ship)
             type   == IF ByWormhole(w, from, to) THEN "wormhole" ELSE "normal"
  <1>1. PICK time \in TravelTimes :
          Depart(w, from, to, origin, Flight(Zero, from, to, 0, 0, ship, type, time),
                 slots, CountsWithout(w, from, ship))
    BY DEF SendShip
  <1>2. UNCHANGED <<block, artifacts>>
    BY DEF SendShip, artifactVars
  <1>3. Steady(World, w) /\ GoodWorld(w)
    BY SettledSteady, SettledLawful DEF AInv, PInv
  <1> HIDE DEF w, origin, type
  <1>4. planet_artifacts' = [w.planet_artifacts EXCEPT ![from] = CargoTaken(slots, ship)]
    BY <1>1 DEF Depart, Flight
  <1>5. /\ w.planet_artifacts \in
             [Planets -> [ArtifactSlots -> ArtifactIds \cup {NoArtifact}]]
        /\ \A id \in FoundIds : id # ship /\ id # NoArtifact
    BY <1>3, TypedParts, SentinelsAssumption, IdsApart DEF GoodWorld
  <1>6. \A id \in FoundIds, i \in ArtifactSlots :
          CargoTaken(slots, ship)[i] = id <=> slots[i] = id
    BY <1>5 DEF CargoTaken, Without
  <1>7. \A id \in FoundIds, k \in Planets, i \in ArtifactSlots :
          planet_artifacts'[k][i] = id <=> w.planet_artifacts[k][i] = id
    BY <1>4, <1>5, <1>6
  <1> QED
    BY <1>2, <1>3, <1>7, BlockStays, LandedResting

\* A step that touches one artifact leaves all others as they are.
LEMMA OthersRest ==
  ASSUME AInv, UNCHANGED block, NEW id \in FoundIds,
         \A other \in FoundIds \ {id} :
           artifacts'[other] = artifacts[other] /\ SamePlaces(World, World', other)
  PROVE  \A other \in FoundIds \ {id} : Rests(other) /\ Stamped(other)'
  <1> SUFFICES ASSUME NEW other \in FoundIds \ {id}
               PROVE  Rests(other) /\ Stamped(other)'
    OBVIOUS
  <1>1. Stamped(other)
    BY DEF AInv, Steadfast
  <1>2. Stamped(other)'
    BY <1>1 DEF Stamped
  <1>3. Rests(other)
    BY StillRests, WorldFields DEF SamePlaces
  <1> QED
    BY <1>2, <1>3

\* It rests, too, if it is inactive throughout.
LEMMA IdleResting ==
  ASSUME AInv, UNCHANGED block, NEW id \in FoundIds,
         ~IsActive(artifacts[id]), ~IsActive(artifacts'[id]), Stamped(id)',
         \A other \in FoundIds \ {id} :
           artifacts'[other] = artifacts[other] /\ SamePlaces(World, World', other)
  PROVE  Resting
  BY OthersRest DEF Resting, Rests

LEMMA RFindArtifact ==
  ASSUME AInv, NEW player \in Players, NEW l \in Planets, NEW type \in ArtifactTypes,
         NEW rarity \in Rarities, FindArtifact(player, l, type, rarity)
  PROVE  Resting
  <1> DEFINE id    == <<l, "found">>
             found == NewArtifact(type, rarity)
  <1>1. id \in FoundIds /\ id \in ArtifactIds
    BY IdsApart DEF FoundIds
  <1>2. /\ ~artifacts[id].is_initialized
        /\ Holds(planet_artifacts[l], NoArtifact)
        /\ artifacts' = [artifacts EXCEPT ![id] = found]
        /\ planet_artifacts' = [planet_artifacts EXCEPT ![l] = Put(@, NoArtifact, id)]
        /\ artifact_locations' = [artifact_locations EXCEPT ![id] = l]
        /\ UNCHANGED <<arrivals, block>>
    BY DEF FindArtifact
  <1>3. found.last_activated = 0 /\ found.last_deactivated = 0
    BY DEF NewArtifact
  <1> HIDE DEF id, found
  <1>4. /\ artifacts'[id] = found
        /\ \A other \in FoundIds \ {id} : artifacts'[other] = artifacts[other]
    BY <1>1, <1>2, IdsApart, PlaceTypes DEF AInv, PInv
  <1>5. \A other \in FoundIds \ {id} : SamePlaces(World, World', other)
    BY <1>1, <1>2, PutEffect, IdsApart DEF AInv
  <1>6. ~IsActive(artifacts[id]) /\ ~IsActive(artifacts'[id]) /\ Stamped(id)'
    BY <1>2, <1>3, <1>4, QTyped DEF IsActive, Stamped, AInv, PInv
  <1> QED
    BY <1>1, <1>2, <1>4, <1>5, <1>6, IdleResting

\* What is active is in a slot, and so no one's to deposit.
LEMMA RDepositArtifact ==
  ASSUME AInv, NEW player \in Players, NEW l \in Planets, NEW id \in FoundIds,
         DepositArtifact(player, l, id)
  PROVE  Resting
  <1>1. /\ artifact_locations[id] = Nowhere
        /\ Holds(planet_artifacts[l], NoArtifact)
        /\ planet_artifacts' = [planet_artifacts EXCEPT ![l] = Put(@, NoArtifact, id)]
        /\ artifact_locations' = [artifact_locations EXCEPT ![id] = l]
        /\ UNCHANGED <<arrivals, block, artifacts>>
    BY DEF DepositArtifact
  <1>2. \A other \in FoundIds \ {id} : SamePlaces(World, World', other)
    BY <1>1, PutEffect, IdsApart DEF AInv
  <1>3. ~IsActive(artifacts[id])
    <2> SUFFICES ASSUME IsActive(artifacts[id]) PROVE FALSE
      OBVIOUS
    <2>1. Tidy(World, id)
      BY DEF AInv, Orderly, OrderlyAt
    <2>2. PICK k \in Planets, i \in ArtifactSlots : planet_artifacts[k][i] = id
      BY DEF AInv, Steadfast, Lit
    <2>3. artifact_locations[id] = k
      BY <2>1, <2>2, WorldFields DEF Tidy
    <2> QED
      BY <1>1, <2>3, SentinelAssumption
  <1>4. Stamped(id)'
    <2>1. Stamped(id)
      BY DEF AInv, Steadfast
    <2> QED
      BY <1>1, <2>1 DEF Stamped
  <1> QED
    BY <1>1, <1>2, <1>3, <1>4, IdleResting

LEMMA RWithdrawArtifact ==
  ASSUME AInv, NEW player \in Players, NEW l \in Planets, NEW id \in FoundIds,
         WithdrawArtifact(player, l, id), ~IsActive(artifacts[id])
  PROVE  Resting
  <1>1. /\ planet_artifacts' =
             [planet_artifacts EXCEPT ![l] = Without(@, NoArtifact, id)]
        /\ artifact_locations' = [artifact_locations EXCEPT ![id] = Nowhere]
        /\ UNCHANGED <<arrivals, block, artifacts>>
    BY DEF WithdrawArtifact
  <1>2. \A other \in FoundIds \ {id} : SamePlaces(World, World', other)
    BY <1>1, TakeEffect, IdsApart DEF AInv
  <1>3. Stamped(id)'
    <2>1. Stamped(id)
      BY DEF AInv, Steadfast
    <2> QED
      BY <1>1, <2>1 DEF Stamped
  <1> QED
    BY <1>1, <1>2, <1>3, IdleResting

-----------------------------------------------------------------------------
(* Steps that activate or deactivate. *)

LEMMA PlainLevel ==
  ASSUME NEW l \in Planets, Plain(l)
  PROVE  Level(l) \/ Fresh(l)
  BY DEF Plain, Even, Level

LEMMA NoneLit ==
  ASSUME AInv, NEW l \in Planets, ActiveIn(planet_artifacts[l]) = NoArtifact
  PROVE  Lit(l) = {}
  <1> DEFINE slots  == planet_artifacts[l]
             active == {i \in ArtifactSlots :
                          slots[i] # NoArtifact /\ IsActive(artifacts[slots[i]])}
             first  == CHOOSE i \in active : \A j \in active : i <= j
  <1>1. CASE active = {}
    BY <1>1, SentinelsAssumption, IdsApart DEF Lit
  <1>2. CASE active # {}
    <2>1. active \in SUBSET Nat
      BY SlotsNat
    <2>2. \E i \in active : \A j \in active : i <= j
      <3> HIDE DEF active
      <3> QED
        BY <1>2, <2>1, LeastOfNats
    <2>3. first \in active
      BY <2>2
    <2>4. ActiveIn(slots) = slots[first]
      BY <1>2 DEF ActiveIn
    <2> HIDE DEF first
    <2> QED
      BY <2>3, <2>4
  <1> QED
    BY <1>1, <1>2

\* What a bloom filter or a black domain gives is nothing.
LEMMA NoBuff ==
  ASSUME NEW type \in {"bloom_filter", "black_domain"}, type \in ArtifactTypes,
         NEW rarity \in Rarities, NEW planet \in Planet
  PROVE  LET buffed == BuffPlanet(planet, Buffs[type][rarity]) IN
         /\ buffed.population_cap = planet.population_cap
         /\ buffed.defense = planet.defense
  <1> DEFINE buff == Buffs[type][rarity]
  <1>1. buff.population_cap = 100 /\ buff.defense = 100
    BY NoBuffAssumption
  <1>2. planet.population_cap \in Nat /\ planet.defense \in Nat
    BY DEF Planet
  <1> HIDE DEF buff
  <1>3. /\ BuffPlanet(planet, buff).population_cap = (planet.population_cap * 100) \div 100
        /\ BuffPlanet(planet, buff).defense = (planet.defense * 100) \div 100
    BY <1>1 DEF BuffPlanet, Planet
  <1> QED
    BY <1>2, <1>3, FullPercent DEF buff

LEMMA AActivateArtifact ==
  ASSUME AInv, NEW player \in Players, NEW l \in Planets, NEW id \in FoundIds,
         NEW target \in Planets \cup {Nowhere},
         ActivateArtifact(player, l, id, target)
  PROVE  AStep
  <1> DEFINE artifact == artifacts[id]
             type     == artifact.artifact_type
             blooms   == type = "bloom_filter"
             burns    == blooms \/ type = "black_domain"
             filled   == IF blooms
                         THEN [planets[l] EXCEPT
                                 !.population = planets[l].population_cap,
                                 !.silver = planets[l].silver_cap]
                         ELSE planets[l]
             buffed   == BuffPlanet(filled, Buffs[type][artifact.rarity])
             after    == [artifact EXCEPT
               !.last_activated   = block,
               !.last_deactivated = IF burns THEN block ELSE @,
               !.wormhole_to      = IF burns THEN Nowhere
                                    ELSE IF type = "wormhole" THEN target ELSE @,
               !.burned           = burns]
  <1>1. /\ planets' = [planets EXCEPT ![l] = buffed]
        /\ artifacts' = [artifacts EXCEPT ![id] = after]
        /\ artifact.is_initialized
        /\ Holds(planet_artifacts[l], id)
        /\ ActiveIn(planet_artifacts[l]) = NoArtifact
        /\ artifact.last_deactivated # 0 =>
             block > artifact.last_deactivated + Cooldown[type]
        /\ IF burns
           THEN /\ planet_artifacts' =
                     [planet_artifacts EXCEPT ![l] = Without(@, NoArtifact, id)]
                /\ artifact_locations' = [artifact_locations EXCEPT ![id] = MaxLocation]
           ELSE UNCHANGED <<planet_artifacts, artifact_locations>>
        /\ UNCHANGED <<block, arrivals, ship_counts>>
    BY DEF ActivateArtifact
  <1>2. /\ artifact \in Artifact /\ id \in ArtifactIds
        /\ type \in ArtifactTypes /\ artifact.rarity \in Rarities
        /\ block \in Nat /\ block > 0 /\ Stamped(id)
    BY <1>1, IdsApart, PlaceTypes, QTyped
       DEF AInv, PInv, QInv, TInv, ArtifactsKnown, Steadfast
  <1>3. /\ planets[l] \in Planet /\ filled \in Planet
        /\ filled.population_cap = planets[l].population_cap
        /\ filled.defense = planets[l].defense
        /\ filled.is_initialized = planets[l].is_initialized
        /\ ~burns => filled = planets[l]
    <2>1. planets[l] \in Planet
      BY PlaceTypes DEF AInv, PInv
    <2> QED
      BY <2>1 DEF Planet
  <1>4. /\ artifact.last_deactivated \in Nat /\ artifact.last_deactivated < block
    <2>1. artifact.last_deactivated \in Nat /\ Cooldown[type] \in Nat
      BY <1>2, ArtifactAssumption DEF Artifact
    <2> QED
      BY <1>1, <1>2, <2>1
  <1>5. /\ after.is_initialized
        /\ after.artifact_type = type /\ after.rarity = artifact.rarity
        /\ after.last_activated = block
        /\ after.last_deactivated = IF burns THEN block ELSE artifact.last_deactivated
    BY <1>1, <1>2 DEF Artifact
  <1>6. PICK i \in ArtifactSlots : planet_artifacts[l][i] = id
    BY <1>1, PlaceTypes DEF AInv, PInv, Holds
  <1>7. Lit(l) = {} /\ ~IsActive(artifact)
    BY <1>1, <1>6, NoneLit DEF Lit
  <1> HIDE DEF after, filled
  <1>8. /\ artifacts'[id] = after
        /\ \A other \in FoundIds \ {id} : artifacts'[other] = artifacts[other]
    BY <1>1, <1>2, IdsApart, PlaceTypes DEF AInv, PInv
  <1>9. planets'[l] = buffed
    BY <1>1, PlaceTypes DEF AInv, PInv
  <1>10. buffed.is_initialized = planets[l].is_initialized
    BY <1>2, <1>3, BuffsType, BuffKeeps DEF SamePlace
  <1>11. ASSUME NEW k \in Planets \ {l} PROVE Level(k) \/ Fresh(k)
    BY <1>1, GBuffElsewhere, PlainLevel DEF AInv
  <1>12. CASE burns
    <2>1. \A other \in FoundIds \ {id} : SamePlaces(World, World', other)
      BY <1>1, <1>2, <1>12, TakeEffect, IdsApart DEF AInv
    <2>2. ~IsActive(artifacts'[id]) /\ Stamped(id)'
      BY <1>1, <1>2, <1>5, <1>8, <1>12 DEF IsActive, Stamped
    <2>3. Resting
      BY <1>1, <1>7, <1>8, <2>1, <2>2, IdleResting
    <2>4. /\ buffed.population_cap = planets[l].population_cap
          /\ buffed.defense = planets[l].defense
      BY <1>2, <1>3, <1>12, NoBuff
    <2>5. Level(l)
      BY <1>9, <1>10, <2>4 DEF Level
    <2> QED
      BY <1>11, <2>3, <2>5, RestStep DEF Resting
  <1>13. CASE ~burns
    <2>1. UNCHANGED <<planet_artifacts, arrivals, artifact_locations>>
      BY <1>1, <1>13
    <2>2. \A other : SamePlaces(World, World', other)
      BY <2>1, WorldFields DEF SamePlaces, Aboard, Alive
    <2>3. \A other \in FoundIds \ {id} : Rests(other) /\ Stamped(other)'
      BY <1>1, <1>8, <2>2, OthersRest
    <2>4. IsActive(artifacts'[id]) /\ Stamped(id)'
      BY <1>1, <1>2, <1>4, <1>5, <1>8, <1>13 DEF IsActive, Stamped
    <2>5. buffed = BuffPlanet(planets[l], BuffOf(artifacts'[id]))
      BY <1>3, <1>5, <1>8, <1>13 DEF BuffOf
    <2>6. Becomes(l, BuffPlanet(planets[l], BuffOf(artifacts'[id])))
      BY <1>9, <1>10, <2>5 DEF Becomes
    <2> HIDE DEF artifact, burns, buffed
    <2>7. \A other \in FoundIds : Stamped(other)'
      BY <2>3, <2>4
    <2> QED
      BY <1>6, <1>7, <1>11, <2>1, <2>3, <2>4, <2>6, <2>7, LightStep DEF artifact
  <1> QED
    BY <1>12, <1>13

\* An activation ends no earlier than it began.
LEMMA DeactivatedIdle ==
  ASSUME AInv, NEW id \in FoundIds, artifacts'[id] = Deactivated(artifacts[id]),
         UNCHANGED block
  PROVE  ~IsActive(artifacts'[id]) /\ Stamped(id)'
  <1>1. /\ artifacts[id] \in Artifact /\ Stamped(id) /\ block \in Nat
    BY IdsApart, PlaceTypes, QTyped DEF AInv, PInv, Steadfast
  <1>2. /\ artifacts[id].last_activated \in Nat
        /\ Deactivated(artifacts[id]).last_activated = artifacts[id].last_activated
        /\ Deactivated(artifacts[id]).last_deactivated = block
    BY <1>1 DEF Artifact, Deactivated
  <1> QED
    BY <1>1, <1>2 DEF IsActive, Stamped

LEMMA ADeactivateArtifact ==
  ASSUME AInv, NEW player \in Players, NEW l \in Planets,
         DeactivateArtifact(player, l)
  PROVE  AStep
  <1> DEFINE active == ActiveIn(planet_artifacts[l])
  <1>1. PICK id \in FoundIds :
          /\ id = active /\ Holds(planet_artifacts[l], id) /\ IsActive(artifacts[id])
          /\ artifacts[id].artifact_type \in ArtifactTypes
          /\ artifacts[id].rarity \in Rarities
    <2>1. active # NoArtifact
      BY DEF DeactivateArtifact
    <2> QED
      BY <2>1, QTyped, ActiveFound, PlaceTypes DEF AInv, PInv
  <1> DEFINE debuffed == Debuffed(planets[l], artifacts[id])
             after    == Deactivated(artifacts[id])
  <1>2. /\ planets' = [planets EXCEPT ![l] = debuffed]
        /\ artifacts' = [artifacts EXCEPT ![id] = after]
        /\ IF Burns(artifacts[id])
           THEN /\ planet_artifacts' =
                     [planet_artifacts EXCEPT ![l] = Without(@, NoArtifact, id)]
                /\ artifact_locations' = [artifact_locations EXCEPT ![id] = MaxLocation]
           ELSE UNCHANGED <<planet_artifacts, artifact_locations>>
        /\ UNCHANGED <<block, arrivals, ship_counts>>
    BY <1>1 DEF DeactivateArtifact
  <1>3. id \in Lit(l)
    <2>1. \E i \in ArtifactSlots : planet_artifacts[l][i] = id
      BY <1>1, PlaceTypes DEF AInv, PInv, Holds
    <2> QED
      BY <1>1, <2>1 DEF Lit
  <1>4. \A other \in FoundIds \ {id} : SamePlaces(World, World', other)
    <2>1. CASE Burns(artifacts[id])
      BY <1>1, <1>2, <2>1, TakeEffect, IdsApart DEF AInv
    <2>2. CASE ~Burns(artifacts[id])
      BY <1>2, <2>2, WorldFields DEF SamePlaces, Aboard, Alive
    <2> QED
      BY <2>1, <2>2
  <1>5. SamePlace(planets[l], debuffed)
    BY <1>1, PlaceTypes, DebuffedType DEF AInv, PInv
  <1>6. planets'[l] = debuffed
    BY <1>2, PlaceTypes DEF AInv, PInv
  <1>7. Becomes(l, DebuffPlanet(planets[l], BuffOf(artifacts[id])))
    BY <1>5, <1>6 DEF Becomes, Debuffed, BuffOf, SamePlace
  <1> HIDE DEF debuffed, after
  <1>8. /\ artifacts'[id] = after
        /\ \A other \in FoundIds \ {id} : artifacts'[other] = artifacts[other]
    BY <1>1, <1>2, IdsApart, PlaceTypes DEF AInv, PInv
  <1>9. ~IsActive(artifacts'[id]) /\ Stamped(id)'
    BY <1>1, <1>2, <1>8, DeactivatedIdle DEF after
  <1>10. \A other \in FoundIds \ {id} : Rests(other) /\ Stamped(other)'
    BY <1>1, <1>2, <1>4, <1>8, OthersRest
  <1>11. \A other \in FoundIds : Stamped(other)'
    BY <1>9, <1>10
  <1>12. ASSUME NEW k \in Planets \ {l} PROVE Level(k) \/ Fresh(k)
    BY <1>2, GBuffElsewhere, PlainLevel DEF AInv
  <1> QED
    BY <1>3, <1>7, <1>9, <1>10, <1>11, <1>12, DimStep

\* The cannon that fires takes back what it gave.
LEMMA FiredBecomes ==
  ASSUME QInv, NEW w, GoodWorld(w), Steady(World, w), Lawful(World, w),
         NEW player, NEW abandoning \in BOOLEAN,
         NEW from \in Planets, Firing(w, from), NEW arrival, NEW left \in Planet,
         FleetLeft(w, from, left, player, abandoning),
         Laden(w, from, left, arrival, abandoning), LeftAlone(w, from, left)
  PROVE  Becomes(from, DebuffPlanet(planets[from],
                         BuffOf(artifacts[ActiveIn(w.planet_artifacts[from])])))
  <1> DEFINE cannon == ActiveIn(w.planet_artifacts[from])
             origin == Debuffed(w.planets[from], artifacts[cannon])
             before == DebuffPlanet(planets[from], BuffOf(artifacts[cannon]))
  <1>1. /\ w.planets[from] \in Planet /\ planets[from] \in Planet
    BY TypedParts, PlaceTypes DEF GoodWorld
  <1>2. /\ w.planets[from].population_cap = planets[from].population_cap
        /\ w.planets[from].defense = planets[from].defense
        /\ w.planets[from].is_initialized = planets[from].is_initialized
    BY WorldFields DEF Steady, Unvaried, Lawful
  <1>3. /\ origin.population_cap = before.population_cap
        /\ origin.defense = before.defense
    BY <1>1, <1>2 DEF Debuffed, DebuffPlanet, BuffOf, Planet
  <1>4. PICK pop \in Nat, silver \in Nat :
          left = Left(origin, Origin(w, from), from, pop, silver, abandoning)
    BY DEF Laden, OriginOfFleet
  <1>5. SamePlace(w.planets[from], origin)
    BY <1>1, FiringType, DebuffedType, QTyped DEF GoodWorld
  <1> HIDE DEF origin, before, cannon
  <1>6. left.population_cap = origin.population_cap /\ left.defense = origin.defense
    BY <1>4, <1>5 DEF Left, SamePlace, Planet
  <1>7. /\ planets'[from].population_cap = left.population_cap
        /\ planets'[from].defense = left.defense
        /\ planets'[from].is_initialized = left.is_initialized
    BY DEF LeftAlone, Planet
  <1>8. left.is_initialized = planets[from].is_initialized
    BY <1>2 DEF FleetLeft
  <1> QED
    BY <1>3, <1>6, <1>7, <1>8 DEF Becomes, before, cannon

LEMMA ASendFleet ==
  ASSUME AInv, NEW player \in Players, NEW from \in Planets, NEW to \in Planets,
         NEW abandoning \in BOOLEAN, SendFleet(player, from, to, abandoning)
  PROVE  AStep
  <1> DEFINE w      == Settled(from, to)
             cannon == ActiveIn(w.planet_artifacts[from])
             slots  == SlotsOfFleet(w, from)
  <1>1. /\ Lawful(World, w) /\ Steady(World, w) /\ GoodWorld(w) /\ TypedWorld(w)
        /\ PInv /\ QInv /\ TInv
    BY SettledLawful, SettledSteady, QTyped DEF AInv, PInv, GoodWorld
  <1>2. PICK cargo \in Cargos(w, from), arrival \in Arrival, left \in Planet :
          /\ arrival.carried_artifact_id = cargo
          /\ Sailed(w, from, arrival, slots)
          /\ LeftAlone(w, from, left)
          /\ FleetLeft(w, from, left, player, abandoning)
          /\ Laden(w, from, left, arrival, abandoning)
          /\ FireCannon(w, from, cargo)
    BY <1>1, FleetEffect
  <1>3. UNCHANGED block
    BY DEF SendFleet
  <1>4. \A l \in Planets : (l = from => ~Firing(w, from)) => Level(l) \/ Fresh(l)
    BY <1>1, GSendFleet, PlainLevel
  <1> HIDE DEF w
  <1>5. \A id \in FoundIds : id \in ArtifactIds /\ id # NoArtifact
    BY SentinelsAssumption, IdsApart
  <1>6. \A id \in ArtifactIds : ~(Firing(w, from) /\ id = cannon) =>
          /\ artifacts'[id] = artifacts[id]
          /\ id # cargo => artifact_locations'[id] = w.artifact_locations[id]
          /\ \A i \in ArtifactSlots : slots[i] = id <=> w.planet_artifacts[from][i] = id
    BY <1>1, <1>2, FireEffect
  <1> HIDE DEF slots
  <1>7. ASSUME NEW id \in FoundIds, ~(Firing(w, from) /\ id = cannon)
        PROVE  Rests(id) /\ Stamped(id)'
    <2>1. artifacts'[id] = artifacts[id]
      BY <1>5, <1>6, <1>7
    <2>2. ASSUME IsActive(artifacts[id])
          PROVE  \A l \in Planets, i \in ArtifactSlots :
                   planet_artifacts'[l][i] = id <=> w.planet_artifacts[l][i] = id
      <3>1. id # cargo
        BY <1>5, <2>2 DEF Cargos
      <3>2. SamePlaces(w, World', id)
        BY <1>2, <1>5, <1>6, <1>7, <3>1, SailedOthers
      <3> QED
        BY <3>2, WorldFields DEF SamePlaces
    <2>3. Rests(id)
      BY <1>1, <2>1, <2>2, LandedRests
    <2>4. Stamped(id)
      BY DEF AInv, Steadfast
    <2> QED
      BY <1>3, <2>1, <2>3, <2>4 DEF Stamped
  <1>8. CASE ~Firing(w, from)
    BY <1>4, <1>7, <1>8, RestStep
  <1>9. CASE Firing(w, from)
    <2>1. PICK id \in FoundIds :
            /\ id = cannon /\ IsActive(artifacts[id])
            /\ Holds(w.planet_artifacts[from], id)
      BY <1>1, <1>9, TypedParts, ActiveFound DEF Firing
    <2>2. PICK i \in ArtifactSlots : w.planet_artifacts[from][i] = id
      BY <1>1, <2>1, TypedParts DEF Holds
    <2>3. artifacts' = [artifacts EXCEPT ![id] = Deactivated(@)]
      BY <1>2, <1>9, <2>1 DEF FireCannon
    <2>4. Becomes(from, DebuffPlanet(planets[from], BuffOf(artifacts[id])))
      BY <1>1, <1>2, <1>9, <2>1, FiredBecomes
    <2> HIDE DEF cannon
    <2>5. id \in Lit(from)
      <3>1. \A a \in ArrivalIds : ~Aboard(World, a, id)
        BY <2>1, LitOnce
      <3>2. planet_artifacts[from][i] = id
        BY <1>1, <2>2, <3>1, WorldFields DEF Steady, Unpacked
      <3> QED
        BY <2>1, <3>2 DEF Lit
    <2>6. artifacts'[id] = Deactivated(artifacts[id])
      BY <1>5, <2>1, <2>3, PlaceTypes DEF AInv, PInv
    <2>7. ~IsActive(artifacts'[id]) /\ Stamped(id)'
      BY <1>3, <2>1, <2>6, DeactivatedIdle
    <2>8. /\ \A other \in FoundIds \ {id} : Rests(other)
          /\ \A other \in FoundIds : Stamped(other)'
      BY <1>7, <2>1, <2>7
    <2> QED
      BY <1>4, <2>4, <2>5, <2>7, <2>8, DimStep
  <1> QED
    BY <1>8, <1>9

LEMMA RestPlain ==
  ASSUME AInv, Resting, \A l \in Planets : Unraised(l) => Plain(l)
  PROVE  AStep
  BY PlainLevel, RestStep DEF Resting

LEMMA ANext == ASSUME AInv, Next, Careful PROVE AStep
  <1>1. CASE NextBlock
    BY <1>1, RNextBlock, RestPlain, EvenSame DEF NextBlock, fleetVars, Plain
  <1>2. CASE FleetNext
    <2>1. ASSUME NEW p \in Players, NEW k \in Planets, InitPlayer(p, k)
          PROVE  AStep
      BY <2>1, RInitPlayer, GInitPlayer, RestPlain DEF AInv
    <2>2. ASSUME NEW k \in Planets, RevealNewPlanet(k)
          PROVE  AStep
      BY <2>2, RRevealNewPlanet, GRevealNewPlanet, RestPlain DEF AInv
    <2>3. ASSUME NEW id \in ArrivalIds, ResolveArrival(id)
          PROVE  AStep
      BY <2>3, RResolveArrival, GResolveArrival, RestPlain DEF AInv
    <2>4. ASSUME NEW k \in Planets, ResolvePlanet(k)
          PROVE  AStep
      BY <2>4, RResolvePlanet, GResolvePlanet, RestPlain DEF AInv
    <2>5. ASSUME NEW p \in Players, NEW k \in Planets, NEW b \in Branches,
                 UpgradePlanet(p, k, b)
          PROVE  AStep
      <3>1. \A l \in Planets : Unraised(l) => Plain(l)
        BY <2>5, GUpgradeElsewhere DEF Unraised, AInv
      <3> QED
        BY <2>5, <3>1, RUpgradePlanet, RestPlain
    <2> QED
      BY <1>2, <2>1, <2>2, <2>3, <2>4, <2>5, ASendFleet DEF FleetNext
  <1>3. CASE ShipNext
    <2>1. ASSUME NEW p \in Players, NEW k \in Planets, GiveSpaceShips(p, k)
          PROVE  AStep
      <3>1. \A l \in Planets : Plain(l)
        BY <2>1, EvenSame DEF GiveSpaceShips, Plain
      <3> QED
        BY <2>1, <3>1, RGiveSpaceShips, RestPlain
    <2>2. ASSUME NEW p \in Players, NEW from \in Planets, NEW to \in Planets,
                 NEW ship \in ShipIds, SendShip(p, from, to, ship)
          PROVE  AStep
      BY <2>2, RSendShip, GSendShip, RestPlain DEF AInv
    <2>3. ASSUME NEW k \in Planets, NEW id \in ShipIds, ActivateCrescent(k, id)
          PROVE  AStep
      BY <2>3, RActivateCrescent, GActivateCrescent, RestPlain DEF AInv
    <2> QED
      BY <1>3, <2>1, <2>2, <2>3 DEF ShipNext
  <1>4. CASE ArtifactNext
    <2>1. ASSUME NEW p \in Players, NEW k \in Planets, ProspectPlanet(p, k)
          PROVE  AStep
      <3>1. \A l \in Planets : Plain(l)
        BY <2>1, EvenSame DEF ProspectPlanet, fleetVars, Plain
      <3> QED
        BY <2>1, <3>1, RProspectPlanet, RestPlain
    <2>2. ASSUME NEW p \in Players, NEW k \in Planets, NEW type \in ArtifactTypes,
                 NEW rarity \in Rarities, FindArtifact(p, k, type, rarity)
          PROVE  AStep
      <3>1. \A l \in Planets : Plain(l)
        BY <2>2, EvenSame DEF FindArtifact, Plain
      <3> QED
        BY <2>2, <3>1, RFindArtifact, RestPlain
    <2>3. ASSUME NEW p \in Players, NEW k \in Planets, NEW id \in FoundIds,
                 DepositArtifact(p, k, id)
          PROVE  AStep
      <3>1. \A l \in Planets : Plain(l)
        BY <2>3, EvenSame DEF DepositArtifact, Plain
      <3> QED
        BY <2>3, <3>1, RDepositArtifact, RestPlain
    <2>4. ASSUME NEW p \in Players, NEW k \in Planets, NEW id \in FoundIds,
                 WithdrawArtifact(p, k, id)
          PROVE  AStep
      <3>1. \A l \in Planets : Plain(l)
        BY <2>4, EvenSame DEF WithdrawArtifact, Plain
      <3>2. ~IsActive(artifacts[id])
        BY <2>4 DEF Careful
      <3> QED
        BY <2>4, <3>1, <3>2, RWithdrawArtifact, RestPlain
    <2> QED
      BY <1>4, <2>1, <2>2, <2>3, <2>4, AActivateArtifact, ADeactivateArtifact
         DEF ArtifactNext
  <1> QED
    BY <1>1, <1>2, <1>3, <1>4 DEF Next

LEMMA AStutter == ASSUME AInv, UNCHANGED vars PROVE AStep
  BY RStutter, RestPlain, EvenSame DEF Plain, vars, fleetVars

LEMMA BlockGrows == ASSUME AInv, [Next]_vars PROVE block' > 0
  <1>1. block \in Nat /\ block > 0
    BY QTyped DEF AInv, PInv
  <1>2. CASE NextBlock
    BY <1>1, <1>2 DEF NextBlock
  <1>3. CASE FleetNext
    <2>1. \A p \in Players, l \in Planets : InitPlayer(p, l) => block' = block
      BY DEF InitPlayer
    <2>2. \A l \in Planets : RevealNewPlanet(l) \/ ResolvePlanet(l) => block' = block
      BY DEF RevealNewPlanet, ResolvePlanet
    <2>3. \A p \in Players, from, to \in Planets, abandoning \in BOOLEAN :
            SendFleet(p, from, to, abandoning) => block' = block
      BY DEF SendFleet
    <2>4. \A id \in ArrivalIds : ResolveArrival(id) => block' = block
      BY DEF ResolveArrival
    <2>5. \A p \in Players, l \in Planets, b \in Branches :
            UpgradePlanet(p, l, b) => block' = block
      BY DEF UpgradePlanet
    <2> QED
      BY <1>1, <1>3, <2>1, <2>2, <2>3, <2>4, <2>5 DEF FleetNext
  <1>4. CASE ShipNext
    <2>1. \A p \in Players, l \in Planets : GiveSpaceShips(p, l) => block' = block
      BY DEF GiveSpaceShips
    <2>2. \A p \in Players, from, to \in Planets, ship \in ShipIds :
            SendShip(p, from, to, ship) => block' = block
      BY DEF SendShip
    <2>3. \A l \in Planets, id \in ShipIds : ActivateCrescent(l, id) => block' = block
      BY DEF ActivateCrescent
    <2> QED
      BY <1>1, <1>4, <2>1, <2>2, <2>3 DEF ShipNext
  <1>5. CASE ArtifactNext
    <2>1. \A p \in Players, l \in Planets :
            ProspectPlanet(p, l) \/ DeactivateArtifact(p, l) => block' = block
      BY DEF ProspectPlanet, DeactivateArtifact
    <2>2. \A p \in Players, l \in Planets, type \in ArtifactTypes, rarity \in Rarities :
            FindArtifact(p, l, type, rarity) => block' = block
      BY DEF FindArtifact
    <2>3. \A p \in Players, l \in Planets, id \in FoundIds :
            DepositArtifact(p, l, id) \/ WithdrawArtifact(p, l, id) => block' = block
      BY DEF DepositArtifact, WithdrawArtifact
    <2>4. \A p \in Players, l \in Planets, id \in FoundIds,
             target \in Planets \cup {Nowhere} :
            ActivateArtifact(p, l, id, target) => block' = block
      BY DEF ActivateArtifact
    <2> QED
      BY <1>1, <1>5, <2>1, <2>2, <2>3, <2>4 DEF ArtifactNext
  <1>6. CASE UNCHANGED vars
    BY <1>1, <1>6 DEF vars
  <1> QED
    BY <1>2, <1>3, <1>4, <1>5, <1>6 DEF Next

LEMMA AInductive ==
  ASSUME AInv, [Next]_vars, [Calm]_vars, [Careful]_vars
  PROVE  AStep /\ AInv'
  <1>1. AStep
    BY ANext, AStutter
  <1>2. PInv' /\ Orderly'
    BY OrderlyInductive DEF AInv
  <1>3. ASSUME NEW l \in Planets PROVE Alone(l)'
    <2>1. Alone(l) /\ Turn(l)
      BY <1>1 DEF AInv, AStep
    <2> QED
      BY <2>1 DEF Alone, Turn, Alike
  <1>4. block' > 0
    BY BlockGrows
  <1> QED
    BY <1>1, <1>2, <1>3, <1>4 DEF AInv, AStep

LEMMA AInit == Init => AInv
  <1> SUFFICES ASSUME Init PROVE AInv
    OBVIOUS
  <1>1. PInv /\ Orderly
    BY PInit
  <1>2. block = 1
    BY DEF Init
  <1>3. /\ ~EmptyArtifact.is_initialized
        /\ EmptyArtifact.last_activated = 0 /\ EmptyArtifact.last_deactivated = 0
    BY DEF EmptyArtifact, NewArtifact
  <1>4. \A id \in FoundIds : ~IsActive(artifacts[id]) /\ Steadfast(id)
    BY <1>2, <1>3, IdsApart DEF Init, IsActive, Steadfast, Stamped
  <1>5. \A l \in Planets : Alone(l)
    BY <1>4 DEF Alone, Lit
  <1> QED
    BY <1>1, <1>2, <1>4, <1>5 DEF AInv

-----------------------------------------------------------------------------
(* Giving and taking back a percentage. *)

LEMMA TimesMonotone == \A x, y, b \in Nat : x <= y => x * b <= y * b
  <1> SUFFICES ASSUME NEW x \in Nat, NEW y \in Nat, NEW b \in Nat, x <= y
               PROVE  x * b <= y * b
    OBVIOUS
  <1>1. PICK d \in Nat : y = x + d
    <2>1. y - x \in Nat /\ y = x + (y - x)
      OBVIOUS
    <2> QED
      BY <2>1
  <1>2. y * b = x * b + d * b /\ d * b \in Nat /\ x * b \in Nat
    BY <1>1
  <1> QED
    BY <1>2

LEMMA PercentMonotone ==
  \A x, y, b \in Nat : x <= y => (x * b) \div 100 <= (y * b) \div 100
  <1> SUFFICES ASSUME NEW x \in Nat, NEW y \in Nat, NEW b \in Nat, x <= y
               PROVE  (x * b) \div 100 <= (y * b) \div 100
    OBVIOUS
  <1>1. x * b <= y * b /\ x * b \in Nat /\ y * b \in Nat
    BY TimesMonotone
  <1>2. \A m, n \in Nat : m <= n => m \div 100 <= n \div 100
    OBVIOUS
  <1> QED
    BY <1>1, <1>2

LEMMA TimesOver == \A x \in Nat, b \in Nat \ {0} : (x * b) \div b = x
  OBVIOUS

LEMMA DivTimes == \A n \in Nat, b \in Nat \ {0} : (n \div b) * b <= n
  OBVIOUS

LEMMA PercentBack ==
  \A x, y \in Nat, b \in Nat \ {0} : x <= (y * b) \div 100 => (x * 100) \div b <= y
  <1> SUFFICES ASSUME NEW x \in Nat, NEW y \in Nat, NEW b \in Nat \ {0},
                      x <= (y * b) \div 100
               PROVE  (x * 100) \div b <= y
    OBVIOUS
  <1> DEFINE q == (x * 100) \div b
  <1>1. y * b \in Nat /\ q \in Nat
    OBVIOUS
  <1>2. \A n \in Nat : x <= n \div 100 => x * 100 <= n
    OBVIOUS
  <1>3. q * b <= x * 100
    BY DivTimes
  <1>4. q * b <= y * b
    BY <1>1, <1>2, <1>3
  <1> HIDE DEF q
  <1>5. q > y => (y + 1) * b <= q * b
    BY <1>1, TimesMonotone
  <1>6. (y + 1) * b = y * b + b
    OBVIOUS
  <1>7. q * b \in Nat
    BY <1>1
  <1> QED
    BY <1>1, <1>4, <1>5, <1>6, <1>7 DEF q

LEMMA PercentExact ==
  \A x \in Nat, b \in Nat \ {0} :
    (x * b) % 100 = 0 => (((x * b) \div 100) * 100) \div b = x
  <1> SUFFICES ASSUME NEW x \in Nat, NEW b \in Nat \ {0}, (x * b) % 100 = 0
               PROVE  (((x * b) \div 100) * 100) \div b = x
    OBVIOUS
  <1>1. \A n \in Nat : n % 100 = 0 => (n \div 100) * 100 = n
    OBVIOUS
  <1>2. x * b \in Nat
    OBVIOUS
  <1> QED
    BY <1>1, <1>2, TimesOver
-----------------------------------------------------------------------------
(* The theorems on statistics. *)

\* A buff of any artifact is a whole number on the default statistics of l, so that
\* it can be given and taken back without a rest.
Evenly(l) ==
    \A type \in ArtifactTypes, rarity \in Rarities :
        LET default == DefaultStats[l][Geography[l].planet_type]
            buff    == Buffs[type][rarity]
        IN  /\ (default.population_cap * buff.population_cap) % 100 = 0
            /\ (default.defense * buff.defense) % 100 = 0

\* A value is what it should be, or no more than that.
Near(exact, x, y) == IF exact THEN x = y ELSE x <= y

\* The statistics of l are the default ones under the buff of what is active there.
StatsUnder(l, exact) ==
    LET default == DefaultStats[l][Geography[l].planet_type] IN
    planets[l].is_initialized =>
        \/ /\ Lit(l) = {}
           /\ Near(exact, planets[l].population_cap, default.population_cap)
           /\ Near(exact, planets[l].defense, default.defense)
        \/ \E id \in FoundIds :
             LET buff == BuffOf(artifacts[id]) IN
             /\ Lit(l) = {id}
             /\ Near(exact, planets[l].population_cap,
                     (default.population_cap * buff.population_cap) \div 100)
             /\ Near(exact, planets[l].defense,
                     (default.defense * buff.defense) \div 100)

LEMMA NearBuff ==
  ASSUME NEW exact \in BOOLEAN, NEW x \in Nat, NEW y \in Nat, NEW b \in Nat,
         Near(exact, x, y)
  PROVE  Near(exact, (x * b) \div 100, (y * b) \div 100)
  BY PercentMonotone DEF Near

LEMMA NearDebuff ==
  ASSUME NEW exact \in BOOLEAN, NEW x \in Nat, NEW y \in Nat, NEW b \in Nat \ {0},
         exact => (y * b) % 100 = 0, Near(exact, x, (y * b) \div 100)
  PROVE  Near(exact, (x * 100) \div b, y)
  BY PercentBack, PercentExact DEF Near

LEMMA LitKnown ==
  ASSUME AInv, NEW l \in Planets, NEW id \in Lit(l)
  PROVE  /\ id \in FoundIds
         /\ artifacts[id].artifact_type \in ArtifactTypes
         /\ artifacts[id].rarity \in Rarities
         /\ BuffOf(artifacts[id]) \in BuffRecord
  <1>1. id \in FoundIds /\ artifacts[id].is_initialized
    BY DEF Lit, IsActive
  <1>2. artifacts[id].artifact_type \in ArtifactTypes /\ artifacts[id].rarity \in Rarities
    BY <1>1 DEF AInv, PInv, QInv, TInv, ArtifactsKnown
  <1> QED
    BY <1>1, <1>2, BuffsType DEF BuffOf

LEMMA BareUnlit ==
  ASSUME AInv, NEW l \in Planets, ~planets[l].is_initialized
  PROVE  Lit(l) = {}
  <1>1. \A i \in ArtifactSlots : planet_artifacts[l][i] = NoArtifact
    BY WorldFields DEF AInv, PInv, Places, Bare
  <1> QED
    BY <1>1, SentinelsAssumption, IdsApart DEF Lit

\* What buffs and debuffs do to cap and defense.
LEMMA BuffFields ==
  ASSUME NEW planet \in Planet, NEW buff
  PROVE  /\ BuffPlanet(planet, buff).population_cap =
              (planet.population_cap * buff.population_cap) \div 100
         /\ BuffPlanet(planet, buff).defense = (planet.defense * buff.defense) \div 100
         /\ DebuffPlanet(planet, buff).population_cap =
              (planet.population_cap * 100) \div buff.population_cap
         /\ DebuffPlanet(planet, buff).defense = (planet.defense * 100) \div buff.defense
  BY DEF BuffPlanet, DebuffPlanet, Planet

LEMMA StatsStep ==
  ASSUME AInv, AInv', NEW l \in Planets, NEW exact \in BOOLEAN, exact => Evenly(l),
         StatsUnder(l, exact), Turn(l), Unraised(l)
  PROVE  StatsUnder(l, exact)'
  <1> DEFINE default == DefaultStats[l][Geography[l].planet_type]
             now     == planets[l]
             then    == planets'[l]
  <1>1. /\ default.population_cap \in Nat /\ default.defense \in Nat
        /\ now \in Planet /\ now.population_cap \in Nat /\ now.defense \in Nat
    <2>1. now \in Planet
      BY PlaceTypes DEF AInv, PInv
    <2> QED
      BY <2>1, StatsAssumption DEF Planet
  <1> SUFFICES ASSUME then.is_initialized
               PROVE  \/ /\ Lit(l)' = {}
                         /\ Near(exact, then.population_cap, default.population_cap)
                         /\ Near(exact, then.defense, default.defense)
                      \/ \E id \in FoundIds :
                           LET buff == BuffOf(artifacts'[id]) IN
                           /\ Lit(l)' = {id}
                           /\ Near(exact, then.population_cap,
                                   (default.population_cap * buff.population_cap) \div 100)
                           /\ Near(exact, then.defense,
                                   (default.defense * buff.defense) \div 100)
    BY DEF StatsUnder, BuffOf
  <1>2. CASE Alike(l) /\ Level(l)
    <2>1. /\ Lit(l)' = Lit(l) /\ now.is_initialized
          /\ then.population_cap = now.population_cap /\ then.defense = now.defense
          /\ \A id \in Lit(l) : BuffOf(artifacts'[id]) = BuffOf(artifacts[id])
      BY <1>2 DEF Alike, Level, BuffOf
    <2>2. CASE /\ Lit(l) = {}
               /\ Near(exact, now.population_cap, default.population_cap)
               /\ Near(exact, now.defense, default.defense)
      BY <2>1, <2>2
    <2>3. ASSUME NEW id \in FoundIds, Lit(l) = {id},
                 Near(exact, now.population_cap,
                      (default.population_cap * BuffOf(artifacts[id]).population_cap)
                        \div 100),
                 Near(exact, now.defense,
                      (default.defense * BuffOf(artifacts[id]).defense) \div 100)
          PROVE  LET buff == BuffOf(artifacts'[id]) IN
                 /\ Lit(l)' = {id}
                 /\ Near(exact, then.population_cap,
                         (default.population_cap * buff.population_cap) \div 100)
                 /\ Near(exact, then.defense, (default.defense * buff.defense) \div 100)
      <3>1. BuffOf(artifacts'[id]) = BuffOf(artifacts[id])
        BY <2>1, <2>3
      <3> QED
        BY <2>1, <2>3, <3>1
    <2> QED
      BY <2>1, <2>2, <2>3 DEF StatsUnder
  <1>3. CASE Alike(l) /\ Fresh(l)
    <2>1. Lit(l)' = {}
      BY <1>3, BareUnlit DEF Alike, Fresh
    <2>2. then.population_cap = default.population_cap /\ then.defense = default.defense
      BY <1>3 DEF Fresh
    <2>3. \A n \in Nat : Near(exact, n, n)
      BY DEF Near
    <2>4. /\ Near(exact, then.population_cap, default.population_cap)
          /\ Near(exact, then.defense, default.defense)
      BY <1>1, <2>2, <2>3
    <2> QED
      BY <2>1, <2>4
  <1>4. ASSUME NEW id \in FoundIds, Lit(l) = {}, Lit(l)' = {id},
               Becomes(l, BuffPlanet(planets[l], BuffOf(artifacts'[id])))
        PROVE  \E other \in FoundIds :
                 LET buff == BuffOf(artifacts'[other]) IN
                 /\ Lit(l)' = {other}
                 /\ Near(exact, then.population_cap,
                         (default.population_cap * buff.population_cap) \div 100)
                 /\ Near(exact, then.defense, (default.defense * buff.defense) \div 100)
    <2> DEFINE buff == BuffOf(artifacts'[id])
    <2>1. buff \in BuffRecord
      <3>1. artifacts'[id].artifact_type \in ArtifactTypes
            /\ artifacts'[id].rarity \in Rarities
        BY <1>4 DEF AInv, PInv, QInv, TInv, ArtifactsKnown, Lit, IsActive
      <3> QED
        BY <3>1, BuffsType DEF BuffOf
    <2>2. buff.population_cap \in Nat /\ buff.defense \in Nat
      BY <2>1 DEF BuffRecord
    <2> HIDE DEF buff
    <2>3. /\ now.is_initialized
          /\ then.population_cap = (now.population_cap * buff.population_cap) \div 100
          /\ then.defense = (now.defense * buff.defense) \div 100
      BY <1>1, <1>4, BuffFields DEF Becomes, buff
    <2>4. /\ Near(exact, now.population_cap, default.population_cap)
          /\ Near(exact, now.defense, default.defense)
      BY <1>4, <2>3 DEF StatsUnder
    <2>5. /\ Near(exact, then.population_cap,
                  (default.population_cap * buff.population_cap) \div 100)
          /\ Near(exact, then.defense, (default.defense * buff.defense) \div 100)
      BY <1>1, <2>2, <2>3, <2>4, NearBuff
    <2> QED
      BY <1>4, <2>5 DEF buff
  <1>5. ASSUME NEW id \in FoundIds, Lit(l) = {id}, Lit(l)' = {},
               Becomes(l, DebuffPlanet(planets[l], BuffOf(artifacts[id])))
        PROVE  /\ Near(exact, then.population_cap, default.population_cap)
               /\ Near(exact, then.defense, default.defense)
    <2> DEFINE buff == BuffOf(artifacts[id])
    <2>1. /\ buff.population_cap \in Nat \ {0} /\ buff.defense \in Nat \ {0}
          /\ artifacts[id].artifact_type \in ArtifactTypes
          /\ artifacts[id].rarity \in Rarities
      BY <1>5, LitKnown DEF BuffRecord
    <2>2. exact => /\ (default.population_cap * buff.population_cap) % 100 = 0
                   /\ (default.defense * buff.defense) % 100 = 0
      BY <2>1 DEF Evenly, BuffOf
    <2>3. \A other \in FoundIds : Lit(l) = {other} => other = id
      BY <1>5
    <2>4. /\ now.is_initialized
          /\ then.population_cap = (now.population_cap * 100) \div buff.population_cap
          /\ then.defense = (now.defense * 100) \div buff.defense
      BY <1>1, <1>5, BuffFields DEF Becomes
    <2>5. /\ Near(exact, now.population_cap,
                  (default.population_cap * buff.population_cap) \div 100)
          /\ Near(exact, now.defense, (default.defense * buff.defense) \div 100)
      BY <1>5, <2>3, <2>4 DEF StatsUnder
    <2> HIDE DEF buff, default, now, then
    <2>6. Near(exact, then.population_cap, default.population_cap)
      BY <1>1, <2>1, <2>2, <2>4, <2>5, NearDebuff
    <2>7. Near(exact, (now.defense * 100) \div buff.defense, default.defense)
      <3>1. /\ exact => (default.defense * buff.defense) % 100 = 0
            /\ Near(exact, now.defense, (default.defense * buff.defense) \div 100)
        BY <2>2, <2>5
      <3> QED
        BY <1>1, <2>1, <3>1, NearDebuff
    <2> QED
      BY <2>4, <2>6, <2>7
  <1> QED
    BY <1>2, <1>3, <1>4, <1>5 DEF Turn

\* A planet to which nothing happens.
LEMMA StatsSame ==
  ASSUME NEW l \in Planets, NEW exact \in BOOLEAN, StatsUnder(l, exact), UNCHANGED vars
  PROVE  StatsUnder(l, exact)'
  <1>1. UNCHANGED <<planets, planet_artifacts, artifacts>>
    BY DEF vars, fleetVars, artifactVars
  <1>2. Lit(l)' = Lit(l)
    BY <1>1 DEF Lit
  <1> QED
    BY <1>1, <1>2, Zenon DEF StatsUnder, BuffOf

LEMMA StatsInductive ==
  ASSUME AInv, AInv', NEW l \in Planets, NEW exact \in BOOLEAN, exact => Evenly(l),
         StatsUnder(l, exact), AStep, [Unraised(l)]_vars
  PROVE  StatsUnder(l, exact)'
  <1>1. CASE UNCHANGED vars
    BY <1>1, StatsSame
  <1>2. CASE Unraised(l)
    <2>1. Turn(l)
      BY DEF AStep
    <2> QED
      BY <1>2, <2>1, StatsStep
  <1> QED
    BY <1>1, <1>2

LEMMA StatsInit ==
  ASSUME Init, NEW l \in Planets, NEW exact \in BOOLEAN
  PROVE  StatsUnder(l, exact)
  BY DEF Init, NoPlanet, StatsUnder

\* The slots of the active artifacts of a planet are as many as those.
LEMMA LitSlots ==
  ASSUME AInv, NEW l \in Planets
  PROVE  /\ Lit(l) = {} => ActiveAt(l) = {}
         /\ \A id \in FoundIds : Lit(l) = {id} =>
              \E i \in ArtifactSlots : ActiveAt(l) = {i} /\ planet_artifacts[l][i] = id
  <1>1. \A i \in ArtifactSlots : i \in ActiveAt(l) <=> planet_artifacts[l][i] \in Lit(l)
    BY DEF ActiveAt, Lit
  <1>2. ActiveAt(l) \subseteq ArtifactSlots
    BY DEF ActiveAt
  <1>3. ASSUME NEW id \in FoundIds, Lit(l) = {id}
        PROVE  \E i \in ArtifactSlots : ActiveAt(l) = {i} /\ planet_artifacts[l][i] = id
    <2>1. PICK i \in ArtifactSlots : planet_artifacts[l][i] = id
      BY <1>3 DEF Lit
    <2>2. Tidy(World, id)
      BY DEF AInv, Orderly, OrderlyAt
    <2>3. \A j \in ArtifactSlots : planet_artifacts[l][j] = id => j = i
      BY <2>1, <2>2, WorldFields DEF Tidy
    <2>4. ActiveAt(l) = {i}
      BY <1>1, <1>2, <1>3, <2>1, <2>3
    <2> QED
      BY <2>1, <2>4
  <1> QED
    BY <1>1, <1>2, <1>3

LEMMA StatsReached ==
  ASSUME AInv, NEW l \in Planets, StatsUnder(l, TRUE)
  PROVE  StatsAt(l)
  <1> DEFINE default == DefaultStats[l][Geography[l].planet_type]
  <1> SUFFICES ASSUME planets[l].is_initialized
               PROVE  /\ Cardinality(ActiveAt(l)) <= 1
                      /\ planets[l].population_cap =
                           Under(default.population_cap, l, "population_cap")
                      /\ planets[l].defense = Under(default.defense, l, "defense")
    BY DEF StatsAt
  <1>1. CASE Lit(l) = {}
    <2>1. ActiveAt(l) = {}
      BY <1>1, LitSlots
    <2>2. ActiveOn(l) = {} /\ Cardinality(ActiveAt(l)) = 0
      BY <2>1, FS_EmptySet DEF ActiveOn
    <2>3. planets[l].population_cap = default.population_cap
          /\ planets[l].defense = default.defense
      BY <1>1 DEF StatsUnder, Near
    <2> QED
      BY <2>2, <2>3 DEF Under
  <1>2. ASSUME NEW id \in FoundIds, Lit(l) = {id},
               planets[l].population_cap =
                 (default.population_cap * BuffOf(artifacts[id]).population_cap) \div 100,
               planets[l].defense =
                 (default.defense * BuffOf(artifacts[id]).defense) \div 100
        PROVE  /\ Cardinality(ActiveAt(l)) <= 1
               /\ planets[l].population_cap =
                    Under(default.population_cap, l, "population_cap")
               /\ planets[l].defense = Under(default.defense, l, "defense")
    <2>1. PICK i \in ArtifactSlots : ActiveAt(l) = {i} /\ planet_artifacts[l][i] = id
      BY <1>2, LitSlots
    <2>2. Cardinality(ActiveAt(l)) = 1
      BY <2>1, FS_Singleton
    <2>3. ActiveOn(l) = {artifacts[id]}
      BY <2>1 DEF ActiveOn
    <2>4. (CHOOSE a \in ActiveOn(l) : TRUE) = artifacts[id]
      BY <2>3
    <2>5. \A x, field :
            Under(x, l, field) = (x * BuffOf(artifacts[id])[field]) \div 100
      BY <2>3, <2>4 DEF Under, BuffOf
    <2> HIDE DEF default
    <2> QED
      BY <1>2, <2>2, <2>5
  <1> QED
    BY <1>1, <1>2 DEF StatsUnder, Near

\* In a behaviour in which no artifact is deposited while it is on its way and none
\* is withdrawn while it is active, at most one artifact is active on a planet, and
\* what is active is in a slot of a planet.
THEOREM ActivationsKept == Spec /\ [][Calm]_vars /\ [][Careful]_vars => []AInv
  <1>1. AInv /\ [Next]_vars /\ [Calm]_vars /\ [Careful]_vars => AInv'
    BY AInductive
  <1> QED
    BY <1>1, AInit, PTL DEF Spec

\* The cap and the defense of a planet that nobody upgrades are then the default ones
\* under the buff of its active artifact, if that is a whole number: what an
\* activation gives, its end takes back, be it asked for or the firing of a cannon.
THEOREM StatsCorrect ==
  ASSUME NEW l \in Planets, Evenly(l)
  PROVE  Spec /\ [][Calm]_vars /\ [][Careful]_vars /\ [][Unraised(l)]_vars
           => []StatsAt(l)
  <1>1. Init => StatsUnder(l, TRUE)
    BY StatsInit
  <1>2. /\ AInv /\ AInv' /\ StatsUnder(l, TRUE)
        /\ [Next]_vars /\ [Calm]_vars /\ [Careful]_vars /\ [Unraised(l)]_vars
        => StatsUnder(l, TRUE)'
    BY AInductive, StatsInductive
  <1>3. AInv /\ StatsUnder(l, TRUE) => StatsAt(l)
    BY StatsReached
  <1> QED
    BY <1>1, <1>2, <1>3, ActivationsKept, PTL DEF Spec

\* In a game without upgrades all planets do.
THEOREM AllStatsCorrect ==
  ASSUME \A l \in Planets : Evenly(l)
  PROVE  Spec /\ [][Calm]_vars /\ [][Careful]_vars
           /\ [][\A l \in Planets : Unraised(l)]_vars => []StatsMatchActive
  <1> DEFINE All == \A l \in Planets : StatsUnder(l, TRUE)
  <1>1. Init => All
    BY StatsInit
  <1>2. /\ AInv /\ AInv' /\ All
        /\ [Next]_vars /\ [Calm]_vars /\ [Careful]_vars
        /\ [\A l \in Planets : Unraised(l)]_vars
        => All'
    BY AInductive, StatsInductive
  <1>3. AInv /\ All => StatsMatchActive
    BY StatsReached DEF StatsMatchActive
  <1> QED
    BY <1>1, <1>2, <1>3, ActivationsKept, PTL DEF Spec

\* Whatever is lost in rounding, however often artifacts are activated and their
\* activations end, is lost to the planet: it never has more than that.
THEOREM StatsNeverGain ==
  ASSUME NEW l \in Planets
  PROVE  Spec /\ [][Calm]_vars /\ [][Careful]_vars /\ [][Unraised(l)]_vars
           => []StatsUnder(l, FALSE)
  <1>1. Init => StatsUnder(l, FALSE)
    BY StatsInit
  <1>2. /\ AInv /\ AInv' /\ StatsUnder(l, FALSE)
        /\ [Next]_vars /\ [Calm]_vars /\ [Careful]_vars /\ [Unraised(l)]_vars
        => StatsUnder(l, FALSE)'
    BY AInductive, StatsInductive
  <1> QED
    BY <1>1, <1>2, ActivationsKept, PTL DEF Spec

=============================================================================
