---------------------------- MODULE DFTypeProofs ----------------------------
(***************************************************************************)
(* TypeOK of DFProperties holds in every reachable state of DarkForest.    *)
(*                                                                         *)
(* What has to be argued is arithmetic on unsigned numbers: no landing,    *)
(* move, upgrade or refresh takes more than there is, and no division is   *)
(* by zero.  TypeOK alone is not inductive: that a debuff never divides by *)
(* zero rests on what kind of artifact can be active (ArtifactsKnown), and *)
(* that a landing is on a planet at all on where arrivals are bound for    *)
(* (LiveBound).  The lemmas about the operators of DFRules come first; all *)
(* other proofs about the contract cite them too.                          *)
(***************************************************************************)
EXTENDS DFProperties, WellFoundedInduction, FiniteSetTheorems, TLAPS

-----------------------------------------------------------------------------
(* Arithmetic. *)

\* A quotient of natural numbers is one: every rounding of the rules rounds down.
LEMMA DivNat == \A a \in Nat, d \in Nat \ {0} : a \div d \in Nat
  OBVIOUS

LEMMA TimesNat == \A a, b \in Nat : a * b \in Nat
  OBVIOUS

LEMMA PercentNat == \A a, b \in Nat : (a * b) \div 100 \in Nat
  <1> SUFFICES ASSUME NEW a \in Nat, NEW b \in Nat
               PROVE  (a * b) \div 100 \in Nat
    OBVIOUS
  <1>1. a * b \in Nat
    BY TimesNat
  <1> QED
    BY <1>1, DivNat

\* The two roundings of a landing agree: a force that beats the garrison is at
\* least what the garrison costs it, so survivors are never fewer than none.
LEMMA SurvivorsNat ==
  ASSUME NEW force \in Nat, NEW pop \in Nat, NEW defense \in Nat \ {0},
         ~(pop > (force * 100) \div defense)
  PROVE  force - ((pop * defense) \div 100) \in Nat
  <1> DEFINE q == (force * 100) \div defense
             r == (force * 100) % defense
             p == pop * defense
  <1>1. q \in Nat /\ p \in Nat /\ pop <= q
    BY TimesNat, DivNat
  <1>2. defense * q <= force * 100
    OBVIOUS
  <1>3. p <= force * 100
    <2>1. pop * defense <= q * defense
      BY <1>1
    <2> QED
      BY <2>1, <1>1, <1>2
  <1>4. p \div 100 <= force
    <2> HIDE DEF p
    <2> QED
      BY <1>1, <1>3
  <1> QED
    BY <1>1, <1>4, DivNat

\* The least-number principle, from the well-foundedness of finite sets.
LEMMA LeastOfNats ==
  ASSUME NEW S \in SUBSET Nat, S # {}
  PROVE  \E m \in S : \A n \in S : m <= n
  <1> DEFINE Below(k) == 0..k
             T == {Below(k) : k \in S}
  <1>1. \A k \in S : Below(k) \in FiniteSubsetsOf(Nat)
    BY FS_Interval DEF FiniteSubsetsOf
  <1>2. IsWellFoundedOn(StrictSubsetOrdering(Nat), FiniteSubsetsOf(Nat))
    BY FS_StrictSubsetOrderingWellFounded
  <1>3. PICK x \in T : \A y \in T : ~(<<y, x>> \in StrictSubsetOrdering(Nat))
    <2>1. T \subseteq FiniteSubsetsOf(Nat)
      BY <1>1
    <2>2. T # {}
      OBVIOUS
    <2> HIDE DEF T
    <2> QED
      BY <1>2, <2>1, <2>2, WFMin
  <1>4. PICK m \in S : x = Below(m)
    OBVIOUS
  <1>5. ASSUME NEW n \in S, n < m  PROVE FALSE
    <2>1. Below(n) \subseteq Below(m) /\ Below(n) # Below(m)
      <3>1. m \in Below(m) /\ m \notin Below(n)
        BY <1>5
      <3> QED
        BY <3>1, <1>5
    <2>2. <<Below(n), Below(m)>> \in StrictSubsetOrdering(Nat)
      BY <2>1 DEF StrictSubsetOrdering
    <2> QED
      BY <2>2, <1>3, <1>4
  <1> QED
    BY <1>5

-----------------------------------------------------------------------------
(* Planets. *)

LEMMA LeastNat == \A a, b \in Nat : Least(a, b) \in Nat /\ Least(a, b) <= a /\ Least(a, b) <= b
  BY DEF Least

\* A planet made from its default statistics is a planet.
LEMMA DefaultPlanetType ==
  ASSUME NEW l \in Planets, NEW type \in PlanetTypes,
         NEW owner \in Players \cup {Zero}, NEW is_home \in BOOLEAN,
         NEW when \in Nat
  PROVE  DefaultPlanet(l, type, owner, is_home, when) \in Planet
  <1> DEFINE stats == DefaultStats[l][type]
  <1>1. stats \in [population : Nat, population_cap : Nat,
                   population_growth : Nat, silver : Nat, silver_cap : Nat,
                   silver_growth : Nat, defense : Nat]
    BY StatsAssumption
  <1>2. [b \in Branches |-> 0] \in [Branches -> Nat]
    OBVIOUS
  <1> HIDE DEF stats
  <1> QED
    BY <1>1, <1>2, LimitAssumption DEF DefaultPlanet, Planet, stats

LEMMA NoPlanetType == NoPlanet \in Planet
  <1>1. [b \in Branches |-> 0] \in [Branches -> Nat]
    OBVIOUS
  <1> QED
    BY <1>1 DEF NoPlanet, Planet, PlanetTypes

\* Growth and decay stay among the natural numbers.
LEMMA GrownNat ==
  ASSUME NEW planet \in Planet, NEW blocks \in Nat
  PROVE  Grown(planet, blocks) \in Nat
  <1> DEFINE step == planet.population_growth * blocks
  <1>1. /\ planet.population \in Nat /\ planet.population_cap \in Nat
        /\ step \in Nat
    BY TimesNat DEF Planet
  <1> HIDE DEF step
  <1> QED
    BY <1>1 DEF Grown, Least, Greatest, step

LEMMA CappedNat ==
  ASSUME NEW planet \in Planet, NEW pausers \in Nat, NEW population \in Nat
  PROVE  Capped(planet, pausers, population) \in Nat
  BY DEF Capped, Least, Planet

LEMMA UpdatePopulationNat ==
  ASSUME NEW planet \in Planet, NEW blocks \in Nat, NEW pausers \in Nat
  PROVE  UpdatePopulation(planet, blocks, pausers) \in Nat
  <1>1. Grown(planet, blocks) \in Nat /\ planet.population \in Nat
    BY GrownNat DEF Planet
  <1>2. Least(Grown(planet, blocks), planet.population) \in Nat
    BY <1>1, LeastNat
  <1> QED
    BY <1>1, <1>2, CappedNat DEF UpdatePopulation

LEMMA UpdateSilverNat ==
  ASSUME NEW planet \in Planet, NEW blocks \in Nat
  PROVE  UpdateSilver(planet, blocks) \in Nat
  <1>1. /\ planet.silver \in Nat /\ planet.silver_cap \in Nat
        /\ planet.silver_growth * blocks \in Nat
    BY TimesNat DEF Planet
  <1>2. planet.silver + planet.silver_growth * blocks \in Nat
    BY <1>1
  <1> QED
    BY <1>1, <1>2, LeastNat DEF UpdateSilver

\* A refreshed planet is a planet, of the same owner, and its clock is at the
\* block it was refreshed to, or ahead of it as it was before.
LEMMA RefreshKeeps ==
  ASSUME NEW planet \in Planet, NEW pausers \in Nat, NEW when \in Nat
  PROVE  LET fresh == Refresh(planet, pausers, when) IN
         /\ fresh \in Planet
         /\ fresh.is_initialized = planet.is_initialized
         /\ fresh.owner = planet.owner
         /\ fresh.defense = planet.defense
         /\ fresh.planet_type = planet.planet_type
         /\ fresh.is_home_planet = planet.is_home_planet
         /\ fresh.upgrades = planet.upgrades
         /\ planet.last_updated <= when /\ planet.is_initialized
              => fresh.last_updated = when
  <1> DEFINE blocks == when - planet.last_updated
  <1>1. CASE ~planet.is_initialized \/ when <= planet.last_updated
    BY <1>1 DEF Refresh, Planet
  <1>2. CASE ~(~planet.is_initialized \/ when <= planet.last_updated)
    <2>1. blocks \in Nat
      BY <1>2 DEF Planet
    <2>2. UpdatePopulation(planet, blocks, pausers) \in Nat
      BY <2>1, UpdatePopulationNat
    <2>3. UpdateSilver(planet, blocks) \in Nat
      BY <2>1, UpdateSilverNat
    <2>4. Refresh(planet, pausers, when) =
            IF planet.owner = Zero
            THEN [planet EXCEPT !.last_updated = when]
            ELSE [planet EXCEPT
                    !.population   = UpdatePopulation(planet, blocks, pausers),
                    !.silver       = UpdateSilver(planet, blocks),
                    !.last_updated = when]
      BY <1>2 DEF Refresh
    <2> HIDE DEF blocks
    <2> QED
      BY <2>2, <2>3, <2>4 DEF Planet
  <1> QED
    BY <1>1, <1>2

\* What a landing leaves of a garrison: an owner, and no population below zero.
LEMMA ClashType ==
  ASSUME NEW planet \in Planet, NEW player \in Players \cup {Zero},
         NEW force \in Nat, NEW type,
         Hostile(planet, player, type) => planet.defense # 0
  PROVE  Clash(planet, player, force, type)
           \in [owner : Players \cup {Zero}, population : Nat]
  <1> DEFINE damage   == (force * 100) \div planet.defense
             survivor == force - ((planet.population * planet.defense) \div 100)
  <1>1. /\ planet.owner \in Players \cup {Zero}
        /\ planet.population \in Nat
        /\ planet.defense \in Nat
    BY DEF Planet
  <1>2. CASE ~Hostile(planet, player, type)
    BY <1>1, <1>2 DEF Clash
  <1>3. CASE Hostile(planet, player, type)
    <2>1. planet.defense \in Nat \ {0} /\ damage \in Nat
      BY <1>1, <1>3, TimesNat, DivNat
    <2>2. player # planet.owner
      BY <1>3 DEF Hostile
    <2>3. CASE planet.population > damage
      <3>1. planet.population - damage \in Nat
        BY <1>1, <2>1, <2>3
      <3>2. Clash(planet, player, force, type) =
              [owner |-> planet.owner, population |-> planet.population - damage]
        BY <1>3, <2>2, <2>3 DEF Clash
      <3> HIDE DEF damage
      <3> QED
        BY <1>1, <3>1, <3>2
    <2>4. CASE ~(planet.population > damage)
      <3>1. survivor \in Nat
        BY <1>1, <2>1, <2>4, SurvivorsNat
      <3>2. Clash(planet, player, force, type) =
              [owner |-> IF player = Zero THEN planet.owner ELSE player,
               population |-> IF survivor = 0 THEN 1 ELSE survivor]
        BY <1>3, <2>2, <2>4 DEF Clash
      <3> HIDE DEF survivor
      <3> QED
        BY <1>1, <3>1, <3>2
    <2> QED
      BY <2>3, <2>4
  <1> QED
    BY <1>2, <1>3

\* The planet a landing leaves, clock at the arrival's block.
LEMMA LandedKeeps ==
  ASSUME NEW planet \in Planet, NEW pausers \in Nat, NEW arrival,
         arrival.player \in Players \cup {Zero},
         arrival.pop_arriving \in Nat, arrival.silver_moved \in Nat,
         arrival.arrival_block \in Nat,
         Hostile(planet, arrival.player, arrival.arrival_type)
           => planet.defense # 0
  PROVE  LET landed == Landed(planet, pausers, arrival) IN
         /\ landed \in Planet
         /\ landed.is_initialized = planet.is_initialized
         /\ landed.planet_type = planet.planet_type
         /\ landed.is_home_planet = planet.is_home_planet
         /\ landed.last_updated = arrival.arrival_block
  <1> DEFINE aged  == Refresh(planet, pausers, arrival.arrival_block)
             clash == Clash(aged, arrival.player, arrival.pop_arriving,
                            arrival.arrival_type)
  <1>1. /\ aged \in Planet
        /\ aged.is_initialized = planet.is_initialized
        /\ aged.owner = planet.owner
        /\ aged.defense = planet.defense
        /\ aged.planet_type = planet.planet_type
        /\ aged.is_home_planet = planet.is_home_planet
    BY RefreshKeeps
  <1>2. Hostile(aged, arrival.player, arrival.arrival_type) => aged.defense # 0
    BY <1>1 DEF Hostile
  <1> HIDE DEF aged
  <1>3. clash \in [owner : Players \cup {Zero}, population : Nat]
    BY <1>1, <1>2, ClashType
  <1> HIDE DEF clash
  <1>4. Capped(aged, pausers, clash.population) \in Nat
    BY <1>1, <1>3, CappedNat
  <1>5. Least(aged.silver + arrival.silver_moved, aged.silver_cap) \in Nat
    <2>1. /\ aged.silver \in Nat /\ aged.silver_cap \in Nat
          /\ aged.silver + arrival.silver_moved \in Nat
      BY <1>1 DEF Planet
    <2> QED
      BY <2>1, LeastNat
  <1>6. Landed(planet, pausers, arrival) =
          [aged EXCEPT
             !.owner        = clash.owner,
             !.population   = Capped(aged, pausers, clash.population),
             !.silver       = Least(aged.silver + arrival.silver_moved,
                                    aged.silver_cap),
             !.last_updated = arrival.arrival_block]
    BY DEF Landed, aged, clash
  <1> QED
    BY <1>1, <1>3, <1>4, <1>5, <1>6 DEF Planet

\* What a buff, an upgrade or a ship changes of a planet leaves it a planet, and
\* its clock and its owner as they were.
BuffRecord == [population_cap : Nat \ {0}, population_growth : Nat \ {0},
               defense : Nat \ {0}]

SamePlace(planet, changed) ==
    /\ changed \in Planet
    /\ changed.is_initialized = planet.is_initialized
    /\ changed.owner = planet.owner
    /\ changed.population = planet.population
    /\ changed.silver = planet.silver
    /\ changed.last_updated = planet.last_updated
    /\ changed.planet_type = planet.planet_type
    /\ changed.is_home_planet = planet.is_home_planet
    /\ changed.upgrades = planet.upgrades

LEMMA BuffKeeps ==
  ASSUME NEW planet \in Planet, NEW buff \in BuffRecord
  PROVE  SamePlace(planet, BuffPlanet(planet, buff))
  <1>1. /\ (planet.population_cap * buff.population_cap) \div 100 \in Nat
        /\ (planet.population_growth * buff.population_growth) \div 100 \in Nat
        /\ (planet.defense * buff.defense) \div 100 \in Nat
    BY PercentNat DEF Planet, BuffRecord
  <1> QED
    BY <1>1 DEF SamePlace, BuffPlanet, Planet

LEMMA DebuffKeeps ==
  ASSUME NEW planet \in Planet, NEW buff \in BuffRecord
  PROVE  SamePlace(planet, DebuffPlanet(planet, buff))
  <1> DEFINE cap     == (planet.population_cap * 100) \div buff.population_cap
             growth  == (planet.population_growth * 100) \div buff.population_growth
             defense == (planet.defense * 100) \div buff.defense
  <1>1. /\ planet.population_cap * 100 \in Nat
        /\ planet.population_growth * 100 \in Nat
        /\ planet.defense * 100 \in Nat
    BY DEF Planet
  <1>2. cap \in Nat /\ growth \in Nat /\ defense \in Nat
    BY <1>1, DivNat DEF BuffRecord
  <1>3. DebuffPlanet(planet, buff) =
          [planet EXCEPT !.population_cap = cap, !.population_growth = growth,
                         !.defense = defense]
    BY DEF DebuffPlanet
  <1> HIDE DEF cap, growth, defense
  <1> QED
    BY <1>2, <1>3 DEF SamePlace, Planet

LEMMA UpgradeBuffType ==
  ASSUME NEW b \in Branches PROVE UpgradeBuff(b) \in BuffRecord
  BY DEF UpgradeBuff, BuffRecord

LEMMA DockedKeeps ==
  ASSUME NEW planet \in Planet, NEW ship, NEW present \in Nat
  PROVE  SamePlace(planet, Docked(planet, ship, present))
  <1>1. planet.population_growth \in Nat /\ planet.silver_growth \in Nat
    BY DEF Planet
  <1>2. 2 * planet.population_growth \in Nat /\ 2 * planet.silver_growth \in Nat
    BY <1>1
  <1> QED
    BY <1>1, <1>2 DEF SamePlace, Docked, Planet

LEMMA UndockedKeeps ==
  ASSUME NEW planet \in Planet, NEW ship, NEW present \in Nat
  PROVE  SamePlace(planet, Undocked(planet, ship, present))
  <1>1. planet.population_growth \in Nat /\ planet.silver_growth \in Nat
    BY DEF Planet
  <1>2. /\ planet.population_growth \div 2 \in Nat
        /\ planet.silver_growth \div 2 \in Nat
    BY <1>1, DivNat
  <1> QED
    BY <1>1, <1>2 DEF SamePlace, Undocked, Planet

-----------------------------------------------------------------------------
(* The fixed arrays. *)

\* What is searched and there is found.
LEMMA FirstSlotFound ==
  ASSUME NEW list, DOMAIN list \subseteq Nat, NEW v, Holds(list, v)
  PROVE  FirstSlot(list, v) \in DOMAIN list /\ list[FirstSlot(list, v)] = v
  <1> DEFINE S == {i \in DOMAIN list : list[i] = v}
  <1>1. S \in SUBSET Nat /\ S # {}
    BY DEF Holds
  <1>2. PICK m \in S : \A n \in S : m <= n
    BY <1>1, LeastOfNats
  <1>3. \E i \in DOMAIN list : /\ list[i] = v
                               /\ \A j \in DOMAIN list : list[j] = v => i <= j
    BY <1>2
  <1> QED
    BY <1>3 DEF FirstSlot

\* Put fills one slot that was free, and no other.
LEMMA PutKeeps ==
  ASSUME NEW D \in SUBSET Nat, NEW Ids, NEW list \in [D -> Ids], NEW value \in Ids,
         NEW free, Holds(list, free)
  PROVE  \E s \in D : /\ list[s] = free
                      /\ Put(list, free, value) = [list EXCEPT ![s] = value]
                      /\ Put(list, free, value) \in [D -> Ids]
  BY FirstSlotFound DEF Put

LEMMA WithoutKeeps ==
  ASSUME NEW D, NEW Ids, NEW list \in [D -> Ids], NEW free \in Ids, NEW value
  PROVE  Without(list, free, value) \in [D -> Ids]
  BY DEF Without

-----------------------------------------------------------------------------
(* The inductive invariant, and storage in the middle of a transaction. *)

\* Found artifacts have a type and a rarity that have a buff; ships are never
\* active (a Crescent is activated and deactivated in the same block).
ArtifactsKnown ==
    /\ \A id \in FoundIds : artifacts[id].is_initialized =>
         /\ artifacts[id].artifact_type \in ArtifactTypes
         /\ artifacts[id].rarity \in Rarities
    /\ \A id \in ShipIds : ~IsActive(artifacts[id])

LiveBound == \A id \in ArrivalIds : Live(id) => arrivals[id].to_planet \in Planets

TInv == TypeOK /\ ArtifactsKnown /\ LiveBound

\* The storage a landing works on, typed as the variables are.
Worlds == [ok : BOOLEAN, planets : [Planets -> Planet],
           planet_arrivals : [Planets -> [Slots -> ArrivalIds \cup {0}]],
           arrivals : [ArrivalIds -> Arrival],
           planet_artifacts :
             [Planets -> [ArtifactSlots -> ArtifactIds \cup {NoArtifact}]],
           artifact_locations :
             [ArtifactIds -> Planets \cup {Nowhere, MaxLocation}],
           ship_counts : [Planets -> [EffectShips -> Nat]]]

BoundIn(w) ==
    \A id \in ArrivalIds :
        w.arrivals[id].arrival_block # 0 => w.arrivals[id].to_planet \in Planets

TypedWorld(w) == w \in Worlds /\ BoundIn(w)

-----------------------------------------------------------------------------
(* Small facts about the constants. *)

LEMMA SlotsNat == Slots \in SUBSET Nat /\ ArtifactSlots \in SUBSET Nat
  BY LimitAssumption DEF Slots, ArtifactSlots

LEMMA IdsApart == FoundIds \cap ShipIds = {} /\ FoundIds \subseteq ArtifactIds
                    /\ ShipIds \subseteq ArtifactIds
  <1>1. "found" \notin ShipTypes
    BY ArtifactAssumption DEF EffectShips
  <1> QED
    BY <1>1 DEF FoundIds, ShipIds, ArtifactIds

LEMMA EmptyArrivalType == EmptyArrival \in Arrival
  BY DEF EmptyArrival, Arrival, Addresses, ArrivalTypes

LEMMA BuffsType ==
  ASSUME NEW type \in ArtifactTypes, NEW rarity \in Rarities
  PROVE  Buffs[type][rarity] \in BuffRecord
  BY ArtifactAssumption DEF BuffRecord

-----------------------------------------------------------------------------
(* Landings keep the storage typed. *)

LEMMA WorldTyped ==
  ASSUME TInv
  PROVE  TypedWorld(World) /\ World.ok = TRUE
  BY DEF TInv, TypeOK, LiveBound, Live, TypedWorld, Worlds, BoundIn, World

LEMMA ClearedType ==
  ASSUME NEW queue \in [Slots -> ArrivalIds \cup {0}], NEW id
  PROVE  Cleared(queue, id) \in [Slots -> ArrivalIds \cup {0}]
  BY DEF Cleared

LEMMA UnloadType ==
  ASSUME NEW w \in Worlds, NEW l \in Planets,
         NEW id \in ArtifactIds \cup {NoArtifact},
         id # NoArtifact => Holds(w.planet_artifacts[l], NoArtifact)
  PROVE  /\ Unload(w, l, id) \in Worlds
         /\ Unload(w, l, id).arrivals = w.arrivals
         /\ Unload(w, l, id).planet_arrivals = w.planet_arrivals
         /\ Unload(w, l, id).ok = w.ok
  <1> DEFINE slots == Put(w.planet_artifacts[l], NoArtifact, id)
  <1>1. CASE id = NoArtifact
    BY <1>1 DEF Unload
  <1>2. CASE id # NoArtifact
    <2>1. slots \in [ArtifactSlots -> ArtifactIds \cup {NoArtifact}]
      <3>1. w.planet_artifacts[l] \in [ArtifactSlots -> ArtifactIds \cup {NoArtifact}]
        BY DEF Worlds
      <3> QED
        BY <1>2, <3>1, SlotsNat, PutKeeps
    <2> HIDE DEF slots
    <2>2. CASE ~Affects(id, w.planets[l])
      <3>1. Unload(w, l, id) =
              [w EXCEPT !.planet_artifacts[l] = slots,
                        !.artifact_locations[id] = l]
        BY <1>2, <2>2 DEF Unload, slots
      <3>2. id \in ArtifactIds /\ l \in Planets \cup {Nowhere, MaxLocation}
        BY <1>2
      <3>3. /\ [w.planet_artifacts EXCEPT ![l] = slots]
                 \in [Planets -> [ArtifactSlots -> ArtifactIds \cup {NoArtifact}]]
            /\ [w.artifact_locations EXCEPT ![id] = l]
                 \in [ArtifactIds -> Planets \cup {Nowhere, MaxLocation}]
        BY <2>1, <3>2 DEF Worlds
      <3> QED
        BY <3>1, <3>3 DEF Worlds
    <2>3. CASE Affects(id, w.planets[l])
      <3> DEFINE count == w.ship_counts[l][id[2]]
                 docked == Docked(w.planets[l], id[2], count)
      <3>1. id[2] \in EffectShips
        BY <2>3 DEF Affects
      <3>2. count \in Nat /\ w.planets[l] \in Planet
        BY <3>1 DEF Worlds
      <3>3. docked \in Planet
        BY <3>2, DockedKeeps DEF SamePlace
      <3>4. Unload(w, l, id) =
              [w EXCEPT !.planet_artifacts[l] = slots,
                        !.artifact_locations[id] = l,
                        !.planets[l] = docked,
                        !.ship_counts[l][id[2]] = count + 1]
        BY <1>2, <2>3 DEF Unload, slots
      <3> HIDE DEF count, docked
      <3>5. id \in ArtifactIds /\ l \in Planets \cup {Nowhere, MaxLocation}
            /\ count + 1 \in Nat
        BY <1>2, <3>2
      <3>6. /\ [w.planet_artifacts EXCEPT ![l] = slots]
                 \in [Planets -> [ArtifactSlots -> ArtifactIds \cup {NoArtifact}]]
            /\ [w.artifact_locations EXCEPT ![id] = l]
                 \in [ArtifactIds -> Planets \cup {Nowhere, MaxLocation}]
            /\ [w.planets EXCEPT ![l] = docked] \in [Planets -> Planet]
            /\ [w.ship_counts EXCEPT ![l][id[2]] = count + 1]
                 \in [Planets -> [EffectShips -> Nat]]
        BY <2>1, <3>1, <3>3, <3>5 DEF Worlds
      <3> QED
        BY <3>4, <3>6 DEF Worlds
    <2> QED
      BY <2>2, <2>3
  <1> QED
    BY <1>1, <1>2

LEMMA ExecuteType ==
  ASSUME block \in Nat, NEW w, TypedWorld(w), NEW id \in ArrivalIds
  PROVE  TypedWorld(ExecuteArrival(w, id))
  <1> DEFINE arrival == w.arrivals[id]
             l       == arrival.to_planet
             planet  == Landed(w.planets[l], Pausers(w, l), arrival)
             queue   == Cleared(w.planet_arrivals[l], id)
             landed  == [w EXCEPT !.planets[l] = planet,
                                  !.planet_arrivals[l] = queue,
                                  !.arrivals[id] = EmptyArrival]
  <1>1. CASE ~CanLand(w, id)
    BY <1>1 DEF ExecuteArrival, TypedWorld, Worlds, BoundIn
  <1>2. CASE CanLand(w, id)
    <2>1. arrival \in Arrival /\ l \in Planets
      BY <1>2 DEF CanLand, TypedWorld, Worlds, BoundIn
    <2>2. w.planets[l] \in Planet /\ Pausers(w, l) \in Nat
      BY <2>1 DEF TypedWorld, Worlds, Pausers, EffectShips
    <2>3. planet \in Planet
      <3>1. /\ arrival.player \in Players \cup {Zero}
            /\ arrival.pop_arriving \in Nat /\ arrival.silver_moved \in Nat
            /\ arrival.arrival_block \in Nat
        BY <2>1 DEF Arrival, Addresses
      <3>2. Hostile(w.planets[l], arrival.player, arrival.arrival_type)
              => w.planets[l].defense # 0
        BY <1>2 DEF CanLand
      <3> HIDE DEF l, arrival
      <3> QED
        BY <2>2, <3>1, <3>2, LandedKeeps
    <2>4. queue \in [Slots -> ArrivalIds \cup {0}]
      BY <2>1, ClearedType DEF TypedWorld, Worlds
    <2>5. landed \in Worlds /\ BoundIn(landed)
          /\ landed.planet_artifacts = w.planet_artifacts
      <3> HIDE DEF planet, queue
      <3>1. landed \in Worlds
        BY <2>1, <2>3, <2>4, EmptyArrivalType DEF TypedWorld, Worlds
      <3>2. landed.arrivals = [w.arrivals EXCEPT ![id] = EmptyArrival]
        BY DEF TypedWorld, Worlds
      <3>3. w.arrivals \in [ArrivalIds -> Arrival] /\ BoundIn(w)
        BY DEF TypedWorld, Worlds
      <3>4. landed.planet_artifacts = w.planet_artifacts
        BY DEF TypedWorld, Worlds
      <3> HIDE DEF landed
      <3> QED
        BY <3>1, <3>2, <3>3, <3>4 DEF BoundIn, EmptyArrival
    <2>6. ExecuteArrival(w, id) = Unload(landed, l, arrival.carried_artifact_id)
      BY <1>2 DEF ExecuteArrival
    <2>7. arrival.carried_artifact_id \in ArtifactIds \cup {NoArtifact}
      BY <2>1 DEF Arrival
    <2>8. arrival.carried_artifact_id # NoArtifact
            => Holds(landed.planet_artifacts[l], NoArtifact)
      BY <1>2, <2>5 DEF CanLand
    <2> HIDE DEF landed, l, arrival
    <2>9. /\ Unload(landed, l, arrival.carried_artifact_id) \in Worlds
          /\ Unload(landed, l, arrival.carried_artifact_id).arrivals = landed.arrivals
      BY <2>1, <2>5, <2>7, <2>8, UnloadType
    <2> QED
      BY <2>5, <2>6, <2>9 DEF TypedWorld, BoundIn
  <1> QED
    BY <1>1, <1>2

\* The earliest of some arrivals is one of them, and none of them lands before it.
LEMMA EarliestFound ==
  ASSUME NEW w \in Worlds, NEW l \in Planets, NEW slots \in SUBSET Slots,
         slots # {}, \A i \in slots : w.planet_arrivals[l][i] \in ArrivalIds
  PROVE  \E i \in slots :
           /\ EarliestId(w, l, slots) = w.planet_arrivals[l][i]
           /\ \A j \in slots : w.arrivals[w.planet_arrivals[l][i]].arrival_block
                                 <= w.arrivals[w.planet_arrivals[l][j]].arrival_block
  <1> DEFINE When(i) == w.arrivals[w.planet_arrivals[l][i]].arrival_block
             Times   == {When(i) : i \in slots}
             IsFirst(i) == \A j \in slots :
                             When(i) < When(j) \/ (When(i) = When(j) /\ i <= j)
  <1>1. \A i \in slots : When(i) \in Nat
    BY DEF Worlds, Arrival
  <1>2. PICK t \in Times : \A u \in Times : t <= u
    <2>1. Times \in SUBSET Nat /\ Times # {}
      BY <1>1
    <2> HIDE DEF Times
    <2> QED
      BY <2>1, LeastOfNats
  <1> DEFINE First == {i \in slots : When(i) = t}
  <1>3. PICK m \in First : \A n \in First : m <= n
    <2>1. First \in SUBSET Nat /\ First # {}
      BY <1>2, SlotsNat
    <2> HIDE DEF First
    <2> QED
      BY <2>1, LeastOfNats
  <1>4. m \in slots /\ IsFirst(m)
    <2> SUFFICES ASSUME NEW j \in slots
                 PROVE  When(m) < When(j) \/ (When(m) = When(j) /\ m <= j)
      OBVIOUS
    <2>1. When(m) = t /\ m \in slots
      BY <1>3
    <2>2. t <= When(j)
      BY <1>2
    <2>3. When(m) \in Nat /\ When(j) \in Nat
      BY <1>1, <2>1
    <2>4. When(m) = When(j) => m <= j
      <3>1. ASSUME When(m) = When(j) PROVE j \in First
        BY <2>1, <3>1
      <3> HIDE DEF When, First
      <3> QED
        BY <1>3, <3>1
    <2> HIDE DEF When
    <2> QED
      BY <2>1, <2>2, <2>3, <2>4
  <1> DEFINE first == CHOOSE i \in slots : IsFirst(i)
  <1>5. first \in slots /\ IsFirst(first)
    BY <1>4
  <1>6. EarliestId(w, l, slots) = w.planet_arrivals[l][first]
    BY DEF EarliestId
  <1> HIDE DEF first
  <1>7. \A j \in slots : When(first) <= When(j)
    <2> HIDE DEF When
    <2> QED
      BY <1>1, <1>5
  <1> QED
    BY <1>5, <1>6, <1>7

LEMMA DueIds ==
  ASSUME NEW w \in Worlds, NEW l \in Planets
  PROVE  /\ DueSlots(w, l, block) \in SUBSET Slots
         /\ \A i \in DueSlots(w, l, block) : w.planet_arrivals[l][i] \in ArrivalIds
  BY DEF DueSlots, Worlds

LEMMA RoundType ==
  ASSUME block \in Nat, NEW w, TypedWorld(w), NEW l \in Planets
  PROVE  TypedWorld(Round(w, l))
  <1> DEFINE due == DueSlots(w, l, block)
  <1>1. CASE Done(w, l)
    BY <1>1 DEF Round
  <1>2. CASE ~Done(w, l)
    <2>1. due # {} /\ w \in Worlds
      BY <1>2 DEF Done, TypedWorld
    <2>2. EarliestId(w, l, due) \in ArrivalIds
      <3>1. due \in SUBSET Slots
            /\ \A i \in due : w.planet_arrivals[l][i] \in ArrivalIds
        BY <2>1, DueIds
      <3> HIDE DEF due
      <3>2. PICK i \in due : EarliestId(w, l, due) = w.planet_arrivals[l][i]
        BY <2>1, <3>1, EarliestFound
      <3> QED
        BY <3>1, <3>2
    <2> QED
      BY <1>2, <2>2, ExecuteType DEF Round
  <1> QED
    BY <1>1, <1>2

LEMMA ThreeRoundsType ==
  ASSUME block \in Nat, NEW w, TypedWorld(w), NEW l \in Planets
  PROVE  TypedWorld(ThreeRounds(w, l))
  <1>1. TypedWorld(Round(w, l))
    BY RoundType
  <1>2. TypedWorld(Round(Round(w, l), l))
    BY <1>1, RoundType
  <1> QED
    BY <1>2, RoundType DEF ThreeRounds

LEMMA ProcessType ==
  ASSUME block \in Nat, NEW w, TypedWorld(w), NEW l \in Planets
  PROVE  TypedWorld(ProcessPending(w, l))
  <1>1. TypedWorld(ThreeRounds(w, l))
    BY ThreeRoundsType
  <1>2. TypedWorld(ThreeRounds(ThreeRounds(w, l), l))
    BY <1>1, ThreeRoundsType
  <1>3. TypedWorld(ThreeRounds(ThreeRounds(ThreeRounds(w, l), l), l))
    BY <1>2, ThreeRoundsType
  <1>4. TypedWorld(ThreeRounds(ThreeRounds(ThreeRounds(ThreeRounds(w, l), l), l), l))
    BY <1>3, ThreeRoundsType
  <1> QED
    BY <1>4 DEF ProcessPending

LEMMA SettledType ==
  ASSUME TInv, NEW from \in Planets, NEW to \in Planets
  PROVE  TypedWorld(Settled(from, to))
  <1>1. block \in Nat
    BY DEF TInv, TypeOK
  <1>2. TypedWorld(ProcessPending(World, from))
    BY <1>1, WorldTyped, ProcessType
  <1> QED
    BY <1>1, <1>2, ProcessType DEF Settled

\* What a typed world is made of, for the transactions that write it.
LEMMA TypedParts ==
  ASSUME NEW w, TypedWorld(w)
  PROVE  /\ w.planets \in [Planets -> Planet]
         /\ w.planet_arrivals \in [Planets -> [Slots -> ArrivalIds \cup {0}]]
         /\ w.arrivals \in [ArrivalIds -> Arrival]
         /\ w.planet_artifacts \in
              [Planets -> [ArtifactSlots -> ArtifactIds \cup {NoArtifact}]]
         /\ w.artifact_locations \in
              [ArtifactIds -> Planets \cup {Nowhere, MaxLocation}]
         /\ w.ship_counts \in [Planets -> [EffectShips -> Nat]]
         /\ BoundIn(w)
         /\ \A l \in Planets : Pausers(w, l) \in Nat
  <1>1. w \in Worlds /\ BoundIn(w)
    BY DEF TypedWorld
  <1>2. w.ship_counts \in [Planets -> [EffectShips -> Nat]]
    BY <1>1 DEF Worlds
  <1>3. \A l \in Planets : Pausers(w, l) \in Nat
    BY <1>2 DEF Pausers, EffectShips
  <1> QED
    BY <1>1, <1>2, <1>3 DEF Worlds

-----------------------------------------------------------------------------
(* Every step keeps the variables typed: one lemma per action. *)

LEMMA EmptyArtifactType == EmptyArtifact \in Artifact /\ ~IsActive(EmptyArtifact)
                             /\ ~EmptyArtifact.is_initialized
  BY DEF EmptyArtifact, NewArtifact, Artifact, IsActive

LEMMA InitType == Init => TInv
  <1> SUFFICES ASSUME Init PROVE TInv
    OBVIOUS
  <1>1. TypeOK
    BY NoPlanetType, EmptyArrivalType, EmptyArtifactType
       DEF Init, TypeOK, Addresses, ArrivalIds
  <1>2. ArtifactsKnown
    BY EmptyArtifactType, IdsApart DEF Init, ArtifactsKnown
  <1>3. LiveBound
    BY DEF Init, LiveBound, Live, EmptyArrival
  <1> QED
    BY <1>1, <1>2, <1>3 DEF TInv

\* A step that leaves artifacts and arrivals alone leaves what is known of them.
LEMMA KnownUnchanged ==
  ASSUME TInv, UNCHANGED artifacts  PROVE ArtifactsKnown'
  BY DEF TInv, ArtifactsKnown, IsActive

LEMMA BoundUnchanged ==
  ASSUME TInv, UNCHANGED arrivals  PROVE LiveBound'
  BY DEF TInv, LiveBound, Live

LEMMA StutterType == ASSUME TInv, UNCHANGED vars PROVE TInv'
  <1>1. TypeOK'
    BY DEF TInv, TypeOK, vars, fleetVars, playerVars, artifactVars
  <1> QED
    BY <1>1, KnownUnchanged, BoundUnchanged
       DEF TInv, vars, fleetVars, playerVars, artifactVars

LEMMA NextBlockType == ASSUME TInv, NextBlock PROVE TInv'
  <1>1. TypeOK'
    BY DEF TInv, TypeOK, NextBlock, fleetVars, playerVars, artifactVars
  <1> QED
    BY <1>1, KnownUnchanged, BoundUnchanged
       DEF TInv, NextBlock, fleetVars, playerVars, artifactVars

LEMMA NewPlanetType ==
  ASSUME TInv, NEW l \in Planets, NEW owner \in Players \cup {Zero},
         NEW is_home \in BOOLEAN
  PROVE  NewPlanet(l, owner, is_home) \in Planet
  <1>1. Geography[l].planet_type \in PlanetTypes /\ block \in Nat
    BY StatsAssumption DEF TInv, TypeOK
  <1> QED
    BY <1>1, DefaultPlanetType DEF NewPlanet

LEMMA DefaultJunkType ==
  ASSUME NEW l \in Planets, NEW planet
  PROVE  DefaultJunk(l, planet) \in Nat
  BY StatsAssumption DEF DefaultJunk

LEMMA InitPlayerType ==
  ASSUME TInv, NEW player \in Players, NEW l \in Planets, InitPlayer(player, l)
  PROVE  TInv'
  <1> DEFINE home == NewPlanet(l, player, TRUE)
  <1>1. home \in Planet /\ DefaultJunk(l, home) \in Nat
    BY NewPlanetType, DefaultJunkType
  <1>2. TypeOK'
    BY <1>1 DEF TInv, TypeOK, InitPlayer, artifactVars
  <1> QED
    BY <1>2, KnownUnchanged, BoundUnchanged DEF TInv, InitPlayer, artifactVars

LEMMA RevealNewPlanetType ==
  ASSUME TInv, NEW l \in Planets, RevealNewPlanet(l)
  PROVE  TInv'
  <1> DEFINE planet == NewPlanet(l, Zero, FALSE)
  <1>1. planet \in Planet /\ DefaultJunk(l, planet) \in Nat
    BY NewPlanetType, DefaultJunkType
  <1>2. TypeOK'
    BY <1>1 DEF TInv, TypeOK, RevealNewPlanet, playerVars, artifactVars
  <1> QED
    BY <1>2, KnownUnchanged, BoundUnchanged
       DEF TInv, RevealNewPlanet, playerVars, artifactVars

\* A transaction that only lets arrivals land.
LEMMA WriteType ==
  ASSUME TInv, NEW w, TypedWorld(w), Write(w),
         UNCHANGED <<block, next_arrival_id, playerVars, artifactVars,
                     planet_destroyed, planet_space_junk>>
  PROVE  TInv'
  <1>1. TypeOK'
    BY TypedParts DEF TInv, TypeOK, Write, playerVars, artifactVars
  <1>2. LiveBound'
    BY TypedParts DEF LiveBound, Live, BoundIn, Write
  <1> QED
    BY <1>1, <1>2, KnownUnchanged DEF TInv, artifactVars

LEMMA ResolveArrivalType ==
  ASSUME TInv, NEW id \in ArrivalIds, ResolveArrival(id)
  PROVE  TInv'
  <1>1. block \in Nat
    BY DEF TInv, TypeOK
  <1>2. TypedWorld(ExecuteArrival(World, id))
    BY <1>1, WorldTyped, ExecuteType
  <1> QED
    BY <1>2, WriteType DEF ResolveArrival

LEMMA ResolvePlanetType ==
  ASSUME TInv, NEW l \in Planets, ResolvePlanet(l)
  PROVE  TInv'
  <1>1. block \in Nat
    BY DEF TInv, TypeOK
  <1>2. TypedWorld(ProcessPending(World, l))
    BY <1>1, WorldTyped, ProcessType
  <1> QED
    BY <1>2, WriteType DEF ResolvePlanet

LEMMA OriginType ==
  ASSUME TInv, NEW w, TypedWorld(w), NEW l \in Planets
  PROVE  /\ Origin(w, l) \in Planet
         /\ Origin(w, l).owner = w.planets[l].owner
         /\ Origin(w, l).is_initialized = w.planets[l].is_initialized
         /\ Origin(w, l).is_home_planet = w.planets[l].is_home_planet
  <1>1. block \in Nat /\ w.planets[l] \in Planet /\ Pausers(w, l) \in Nat
    BY TypedParts DEF TInv, TypeOK
  <1> QED
    BY <1>1, RefreshKeeps DEF Origin

LEMMA UpgradeCostNat ==
  ASSUME NEW planet \in Planet PROVE UpgradeCost(planet) \in Nat
  <1>1. UpgradesOf(planet) \in Nat
    BY DEF UpgradesOf, Planet, Branches
  <1>2. planet.silver_cap * 20 \in Nat
    BY DEF Planet
  <1>3. (planet.silver_cap * 20) * (UpgradesOf(planet) + 1) \in Nat
    BY <1>1, <1>2, TimesNat
  <1> QED
    BY <1>3, DivNat DEF UpgradeCost

LEMMA UpgradePlanetType ==
  ASSUME TInv, NEW player \in Players, NEW l \in Planets, NEW branch \in Branches,
         UpgradePlanet(player, l, branch)
  PROVE  TInv'
  <1> DEFINE w        == ProcessPending(World, l)
             fresh    == Origin(w, l)
             cost     == UpgradeCost(fresh)
             buffed   == BuffPlanet(fresh, UpgradeBuff(branch))
             upgraded == [buffed EXCEPT !.silver = @ - cost,
                                        !.upgrades[branch] = @ + 1]
             after    == [w EXCEPT !.planets[l] = upgraded]
  <1>1. block \in Nat
    BY DEF TInv, TypeOK
  <1>2. TypedWorld(w)
    BY <1>1, WorldTyped, ProcessType
  <1>3. fresh \in Planet
    BY <1>2, OriginType
  <1>4. cost \in Nat
    BY <1>3, UpgradeCostNat
  <1>5. SamePlace(fresh, buffed)
    BY <1>3, BuffKeeps, UpgradeBuffType
  <1>6. /\ fresh.silver >= cost
        /\ Write(after)
        /\ UNCHANGED <<block, next_arrival_id, playerVars, artifactVars,
                       planet_destroyed, planet_space_junk>>
    BY DEF UpgradePlanet
  <1> HIDE DEF w, fresh, cost, buffed
  <1>7. upgraded \in Planet
    <2>1. buffed \in Planet /\ buffed.silver = fresh.silver
      BY <1>5 DEF SamePlace
    <2>2. buffed.silver - cost \in Nat
      BY <1>3, <1>4, <1>6, <2>1 DEF Planet
    <2>3. buffed.upgrades[branch] + 1 \in Nat
      BY <2>1 DEF Planet
    <2> QED
      BY <2>1, <2>2, <2>3 DEF Planet
  <1> HIDE DEF upgraded
  <1>8. TypedWorld(after)
    BY <1>2, <1>7 DEF TypedWorld, Worlds, BoundIn
  <1> QED
    BY <1>6, <1>8, WriteType

-----------------------------------------------------------------------------
(* Spaceships and artifacts. *)

\* What get_active_artifact returns is in a slot and active, so it is no ship.
LEMMA ActiveFound ==
  ASSUME TInv, NEW slots \in [ArtifactSlots -> ArtifactIds \cup {NoArtifact}],
         ActiveIn(slots) # NoArtifact
  PROVE  /\ ActiveIn(slots) \in FoundIds
         /\ IsActive(artifacts[ActiveIn(slots)])
         /\ artifacts[ActiveIn(slots)].artifact_type \in ArtifactTypes
         /\ artifacts[ActiveIn(slots)].rarity \in Rarities
         /\ Holds(slots, ActiveIn(slots))
  <1> DEFINE active == {i \in ArtifactSlots :
                          slots[i] # NoArtifact /\ IsActive(artifacts[slots[i]])}
             first  == CHOOSE i \in active : \A j \in active : i <= j
  <1>1. active \in SUBSET Nat /\ active # {}
    BY SlotsNat DEF ActiveIn
  <1>2. \E i \in active : \A j \in active : i <= j
    <2> HIDE DEF active
    <2> QED
      BY <1>1, LeastOfNats
  <1>3. first \in active
    BY <1>2
  <1>4. ActiveIn(slots) = slots[first]
    BY <1>1 DEF ActiveIn
  <1> HIDE DEF first
  <1>5. slots[first] \in ArtifactIds /\ IsActive(artifacts[slots[first]])
    BY <1>3
  <1>6. slots[first] \in FoundIds
    BY <1>5 DEF ArtifactIds, TInv, ArtifactsKnown
  <1>7. first \in ArtifactSlots
    BY <1>3
  <1>8. Holds(slots, slots[first])
    BY <1>7 DEF Holds
  <1> QED
    BY <1>4, <1>5, <1>6, <1>8 DEF TInv, ArtifactsKnown, IsActive

\* Filling a slot keeps the slots typed, and one more is taken.
LEMMA WithShipType ==
  ASSUME NEW slots \in [ArtifactSlots -> ArtifactIds \cup {NoArtifact}],
         NEW l \in Planets, NEW type
  PROVE  WithShip(slots, l, type) \in [ArtifactSlots -> ArtifactIds \cup {NoArtifact}]
  BY DEF WithShip, Put, ShipIds, ArtifactIds

LEMMA GiveSpaceShipsType ==
  ASSUME TInv, NEW player \in Players, NEW l \in Planets,
         GiveSpaceShips(player, l)
  PROVE  TInv'
  <1> DEFINE T  == [ArtifactSlots -> ArtifactIds \cup {NoArtifact}]
             s0 == planet_artifacts[l]
             s1 == WithShip(s0, l, "mothership")
             s2 == WithShip(s1, l, "crescent")
             s3 == WithShip(s2, l, "whale")
             s4 == WithShip(s3, l, "gear")
             s5 == WithShip(s4, l, "titan")
  <1>1. s0 \in T
    BY DEF TInv, TypeOK
  <1>2. s5 \in T
    <2>1. s1 \in T BY <1>1, WithShipType
    <2> HIDE DEF s1
    <2>2. s2 \in T BY <2>1, WithShipType
    <2> HIDE DEF s2
    <2>3. s3 \in T BY <2>2, WithShipType
    <2> HIDE DEF s3
    <2>4. s4 \in T BY <2>3, WithShipType
    <2> HIDE DEF s4
    <2> QED
      BY <2>4, WithShipType
  <1>3. planet_artifacts' = [planet_artifacts EXCEPT ![l] = s5]
    BY DEF GiveSpaceShips
  <1> HIDE DEF s5, T
  <1>4. planet_artifacts' \in [Planets -> T]
    BY <1>2, <1>3 DEF TInv, TypeOK, T
  <1>5. TypeOK'
    BY <1>4 DEF TInv, TypeOK, GiveSpaceShips, Addresses, T
  <1> QED
    BY <1>5, KnownUnchanged, BoundUnchanged DEF TInv, GiveSpaceShips

LEMMA ProspectPlanetType ==
  ASSUME TInv, NEW player \in Players, NEW l \in Planets,
         ProspectPlanet(player, l)
  PROVE  TInv'
  <1>1. TypeOK'
    BY DEF TInv, TypeOK, ProspectPlanet, fleetVars, playerVars
  <1> QED
    BY <1>1, KnownUnchanged, BoundUnchanged DEF TInv, ProspectPlanet, fleetVars

\* A step that gives one artifact a new record.
LEMMA KnownUpdated ==
  ASSUME TInv, NEW id \in ArtifactIds, NEW artifact,
         artifacts' = [artifacts EXCEPT ![id] = artifact],
         id \in FoundIds => /\ artifact.artifact_type \in ArtifactTypes
                            /\ artifact.rarity \in Rarities,
         id \in ShipIds => ~IsActive(artifact)
  PROVE  ArtifactsKnown'
  <1>1. artifacts \in [ArtifactIds -> Artifact] /\ ArtifactsKnown
    BY DEF TInv, TypeOK
  <1>2. \A other \in ArtifactIds :
          artifacts'[other] = IF other = id THEN artifact ELSE artifacts[other]
    BY <1>1
  <1>3. \A other \in FoundIds : artifacts'[other].is_initialized =>
          /\ artifacts'[other].artifact_type \in ArtifactTypes
          /\ artifacts'[other].rarity \in Rarities
    BY <1>1, <1>2, IdsApart DEF ArtifactsKnown
  <1>4. \A other \in ShipIds : ~IsActive(artifacts'[other])
    BY <1>1, <1>2, IdsApart DEF ArtifactsKnown
  <1> QED
    BY <1>3, <1>4 DEF ArtifactsKnown, IsActive

LEMMA NewArtifactType ==
  ASSUME NEW type \in ArtifactTypes \cup {"crescent"},
         NEW rarity \in Rarities \cup {0}
  PROVE  /\ NewArtifact(type, rarity) \in Artifact
         /\ NewArtifact(type, rarity).artifact_type = type
         /\ NewArtifact(type, rarity).rarity = rarity
  BY DEF NewArtifact, Artifact

LEMMA FindArtifactType ==
  ASSUME TInv, NEW player \in Players, NEW l \in Planets,
         NEW type \in ArtifactTypes, NEW rarity \in Rarities,
         FindArtifact(player, l, type, rarity)
  PROVE  TInv'
  <1> DEFINE id    == <<l, "found">>
             found == NewArtifact(type, rarity)
             slots == Put(planet_artifacts[l], NoArtifact, id)
  <1>1. id \in FoundIds /\ id \in ArtifactIds
    BY IdsApart DEF FoundIds
  <1>2. found \in Artifact /\ found.artifact_type = type /\ found.rarity = rarity
    BY NewArtifactType
  <1>3. slots \in [ArtifactSlots -> ArtifactIds \cup {NoArtifact}]
    <2>1. planet_artifacts[l] \in [ArtifactSlots -> ArtifactIds \cup {NoArtifact}]
      BY DEF TInv, TypeOK
    <2> QED
      BY <1>1, <2>1 DEF Put
  <1>4. /\ artifacts' = [artifacts EXCEPT ![id] = found]
        /\ planet_artifacts' = [planet_artifacts EXCEPT ![l] = slots]
    BY DEF FindArtifact
  <1> HIDE DEF found, slots
  <1>5. TypeOK'
    <2>1. artifacts' \in [ArtifactIds -> Artifact]
      BY <1>1, <1>2, <1>4 DEF TInv, TypeOK
    <2>2. planet_artifacts' \in
            [Planets -> [ArtifactSlots -> ArtifactIds \cup {NoArtifact}]]
      BY <1>3, <1>4 DEF TInv, TypeOK
    <2>3. artifact_locations' \in [ArtifactIds -> Planets \cup {Nowhere, MaxLocation}]
      BY <1>1 DEF TInv, TypeOK, FindArtifact
    <2>4. nft_owners' \in [ArtifactIds -> Addresses \cup {Contract}]
      BY <1>1 DEF TInv, TypeOK, FindArtifact
    <2>5. prospecting' \in [Planets -> [prospected : Nat, tried : BOOLEAN]]
      BY DEF TInv, TypeOK, FindArtifact
    <2> QED
      BY <2>1, <2>2, <2>3, <2>4, <2>5
         DEF TInv, TypeOK, FindArtifact, playerVars
  <1>6. ArtifactsKnown'
    <2> HIDE DEF id
    <2>1. id \notin ShipIds
      BY <1>1, IdsApart
    <2> QED
      BY <1>1, <1>2, <1>4, <2>1, KnownUpdated
  <1> QED
    BY <1>5, <1>6, BoundUnchanged DEF TInv, FindArtifact

LEMMA DepositArtifactType ==
  ASSUME TInv, NEW player \in Players, NEW l \in Planets, NEW id \in FoundIds,
         DepositArtifact(player, l, id)
  PROVE  TInv'
  <1> DEFINE slots == Put(planet_artifacts[l], NoArtifact, id)
  <1>1. id \in ArtifactIds
    BY IdsApart
  <1>2. slots \in [ArtifactSlots -> ArtifactIds \cup {NoArtifact}]
    <2>1. planet_artifacts[l] \in [ArtifactSlots -> ArtifactIds \cup {NoArtifact}]
      BY DEF TInv, TypeOK
    <2> QED
      BY <1>1, <2>1 DEF Put
  <1>3. planet_artifacts' = [planet_artifacts EXCEPT ![l] = slots]
    BY DEF DepositArtifact
  <1> HIDE DEF slots
  <1>4. TypeOK'
    BY <1>1, <1>2, <1>3 DEF TInv, TypeOK, DepositArtifact, playerVars
  <1> QED
    BY <1>4, KnownUnchanged, BoundUnchanged DEF TInv, DepositArtifact

LEMMA WithdrawArtifactType ==
  ASSUME TInv, NEW player \in Players, NEW l \in Planets, NEW id \in FoundIds,
         WithdrawArtifact(player, l, id)
  PROVE  TInv'
  <1> DEFINE slots == Without(planet_artifacts[l], NoArtifact, id)
  <1>1. id \in ArtifactIds
    BY IdsApart
  <1>2. slots \in [ArtifactSlots -> ArtifactIds \cup {NoArtifact}]
    BY WithoutKeeps DEF TInv, TypeOK
  <1>3. planet_artifacts' = [planet_artifacts EXCEPT ![l] = slots]
    BY DEF WithdrawArtifact
  <1> HIDE DEF slots
  <1>4. TypeOK'
    BY <1>1, <1>2, <1>3 DEF TInv, TypeOK, WithdrawArtifact, playerVars, Addresses
  <1> QED
    BY <1>4, KnownUnchanged, BoundUnchanged DEF TInv, WithdrawArtifact

LEMMA ActivateCrescentType ==
  ASSUME TInv, NEW l \in Planets, NEW id \in ShipIds, ActivateCrescent(l, id)
  PROVE  TInv'
  <1> DEFINE planet == planets[l]
             mine   == [planet EXCEPT
               !.planet_type   = "silver_mine",
               !.silver        = IF @ = 0 THEN 1 ELSE @,
               !.silver_growth = IF planet.silver = 0
                                 THEN DefaultStats[l]["silver_mine"].silver_growth
                                 ELSE @]
             used   == [NewArtifact("crescent", 0) EXCEPT
               !.last_activated = block, !.last_deactivated = block]
  <1>1. id \in ArtifactIds /\ id \notin FoundIds
    BY IdsApart
  <1>2. block \in Nat /\ planet \in Planet
    BY DEF TInv, TypeOK
  <1>3. mine \in Planet
    <2>1. DefaultStats[l]["silver_mine"].silver_growth \in Nat
      BY StatsAssumption DEF PlanetTypes
    <2> QED
      BY <1>2, <2>1 DEF Planet, PlanetTypes
  <1>4. used \in Artifact /\ ~IsActive(used)
    <2> DEFINE ship == NewArtifact("crescent", 0)
    <2>1. ship \in Artifact
      BY NewArtifactType
    <2> HIDE DEF ship
    <2>2. used = [ship EXCEPT !.last_activated = block, !.last_deactivated = block]
      BY DEF ship
    <2> HIDE DEF used, planet
    <2>3. used \in Artifact
      BY <1>2, <2>1, <2>2 DEF Artifact
    <2>4. used.last_activated = block /\ used.last_deactivated = block
      BY <2>1, <2>2 DEF Artifact
    <2>5. ~IsActive(used)
      BY <1>2, <2>4 DEF IsActive
    <2> QED
      BY <2>3, <2>5
  <1>5. /\ artifacts' = [artifacts EXCEPT ![id] = used]
        /\ planets' = [planets EXCEPT ![l] = mine]
    BY DEF ActivateCrescent
  <1> HIDE DEF mine, used
  <1>6. TypeOK'
    BY <1>1, <1>3, <1>4, <1>5 DEF TInv, TypeOK, ActivateCrescent, playerVars
  <1>7. ArtifactsKnown'
    BY <1>1, <1>4, <1>5, KnownUpdated
  <1> QED
    BY <1>6, <1>7, BoundUnchanged DEF TInv, ActivateCrescent

LEMMA ActivateArtifactType ==
  ASSUME TInv, NEW player \in Players, NEW l \in Planets, NEW id \in FoundIds,
         NEW target \in Planets \cup {Nowhere},
         ActivateArtifact(player, l, id, target)
  PROVE  TInv'
  <1> DEFINE artifact == artifacts[id]
             type     == artifact.artifact_type
             blooms   == type = "bloom_filter"
             destroys == type = "black_domain"
             burns    == blooms \/ destroys
             filled   == IF blooms
                         THEN [planets[l] EXCEPT
                                 !.population = planets[l].population_cap,
                                 !.silver = planets[l].silver_cap]
                         ELSE planets[l]
             buffed   == BuffPlanet(filled, Buffs[type][artifact.rarity])
             after    == [artifact EXCEPT
               !.last_activated   = block,
               !.last_deactivated = IF burns THEN block ELSE @,
               !.wormhole_to      = IF burns THEN Nowhere
                                    ELSE IF type = "wormhole" THEN target ELSE @,
               !.burned           = burns]
             slots    == Without(planet_artifacts[l], NoArtifact, id)
  <1>1. id \in ArtifactIds /\ id \notin ShipIds
    BY IdsApart
  <1>2. /\ artifact \in Artifact /\ block \in Nat
        /\ type \in ArtifactTypes /\ artifact.rarity \in Rarities
    BY <1>1 DEF TInv, TypeOK, ArtifactsKnown, ActivateArtifact
  <1>3. buffed \in Planet
    <2>1. filled \in Planet
      <3>1. planets[l] \in Planet
        BY DEF TInv, TypeOK
      <3>2. planets[l].population_cap \in Nat /\ planets[l].silver_cap \in Nat
        BY <3>1 DEF Planet
      <3> QED
        BY <3>1, <3>2 DEF Planet
    <2>2. Buffs[type][artifact.rarity] \in BuffRecord
      BY <1>2, BuffsType
    <2> HIDE DEF filled, type, artifact
    <2> QED
      BY <2>1, <2>2, BuffKeeps DEF SamePlace
  <1>4. /\ after \in Artifact /\ after.artifact_type = type
        /\ after.rarity = artifact.rarity
    <2> DEFINE deactivated == IF burns THEN block ELSE artifact.last_deactivated
               linked      == IF burns THEN Nowhere
                              ELSE IF type = "wormhole" THEN target
                              ELSE artifact.wormhole_to
    <2>1. deactivated \in Nat /\ linked \in Planets \cup {Nowhere}
          /\ burns \in BOOLEAN
      BY <1>2 DEF Artifact
    <2>2. after = [artifact EXCEPT !.last_activated   = block,
                                   !.last_deactivated = deactivated,
                                   !.wormhole_to      = linked,
                                   !.burned           = burns]
      BY <1>2 DEF Artifact
    <2> HIDE DEF after, deactivated, linked, burns, artifact
    <2> QED
      BY <1>2, <2>1, <2>2 DEF Artifact
  <1>5. slots \in [ArtifactSlots -> ArtifactIds \cup {NoArtifact}]
    BY WithoutKeeps DEF TInv, TypeOK
  <1>6. /\ planets' = [planets EXCEPT ![l] = buffed]
        /\ artifacts' = [artifacts EXCEPT ![id] = after]
        /\ planet_destroyed' = IF destroys
                               THEN [planet_destroyed EXCEPT ![l] = TRUE]
                               ELSE planet_destroyed
        /\ IF burns
           THEN /\ planet_artifacts' = [planet_artifacts EXCEPT ![l] = slots]
                /\ artifact_locations' =
                     [artifact_locations EXCEPT ![id] = MaxLocation]
                /\ nft_owners' = [nft_owners EXCEPT ![id] = Contract]
           ELSE UNCHANGED <<planet_artifacts, artifact_locations, nft_owners>>
        /\ UNCHANGED <<block, planet_arrivals, arrivals, next_arrival_id,
                       ship_counts, playerVars, spaceship_owners, prospecting,
                       planet_space_junk>>
    BY DEF ActivateArtifact
  <1> HIDE DEF buffed, after, slots, burns, destroys
  <1>7. TypeOK'
    <2>1. planets' \in [Planets -> Planet] /\ artifacts' \in [ArtifactIds -> Artifact]
          /\ planet_destroyed' \in [Planets -> BOOLEAN]
      BY <1>1, <1>3, <1>4, <1>6 DEF TInv, TypeOK
    <2>2. planet_artifacts' \in
            [Planets -> [ArtifactSlots -> ArtifactIds \cup {NoArtifact}]]
      BY <1>5, <1>6 DEF TInv, TypeOK
    <2>3. /\ artifact_locations' \in
               [ArtifactIds -> Planets \cup {Nowhere, MaxLocation}]
          /\ nft_owners' \in [ArtifactIds -> Addresses \cup {Contract}]
      BY <1>1, <1>6 DEF TInv, TypeOK
    <2> QED
      BY <1>6, <2>1, <2>2, <2>3 DEF TInv, TypeOK, playerVars
  <1>8. ArtifactsKnown'
    BY <1>1, <1>2, <1>4, <1>6, KnownUpdated
  <1> QED
    BY <1>6, <1>7, <1>8, BoundUnchanged DEF TInv

\* What deactivation makes of an active artifact, and of the planet it was on.
LEMMA DeactivatedType ==
  ASSUME TInv, NEW id \in FoundIds
  PROVE  /\ Deactivated(artifacts[id]) \in Artifact
         /\ Deactivated(artifacts[id]).artifact_type = artifacts[id].artifact_type
         /\ Deactivated(artifacts[id]).rarity = artifacts[id].rarity
  <1> DEFINE artifact == artifacts[id]
             burned   == artifact.burned \/ Burns(artifact)
  <1>1. artifact \in Artifact /\ block \in Nat
    BY IdsApart DEF TInv, TypeOK
  <1>2. burned \in BOOLEAN
    BY DEF Burns
  <1>3. Deactivated(artifact) = [artifact EXCEPT !.last_deactivated = block,
                                    !.wormhole_to = Nowhere, !.burned = burned]
    BY DEF Deactivated
  <1> HIDE DEF artifact, burned
  <1>4. Deactivated(artifact) \in Artifact
    BY <1>1, <1>2, <1>3 DEF Artifact
  <1>5. /\ Deactivated(artifact).artifact_type = artifact.artifact_type
        /\ Deactivated(artifact).rarity = artifact.rarity
    BY <1>1, <1>3 DEF Artifact
  <1> QED
    BY <1>4, <1>5 DEF artifact

LEMMA DebuffedType ==
  ASSUME NEW planet \in Planet, NEW artifact,
         artifact.artifact_type \in ArtifactTypes, artifact.rarity \in Rarities
  PROVE  SamePlace(planet, Debuffed(planet, artifact))
  BY BuffsType, DebuffKeeps DEF Debuffed

LEMMA DeactivateArtifactType ==
  ASSUME TInv, NEW player \in Players, NEW l \in Planets,
         DeactivateArtifact(player, l)
  PROVE  TInv'
  <1> DEFINE id       == ActiveIn(planet_artifacts[l])
             debuffed == Debuffed(planets[l], artifacts[id])
             after    == Deactivated(artifacts[id])
             slots    == Without(planet_artifacts[l], NoArtifact, id)
  <1>1. /\ id \in FoundIds
        /\ artifacts[id].artifact_type \in ArtifactTypes
        /\ artifacts[id].rarity \in Rarities
    <2>1. planet_artifacts[l] \in [ArtifactSlots -> ArtifactIds \cup {NoArtifact}]
          /\ id # NoArtifact
      BY DEF TInv, TypeOK, DeactivateArtifact
    <2> QED
      BY <2>1, ActiveFound
  <1>2. /\ planets' = [planets EXCEPT ![l] = debuffed]
        /\ artifacts' = [artifacts EXCEPT ![id] = after]
        /\ \/ /\ planet_artifacts' = [planet_artifacts EXCEPT ![l] = slots]
              /\ artifact_locations' =
                   [artifact_locations EXCEPT ![id] = MaxLocation]
              /\ nft_owners' = [nft_owners EXCEPT ![id] = Contract]
           \/ UNCHANGED <<planet_artifacts, artifact_locations, nft_owners>>
        /\ UNCHANGED <<block, planet_arrivals, arrivals, next_arrival_id,
                       ship_counts, playerVars, spaceship_owners, prospecting,
                       planet_destroyed, planet_space_junk>>
    BY DEF DeactivateArtifact
  <1> HIDE DEF id
  <1>3. id \in ArtifactIds /\ id \notin ShipIds
    BY <1>1, IdsApart
  <1>4. debuffed \in Planet
    BY <1>1, DebuffedType DEF TInv, TypeOK, SamePlace
  <1>5. /\ after \in Artifact
        /\ after.artifact_type = artifacts[id].artifact_type
        /\ after.rarity = artifacts[id].rarity
    BY <1>1, DeactivatedType
  <1>6. slots \in [ArtifactSlots -> ArtifactIds \cup {NoArtifact}]
    BY WithoutKeeps DEF TInv, TypeOK
  <1> HIDE DEF debuffed, after, slots
  <1>7. TypeOK'
    <2>1. planets' \in [Planets -> Planet] /\ artifacts' \in [ArtifactIds -> Artifact]
      BY <1>2, <1>3, <1>4, <1>5 DEF TInv, TypeOK
    <2>2. planet_artifacts' \in
            [Planets -> [ArtifactSlots -> ArtifactIds \cup {NoArtifact}]]
      BY <1>2, <1>6 DEF TInv, TypeOK
    <2>3. /\ artifact_locations' \in
               [ArtifactIds -> Planets \cup {Nowhere, MaxLocation}]
          /\ nft_owners' \in [ArtifactIds -> Addresses \cup {Contract}]
      BY <1>2, <1>3 DEF TInv, TypeOK
    <2> QED
      BY <1>2, <2>1, <2>2, <2>3 DEF TInv, TypeOK, playerVars
  <1>8. ArtifactsKnown'
    BY <1>1, <1>2, <1>3, <1>5, KnownUpdated
  <1> QED
    BY <1>2, <1>7, <1>8, BoundUnchanged DEF TInv

-----------------------------------------------------------------------------
(* Moves. *)

LEMMA DestinationType ==
  ASSUME TInv, NEW w, TypedWorld(w), NEW to \in Planets
  PROVE  /\ Destination(w, to) \in Planet
         /\ WithDestination(w, to) \in [Planets -> Planet]
         /\ JunkWithDestination(w, to) \in [Planets -> Nat]
  <1>1. Destination(w, to) \in Planet
    <2>1. NewPlanet(to, Zero, FALSE) \in Planet
      BY NewPlanetType
    <2>2. Refresh(w.planets[to], Pausers(w, to), block) \in Planet
      BY OriginType DEF Origin
    <2> QED
      BY <2>1, <2>2 DEF Destination
  <1>2. WithDestination(w, to) \in [Planets -> Planet]
    BY <1>1, TypedParts DEF WithDestination
  <1>3. JunkWithDestination(w, to) \in [Planets -> Nat]
    BY DefaultJunkType DEF JunkWithDestination, TInv, TypeOK
  <1> QED
    BY <1>1, <1>2, <1>3

LEMMA CargoTakenType ==
  ASSUME NEW slots \in [ArtifactSlots -> ArtifactIds \cup {NoArtifact}], NEW cargo
  PROVE  CargoTaken(slots, cargo) \in [ArtifactSlots -> ArtifactIds \cup {NoArtifact}]
  BY WithoutKeeps DEF CargoTaken

LEMMA DepartType ==
  ASSUME TInv, MayDepart, NEW w, TypedWorld(w), NEW from \in Planets,
         NEW to \in Planets, NEW origin \in Planet,
         NEW arrival \in Arrival, arrival.to_planet = to,
         NEW slots \in [ArtifactSlots -> ArtifactIds \cup {NoArtifact}],
         NEW counts \in [Planets -> [EffectShips -> Nat]],
         Depart(w, from, to, origin, arrival, slots, counts)
  PROVE  /\ planets' \in [Planets -> Planet]
         /\ planet_arrivals' \in [Planets -> [Slots -> ArrivalIds \cup {0}]]
         /\ arrivals' \in [ArrivalIds -> Arrival]
         /\ next_arrival_id' \in Nat \ {0}
         /\ planet_artifacts' \in
              [Planets -> [ArtifactSlots -> ArtifactIds \cup {NoArtifact}]]
         /\ ship_counts' \in [Planets -> [EffectShips -> Nat]]
         /\ LiveBound'
  <1> DEFINE left  == [origin EXCEPT !.last_updated = block]
             queue == Put(w.planet_arrivals[to], 0, next_arrival_id)
             taken == CargoTaken(slots, arrival.carried_artifact_id)
  <1>1. /\ w.planet_arrivals \in [Planets -> [Slots -> ArrivalIds \cup {0}]]
        /\ w.arrivals \in [ArrivalIds -> Arrival]
        /\ w.planet_artifacts \in
             [Planets -> [ArtifactSlots -> ArtifactIds \cup {NoArtifact}]]
        /\ BoundIn(w)
    BY TypedParts
  <1>2. left \in Planet
    <2>1. block \in Nat
      BY DEF TInv, TypeOK
    <2> QED
      BY <2>1 DEF Planet
  <1>3. queue \in [Slots -> ArrivalIds \cup {0}]
    <2>1. w.planet_arrivals[to] \in [Slots -> ArrivalIds \cup {0}]
      BY <1>1
    <2>2. next_arrival_id \in ArrivalIds \cup {0} /\ Holds(w.planet_arrivals[to], 0)
      BY DEF MayDepart, Depart
    <2> QED
      BY <2>1, <2>2, SlotsNat, PutKeeps
  <1>4. taken \in [ArtifactSlots -> ArtifactIds \cup {NoArtifact}]
    BY CargoTakenType
  <1>5. WithDestination(w, to) \in [Planets -> Planet]
    BY DestinationType
  <1>6. /\ planets' = [WithDestination(w, to) EXCEPT ![from] = left]
        /\ planet_arrivals' = [w.planet_arrivals EXCEPT ![to] = queue]
        /\ arrivals' = [w.arrivals EXCEPT ![next_arrival_id] = arrival]
        /\ next_arrival_id' = next_arrival_id + 1
        /\ planet_artifacts' = [w.planet_artifacts EXCEPT ![from] = taken]
        /\ ship_counts' = counts
    BY DEF Depart
  <1> HIDE DEF left, queue, taken
  <1>7. LiveBound'
    BY <1>1, <1>6 DEF LiveBound, Live, BoundIn
  <1>8. next_arrival_id' \in Nat \ {0}
    BY <1>6 DEF TInv, TypeOK
  <1> QED
    BY <1>1, <1>2, <1>3, <1>4, <1>5, <1>6, <1>7, <1>8

LEMMA UnmooredType ==
  ASSUME TInv, NEW w, TypedWorld(w), NEW from \in Planets, NEW ship \in ShipIds
  PROVE  /\ Unmoored(w, from, ship) \in Planet
         /\ CountsWithout(w, from, ship) \in [Planets -> [EffectShips -> Nat]]
  <1> DEFINE count == w.ship_counts[from][ship[2]]
             acts  == Affects(ship, w.planets[from])
  <1>1. acts => ship[2] \in EffectShips
    BY DEF Affects
  <1>2. w.ship_counts \in [Planets -> [EffectShips -> Nat]]
    BY TypedParts
  <1>3. acts => count \in Nat
    BY <1>1, <1>2
  <1>4. Origin(w, from) \in Planet
    BY OriginType
  <1>5. Unmoored(w, from, ship) \in Planet
    <2>1. Unmoored(w, from, ship) =
            IF acts THEN Undocked(Origin(w, from), ship[2], count)
                    ELSE Origin(w, from)
      BY DEF Unmoored
    <2> HIDE DEF acts, count
    <2> QED
      BY <2>1, <1>3, <1>4, UndockedKeeps DEF SamePlace
  <1>6. CountsWithout(w, from, ship) \in [Planets -> [EffectShips -> Nat]]
    <2>1. CountsWithout(w, from, ship) =
            IF acts THEN [w.ship_counts EXCEPT ![from][ship[2]] = Greatest(0, count - 1)]
                    ELSE w.ship_counts
      BY <1>1, <1>2 DEF CountsWithout
    <2>2. acts => Greatest(0, count - 1) \in Nat
      <3> HIDE DEF count
      <3> QED
        BY <1>3 DEF Greatest
    <2> HIDE DEF acts, count
    <2> QED
      BY <2>1, <2>2, <1>1, <1>2
  <1> QED
    BY <1>5, <1>6

\* No arrival block wraps: a fleet arrives after it has left.
LEMMA ArrivesLater ==
  ASSUME TInv, MayDepart, NEW time \in TravelTimes
  PROVE  /\ ArrivalBlock(time) = block + time
         /\ ArrivalBlock(time) \in Nat /\ block < ArrivalBlock(time)
  <1>1. block \in Nat /\ block < MaxBlock /\ MaxBlock \in Nat /\ time \in Nat \ {0}
    BY InputAssumption DEF TInv, TypeOK, MayDepart
  <1>2. U32 \in Nat \ {0} /\ MaxBlock + time < U32
    BY WidthAssumption
  <1>3. \A n \in Nat : n < U32 => n % U32 = n
    BY <1>2
  <1> QED
    BY <1>1, <1>2, <1>3 DEF ArrivalBlock

LEMMA SendShipType ==
  ASSUME TInv, NEW player \in Players, NEW from \in Planets, NEW to \in Planets,
         NEW ship \in ShipIds, SendShip(player, from, to, ship)
  PROVE  TInv'
  <1> DEFINE w      == Settled(from, to)
             origin == Unmoored(w, from, ship)
             counts == CountsWithout(w, from, ship)
             slots  == w.planet_artifacts[from]
             type   == IF ByWormhole(w, from, to) THEN "wormhole" ELSE "normal"
  <1>1. TypedWorld(w)
    BY SettledType
  <1>2. PICK time \in TravelTimes :
          Depart(w, from, to, origin,
                 Flight(Zero, from, to, 0, 0, ship, type, time), slots, counts)
    BY DEF SendShip
  <1> DEFINE arrival == Flight(Zero, from, to, 0, 0, ship, type, time)
  <1>3. /\ MayDepart
        /\ artifact_locations' = [w.artifact_locations EXCEPT ![ship] = Nowhere]
        /\ planet_space_junk' = JunkWithDestination(w, to)
        /\ UNCHANGED <<block, playerVars, artifactVars, planet_destroyed>>
    BY DEF SendShip
  <1>4. origin \in Planet /\ counts \in [Planets -> [EffectShips -> Nat]]
    BY <1>1, UnmooredType
  <1>5. arrival \in Arrival /\ arrival.to_planet = to
    <2>1. ship \in ArtifactIds \cup {NoArtifact} /\ type \in ArrivalTypes
      BY IdsApart DEF ArrivalTypes
    <2>2. ArrivalBlock(time) \in Nat
      BY <1>3, ArrivesLater
    <2> HIDE DEF type, w
    <2> QED
      BY <2>1, <2>2 DEF Flight, Arrival, Addresses
  <1>6. slots \in [ArtifactSlots -> ArtifactIds \cup {NoArtifact}]
    BY <1>1, TypedParts
  <1>7. /\ artifact_locations' \in [ArtifactIds -> Planets \cup {Nowhere, MaxLocation}]
        /\ planet_space_junk' \in [Planets -> Nat]
    BY <1>1, <1>3, IdsApart, TypedParts, DestinationType
  <1> HIDE DEF w, origin, counts, slots, arrival
  <1>8. Depart(w, from, to, origin, arrival, slots, counts)
    BY <1>2 DEF arrival
  <1>9. /\ planets' \in [Planets -> Planet]
        /\ planet_arrivals' \in [Planets -> [Slots -> ArrivalIds \cup {0}]]
        /\ arrivals' \in [ArrivalIds -> Arrival]
        /\ next_arrival_id' \in Nat \ {0}
        /\ planet_artifacts' \in
             [Planets -> [ArtifactSlots -> ArtifactIds \cup {NoArtifact}]]
        /\ ship_counts' \in [Planets -> [EffectShips -> Nat]]
        /\ LiveBound'
    BY <1>1, <1>3, <1>4, <1>5, <1>6, <1>8, DepartType
  <1>10. TypeOK'
    BY <1>3, <1>7, <1>9 DEF TInv, TypeOK, playerVars, artifactVars
  <1> QED
    BY <1>3, <1>9, <1>10, KnownUnchanged DEF TInv, artifactVars

\* A cannon that fires is an artifact that was found, with a buff to hand back.
LEMMA FiringType ==
  ASSUME TInv, NEW w, TypedWorld(w), NEW from \in Planets, Firing(w, from)
  PROVE  LET cannon == ActiveIn(w.planet_artifacts[from]) IN
         /\ cannon \in FoundIds
         /\ artifacts[cannon].artifact_type \in ArtifactTypes
         /\ artifacts[cannon].rarity \in Rarities
  <1>1. w.planet_artifacts[from] \in [ArtifactSlots -> ArtifactIds \cup {NoArtifact}]
    BY TypedParts
  <1>2. ActiveIn(w.planet_artifacts[from]) # NoArtifact
    BY DEF Firing
  <1> QED
    BY <1>1, <1>2, ActiveFound

LEMMA OriginOfFleetType ==
  ASSUME TInv, NEW w, TypedWorld(w), NEW from \in Planets
  PROVE  OriginOfFleet(w, from) \in Planet
  <1>1. CASE Firing(w, from)
    <2> DEFINE cannon == ActiveIn(w.planet_artifacts[from])
    <2>1. w.planets[from] \in Planet
      BY TypedParts
    <2>2. SamePlace(w.planets[from], Debuffed(w.planets[from], artifacts[cannon]))
      BY <1>1, <2>1, FiringType, DebuffedType
    <2> QED
      BY <1>1, <2>2 DEF OriginOfFleet, SamePlace
  <1>2. CASE ~Firing(w, from)
    BY <1>2, OriginType DEF OriginOfFleet
  <1> QED
    BY <1>1, <1>2

LEMMA LeftType ==
  ASSUME NEW from \in Planets, NEW origin \in Planet, NEW fresh \in Planet,
         NEW pop \in Nat, NEW silver \in Nat, NEW abandoning \in BOOLEAN,
         ~abandoning => pop < fresh.population /\ silver <= origin.silver
  PROVE  Left(origin, fresh, from, pop, silver, abandoning) \in Planet
  <1>1. CASE abandoning
    <2>1. DefaultStats[from][origin.planet_type].population \in Nat
      BY StatsAssumption DEF Planet
    <2>2. 2 * DefaultStats[from][origin.planet_type].population \in Nat
      BY <2>1
    <2> QED
      BY <1>1, <2>2 DEF Left, Planet
  <1>2. CASE ~abandoning
    <2>1. fresh.population - pop \in Nat /\ origin.silver - silver \in Nat
      BY <1>2 DEF Planet
    <2> QED
      BY <1>2, <2>1 DEF Left, Planet
  <1> QED
    BY <1>1, <1>2

LEMMA LoadType ==
  ASSUME NEW origin \in Planet, NEW pop \in Nat, NEW silver \in Nat,
         NEW abandoning \in BOOLEAN
  PROVE  Load(origin, pop, silver, abandoning) \in [pop : Nat, silver : Nat]
  BY DEF Load, Planet

LEMMA JunkAfterType ==
  ASSUME TInv, NEW player \in Players, NEW from \in Planets, NEW to \in Planets,
         NEW origin, NEW junk \in [Planets -> Nat], NEW abandoning
  PROVE  JunkAfter(player, from, to, origin, junk, abandoning) \in Nat
  <1> DEFINE back == IF abandoning THEN DefaultJunk(from, origin) ELSE 0
  <1>1. back \in Nat /\ player_space_junk[player] \in Nat /\ junk[to] \in Nat
    BY DefaultJunkType DEF TInv, TypeOK
  <1> HIDE DEF back
  <1>2. Greatest(0, player_space_junk[player] - back) \in Nat
    BY <1>1 DEF Greatest
  <1>3. JunkAfter(player, from, to, origin, junk, abandoning)
          = Greatest(0, player_space_junk[player] - back) + junk[to]
    BY DEF JunkAfter, back
  <1> QED
    BY <1>1, <1>2, <1>3

LEMMA JunkBeforeType ==
  ASSUME TInv, NEW w, TypedWorld(w), NEW from \in Planets, NEW to \in Planets,
         NEW abandoning
  PROVE  JunkBefore(w, from, to, abandoning) \in [Planets -> Nat]
  BY DestinationType, DefaultJunkType DEF JunkBefore

LEMMA FireCannonType ==
  ASSUME TInv, NEW w, TypedWorld(w), NEW from \in Planets,
         NEW cargo \in ArtifactIds \cup {NoArtifact}, FireCannon(w, from, cargo)
  PROVE  /\ artifacts' \in [ArtifactIds -> Artifact]
         /\ nft_owners' \in [ArtifactIds -> Addresses \cup {Contract}]
         /\ artifact_locations' \in
              [ArtifactIds -> Planets \cup {Nowhere, MaxLocation}]
         /\ ArtifactsKnown'
  <1> DEFINE cannon   == ActiveIn(w.planet_artifacts[from])
             location == IF cargo = NoArtifact THEN w.artifact_locations
                         ELSE [w.artifact_locations EXCEPT ![cargo] = Nowhere]
             after    == Deactivated(artifacts[cannon])
  <1>1. location \in [ArtifactIds -> Planets \cup {Nowhere, MaxLocation}]
    BY TypedParts
  <1>2. CASE Firing(w, from)
    <2>1. /\ artifacts' = [artifacts EXCEPT ![cannon] = after]
          /\ nft_owners' = [nft_owners EXCEPT ![cannon] = Contract]
          /\ artifact_locations' = [location EXCEPT ![cannon] = MaxLocation]
      BY <1>2 DEF FireCannon
    <2>2. /\ cannon \in FoundIds
          /\ artifacts[cannon].artifact_type \in ArtifactTypes
          /\ artifacts[cannon].rarity \in Rarities
      BY <1>2, FiringType
    <2> HIDE DEF cannon, location
    <2>3. cannon \in ArtifactIds /\ cannon \notin ShipIds
      BY <2>2, IdsApart
    <2>4. /\ after \in Artifact
          /\ after.artifact_type = artifacts[cannon].artifact_type
          /\ after.rarity = artifacts[cannon].rarity
      BY <2>2, DeactivatedType
    <2> HIDE DEF after
    <2>5. ArtifactsKnown'
      BY <2>1, <2>2, <2>3, <2>4, KnownUpdated
    <2> QED
      BY <1>1, <2>1, <2>3, <2>4, <2>5 DEF TInv, TypeOK
  <1>3. CASE ~Firing(w, from)
    <2>1. artifact_locations' = location /\ UNCHANGED <<artifacts, nft_owners>>
      BY <1>3 DEF FireCannon
    <2> HIDE DEF location
    <2> QED
      BY <1>1, <2>1, KnownUnchanged DEF TInv, TypeOK
  <1> QED
    BY <1>2, <1>3

LEMMA SendFleetType ==
  ASSUME TInv, NEW player \in Players, NEW from \in Planets, NEW to \in Planets,
         NEW abandoning \in BOOLEAN, SendFleet(player, from, to, abandoning)
  PROVE  TInv'
  <1> DEFINE w      == Settled(from, to)
             fresh  == Origin(w, from)
             origin == OriginOfFleet(w, from)
             junk   == JunkBefore(w, from, to, abandoning)
             type   == ArrivalTypeOf(w, from, to)
             slots  == SlotsOfFleet(w, from)
  <1>1. TypedWorld(w)
    BY SettledType
  <1>2. PICK pop \in Shipments, silver \in Shipments, loss \in Losses,
             time \in TravelTimes, cargo \in Cargos(w, from) :
          FleetLeaves(w, player, from, to, pop, silver, loss, time, cargo, abandoning)
    BY DEF SendFleet
  <1>3. /\ MayDepart
        /\ UNCHANGED <<block, home_planets, claimed_ships, spaceship_owners,
                       prospecting, planet_destroyed>>
    BY DEF SendFleet
  <1> DEFINE load    == Load(origin, pop, silver, abandoning)
             left    == Left(origin, fresh, from, pop, silver, abandoning)
             arrival == Flight(player, from, to, load.pop - loss, load.silver,
                               cargo, type, time)
  <1> HIDE DEF w
  <1>4. fresh \in Planet /\ origin \in Planet
    BY <1>1, OriginType, OriginOfFleetType
  <1>5. pop \in Nat /\ silver \in Nat /\ loss \in Nat
    BY InputAssumption
  <1>6. /\ ~abandoning => CanSpare(fresh, pop, silver)
        /\ loss < load.pop
        /\ load.silver <= origin.silver
        /\ Depart(w, from, to, left, arrival, slots, w.ship_counts)
        /\ FireCannon(w, from, cargo)
        /\ planet_space_junk' = [junk EXCEPT ![to] = 0]
        /\ player_space_junk' = [player_space_junk EXCEPT
             ![player] = JunkAfter(player, from, to, origin, junk, abandoning)]
    BY <1>2 DEF FleetLeaves
  <1> HIDE DEF fresh, origin
  <1>7. load \in [pop : Nat, silver : Nat]
    BY <1>4, <1>5, LoadType
  <1>8. left \in Planet
    <2>1. ~abandoning => pop < fresh.population /\ silver <= origin.silver
      BY <1>6 DEF CanSpare, Load
    <2> QED
      BY <1>4, <1>5, <2>1, LeftType
  <1>9. cargo \in ArtifactIds \cup {NoArtifact}
    BY IdsApart DEF Cargos
  <1>10. arrival \in Arrival /\ arrival.to_planet = to
    <2>1. load.pop - loss \in Nat /\ load.silver \in Nat
      BY <1>5, <1>6, <1>7
    <2>2. type \in ArrivalTypes
      BY DEF ArrivalTypeOf, ArrivalTypes
    <2>3. ArrivalBlock(time) \in Nat
      BY <1>3, ArrivesLater
    <2> HIDE DEF load, type
    <2> QED
      BY <1>9, <2>1, <2>2, <2>3 DEF Flight, Arrival, Addresses
  <1>11. slots \in [ArtifactSlots -> ArtifactIds \cup {NoArtifact}]
    <2>1. w.planet_artifacts[from] \in
            [ArtifactSlots -> ArtifactIds \cup {NoArtifact}]
      BY <1>1, TypedParts
    <2> QED
      BY <2>1, WithoutKeeps DEF SlotsOfFleet
  <1>12. junk \in [Planets -> Nat]
    BY <1>1, JunkBeforeType
  <1>13. JunkAfter(player, from, to, origin, junk, abandoning) \in Nat
    <2> HIDE DEF junk
    <2> QED
      BY <1>12, JunkAfterType
  <1>14. w.ship_counts \in [Planets -> [EffectShips -> Nat]]
    BY <1>1, TypedParts
  <1> HIDE DEF left, arrival, slots, junk, load
  <1>15. /\ planets' \in [Planets -> Planet]
         /\ planet_arrivals' \in [Planets -> [Slots -> ArrivalIds \cup {0}]]
         /\ arrivals' \in [ArrivalIds -> Arrival]
         /\ next_arrival_id' \in Nat \ {0}
         /\ planet_artifacts' \in
              [Planets -> [ArtifactSlots -> ArtifactIds \cup {NoArtifact}]]
         /\ ship_counts' \in [Planets -> [EffectShips -> Nat]]
         /\ LiveBound'
    BY <1>1, <1>3, <1>6, <1>8, <1>10, <1>11, <1>14, DepartType
  <1>16. /\ artifacts' \in [ArtifactIds -> Artifact]
         /\ nft_owners' \in [ArtifactIds -> Addresses \cup {Contract}]
         /\ artifact_locations' \in
              [ArtifactIds -> Planets \cup {Nowhere, MaxLocation}]
         /\ ArtifactsKnown'
    BY <1>1, <1>6, <1>9, FireCannonType
  <1>17. /\ planet_space_junk' \in [Planets -> Nat]
         /\ player_space_junk' \in [Players -> Nat]
    BY <1>6, <1>12, <1>13 DEF TInv, TypeOK
  <1>18. TypeOK'
    BY <1>3, <1>15, <1>16, <1>17 DEF TInv, TypeOK
  <1> QED
    BY <1>15, <1>16, <1>18 DEF TInv

-----------------------------------------------------------------------------
(* The theorem. *)

LEMMA StepType == TInv /\ [Next]_vars => TInv'
  <1> SUFFICES ASSUME TInv, [Next]_vars PROVE TInv'
    OBVIOUS
  <1>1. CASE UNCHANGED vars
    BY <1>1, StutterType
  <1>2. CASE NextBlock
    BY <1>2, NextBlockType
  <1>3. CASE FleetNext
    BY <1>3, InitPlayerType, RevealNewPlanetType, SendFleetType,
       ResolveArrivalType, ResolvePlanetType, UpgradePlanetType DEF FleetNext
  <1>4. CASE ShipNext
    BY <1>4, GiveSpaceShipsType, SendShipType, ActivateCrescentType DEF ShipNext
  <1>5. CASE ArtifactNext
    BY <1>5, ProspectPlanetType, FindArtifactType, DepositArtifactType,
       WithdrawArtifactType, ActivateArtifactType, DeactivateArtifactType
       DEF ArtifactNext
  <1> QED
    BY <1>1, <1>2, <1>3, <1>4, <1>5 DEF Next

\* The inductive invariant.
THEOREM TypesInductive == Spec => []TInv
  <1> QED
    BY InitType, StepType, PTL DEF Spec

\* Every variable keeps its type: no subtraction of a landing, a move or an
\* upgrade goes below zero, for any planets, players, statistics and inputs.
THEOREM TypeCorrect == Spec => []TypeOK
  <1>1. TInv => TypeOK
    BY DEF TInv
  <1> QED
    BY <1>1, TypesInductive, PTL

=============================================================================
