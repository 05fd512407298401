----------------------------- MODULE DarkForest -----------------------------
(***************************************************************************)
(* The DarkForest contract (packages/contracts/src/main.nr) as a state     *)
(* machine: its public storage, the block number, and one action per       *)
(* transaction.  A transaction runs alone and is undone as a whole when an *)
(* assertion fails, so each assertion is a conjunct of its action.         *)
(*                                                                         *)
(* Left out: the coordinates and their proofs (the private half of a       *)
(* transaction).  What the contract keeps for its readers beside the game, *)
(* the lists of planets and coordinates, is in Registry.tla.               *)
(***************************************************************************)
EXTENDS DFStorage

CONSTANTS
    FIND_WINDOW,        \* 256 blocks
    SPACE_JUNK_LIMIT,
    \* The inputs of a move that the private half has checked.
    Shipments,          \* populations and amounts of silver players send
    Losses,             \* what distance and range take off a fleet
    TravelTimes,
    U32,                \* 2^32: a block number is cut to what is below it
    MaxBlock            \* a bound of the model: no block is later

ASSUME InputAssumption ==
    /\ FIND_WINDOW \in Nat
    /\ SPACE_JUNK_LIMIT \in Nat
    /\ Shipments \subseteq Nat
    /\ Losses \subseteq Nat
    /\ TravelTimes \subseteq Nat \ {0}    \* travel_time is at least 1
    /\ MaxBlock \in Nat

\* No arrival block is cut short.  The distance a player names may be anything up
\* to 2^32 - 1 and a ship is not stopped by it, so it is the configured time factor
\* that keeps travel times small: at the deployed 1200000 they are below 2^26,
\* whatever the speed; at 100 a slow ship could come before it left.
ASSUME WidthAssumption ==
    /\ U32 \in Nat \ {0}
    /\ \A time \in TravelTimes : MaxBlock + time < U32

-----------------------------------------------------------------------------
(* The constructor, the clock, and where planets come from. *)

Init ==
    /\ block = 1
    /\ planets = [l \in Planets |-> NoPlanet]
    /\ planet_arrivals = [l \in Planets |-> [i \in Slots |-> 0]]
    /\ arrivals = [id \in ArrivalIds |-> EmptyArrival]
    /\ next_arrival_id = 1
    /\ planet_artifacts = [l \in Planets |-> [i \in ArtifactSlots |-> NoArtifact]]
    /\ artifact_locations = [id \in ArtifactIds |-> Nowhere]
    /\ artifacts = [id \in ArtifactIds |-> EmptyArtifact]
    /\ spaceship_owners = [id \in ShipIds |-> Zero]
    /\ ship_counts = [l \in Planets |-> [t \in EffectShips |-> 0]]
    /\ planet_destroyed = [l \in Planets |-> FALSE]
    /\ planet_space_junk = [l \in Planets |-> 0]
    /\ player_space_junk = [p \in Players |-> 0]
    /\ home_planets = [p \in Players |-> Nowhere]
    /\ claimed_ships = [p \in Players |-> FALSE]
    /\ prospecting = [l \in Planets |-> [prospected |-> 0, tried |-> FALSE]]
    /\ nft_owners = [id \in ArtifactIds |-> Zero]

NextBlock ==
    /\ block < MaxBlock
    /\ block' = block + 1
    /\ UNCHANGED <<fleetVars, next_arrival_id, playerVars, artifactVars,
                   planet_destroyed, planet_space_junk>>

NewPlanet(l, owner, is_home) ==
    DefaultPlanet(l, Geography[l].planet_type, owner, is_home, block)

\* A mutant of CanBeHome: a planet that is there already will do.
CanBeHomeAgain(l) ==
    Geography[l].planet_level = 0 /\ Geography[l].planet_type = "planet"

\* default_planet asserts what a home may be.
CanBeHome(l) ==
    /\ ~planets[l].is_initialized
    /\ Geography[l].planet_level = 0
    /\ Geography[l].planet_type = "planet"

\* init_player and apply_init_player.  The private half pushes a nullifier for
\* the player.
InitPlayer(player, l) ==
    LET home == NewPlanet(l, player, TRUE) IN
    /\ home_planets[player] = Nowhere
    /\ CanBeHome(l)
    /\ planets' = [planets EXCEPT ![l] = home]
    /\ planet_space_junk' = [planet_space_junk EXCEPT ![l] = DefaultJunk(l, home)]
    /\ player_space_junk' = [player_space_junk EXCEPT ![player] = 0]
    /\ home_planets' = [home_planets EXCEPT ![player] = l]
    /\ claimed_ships' = [claimed_ships EXCEPT ![player] = FALSE]
    /\ UNCHANGED <<block, planet_arrivals, arrivals, next_arrival_id,
                   planet_artifacts, artifact_locations, ship_counts,
                   artifactVars, planet_destroyed>>

\* Action 1 on a planet nobody has touched; on any other it changes only what
\* Registry.tla keeps.
RevealNewPlanet(l) ==
    LET planet == NewPlanet(l, Zero, FALSE) IN
    /\ ~planets[l].is_initialized
    /\ planets' = [planets EXCEPT ![l] = planet]
    /\ planet_space_junk' = [planet_space_junk EXCEPT ![l] = DefaultJunk(l, planet)]
    /\ UNCHANGED <<block, planet_arrivals, arrivals, next_arrival_id,
                   planet_artifacts, artifact_locations, ship_counts,
                   playerVars, artifactVars, planet_destroyed>>

-----------------------------------------------------------------------------
(* Moves. *)

\* A mutant of Settled: only the destination lands what is due.
SettledDestination(from, to) == ProcessPending(World, to)

\* The storage a move works on: both ends have landed what is due there.
Settled(from, to) == ProcessPending(ProcessPending(World, from), to)

Origin(w, from) == Refresh(w.planets[from], Pausers(w, from), block)

Destination(w, to) ==
    IF w.planets[to].is_initialized
    THEN Refresh(w.planets[to], Pausers(w, to), block)
    ELSE NewPlanet(to, Zero, FALSE)

\* The slots of l whose arrivals are still to land.
Flying(w, l) ==
    {i \in Slots : /\ w.planet_arrivals[l][i] # 0
                   /\ w.arrivals[w.planet_arrivals[l][i]].arrival_block # 0}

\* The two buckets of an arrival queue: arrivals of the planet's owner, and
\* all others.  The mover's own bucket must not be full.
BucketHasRoom(w, to, player, owner) ==
    LET of_owner == {i \in Flying(w, to) :
                       w.arrivals[w.planet_arrivals[to][i]].player = owner}
        bucket   == IF player = owner THEN of_owner ELSE Flying(w, to) \ of_owner
    IN  Cardinality(bucket) < MAX_ARRIVALS_PER_BUCKET

LinkedBy(active, l) ==
    /\ active # NoArtifact
    /\ artifacts[active].artifact_type = "wormhole"
    /\ artifacts[active].wormhole_to = l

ByWormhole(w, from, to) ==
    \/ LinkedBy(ActiveIn(w.planet_artifacts[from]), to)
    \/ LinkedBy(ActiveIn(w.planet_artifacts[to]), from)

\* A planet written for the first time by a move to it.
WithDestination(w, to) ==
    IF w.planets[to].is_initialized THEN w.planets
    ELSE [w.planets EXCEPT ![to] = Destination(w, to)]

JunkWithDestination(w, to) ==
    IF w.planets[to].is_initialized THEN planet_space_junk
    ELSE [planet_space_junk EXCEPT ![to] = DefaultJunk(to, Destination(w, to))]

\* The sum is taken in 64 bits and kept in 32.
ArrivalBlock(time) == (block + time) % U32

Flight(player, from, to, pop, silver, cargo, type, time) ==
    [player |-> player, from_planet |-> from, to_planet |-> to,
     pop_arriving |-> pop, silver_moved |-> silver, arrival_block |-> ArrivalBlock(time),
     arrival_type |-> type, carried_artifact_id |-> cargo]

\* A mutant of CargoTaken: the cargo stays where it was.
CargoKept(slots, cargo) == slots

CargoTaken(slots, cargo) ==
    IF cargo = NoArtifact THEN slots ELSE Without(slots, NoArtifact, cargo)

\* The bounds of the model: there are ids and blocks left, and every arrival can
\* land before they run out.
MayDepart == next_arrival_id \in ArrivalIds /\ block < MaxBlock

\* What every move does in the end: the arrival takes the next id and the first
\* free slot of the destination, the cargo leaves the slots of the origin, and
\* the origin is written as of this block.
Depart(w, from, to, origin, arrival, slots, counts) ==
    /\ arrival.arrival_block <= MaxBlock
    /\ Holds(w.planet_arrivals[to], 0)
    /\ planets' = [WithDestination(w, to) EXCEPT
                     ![from] = [origin EXCEPT !.last_updated = block]]
    /\ planet_arrivals' =
         [w.planet_arrivals EXCEPT ![to] = Put(@, 0, next_arrival_id)]
    /\ arrivals' = [w.arrivals EXCEPT ![next_arrival_id] = arrival]
    /\ next_arrival_id' = next_arrival_id + 1
    /\ planet_artifacts' = [w.planet_artifacts EXCEPT ![from] =
         CargoTaken(slots, arrival.carried_artifact_id)]
    /\ ship_counts' = counts

\* apply_spaceship_depart, on the origin and on the counters.
Unmoored(w, from, ship) ==
    IF Affects(ship, w.planets[from])
    THEN Undocked(Origin(w, from), ship[2], w.ship_counts[from][ship[2]])
    ELSE Origin(w, from)

CountsWithout(w, from, ship) ==
    IF Affects(ship, w.planets[from])
    THEN [w.ship_counts EXCEPT ![from][ship[2]] = Greatest(0, @ - 1)]
    ELSE w.ship_counts

\* apply_move of a spaceship.  It flies for the zero address, asks nothing of
\* the owner of either end, and is not stopped by a destroyed planet.
SendShip(player, from, to, ship) ==
    /\ MayDepart
    /\ spaceship_owners[ship] = player
    /\ \E w \in {Settled(from, to)}, time \in TravelTimes :
         LET type == IF ByWormhole(w, from, to) THEN "wormhole" ELSE "normal" IN
         /\ w.ok
         /\ w.planets[from].is_initialized
         /\ Holds(w.planet_artifacts[from], ship)
         /\ Holds(w.planet_artifacts[to], NoArtifact)
         /\ BucketHasRoom(w, to, player, Destination(w, to).owner)
         /\ Depart(w, from, to, Unmoored(w, from, ship),
                   Flight(Zero, from, to, 0, 0, ship, type, time),
                   w.planet_artifacts[from], CountsWithout(w, from, ship))
         /\ artifact_locations' = [w.artifact_locations EXCEPT ![ship] = Nowhere]
         /\ planet_space_junk' = JunkWithDestination(w, to)
    /\ UNCHANGED <<block, playerVars, artifactVars, planet_destroyed>>

\* An active photoid cannon fires with the next fleet once it is charged; that
\* runs execute_deactivate_artifact, which burns it.
Firing(w, from) ==
    LET active == ActiveIn(w.planet_artifacts[from]) IN
    /\ active # NoArtifact
    /\ artifacts[active].artifact_type = "photoid_cannon"
    /\ block >= artifacts[active].last_activated + PHOTOID_ACTIVATION_DELAY_BLOCKS

Burns(artifact) == artifact.artifact_type \in {"planetary_shield", "photoid_cannon"}

Deactivated(artifact) ==
    [artifact EXCEPT !.last_deactivated = block, !.wormhole_to = Nowhere,
                     !.burned = @ \/ Burns(artifact)]

Debuffed(planet, artifact) ==
    DebuffPlanet(planet, Buffs[artifact.artifact_type][artifact.rarity])

\* player_space_junk after the move: abandoning gives back what the origin had,
\* and the destination's junk is picked up.
JunkAfter(player, from, to, origin, junk, abandoning) ==
    LET given_back == IF abandoning THEN DefaultJunk(from, origin) ELSE 0
    IN  Greatest(0, player_space_junk[player] - given_back) + junk[to]

\* What a move can carry besides ships.
Cargos(w, from) ==
    {id \in FoundIds : /\ Holds(w.planet_artifacts[from], id)
                       /\ ~IsActive(artifacts[id])} \cup {NoArtifact}

\* A mutant of CanSpare: the whole population may leave.
CanSpareAll(fresh, pop, silver) == pop <= fresh.population /\ silver <= fresh.silver

CanSpare(fresh, pop, silver) == pop < fresh.population /\ silver <= fresh.silver

\* A mutant of Left: the silver that is sent is kept as well.
LeftWithSilver(origin, fresh, from, pop, silver, abandoning) ==
    IF abandoning
    THEN [origin EXCEPT
            !.owner = Zero,
            !.population = 2 * DefaultStats[from][origin.planet_type].population]
    ELSE [origin EXCEPT !.population = fresh.population - pop]

\* What is left on the origin.  An abandoned planet is held by barbarians again,
\* twice as many as by default.  The population left is counted from the
\* refreshed planet even when the rest is not.
Left(origin, fresh, from, pop, silver, abandoning) ==
    IF abandoning
    THEN [origin EXCEPT
            !.owner = Zero, !.silver = 0,
            !.population = 2 * DefaultStats[from][origin.planet_type].population]
    ELSE [origin EXCEPT !.population = fresh.population - pop,
                        !.silver = @ - silver]

\* A mutant of OriginOfFleet: what execute_deactivate_artifact hands back is lost.
OriginStillBuffed(w, from) == Origin(w, from)

\* execute_deactivate_artifact, run by the cannon, works on the planet as stored:
\* what it hands back has not been refreshed.
OriginOfFleet(w, from) ==
    IF Firing(w, from)
    THEN Debuffed(w.planets[from], artifacts[ActiveIn(w.planet_artifacts[from])])
    ELSE Origin(w, from)

ArrivalTypeOf(w, from, to) ==
    IF Firing(w, from) THEN "photoid"
    ELSE IF ByWormhole(w, from, to) THEN "wormhole" ELSE "normal"

\* The junk of planets before the destination's is picked up.
JunkBefore(w, from, to, abandoning) ==
    IF abandoning
    THEN [JunkWithDestination(w, to) EXCEPT ![from] = DefaultJunk(from, w.planets[from])]
    ELSE JunkWithDestination(w, to)

\* The artifact the cannon was is in its slot no more, and with the contract.
FireCannon(w, from, cargo) ==
    LET cannon   == ActiveIn(w.planet_artifacts[from])
        location == IF cargo = NoArtifact THEN w.artifact_locations
                    ELSE [w.artifact_locations EXCEPT ![cargo] = Nowhere]
    IN  IF Firing(w, from)
        THEN /\ artifacts' = [artifacts EXCEPT ![cannon] = Deactivated(@)]
             /\ nft_owners' = [nft_owners EXCEPT ![cannon] = Contract]
             /\ artifact_locations' = [location EXCEPT ![cannon] = MaxLocation]
        ELSE /\ artifact_locations' = location
             /\ UNCHANGED <<artifacts, nft_owners>>

\* A mutant of SlotsOfFleet: the cannon stays in its slot.
SlotsWithCannon(w, from) == w.planet_artifacts[from]

SlotsOfFleet(w, from) ==
    IF Firing(w, from)
    THEN Without(w.planet_artifacts[from], NoArtifact, ActiveIn(w.planet_artifacts[from]))
    ELSE w.planet_artifacts[from]

\* What a move brings to its destination: all there is, when abandoning.
Load(origin, pop, silver, abandoning) ==
    IF abandoning THEN [pop |-> origin.population, silver |-> origin.silver]
                  ELSE [pop |-> pop, silver |-> silver]

\* The rest of apply_move once both ends have landed what was due (w).
FleetLeaves(w, player, from, to, pop, silver, loss, time, cargo, abandoning) ==
    LET fresh  == Origin(w, from)
        origin == OriginOfFleet(w, from)
        junk   == JunkBefore(w, from, to, abandoning)
        load   == Load(origin, pop, silver, abandoning)
    IN
    /\ w.planets[from].is_initialized
    /\ fresh.owner = player
    /\ ~abandoning => CanSpare(fresh, pop, silver)
    /\ cargo # NoArtifact => Holds(w.planet_artifacts[to], NoArtifact)
    /\ BucketHasRoom(w, to, player, Destination(w, to).owner)
    /\ abandoning => /\ \A i \in Slots : w.planet_arrivals[from][i] = 0
                     /\ ~origin.is_home_planet
    /\ junk[to] # 0 =>
         JunkAfter(player, from, to, origin, junk, abandoning) <= SPACE_JUNK_LIMIT
    /\ loss < load.pop                     \* pop_arriving > 0
    /\ load.silver <= origin.silver        \* the subtraction is unsigned
    /\ Depart(w, from, to, Left(origin, fresh, from, pop, silver, abandoning),
              Flight(player, from, to, load.pop - loss, load.silver, cargo,
                     ArrivalTypeOf(w, from, to), time),
              SlotsOfFleet(w, from), w.ship_counts)
    /\ FireCannon(w, from, cargo)
    /\ planet_space_junk' = [junk EXCEPT ![to] = 0]
    /\ player_space_junk' = [player_space_junk EXCEPT
         ![player] = JunkAfter(player, from, to, origin, junk, abandoning)]

\* apply_move of population, silver and possibly an artifact.
SendFleet(player, from, to, abandoning) ==
    /\ MayDepart
    /\ ~planet_destroyed[from] /\ ~planet_destroyed[to]
    /\ \E w \in {Settled(from, to)} :
         /\ w.ok
         /\ \E pop, silver \in Shipments, loss \in Losses, time \in TravelTimes,
               cargo \in Cargos(w, from) :
              FleetLeaves(w, player, from, to, pop, silver, loss, time, cargo,
                          abandoning)
    /\ UNCHANGED <<block, home_planets, claimed_ships, spaceship_owners,
                   prospecting, planet_destroyed>>

-----------------------------------------------------------------------------
(* Landings asked for by themselves. *)

\* resolve_arrival: only the earliest arrival of a planet may be asked for.
ResolveArrival(id) ==
    LET l == arrivals[id].to_planet IN
    /\ arrivals[id].arrival_block # 0
    /\ Flying(World, l) # {}
    /\ EarliestId(World, l, Flying(World, l)) = id
    /\ \E w \in {ExecuteArrival(World, id)} : w.ok /\ Write(w)
    /\ UNCHANGED <<block, next_arrival_id, playerVars, artifactVars,
                   planet_destroyed, planet_space_junk>>

\* resolve_planet_arrivals: all that are due.
ResolvePlanet(l) ==
    /\ \E w \in {ProcessPending(World, l)} : w.ok /\ Write(w)
    /\ UNCHANGED <<block, next_arrival_id, playerVars, artifactVars,
                   planet_destroyed, planet_space_junk>>

-----------------------------------------------------------------------------
(* Upgrades. *)

UPGRADES_PER_BRANCH == 4

UpgradeCost(planet) == (planet.silver_cap * 20 * (UpgradesOf(planet) + 1)) \div 100

\* execute_upgrade_planet (action 3)
UpgradePlanet(player, l, branch) ==
    /\ Geography[l].planet_level > 0
    /\ \E w \in {ProcessPending(World, l)} :
         LET fresh == Origin(w, l) IN
         /\ w.ok
         /\ fresh.owner = player
         /\ fresh.planet_type = "planet"
         /\ UpgradesOf(fresh) < Geography[l].max_upgrades
         /\ fresh.upgrades[branch] < UPGRADES_PER_BRANCH
         /\ fresh.silver >= UpgradeCost(fresh)
         /\ Write([w EXCEPT !.planets[l] =
                     [BuffPlanet(fresh, UpgradeBuff(branch)) EXCEPT
                        !.silver = @ - UpgradeCost(fresh),
                        !.upgrades[branch] = @ + 1]])
    /\ UNCHANGED <<block, next_arrival_id, playerVars, artifactVars,
                   planet_destroyed, planet_space_junk>>

-----------------------------------------------------------------------------
(* Spaceships and artifacts.  These transactions read the planet as stored:  *)
(* they neither land what is due nor refresh.                                *)

WithShip(slots, l, type) ==
    IF type \in ShipTypes THEN Put(slots, NoArtifact, <<l, type>>) ELSE slots

\* Action 2: the five ships take free slots in the order of ship_types.
GiveSpaceShips(player, l) ==
    LET fleet == {<<l, t>> : t \in ShipTypes} IN
    /\ home_planets[player] = l
    /\ ~claimed_ships[player]
    /\ planets[l].owner = player
    /\ Cardinality({i \in ArtifactSlots : planet_artifacts[l][i] = NoArtifact})
         >= Cardinality(ShipTypes)
    /\ planet_artifacts' = [planet_artifacts EXCEPT ![l] =
         WithShip(WithShip(WithShip(WithShip(WithShip(@, l, "mothership"),
            l, "crescent"), l, "whale"), l, "gear"), l, "titan")]
    /\ spaceship_owners' = [id \in ShipIds |->
         IF id \in fleet THEN player ELSE spaceship_owners[id]]
    /\ artifact_locations' = [id \in ArtifactIds |->
         IF id \in fleet THEN l ELSE artifact_locations[id]]
    /\ nft_owners' = [id \in ArtifactIds |->
         IF id \in fleet THEN player ELSE nft_owners[id]]
    /\ claimed_ships' = [claimed_ships EXCEPT ![player] = TRUE]
    /\ UNCHANGED <<block, planets, planet_arrivals, arrivals, next_arrival_id,
                   ship_counts, player_space_junk, home_planets, artifacts,
                   prospecting, planet_destroyed, planet_space_junk>>

Standing(player, l, planet_type) ==
    /\ ~planet_destroyed[l]
    /\ planets[l].owner = player
    /\ planets[l].planet_type = planet_type

\* Action 4
ProspectPlanet(player, l) ==
    /\ Standing(player, l, "foundry")
    /\ prospecting[l].prospected = 0
    /\ prospecting' = [prospecting EXCEPT ![l].prospected = block]
    /\ UNCHANGED <<block, fleetVars, next_arrival_id, playerVars, artifacts,
                   spaceship_owners, nft_owners, planet_destroyed,
                   planet_space_junk>>

\* Action 5.  Type and rarity come out of a hash of the prospected block.
FindArtifact(player, l, type, rarity) ==
    LET id == <<l, "found">> IN
    /\ Standing(player, l, "foundry")
    /\ ~prospecting[l].tried
    /\ prospecting[l].prospected # 0
    /\ block > prospecting[l].prospected
    /\ block - prospecting[l].prospected < FIND_WINDOW
    /\ ~artifacts[id].is_initialized
    /\ Holds(planet_artifacts[l], NoArtifact)
    /\ artifacts' = [artifacts EXCEPT ![id] = NewArtifact(type, rarity)]
    /\ planet_artifacts' = [planet_artifacts EXCEPT ![l] = Put(@, NoArtifact, id)]
    /\ artifact_locations' = [artifact_locations EXCEPT ![id] = l]
    /\ nft_owners' = [nft_owners EXCEPT ![id] = Contract]
    /\ prospecting' = [prospecting EXCEPT ![l].tried = TRUE]
    /\ UNCHANGED <<block, planets, planet_arrivals, arrivals, next_arrival_id,
                   ship_counts, playerVars, spaceship_owners, planet_destroyed,
                   planet_space_junk>>

\* What actions 10 and 11 ask of the trading post and of the artifact.
Tradable(player, l, id) ==
    /\ Standing(player, l, "trading_post")
    /\ artifacts[id].is_initialized
    /\ ~artifacts[id].burned
    /\ Geography[l].planet_level > artifacts[id].rarity

\* Action 10.  The location of an artifact on its way is Nowhere, as that of
\* one in a player's hands is.
DepositArtifact(player, l, id) ==
    /\ Tradable(player, l, id)
    /\ artifact_locations[id] = Nowhere
    /\ ~Holds(planet_artifacts[l], id)
    /\ Holds(planet_artifacts[l], NoArtifact)
    /\ planet_artifacts' = [planet_artifacts EXCEPT ![l] = Put(@, NoArtifact, id)]
    /\ artifact_locations' = [artifact_locations EXCEPT ![id] = l]
    /\ nft_owners' = [nft_owners EXCEPT ![id] = Contract]
    /\ UNCHANGED <<block, planets, planet_arrivals, arrivals, next_arrival_id,
                   ship_counts, playerVars, artifacts, spaceship_owners,
                   prospecting, planet_destroyed, planet_space_junk>>

\* A mutant of WithdrawArtifact: the NFT stays with the contract.
WithdrawWithoutNft(player, l, id) ==
    /\ Tradable(player, l, id)
    /\ artifact_locations[id] = l
    /\ Holds(planet_artifacts[l], id)
    /\ planet_artifacts' =
         [planet_artifacts EXCEPT ![l] = Without(@, NoArtifact, id)]
    /\ artifact_locations' = [artifact_locations EXCEPT ![id] = Nowhere]
    /\ UNCHANGED <<block, planets, planet_arrivals, arrivals, next_arrival_id,
                   ship_counts, playerVars, artifactVars, planet_destroyed,
                   planet_space_junk>>

\* Action 11
WithdrawArtifact(player, l, id) ==
    /\ Tradable(player, l, id)
    /\ artifact_locations[id] = l
    /\ Holds(planet_artifacts[l], id)
    /\ planet_artifacts' =
         [planet_artifacts EXCEPT ![l] = Without(@, NoArtifact, id)]
    /\ artifact_locations' = [artifact_locations EXCEPT ![id] = Nowhere]
    /\ nft_owners' = [nft_owners EXCEPT ![id] = player]
    /\ UNCHANGED <<block, planets, planet_arrivals, arrivals, next_arrival_id,
                   ship_counts, playerVars, artifacts, spaceship_owners,
                   prospecting, planet_destroyed, planet_space_junk>>

\* Action 12 for a ship: a Crescent turns an unowned planet into a silver mine,
\* once, whoever asks.
ActivateCrescent(l, id) ==
    LET planet == planets[l] IN
    /\ id[2] = "crescent"
    /\ ~planet_destroyed[l]
    /\ Holds(planet_artifacts[l], id)
    /\ planet.owner = Zero
    /\ planet.planet_type # "silver_mine"
    /\ Geography[l].planet_level >= 1
    /\ ~artifacts[id].is_initialized     \* activations == 0
    /\ artifacts' = [artifacts EXCEPT ![id] =
         [NewArtifact("crescent", 0) EXCEPT !.last_activated = block,
                                            !.last_deactivated = block]]
    /\ planets' = [planets EXCEPT ![l] =
         [planet EXCEPT
            !.planet_type   = "silver_mine",
            !.silver        = IF @ = 0 THEN 1 ELSE @,
            !.silver_growth = IF planet.silver = 0
                              THEN DefaultStats[l]["silver_mine"].silver_growth
                              ELSE @]]
    /\ UNCHANGED <<block, planet_arrivals, arrivals, next_arrival_id,
                   planet_artifacts, artifact_locations, ship_counts, playerVars,
                   spaceship_owners, prospecting, nft_owners, planet_destroyed,
                   planet_space_junk>>

\* A wormhole is activated towards another planet of the player, all others
\* towards none.
Linkable(player, type, target) ==
    IF type = "wormhole"
    THEN /\ target # Nowhere
         /\ planets[target].is_initialized
         /\ ~planet_destroyed[target]
         /\ planets[target].owner = player
    ELSE target = Nowhere

\* Action 12 for an artifact.  A bloom filter and a black domain act at once
\* and are burned.
ActivateArtifact(player, l, id, target) ==
    LET artifact == artifacts[id]
        type     == artifact.artifact_type
        blooms   == type = "bloom_filter"
        destroys == type = "black_domain"
        burns    == blooms \/ destroys
        filled   == IF blooms
                    THEN [planets[l] EXCEPT !.population = planets[l].population_cap,
                                            !.silver = planets[l].silver_cap]
                    ELSE planets[l]
    IN
    /\ ~planet_destroyed[l]
    /\ Holds(planet_artifacts[l], id)
    /\ artifact.is_initialized
    /\ ~artifact.burned
    /\ planets[l].owner = player
    /\ ActiveIn(planet_artifacts[l]) = NoArtifact
    /\ artifact.last_deactivated # 0 =>
         block > artifact.last_deactivated + Cooldown[type]
    /\ Linkable(player, type, target)
    /\ burns => artifact.rarity * 2 >= Geography[l].planet_level
    /\ planets' = [planets EXCEPT ![l] =
                     BuffPlanet(filled, Buffs[type][artifact.rarity])]
    /\ planet_destroyed' = IF destroys THEN [planet_destroyed EXCEPT ![l] = TRUE]
                                       ELSE planet_destroyed
    /\ artifacts' = [artifacts EXCEPT ![id] =
         [artifact EXCEPT
            !.last_activated   = block,
            !.last_deactivated = IF burns THEN block ELSE @,
            !.wormhole_to      = IF burns THEN Nowhere
                                 ELSE IF type = "wormhole" THEN target ELSE @,
            !.burned           = burns]]
    /\ IF burns
       THEN /\ planet_artifacts' =
                 [planet_artifacts EXCEPT ![l] = Without(@, NoArtifact, id)]
            /\ artifact_locations' = [artifact_locations EXCEPT ![id] = MaxLocation]
            /\ nft_owners' = [nft_owners EXCEPT ![id] = Contract]
       ELSE UNCHANGED <<planet_artifacts, artifact_locations, nft_owners>>
    /\ UNCHANGED <<block, planet_arrivals, arrivals, next_arrival_id, ship_counts,
                   playerVars, spaceship_owners, prospecting, planet_space_junk>>

\* Action 13: execute_deactivate_artifact
DeactivateArtifact(player, l) ==
    LET id == ActiveIn(planet_artifacts[l]) IN
    /\ ~planet_destroyed[l]
    /\ planets[l].owner = player
    /\ id # NoArtifact
    /\ planets' = [planets EXCEPT ![l] = Debuffed(@, artifacts[id])]
    /\ artifacts' = [artifacts EXCEPT ![id] = Deactivated(@)]
    /\ IF Burns(artifacts[id])
       THEN /\ planet_artifacts' =
                 [planet_artifacts EXCEPT ![l] = Without(@, NoArtifact, id)]
            /\ artifact_locations' = [artifact_locations EXCEPT ![id] = MaxLocation]
            /\ nft_owners' = [nft_owners EXCEPT ![id] = Contract]
       ELSE UNCHANGED <<planet_artifacts, artifact_locations, nft_owners>>
    /\ UNCHANGED <<block, planet_arrivals, arrivals, next_arrival_id, ship_counts,
                   playerVars, spaceship_owners, prospecting, planet_destroyed,
                   planet_space_junk>>

-----------------------------------------------------------------------------

\* What anyone can do to what flies and grows.
FleetNext ==
    \/ \E p \in Players, l \in Planets : InitPlayer(p, l)
    \/ \E l \in Planets : RevealNewPlanet(l)
    \/ \E p \in Players, from, to \in Planets, abandoning \in BOOLEAN :
         SendFleet(p, from, to, abandoning)
    \/ \E id \in ArrivalIds : ResolveArrival(id)
    \/ \E l \in Planets : ResolvePlanet(l)
    \/ \E p \in Players, l \in Planets, b \in Branches : UpgradePlanet(p, l, b)

\* Claiming ships is part of the runs that have any.
ShipNext ==
    \/ ShipTypes # {} /\ \E p \in Players, l \in Planets : GiveSpaceShips(p, l)
    \/ \E p \in Players, from, to \in Planets, ship \in ShipIds :
         SendShip(p, from, to, ship)
    \/ \E l \in Planets, id \in ShipIds : ActivateCrescent(l, id)

ArtifactNext ==
    \E p \in Players, l \in Planets :
        \/ ProspectPlanet(p, l)
        \/ \E type \in ArtifactTypes, rarity \in Rarities :
             FindArtifact(p, l, type, rarity)
        \/ \E id \in FoundIds :
             \/ DepositArtifact(p, l, id)
             \/ WithdrawArtifact(p, l, id)
             \/ \E target \in Planets \cup {Nowhere} :
                  ActivateArtifact(p, l, id, target)
        \/ DeactivateArtifact(p, l)

Next == NextBlock \/ FleetNext \/ ShipNext \/ ArtifactNext

Spec == Init /\ [][Next]_vars

\* Blocks are produced whatever players do, and a client that sees an arrival
\* due resolves it (GameManager.queueResolveArrival): alone, the least it can do.
ResolveNextOf(l) ==
    \E id \in ArrivalIds : arrivals[id].to_planet = l /\ ResolveArrival(id)

FairSpec ==
    /\ Spec
    /\ WF_vars(NextBlock)
    /\ \A l \in Planets : WF_vars(ResolveNextOf(l))

=============================================================================
