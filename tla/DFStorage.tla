----------------------------- MODULE DFStorage -----------------------------
(***************************************************************************)
(* The public storage of the DarkForest contract                           *)
(* (packages/contracts/src/main.nr) and the one thing that happens to it   *)
(* inside other transactions: arrivals land.                               *)
(*                                                                         *)
(* Landings run up to twenty-four times in one transaction, each on what   *)
(* the one before left.  So execute_arrival and process_pending_arrivals   *)
(* are functions from the storage they touch (World) to the storage they   *)
(* leave, whose field ok is FALSE once an assertion has failed; the        *)
(* transactions of DarkForest.tla are enabled only when it is TRUE.        *)
(***************************************************************************)
EXTENDS DFRules

CONSTANTS
    Contract,           \* the contract's own address, as an owner of NFTs
    MaxLocation,        \* config.max_location_id, where burned artifacts go
    ShipTypes,          \* the ships give_space_ships mints
    ArtifactTypes,      \* what find_artifact can come up with
    Rarities,
    Buffs,              \* upgrade_for_artifact, by type and rarity
    Cooldown,           \* ARTIFACT_COOLDOWN_BLOCKS
    PHOTOID_ACTIVATION_DELAY_BLOCKS,
    MaxArrivals         \* a bound of the model: arrivals ever sent

EffectShips == {"mothership", "whale", "titan"}

ShipIds == Planets \X ShipTypes

\* find_artifact hashes the planet into the id: at most one per planet.
FoundIds == Planets \X {"found"}

ArtifactIds == ShipIds \cup FoundIds

ArrivalIds == 1..MaxArrivals

ASSUME SentinelsAssumption ==
    /\ Zero # Contract
    /\ Contract \notin Players
    /\ MaxLocation \notin Planets \cup {Nowhere}
    /\ NoArtifact \notin ArtifactIds

ASSUME ArtifactAssumption ==
    /\ ShipTypes \subseteq EffectShips \cup {"crescent", "gear"}
    /\ ArtifactTypes \subseteq {"monolith", "wormhole", "planetary_shield",
                                "photoid_cannon", "bloom_filter", "black_domain"}
    /\ Rarities \subseteq Nat
    /\ Buffs \in [ArtifactTypes -> [Rarities ->
         [population_cap : Nat \ {0}, population_growth : Nat \ {0},
          defense : Nat \ {0}]]]
    /\ Cooldown \in [ArtifactTypes -> Nat]
    /\ PHOTOID_ACTIVATION_DELAY_BLOCKS \in Nat
    /\ MaxArrivals \in Nat

\* The types from ARTIFACT_TYPE_WORMHOLE on give no buff.
ASSUME NoBuffAssumption ==
    \A type \in ArtifactTypes \cap {"wormhole", "bloom_filter", "black_domain"},
       rarity \in Rarities :
        Buffs[type][rarity] = [population_cap |-> 100, population_growth |-> 100,
                               defense |-> 100]

VARIABLES
    block,               \* context.block_number()
    planets,
    planet_arrivals,     \* the twelve slots of arrival ids of each planet
    arrivals,
    next_arrival_id,
    planet_artifacts,    \* the five slots of artifact ids of each planet
    artifact_locations,
    artifacts,
    spaceship_owners,
    ship_counts,         \* planet_pausers and the two doubler counters
    planet_destroyed,
    planet_space_junk,
    player_space_junk,
    home_planets,        \* of players: the home planet once initialized
    claimed_ships,
    prospecting,         \* planet_artifact_state
    nft_owners           \* the NFT contract's public_owners

fleetVars == <<planets, planet_arrivals, arrivals, planet_artifacts,
               artifact_locations, ship_counts>>

playerVars == <<player_space_junk, home_planets, claimed_ships>>

artifactVars == <<artifacts, spaceship_owners, prospecting, nft_owners>>

vars == <<block, fleetVars, next_arrival_id, playerVars, artifactVars,
          planet_destroyed, planet_space_junk>>

-----------------------------------------------------------------------------
(* Records of storage. *)

Addresses == Players \cup {Zero}

Arrival == [player : Addresses, from_planet : Planets \cup {Nowhere},
            to_planet : Planets \cup {Nowhere}, pop_arriving : Nat,
            silver_moved : Nat, arrival_block : Nat,
            arrival_type : ArrivalTypes,
            carried_artifact_id : ArtifactIds \cup {NoArtifact}]

EmptyArrival ==
    [player |-> Zero, from_planet |-> Nowhere, to_planet |-> Nowhere,
     pop_arriving |-> 0, silver_moved |-> 0, arrival_block |-> 0,
     arrival_type |-> "normal", carried_artifact_id |-> NoArtifact]

Artifact == [is_initialized : BOOLEAN,
             artifact_type : ArtifactTypes \cup {"crescent", "unknown"},
             rarity : Rarities \cup {0}, last_activated : Nat,
             last_deactivated : Nat, burned : BOOLEAN,
             wormhole_to : Planets \cup {Nowhere}]

NewArtifact(type, rarity) ==
    [is_initialized |-> TRUE, artifact_type |-> type, rarity |-> rarity,
     last_activated |-> 0, last_deactivated |-> 0, burned |-> FALSE,
     wormhole_to |-> Nowhere]

EmptyArtifact == [NewArtifact("unknown", 0) EXCEPT !.is_initialized = FALSE]

IsShip(id) == id \in ShipIds

IsActive(artifact) ==
    artifact.is_initialized /\ artifact.last_deactivated < artifact.last_activated

\* get_active_artifact: the first slot that holds an active artifact.
ActiveIn(slots) ==
    LET active == {i \in ArtifactSlots :
                     slots[i] # NoArtifact /\ IsActive(artifacts[slots[i]])}
    IN  IF active = {} THEN NoArtifact
        ELSE slots[CHOOSE i \in active : \A j \in active : i <= j]

-----------------------------------------------------------------------------
(* Landings. *)

World == [ok |-> TRUE, planets |-> planets, planet_arrivals |-> planet_arrivals,
          arrivals |-> arrivals, planet_artifacts |-> planet_artifacts,
          artifact_locations |-> artifact_locations, ship_counts |-> ship_counts]

\* What a transaction leaves in storage of what landings change.
Write(w) ==
    /\ planets'            = w.planets
    /\ planet_arrivals'    = w.planet_arrivals
    /\ arrivals'           = w.arrivals
    /\ planet_artifacts'   = w.planet_artifacts
    /\ artifact_locations' = w.artifact_locations
    /\ ship_counts'        = w.ship_counts

Pausers(w, l) == w.ship_counts[l]["titan"]

\* A mutant of Affects: ships act on home planets too.
AffectsHomes(id, planet) == IsShip(id) /\ id[2] \in EffectShips

\* apply_spaceship_arrive and apply_spaceship_depart do nothing for an artifact
\* that is no such ship, and nothing on a home planet.
Affects(id, planet) ==
    IsShip(id) /\ id[2] \in EffectShips /\ ~planet.is_home_planet

\* The assertions of execute_arrival, the division by zero included.
CanLand(w, id) ==
    LET arrival == w.arrivals[id]
        l       == arrival.to_planet
    IN  /\ arrival.arrival_block # 0
        /\ block >= arrival.arrival_block
        /\ w.planets[l].last_updated <= arrival.arrival_block
        /\ ~planet_destroyed[l]
        /\ Hostile(w.planets[l], arrival.player, arrival.arrival_type)
              => w.planets[l].defense # 0
        /\ arrival.carried_artifact_id # NoArtifact
              => Holds(w.planet_artifacts[l], NoArtifact)

\* A mutant of Unload: the location of the artifact stays what it was in flight.
UnloadUnlocated(w, l, id) ==
    IF id = NoArtifact THEN w
    ELSE [w EXCEPT !.planet_artifacts[l] = Put(@, NoArtifact, id)]

\* A mutant of Unload: ships land, artifacts do not.
UnloadShips(w, l, id) ==
    IF ~IsShip(id) THEN w
    ELSE [w EXCEPT !.planet_artifacts[l] = Put(@, NoArtifact, id),
                   !.artifact_locations[id] = l]

\* The artifact on board goes into a slot of the planet, and acts if it is a ship.
Unload(w, l, id) ==
    IF id = NoArtifact THEN w
    ELSE IF ~Affects(id, w.planets[l])
    THEN [w EXCEPT !.planet_artifacts[l] = Put(@, NoArtifact, id),
                   !.artifact_locations[id] = l]
    ELSE [w EXCEPT !.planet_artifacts[l] = Put(@, NoArtifact, id),
                   !.artifact_locations[id] = l,
                   !.planets[l] = Docked(@, id[2], w.ship_counts[l][id[2]]),
                   !.ship_counts[l][id[2]] = @ + 1]

\* A mutant of Cleared: the slot is left as it is.
ClearedNot(queue, id) == queue

Cleared(queue, id) ==
    IF Holds(queue, id) THEN [queue EXCEPT ![FirstSlot(queue, id)] = 0] ELSE queue

ExecuteArrival(w, id) ==
    LET arrival == w.arrivals[id]
        l       == arrival.to_planet
        landed  == [w EXCEPT
                      !.planets[l] = Landed(@, Pausers(w, l), arrival),
                      !.planet_arrivals[l] = Cleared(@, id),
                      !.arrivals[id] = EmptyArrival]
    IN  IF CanLand(w, id) THEN Unload(landed, l, arrival.carried_artifact_id)
                          ELSE [w EXCEPT !.ok = FALSE]

\* The slots of l whose arrivals land no later than the given block.
DueSlots(w, l, up_to_block) ==
    {i \in Slots :
        /\ w.planet_arrivals[l][i] # 0
        /\ w.arrivals[w.planet_arrivals[l][i]].arrival_block \in 1..up_to_block}

\* A mutant of EarliestId: the latest.
LatestId(w, l, slots) ==
    LET When(i) == w.arrivals[w.planet_arrivals[l][i]].arrival_block
    IN  w.planet_arrivals[l][CHOOSE i \in slots : \A j \in slots : When(j) <= When(i)]

\* The earliest of them, the lowest slot on a tie.
EarliestId(w, l, slots) ==
    LET When(i) == w.arrivals[w.planet_arrivals[l][i]].arrival_block
        first   == CHOOSE i \in slots : \A j \in slots :
                      When(i) < When(j) \/ (When(i) = When(j) /\ i <= j)
    IN  w.planet_arrivals[l][first]

\* done in process_pending_arrivals: nothing is left that is due.  The rounds
\* after a failed assertion do not happen.
Done(w, l) == ~w.ok \/ DueSlots(w, l, block) = {}

\* One round of its loop.
Round(w, l) ==
    IF Done(w, l) THEN w
    ELSE ExecuteArrival(w, EarliestId(w, l, DueSlots(w, l, block)))

ThreeRounds(w, l) == Round(Round(Round(w, l), l), l)

\* The loop is written for _ in 0..12.
ProcessPending(w, l) ==
    IF Done(w, l) THEN w
    ELSE ThreeRounds(ThreeRounds(ThreeRounds(ThreeRounds(w, l), l), l), l)

=============================================================================
