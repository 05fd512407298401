------------------------------ MODULE DFRules ------------------------------
(***************************************************************************)
(* The rules of the Dark Forest contract (packages/contracts/src/main.nr)  *)
(* that are functions of their arguments: how a planet record ages, what a *)
(* landing does to it, what upgrades and artifacts do to its statistics,   *)
(* and how the fixed arrays of storage (the twelve arrival slots and the   *)
(* five artifact slots of a planet) are searched, filled and emptied.      *)
(* DarkForest.tla builds the transactions on them.                         *)
(*                                                                         *)
(* Range and speed of a planet are left out: they only decide how much of  *)
(* a fleet arrives and when, which DarkForest.tla chooses freely.          *)
(***************************************************************************)
EXTENDS Integers, FiniteSets

CONSTANTS
    Planets,                  \* location ids
    Players,                  \* addresses of players
    Zero,                     \* AztecAddress::zero()
    Nowhere,                  \* the location id 0
    NoArtifact,               \* the artifact id 0
    Geography,                \* what location and perlin fix for good
    DefaultStats,             \* what they give a planet of each type
    HOME_PLANET_POPULATION,
    MAX_ARRIVALS_PER_BUCKET,
    MAX_PLANET_ARTIFACTS

PlanetTypes == {"planet", "silver_mine", "foundry", "trading_post", "silver_bank"}

Branches == {"defense", "range", "speed"}

ASSUME SentinelAssumption ==
    /\ Zero \notin Players
    /\ Nowhere \notin Planets

ASSUME StatsAssumption ==
    /\ Geography \in [Planets -> [planet_level : Nat, planet_type : PlanetTypes,
                                  max_upgrades : Nat, space_junk : Nat]]
    /\ DefaultStats \in [Planets -> [PlanetTypes ->
         [population : Nat, population_cap : Nat, population_growth : Nat,
          silver : Nat, silver_cap : Nat, silver_growth : Nat, defense : Nat]]]

\* The bucket limit is 6 in the code: two buckets of it fill the twelve slots,
\* and process_pending_arrivals makes twelve rounds.
ASSUME LimitAssumption ==
    /\ MAX_ARRIVALS_PER_BUCKET \in 1..6
    /\ MAX_PLANET_ARTIFACTS \in Nat \ {0}
    /\ HOME_PLANET_POPULATION \in Nat \ {0}

-----------------------------------------------------------------------------
(* Storage records. *)

Slots == 1..(2 * MAX_ARRIVALS_PER_BUCKET)

ArtifactSlots == 1..MAX_PLANET_ARTIFACTS

Planet == [is_initialized : BOOLEAN, owner : Players \cup {Zero},
           population : Nat, population_cap : Nat, population_growth : Nat,
           silver : Nat, silver_cap : Nat, silver_growth : Nat, defense : Nat,
           last_updated : Nat, planet_type : PlanetTypes,
           is_home_planet : BOOLEAN, upgrades : [Branches -> Nat]]

\* default_planet_from_stats
DefaultPlanet(l, planet_type, owner, is_home, current_block) ==
    LET stats == DefaultStats[l][planet_type] IN
    [is_initialized    |-> TRUE,
     owner             |-> IF is_home THEN owner ELSE Zero,
     population        |-> IF is_home THEN HOME_PLANET_POPULATION
                                      ELSE stats.population,
     population_cap    |-> stats.population_cap,
     population_growth |-> stats.population_growth,
     silver            |-> IF is_home THEN 0 ELSE stats.silver,
     silver_cap        |-> stats.silver_cap,
     silver_growth     |-> stats.silver_growth,
     defense           |-> stats.defense,
     last_updated      |-> current_block,
     planet_type       |-> planet_type,
     is_home_planet    |-> is_home,
     upgrades          |-> [b \in Branches |-> 0]]

\* What reading a planet that was never written gives.
NoPlanet ==
    [is_initialized |-> FALSE, owner |-> Zero, population |-> 0,
     population_cap |-> 0, population_growth |-> 0, silver |-> 0,
     silver_cap |-> 0, silver_growth |-> 0, defense |-> 0, last_updated |-> 0,
     planet_type |-> "planet", is_home_planet |-> FALSE,
     upgrades |-> [b \in Branches |-> 0]]

ArrivalTypes == {"normal", "photoid", "wormhole"}

\* planet_default_space_junk, halved or not by the location's bytes
\* (space_junk is the value after halving).
DefaultJunk(l, planet) == IF planet.is_home_planet THEN 0 ELSE Geography[l].space_junk

-----------------------------------------------------------------------------
(* The passage of time. *)

Least(a, b) == IF a <= b THEN a ELSE b

Greatest(a, b) == IF a >= b THEN a ELSE b

\* The logistic curve, abstracted to its direction: towards the cap, from
\* either side, and never past it.
Grown(planet, blocks) ==
    LET cap  == planet.population_cap
        step == planet.population_growth * blocks
    IN  IF planet.population <= cap THEN Least(cap, planet.population + step)
                                    ELSE Greatest(cap, planet.population - step)

\* A silver bank, and any planet a Titan pauses, holds no more than its cap.
Capped(planet, pausers, population) ==
    IF planet.planet_type = "silver_bank" \/ pausers > 0
    THEN Least(population, planet.population_cap)
    ELSE population

\* update_population: a pauser stops growth, not decay.
UpdatePopulation(planet, blocks, pausers) ==
    LET grown == Grown(planet, blocks)
        held  == IF pausers > 0 THEN Least(grown, planet.population) ELSE grown
    IN  IF planet.population = 0 \/ planet.population_cap = 0
        THEN planet.population
        ELSE Capped(planet, pausers, held)

\* update_silver, called for silver mines only.
UpdateSilver(planet, blocks) ==
    IF planet.planet_type = "silver_mine" /\ planet.silver < planet.silver_cap
    THEN Least(planet.silver_cap, planet.silver + planet.silver_growth * blocks)
    ELSE planet.silver

\* refresh_planet: an unowned planet only has its clock moved.
Refresh(planet, pausers, update_block) ==
    LET blocks == update_block - planet.last_updated IN
    IF ~planet.is_initialized \/ update_block <= planet.last_updated THEN planet
    ELSE IF planet.owner = Zero
         THEN [planet EXCEPT !.last_updated = update_block]
         ELSE [planet EXCEPT
                 !.population   = UpdatePopulation(planet, blocks, pausers),
                 !.silver       = UpdateSilver(planet, blocks),
                 !.last_updated = update_block]

-----------------------------------------------------------------------------
(* A landing. *)

\* Population is fought over unless the fleet comes home, or through a wormhole:
\* a wormhole carries no force onto a planet of someone else.
Hostile(planet, player, arrival_type) ==
    player # planet.owner /\ arrival_type # "wormhole"

\* A mutant of Clash: what the garrison costs the fleet is not scaled back by 100.
ClashUnscaled(planet, player, force, arrival_type) ==
    LET damage   == (force * 100) \div planet.defense
        survivor == force - planet.population * planet.defense
    IN  IF player = planet.owner
        THEN [owner |-> player, population |-> planet.population + force]
        ELSE IF ~Hostile(planet, player, arrival_type)
        THEN [owner |-> planet.owner, population |-> planet.population]
        ELSE IF planet.population > damage
        THEN [owner |-> planet.owner, population |-> planet.population - damage]
        ELSE [owner |-> IF player = Zero THEN planet.owner ELSE player,
              population |-> IF survivor = 0 THEN 1 ELSE survivor]

\* The owner and the population after `force` of `player` meets the garrison.
\* A landing that beats the garrison leaves at least 1, and takes the planet
\* unless it is a spaceship's, which flies for the zero address.
Clash(planet, player, force, arrival_type) ==
    LET damage   == (force * 100) \div planet.defense
        survivor == force - ((planet.population * planet.defense) \div 100)
    IN  IF player = planet.owner
        THEN [owner |-> player, population |-> planet.population + force]
        ELSE IF ~Hostile(planet, player, arrival_type)
        THEN [owner |-> planet.owner, population |-> planet.population]
        ELSE IF planet.population > damage
        THEN [owner |-> planet.owner, population |-> planet.population - damage]
        ELSE [owner |-> IF player = Zero THEN planet.owner ELSE player,
              population |-> IF survivor = 0 THEN 1 ELSE survivor]

\* The planet after the landing: aged to the arrival's block, fought over, its
\* silver filled up to the cap.
Landed(planet, pausers, arrival) ==
    LET aged  == Refresh(planet, pausers, arrival.arrival_block)
        clash == Clash(aged, arrival.player, arrival.pop_arriving,
                       arrival.arrival_type)
    IN  [aged EXCEPT
           !.owner        = clash.owner,
           !.population   = Capped(aged, pausers, clash.population),
           !.silver       = Least(aged.silver + arrival.silver_moved,
                                  aged.silver_cap),
           !.last_updated = arrival.arrival_block]

-----------------------------------------------------------------------------
(* What changes the statistics of a planet.  A buff is a record of percents. *)

BuffPlanet(planet, buff) ==
    [planet EXCEPT !.population_cap    = (@ * buff.population_cap) \div 100,
                   !.population_growth = (@ * buff.population_growth) \div 100,
                   !.defense           = (@ * buff.defense) \div 100]

DebuffPlanet(planet, buff) ==
    [planet EXCEPT !.population_cap    = (@ * 100) \div buff.population_cap,
                   !.population_growth = (@ * 100) \div buff.population_growth,
                   !.defense           = (@ * 100) \div buff.defense]

\* The UPGRADE_*_MULTIPLIERs of a branch.
UpgradeBuff(branch) ==
    [population_cap |-> 120, population_growth |-> 120,
     defense |-> IF branch = "defense" THEN 120 ELSE 100]

UpgradesOf(planet) ==
    planet.upgrades["defense"] + planet.upgrades["range"] + planet.upgrades["speed"]

\* The first Mothership of a planet doubles the growth of its population, the
\* first Whale that of its silver; the last to leave halves it again.
Docked(planet, ship, present) ==
    [planet EXCEPT
       !.population_growth = IF ship = "mothership" /\ present = 0 THEN 2 * @ ELSE @,
       !.silver_growth     = IF ship = "whale" /\ present = 0 THEN 2 * @ ELSE @]

\* A mutant of Undocked: every Mothership that leaves halves the growth.
UndockedEach(planet, ship, present) ==
    [planet EXCEPT
       !.population_growth = IF ship = "mothership" THEN @ \div 2 ELSE @,
       !.silver_growth     = IF ship = "whale" THEN @ \div 2 ELSE @]

Undocked(planet, ship, present) ==
    [planet EXCEPT
       !.population_growth = IF ship = "mothership" /\ present = 1 THEN @ \div 2 ELSE @,
       !.silver_growth     = IF ship = "whale" /\ present = 1 THEN @ \div 2 ELSE @]

-----------------------------------------------------------------------------
(* The fixed arrays of storage. *)

\* The first slot of `list` that holds `value`.
FirstSlot(list, value) ==
    CHOOSE i \in DOMAIN list :
        /\ list[i] = value
        /\ \A j \in DOMAIN list : list[j] = value => i <= j

Holds(list, value) == \E i \in DOMAIN list : list[i] = value

\* PlanetArrivals.set and planet_artifacts_add: the first free slot is taken.
Put(list, free, value) == [list EXCEPT ![FirstSlot(list, free)] = value]

\* planet_artifacts_remove clears every slot that holds the artifact.
Without(list, free, value) ==
    [i \in DOMAIN list |-> IF list[i] = value THEN free ELSE list[i]]

=============================================================================
