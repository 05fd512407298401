---------------------------- MODULE DFProperties ----------------------------
(***************************************************************************)
(* What the DarkForest contract promises of its storage.                   *)
(***************************************************************************)
EXTENDS DarkForest, FiniteSetsExt

\* Every variable holds a value of the type its map in Storage has; above all
\* no unsigned subtraction of a landing, a move or an upgrade goes below zero.
TypeOK ==
    /\ block \in Nat
    /\ planets \in [Planets -> Planet]
    /\ planet_arrivals \in [Planets -> [Slots -> ArrivalIds \cup {0}]]
    /\ arrivals \in [ArrivalIds -> Arrival]
    /\ next_arrival_id \in Nat \ {0}
    /\ planet_artifacts \in
         [Planets -> [ArtifactSlots -> ArtifactIds \cup {NoArtifact}]]
    /\ artifact_locations \in
         [ArtifactIds -> Planets \cup {Nowhere, MaxLocation}]
    /\ artifacts \in [ArtifactIds -> Artifact]
    /\ spaceship_owners \in [ShipIds -> Addresses]
    /\ ship_counts \in [Planets -> [EffectShips -> Nat]]
    /\ planet_destroyed \in [Planets -> BOOLEAN]
    /\ planet_space_junk \in [Planets -> Nat]
    /\ player_space_junk \in [Players -> Nat]
    /\ home_planets \in [Players -> Planets \cup {Nowhere}]
    /\ claimed_ships \in [Players -> BOOLEAN]
    /\ prospecting \in [Planets -> [prospected : Nat, tried : BOOLEAN]]
    /\ nft_owners \in [ArtifactIds -> Addresses \cup {Contract}]

-----------------------------------------------------------------------------
(* The arrival queues. *)

Live(id) == arrivals[id].arrival_block # 0

\* The slots of the queues hold exactly the arrivals that have not landed: each
\* slot holds a live arrival bound for its planet, no two slots the same one,
\* every live arrival is in a slot, and ids not given out yet name none.
\* apply_move writes slot and arrival apart from each other (2420-2445), and
\* execute_arrival clears them apart from each other (2583-2595).
QueueExact ==
    /\ \A l \in Planets, i \in Slots :
         planet_arrivals[l][i] # 0 =>
           /\ Live(planet_arrivals[l][i])
           /\ arrivals[planet_arrivals[l][i]].to_planet = l
    /\ \A l \in Planets, i, j \in Slots :
         planet_arrivals[l][i] # 0 /\ i # j =>
           planet_arrivals[l][i] # planet_arrivals[l][j]
    /\ \A id \in ArrivalIds : Live(id) =>
         /\ id < next_arrival_id
         /\ arrivals[id].to_planet \in Planets
         /\ Holds(planet_arrivals[arrivals[id].to_planet], id)

\* The clock of a planet is never ahead of the chain, nor of an arrival on its
\* way to it: the assertion of execute_arrival on last_updated (2511) never blocks
\* a queue.  It rests on every writer of last_updated landing what is due first.
ClockBehindArrivals ==
    /\ \A l \in Planets : planets[l].last_updated <= block
    /\ \A id \in ArrivalIds : Live(id) =>
         /\ planets[arrivals[id].to_planet].is_initialized
         /\ planets[arrivals[id].to_planet].last_updated <= arrivals[id].arrival_block

\* A planet that belongs to someone is never empty: a landing that takes it
\* leaves at least 1 (2543), and a move leaves some behind (2228).
OwnedPopulated ==
    \A l \in Planets : planets[l].owner # Zero => planets[l].population > 0

Lands(id) == Live(id) /\ arrivals'[id].arrival_block = 0

\* Arrivals land when they are due and in the order they are due: a step that
\* lands one lands every earlier one of the same planet, in whatever transaction
\* it happens (test_fail_resolve_arrival_out_of_order, test_fail_arrival_too_early).
LandInOrder ==
    [][\A id, other \in ArrivalIds :
         Lands(id) =>
           /\ arrivals[id].arrival_block <= block
           /\ ~(/\ Live(other) /\ ~Lands(other)
                /\ arrivals[other].to_planet = arrivals[id].to_planet
                /\ arrivals[other].arrival_block < arrivals[id].arrival_block)]_vars

\* A planet changes hands in two ways only: an arrival of the new owner lands on
\* it in this step, or its owner abandons it to nobody, which needs a queue with
\* nothing left on its way.
OwnersChangeByArms ==
    [][\A l \in Planets :
         planets[l].is_initialized /\ planets'[l].owner # planets[l].owner =>
           IF planets'[l].owner = Zero
           THEN \A id \in ArrivalIds : Live(id) /\ arrivals[id].to_planet = l
                                         => Lands(id)
           ELSE \E id \in ArrivalIds :
                  /\ Lands(id)
                  /\ arrivals[id].to_planet = l
                  /\ arrivals[id].player = planets'[l].owner]_vars

\* Every arrival lands in the end, once blocks go on being produced and someone
\* resolves the planets where arrivals are due.
EveryArrivalLands == \A id \in ArrivalIds : Live(id) ~> ~Live(id)

\* Whatever is due on a planet can be landed: no assertion stands in the way of
\* process_pending_arrivals.
DueArrivalsResolve == \A l \in Planets : ProcessPending(World, l).ok

\* The queues implement voyages: what is live sails, under the id it was given.
Voyage(id) == [id |-> id, from |-> arrivals[id].from_planet,
               to |-> arrivals[id].to_planet, at |-> arrivals[id].arrival_block]

Sailing == {Voyage(id) : id \in {i \in ArrivalIds : Live(i)}}

V == INSTANCE Voyages WITH now <- block, sailing <- Sailing,
                           next <- next_arrival_id, Berths <- Slots

\* Through all slots, buckets, lazy refreshes and twenty-four landings within a
\* transaction, the contract does what Voyages says and no more: every
\* transaction is a landing of what may land, or one departure after it.
ArrivalsAreVoyages == V!Spec

-----------------------------------------------------------------------------
(* Ships. *)

InSlot(id, l) == Holds(planet_artifacts[l], id)

CarriedBy(arrival_id, id) ==
    Live(arrival_id) /\ arrivals[arrival_id].carried_artifact_id = id

\* A ship that was given out is in one slot of one planet or on board of one
\* arrival, never both and never lost; one that was not is nowhere.
ShipInOnePlace ==
    \A id \in ShipIds :
        LET slots   == {at \in Planets \X ArtifactSlots :
                          planet_artifacts[at[1]][at[2]] = id}
            flights == {a \in ArrivalIds : CarriedBy(a, id)}
            places  == Cardinality(slots) + Cardinality(flights)
        IN  places = IF spaceship_owners[id] = Zero THEN 0 ELSE 1

ShipsAt(l, type) ==
    {i \in ArtifactSlots : /\ planet_artifacts[l][i] \in ShipIds
                            /\ planet_artifacts[l][i][2] = type}

\* The pausers and the two doubler counters of a planet count the ships in its
\* slots.  Homes count nothing.
CountersMatchShips ==
    \A l \in Planets, type \in EffectShips :
        ship_counts[l][type] = IF planets[l].is_home_planet THEN 0
                               ELSE Cardinality(ShipsAt(l, type))

\* The growth a planet was made with (Geography: a Crescent changes the type of a
\* planet and not this), twice while a Mothership is there.
GrowthAt(l) ==
    planets[l].is_initialized =>
        planets[l].population_growth =
            (IF ship_counts[l]["mothership"] > 0 THEN 2 ELSE 1)
              * DefaultStats[l][Geography[l].planet_type].population_growth

\* The growth of a planet is doubled exactly while a doubler is there, however many
\* come and go and in whatever order.
GrowthMatchesShips == \A l \in Planets : GrowthAt(l)

\* artifact_locations names the planet whose slots hold the artifact.
LocationNamesPlanet ==
    \A id \in ArtifactIds, l \in Planets :
        InSlot(id, l) => artifact_locations[id] = l

-----------------------------------------------------------------------------
(* Artifacts. *)

\* An artifact that was found and not burned is in a slot, on its way, or in a
\* player's hands: no way of moving it loses it.
ArtifactNotLost ==
    \A id \in FoundIds :
        artifacts[id].is_initialized /\ ~artifacts[id].burned =>
          \/ \E l \in Planets : InSlot(id, l)
          \/ \E a \in ArrivalIds : CarriedBy(a, id)
          \/ nft_owners[id] \in Players

\* A burned artifact is gone for good: it is in no slot, on no arrival, and
\* its location is max_location_id.
BurnedIsGone ==
    \A id \in FoundIds : artifacts[id].burned =>
        /\ artifact_locations[id] = MaxLocation
        /\ \A l \in Planets : ~InSlot(id, l)
        /\ \A a \in ArrivalIds : ~CarriedBy(a, id)

ActiveAt(l) == {i \in ArtifactSlots : /\ planet_artifacts[l][i] \in FoundIds
                                      /\ IsActive(artifacts[planet_artifacts[l][i]])}

ActiveOn(l) == {artifacts[planet_artifacts[l][i]] : i \in ActiveAt(l)}

\* What the active artifact of l, if there is one, makes of x.
Under(x, l, field) ==
    IF ActiveOn(l) = {} THEN x
    ELSE LET a == CHOOSE a \in ActiveOn(l) : TRUE
         IN  (x * Buffs[a.artifact_type][a.rarity][field]) \div 100

StatsAt(l) ==
    LET default == DefaultStats[l][Geography[l].planet_type] IN
    planets[l].is_initialized =>
        /\ Cardinality(ActiveAt(l)) <= 1
        /\ planets[l].population_cap = Under(default.population_cap, l, "population_cap")
        /\ planets[l].defense = Under(default.defense, l, "defense")

\* The statistics of a planet that is never upgraded are the default ones under
\* the buff of its active artifact, of which there is at most one: every way of
\* ending an activation takes back what it gave.
StatsMatchActive == \A l \in Planets : StatsAt(l)

-----------------------------------------------------------------------------
(* Silver. *)

TotalOf(S, amount(_)) == MapThenSumSet(amount, S)

\* The cost of the upgrades a planet has had.
SpentOn(l) ==
    LET Cost(k) == (planets[l].silver_cap * 20 * k) \div 100
    IN  TotalOf(1..UpgradesOf(planets[l]), Cost)

\* Silver comes from nowhere but the default of a planet and the growth of a
\* mine up to the block it is written as of: what is on planets and on its way,
\* and what upgrades have cost, is never more.  Refreshing lazily, at a move, at
\* a landing or at an upgrade, counts no block twice, and no move sends silver
\* and keeps it.  (Without Crescents, Whales and bloom filters, which make
\* silver.)
SilverAccounted ==
    LET OnPlanet(l) == planets[l].silver + SpentOn(l)
        OnTheWay(id) == arrivals[id].silver_moved
        Created(l) ==
          IF ~planets[l].is_initialized \/ planets[l].is_home_planet THEN 0
          ELSE LET default == DefaultStats[l][Geography[l].planet_type]
               IN  default.silver + default.silver_growth * (planets[l].last_updated - 1)
    IN  TotalOf(Planets, OnPlanet) + TotalOf(ArrivalIds, OnTheWay)
          <= TotalOf(Planets, Created)

=============================================================================
