------------------------------ MODULE Registry ------------------------------
(***************************************************************************)
(* What the DarkForest contract keeps beside the game, for those who read  *)
(* it: lists of the planets that were ever touched and of the coordinates  *)
(* that were revealed.  There are no events: a client that starts learns   *)
(* of planets from these lists only.                                       *)
(*                                                                         *)
(* Each transaction of DarkForest with what it writes here, and with the   *)
(* nullifiers its private half or its public one pushes; pushing one that  *)
(* is there already fails the transaction.                                 *)
(***************************************************************************)
EXTENDS DarkForest, Sequences

CONSTANT location_reveal_cooldown

ASSUME RegistryAssumption == location_reveal_cooldown \in Nat

VARIABLES
    touched_planet_ids,     \* with touched_planet_ids_count, its length
    touched_planet_seen,
    revealed,               \* by whom, of those that are
    revealed_coords,        \* with revealed_coords_count, its length
    revealed_seen,
    last_reveal_block,      \* of a player
    nullifiers              \* of planets and of players

indices == <<touched_planet_ids, touched_planet_seen, revealed, revealed_coords,
             revealed_seen, last_reveal_block, nullifiers>>

RegistryInit ==
    /\ Init
    /\ touched_planet_ids = <<>>
    /\ touched_planet_seen = {}
    /\ revealed = [l \in Planets |-> Zero]
    /\ revealed_coords = <<>>
    /\ revealed_seen = {}
    /\ last_reveal_block = [p \in Players |-> 0]
    /\ nullifiers = {}

-----------------------------------------------------------------------------

\* A mutant of IndexTouchedPlanet: it does not ask whether it was seen.
IndexAnyPlanet(l) ==
    /\ touched_planet_ids' = Append(touched_planet_ids, l)
    /\ touched_planet_seen' = touched_planet_seen \cup {l}

IndexTouchedPlanet(l) ==
    IF l \in touched_planet_seen
    THEN UNCHANGED <<touched_planet_ids, touched_planet_seen>>
    ELSE /\ touched_planet_ids' = Append(touched_planet_ids, l)
         /\ touched_planet_seen' = touched_planet_seen \cup {l}

IndexRevealedCoords(l, revealer) ==
    IF l \in revealed_seen
    THEN UNCHANGED <<revealed_coords, revealed_seen>>
    ELSE /\ revealed_coords' = Append(revealed_coords, <<l, revealer>>)
         /\ revealed_seen' = revealed_seen \cup {l}

PushNullifiers(S) ==
    /\ S \cap nullifiers = {}
    /\ nullifiers' = nullifiers \cup S

\* Player::new counts as a reveal.
InitPlayerIndexed(player, l) ==
    /\ InitPlayer(player, l)
    /\ PushNullifiers({l, player})
    /\ IndexTouchedPlanet(l)
    /\ last_reveal_block' = [last_reveal_block EXCEPT ![player] = block]
    /\ UNCHANGED <<revealed, revealed_coords, revealed_seen>>

\* Action 1.  Who reveals need not be in the game.
RevealLocation(player, l) ==
    /\ revealed[l] = Zero
    /\ location_reveal_cooldown > 0 =>
         block - last_reveal_block[player] > location_reveal_cooldown
    /\ IF planets[l].is_initialized
       THEN UNCHANGED <<vars, nullifiers>>
       ELSE RevealNewPlanet(l) /\ PushNullifiers({l})
    /\ revealed' = [revealed EXCEPT ![l] = player]
    /\ IndexTouchedPlanet(l)
    /\ IndexRevealedCoords(l, player)
    /\ last_reveal_block' = [last_reveal_block EXCEPT ![player] = block]

\* apply_move writes its destination when it is the first to touch it.
Touch(l) ==
    /\ IF planets[l].is_initialized
       THEN UNCHANGED <<nullifiers, touched_planet_ids, touched_planet_seen>>
       ELSE PushNullifiers({l}) /\ IndexTouchedPlanet(l)
    /\ UNCHANGED <<revealed, revealed_coords, revealed_seen, last_reveal_block>>

Initializes == \E l \in Planets : planets'[l].is_initialized /\ ~planets[l].is_initialized

\* Every other transaction, of which apply_move alone may touch a planet: a claim
\* and a reveal, the two that write more, are the two actions above.
OtherNext ==
    /\ Next
    /\ IF next_arrival_id' # next_arrival_id
       THEN Touch(arrivals'[next_arrival_id].to_planet)
       ELSE ~Initializes /\ UNCHANGED indices

RegistryNext ==
    \/ \E p \in Players, l \in Planets : InitPlayerIndexed(p, l)
    \/ \E p \in Players, l \in Planets : RevealLocation(p, l)
    \/ OtherNext

RegistrySpec == RegistryInit /\ [][RegistryNext]_<<vars, indices>>

-----------------------------------------------------------------------------

\* Whichever transaction touches a planet first, by a claim, a reveal or a move,
\* the reader of the lists meets every planet of the game once, and every revealed
\* one with who revealed it; and what may never be claimed again is what is there.
IndicesExact ==
    LET Initialized == {l \in Planets : planets[l].is_initialized}
        Listed(list, S) ==
          /\ {list[i] : i \in 1..Len(list)} = S
          /\ \A i, j \in 1..Len(list) : list[i] = list[j] => i = j
    IN  /\ Listed(touched_planet_ids, Initialized)
        /\ Listed(revealed_coords,
                  {<<l, revealed[l]>> : l \in {k \in Planets : revealed[k] # Zero}})
        /\ \A l \in Planets : revealed[l] # Zero => planets[l].is_initialized
        /\ nullifiers = Initialized \cup {p \in Players : home_planets[p] # Nowhere}

=============================================================================
