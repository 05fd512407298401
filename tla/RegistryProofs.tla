--------------------------- MODULE RegistryProofs ---------------------------
(***************************************************************************)
(* The lists of the contract are exact, and it still is the DarkForest of  *)
(* the other proofs: what Registry adds to a transaction changes nothing   *)
(* else.                                                                   *)
(***************************************************************************)
EXTENDS DFQueueProofs, Registry

\* Every step of the contract with its lists is one of the contract without, or
\* none: a reveal of a planet that is known.
THEOREM RegistryImplements == RegistrySpec => Spec
  <1>1. RegistryInit => Init
    BY DEF RegistryInit
  <1>2. [RegistryNext]_<<vars, indices>> => [Next]_vars
    <2> SUFFICES ASSUME [RegistryNext]_<<vars, indices>> PROVE [Next]_vars
      OBVIOUS
    <2>1. ASSUME NEW p \in Players, NEW l \in Planets, InitPlayerIndexed(p, l)
          PROVE  Next
      BY <2>1 DEF InitPlayerIndexed, Next, FleetNext
    <2>2. ASSUME NEW p \in Players, NEW l \in Planets, RevealLocation(p, l)
          PROVE  [Next]_vars
      BY <2>2 DEF RevealLocation, Next, FleetNext
    <2>3. CASE OtherNext
      BY <2>3 DEF OtherNext
    <2>4. CASE UNCHANGED <<vars, indices>>
      BY <2>4
    <2> QED
      BY <2>1, <2>2, <2>3, <2>4 DEF RegistryNext
  <1> QED
    BY <1>1, <1>2, PTL DEF RegistrySpec, Spec

-----------------------------------------------------------------------------
(* Lists. *)

Lists(list, S) ==
    /\ {list[i] : i \in 1..Len(list)} = S
    /\ \A i, j \in 1..Len(list) : list[i] = list[j] => i = j

LEMMA NothingListed == Lists(<<>>, {})
  <1>1. Len(<<>>) = 0
    OBVIOUS
  <1>2. 1..0 = {}
    OBVIOUS
  <1> QED
    BY <1>1, <1>2 DEF Lists

LEMMA OneMoreListed ==
  ASSUME NEW T, NEW list \in Seq(T), NEW S, Lists(list, S), NEW e \in T, e \notin S
  PROVE  Append(list, e) \in Seq(T) /\ Lists(Append(list, e), S \cup {e})
  <1> DEFINE longer == Append(list, e)
             n      == Len(list)
  <1>1. /\ longer \in Seq(T) /\ n \in Nat /\ Len(longer) = n + 1
        /\ longer[n + 1] = e
        /\ \A i \in 1..n : longer[i] = list[i]
    OBVIOUS
  <1>2. \A i \in 1..n : list[i] \in S
    BY DEF Lists
  <1>3. \A x \in S : \E i \in 1..n : list[i] = x
    BY DEF Lists
  <1>4. \A i, j \in 1..n : list[i] = list[j] => i = j
    BY DEF Lists
  <1> HIDE DEF longer, n
  <1>5. \A i \in 1..(n + 1) : i = n + 1 \/ i \in 1..n
    BY <1>1
  <1>6. \A i, j \in 1..(n + 1) : longer[i] = longer[j] => i = j
    BY <1>1, <1>2, <1>4, <1>5
  <1>7. \A i \in 1..(n + 1) : longer[i] \in S \cup {e}
    BY <1>1, <1>2, <1>5
  <1>8. \A x \in S \cup {e} : \E i \in 1..(n + 1) : longer[i] = x
    <2>1. \A i \in 1..n : i \in 1..(n + 1)
      BY <1>1
    <2>2. n + 1 \in 1..(n + 1)
      BY <1>1
    <2> QED
      BY <1>1, <1>3, <2>1, <2>2
  <1>9. {longer[i] : i \in 1..(n + 1)} = S \cup {e}
    BY <1>7, <1>8
  <1> QED
    BY <1>1, <1>6, <1>9 DEF Lists, longer

-----------------------------------------------------------------------------
(* The invariant. *)

Initialized == {l \in Planets : planets[l].is_initialized}

Homes == {p \in Players : home_planets[p] # Nowhere}

Revealed == {l \in Planets : revealed[l] # Zero}

Revelation(l) == <<l, revealed[l]>>

Touched ==
    /\ touched_planet_ids \in Seq(Planets)
    /\ touched_planet_seen = Initialized
    /\ Lists(touched_planet_ids, Initialized)

Disclosed ==
    /\ revealed \in [Planets -> Players \cup {Zero}]
    /\ revealed_coords \in Seq(Planets \X Players)
    /\ revealed_seen = Revealed
    /\ Lists(revealed_coords, {Revelation(l) : l \in Revealed})
    /\ Revealed \subseteq Initialized

RInv == QInv /\ Touched /\ Disclosed /\ nullifiers = Initialized \cup Homes

LEMMA RInvExact == ASSUME RInv PROVE IndicesExact
  <1>1. Lists(revealed_coords,
              {<<l, revealed[l]>> : l \in {k \in Planets : revealed[k] # Zero}})
    BY DEF RInv, Disclosed, Revelation, Revealed
  <1>2. \A l \in Planets : revealed[l] # Zero => planets[l].is_initialized
    BY DEF RInv, Disclosed, Revealed, Initialized
  <1> QED
    BY <1>1, <1>2 DEF RInv, Touched, Lists, IndicesExact, Initialized, Homes

LEMMA RInit == ASSUME RegistryInit PROVE RInv
  <1>1. QInv
    BY QInit DEF RegistryInit
  <1>2. Initialized = {} /\ Homes = {} /\ Revealed = {}
    BY DEF RegistryInit, Init, NoPlanet, Initialized, Homes, Revealed
  <1>3. {Revelation(l) : l \in {}} = {}
    OBVIOUS
  <1>4. <<>> \in Seq(Planets) /\ <<>> \in Seq(Planets \X Players)
    OBVIOUS
  <1>5. revealed \in [Planets -> Players \cup {Zero}]
    BY DEF RegistryInit
  <1> QED
    BY <1>1, <1>2, <1>3, <1>4, <1>5, NothingListed
       DEF RInv, Touched, Disclosed, RegistryInit

-----------------------------------------------------------------------------
(* What the game does to what is listed. *)

\* Which transactions change the homes, and which send.
LEMMA Kinds ==
  ASSUME Next
  PROVE  \/ \E p \in Players, l \in Planets : InitPlayer(p, l)
         \/ /\ UNCHANGED home_planets
            /\ \/ UNCHANGED next_arrival_id
               \/ \E p \in Players, from, to \in Planets, abandoning \in BOOLEAN :
                    SendFleet(p, from, to, abandoning)
               \/ \E p \in Players, from, to \in Planets, ship \in ShipIds :
                    SendShip(p, from, to, ship)
  <1>1. CASE NextBlock
    BY <1>1 DEF NextBlock, playerVars
  <1>2. CASE FleetNext
    <2>1. ASSUME NEW l \in Planets, RevealNewPlanet(l)
          PROVE  UNCHANGED <<home_planets, next_arrival_id>>
      BY <2>1 DEF RevealNewPlanet, playerVars
    <2>2. ASSUME NEW p, NEW from, NEW to, NEW abandoning,
                 SendFleet(p, from, to, abandoning)
          PROVE  UNCHANGED home_planets
      BY <2>2 DEF SendFleet
    <2>3. ASSUME NEW id, ResolveArrival(id)
          PROVE  UNCHANGED <<home_planets, next_arrival_id>>
      BY <2>3 DEF ResolveArrival, playerVars
    <2>4. ASSUME NEW l, ResolvePlanet(l)
          PROVE  UNCHANGED <<home_planets, next_arrival_id>>
      BY <2>4 DEF ResolvePlanet, playerVars
    <2>5. ASSUME NEW p, NEW l, NEW b, UpgradePlanet(p, l, b)
          PROVE  UNCHANGED <<home_planets, next_arrival_id>>
      BY <2>5 DEF UpgradePlanet, playerVars
    <2> QED
      BY <1>2, <2>1, <2>2, <2>3, <2>4, <2>5 DEF FleetNext
  <1>3. CASE ShipNext
    <2>1. ASSUME NEW p, NEW l, GiveSpaceShips(p, l)
          PROVE  UNCHANGED <<home_planets, next_arrival_id>>
      BY <2>1 DEF GiveSpaceShips
    <2>2. ASSUME NEW p, NEW from, NEW to, NEW ship, SendShip(p, from, to, ship)
          PROVE  UNCHANGED home_planets
      BY <2>2 DEF SendShip, playerVars
    <2>3. ASSUME NEW l, NEW id, ActivateCrescent(l, id)
          PROVE  UNCHANGED <<home_planets, next_arrival_id>>
      BY <2>3 DEF ActivateCrescent, playerVars
    <2> QED
      BY <1>3, <2>1, <2>2, <2>3 DEF ShipNext
  <1>4. CASE ArtifactNext
    <2>1. ASSUME NEW p, NEW l, ProspectPlanet(p, l) \/ DeactivateArtifact(p, l)
          PROVE  UNCHANGED <<home_planets, next_arrival_id>>
      BY <2>1 DEF ProspectPlanet, DeactivateArtifact, playerVars
    <2>2. ASSUME NEW p, NEW l, NEW type, NEW rarity, FindArtifact(p, l, type, rarity)
          PROVE  UNCHANGED <<home_planets, next_arrival_id>>
      BY <2>2 DEF FindArtifact, playerVars
    <2>3. ASSUME NEW p, NEW l, NEW id,
                 DepositArtifact(p, l, id) \/ WithdrawArtifact(p, l, id)
          PROVE  UNCHANGED <<home_planets, next_arrival_id>>
      BY <2>3 DEF DepositArtifact, WithdrawArtifact, playerVars
    <2>4. ASSUME NEW p, NEW l, NEW id, NEW target, ActivateArtifact(p, l, id, target)
          PROVE  UNCHANGED <<home_planets, next_arrival_id>>
      BY <2>4 DEF ActivateArtifact, playerVars
    <2> QED
      BY <1>4, <2>1, <2>2, <2>3, <2>4 DEF ArtifactNext
  <1> QED
    BY <1>1, <1>2, <1>3, <1>4 DEF Next

LEMMA NewPlanetThere ==
  ASSUME QInv, NEW l \in Planets, NEW owner, NEW is_home,
         planets' = [planets EXCEPT ![l] = NewPlanet(l, owner, is_home)]
  PROVE  Initialized' = Initialized \cup {l}
  <1> DEFINE new == NewPlanet(l, owner, is_home)
  <1>1. new.is_initialized
    BY NewPlanetClock
  <1> HIDE DEF new
  <1>2. \A k \in Planets : planets'[k] = IF k = l THEN new ELSE planets[k]
    BY QTyped DEF new
  <1> QED
    BY <1>1, <1>2 DEF Initialized

LEMMA HomeTaken ==
  ASSUME QInv, NEW player \in Players, NEW l \in Planets, InitPlayer(player, l)
  PROVE  /\ Initialized' = Initialized \cup {l} /\ l \notin Initialized
         /\ Homes' = Homes \cup {player}
  <1>1. /\ planets' = [planets EXCEPT ![l] = NewPlanet(l, player, TRUE)]
        /\ home_planets' = [home_planets EXCEPT ![player] = l]
        /\ ~planets[l].is_initialized
    BY DEF InitPlayer, CanBeHome
  <1>2. home_planets \in [Players -> Planets \cup {Nowhere}] /\ l # Nowhere
    BY SentinelAssumption DEF QInv, TInv, TypeOK
  <1>3. \A p \in Players : home_planets'[p] = IF p = player THEN l ELSE home_planets[p]
    BY <1>1, <1>2
  <1>4. Homes' = Homes \cup {player}
    BY <1>2, <1>3 DEF Homes
  <1>5. Initialized' = Initialized \cup {l}
    BY <1>1, NewPlanetThere
  <1> QED
    BY <1>1, <1>4, <1>5 DEF Initialized

\* Where the arrival that a transaction sends is bound is all it initializes.
LEMMA OthersTouch ==
  ASSUME QInv, Next, next_arrival_id' # next_arrival_id
  PROVE  LET to == arrivals'[next_arrival_id].to_planet IN
         /\ to \in Planets
         /\ Initialized' = Initialized \cup {to}
         /\ Homes' = Homes
  <1>1. ASSUME NEW p \in Players, NEW l \in Planets, InitPlayer(p, l)
        PROVE  FALSE
    BY <1>1 DEF InitPlayer
  <1>2. UNCHANGED home_planets /\ \E to \in Planets : Sends(to)
    BY <1>1, Kinds, QSendFleet, QSendShip
  <1>3. PICK to \in Planets : Sends(to)
    BY <1>2
  <1>4. arrivals'[next_arrival_id].to_planet = to
    BY <1>3 DEF Sends
  <1>5. Initialized' = Initialized \cup {to}
    BY <1>3 DEF Sends, Initialized
  <1>6. Homes' = Homes
    BY <1>2 DEF Homes
  <1> QED
    BY <1>4, <1>5, <1>6

LEMMA OthersKeep ==
  ASSUME QInv, Next, ~Initializes
  PROVE  Initialized' = Initialized /\ Homes' = Homes
  <1>1. Initialized' = Initialized
    <2>1. PlanetsStay
      BY QNext DEF QStep
    <2> QED
      BY <2>1 DEF PlanetsStay, Initializes, Initialized
  <1>2. ASSUME NEW p \in Players, NEW l \in Planets, InitPlayer(p, l)
        PROVE  FALSE
    BY <1>1, <1>2, HomeTaken
  <1>3. Homes' = Homes
    BY <1>2, Kinds DEF Homes
  <1> QED
    BY <1>1, <1>3

-----------------------------------------------------------------------------
(* Steps. *)

LEMMA TouchedOne ==
  ASSUME Touched, NEW l \in Planets, Initialized' = Initialized \cup {l},
         IndexTouchedPlanet(l)
  PROVE  Touched'
  <1>1. CASE l \in Initialized
    <2>1. UNCHANGED <<touched_planet_ids, touched_planet_seen>>
      BY <1>1 DEF Touched, IndexTouchedPlanet
    <2>2. Initialized' = Initialized
      BY <1>1
    <2> QED
      BY <2>1, <2>2 DEF Touched, Lists
  <1>2. CASE l \notin Initialized
    <2>1. /\ touched_planet_ids' = Append(touched_planet_ids, l)
          /\ touched_planet_seen' = touched_planet_seen \cup {l}
      BY <1>2 DEF Touched, IndexTouchedPlanet
    <2>2. /\ Append(touched_planet_ids, l) \in Seq(Planets)
          /\ Lists(Append(touched_planet_ids, l), Initialized \cup {l})
      BY <1>2, OneMoreListed DEF Touched
    <2>3. Lists(touched_planet_ids', Initialized')
      BY <2>1, <2>2
    <2> QED
      BY <2>1, <2>2, <2>3 DEF Touched, Lists
  <1> QED
    BY <1>1, <1>2

LEMMA TouchedKept ==
  ASSUME Touched, Initialized' = Initialized,
         UNCHANGED <<touched_planet_ids, touched_planet_seen>>
  PROVE  Touched'
  BY DEF Touched, Lists

LEMMA DisclosedKept ==
  ASSUME Disclosed, Initialized \subseteq Initialized',
         UNCHANGED <<revealed, revealed_coords, revealed_seen>>
  PROVE  Disclosed'
  BY DEF Disclosed, Lists, Revealed, Revelation

LEMMA DisclosedOne ==
  ASSUME Disclosed, NEW player \in Players, NEW l \in Planets,
         Initialized' = Initialized \cup {l}, revealed[l] = Zero,
         revealed' = [revealed EXCEPT ![l] = player],
         IndexRevealedCoords(l, player)
  PROVE  Disclosed'
  <1>1. player # Zero
    BY SentinelAssumption
  <1>2. \A k \in Planets : revealed'[k] = IF k = l THEN player ELSE revealed[k]
    BY DEF Disclosed
  <1>3. Revealed' = Revealed \cup {l} /\ l \notin Revealed
    BY <1>1, <1>2 DEF Revealed
  <1>4. /\ revealed_coords' = Append(revealed_coords, <<l, player>>)
        /\ revealed_seen' = revealed_seen \cup {l}
    BY <1>3 DEF Disclosed, IndexRevealedCoords
  <1> DEFINE known == {Revelation(k) : k \in Revealed}
             new   == <<l, player>>
  <1>5. new \in Planets \X Players /\ new \notin known
    BY <1>3 DEF Revelation
  <1>6. /\ Append(revealed_coords, new) \in Seq(Planets \X Players)
        /\ Lists(Append(revealed_coords, new), known \cup {new})
    <2> HIDE DEF new, known
    <2>1. revealed_coords \in Seq(Planets \X Players) /\ Lists(revealed_coords, known)
      BY DEF Disclosed, known
    <2> QED
      BY <1>5, <2>1, OneMoreListed
  <1>7. {<<k, revealed'[k]>> : k \in Revealed'} = known \cup {new}
    <2>1. \A k \in Revealed : revealed'[k] = revealed[k]
      BY <1>2, <1>3 DEF Revealed
    <2>2. revealed'[l] = player
      BY <1>2
    <2> QED
      BY <1>3, <2>1, <2>2 DEF Revelation
  <1>8. Lists(revealed_coords', {<<k, revealed'[k]>> : k \in Revealed'})
    BY <1>4, <1>6, <1>7
  <1>9. revealed' \in [Planets -> Players \cup {Zero}]
    BY DEF Disclosed
  <1>10. Revealed' \subseteq Initialized'
    BY <1>3 DEF Disclosed
  <1>11. revealed_coords' \in Seq(Planets \X Players) /\ revealed_seen' = Revealed'
    BY <1>3, <1>4, <1>6 DEF Disclosed
  <1> QED
    BY <1>8, <1>9, <1>10, <1>11 DEF Disclosed, Lists, Revelation

LEMMA RInitPlayer ==
  ASSUME RInv, NEW player \in Players, NEW l \in Planets, InitPlayerIndexed(player, l)
  PROVE  Touched' /\ Disclosed' /\ nullifiers' = (Initialized \cup Homes)'
  <1>1. /\ Initialized' = Initialized \cup {l}
        /\ Homes' = Homes \cup {player}
    BY HomeTaken DEF RInv, InitPlayerIndexed
  <1>2. Touched'
    BY <1>1, TouchedOne DEF RInv, InitPlayerIndexed
  <1>3. Disclosed'
    BY <1>1, DisclosedKept DEF RInv, InitPlayerIndexed
  <1> QED
    BY <1>1, <1>2, <1>3 DEF RInv, InitPlayerIndexed, PushNullifiers

LEMMA RRevealLocation ==
  ASSUME RInv, NEW player \in Players, NEW l \in Planets, RevealLocation(player, l)
  PROVE  Touched' /\ Disclosed' /\ nullifiers' = (Initialized \cup Homes)'
  <1>1. /\ Initialized' = Initialized \cup {l} /\ Homes' = Homes
        /\ nullifiers' = nullifiers \cup {l}
    <2>1. CASE planets[l].is_initialized
      <3>1. UNCHANGED <<planets, home_planets, nullifiers>> /\ l \in Initialized
        BY <2>1 DEF RevealLocation, vars, fleetVars, playerVars, Initialized
      <3> QED
        BY <3>1 DEF RInv, Initialized, Homes
    <2>2. CASE ~planets[l].is_initialized
      <3>1. RevealNewPlanet(l) /\ nullifiers' = nullifiers \cup {l}
        BY <2>2 DEF RevealLocation, PushNullifiers
      <3>2. Initialized' = Initialized \cup {l}
        BY <3>1, NewPlanetThere DEF RInv, RevealNewPlanet
      <3> QED
        BY <3>1, <3>2 DEF RevealNewPlanet, playerVars, Homes
    <2> QED
      BY <2>1, <2>2
  <1>2. Touched'
    BY <1>1, TouchedOne DEF RInv, RevealLocation
  <1>3. Disclosed'
    BY <1>1, DisclosedOne DEF RInv, RevealLocation
  <1> QED
    BY <1>1, <1>2, <1>3 DEF RInv

LEMMA ROthers ==
  ASSUME RInv, OtherNext
  PROVE  Touched' /\ Disclosed' /\ nullifiers' = (Initialized \cup Homes)'
  <1>1. CASE next_arrival_id' # next_arrival_id
    <2> DEFINE to == arrivals'[next_arrival_id].to_planet
    <2>1. to \in Planets /\ Initialized' = Initialized \cup {to} /\ Homes' = Homes
      BY <1>1, OthersTouch DEF RInv, OtherNext
    <2>2. Touch(to)
      BY <1>1 DEF OtherNext
    <2> HIDE DEF to
    <2>3. UNCHANGED <<revealed, revealed_coords, revealed_seen>>
      BY <2>2 DEF Touch
    <2>4. CASE planets[to].is_initialized
      <3>1. Initialized' = Initialized
        BY <2>1, <2>4 DEF Initialized
      <3>2. UNCHANGED <<nullifiers, touched_planet_ids, touched_planet_seen>>
        BY <2>2, <2>4 DEF Touch
      <3> QED
        BY <2>1, <2>3, <3>1, <3>2, TouchedKept, DisclosedKept DEF RInv
    <2>5. CASE ~planets[to].is_initialized
      <3>1. nullifiers' = nullifiers \cup {to} /\ IndexTouchedPlanet(to)
        BY <2>2, <2>5 DEF Touch, PushNullifiers
      <3> QED
        BY <2>1, <2>3, <3>1, TouchedOne, DisclosedKept DEF RInv
    <2> QED
      BY <2>4, <2>5
  <1>2. CASE next_arrival_id' = next_arrival_id
    <2>1. Initialized' = Initialized /\ Homes' = Homes
      BY <1>2, OthersKeep DEF RInv, OtherNext
    <2>2. UNCHANGED indices
      BY <1>2 DEF OtherNext
    <2> QED
      BY <2>1, <2>2, TouchedKept, DisclosedKept DEF RInv, indices
  <1> QED
    BY <1>1, <1>2

LEMMA RStutter ==
  ASSUME RInv, UNCHANGED <<vars, indices>>
  PROVE  Touched' /\ Disclosed' /\ nullifiers' = (Initialized \cup Homes)'
  <1>1. Initialized' = Initialized /\ Homes' = Homes
    BY DEF vars, fleetVars, playerVars, Initialized, Homes
  <1> QED
    BY <1>1, TouchedKept, DisclosedKept DEF RInv, indices

-----------------------------------------------------------------------------

THEOREM RegistryInductive == RegistrySpec => []RInv
  <1>1. RInv /\ QInv' /\ [RegistryNext]_<<vars, indices>> => RInv'
    <2> SUFFICES ASSUME RInv, QInv', [RegistryNext]_<<vars, indices>>
                 PROVE  Touched' /\ Disclosed' /\ nullifiers' = (Initialized \cup Homes)'
      BY DEF RInv
    <2> QED
      BY RInitPlayer, RRevealLocation, ROthers, RStutter DEF RegistryNext
  <1>2. RegistrySpec => []QInv
    BY RegistryImplements, QueuesInductive
  <1>3. RegistryInit => RInv
    BY RInit
  <1> QED
    BY <1>1, <1>2, <1>3, PTL DEF RegistrySpec

\* Whatever touches a planet first, the lists of the contract hold every planet of
\* the game once and every revealed one with who revealed it, and the nullifiers
\* are of what is there.
THEOREM ListsExact == RegistrySpec => []IndicesExact
  <1>1. RInv => IndicesExact
    BY RInvExact
  <1> QED
    BY <1>1, RegistryInductive, PTL

=============================================================================
