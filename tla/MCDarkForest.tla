---------------------------- MODULE MCDarkForest ----------------------------
(***************************************************************************)
(* Values for the constants of DarkForest: a cfg names the planets of a    *)
(* run and what each is, this module gives them statistics.  They keep the *)
(* proportions that matter (a home holds more than its cap, a level-0      *)
(* planet is empty by default, defense divides unevenly), not the sizes.   *)
(***************************************************************************)
EXTENDS DFProperties, TLC

CONSTANTS Mines, Foundries, TradingPosts, Banks, Levelled,
          HomeCap, SilverCap

TypeAt(l) == CASE l \in Mines        -> "silver_mine"
               [] l \in Foundries    -> "foundry"
               [] l \in TradingPosts -> "trading_post"
               [] l \in Banks        -> "silver_bank"
               [] OTHER              -> "planet"

\* Level 0 is of type "planet" only (PLANET_TYPE_WEIGHTS).
LevelAt(l) == IF TypeAt(l) = "planet" /\ l \notin Levelled THEN 0 ELSE 2

MCGeography == [l \in Planets |->
    [planet_level |-> LevelAt(l), planet_type |-> TypeAt(l),
     max_upgrades |-> 3, space_junk |-> LevelAt(l) + 1]]

MCStats == [l \in Planets |-> [t \in PlanetTypes |->
    [population        |-> IF LevelAt(l) = 0 THEN 0 ELSE 1,
     population_cap    |-> HomeCap,
     population_growth |-> IF t = "silver_bank" THEN 0 ELSE 1,
     silver            |-> IF t = "silver_mine" THEN SilverCap \div 2 ELSE 0,
     silver_cap        |-> IF LevelAt(l) = 0 THEN 0 ELSE SilverCap,
     silver_growth     |-> IF t = "silver_mine" THEN 1 ELSE 0,
     defense           |-> IF LevelAt(l) = 0 THEN 50 ELSE 100]]]

MCBuffs == [t \in ArtifactTypes |-> [r \in Rarities |->
    [population_cap    |-> IF t = "monolith" THEN 200 ELSE 100,
     population_growth |-> IF t = "monolith" THEN 200 ELSE 100,
     defense           |-> CASE t = "planetary_shield" -> 200
                             [] t = "photoid_cannon"   -> 50
                             [] OTHER                  -> 100]]]

MCCooldown == [t \in ArtifactTypes |-> IF t = "monolith" THEN 0 ELSE 1]

MCSymmetry == Permutations(Players)

=============================================================================
