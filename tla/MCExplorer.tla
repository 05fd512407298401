----------------------------- MODULE MCExplorer -----------------------------
(***************************************************************************)
(* Values for the constants of Explorer: planets in the squares around   *)
(* the player's home, and the maps around it that earlier sessions left.    *)
(***************************************************************************)
EXTENDS Explorer

At(x, y, side) == [x |-> x, y |-> y, side |-> side]

MCHome == At(0, 0, 1)

MCPlanets == {<<0, 0, 0>>, <<0, 0, 1>>, <<1, 1, 1>>, <<0, -1, 0>>}

\* One of the four squares of the world, and what completes two larger squares
\* with the first chunk the player explores.
MCSaved == {At(-1, -1, 1), At(1, 0, 1), At(0, 1, 1), At(1, 1, 1),
            At(2, 0, 2), At(0, 2, 2), At(2, 2, 2)}

\* The smaller of these.
MCImports == {At(0, 0, 2)}

=============================================================================
