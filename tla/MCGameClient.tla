---------------------------- MODULE MCGameClient ----------------------------
EXTENDS GameClient

CONSTANTS p, q

Move(from, to) == [kind |-> "move", from |-> from, to |-> to]
Upgrade(l)     == [kind |-> "upgrade", from |-> l, to |-> l]
Reveal(l)      == [kind |-> "reveal", from |-> l, to |-> l]

MoveAndReveal  == {Move(p, q), Reveal(p)}
OnlyUpgrade    == {Upgrade(p)}

FromQ == {<<q, p>>}

=============================================================================
