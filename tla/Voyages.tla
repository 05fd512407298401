------------------------------ MODULE Voyages ------------------------------
(***************************************************************************)
(* What the arrival queues of DarkForest promise, with no word of slots,   *)
(* buckets, ids in slots, clocks of planets or rounds of landing: whatever *)
(* is sent sails until it lands; it lands once, not before it is due, and  *)
(* no later than anything that is due after it at the same planet; and     *)
(* whoever sends a voyage finds both of its ends with nothing left due.    *)
(***************************************************************************)
EXTENDS Integers

CONSTANTS
    Planets,
    Berths,         \* of a planet: one for each voyage on its way there
    MaxArrivals,    \* the bounds of the model
    MaxBlock

VARIABLES now, sailing, next

vars == <<now, sailing, next>>

Init ==
    /\ now = 1
    /\ sailing = {}
    /\ next = 1

Due(v) == v.at <= now

\* What may land together: voyages that are due, and with each of them all that
\* were due before it at its planet.
MayLand(S) ==
    \A v \in S :
        /\ Due(v)
        /\ \A u \in sailing : u.to = v.to /\ u.at < v.at => u \in S

Tick ==
    /\ now < MaxBlock
    /\ now' = now + 1
    /\ UNCHANGED <<sailing, next>>

Land ==
    \E S \in SUBSET sailing :
        /\ MayLand(S)
        /\ sailing' = sailing \ S
        /\ UNCHANGED <<now, next>>

\* Those in S can have a berth each.
Moored(S) == \E berth \in [S -> Berths] : \A u, v \in S : berth[u] = berth[v] => u = v

\* One voyage leaves, after what was due at its ends has landed.
Leave ==
    \E S \in SUBSET sailing, from, to \in Planets, at \in (now + 1)..MaxBlock :
        /\ next \in 1..MaxArrivals
        /\ MayLand(S)
        /\ \A v \in sailing \ S : v.to \in {from, to} => ~Due(v)
        /\ sailing' = (sailing \ S) \cup
                        {[id |-> next, from |-> from, to |-> to, at |-> at]}
        /\ Moored({v \in sailing' : v.to = to})
        /\ next' = next + 1
        /\ UNCHANGED now

Next == Tick \/ Land \/ Leave

Spec == Init /\ [][Next]_vars

=============================================================================
