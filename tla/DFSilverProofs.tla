--------------------------- MODULE DFSilverProofs ---------------------------
(***************************************************************************)
(* Silver comes from nowhere: SilverAccounted of DFProperties, for every   *)
(* instance of DarkForest with finitely many planets and without what      *)
(* makes silver (Crescents, Whales and bloom filters).                     *)
(*                                                                         *)
(* The property compares three sums, so the sums come first: TotalOf is a  *)
(* fold, and that a fold adds what its operand says, in whatever order, is *)
(* proved by counting down the members still to add.  Then what a planet   *)
(* is worth, its silver and what its upgrades have cost less what it was   *)
(* given by nature up to the block of its clock: no refresh makes a planet *)
(* worth more (RefreshWorth), a landing makes it worth more by no more     *)
(* than what the arrival carried (LandedWorth), a departure less by what   *)
(* it takes along (SFleet).  So the worth of all planets and all arrivals  *)
(* together (Balance) never rises above the 0 it starts at.                *)
(***************************************************************************)
EXTENDS DFPlaceProofs

-----------------------------------------------------------------------------
(* Sums over finite sets. *)

\* The member that a fold takes out of a set.
One(s) == CHOOSE x \in s : TRUE

\* What g says of a set is the sum of f over it, as MapThenSumSet goes about it.
Adds(g, f, s) == g[s] = IF s = {} THEN 0 ELSE f[One(s)] + g[s \ {One(s)}]

Sums(g, f, S) ==
    g = [s \in SUBSET S |-> IF s = {} THEN 0 ELSE f[One(s)] + g[s \ {One(s)}]]

SumOver(f, S) == (CHOOSE g : Sums(g, f, S))[S]

LEMMA OneOf == ASSUME NEW s, s # {} PROVE One(s) \in s
  BY DEF One

\* A set of natural numbers that holds 0, and with each its successor, is all of them.
LEMMA Induction ==
  ASSUME NEW N, 0 \in N, \A n \in Nat : n \in N => n + 1 \in N
  PROVE  \A n \in Nat : n \in N
  <1> SUFFICES ASSUME NEW k \in Nat, k \notin N PROVE FALSE
    OBVIOUS
  <1> DEFINE out == {n \in Nat : n \notin N}
  <1>1. PICK n \in out : \A m \in out : n <= m
    <2> out \in SUBSET Nat /\ out # {}
      OBVIOUS
    <2> HIDE DEF out
    <2> QED
      BY LeastOfNats
  <1>2. n \in Nat /\ n # 0
    OBVIOUS
  <1>3. n - 1 \in Nat /\ n - 1 \in N /\ (n - 1) + 1 = n
    BY <1>1, <1>2
  <1> QED
    BY <1>2, <1>3

\* The sets of at most n members.
LEMMA Smaller ==
  ASSUME NEW S, IsFiniteSet(S), NEW s \in SUBSET S, s # {}, NEW n \in Nat,
         Cardinality(s) <= n + 1
  PROVE  /\ One(s) \in s /\ s \ {One(s)} \in SUBSET S
         /\ IsFiniteSet(s) /\ IsFiniteSet(s \ {One(s)})
         /\ Cardinality(s \ {One(s)}) \in Nat
         /\ Cardinality(s \ {One(s)}) <= n
  <1>1. One(s) \in s
    BY OneOf
  <1>2. IsFiniteSet(s)
    BY FS_Subset
  <1>3. Cardinality(s \ {One(s)}) = Cardinality(s) - 1 /\ IsFiniteSet(s \ {One(s)})
    BY <1>1, <1>2, FS_RemoveElement
  <1>4. Cardinality(s) \in Nat /\ Cardinality(s \ {One(s)}) \in Nat
    BY <1>2, <1>3, FS_CardinalityType
  <1> QED
    BY <1>1, <1>2, <1>3, <1>4

LEMMA SumsExist ==
  ASSUME NEW f, NEW S, IsFiniteSet(S)
  PROVE  \E g : Sums(g, f, S)
  <1> DEFINE N == {n \in Nat : \E g : \A s \in SUBSET S : Cardinality(s) <= n => Adds(g, f, s)}
  <1>1. 0 \in N
    <2> DEFINE g == [s \in SUBSET S |-> 0]
    <2>1. \A s \in SUBSET S : Cardinality(s) <= 0 => s = {}
      <3> TAKE s \in SUBSET S
      <3>1. IsFiniteSet(s)
        BY FS_Subset
      <3> QED
        BY <3>1, FS_CardinalityType, FS_EmptySet
    <2>2. \A s \in SUBSET S : Cardinality(s) <= 0 => Adds(g, f, s)
      BY <2>1 DEF Adds
    <2> QED
      BY <2>2
  <1>2. ASSUME NEW n \in Nat, n \in N PROVE n + 1 \in N
    <2>1. PICK g : \A s \in SUBSET S : Cardinality(s) <= n => Adds(g, f, s)
      BY <1>2
    <2> DEFINE h == [s \in SUBSET S |-> IF s = {} THEN 0 ELSE f[One(s)] + g[s \ {One(s)}]]
    <2>2. ASSUME NEW s \in SUBSET S, Cardinality(s) <= n + 1 PROVE Adds(h, f, s)
      <3>1. CASE s = {}
        BY <3>1 DEF Adds
      <3>2. CASE s # {}
        <4> DEFINE t == s \ {One(s)}
        <4>1. t \in SUBSET S /\ Cardinality(t) <= n
          BY <2>2, <3>2, Smaller
        <4>2. Adds(g, f, t)
          BY <2>1, <4>1
        <4>3. h[t] = g[t]
          BY <4>1, <4>2 DEF Adds
        <4> HIDE DEF t
        <4>4. h[s] = f[One(s)] + g[t]
          BY <3>2 DEF t
        <4> QED
          BY <3>2, <4>3, <4>4 DEF Adds, t
      <3> QED
        BY <3>1, <3>2
    <2> HIDE DEF h
    <2> QED
      BY <2>2
  <1> HIDE DEF N
  <1>3. \A n \in Nat : n \in N
    BY <1>1, <1>2, Induction
  <1>4. Cardinality(S) \in Nat
    BY FS_CardinalityType
  <1>5. PICK g : \A s \in SUBSET S : Cardinality(s) <= Cardinality(S) => Adds(g, f, s)
    BY <1>3, <1>4 DEF N
  <1>6. \A s \in SUBSET S : Adds(g, f, s)
    <2> TAKE s \in SUBSET S
    <2>1. Cardinality(s) <= Cardinality(S)
      BY FS_Subset
    <2> QED
      BY <1>5, <2>1
  <1> DEFINE h == [s \in SUBSET S |-> IF s = {} THEN 0 ELSE f[One(s)] + g[s \ {One(s)}]]
  <1>7. \A s \in SUBSET S : h[s] = g[s]
    BY <1>6 DEF Adds
  <1>8. \A s \in SUBSET S : s # {} => h[s \ {One(s)}] = g[s \ {One(s)}]
    BY <1>7
  <1>9. Sums(h, f, S)
    BY <1>8 DEF Sums
  <1> QED
    BY <1>9

\* What is added depends on what f is in the set, and on nothing else.
LEMMA SumsAgree ==
  ASSUME NEW S, NEW U, NEW T, IsFiniteSet(S), T \subseteq S, T \subseteq U,
         NEW f, NEW k, \A x \in T : f[x] = k[x],
         NEW g, NEW h, Sums(g, f, S), Sums(h, k, U)
  PROVE  g[T] = h[T]
  <1> DEFINE N == {n \in Nat : \A s \in SUBSET T : Cardinality(s) <= n => g[s] = h[s]}
  <1>1. \A s \in SUBSET T : IsFiniteSet(s) /\ Cardinality(s) \in Nat
    BY FS_Subset, FS_CardinalityType
  <1>2. \A s \in SUBSET T : Adds(g, f, s) /\ Adds(h, k, s)
    <2> TAKE s \in SUBSET T
    <2>1. s \in SUBSET S /\ s \in SUBSET U
      OBVIOUS
    <2>2. Adds(g, f, s)
      BY <2>1 DEF Adds, Sums
    <2>3. Adds(h, k, s)
      BY <2>1 DEF Adds, Sums
    <2> QED
      BY <2>2, <2>3
  <1>3. 0 \in N
    <2>1. \A s \in SUBSET T : Cardinality(s) <= 0 => s = {}
      BY <1>1, FS_EmptySet
    <2> QED
      BY <1>2, <2>1 DEF Adds
  <1>4. ASSUME NEW n \in Nat, n \in N PROVE n + 1 \in N
    <2>1. ASSUME NEW s \in SUBSET T, Cardinality(s) <= n + 1, s # {} PROVE g[s] = h[s]
      <3>1. One(s) \in T /\ s \ {One(s)} \in SUBSET T /\ Cardinality(s \ {One(s)}) <= n
        <4>1. IsFiniteSet(T)
          BY FS_Subset
        <4> QED
          BY <2>1, <4>1, Smaller
      <3>2. g[s \ {One(s)}] = h[s \ {One(s)}] /\ f[One(s)] = k[One(s)]
        BY <1>4, <3>1
      <3> QED
        BY <1>2, <2>1, <3>2 DEF Adds
    <2>2. \A s \in SUBSET T : Cardinality(s) <= n + 1 => g[s] = h[s]
      BY <1>2, <2>1 DEF Adds
    <2> QED
      BY <2>2
  <1> HIDE DEF N
  <1>5. \A n \in Nat : n \in N
    BY <1>3, <1>4, Induction
  <1>6. T \in SUBSET T /\ Cardinality(T) \in Nat /\ Cardinality(T) <= Cardinality(T)
    BY <1>1
  <1> QED
    BY <1>5, <1>6 DEF N

LEMMA SumIs ==
  ASSUME NEW S, IsFiniteSet(S), NEW f, NEW U, IsFiniteSet(U), S \subseteq U,
         NEW k, \A x \in S : f[x] = k[x], NEW g, Sums(g, k, U)
  PROVE  SumOver(f, S) = g[S]
  <1> DEFINE h == CHOOSE h : Sums(h, f, S)
  <1>1. Sums(h, f, S)
    BY SumsExist
  <1>2. SumOver(f, S) = h[S]
    BY DEF SumOver
  <1> HIDE DEF h
  <1> QED
    BY <1>1, <1>2, SumsAgree

LEMMA SumSame ==
  ASSUME NEW S, IsFiniteSet(S), NEW f, NEW k, \A x \in S : f[x] = k[x]
  PROVE  SumOver(f, S) = SumOver(k, S)
  <1>1. PICK g : Sums(g, k, S)
    BY SumsExist
  <1>2. SumOver(f, S) = g[S]
    BY <1>1, SumIs
  <1>3. SumOver(k, S) = g[S]
    BY <1>1, SumIs
  <1> QED
    BY <1>2, <1>3

LEMMA SumEmpty == ASSUME NEW f PROVE SumOver(f, {}) = 0
  <1>1. IsFiniteSet({})
    BY FS_EmptySet
  <1>2. PICK g : Sums(g, f, {})
    BY <1>1, SumsExist
  <1>3. SumOver(f, {}) = g[{}]
    BY <1>1, <1>2, SumIs
  <1>4. g[{}] = 0
    BY <1>2 DEF Sums
  <1> QED
    BY <1>3, <1>4

LEMMA SumOne ==
  ASSUME NEW S, IsFiniteSet(S), S # {}, NEW f
  PROVE  SumOver(f, S) = f[One(S)] + SumOver(f, S \ {One(S)})
  <1>1. PICK g : Sums(g, f, S)
    BY SumsExist
  <1>2. IsFiniteSet(S \ {One(S)}) /\ S \ {One(S)} \subseteq S
    BY FS_Subset
  <1>3. SumOver(f, S) = g[S] /\ SumOver(f, S \ {One(S)}) = g[S \ {One(S)}]
    BY <1>1, <1>2, SumIs
  <1>4. g[S] = f[One(S)] + g[S \ {One(S)}]
    BY <1>1 DEF Sums
  <1> QED
    BY <1>3, <1>4

\* Whichever member is taken out: the order of adding does not matter.
LEMMA SumRemove ==
  ASSUME NEW S, IsFiniteSet(S), NEW f, \A x \in S : f[x] \in Int
  PROVE  /\ SumOver(f, S) \in Int
         /\ \A x \in S : SumOver(f, S) = f[x] + SumOver(f, S \ {x})
  <1> DEFINE Fair(T) == /\ SumOver(f, T) \in Int
                        /\ \A x \in T : SumOver(f, T) = f[x] + SumOver(f, T \ {x})
             N == {n \in Nat : \A T \in SUBSET S : Cardinality(T) <= n => Fair(T)}
  <1>1. \A T \in SUBSET S : IsFiniteSet(T) /\ Cardinality(T) \in Nat
    BY FS_Subset, FS_CardinalityType
  <1>2. 0 \in N
    <2>1. \A T \in SUBSET S : Cardinality(T) <= 0 => T = {}
      BY <1>1, FS_EmptySet
    <2>2. Fair({})
      BY SumEmpty
    <2> HIDE DEF Fair
    <2> QED
      BY <2>1, <2>2
  <1>3. ASSUME NEW n \in Nat, n \in N PROVE n + 1 \in N
    <2>1. ASSUME NEW T \in SUBSET S, Cardinality(T) <= n + 1, T # {} PROVE Fair(T)
      <3> DEFINE a == One(T)
      <3>1. /\ a \in T /\ T \ {a} \in SUBSET S
            /\ Cardinality(T \ {a}) <= n
        BY <2>1, Smaller
      <3>2. SumOver(f, T) = f[a] + SumOver(f, T \ {a})
        BY <1>1, <2>1, SumOne
      <3> HIDE DEF a
      <3>3. Fair(T \ {a})
        BY <1>3, <3>1
      <3>4. f[a] \in Int
        BY <3>1
      <3>5. SumOver(f, T) \in Int
        BY <3>2, <3>3, <3>4
      <3>6. ASSUME NEW x \in T, x # a PROVE SumOver(f, T) = f[x] + SumOver(f, T \ {x})
        <4> DEFINE P == T \ {x}
                   Q == P \ {a}
        <4>1. SumOver(f, T \ {a}) = f[x] + SumOver(f, Q)
          <5>1. (T \ {a}) \ {x} = Q /\ x \in T \ {a}
            BY <3>6
          <5> QED
            BY <3>3, <5>1
        <4>2. Cardinality(P) <= n /\ P \in SUBSET S /\ a \in P
          <5>1. Cardinality(P) = Cardinality(T) - 1
            BY <1>1, <3>6, FS_RemoveElement
          <5>2. Cardinality(P) \in Nat /\ Cardinality(T) \in Nat
            BY <1>1
          <5> HIDE DEF P
          <5>3. Cardinality(P) <= n
            BY <2>1, <5>1, <5>2
          <5> QED
            BY <3>1, <3>6, <5>3 DEF P
        <4>3. Fair(P)
          BY <1>3, <4>2
        <4>4. SumOver(f, P) = f[a] + SumOver(f, Q)
          BY <4>2, <4>3
        <4>5. Cardinality(Q) <= n /\ Q \in SUBSET S
          <5>1. Cardinality(Q) <= Cardinality(P)
            BY <1>1, <4>2, FS_Subset
          <5> HIDE DEF P
          <5>2. Cardinality(Q) \in Nat /\ Cardinality(P) \in Nat /\ Q \in SUBSET S
            BY <1>1, <4>2
          <5> QED
            BY <4>2, <5>1, <5>2
        <4>6. SumOver(f, Q) \in Int
          BY <1>3, <4>5
        <4>7. f[x] \in Int
          OBVIOUS
        <4> HIDE DEF P, Q
        <4>8. SumOver(f, T) = f[x] + SumOver(f, P)
          BY <3>2, <3>4, <4>1, <4>4, <4>6, <4>7
        <4> QED
          BY <4>8 DEF P
      <3> QED
        BY <3>2, <3>5, <3>6
    <2>2. Fair({})
      BY SumEmpty
    <2> HIDE DEF Fair
    <2>3. \A T \in SUBSET S : Cardinality(T) <= n + 1 => Fair(T)
      BY <2>1, <2>2
    <2> QED
      BY <2>3
  <1> HIDE DEF N
  <1>4. Cardinality(S) \in N /\ Cardinality(S) <= Cardinality(S) /\ S \in SUBSET S
    BY <1>1, <1>2, <1>3, Induction
  <1> QED
    BY <1>4 DEF N

\* A sum of nothing but zeros.
LEMMA SumNothing ==
  ASSUME NEW S, IsFiniteSet(S), NEW f, \A x \in S : f[x] = 0
  PROVE  SumOver(f, S) = 0
  <1> DEFINE z == [x \in S |-> 0]
             g == [s \in SUBSET S |-> 0]
  <1>1. SumOver(f, S) = SumOver(z, S)
    BY SumSame
  <1>2. Sums(g, z, S)
    <2>1. \A s \in SUBSET S : s # {} => z[One(s)] = 0 /\ g[s \ {One(s)}] = 0
      BY OneOf
    <2> QED
      BY <2>1 DEF Sums
  <1>3. SumOver(z, S) = g[S]
    BY <1>2, SumIs
  <1> QED
    BY <1>1, <1>3

\* A sum when one of what is added changes.
LEMMA SumChange ==
  ASSUME NEW S, IsFiniteSet(S), NEW f, NEW k, NEW x \in S,
         \A y \in S : f[y] \in Int /\ k[y] \in Int,
         \A y \in S \ {x} : k[y] = f[y]
  PROVE  SumOver(k, S) = SumOver(f, S) + k[x] - f[x]
  <1> DEFINE T == S \ {x}
  <1>1. IsFiniteSet(T) /\ SumOver(k, T) = SumOver(f, T)
    BY FS_Subset, SumSame
  <1>2. SumOver(f, T) \in Int
    BY <1>1, SumRemove
  <1>3. SumOver(f, S) = f[x] + SumOver(f, T) /\ SumOver(k, S) = k[x] + SumOver(k, T)
    BY SumRemove
  <1> HIDE DEF T
  <1> QED
    BY <1>1, <1>2, <1>3

\* No summand being more than it was, nor is the sum.
LEMMA SumNoMore ==
  ASSUME NEW S, IsFiniteSet(S), NEW f, NEW k,
         \A x \in S : f[x] \in Int /\ k[x] \in Int /\ k[x] <= f[x]
  PROVE  SumOver(k, S) <= SumOver(f, S)
  <1> DEFINE Less(T) == SumOver(k, T) <= SumOver(f, T)
             N == {n \in Nat : \A T \in SUBSET S : Cardinality(T) <= n => Less(T)}
  <1>1. \A T \in SUBSET S : /\ IsFiniteSet(T) /\ Cardinality(T) \in Nat
                            /\ SumOver(k, T) \in Int /\ SumOver(f, T) \in Int
    <2> TAKE T \in SUBSET S
    <2>1. IsFiniteSet(T) /\ Cardinality(T) \in Nat
      BY FS_Subset, FS_CardinalityType
    <2>2. \A x \in T : f[x] \in Int /\ k[x] \in Int
      OBVIOUS
    <2> QED
      BY <2>1, <2>2, SumRemove
  <1>2. Less({})
    BY SumEmpty
  <1>3. 0 \in N
    <2>1. \A T \in SUBSET S : Cardinality(T) <= 0 => T = {}
      BY <1>1, FS_EmptySet
    <2> HIDE DEF Less
    <2> QED
      BY <1>2, <2>1
  <1>4. ASSUME NEW n \in Nat, n \in N PROVE n + 1 \in N
    <2>1. ASSUME NEW T \in SUBSET S, Cardinality(T) <= n + 1, T # {} PROVE Less(T)
      <3> DEFINE a == One(T)
                 R == T \ {a}
      <3>1. a \in T /\ R \in SUBSET S /\ Cardinality(R) <= n
        BY <2>1, Smaller
      <3>2. /\ SumOver(f, T) = f[a] + SumOver(f, R)
            /\ SumOver(k, T) = k[a] + SumOver(k, R)
        BY <1>1, <2>1, SumOne
      <3> HIDE DEF a, R
      <3>3. Less(R)
        BY <1>4, <3>1
      <3>4. f[a] \in Int /\ k[a] \in Int /\ k[a] <= f[a]
        BY <3>1
      <3> QED
        BY <1>1, <3>1, <3>2, <3>3, <3>4
    <2> HIDE DEF Less
    <2>2. \A T \in SUBSET S : Cardinality(T) <= n + 1 => Less(T)
      BY <1>2, <2>1
    <2> QED
      BY <2>2
  <1> HIDE DEF N
  <1>5. Cardinality(S) \in N /\ Cardinality(S) <= Cardinality(S) /\ S \in SUBSET S
    BY <1>1, <1>3, <1>4, Induction
  <1> QED
    BY <1>5 DEF N

-----------------------------------------------------------------------------
(* What a planet is worth. *)

\* What n upgrades cost, each a fifth of the cap more than the one before.
CostsAt(cap) == [k \in Nat |-> (cap * 20 * k) \div 100]

Spent(cap, n) == SumOver(CostsAt(cap), 1..n)

Created(l, planet) ==
    IF ~planet.is_initialized \/ planet.is_home_planet THEN 0
    ELSE LET default == DefaultStats[l][Geography[l].planet_type]
         IN  default.silver + default.silver_growth * (planet.last_updated - 1)

Worth(l, planet) ==
    planet.silver + Spent(planet.silver_cap, UpgradesOf(planet)) - Created(l, planet)

\* What the worth of a planet rests on: one never written has nothing, neither it
\* nor a home is a mine, and all others grow silver as nature has it.
Natural(l, planet) ==
    /\ ~planet.is_initialized => planet.silver = 0 /\ UpgradesOf(planet) = 0
    /\ ~planet.is_initialized \/ planet.is_home_planet =>
         planet.planet_type # "silver_mine"
    /\ planet.is_initialized /\ ~planet.is_home_planet =>
         planet.silver_growth =
           DefaultStats[l][Geography[l].planet_type].silver_growth

\* The planet is the same but for its population, silver and clock.
SameMint(planet, after) ==
    /\ after.is_initialized = planet.is_initialized
    /\ after.is_home_planet = planet.is_home_planet
    /\ after.planet_type = planet.planet_type
    /\ after.silver_cap = planet.silver_cap
    /\ after.silver_growth = planet.silver_growth
    /\ after.upgrades = planet.upgrades

LEMMA CostsNat == ASSUME NEW cap \in Nat, NEW k \in Nat PROVE CostsAt(cap)[k] \in Nat
  <1>1. cap * 20 \in Nat
    OBVIOUS
  <1>2. (cap * 20) * k \in Nat
    BY <1>1, TimesNat
  <1> QED
    BY <1>2, DivNat DEF CostsAt

LEMMA SpentInt == ASSUME NEW cap \in Nat, NEW n \in Nat PROVE Spent(cap, n) \in Int
  <1>1. IsFiniteSet(1..n)
    BY FS_Interval
  <1>2. \A k \in 1..n : CostsAt(cap)[k] \in Int
    BY CostsNat
  <1> QED
    BY <1>1, <1>2, SumRemove DEF Spent

LEMMA SpentOnNone == ASSUME NEW cap PROVE Spent(cap, 0) = 0
  <1>1. 1..0 = {}
    OBVIOUS
  <1> QED
    BY <1>1, SumEmpty DEF Spent

LEMMA SpentOnNext ==
  ASSUME NEW cap \in Nat, NEW n \in Nat
  PROVE  Spent(cap, n + 1) = Spent(cap, n) + CostsAt(cap)[n + 1]
  <1>1. IsFiniteSet(1..(n + 1))
    BY FS_Interval
  <1>2. \A k \in 1..(n + 1) : CostsAt(cap)[k] \in Int
    BY CostsNat
  <1>3. SumOver(CostsAt(cap), 1..(n + 1)) =
          CostsAt(cap)[n + 1] + SumOver(CostsAt(cap), 1..(n + 1) \ {n + 1})
    BY <1>1, <1>2, SumRemove
  <1>4. 1..(n + 1) \ {n + 1} = 1..n
    OBVIOUS
  <1>5. Spent(cap, n) \in Int /\ CostsAt(cap)[n + 1] \in Int
    BY <1>2, SpentInt
  <1>6. Spent(cap, n + 1) = CostsAt(cap)[n + 1] + Spent(cap, n)
    BY <1>3, <1>4, Zenon DEF Spent
  <1> QED
    BY <1>5, <1>6

LEMMA UpgradesNat == ASSUME NEW planet \in Planet PROVE UpgradesOf(planet) \in Nat
  BY DEF UpgradesOf, Planet, Branches

LEMMA DefaultSilver ==
  ASSUME NEW l \in Planets
  PROVE  LET default == DefaultStats[l][Geography[l].planet_type] IN
         /\ default.silver \in Nat /\ default.silver_growth \in Nat
         /\ default.silver_cap \in Nat
  <1>1. Geography[l].planet_type \in PlanetTypes
    BY StatsAssumption
  <1> QED
    BY <1>1, StatsAssumption

LEMMA WorthInt ==
  ASSUME NEW l \in Planets, NEW planet \in Planet
  PROVE  /\ Worth(l, planet) \in Int
         /\ Spent(planet.silver_cap, UpgradesOf(planet)) \in Int
         /\ Created(l, planet) \in Int
  <1>1. planet.silver \in Nat /\ planet.silver_cap \in Nat /\ planet.last_updated \in Nat
    BY DEF Planet
  <1>2. Spent(planet.silver_cap, UpgradesOf(planet)) \in Int
    BY <1>1, UpgradesNat, SpentInt
  <1>3. Created(l, planet) \in Int
    <2> DEFINE default == DefaultStats[l][Geography[l].planet_type]
    <2>1. default.silver \in Nat /\ default.silver_growth \in Nat
      BY DefaultSilver
    <2> HIDE DEF default
    <2>2. default.silver + default.silver_growth * (planet.last_updated - 1) \in Int
      BY <1>1, <2>1
    <2> QED
      BY <2>2 DEF Created, default
  <1> QED
    BY <1>1, <1>2, <1>3 DEF Worth

\* The clock moving from one block to a later one, and silver with it by no more
\* than what nature gives in that time.
LEMMA WorthNoMore ==
  ASSUME NEW l \in Planets, NEW planet \in Planet, NEW after \in Planet,
         SameMint(planet, after), Natural(l, planet), NEW gain \in Int,
         planet.last_updated <= after.last_updated,
         after.silver <= planet.silver + gain
           + (IF planet.planet_type = "silver_mine"
              THEN planet.silver_growth * (after.last_updated - planet.last_updated)
              ELSE 0)
  PROVE  Worth(l, after) <= Worth(l, planet) + gain
  <1> DEFINE growth == DefaultStats[l][Geography[l].planet_type].silver_growth
             first  == DefaultStats[l][Geography[l].planet_type].silver
             spent  == Spent(planet.silver_cap, UpgradesOf(planet))
             blocks == after.last_updated - planet.last_updated
  <1>1. /\ planet.silver \in Nat /\ after.silver \in Nat
        /\ planet.last_updated \in Nat /\ after.last_updated \in Nat
        /\ blocks \in Nat /\ planet.silver_growth \in Nat
    BY DEF Planet
  <1>2. growth \in Nat /\ first \in Nat
    BY DefaultSilver
  <1>3. spent \in Int
    BY WorthInt
  <1>4. Spent(after.silver_cap, UpgradesOf(after)) = spent
    BY DEF SameMint, UpgradesOf
  <1>5. CASE ~planet.is_initialized \/ planet.is_home_planet
    <2>1. Created(l, planet) = 0 /\ Created(l, after) = 0
      BY <1>5 DEF Created, SameMint
    <2>2. after.silver <= planet.silver + gain
      BY <1>1, <1>5 DEF Natural
    <2> HIDE DEF spent
    <2> QED
      BY <1>1, <1>3, <1>4, <2>1, <2>2 DEF Worth, spent
  <1>6. CASE planet.is_initialized /\ ~planet.is_home_planet
    <2>1. Created(l, planet) = first + growth * (planet.last_updated - 1)
      BY <1>6 DEF Created
    <2>2. Created(l, after) = first + growth * (after.last_updated - 1)
      BY <1>6 DEF Created, SameMint
    <2>3. planet.silver_growth = growth
      BY <1>6 DEF Natural
    <2> HIDE DEF growth, first, spent
    <2> DEFINE more == growth * blocks
    <2>4. more \in Nat /\ after.silver <= planet.silver + gain + more
      <3>1. more \in Nat
        BY <1>1, <1>2, TimesNat
      <3> QED
        BY <1>1, <2>3, <3>1
    <2>5. Created(l, after) = Created(l, planet) + more
      <3>1. growth * (after.last_updated - 1) =
              growth * (planet.last_updated - 1) + growth * blocks
        BY <1>1, <1>2
      <3>2. growth * (planet.last_updated - 1) \in Int
        BY <1>1, <1>2
      <3> HIDE DEF blocks
      <3> QED
        BY <1>2, <2>1, <2>2, <3>1, <3>2, <2>4
    <2>6. Created(l, planet) \in Int
      BY WorthInt
    <2> HIDE DEF more, blocks
    <2> QED
      BY <1>1, <1>3, <1>4, <2>4, <2>5, <2>6 DEF Worth, spent
  <1> QED
    BY <1>5, <1>6

\* The same without the passage of time: no more silver than what came in.
LEMMA WorthGain ==
  ASSUME NEW l \in Planets, NEW planet \in Planet, NEW after \in Planet,
         SameMint(planet, after), Natural(l, planet), NEW gain \in Int,
         planet.last_updated <= after.last_updated,
         after.silver <= planet.silver + gain
  PROVE  Worth(l, after) <= Worth(l, planet) + gain
  <1> DEFINE blocks == after.last_updated - planet.last_updated
  <1>1. /\ planet.silver \in Nat /\ after.silver \in Nat
        /\ blocks \in Nat /\ planet.silver_growth \in Nat
    BY DEF Planet
  <1>2. planet.silver_growth * blocks \in Nat
    BY <1>1, TimesNat
  <1> HIDE DEF blocks
  <1>3. after.silver <= planet.silver + gain
          + (IF planet.planet_type = "silver_mine"
             THEN planet.silver_growth * blocks ELSE 0)
    BY <1>1, <1>2
  <1> QED
    BY <1>3, WorthNoMore DEF blocks

LEMMA NaturalKept ==
  ASSUME NEW l, NEW planet, NEW after, SameMint(planet, after), Natural(l, planet),
         ~planet.is_initialized => after.silver = planet.silver
  PROVE  Natural(l, after)
  BY DEF SameMint, Natural, UpgradesOf

\* A refresh counts no block twice, and none without moving the clock over it.
LEMMA RefreshWorth ==
  ASSUME NEW l \in Planets, NEW planet \in Planet, Natural(l, planet),
         NEW pausers \in Nat, NEW when \in Nat
  PROVE  LET fresh == Refresh(planet, pausers, when) IN
         /\ fresh \in Planet /\ SameMint(planet, fresh) /\ Natural(l, fresh)
         /\ Worth(l, fresh) <= Worth(l, planet)
         /\ planet.last_updated <= fresh.last_updated
         /\ fresh.last_updated <= planet.last_updated \/ fresh.last_updated <= when
  <1> DEFINE blocks == when - planet.last_updated
             fresh  == Refresh(planet, pausers, when)
  <1>1. CASE ~planet.is_initialized \/ when <= planet.last_updated
    <2>1. fresh = planet
      BY <1>1 DEF Refresh
    <2>2. Worth(l, planet) \in Int /\ planet.last_updated \in Nat
      BY WorthInt DEF Planet
    <2> HIDE DEF fresh
    <2> QED
      BY <2>1, <2>2 DEF SameMint, fresh
  <1>2. CASE ~(~planet.is_initialized \/ when <= planet.last_updated)
    <2>1. blocks \in Nat /\ planet.last_updated \in Nat /\ planet.silver \in Nat
      BY <1>2 DEF Planet
    <2>2. fresh \in Planet /\ fresh.last_updated = when
      <3>1. planet.last_updated <= when /\ planet.is_initialized
        BY <1>2, <2>1
      <3> HIDE DEF blocks
      <3> QED
        BY <3>1, RefreshKeeps
    <2>3. fresh = IF planet.owner = Zero
                  THEN [planet EXCEPT !.last_updated = when]
                  ELSE [planet EXCEPT
                          !.population   = UpdatePopulation(planet, blocks, pausers),
                          !.silver       = UpdateSilver(planet, blocks),
                          !.last_updated = when]
      BY <1>2 DEF Refresh
    <2> HIDE DEF blocks, fresh
    <2>4. /\ SameMint(planet, fresh)
          /\ fresh.silver = IF planet.owner = Zero THEN planet.silver
                            ELSE UpdateSilver(planet, blocks)
      BY <2>3 DEF SameMint, Planet
    <2> DEFINE more == planet.silver_growth * blocks
    <2>5. more \in Nat
      BY <2>1, TimesNat DEF Planet
    <2>6. UpdateSilver(planet, blocks) <= planet.silver +
            (IF planet.planet_type = "silver_mine" THEN more ELSE 0)
      <3>1. planet.silver_cap \in Nat
        BY DEF Planet
      <3>2. UpdateSilver(planet, blocks) =
              IF planet.planet_type = "silver_mine" /\ planet.silver < planet.silver_cap
              THEN Least(planet.silver_cap, planet.silver + more)
              ELSE planet.silver
        BY DEF UpdateSilver
      <3> HIDE DEF more
      <3> QED
        BY <2>1, <2>5, <3>1, <3>2 DEF Least
    <2>7. fresh.silver <= planet.silver + 0 +
            (IF planet.planet_type = "silver_mine" THEN more ELSE 0)
      <3> HIDE DEF more
      <3> QED
        BY <2>1, <2>4, <2>5, <2>6
    <2>8. Worth(l, fresh) <= Worth(l, planet) + 0
      <3>1. fresh.last_updated - planet.last_updated = blocks
        BY <2>2 DEF blocks
      <3> QED
        BY <1>2, <2>1, <2>2, <2>4, <2>7, <3>1, WorthNoMore
    <2>9. Natural(l, fresh)
      BY <1>2, <2>4, NaturalKept
    <2>10. Worth(l, planet) \in Int
      BY WorthInt
    <2> QED
      BY <1>2, <2>1, <2>2, <2>4, <2>8, <2>9, <2>10 DEF fresh
  <1> QED
    BY <1>1, <1>2

LEMMA RefreshClock ==
  ASSUME NEW planet \in Planet, NEW pausers \in Nat, NEW when \in Nat,
         planet.is_initialized, planet.last_updated <= when
  PROVE  /\ Refresh(planet, pausers, when).last_updated = when
         /\ Refresh(planet, pausers, when).is_initialized
  BY RefreshKeeps

\* A landing brings in no more than what the arrival carried.
LEMMA LandedWorth ==
  ASSUME NEW l \in Planets, NEW planet \in Planet, Natural(l, planet),
         planet.is_initialized, NEW pausers \in Nat, NEW arrival \in Arrival,
         planet.last_updated <= arrival.arrival_block,
         Hostile(planet, arrival.player, arrival.arrival_type)
           => planet.defense # 0
  PROVE  LET landed == Landed(planet, pausers, arrival) IN
         /\ landed \in Planet /\ Natural(l, landed)
         /\ Worth(l, landed) <= Worth(l, planet) + arrival.silver_moved
  <1> DEFINE aged   == Refresh(planet, pausers, arrival.arrival_block)
             clash  == Clash(aged, arrival.player, arrival.pop_arriving,
                             arrival.arrival_type)
             landed == Landed(planet, pausers, arrival)
  <1>1. /\ arrival.player \in Players \cup {Zero}
        /\ arrival.pop_arriving \in Nat /\ arrival.silver_moved \in Nat
        /\ arrival.arrival_block \in Nat
    BY DEF Arrival, Addresses
  <1>2. landed \in Planet /\ landed.last_updated = arrival.arrival_block
    BY <1>1, LandedKeeps
  <1>3. /\ aged \in Planet /\ SameMint(planet, aged) /\ Natural(l, aged)
        /\ Worth(l, aged) <= Worth(l, planet)
    BY <1>1, RefreshWorth
  <1>4. aged.last_updated = arrival.arrival_block /\ aged.is_initialized
    BY <1>1, RefreshClock
  <1>5. landed = [aged EXCEPT
                    !.owner        = clash.owner,
                    !.population   = Capped(aged, pausers, clash.population),
                    !.silver       = Least(aged.silver + arrival.silver_moved,
                                           aged.silver_cap),
                    !.last_updated = arrival.arrival_block]
    BY DEF Landed
  <1> HIDE DEF aged, clash, landed
  <1>6. /\ SameMint(aged, landed)
        /\ landed.silver = Least(aged.silver + arrival.silver_moved, aged.silver_cap)
    BY <1>3, <1>5 DEF SameMint, Planet
  <1>7. landed.silver <= aged.silver + arrival.silver_moved
    <2>1. aged.silver \in Nat /\ aged.silver_cap \in Nat
      BY <1>3 DEF Planet
    <2> QED
      BY <1>1, <1>6, <2>1 DEF Least
  <1>8. Worth(l, landed) <= Worth(l, aged) + arrival.silver_moved
    <2>1. aged.last_updated <= landed.last_updated
      BY <1>1, <1>2, <1>4
    <2> QED
      BY <1>1, <1>2, <1>3, <1>6, <1>7, <2>1, WorthGain
  <1>9. Natural(l, landed)
    BY <1>3, <1>4, <1>6, NaturalKept
  <1>10. /\ Worth(l, landed) \in Int /\ Worth(l, aged) \in Int
         /\ Worth(l, planet) \in Int
    BY <1>2, <1>3, WorthInt
  <1> QED
    BY <1>1, <1>2, <1>3, <1>8, <1>9, <1>10 DEF landed

\* Buffs and ships leave what a planet is worth alone, but for a Whale.
LEMMA BuffWorth ==
  ASSUME NEW planet \in Planet, NEW buff \in BuffRecord
  PROVE  /\ SameMint(planet, BuffPlanet(planet, buff))
         /\ SameMint(planet, DebuffPlanet(planet, buff))
  BY DEF SameMint, BuffPlanet, DebuffPlanet, Planet

LEMMA ShipWorth ==
  ASSUME NEW planet \in Planet, NEW ship, ship # "whale", NEW present
  PROVE  /\ SameMint(planet, Docked(planet, ship, present))
         /\ SameMint(planet, Undocked(planet, ship, present))
  <1>1. [planet EXCEPT !.population_growth = planet.population_growth].silver_growth
          = planet.silver_growth
    BY DEF Planet
  <1> QED
    BY DEF SameMint, Docked, Undocked, Planet

LEMMA PlaceWorth ==
  ASSUME NEW l \in Planets, NEW planet \in Planet, NEW after,
         SamePlace(planet, after), SameMint(planet, after), Natural(l, planet)
  PROVE  Natural(l, after) /\ Worth(l, after) = Worth(l, planet)
  <1>1. Natural(l, after)
    BY NaturalKept DEF SamePlace
  <1> QED
    BY <1>1 DEF Worth, Created, SamePlace, SameMint, UpgradesOf

-----------------------------------------------------------------------------
(* All planets and all arrivals together. *)

\* What makes silver is not in the game.
NoMint == ShipTypes \cap {"crescent", "whale"} = {} /\ "bloom_filter" \notin ArtifactTypes

Worths(pl) == [l \in Planets |-> Worth(l, pl[l])]

OnTheWay(ar) == [id \in ArrivalIds |-> ar[id].silver_moved]

Balance(pl, ar) == SumOver(Worths(pl), Planets) + SumOver(OnTheWay(ar), ArrivalIds)

AllNatural(pl) == \A l \in Planets : Natural(l, pl[l])

\* What happened between w and x made no silver.
Frugal(w, x) ==
    AllNatural(w.planets) =>
      /\ AllNatural(x.planets)
      /\ Balance(x.planets, x.arrivals) <= Balance(w.planets, w.arrivals)

LEMMA ArrivalIdsFinite == IsFiniteSet(ArrivalIds)
  BY ArtifactAssumption, FS_Interval DEF ArrivalIds

LEMMA MovedInt ==
  ASSUME NEW ar \in [ArrivalIds -> Arrival]
  PROVE  \A b \in ArrivalIds : ar[b].silver_moved \in Int /\ OnTheWay(ar)[b] \in Int
  BY DEF OnTheWay, Arrival

LEMMA BalanceInt ==
  ASSUME IsFiniteSet(Planets), NEW pl \in [Planets -> Planet],
         NEW ar \in [ArrivalIds -> Arrival]
  PROVE  /\ SumOver(Worths(pl), Planets) \in Int
         /\ SumOver(OnTheWay(ar), ArrivalIds) \in Int
         /\ Balance(pl, ar) \in Int
  <1>1. \A l \in Planets : Worths(pl)[l] \in Int
    BY WorthInt DEF Worths
  <1>2. \A id \in ArrivalIds : OnTheWay(ar)[id] \in Int
    BY MovedInt
  <1>3. SumOver(Worths(pl), Planets) \in Int
    BY <1>1, SumRemove
  <1>4. SumOver(OnTheWay(ar), ArrivalIds) \in Int
    BY <1>2, ArrivalIdsFinite, SumRemove
  <1> QED
    BY <1>3, <1>4 DEF Balance

\* One planet changes.
LEMMA WorthsChange ==
  ASSUME IsFiniteSet(Planets), NEW pl \in [Planets -> Planet],
         NEW pm \in [Planets -> Planet], NEW l \in Planets,
         \A k \in Planets \ {l} : pm[k] = pl[k]
  PROVE  SumOver(Worths(pm), Planets) =
           SumOver(Worths(pl), Planets) + Worth(l, pm[l]) - Worth(l, pl[l])
  <1>1. \A k \in Planets : Worths(pl)[k] \in Int /\ Worths(pm)[k] \in Int
    BY WorthInt DEF Worths
  <1>2. \A k \in Planets \ {l} : Worths(pm)[k] = Worths(pl)[k]
    BY DEF Worths
  <1>3. SumOver(Worths(pm), Planets) =
          SumOver(Worths(pl), Planets) + Worths(pm)[l] - Worths(pl)[l]
    BY <1>1, <1>2, SumChange
  <1> QED
    BY <1>3 DEF Worths

\* One arrival changes.
LEMMA OnTheWayChange ==
  ASSUME NEW ar \in [ArrivalIds -> Arrival], NEW br \in [ArrivalIds -> Arrival],
         NEW a \in ArrivalIds, \A b \in ArrivalIds \ {a} : br[b] = ar[b]
  PROVE  SumOver(OnTheWay(br), ArrivalIds) =
           SumOver(OnTheWay(ar), ArrivalIds) + br[a].silver_moved - ar[a].silver_moved
  <1>1. \A b \in ArrivalIds : OnTheWay(ar)[b] \in Int /\ OnTheWay(br)[b] \in Int
    BY MovedInt
  <1>2. \A b \in ArrivalIds \ {a} : OnTheWay(br)[b] = OnTheWay(ar)[b]
    BY DEF OnTheWay
  <1>3. SumOver(OnTheWay(br), ArrivalIds) =
          SumOver(OnTheWay(ar), ArrivalIds) + OnTheWay(br)[a] - OnTheWay(ar)[a]
    <2> DEFINE f == OnTheWay(ar)
               k == OnTheWay(br)
    <2>1. \A y \in ArrivalIds : f[y] \in Int /\ k[y] \in Int
      BY <1>1
    <2>2. \A y \in ArrivalIds \ {a} : k[y] = f[y]
      BY <1>2
    <2> HIDE DEF f, k
    <2>3. SumOver(k, ArrivalIds) = SumOver(f, ArrivalIds) + k[a] - f[a]
      BY <2>1, <2>2, ArrivalIdsFinite, SumChange
    <2> QED
      BY <2>3 DEF f, k
  <1> QED
    BY <1>3 DEF OnTheWay

\* No planet is worth more.
LEMMA BalanceAll ==
  ASSUME IsFiniteSet(Planets), NEW pl \in [Planets -> Planet],
         NEW pm \in [Planets -> Planet], NEW ar \in [ArrivalIds -> Arrival],
         \A k \in Planets : pm[k] = pl[k] \/ Worth(k, pm[k]) <= Worth(k, pl[k])
  PROVE  Balance(pm, ar) <= Balance(pl, ar)
  <1>1. \A k \in Planets : Worths(pl)[k] \in Int /\ Worths(pm)[k] \in Int
                             /\ Worths(pm)[k] <= Worths(pl)[k]
    BY WorthInt DEF Worths
  <1>2. SumOver(Worths(pm), Planets) <= SumOver(Worths(pl), Planets)
    BY <1>1, SumNoMore
  <1> QED
    BY <1>2, BalanceInt DEF Balance

LEMMA BalanceOne ==
  ASSUME IsFiniteSet(Planets), NEW pl \in [Planets -> Planet],
         NEW pm \in [Planets -> Planet], NEW ar \in [ArrivalIds -> Arrival],
         NEW l \in Planets, \A k \in Planets \ {l} : pm[k] = pl[k],
         Worth(l, pm[l]) <= Worth(l, pl[l])
  PROVE  Balance(pm, ar) <= Balance(pl, ar)
  BY BalanceAll

\* Silver goes from a planet to an arrival, or back.
LEMMA BalanceBoth ==
  ASSUME IsFiniteSet(Planets), NEW pl \in [Planets -> Planet],
         NEW pm \in [Planets -> Planet], NEW ar \in [ArrivalIds -> Arrival],
         NEW br \in [ArrivalIds -> Arrival], NEW l \in Planets, NEW a \in ArrivalIds,
         \A k \in Planets \ {l} : pm[k] = pl[k],
         \A b \in ArrivalIds \ {a} : br[b] = ar[b],
         Worth(l, pm[l]) + br[a].silver_moved
           <= Worth(l, pl[l]) + ar[a].silver_moved
  PROVE  Balance(pm, br) <= Balance(pl, ar)
  <1>1. SumOver(Worths(pm), Planets) =
          SumOver(Worths(pl), Planets) + Worth(l, pm[l]) - Worth(l, pl[l])
    BY WorthsChange
  <1>2. SumOver(OnTheWay(br), ArrivalIds) =
          SumOver(OnTheWay(ar), ArrivalIds) + br[a].silver_moved - ar[a].silver_moved
    BY OnTheWayChange
  <1>3. /\ Worth(l, pm[l]) \in Int /\ Worth(l, pl[l]) \in Int
        /\ br[a].silver_moved \in Int /\ ar[a].silver_moved \in Int
    BY WorthInt, MovedInt
  <1>4. /\ SumOver(Worths(pl), Planets) \in Int
        /\ SumOver(OnTheWay(ar), ArrivalIds) \in Int
    BY BalanceInt
  <1> QED
    BY <1>1, <1>2, <1>3, <1>4 DEF Balance

-----------------------------------------------------------------------------
(* Landings. *)

LEMMA FrugalReflexive ==
  ASSUME IsFiniteSet(Planets), NEW w, TypedWorld(w) PROVE Frugal(w, w)
  <1>1. Balance(w.planets, w.arrivals) \in Int
    BY TypedParts, BalanceInt
  <1> QED
    BY <1>1 DEF Frugal

LEMMA FrugalTransitive ==
  ASSUME IsFiniteSet(Planets), NEW w, NEW x, NEW y,
         TypedWorld(w), TypedWorld(x), TypedWorld(y), Frugal(w, x), Frugal(x, y)
  PROVE  Frugal(w, y)
  <1>1. /\ Balance(w.planets, w.arrivals) \in Int
        /\ Balance(x.planets, x.arrivals) \in Int
        /\ Balance(y.planets, y.arrivals) \in Int
    BY TypedParts, BalanceInt
  <1> QED
    BY <1>1 DEF Frugal

\* A ship that lands changes nothing that silver depends on.
LEMMA UnloadWorth ==
  ASSUME NoMint, NEW w \in Worlds, NEW l \in Planets,
         NEW id \in ArtifactIds \cup {NoArtifact}
  PROVE  LET x == Unload(w, l, id) IN
         /\ \A k \in Planets \ {l} : x.planets[k] = w.planets[k]
         /\ x.planets[l] = w.planets[l] \/ /\ SamePlace(w.planets[l], x.planets[l])
                                           /\ SameMint(w.planets[l], x.planets[l])
  <1> DEFINE x == Unload(w, l, id)
             docked == Docked(w.planets[l], id[2], w.ship_counts[l][id[2]])
             after == [w.planets EXCEPT ![l] = docked]
  <1>1. x.planets = w.planets \/ /\ Affects(id, w.planets[l]) /\ id # NoArtifact
                                 /\ x.planets = after
    BY DEF Unload, Worlds
  <1>2. ASSUME Affects(id, w.planets[l])
        PROVE  SamePlace(w.planets[l], docked) /\ SameMint(w.planets[l], docked)
    <2>1. id[2] \in EffectShips /\ id[2] \in ShipTypes
      BY <1>2 DEF Affects, IsShip, ShipIds
    <2>2. id[2] # "whale"
      BY <2>1 DEF NoMint
    <2>3. w.planets[l] \in Planet /\ w.ship_counts[l][id[2]] \in Nat
      BY <2>1 DEF Worlds
    <2> QED
      BY <2>2, <2>3, DockedKeeps, ShipWorth
  <1>3. \A k \in Planets : after[k] = IF k = l THEN docked ELSE w.planets[k]
    BY DEF Worlds
  <1> HIDE DEF x, docked, after
  <1> QED
    BY <1>1, <1>2, <1>3 DEF x

LEMMA ExecuteFrugal ==
  ASSUME IsFiniteSet(Planets), NoMint, block \in Nat, NEW w, GoodWorld(w),
         NEW a \in ArrivalIds, CanLand(w, a)
  PROVE  Frugal(w, ExecuteArrival(w, a))
  <1> DEFINE arrival == w.arrivals[a]
             l       == arrival.to_planet
             cargo   == arrival.carried_artifact_id
             planet  == Landed(w.planets[l], Pausers(w, l), arrival)
             queue   == Cleared(w.planet_arrivals[l], a)
             landed  == [w EXCEPT !.planets[l] = planet,
                                  !.planet_arrivals[l] = queue,
                                  !.arrivals[a] = EmptyArrival]
             x       == ExecuteArrival(w, a)
  <1> SUFFICES ASSUME AllNatural(w.planets)
               PROVE  /\ AllNatural(x.planets)
                      /\ Balance(x.planets, x.arrivals)
                           <= Balance(w.planets, w.arrivals)
    BY DEF Frugal
  <1>1. /\ TypedWorld(w) /\ w \in Worlds /\ Alive(w, a)
        /\ w.planets \in [Planets -> Planet] /\ w.arrivals \in [ArrivalIds -> Arrival]
    BY TypedParts DEF GoodWorld, TypedWorld, CanLand, Alive
  <1>2. /\ arrival \in Arrival /\ l \in Planets
        /\ cargo \in ArtifactIds \cup {NoArtifact}
    BY <1>1 DEF TypedWorld, BoundIn, Alive, Arrival
  <1>3. /\ planet \in Planet /\ Natural(l, planet)
        /\ Worth(l, planet) <= Worth(l, w.planets[l]) + arrival.silver_moved
    <2>1. w.planets[l].is_initialized
      BY <1>1 DEF GoodWorld, Clocked
    <2>2. /\ w.planets[l].last_updated <= arrival.arrival_block
          /\ Hostile(w.planets[l], arrival.player, arrival.arrival_type)
               => w.planets[l].defense # 0
      BY DEF CanLand
    <2>3. w.planets[l] \in Planet /\ Pausers(w, l) \in Nat /\ Natural(l, w.planets[l])
      BY <1>1, <1>2, TypedParts DEF AllNatural
    <2> HIDE DEF l, arrival
    <2> QED
      BY <1>2, <2>1, <2>2, <2>3, LandedWorth
  <1>4. queue \in [Slots -> ArrivalIds \cup {0}]
    <2>1. w.planet_arrivals[l] \in [Slots -> ArrivalIds \cup {0}]
      BY <1>1, <1>2, TypedParts
    <2> QED
      BY <2>1, ClearedType
  <1>5. x = Unload(landed, l, cargo)
    BY DEF ExecuteArrival
  <1>6. cargo # NoArtifact => Holds(w.planet_artifacts[l], NoArtifact)
    BY DEF CanLand
  <1> HIDE DEF planet, queue, x
  <1>7. /\ landed \in Worlds
        /\ landed.arrivals = [w.arrivals EXCEPT ![a] = EmptyArrival]
        /\ landed.planets = [w.planets EXCEPT ![l] = planet]
        /\ landed.planet_artifacts = w.planet_artifacts
    BY <1>1, <1>2, <1>3, <1>4, EmptyArrivalType DEF Worlds
  <1> HIDE DEF landed
  <1>8. /\ \A k \in Planets : landed.planets[k] = IF k = l THEN planet ELSE w.planets[k]
        /\ \A b \in ArrivalIds :
             landed.arrivals[b] = IF b = a THEN EmptyArrival ELSE w.arrivals[b]
    BY <1>1, <1>7
  <1>9. /\ landed.planets \in [Planets -> Planet]
        /\ landed.arrivals \in [ArrivalIds -> Arrival]
    BY <1>7 DEF Worlds
  <1>10. /\ AllNatural(landed.planets)
         /\ Balance(landed.planets, landed.arrivals) <= Balance(w.planets, w.arrivals)
    <2>1. AllNatural(landed.planets)
      BY <1>3, <1>8 DEF AllNatural
    <2>2. EmptyArrival.silver_moved = 0
      BY DEF EmptyArrival
    <2>3. Worth(l, landed.planets[l]) + landed.arrivals[a].silver_moved
            <= Worth(l, w.planets[l]) + w.arrivals[a].silver_moved
      <3>1. landed.planets[l] = planet /\ landed.arrivals[a].silver_moved = 0
        BY <1>2, <1>8, <2>2
      <3>2. Worth(l, planet) \in Int
        BY <1>2, <1>3, WorthInt
      <3> HIDE DEF l
      <3> QED
        BY <1>3, <3>1, <3>2
    <2> HIDE DEF l, arrival
    <2>4. /\ \A k \in Planets \ {l} : landed.planets[k] = w.planets[k]
          /\ \A b \in ArrivalIds \ {a} : landed.arrivals[b] = w.arrivals[b]
      BY <1>8
    <2>5. Balance(landed.planets, landed.arrivals) <= Balance(w.planets, w.arrivals)
      BY <1>1, <1>2, <1>9, <2>3, <2>4, BalanceBoth
    <2> QED
      BY <2>1, <2>5
  <1> HIDE DEF l, cargo, arrival
  <1>11. /\ x \in Worlds /\ x.arrivals = landed.arrivals
         /\ x.planets \in [Planets -> Planet]
    <2>1. x \in Worlds /\ x.arrivals = landed.arrivals
      BY <1>2, <1>5, <1>6, <1>7, UnloadType
    <2> QED
      BY <2>1 DEF Worlds
  <1>12. /\ \A k \in Planets \ {l} : x.planets[k] = landed.planets[k]
         /\ x.planets[l] = landed.planets[l] \/
              /\ SamePlace(landed.planets[l], x.planets[l])
              /\ SameMint(landed.planets[l], x.planets[l])
    <2> DEFINE y == Unload(landed, l, cargo)
    <2>1. /\ \A k \in Planets \ {l} : y.planets[k] = landed.planets[k]
          /\ y.planets[l] = landed.planets[l] \/
               /\ SamePlace(landed.planets[l], y.planets[l])
               /\ SameMint(landed.planets[l], y.planets[l])
      BY <1>2, <1>7, UnloadWorth
    <2> QED
      BY <1>5, <2>1
  <1>13. Natural(l, x.planets[l]) /\ Worth(l, x.planets[l]) = Worth(l, landed.planets[l])
    <2>1. Natural(l, landed.planets[l]) /\ landed.planets[l] \in Planet
      BY <1>2, <1>9, <1>10 DEF AllNatural
    <2> QED
      BY <1>2, <1>12, <2>1, PlaceWorth
  <1>14. AllNatural(x.planets)
    BY <1>10, <1>12, <1>13 DEF AllNatural
  <1>15. Balance(x.planets, x.arrivals) <= Balance(landed.planets, landed.arrivals)
    <2>1. Worth(l, landed.planets[l]) \in Int
      BY <1>2, <1>9, WorthInt
    <2>2. Worth(l, x.planets[l]) <= Worth(l, landed.planets[l])
      BY <1>13, <2>1
    <2> QED
      BY <1>2, <1>9, <1>11, <1>12, <2>2, BalanceOne
  <1>16. /\ Balance(w.planets, w.arrivals) \in Int
         /\ Balance(landed.planets, landed.arrivals) \in Int
         /\ Balance(x.planets, x.arrivals) \in Int
    BY <1>1, <1>9, <1>11, BalanceInt
  <1> QED
    BY <1>10, <1>14, <1>15, <1>16

LEMMA RoundFrugal ==
  ASSUME IsFiniteSet(Planets), NoMint, block \in Nat, NEW w, GoodWorld(w),
         NEW l \in Planets
  PROVE  Frugal(w, Round(w, l)) /\ GoodWorld(Round(w, l))
  <1> DEFINE due == DueSlots(w, l, block)
             id  == EarliestId(w, l, due)
             x   == ExecuteArrival(w, id)
  <1>1. GoodWorld(Round(w, l)) /\ TypedWorld(w)
    BY RoundAfter DEF After, GoodWorld
  <1>2. CASE Done(w, l)
    BY <1>1, <1>2, FrugalReflexive DEF Round
  <1>3. CASE ~Done(w, l)
    <2>1. Round(w, l) = x /\ due # {} /\ w \in Worlds
      BY <1>3 DEF Round, Done, GoodWorld, TypedWorld
    <2>2. id \in ArrivalIds
      <3>1. /\ due \in SUBSET Slots
            /\ \A i \in due : w.planet_arrivals[l][i] \in ArrivalIds
        BY <2>1, DueIds
      <3> HIDE DEF due
      <3> QED
        BY <2>1, <3>1, EarliestFound
    <2> HIDE DEF id
    <2>3. CASE CanLand(w, id)
      BY <1>1, <2>1, <2>2, <2>3, ExecuteFrugal
    <2>4. CASE ~CanLand(w, id)
      <3>1. x = [w EXCEPT !.ok = FALSE]
        BY <2>4 DEF ExecuteArrival
      <3> HIDE DEF x
      <3>2. x.planets = w.planets /\ x.arrivals = w.arrivals
        BY <2>1, <3>1 DEF Worlds
      <3> QED
        BY <1>1, <2>1, <3>2, FrugalReflexive DEF Frugal
    <2> QED
      BY <2>3, <2>4
  <1> QED
    BY <1>2, <1>3

LEMMA ThreeRoundsFrugal ==
  ASSUME IsFiniteSet(Planets), NoMint, block \in Nat, NEW w, GoodWorld(w),
         NEW l \in Planets
  PROVE  Frugal(w, ThreeRounds(w, l)) /\ GoodWorld(ThreeRounds(w, l))
  <1> DEFINE x == Round(w, l)
             y == Round(x, l)
             z == Round(y, l)
  <1>1. Frugal(w, x) /\ GoodWorld(x)
    BY RoundFrugal
  <1> HIDE DEF x
  <1>2. Frugal(x, y) /\ GoodWorld(y)
    BY <1>1, RoundFrugal
  <1> HIDE DEF y
  <1>3. Frugal(y, z) /\ GoodWorld(z)
    BY <1>2, RoundFrugal
  <1> HIDE DEF z
  <1>4. Frugal(w, z)
    BY <1>1, <1>2, <1>3, FrugalTransitive DEF GoodWorld
  <1> QED
    BY <1>3, <1>4 DEF ThreeRounds, x, y, z

LEMMA ProcessFrugal ==
  ASSUME IsFiniteSet(Planets), NoMint, block \in Nat, NEW w, GoodWorld(w),
         NEW l \in Planets
  PROVE  Frugal(w, ProcessPending(w, l)) /\ GoodWorld(ProcessPending(w, l))
  <1>1. CASE Done(w, l)
    BY <1>1, FrugalReflexive DEF ProcessPending, Done, GoodWorld
  <1>2. CASE ~Done(w, l)
    <2> DEFINE a == ThreeRounds(w, l)
               b == ThreeRounds(a, l)
               c == ThreeRounds(b, l)
               d == ThreeRounds(c, l)
    <2>1. Frugal(w, a) /\ GoodWorld(a)
      BY ThreeRoundsFrugal
    <2> HIDE DEF a
    <2>2. Frugal(a, b) /\ GoodWorld(b)
      BY <2>1, ThreeRoundsFrugal
    <2> HIDE DEF b
    <2>3. Frugal(b, c) /\ GoodWorld(c)
      BY <2>2, ThreeRoundsFrugal
    <2> HIDE DEF c
    <2>4. Frugal(c, d) /\ GoodWorld(d)
      BY <2>3, ThreeRoundsFrugal
    <2> HIDE DEF d
    <2>5. Frugal(w, c)
      BY <2>1, <2>2, <2>3, FrugalTransitive DEF GoodWorld
    <2>6. Frugal(w, d)
      BY <2>3, <2>4, <2>5, FrugalTransitive DEF GoodWorld
    <2> QED
      BY <1>2, <2>4, <2>6 DEF ProcessPending, a, b, c, d
  <1> QED
    BY <1>1, <1>2

LEMMA SettledFrugal ==
  ASSUME IsFiniteSet(Planets), NoMint, QInv, NEW from \in Planets, NEW to \in Planets
  PROVE  Frugal(World, Settled(from, to)) /\ GoodWorld(Settled(from, to))
  <1> DEFINE x == ProcessPending(World, from)
             y == ProcessPending(x, to)
  <1>1. GoodWorld(World) /\ block \in Nat
    BY WorldGood
  <1>2. Frugal(World, x) /\ GoodWorld(x)
    BY <1>1, ProcessFrugal
  <1> HIDE DEF x
  <1>3. Frugal(x, y) /\ GoodWorld(y)
    BY <1>1, <1>2, ProcessFrugal
  <1> HIDE DEF y
  <1>4. Frugal(World, y)
    BY <1>1, <1>2, <1>3, FrugalTransitive DEF GoodWorld
  <1> QED
    BY <1>3, <1>4 DEF Settled, x, y

-----------------------------------------------------------------------------
(* Every step. *)

SInv == block >= 1 /\ AllNatural(planets) /\ Balance(planets, arrivals) <= 0

\* A step that comes from storage w to the planets and the arrivals it leaves,
\* in which together there is no more silver.
LEMMA SilverStep ==
  ASSUME IsFiniteSet(Planets), QInv, QInv', SInv, NEW w, GoodWorld(w),
         Frugal(World, w), AllNatural(w.planets) => AllNatural(planets'),
         Balance(planets', arrivals') <= Balance(w.planets, w.arrivals),
         block <= block'
  PROVE  SInv'
  <1>1. AllNatural(w.planets) /\ Balance(w.planets, w.arrivals) <= Balance(planets, arrivals)
    BY WorldFields DEF Frugal, SInv
  <1>2. /\ Balance(w.planets, w.arrivals) \in Int
        /\ Balance(planets, arrivals) \in Int
        /\ Balance(planets', arrivals') \in Int
    <2>1. /\ w.planets \in [Planets -> Planet] /\ w.arrivals \in [ArrivalIds -> Arrival]
      BY TypedParts DEF GoodWorld
    <2>2. /\ planets \in [Planets -> Planet] /\ arrivals \in [ArrivalIds -> Arrival]
          /\ planets' \in [Planets -> Planet] /\ arrivals' \in [ArrivalIds -> Arrival]
      BY DEF QInv, TInv, TypeOK
    <2> QED
      BY <2>1, <2>2, BalanceInt
  <1>3. Balance(planets', arrivals') <= 0
    BY <1>1, <1>2 DEF SInv
  <1>4. block' >= 1
    BY DEF SInv, QInv, TInv, TypeOK
  <1> QED
    BY <1>1, <1>3, <1>4 DEF SInv

\* A transaction that writes one planet after landing what is due.
LEMMA SilverOne ==
  ASSUME IsFiniteSet(Planets), QInv, QInv', SInv, UNCHANGED block,
         NEW w, GoodWorld(w), Frugal(World, w), arrivals' = w.arrivals,
         NEW l \in Planets, NEW planet \in Planet,
         planets' = [w.planets EXCEPT ![l] = planet],
         Natural(l, w.planets[l]) =>
           Natural(l, planet) /\ Worth(l, planet) <= Worth(l, w.planets[l])
  PROVE  SInv'
  <1>1. /\ w.planets \in [Planets -> Planet] /\ w.arrivals \in [ArrivalIds -> Arrival]
    BY TypedParts DEF GoodWorld
  <1>2. \A k \in Planets : planets'[k] = IF k = l THEN planet ELSE w.planets[k]
    BY <1>1
  <1>3. AllNatural(w.planets)
    BY WorldFields DEF Frugal, SInv
  <1>4. AllNatural(planets')
    BY <1>2, <1>3 DEF AllNatural
  <1>5. Balance(planets', arrivals') <= Balance(w.planets, w.arrivals)
    <2>1. planets' \in [Planets -> Planet]
      BY <1>1
    <2>2. Worth(l, planets'[l]) <= Worth(l, w.planets[l])
      BY <1>2, <1>3 DEF AllNatural
    <2> QED
      BY <1>1, <1>2, <2>1, <2>2, BalanceOne
  <1>6. block <= block'
    BY DEF QInv, TInv, TypeOK
  <1> QED
    BY <1>4, <1>5, <1>6, SilverStep

\* The same of a transaction that lands nothing.
LEMMA SilverStored ==
  ASSUME IsFiniteSet(Planets), QInv, QInv', SInv, UNCHANGED <<block, arrivals>>,
         NEW l \in Planets, NEW planet \in Planet,
         planets' = [planets EXCEPT ![l] = planet],
         Natural(l, planets[l]) =>
           Natural(l, planet) /\ Worth(l, planet) <= Worth(l, planets[l])
  PROVE  SInv'
  <1>1. GoodWorld(World) /\ TypedWorld(World)
    BY WorldGood DEF GoodWorld
  <1>2. Frugal(World, World)
    BY <1>1, FrugalReflexive
  <1>3. World.planets = planets /\ World.arrivals = arrivals
    BY WorldFields
  <1> QED
    BY <1>1, <1>2, <1>3, SilverOne

LEMMA SilverSame ==
  ASSUME SInv, QInv, QInv', block <= block', UNCHANGED <<planets, arrivals>>
  PROVE  SInv'
  BY DEF SInv, QInv, TInv, TypeOK

\* A new planet has what nature gives, a new home nothing.
LEMMA NewPlanetWorth ==
  ASSUME NEW l \in Planets, NEW owner \in Players \cup {Zero}, NEW is_home \in BOOLEAN,
         is_home => Geography[l].planet_type = "planet", TInv, block >= 1,
         NEW planet \in Planet, ~planet.is_initialized, Natural(l, planet)
  PROVE  LET new == NewPlanet(l, owner, is_home) IN
         /\ new \in Planet /\ Natural(l, new) /\ Worth(l, new) <= Worth(l, planet)
  <1> DEFINE new     == NewPlanet(l, owner, is_home)
             default == DefaultStats[l][Geography[l].planet_type]
             grown   == default.silver_growth * (block - 1)
  <1>1. new \in Planet
    BY NewPlanetType
  <1>2. /\ default.silver \in Nat /\ default.silver_growth \in Nat
        /\ default.silver_cap \in Nat
    BY DefaultSilver
  <1>3. /\ new.is_initialized /\ new.is_home_planet = is_home
        /\ new.planet_type = Geography[l].planet_type
        /\ new.silver = (IF is_home THEN 0 ELSE default.silver)
        /\ new.silver_cap = default.silver_cap
        /\ new.silver_growth = default.silver_growth
        /\ new.last_updated = block
        /\ UpgradesOf(new) = 0
    BY DEF NewPlanet, DefaultPlanet, UpgradesOf, Branches
  <1>4. grown \in Nat
    <2>1. block - 1 \in Nat
      BY DEF TInv, TypeOK
    <2> HIDE DEF default
    <2> QED
      BY <1>2, <2>1, TimesNat
  <1>5. Created(l, new) = IF is_home THEN 0 ELSE default.silver + grown
    BY <1>3 DEF Created
  <1>6. Worth(l, planet) = 0
    <2>1. planet.silver = 0 /\ UpgradesOf(planet) = 0 /\ Created(l, planet) = 0
      BY DEF Natural, Created
    <2>2. Spent(planet.silver_cap, 0) = 0
      BY SpentOnNone
    <2> QED
      BY <2>1, <2>2 DEF Worth
  <1>7. Natural(l, new)
    BY <1>3 DEF Natural
  <1> HIDE DEF new, default, grown
  <1>8. Worth(l, new) <= 0
    <2>1. Spent(new.silver_cap, 0) = 0
      BY SpentOnNone
    <2> QED
      BY <1>2, <1>3, <1>4, <1>5, <2>1 DEF Worth
  <1> QED
    BY <1>1, <1>6, <1>7, <1>8 DEF new

LEMMA SInitPlayer ==
  ASSUME IsFiniteSet(Planets), QInv, QInv', SInv, NEW player \in Players,
         NEW l \in Planets, InitPlayer(player, l)
  PROVE  SInv'
  <1> DEFINE home == NewPlanet(l, player, TRUE)
  <1>1. /\ planets' = [planets EXCEPT ![l] = home] /\ ~planets[l].is_initialized
        /\ Geography[l].planet_type = "planet"
        /\ UNCHANGED <<block, arrivals>>
    BY DEF InitPlayer, CanBeHome
  <1>2. planets[l] \in Planet /\ TInv /\ block >= 1 /\ Natural(l, planets[l])
    BY DEF QInv, TInv, TypeOK, SInv, AllNatural
  <1>3. home \in Planet /\ Natural(l, home) /\ Worth(l, home) <= Worth(l, planets[l])
    BY <1>1, <1>2, NewPlanetWorth
  <1> HIDE DEF home
  <1> QED
    BY <1>1, <1>3, SilverStored

LEMMA SRevealNewPlanet ==
  ASSUME IsFiniteSet(Planets), QInv, QInv', SInv, NEW l \in Planets, RevealNewPlanet(l)
  PROVE  SInv'
  <1> DEFINE planet == NewPlanet(l, Zero, FALSE)
  <1>1. /\ planets' = [planets EXCEPT ![l] = planet] /\ ~planets[l].is_initialized
        /\ UNCHANGED <<block, arrivals>>
    BY DEF RevealNewPlanet
  <1>2. planets[l] \in Planet /\ TInv /\ block >= 1 /\ Natural(l, planets[l])
    BY DEF QInv, TInv, TypeOK, SInv, AllNatural
  <1>3. planet \in Planet /\ Natural(l, planet) /\ Worth(l, planet) <= Worth(l, planets[l])
    BY <1>1, <1>2, NewPlanetWorth
  <1> HIDE DEF planet
  <1> QED
    BY <1>1, <1>3, SilverStored

\* Landings write only what they leave.
LEMMA SilverWrite ==
  ASSUME IsFiniteSet(Planets), QInv, QInv', SInv, UNCHANGED block, NEW w, GoodWorld(w),
         Frugal(World, w), Write(w)
  PROVE  SInv'
  <1>1. planets' = w.planets /\ arrivals' = w.arrivals
    BY DEF Write
  <1>2. Balance(w.planets, w.arrivals) \in Int
    BY TypedParts, BalanceInt DEF GoodWorld
  <1>3. block <= block'
    BY DEF QInv, TInv, TypeOK
  <1> QED
    BY <1>1, <1>2, <1>3, SilverStep

LEMMA SResolveArrival ==
  ASSUME IsFiniteSet(Planets), NoMint, QInv, QInv', SInv, NEW id \in ArrivalIds,
         ResolveArrival(id)
  PROVE  SInv'
  <1> DEFINE w == ExecuteArrival(World, id)
  <1>1. w.ok /\ Write(w) /\ UNCHANGED block
    BY DEF ResolveArrival
  <1>2. CanLand(World, id)
    <2>1. ~CanLand(World, id) => w = [World EXCEPT !.ok = FALSE]
      BY DEF ExecuteArrival
    <2>2. [World EXCEPT !.ok = FALSE].ok = FALSE
      BY DEF World
    <2> QED
      BY <1>1, <2>1, <2>2
  <1>3. GoodWorld(World) /\ TypedWorld(World) /\ block \in Nat
    BY WorldGood DEF GoodWorld
  <1>4. Frugal(World, w)
    BY <1>2, <1>3, ExecuteFrugal
  <1>5. w.planets \in [Planets -> Planet] /\ w.arrivals \in [ArrivalIds -> Arrival]
    BY <1>3, ExecuteType, TypedParts
  <1>6. /\ planets' = w.planets /\ arrivals' = w.arrivals
        /\ AllNatural(w.planets)
        /\ Balance(w.planets, w.arrivals) <= Balance(planets, arrivals)
    BY <1>1, <1>4, WorldFields DEF Write, Frugal, SInv
  <1> HIDE DEF w
  <1>7. Balance(planets', arrivals') <= Balance(World.planets, World.arrivals)
        /\ AllNatural(planets')
    BY <1>6, WorldFields
  <1>8. block <= block'
    BY <1>1, <1>3
  <1>9. Frugal(World, World)
    BY <1>3, FrugalReflexive
  <1> QED
    BY <1>3, <1>7, <1>8, <1>9, SilverStep

LEMMA SResolvePlanet ==
  ASSUME IsFiniteSet(Planets), NoMint, QInv, QInv', SInv, NEW l \in Planets,
         ResolvePlanet(l)
  PROVE  SInv'
  <1> DEFINE w == ProcessPending(World, l)
  <1>1. Write(w) /\ UNCHANGED block
    BY DEF ResolvePlanet
  <1>2. Frugal(World, w) /\ GoodWorld(w)
    BY WorldGood, ProcessFrugal
  <1> HIDE DEF w
  <1> QED
    BY <1>1, <1>2, SilverWrite

\* Reading a planet refreshes it to the present block.
LEMMA OriginWorth ==
  ASSUME TInv, NEW w, GoodWorld(w), NEW l \in Planets, Natural(l, w.planets[l])
  PROVE  /\ Origin(w, l) \in Planet /\ Natural(l, Origin(w, l))
         /\ SameMint(w.planets[l], Origin(w, l))
         /\ Worth(l, Origin(w, l)) <= Worth(l, w.planets[l])
         /\ Origin(w, l).last_updated <= block
  <1>1. block \in Nat /\ w.planets[l] \in Planet /\ Pausers(w, l) \in Nat
    BY TypedParts DEF TInv, TypeOK, GoodWorld
  <1>2. w.planets[l].last_updated <= block
    BY DEF GoodWorld, Clocked
  <1> DEFINE fresh == Refresh(w.planets[l], Pausers(w, l), block)
  <1>3. /\ fresh \in Planet /\ SameMint(w.planets[l], fresh) /\ Natural(l, fresh)
        /\ Worth(l, fresh) <= Worth(l, w.planets[l])
        /\ fresh.last_updated <= w.planets[l].last_updated \/ fresh.last_updated <= block
    BY <1>1, RefreshWorth
  <1> HIDE DEF fresh
  <1>4. fresh.last_updated <= block
    <2>1. fresh.last_updated \in Nat /\ w.planets[l].last_updated \in Nat
      BY <1>1, <1>3 DEF Planet
    <2> QED
      BY <1>1, <1>2, <1>3, <2>1
  <1> QED
    BY <1>3, <1>4 DEF Origin, fresh

\* An upgrade costs what the planet is then worth more.
LEMMA SUpgradePlanet ==
  ASSUME IsFiniteSet(Planets), NoMint, PInv, QInv', SInv, NEW player \in Players,
         NEW l \in Planets, NEW branch \in Branches, UpgradePlanet(player, l, branch)
  PROVE  SInv'
  <1> DEFINE w        == ProcessPending(World, l)
             fresh    == Origin(w, l)
             cost     == UpgradeCost(fresh)
             buffed   == BuffPlanet(fresh, UpgradeBuff(branch))
             upgraded == [buffed EXCEPT !.silver = @ - cost,
                                        !.upgrades[branch] = @ + 1]
             x        == [w EXCEPT !.planets[l] = upgraded]
  <1>1. /\ Write(x) /\ UNCHANGED block /\ fresh.silver >= cost
        /\ fresh.owner = player
    BY DEF UpgradePlanet
  <1>2. /\ Frugal(World, w) /\ Lawful(World, w) /\ GoodWorld(w) /\ TypedWorld(w)
        /\ TInv /\ QInv
    BY WorldGood, ProcessFrugal, ProcessLawful, QTyped DEF GoodWorld, PInv
  <1>3. w.planets \in [Planets -> Planet] /\ w \in Worlds
    BY <1>2, TypedParts DEF TypedWorld
  <1> HIDE DEF w
  <1>4. fresh.is_initialized
    <2>1. fresh.owner = w.planets[l].owner
          /\ fresh.is_initialized = w.planets[l].is_initialized
      BY <1>2, OriginType
    <2>2. Bare(w)
      BY <1>2, WorldFields DEF Lawful, PInv, Places
    <2> QED
      BY <1>1, <2>1, <2>2, SentinelAssumption DEF Bare
  <1>5. fresh \in Planet
    BY <1>2, OriginType
  <1>6. Natural(l, w.planets[l]) =>
          Natural(l, fresh) /\ Worth(l, fresh) <= Worth(l, w.planets[l])
    BY <1>2, OriginWorth
  <1> HIDE DEF fresh
  <1>7. SamePlace(fresh, buffed) /\ SameMint(fresh, buffed)
    BY <1>5, BuffKeeps, BuffWorth, UpgradeBuffType
  <1>8. cost = CostsAt(fresh.silver_cap)[UpgradesOf(fresh) + 1] /\ cost \in Nat
    BY <1>5, UpgradesNat, UpgradeCostNat DEF CostsAt, UpgradeCost
  <1> HIDE DEF buffed, cost
  <1>9. /\ buffed \in Planet /\ buffed.silver - cost \in Nat
        /\ buffed.upgrades \in [Branches -> Nat]
    BY <1>1, <1>5, <1>7, <1>8 DEF SamePlace, Planet
  <1>10. /\ upgraded \in Planet
         /\ upgraded.silver = fresh.silver - cost
         /\ upgraded.is_initialized = fresh.is_initialized
         /\ upgraded.is_home_planet = fresh.is_home_planet
         /\ upgraded.planet_type = fresh.planet_type
         /\ upgraded.silver_cap = fresh.silver_cap
         /\ upgraded.silver_growth = fresh.silver_growth
         /\ upgraded.last_updated = fresh.last_updated
         /\ upgraded.upgrades = [fresh.upgrades EXCEPT ![branch] = @ + 1]
    <2>1. upgraded.upgrades = [buffed.upgrades EXCEPT ![branch] = @ + 1]
      BY <1>9 DEF Planet
    <2>2. upgraded \in Planet
      <3>1. buffed.upgrades[branch] + 1 \in Nat
        BY <1>9
      <3> QED
        BY <1>9, <3>1 DEF Planet
    <2> QED
      BY <1>7, <1>9, <2>1, <2>2 DEF SamePlace, SameMint, Planet
  <1> HIDE DEF upgraded
  <1>11. UpgradesOf(upgraded) = UpgradesOf(fresh) + 1
    <2>1. fresh.upgrades \in [Branches -> Nat]
      BY <1>5 DEF Planet
    <2> QED
      BY <1>10, <2>1 DEF UpgradesOf, Branches
  <1>12. Worth(l, upgraded) = Worth(l, fresh)
    <2> DEFINE n == UpgradesOf(fresh)
    <2>1. Created(l, upgraded) = Created(l, fresh)
      BY <1>10 DEF Created
    <2>2. Spent(upgraded.silver_cap, UpgradesOf(upgraded)) =
            Spent(fresh.silver_cap, n) + cost
      BY <1>5, <1>8, <1>10, <1>11, SpentOnNext, UpgradesNat DEF Planet
    <2>3. Spent(fresh.silver_cap, n) \in Int /\ Created(l, fresh) \in Int
          /\ fresh.silver \in Nat
      BY <1>5, WorthInt DEF Planet
    <2> HIDE DEF n
    <2> QED
      BY <1>8, <1>10, <2>1, <2>2, <2>3 DEF Worth, n
  <1>13. planets' = [w.planets EXCEPT ![l] = upgraded] /\ arrivals' = w.arrivals
    BY <1>1, <1>3 DEF Write, Worlds
  <1>14. Natural(l, fresh) => Natural(l, upgraded)
    BY <1>4, <1>10 DEF Natural
  <1> QED
    BY <1>1, <1>2, <1>6, <1>10, <1>12, <1>13, <1>14, SilverOne

\* A buff and what takes it back leave silver alone.
LEMMA SActivateArtifact ==
  ASSUME IsFiniteSet(Planets), NoMint, QInv, QInv', SInv, NEW player \in Players,
         NEW l \in Planets, NEW id \in FoundIds, NEW target \in Planets \cup {Nowhere},
         ActivateArtifact(player, l, id, target)
  PROVE  SInv'
  <1> DEFINE artifact == artifacts[id]
             buffed   == BuffPlanet(planets[l],
                                    Buffs[artifact.artifact_type][artifact.rarity])
  <1>1. artifact.is_initialized
    BY DEF ActivateArtifact
  <1>2. artifact.artifact_type \in ArtifactTypes /\ artifact.rarity \in Rarities
    BY <1>1, IdsApart DEF QInv, TInv, ArtifactsKnown
  <1>3. artifact.artifact_type # "bloom_filter"
    BY <1>2 DEF NoMint
  <1>4. planets' = [planets EXCEPT ![l] = buffed] /\ UNCHANGED <<block, arrivals>>
    BY <1>3 DEF ActivateArtifact
  <1>5. planets[l] \in Planet
    BY DEF QInv, TInv, TypeOK
  <1>6. SamePlace(planets[l], buffed) /\ SameMint(planets[l], buffed)
    BY <1>2, <1>5, BuffsType, BuffKeeps, BuffWorth
  <1> HIDE DEF buffed
  <1>7. Natural(l, planets[l]) =>
          Natural(l, buffed) /\ Worth(l, buffed) <= Worth(l, planets[l])
    <2>1. Worth(l, planets[l]) \in Int
      BY <1>5, WorthInt
    <2> QED
      BY <1>5, <1>6, <2>1, PlaceWorth
  <1> QED
    BY <1>4, <1>6, <1>7, SilverStored DEF SamePlace

LEMMA SDeactivateArtifact ==
  ASSUME IsFiniteSet(Planets), QInv, QInv', SInv, NEW player \in Players,
         NEW l \in Planets, DeactivateArtifact(player, l)
  PROVE  SInv'
  <1> DEFINE id       == ActiveIn(planet_artifacts[l])
             debuffed == Debuffed(planets[l], artifacts[id])
  <1>1. /\ planets' = [planets EXCEPT ![l] = debuffed] /\ id # NoArtifact
        /\ UNCHANGED <<block, arrivals>>
    BY DEF DeactivateArtifact
  <1>2. artifacts[id].artifact_type \in ArtifactTypes
        /\ artifacts[id].rarity \in Rarities
    BY <1>1, QTyped, ActiveFound
  <1>3. planets[l] \in Planet
    BY DEF QInv, TInv, TypeOK
  <1> HIDE DEF id
  <1>4. SamePlace(planets[l], debuffed) /\ SameMint(planets[l], debuffed)
    BY <1>2, <1>3, DebuffedType, BuffsType, BuffWorth DEF Debuffed
  <1> HIDE DEF debuffed
  <1>5. Natural(l, planets[l]) =>
          Natural(l, debuffed) /\ Worth(l, debuffed) <= Worth(l, planets[l])
    <2>1. Worth(l, planets[l]) \in Int
      BY <1>3, WorthInt
    <2> QED
      BY <1>3, <1>4, <2>1, PlaceWorth
  <1> QED
    BY <1>1, <1>4, <1>5, SilverStored DEF SamePlace

\* A departure, w being the storage it departs from: what the arrival carries,
\* its origin has no more.
LEMMA SDepart ==
  ASSUME IsFiniteSet(Planets), QInv, QInv', SInv, UNCHANGED block,
         NEW w, GoodWorld(w), Frugal(World, w), NEW from \in Planets,
         NEW arrival \in Arrival, NEW slots, NEW origin \in Planet,
         Sailed(w, from, arrival, slots), LeftAlone(w, from, origin),
         w.planets[from].is_initialized, origin.is_initialized,
         origin.last_updated <= block,
         Natural(from, w.planets[from]) =>
           /\ Natural(from, origin)
           /\ Worth(from, origin) + arrival.silver_moved
                <= Worth(from, w.planets[from])
  PROVE  SInv'
  <1> DEFINE left == [origin EXCEPT !.last_updated = block]
             mid  == [w.planets EXCEPT ![from] = left]
             a    == next_arrival_id
  <1>1. /\ w.planets \in [Planets -> Planet] /\ w.arrivals \in [ArrivalIds -> Arrival]
        /\ planets' \in [Planets -> Planet] /\ arrivals' \in [ArrivalIds -> Arrival]
        /\ TInv /\ block \in Nat /\ block >= 1
    BY TypedParts DEF GoodWorld, QInv, TInv, TypeOK, SInv
  <1>2. AllNatural(w.planets)
    BY WorldFields DEF Frugal, SInv
  <1>3. /\ Natural(from, origin)
        /\ Worth(from, origin) + arrival.silver_moved <= Worth(from, w.planets[from])
    BY <1>2 DEF AllNatural
  <1>4. left \in Planet /\ SameMint(origin, left) /\ left.silver = origin.silver
        /\ left.last_updated = block
    BY <1>1 DEF SameMint, Planet
  <1>5. planets'[from] = left
    BY DEF LeftAlone
  <1> HIDE DEF left
  <1>6. Natural(from, left)
    BY <1>3, <1>4, NaturalKept
  <1>7. Worth(from, left) <= Worth(from, origin) + 0
    <2>1. left.silver <= origin.silver + 0 /\ origin.last_updated <= left.last_updated
      BY <1>4 DEF Planet
    <2> QED
      BY <1>3, <1>4, <2>1, WorthGain
  <1>8. \A k \in Planets : mid[k] = IF k = from THEN left ELSE w.planets[k]
    BY <1>1
  <1>9. mid \in [Planets -> Planet]
    BY <1>1, <1>4
  <1> HIDE DEF mid
  <1>10. Balance(mid, arrivals') <= Balance(w.planets, w.arrivals)
    <2>1. /\ a \in ArrivalIds /\ arrivals'[a] = arrival
          /\ \A b \in ArrivalIds \ {a} : arrivals'[b] = w.arrivals[b]
      BY DEF Sailed
    <2>2. Worth(from, mid[from]) + arrivals'[a].silver_moved
            <= Worth(from, w.planets[from]) + w.arrivals[a].silver_moved
      <3>1. /\ arrival.silver_moved \in Nat /\ w.arrivals[a].silver_moved \in Nat
        BY <1>1, <2>1 DEF Arrival
      <3>2. /\ Worth(from, left) \in Int /\ Worth(from, origin) \in Int
            /\ Worth(from, w.planets[from]) \in Int
        BY <1>1, <1>4, WorthInt
      <3> QED
        BY <1>3, <1>7, <1>8, <2>1, <3>1, <3>2
    <2>3. \A k \in Planets \ {from} : mid[k] = w.planets[k]
      BY <1>8
    <2> HIDE DEF a
    <2> QED
      BY <1>1, <1>9, <2>1, <2>2, <2>3, BalanceBoth
  <1>11. ASSUME NEW k \in Planets
         PROVE  /\ Natural(k, planets'[k])
                /\ planets'[k] = mid[k] \/ Worth(k, planets'[k]) <= Worth(k, mid[k])
    <2>1. CASE planets'[k] = mid[k]
      BY <1>2, <1>6, <1>8, <2>1 DEF AllNatural
    <2>2. CASE planets'[k] # mid[k]
      <3>1. /\ k # from /\ mid[k] = w.planets[k] /\ ~w.planets[k].is_initialized
            /\ planets'[k] = NewPlanet(k, Zero, FALSE)
        BY <1>5, <1>8, <2>2 DEF LeftAlone
      <3>2. w.planets[k] \in Planet /\ Natural(k, w.planets[k])
        BY <1>1, <1>2 DEF AllNatural
      <3> QED
        BY <1>1, <3>1, <3>2, NewPlanetWorth
    <2> QED
      BY <2>1, <2>2
  <1>12. Balance(planets', arrivals') <= Balance(mid, arrivals')
    BY <1>1, <1>9, <1>11, BalanceAll
  <1>13. Balance(planets', arrivals') <= Balance(w.planets, w.arrivals)
    <2>1. /\ Balance(planets', arrivals') \in Int /\ Balance(mid, arrivals') \in Int
          /\ Balance(w.planets, w.arrivals) \in Int
      BY <1>1, <1>9, BalanceInt
    <2> QED
      BY <1>10, <1>12, <2>1
  <1>14. AllNatural(planets') /\ block <= block'
    BY <1>1, <1>11 DEF AllNatural
  <1> QED
    BY <1>13, <1>14, SilverStep

LEMMA SSendShip ==
  ASSUME IsFiniteSet(Planets), NoMint, QInv, QInv', SInv, NEW player \in Players,
         NEW from \in Planets, NEW to \in Planets, NEW ship \in ShipIds,
         SendShip(player, from, to, ship)
  PROVE  SInv'
  <1> DEFINE w      == Settled(from, to)
             fresh  == Origin(w, from)
             origin == Unmoored(w, from, ship)
             counts == CountsWithout(w, from, ship)
             slots  == w.planet_artifacts[from]
             type   == IF ByWormhole(w, from, to) THEN "wormhole" ELSE "normal"
  <1>1. PICK time \in TravelTimes :
          /\ w.planets[from].is_initialized
          /\ Depart(w, from, to, origin,
                    Flight(Zero, from, to, 0, 0, ship, type, time), slots, counts)
    BY DEF SendShip
  <1> DEFINE arrival == Flight(Zero, from, to, 0, 0, ship, type, time)
  <1>2. MayDepart /\ UNCHANGED block
    BY DEF SendShip
  <1>3. Frugal(World, w) /\ GoodWorld(w) /\ TypedWorld(w) /\ TInv
    BY SettledFrugal, QTyped DEF GoodWorld
  <1>4. type \in ArrivalTypes
    BY DEF ArrivalTypes
  <1> HIDE DEF w, type
  <1>5. slots \in [ArtifactSlots -> ArtifactIds \cup {NoArtifact}]
    BY <1>3, TypedParts
  <1>6. arrival \in Arrival /\ block < arrival.arrival_block /\ arrival.silver_moved = 0
    <2>1. ship \in ArtifactIds \cup {NoArtifact}
      BY IdsApart
    <2>2. ArrivalBlock(time) \in Nat /\ block < ArrivalBlock(time)
      BY <1>2, <1>3, ArrivesLater
    <2> QED
      BY <1>4, <2>1, <2>2 DEF Flight, Arrival, Addresses
  <1>7. Natural(from, w.planets[from])
    BY <1>3, WorldFields DEF Frugal, SInv, AllNatural
  <1>8. /\ fresh \in Planet /\ Natural(from, fresh) /\ fresh.last_updated <= block
        /\ SameMint(w.planets[from], fresh)
        /\ Worth(from, fresh) <= Worth(from, w.planets[from])
    BY <1>3, <1>7, OriginWorth
  <1> HIDE DEF fresh
  <1>9. \/ origin = fresh
        \/ SamePlace(fresh, origin) /\ SameMint(fresh, origin)
    <2> DEFINE count == w.ship_counts[from][ship[2]]
    <2>1. CASE Affects(ship, w.planets[from])
      <3>1. ship[2] \in EffectShips /\ ship[2] \in ShipTypes
        BY <2>1 DEF Affects, ShipIds
      <3>2. ship[2] # "whale"
        BY <3>1 DEF NoMint
      <3>3. count \in Nat
        BY <1>3, <3>1, TypedParts
      <3>4. origin = Undocked(fresh, ship[2], count)
        BY <2>1 DEF Unmoored, fresh
      <3> HIDE DEF origin, count
      <3> QED
        BY <1>8, <3>2, <3>3, <3>4, UndockedKeeps, ShipWorth
    <2>2. CASE ~Affects(ship, w.planets[from])
      BY <2>2 DEF Unmoored, fresh
    <2> QED
      BY <2>1, <2>2
  <1> HIDE DEF origin, counts, arrival
  <1>10. /\ origin \in Planet /\ Natural(from, origin)
         /\ Worth(from, origin) = Worth(from, fresh)
         /\ origin.last_updated = fresh.last_updated
         /\ origin.is_initialized = fresh.is_initialized
    BY <1>8, <1>9, PlaceWorth DEF SamePlace
  <1>11. Sailed(w, from, arrival, slots) /\ LeftAlone(w, from, origin)
    BY <1>1, <1>2, <1>3, <1>5, <1>6, <1>10, DepartEffect DEF arrival
  <1>12. Worth(from, origin) + arrival.silver_moved <= Worth(from, w.planets[from])
    <2>1. Worth(from, fresh) \in Int
      BY <1>8, WorthInt
    <2> QED
      BY <1>6, <1>8, <1>10, <2>1
  <1>13. /\ w.planets[from].is_initialized /\ origin.is_initialized
         /\ origin.last_updated <= block
    BY <1>1, <1>8, <1>10 DEF SameMint
  <1> QED
    BY <1>2, <1>3, <1>6, <1>10, <1>11, <1>12, <1>13, SDepart

\* What a fleet takes silver from: the origin refreshed, or, when the cannon
\* fires, as stored.
LEMMA FleetOriginWorth ==
  ASSUME QInv, NEW w, GoodWorld(w), NEW from \in Planets,
         Natural(from, w.planets[from])
  PROVE  LET origin == OriginOfFleet(w, from) IN
         /\ origin \in Planet /\ Natural(from, origin)
         /\ SameMint(w.planets[from], origin)
         /\ Worth(from, origin) <= Worth(from, w.planets[from])
         /\ origin.last_updated <= block
  <1>1. TypedWorld(w) /\ TInv /\ w.planets[from] \in Planet
    BY QTyped, TypedParts DEF GoodWorld
  <1>2. CASE Firing(w, from)
    <2> DEFINE cannon == artifacts[ActiveIn(w.planet_artifacts[from])]
               origin == Debuffed(w.planets[from], cannon)
    <2>1. cannon.artifact_type \in ArtifactTypes /\ cannon.rarity \in Rarities
      BY <1>1, <1>2, FiringType
    <2>2. OriginOfFleet(w, from) = origin
      BY <1>2 DEF OriginOfFleet
    <2> HIDE DEF cannon
    <2>3. SamePlace(w.planets[from], origin) /\ SameMint(w.planets[from], origin)
      BY <1>1, <2>1, DebuffedType, BuffsType, BuffWorth DEF Debuffed
    <2>4. Worth(from, w.planets[from]) \in Int
      BY <1>1, WorthInt
    <2>5. w.planets[from].last_updated <= block
      BY DEF GoodWorld, Clocked
    <2> HIDE DEF origin
    <2> QED
      BY <1>1, <2>2, <2>3, <2>4, <2>5, PlaceWorth DEF SamePlace
  <1>3. CASE ~Firing(w, from)
    BY <1>1, <1>3, OriginWorth DEF OriginOfFleet
  <1> QED
    BY <1>2, <1>3

LEMMA SSendFleet ==
  ASSUME IsFiniteSet(Planets), NoMint, QInv, QInv', SInv, NEW player \in Players,
         NEW from \in Planets, NEW to \in Planets, NEW abandoning \in BOOLEAN,
         SendFleet(player, from, to, abandoning)
  PROVE  SInv'
  <1> DEFINE w      == Settled(from, to)
             slots  == SlotsOfFleet(w, from)
             origin == OriginOfFleet(w, from)
             fresh  == Origin(w, from)
  <1>1. PICK arrival \in Arrival, left \in Planet :
          /\ Sailed(w, from, arrival, slots)
          /\ LeftAlone(w, from, left)
          /\ FleetLeft(w, from, left, player, abandoning)
          /\ Laden(w, from, left, arrival, abandoning)
    BY FleetEffect
  <1>2. Frugal(World, w) /\ GoodWorld(w) /\ UNCHANGED block
    BY SettledFrugal DEF SendFleet
  <1> HIDE DEF w, slots
  <1>3. PICK pop \in Nat, silver \in Nat :
          /\ left = Left(origin, fresh, from, pop, silver, abandoning)
          /\ arrival.silver_moved = Load(origin, pop, silver, abandoning).silver
          /\ Load(origin, pop, silver, abandoning).silver <= origin.silver
    BY <1>1 DEF Laden
  <1>4. Natural(from, w.planets[from])
    BY <1>2, WorldFields DEF Frugal, SInv, AllNatural
  <1>5. /\ origin \in Planet /\ Natural(from, origin)
        /\ SameMint(w.planets[from], origin)
        /\ Worth(from, origin) <= Worth(from, w.planets[from])
        /\ origin.last_updated <= block
    BY <1>2, <1>4, FleetOriginWorth
  <1> HIDE DEF origin, fresh
  <1>6. /\ left.silver + arrival.silver_moved = origin.silver
        /\ SameMint(origin, left) /\ left.last_updated = origin.last_updated
    <2>1. origin.silver \in Nat
      BY <1>5 DEF Planet
    <2>2. CASE abandoning
      <3>1. left.silver = 0 /\ arrival.silver_moved = origin.silver
        BY <1>3, <1>5, <2>2 DEF Left, Load, Planet
      <3>2. SameMint(origin, left) /\ left.last_updated = origin.last_updated
        BY <1>3, <1>5, <2>2 DEF Left, SameMint, Planet
      <3> QED
        BY <2>1, <3>1, <3>2
    <2>3. CASE ~abandoning
      <3>1. left.silver = origin.silver - silver /\ arrival.silver_moved = silver
        BY <1>3, <1>5, <2>3 DEF Left, Load, Planet
      <3>2. SameMint(origin, left) /\ left.last_updated = origin.last_updated
        BY <1>3, <1>5, <2>3 DEF Left, SameMint, Planet
      <3> QED
        BY <2>1, <3>1, <3>2
    <2> QED
      BY <2>2, <2>3
  <1>7. w.planets[from].is_initialized /\ left.is_initialized
    BY <1>1 DEF FleetLeft
  <1>8. Natural(from, left)
    BY <1>5, <1>6, <1>7, NaturalKept DEF SameMint
  <1>9. Worth(from, left) + arrival.silver_moved <= Worth(from, w.planets[from])
    <2>1. /\ arrival.silver_moved \in Nat /\ left.silver \in Nat /\ origin.silver \in Nat
      BY <1>5 DEF Arrival, Planet
    <2>2. /\ Worth(from, left) \in Int /\ Worth(from, origin) \in Int
          /\ w.planets[from] \in Planet
      BY <1>2, <1>5, WorthInt, TypedParts DEF GoodWorld
    <2>3. Worth(from, w.planets[from]) \in Int
      BY <2>2, WorthInt
    <2> DEFINE gain == -arrival.silver_moved
    <2>4. gain \in Int /\ left.silver <= origin.silver + gain
      BY <1>6, <2>1
    <2>5. origin.last_updated <= left.last_updated
      BY <1>5, <1>6 DEF Planet
    <2>6. Worth(from, left) <= Worth(from, origin) + gain
      <3> HIDE DEF gain
      <3> QED
        BY <1>5, <1>6, <2>4, <2>5, WorthGain
    <2> QED
      BY <1>5, <2>1, <2>2, <2>3, <2>6
  <1>10. left.last_updated <= block
    BY <1>5, <1>6
  <1> QED
    BY <1>1, <1>2, <1>7, <1>8, <1>9, <1>10, SDepart

LEMMA SNext ==
  ASSUME IsFiniteSet(Planets), NoMint, PInv, QInv', SInv, Next PROVE SInv'
  <1> USE DEF PInv
  <1>1. ASSUME UNCHANGED <<block, planets, arrivals>> PROVE SInv'
    <2>1. block <= block'
      BY <1>1 DEF QInv, TInv, TypeOK
    <2> QED
      BY <1>1, <2>1, SilverSame
  <1>2. CASE NextBlock
    <2>1. block <= block' /\ UNCHANGED <<planets, arrivals>>
      BY <1>2 DEF NextBlock, fleetVars, QInv, TInv, TypeOK
    <2> QED
      BY <2>1, SilverSame
  <1>3. CASE FleetNext
    BY <1>3, SInitPlayer, SRevealNewPlanet, SSendFleet, SResolveArrival,
       SResolvePlanet, SUpgradePlanet DEF FleetNext
  <1>4. CASE ShipNext
    <2>1. ASSUME NEW p \in Players, NEW l \in Planets, GiveSpaceShips(p, l)
          PROVE  SInv'
      BY <1>1, <2>1 DEF GiveSpaceShips
    <2>2. ASSUME NEW l \in Planets, NEW id \in ShipIds, ActivateCrescent(l, id)
          PROVE  FALSE
      BY <2>2 DEF ActivateCrescent, ShipIds, NoMint
    <2> QED
      BY <1>4, <2>1, <2>2, SSendShip DEF ShipNext
  <1>5. CASE ArtifactNext
    <2>1. ASSUME NEW p \in Players, NEW l \in Planets, ProspectPlanet(p, l)
          PROVE  SInv'
      BY <1>1, <2>1 DEF ProspectPlanet, fleetVars
    <2>2. ASSUME NEW p \in Players, NEW l \in Planets, NEW type \in ArtifactTypes,
                 NEW rarity \in Rarities, FindArtifact(p, l, type, rarity)
          PROVE  SInv'
      BY <1>1, <2>2 DEF FindArtifact
    <2>3. ASSUME NEW p \in Players, NEW l \in Planets, NEW id \in FoundIds,
                 DepositArtifact(p, l, id) \/ WithdrawArtifact(p, l, id)
          PROVE  SInv'
      BY <1>1, <2>3 DEF DepositArtifact, WithdrawArtifact
    <2> QED
      BY <1>5, <2>1, <2>2, <2>3, SActivateArtifact, SDeactivateArtifact
         DEF ArtifactNext
  <1> QED
    BY <1>2, <1>3, <1>4, <1>5 DEF Next

LEMMA SInit == ASSUME IsFiniteSet(Planets), Init PROVE SInv
  <1>1. /\ block = 1 /\ planets = [l \in Planets |-> NoPlanet]
        /\ arrivals = [id \in ArrivalIds |-> EmptyArrival]
    BY DEF Init
  <1>2. AllNatural(planets)
    BY <1>1 DEF AllNatural, Natural, NoPlanet, UpgradesOf, Branches
  <1>3. \A l \in Planets : Worths(planets)[l] = 0
    <2> TAKE l \in Planets
    <2>1. Worths(planets)[l] = Worth(l, NoPlanet)
      BY <1>1 DEF Worths
    <2>2. Spent(0, 0) = 0
      BY SpentOnNone
    <2>3. NoPlanet.silver = 0 /\ NoPlanet.silver_cap = 0 /\ UpgradesOf(NoPlanet) = 0
          /\ Created(l, NoPlanet) = 0
      BY DEF NoPlanet, UpgradesOf, Branches, Created
    <2> QED
      BY <2>1, <2>2, <2>3 DEF Worth
  <1>4. \A id \in ArrivalIds : OnTheWay(arrivals)[id] = 0
    BY <1>1 DEF OnTheWay, EmptyArrival
  <1>5. SumOver(Worths(planets), Planets) = 0
    BY <1>3, SumNothing
  <1>6. SumOver(OnTheWay(arrivals), ArrivalIds) = 0
    BY <1>4, ArrivalIdsFinite, SumNothing
  <1> QED
    BY <1>1, <1>2, <1>5, <1>6 DEF SInv, Balance

LEMMA SStutter == ASSUME PInv, QInv', SInv, UNCHANGED vars PROVE SInv'
  <1>1. UNCHANGED <<block, planets, arrivals>>
    BY DEF vars, fleetVars
  <1>2. block \in Nat
    BY DEF PInv, QInv, TInv, TypeOK
  <1>3. block <= block'
    BY <1>1, <1>2
  <1> QED
    BY <1>1, <1>3, SilverSame DEF PInv

LEMMA SilverInductive ==
  ASSUME IsFiniteSet(Planets), NoMint PROVE Spec => [](PInv /\ SInv)
  <1>1. PInv => QInv
    BY DEF PInv
  <1>2. Init => SInv
    BY SInit
  <1>3. PInv /\ PInv' /\ SInv /\ [Next]_vars => SInv'
    BY SNext, SStutter DEF PInv
  <1> QED
    BY <1>2, <1>3, PlacesInductive, PTL DEF Spec

-----------------------------------------------------------------------------
(* The sums of the property are these. *)

LEMMA SpentOnIs ==
  ASSUME NEW l \in Planets, TypeOK
  PROVE  SpentOn(l) = Spent(planets[l].silver_cap, UpgradesOf(planets[l]))
  <1> DEFINE n == UpgradesOf(planets[l])
             S == 1..n
             cap == planets[l].silver_cap
             f == CostsAt(cap)
             Cost(k) == (planets[l].silver_cap * 20 * k) \div 100
             Fold(g) == g = [s \in SUBSET S |->
                               IF s = {} THEN 0 ELSE Cost(One(s)) + g[s \ {One(s)}]]
  <1>1. SpentOn(l) = (CHOOSE g : Fold(g))[S]
    BY DEF SpentOn, TotalOf, MapThenSumSet, MapThenFoldSet, One
  <1>2. n \in Nat /\ IsFiniteSet(S) /\ S \subseteq Nat
    <2>1. n \in Nat
      BY UpgradesNat DEF TypeOK
    <2> HIDE DEF n
    <2> QED
      BY <2>1, FS_Interval
  <1> HIDE DEF n
  <1>3. ASSUME NEW g PROVE Sums(g, f, S) <=> Fold(g)
    <2>1. \A s \in SUBSET S : s # {} => One(s) \in Nat
      BY <1>2 DEF One
    <2>2. \A s \in SUBSET S : s # {} => f[One(s)] = Cost(One(s))
      BY <2>1 DEF CostsAt
    <2> HIDE DEF f, Cost, S
    <2> QED
      BY <2>2 DEF Sums
  <1> HIDE DEF f, Cost, S
  <1>4. PICK h : Sums(h, f, S)
    BY <1>2, SumsExist
  <1>5. Sums(CHOOSE g : Fold(g), f, S)
    <2> HIDE DEF Fold
    <2> QED
      BY <1>3, <1>4
  <1>6. SumOver(f, S) = (CHOOSE g : Fold(g))[S]
    <2> HIDE DEF Fold
    <2> QED
      BY <1>2, <1>5, SumIs
  <1> QED
    BY <1>1, <1>6 DEF Spent, f, S, n, cap

\* The sum of differences is the difference of the sums.
LEMMA SumMinus ==
  ASSUME NEW S, IsFiniteSet(S), NEW f, NEW k, NEW d,
         \A x \in S : f[x] \in Int /\ k[x] \in Int /\ d[x] = f[x] - k[x]
  PROVE  SumOver(d, S) = SumOver(f, S) - SumOver(k, S)
  <1> DEFINE Minus(T) == SumOver(d, T) = SumOver(f, T) - SumOver(k, T)
             N == {n \in Nat : \A T \in SUBSET S : Cardinality(T) <= n => Minus(T)}
  <1>1. \A T \in SUBSET S : /\ IsFiniteSet(T) /\ Cardinality(T) \in Nat
                            /\ SumOver(k, T) \in Int /\ SumOver(f, T) \in Int
    <2> TAKE T \in SUBSET S
    <2>1. IsFiniteSet(T) /\ Cardinality(T) \in Nat
      BY FS_Subset, FS_CardinalityType
    <2>2. \A x \in T : f[x] \in Int /\ k[x] \in Int
      OBVIOUS
    <2> QED
      BY <2>1, <2>2, SumRemove
  <1>2. Minus({})
    BY SumEmpty
  <1>3. 0 \in N
    <2>1. \A T \in SUBSET S : Cardinality(T) <= 0 => T = {}
      BY <1>1, FS_EmptySet
    <2> HIDE DEF Minus
    <2> QED
      BY <1>2, <2>1
  <1>4. ASSUME NEW n \in Nat, n \in N PROVE n + 1 \in N
    <2>1. ASSUME NEW T \in SUBSET S, Cardinality(T) <= n + 1, T # {} PROVE Minus(T)
      <3> DEFINE a == One(T)
                 R == T \ {a}
      <3>1. a \in T /\ R \in SUBSET S /\ Cardinality(R) <= n
        BY <2>1, Smaller
      <3>2. /\ SumOver(f, T) = f[a] + SumOver(f, R)
            /\ SumOver(k, T) = k[a] + SumOver(k, R)
            /\ SumOver(d, T) = d[a] + SumOver(d, R)
        BY <1>1, <2>1, SumOne
      <3> HIDE DEF a, R
      <3>3. Minus(R)
        BY <1>4, <3>1
      <3>4. f[a] \in Int /\ k[a] \in Int /\ d[a] = f[a] - k[a]
        BY <3>1
      <3> QED
        BY <1>1, <3>1, <3>2, <3>3, <3>4
    <2> HIDE DEF Minus
    <2>2. \A T \in SUBSET S : Cardinality(T) <= n + 1 => Minus(T)
      BY <1>2, <2>1
    <2> QED
      BY <2>2
  <1> HIDE DEF N
  <1>5. Cardinality(S) \in N /\ Cardinality(S) <= Cardinality(S) /\ S \in SUBSET S
    BY <1>1, <1>3, <1>4, Induction
  <1> QED
    BY <1>5 DEF N

\* What is on a planet, and what its upgrades have cost.
Stock(l) == planets[l].silver + SpentOn(l)

LEMMA StockTotal ==
  ASSUME IsFiniteSet(Planets)
  PROVE  TotalOf(Planets, Stock) = SumOver([l \in Planets |-> Stock(l)], Planets)
  <1> DEFINE f == [l \in Planets |-> Stock(l)]
             Fold(g) == g = [s \in SUBSET Planets |->
                               IF s = {} THEN 0 ELSE Stock(One(s)) + g[s \ {One(s)}]]
  <1>1. TotalOf(Planets, Stock) = (CHOOSE g : Fold(g))[Planets]
    BY DEF TotalOf, MapThenSumSet, MapThenFoldSet, One
  <1>2. ASSUME NEW g PROVE Sums(g, f, Planets) <=> Fold(g)
    <2>1. \A s \in SUBSET Planets : s # {} => One(s) \in Planets
      BY DEF One
    <2>2. \A s \in SUBSET Planets : s # {} => f[One(s)] = Stock(One(s))
      BY <2>1
    <2> HIDE DEF f
    <2> QED
      BY <2>2 DEF Sums
  <1> HIDE DEF Fold, f
  <1>3. Sums(CHOOSE g : Fold(g), f, Planets)
    BY <1>2, SumsExist
  <1>4. SumOver(f, Planets) = (CHOOSE g : Fold(g))[Planets]
    BY <1>3, SumIs
  <1> QED
    BY <1>1, <1>4 DEF f

Given(l) == Created(l, planets[l])

LEMMA GivenTotal ==
  ASSUME IsFiniteSet(Planets)
  PROVE  TotalOf(Planets, Given) = SumOver([l \in Planets |-> Given(l)], Planets)
  <1> DEFINE f == [l \in Planets |-> Given(l)]
             Fold(g) == g = [s \in SUBSET Planets |->
                               IF s = {} THEN 0 ELSE Given(One(s)) + g[s \ {One(s)}]]
  <1>1. TotalOf(Planets, Given) = (CHOOSE g : Fold(g))[Planets]
    BY DEF TotalOf, MapThenSumSet, MapThenFoldSet, One
  <1>2. ASSUME NEW g PROVE Sums(g, f, Planets) <=> Fold(g)
    <2>1. \A s \in SUBSET Planets : s # {} => One(s) \in Planets
      BY DEF One
    <2>2. \A s \in SUBSET Planets : s # {} => f[One(s)] = Given(One(s))
      BY <2>1
    <2> HIDE DEF f
    <2> QED
      BY <2>2 DEF Sums
  <1> HIDE DEF Fold, f
  <1>3. Sums(CHOOSE g : Fold(g), f, Planets)
    BY <1>2, SumsExist
  <1>4. SumOver(f, Planets) = (CHOOSE g : Fold(g))[Planets]
    BY <1>3, SumIs
  <1> QED
    BY <1>1, <1>4 DEF f

Cargo(id) == arrivals[id].silver_moved

LEMMA CargoTotal == TotalOf(ArrivalIds, Cargo) = SumOver(OnTheWay(arrivals), ArrivalIds)
  <1> DEFINE f == OnTheWay(arrivals)
             Fold(g) == g = [s \in SUBSET ArrivalIds |->
                               IF s = {} THEN 0 ELSE Cargo(One(s)) + g[s \ {One(s)}]]
  <1>1. TotalOf(ArrivalIds, Cargo) = (CHOOSE g : Fold(g))[ArrivalIds]
    BY DEF TotalOf, MapThenSumSet, MapThenFoldSet, One
  <1>2. ASSUME NEW g PROVE Sums(g, f, ArrivalIds) <=> Fold(g)
    <2>1. \A s \in SUBSET ArrivalIds : s # {} => One(s) \in ArrivalIds
      BY DEF One
    <2>2. \A s \in SUBSET ArrivalIds : s # {} => f[One(s)] = Cargo(One(s))
      BY <2>1 DEF OnTheWay, Cargo
    <2> HIDE DEF f
    <2> QED
      BY <2>2 DEF Sums
  <1> HIDE DEF Fold, f
  <1>3. Sums(CHOOSE g : Fold(g), f, ArrivalIds)
    BY <1>2, ArrivalIdsFinite, SumsExist
  <1>4. SumOver(f, ArrivalIds) = (CHOOSE g : Fold(g))[ArrivalIds]
    BY <1>3, ArrivalIdsFinite, SumIs
  <1> QED
    BY <1>1, <1>4 DEF f

LEMMA BalanceIs ==
  ASSUME IsFiniteSet(Planets), TypeOK
  PROVE  /\ TotalOf(Planets, Stock) \in Int /\ TotalOf(Planets, Given) \in Int
         /\ TotalOf(ArrivalIds, Cargo) \in Int
         /\ Balance(planets, arrivals) =
              TotalOf(Planets, Stock) - TotalOf(Planets, Given)
                + TotalOf(ArrivalIds, Cargo)
  <1> DEFINE f == [l \in Planets |-> Stock(l)]
             k == [l \in Planets |-> Given(l)]
             d == Worths(planets)
  <1>1. \A l \in Planets : f[l] \in Int /\ k[l] \in Int /\ d[l] = f[l] - k[l]
    <2> TAKE l \in Planets
    <2> DEFINE spent == Spent(planets[l].silver_cap, UpgradesOf(planets[l]))
    <2>1. SpentOn(l) = spent
      BY SpentOnIs
    <2>2. planets[l] \in Planet /\ planets[l].silver \in Int /\ planets[l].silver_cap \in Nat
      BY DEF TypeOK, Planet
    <2>3. spent \in Int
      BY <2>2, UpgradesNat, SpentInt
    <2>4. Given(l) \in Int
      BY <2>2, WorthInt DEF Given
    <2> HIDE DEF spent
    <2>5. Worth(l, planets[l]) = planets[l].silver + spent - Given(l)
      BY DEF Worth, Given, spent
    <2> QED
      BY <2>1, <2>2, <2>3, <2>4, <2>5 DEF Worths, Stock
  <1> HIDE DEF f, k, d
  <1>2. SumOver(f, Planets) \in Int /\ SumOver(k, Planets) \in Int
    BY <1>1, SumRemove
  <1>3. SumOver(d, Planets) = SumOver(f, Planets) - SumOver(k, Planets)
    BY <1>1, SumMinus
  <1>4. SumOver(OnTheWay(arrivals), ArrivalIds) \in Int
    BY BalanceInt DEF TypeOK
  <1> QED
    BY <1>2, <1>3, <1>4, StockTotal, GivenTotal, CargoTotal DEF Balance, f, k, d

\* Silver comes from nowhere but nature, in every game of finitely many planets
\* in which no Crescent makes a mine, no Whale doubles one and no bloom filter
\* fills one: what planets hold, what upgrades have cost and what is on its way
\* is never more than planets were given, however moves, landings, upgrades and
\* the refreshes of each follow one another.
THEOREM SilverCorrect ==
  ASSUME IsFiniteSet(Planets), NoMint PROVE Spec => []SilverAccounted
  <1>1. PInv /\ SInv => SilverAccounted
    <2> SUFFICES ASSUME PInv, SInv PROVE SilverAccounted
      OBVIOUS
    <2>1. TypeOK
      BY DEF PInv, QInv, TInv
    <2>2. SilverAccounted <=>
            TotalOf(Planets, Stock) + TotalOf(ArrivalIds, Cargo)
              <= TotalOf(Planets, Given)
      BY DEF SilverAccounted, Stock, Given, Cargo, Created
    <2> QED
      BY <2>1, <2>2, BalanceIs DEF SInv
  <1> QED
    BY <1>1, SilverInductive, PTL

=============================================================================
