-------------------------- MODULE GameClientProofs --------------------------
(***************************************************************************)
(* Proofs about GameClient: its variables keep their types, no arrival is  *)
(* resolved by two resolutions at a time, no move is drawn twice, and      *)
(* nothing is left of transactions that are over.                          *)
(***************************************************************************)
EXTENDS GameClient, FiniteSetTheorems, TLAPS

\* The collections hold the records of transactions that were queued.
Named == \A t \in Txs : stage[t] # "none" => intent[t] \in Intents

Typed == TypeOK /\ Named

\* What some part of the client or of the chain takes for an arrival.
Heard == sailing \cup known \cup UNION {r.seen : r \in refreshes}

\* Voyages are numbered as they leave; the one of a move goes where the move
\* does; and what a refresh has read it will replace.
Numbered ==
    /\ \A v \in Heard : v.id < next
    /\ \A u, v \in sailing : u.id = v.id => u = v
    /\ \A t \in Txs : voyageOf[t] < next /\ (t \notin mined => voyageOf[t] = 0)
    /\ \A t \in Txs : stage[t] = "none" => t \notin mined
    /\ \A t \in Txs, v \in Heard : v.id = voyageOf[t] => v.to = intent[t].to
    /\ \A r \in refreshes : \A v \in r.seen : v.to \in r.planets

\* Each is a finite set.
Counted ==
    /\ IsFiniteSet(sailing)
    /\ IsFiniteSet(known)
    /\ \A r \in refreshes : IsFiniteSet(r.seen)

IInv == Typed /\ Numbered /\ Counted /\ ResolvingExact /\ NeverDrawnTwice

-----------------------------------------------------------------------------
(* Types. *)

LEMMA ContinuationTypes ==
  /\ Nothing \in Continuation
  /\ Then("synced", 0, {}) \in Continuation
  /\ \A t \in Txs : Then("clear", t, {}) \in Continuation
  /\ \A batch \in SUBSET Voyage : Then("retry", 0, batch) \in Continuation
  BY ClientAssumption DEF Nothing, Then, Continuation, Txs

LEMMA RefreshType ==
  ASSUME NEW ls \in SUBSET Planets, NEW then \in Continuation
  PROVE  Refresh(ls, then) \in RefreshJob
  BY DEF Refresh, RefreshJob

\* A refresh that is asked for is still to be read.
LEMMA RefreshFields ==
  ASSUME NEW ls, NEW then
  PROVE  /\ Refresh(ls, then).planets = ls
         /\ Refresh(ls, then).seen = {}
         /\ Refresh(ls, then).then = then
  BY DEF Refresh

LEMMA DropLastType ==
  ASSUME NEW list \in Seq(Txs), NEW n \in Nat
  PROVE  DropLast(list, n) \in Seq(Txs)
  <1>1. CASE n <= Len(list)
    <2>1. DropLast(list, n) \in [1..(Len(list) - n) -> Txs]
      BY <1>1 DEF DropLast
    <2>2. Len(list) - n \in Nat
      BY <1>1
    <2> QED
      BY <2>1, <2>2
  <1>2. CASE ~(n <= Len(list))
    <2>1. 1..(Len(list) - n) = 1..0
      BY <1>2
    <2>2. DropLast(list, n) \in [1..0 -> Txs]
      BY <2>1 DEF DropLast
    <2> QED
      BY <2>2
  <1> QED
    BY <1>1, <1>2

LEMMA RemoveAtType ==
  ASSUME NEW list \in Seq(Txs), NEW i \in 1..Len(list)
  PROVE  RemoveAt(list, i) \in Seq(Txs)
  <1>1. RemoveAt(list, i) \in [1..(Len(list) - 1) -> Txs]
    BY DEF RemoveAt
  <1>2. Len(list) - 1 \in Nat
    OBVIOUS
  <1> QED
    BY <1>1, <1>2

LEMMA RemoveTransactionType ==
  ASSUME NEW list \in Seq(Txs), NEW t, NEW n \in Nat \ {0}
  PROVE  RemoveTransaction(list, t, n) \in Seq(Txs)
  <1> DEFINE at == {i \in 1..Len(list) : list[i] = t}
  <1>1. CASE at = {}
    BY <1>1, DropLastType DEF RemoveTransaction
  <1>2. CASE at # {}
    <2> DEFINE i == CHOOSE i \in at : TRUE
    <2>1. i \in 1..Len(list)
      BY <1>2
    <2>2. RemoveAt(list, i) \in Seq(Txs)
      BY <2>1, RemoveAtType
    <2>3. n - 1 \in Nat
      OBVIOUS
    <2>4. DropLast(RemoveAt(list, i), n - 1) \in Seq(Txs)
      BY <2>2, <2>3, DropLastType
    <2> QED
      BY <1>2, <2>4 DEF RemoveTransaction
  <1> QED
    BY <1>1, <1>2

LEMMA ClearType ==
  ASSUME TypeOK, NEW t, NEW l, NEW n \in Nat \ {0}, ClearUnconfirmedTxIntent(t, l, n)
  PROVE  transactions' \in [{"all"} \cup Planets -> Seq(Txs)]
  BY RemoveTransactionType DEF TypeOK, ClearUnconfirmedTxIntent

-----------------------------------------------------------------------------
(* Steps of the chain. *)

LEMMA VoyageType ==
  ASSUME NEW v \in Voyage
  PROVE  /\ v.id \in 1..MaxArrivals /\ v.from \in Planets /\ v.to \in Planets
         /\ v.at \in 1..MaxBlock
  BY DEF Voyage

LEMMA SailType ==
  ASSUME TypeOK, NEW from \in Planets, NEW to \in Planets, Sail(from, to)
  PROVE  /\ now' = now /\ next' = next + 1
         /\ next \in 1..MaxArrivals
         /\ sailing' \in SUBSET Voyage
         /\ \E v \in Voyage : /\ sailing' \subseteq sailing \cup {v}
                              /\ v.id = next /\ v.to = to /\ v.from = from
  <1>1. PICK d \in TravelTimes :
          /\ now + d + ARRIVAL_PROVING_BUFFER_BLOCKS <= MaxBlock
          /\ sailing' = (sailing \ (Due(from) \cup Due(to))) \cup
                          {[id |-> next, from |-> from, to |-> to, at |-> now + d]}
    BY DEF Sail
  <1> DEFINE v == [id |-> next, from |-> from, to |-> to, at |-> now + d]
  <1>2. next \in 1..MaxArrivals /\ now' = now /\ next' = next + 1
    BY ClientAssumption DEF Sail, TypeOK
  <1>3. now + d \in 1..MaxBlock
    BY <1>1, ClientAssumption DEF TypeOK
  <1>4. v \in Voyage
    BY <1>2, <1>3 DEF Voyage
  <1>5. sailing' \subseteq sailing \cup {v}
    BY <1>1
  <1>6. sailing' \in SUBSET Voyage
    BY <1>4, <1>5 DEF TypeOK
  <1>7. v.id = next /\ v.to = to /\ v.from = from
    OBVIOUS
  <1> HIDE DEF v
  <1> QED
    BY <1>2, <1>4, <1>5, <1>6, <1>7

LEMMA LandType ==
  ASSUME TypeOK, NEW S, Land(S)
  PROVE  now' = now /\ next' = next /\ sailing' \subseteq sailing /\ sailing' \in SUBSET Voyage
  BY DEF TypeOK, Land

-----------------------------------------------------------------------------
(* Types, action by action. *)

LEMMA ChainTyped ==
  ASSUME Typed, NextBlock \/ OthersAct \/ (\E t \in Txs : Mined(t))
  PROVE  Typed'
  <1>1. CASE NextBlock
    <2>1. now' \in 1..MaxBlock /\ sailing' = sailing /\ next' = next
      BY <1>1, ClientAssumption DEF NextBlock, Chain!Tick, Typed, TypeOK
    <2> QED
      BY <1>1, <2>1 DEF NextBlock, Typed, TypeOK, Named, txs, pending, solving, sync
  <1>2. CASE OthersAct
    <2>1. /\ now' = now /\ next' \in 1..(MaxArrivals + 1) /\ sailing' \in SUBSET Voyage
      <3>1. CASE \E route \in Routes : Sail(route[1], route[2])
        BY <3>1, SailType, ClientAssumption DEF Typed
      <3>2. CASE \E v \in sailing : Land({v})
        BY <3>2, LandType DEF Typed, TypeOK
      <3> QED
        BY <1>2, <3>1, <3>2 DEF OthersAct
    <2> QED
      BY <1>2, <2>1 DEF OthersAct, Typed, TypeOK, Named, txs, pending, solving, sync
  <1>3. ASSUME NEW t \in Txs, Mined(t) PROVE Typed'
    <2>1. intent[t] \in Intents
      BY <1>3 DEF Mined, Typed, Named
    <2>2. intent[t].from \in Planets /\ intent[t].to \in Planets
      BY <2>1, IntentsAssumption
    <2>3. /\ now' = now /\ next' \in 1..(MaxArrivals + 1) /\ sailing' \in SUBSET Voyage
          /\ voyageOf' \in [Txs -> 0..MaxArrivals]
      <3>1. CASE intent[t].kind = "move"
        <4>1. Sail(intent[t].from, intent[t].to) /\ voyageOf' = [voyageOf EXCEPT ![t] = next]
          BY <1>3, <3>1 DEF Mined
        <4> QED
          BY <2>2, <4>1, SailType, ClientAssumption DEF Typed, TypeOK
      <3>2. CASE intent[t].kind = "upgrade"
        BY <1>3, <3>2, LandType DEF Mined, Typed, TypeOK
      <3>3. CASE intent[t].kind \notin {"move", "upgrade"}
        BY <1>3, <3>3 DEF Mined, Typed, TypeOK, chain
      <3> QED
        BY <3>1, <3>2, <3>3
    <2> QED
      BY <1>3, <2>3 DEF Mined, Typed, TypeOK, Named, pending, solving, sync
  <1> QED
    BY <1>1, <1>2, <1>3

LEMMA ReadTyped ==
  ASSUME Typed, NEW r \in refreshes, ReadArrivals(r)
  PROVE  Typed'
  <1>1. r \in RefreshJob
    BY DEF Typed, TypeOK
  <1>2. [r EXCEPT !.read = TRUE, !.seen = {v \in sailing : v.to \in r.planets}] \in RefreshJob
    BY <1>1 DEF Typed, TypeOK, RefreshJob
  <1> QED
    BY <1>2 DEF ReadArrivals, Typed, TypeOK, Named, chain, txs, pending, solving, sync

LEMMA AskTyped ==
  ASSUME Typed, NEW l \in Asked, AskRefresh(l)
  PROVE  Typed'
  <1>1. Refresh({l}, Nothing) \in RefreshJob
    BY RefreshType, ContinuationTypes, ClientAssumption
  <1> QED
    BY <1>1 DEF AskRefresh, Typed, TypeOK, Named, chain, txs, pending, solving, sync

LEMMA QueueArrivalsTyped ==
  ASSUME TypeOK, NEW S \in SUBSET Voyage, QueueResolveArrivals(S)
  PROVE  resolvingArrivals' \in SUBSET Voyage /\ resolvers' \in SUBSET Resolver
  <1>1. \A v \in Voyage : Single(v) \in Resolver
    BY DEF Single, Resolver, Voyage
  <1> QED
    BY <1>1 DEF QueueResolveArrivals, TypeOK

LEMMA ApplyTyped ==
  ASSUME Typed, NEW r \in refreshes, Apply(r)
  PROVE  Typed'
  <1>1. /\ r.planets \in SUBSET Planets /\ r.seen \in SUBSET Voyage
        /\ r.then.do \in {"nothing", "clear", "retry", "synced"}
        /\ r.then.batch \in SUBSET Voyage
    BY DEF Typed, TypeOK, RefreshJob, Continuation
  <1>2. known' \in SUBSET Voyage /\ drawn' \in SUBSET Txs
    BY <1>1 DEF Apply, Replace, Typed, TypeOK
  <1>3. /\ transactions' \in [{"all"} \cup Planets -> Seq(Txs)]
        /\ resolvingArrivals' \in SUBSET Voyage /\ resolvers' \in SUBSET Resolver
        /\ syncingPlanetRefresh' \in BOOLEAN
    <2>1. CASE r.then.do = "clear"
      <3>1. /\ ClearUnconfirmedTxIntent(r.then.tx, intent[r.then.tx].from, 1)
            /\ UNCHANGED <<solving, syncingPlanetRefresh>>
        BY <2>1 DEF Apply
      <3>2. transactions' \in [{"all"} \cup Planets -> Seq(Txs)]
        BY <3>1, ClearType, 1 \in Nat \ {0} DEF Typed
      <3> QED
        BY <3>1, <3>2 DEF Typed, TypeOK, solving
    <2>2. CASE r.then.do = "retry"
      BY <1>1, <2>2, QueueArrivalsTyped DEF Apply, Typed, TypeOK
    <2>3. CASE r.then.do = "synced"
      BY <2>3 DEF Apply, Typed, TypeOK, solving
    <2>4. CASE r.then.do = "nothing"
      BY <2>4 DEF Apply, Typed, TypeOK, solving
    <2> QED
      BY <1>1, <2>1, <2>2, <2>3, <2>4
  <1> QED
    BY <1>2, <1>3 DEF Apply, Typed, TypeOK, Named, chain, txs

LEMMA FailRefreshTyped ==
  ASSUME Typed, NEW r \in refreshes, FailRefresh(r)
  PROVE  Typed'
  BY DEF FailRefresh, Typed, TypeOK, Named, chain, txs, pending, solving

LEMMA QueueTyped ==
  ASSUME Typed, NEW t \in Txs, NEW i \in Intents, Queue(t, i)
  PROVE  Typed'
  <1>1. transactions' \in [{"all"} \cup Planets -> Seq(Txs)]
    BY DEF Queue, OnTxIntent, Typed, TypeOK
  <1>2. pendingArrivalsByTx' \in SUBSET Txs /\ drawn' \in SUBSET Txs
    BY DEF Queue, AddPendingArrivalForMove, pending, Typed, TypeOK
  <1>3. intent' \in [Txs -> Intents \cup {NoIntent}] /\ stage' \in [Txs -> Stages]
    BY DEF Queue, Typed, TypeOK, Stages
  <1>4. Named'
    BY DEF Queue, Typed, TypeOK, Named
  <1> QED
    BY <1>1, <1>2, <1>3, <1>4 DEF Queue, Typed, TypeOK, chain, solving, sync

\* The listener of TxErrored, however often it runs.
LEMMA ErroredTyped ==
  ASSUME Typed, NEW t \in Txs, NEW n \in Nat \ {0}, Errored(t, n)
  PROVE  /\ transactions' \in [{"all"} \cup Planets -> Seq(Txs)]
         /\ pendingArrivalsByTx' \in SUBSET Txs /\ drawn' \in SUBSET Txs
         /\ refreshes' \in SUBSET RefreshJob
  <1>1. transactions' \in [{"all"} \cup Planets -> Seq(Txs)]
    BY ClearType DEF Errored, Typed
  <1>2. pendingArrivalsByTx' \in SUBSET Txs /\ drawn' \in SUBSET Txs
    BY DEF Errored, ClearPendingArrivalForMove, Typed, TypeOK
  <1>3. refreshes' \in SUBSET RefreshJob
    <2>1. CASE intent[t].kind = "move"
      <3>1. intent[t] \in Intents
        BY <2>1 DEF Typed, TypeOK, NoIntent
      <3>2. Refresh({intent[t].from, intent[t].to}, Nothing) \in RefreshJob
        BY <3>1, IntentsAssumption, RefreshType, ContinuationTypes
      <3> QED
        BY <2>1, <3>2 DEF Errored, Typed, TypeOK
    <2>2. CASE intent[t].kind # "move"
      BY <2>2 DEF Errored, Typed, TypeOK
    <2> QED
      BY <2>1, <2>2
  <1> QED
    BY <1>1, <1>2, <1>3

LEMMA WatchTyped ==
  ASSUME Typed, NEW t \in Txs, Watch(t)
  PROVE  Typed'
  <1>1. /\ transactions' \in [{"all"} \cup Planets -> Seq(Txs)]
        /\ pendingArrivalsByTx' \in SUBSET Txs /\ drawn' \in SUBSET Txs
        /\ refreshes' \in SUBSET RefreshJob
    <2>1. CASE stage[t] = "unsent"
      <3>1. Errored(t, 2)
        BY <2>1 DEF Watch
      <3> QED
        BY <3>1, ErroredTyped, 2 \in Nat \ {0}
    <2>2. CASE stage[t] # "unsent"
      BY <2>2 DEF Watch, pending, Typed, TypeOK
    <2> QED
      BY <2>1, <2>2
  <1> QED
    BY <1>1 DEF Watch, Typed, TypeOK, Named, chain, sync, solving

LEMMA SendTyped ==
  ASSUME Typed, NEW t \in Txs, Send(t)
  PROVE  Typed'
  BY DEF Send, Typed, TypeOK, Named, Stages, chain, pending, solving, sync

\* Both ends of what a transaction is about are planets.
LEMMA EndsArePlanets ==
  ASSUME Typed, NEW t \in Txs, stage[t] # "none"
  PROVE  /\ intent[t] \in Intents
         /\ intent[t].from \in Planets /\ intent[t].to \in Planets
  BY IntentsAssumption DEF Typed, Named

LEMMA ConfirmTyped ==
  ASSUME Typed, NEW t \in Txs, Confirm(t)
  PROVE  Typed'
  <1>1. intent[t].from \in Planets /\ intent[t].to \in Planets
    BY EndsArePlanets DEF Confirm
  <1>2. /\ Refresh({intent[t].from, intent[t].to}, Then("clear", t, {})) \in RefreshJob
        /\ Refresh({intent[t].from}, Nothing) \in RefreshJob
    BY <1>1, RefreshType, ContinuationTypes
  <1>3. refreshes' \in SUBSET RefreshJob
    BY <1>2 DEF Confirm, Typed, TypeOK
  <1> QED
    BY <1>3 DEF Confirm, ClearPendingArrivalForMove, Typed, TypeOK, Named, Stages, chain,
                solving, sync

LEMMA FailTyped ==
  ASSUME Typed, NEW t \in Txs, Fail(t)
  PROVE  Typed'
  <1> DEFINE n == IF t \notin watched THEN 1 ELSE IF stage[t] = "args" THEN 3 ELSE 2
  <1>1. n \in Nat \ {0} /\ Errored(t, n)
    BY DEF Fail
  <1> HIDE DEF n
  <1>2. /\ transactions' \in [{"all"} \cup Planets -> Seq(Txs)]
        /\ pendingArrivalsByTx' \in SUBSET Txs /\ drawn' \in SUBSET Txs
        /\ refreshes' \in SUBSET RefreshJob
    BY <1>1, ErroredTyped
  <1> QED
    BY <1>2 DEF Fail, Unsettled, Typed, TypeOK, Named, Stages, chain, solving, sync

LEMMA CancelTyped ==
  ASSUME Typed, NEW t \in Txs, Cancel(t)
  PROVE  Typed'
  <1>1. transactions' \in [{"all"} \cup Planets -> Seq(Txs)]
    <2>1. ClearUnconfirmedTxIntent(0, intent[t].from, 1)
      BY DEF Cancel
    <2> QED
      BY <2>1, ClearType, 1 \in Nat \ {0} DEF Typed
  <1> QED
    BY <1>1 DEF Cancel, ClearPendingArrivalForMove, Typed, TypeOK, Named, chain, solving, sync

LEMMA PendingType == ASSUME TypeOK, NEW l PROVE Pending(l) \in SUBSET Voyage
  BY DEF TypeOK, Pending

LEMMA BlockSeenTyped ==
  ASSUME Typed, BlockSeen
  PROVE  Typed'
  <1>1. PICK S \in SUBSET Planets :
          /\ Chosen(S)
          /\ resolvingArrivals' = resolvingArrivals \cup UNION {Pending(l) : l \in S}
          /\ resolvers' = resolvers \cup
               {IF Cardinality(Pending(l)) >= 2 THEN Batch(l, Pending(l))
                ELSE Single(CHOOSE v \in Pending(l) : TRUE) : l \in S}
    BY DEF BlockSeen, ResolveMaturedArrivals
  <1>2. ASSUME NEW l \in S
        PROVE  /\ Batch(l, Pending(l)) \in Resolver
               /\ Single(CHOOSE v \in Pending(l) : TRUE) \in Resolver
    <2>1. Pending(l) \in SUBSET Voyage /\ Pending(l) # {}
      BY <1>1, PendingType DEF Chosen, Typed
    <2>2. (CHOOSE v \in Pending(l) : TRUE) \in Voyage
      BY <2>1
    <2> QED
      BY <2>1, <2>2 DEF Batch, Single, Resolver, Voyage
  <1>3. resolvers' \in SUBSET Resolver /\ resolvingArrivals' \in SUBSET Voyage
    BY <1>1, <1>2, PendingType DEF Typed, TypeOK
  <1> DEFINE elapsed == sinceSync + IF clientBlock < now THEN now - clientBlock ELSE 1
  <1>4. elapsed \in Nat /\ SyncOwnedPlanets(elapsed)
    BY ClientAssumption DEF BlockSeen, Typed, TypeOK
  <1> HIDE DEF elapsed
  <1>5. \A ls \in {Mine} \ {{}} : Refresh(ls, Then("synced", 0, {})) \in RefreshJob
    BY RefreshType, ContinuationTypes, ClientAssumption
  <1>6. /\ sinceSync' \in 0..AZTEC_PLANET_SYNC_INTERVAL_BLOCKS
        /\ syncingPlanetRefresh' \in BOOLEAN
        /\ refreshes' \in SUBSET RefreshJob
    <2>1. CASE ~syncingPlanetRefresh /\ elapsed >= AZTEC_PLANET_SYNC_INTERVAL_BLOCKS
      <3>1. /\ sinceSync' = 0
            /\ syncingPlanetRefresh' = (Mine # {})
            /\ refreshes' = refreshes \cup
                 {Refresh(ls, Then("synced", 0, {})) : ls \in {Mine} \ {{}}}
        BY <1>4, <2>1 DEF SyncOwnedPlanets
      <3> QED
        BY <1>5, <3>1, ClientAssumption DEF Typed, TypeOK
    <2>2. CASE ~(~syncingPlanetRefresh /\ elapsed >= AZTEC_PLANET_SYNC_INTERVAL_BLOCKS)
      <3>1. /\ sinceSync' = IF elapsed < AZTEC_PLANET_SYNC_INTERVAL_BLOCKS THEN elapsed
                            ELSE AZTEC_PLANET_SYNC_INTERVAL_BLOCKS
            /\ UNCHANGED <<syncingPlanetRefresh, refreshes>>
        BY <1>4, <2>2 DEF SyncOwnedPlanets
      <3> QED
        BY <1>4, <3>1, ClientAssumption DEF Typed, TypeOK
    <2> QED
      BY <2>1, <2>2
  <1> QED
    BY <1>3, <1>6 DEF BlockSeen, Typed, TypeOK, Named, chain, txs, pending

LEMMA ResolvedTyped ==
  ASSUME Typed, NEW x \in resolvers, NEW clears, NEW then \in Continuation,
         Resolved(x, clears, then)
  PROVE  /\ resolvers' \in SUBSET Resolver /\ resolvingArrivals' \in SUBSET Voyage
         /\ known' \in SUBSET Voyage /\ refreshes' \in SUBSET RefreshJob
  <1>1. Refresh({x.planet}, then) \in RefreshJob
    BY RefreshType DEF Typed, TypeOK, Resolver
  <1> QED
    BY <1>1 DEF Resolved, Typed, TypeOK

LEMMA ResolverTyped ==
  ASSUME Typed, NEW x \in resolvers, ResolverNext(x)
  PROVE  Typed'
  <1>1. /\ x.batch \in SUBSET Voyage
        /\ \A step \in {"check", "send", "landed"} : [x EXCEPT !.step = step] \in Resolver
    BY DEF Typed, TypeOK, Resolver
  <1>2. Nothing \in Continuation /\ Then("retry", 0, x.batch) \in Continuation
    BY <1>1, ContinuationTypes
  <1>3. CASE CheckArrival(x)
    <2>1. /\ resolvers' \in SUBSET Resolver /\ resolvingArrivals' \in SUBSET Voyage
          /\ known' \in SUBSET Voyage /\ refreshes' \in SUBSET RefreshJob
      <3>1. CASE \E v \in x.batch : v \in sailing /\ Matured(v, now)
        BY <1>1, <1>3, <3>1 DEF CheckArrival, Typed, TypeOK
      <3>2. CASE ~\E v \in x.batch : v \in sailing /\ Matured(v, now)
        <4>1. Resolved(x, x.batch \ sailing, Nothing)
          BY <1>3, <3>2 DEF CheckArrival
        <4> QED
          BY <1>2, <4>1, ResolvedTyped
      <3> QED
        BY <3>1, <3>2
    <2> QED
      BY <1>3, <2>1 DEF CheckArrival, Typed, TypeOK, Named, chain, txs, pending, sync
  <1>4. CASE ResolveLands(x)
    <2>1. \E S : Land(S)
      BY <1>4 DEF ResolveLands
    <2>2. now' = now /\ next' = next /\ sailing' \in SUBSET Voyage
      BY <2>1, LandType DEF Typed
    <2>3. resolvers' \in SUBSET Resolver
      BY <1>1, <1>4 DEF ResolveLands, Typed, TypeOK
    <2> QED
      BY <1>4, <2>2, <2>3 DEF ResolveLands, Typed, TypeOK, Named, txs, pending, sync
  <1>5. CASE ResolveAnswered(x) \/ ResolveFails(x)
    <2>1. \E clears : \E then \in Continuation : Resolved(x, clears, then)
      <3>1. CASE ResolveAnswered(x)
        BY <1>2, <3>1 DEF ResolveAnswered
      <3>2. CASE ResolveFails(x)
        <4>1. CASE x.kind = "single"
          BY <1>2, <3>2, <4>1 DEF ResolveFails
        <4>2. CASE x.kind # "single"
          BY <1>2, <3>2, <4>2 DEF ResolveFails
        <4> QED
          BY <4>1, <4>2
      <3> QED
        BY <1>5, <3>1, <3>2
    <2>2. /\ resolvers' \in SUBSET Resolver /\ resolvingArrivals' \in SUBSET Voyage
          /\ known' \in SUBSET Voyage /\ refreshes' \in SUBSET RefreshJob
      BY <2>1, ResolvedTyped
    <2>3. UNCHANGED <<chain, txs, transactions, pending, sync>>
      BY <1>5 DEF ResolveAnswered, ResolveFails
    <2> QED
      BY <2>2, <2>3 DEF Typed, TypeOK, Named, chain, txs, pending, sync
  <1> QED
    BY <1>3, <1>4, <1>5 DEF ResolverNext

LEMMA InitTyped == Init => Typed
  <1> SUFFICES ASSUME Init PROVE Typed
    OBVIOUS
  <1>1. now \in 1..MaxBlock /\ next \in 1..(MaxArrivals + 1) /\ sailing = {}
    BY ClientAssumption DEF Init, Chain!Init
  <1>2. transactions \in [{"all"} \cup Planets -> Seq(Txs)]
    BY DEF Init
  <1>3. stage \in [Txs -> Stages] /\ voyageOf \in [Txs -> 0..MaxArrivals]
    BY ClientAssumption DEF Init, Stages
  <1>4. clientBlock \in 1..MaxBlock /\ sinceSync \in 0..AZTEC_PLANET_SYNC_INTERVAL_BLOCKS
    BY ClientAssumption DEF Init
  <1> QED
    BY <1>1, <1>2, <1>3, <1>4 DEF Init, Typed, TypeOK, Named

LEMMA StepTyped == Typed /\ [Next]_vars => Typed'
  <1> SUFFICES ASSUME Typed, [Next]_vars PROVE Typed'
    OBVIOUS
  <1>1. CASE NextBlock \/ OthersAct \/ (\E t \in Txs : Mined(t))
    BY <1>1, ChainTyped
  <1>2. CASE BlockSeen
    BY <1>2, BlockSeenTyped
  <1>3. ASSUME NEW t \in Txs, TxNext(t), ~Mined(t) PROVE Typed'
    BY <1>3, QueueTyped, WatchTyped, SendTyped, ConfirmTyped, FailTyped, CancelTyped
       DEF TxNext
  <1>4. ASSUME NEW l \in Asked, AskRefresh(l) PROVE Typed'
    BY <1>4, AskTyped
  <1>5. ASSUME NEW r \in refreshes, RefreshNext(r) PROVE Typed'
    BY <1>5, ReadTyped, ApplyTyped, FailRefreshTyped DEF RefreshNext
  <1>6. ASSUME NEW x \in resolvers, ResolverNext(x) PROVE Typed'
    BY <1>6, ResolverTyped
  <1>7. CASE UNCHANGED vars
    BY <1>7 DEF vars, chain, txs, pending, solving, sync, Typed, TypeOK, Named
  <1> QED
    BY <1>1, <1>2, <1>3, <1>4, <1>5, <1>6, <1>7 DEF Next

THEOREM TypesInductive == Spec => []Typed
  BY InitTyped, StepTyped, PTL DEF Spec

\* Every variable keeps its type: the records the collections hold are of
\* transactions that were queued, however often one is removed, and refreshes and
\* resolutions are about planets and arrivals there are.
THEOREM TypeCorrect == Spec => []TypeOK
  <1>1. Typed => TypeOK
    BY DEF Typed
  <1> QED
    BY <1>1, TypesInductive, PTL

-----------------------------------------------------------------------------
(* Arrivals and moves. *)

\* A step that makes known nothing that was not: it may read, clear and land.
Quiet ==
    /\ next' = next /\ sailing' \subseteq sailing
    /\ known' \subseteq known /\ drawn' \subseteq drawn
    /\ UNCHANGED <<intent, voyageOf, mined>>
    /\ \A t \in Txs : stage'[t] = "none" => stage[t] = "none"
    /\ \A r \in refreshes' :
         \/ r \in refreshes
         \/ r.seen \subseteq sailing /\ \A v \in r.seen : v.to \in r.planets

LEMMA HeardType == ASSUME TypeOK PROVE Heard \in SUBSET Voyage
  BY DEF TypeOK, Heard, RefreshJob

LEMMA QuietKeeps ==
  ASSUME IInv, Quiet
  PROVE  Numbered' /\ Counted' /\ NeverDrawnTwice'
  <1>1. Heard' \subseteq Heard
    BY DEF Quiet, Heard
  <1>2. Numbered'
    BY <1>1 DEF IInv, Quiet, Numbered
  <1>3. Counted'
    <2>1. IsFiniteSet(sailing') /\ IsFiniteSet(known')
      BY FS_Subset DEF IInv, Counted, Quiet
    <2>2. ASSUME NEW r \in refreshes' PROVE IsFiniteSet(r.seen)
      BY <2>2, FS_Subset DEF IInv, Counted, Quiet
    <2> QED
      BY <2>1, <2>2 DEF Counted
  <1>4. NeverDrawnTwice'
    BY DEF IInv, Quiet, NeverDrawnTwice
  <1> QED
    BY <1>2, <1>3, <1>4

\* A voyage that leaves is heard of under a number nobody has heard.
LEMMA SailHeard ==
  ASSUME IInv, NEW from \in Planets, NEW to \in Planets, Sail(from, to),
         UNCHANGED <<known, refreshes>>
  PROVE  \E v \in Voyage :
           /\ v.id = next /\ v.to = to
           /\ Heard' \subseteq Heard \cup {v}
           /\ sailing' \subseteq sailing \cup {v}
           /\ IsFiniteSet(sailing')
           /\ \A u, w \in sailing' : u.id = w.id => u = w
  <1>1. PICK v \in Voyage : /\ sailing' \subseteq sailing \cup {v}
                            /\ v.id = next /\ v.to = to
    BY SailType DEF IInv, Typed
  <1>2. Heard' \subseteq Heard \cup {v}
    BY <1>1 DEF Heard
  <1>3. IsFiniteSet(sailing')
    BY <1>1, FS_AddElement, FS_Subset DEF IInv, Counted
  <1>4. ASSUME NEW u \in sailing', NEW w \in sailing', u.id = w.id PROVE u = w
    <2>1. \A x \in sailing : x.id < next /\ x.id \in Nat
      BY HeardType, VoyageType DEF IInv, Typed, Numbered, Heard
    <2>2. next \in Nat
      BY DEF IInv, Typed, TypeOK
    <2> QED
      BY <1>1, <1>4, <2>1, <2>2 DEF IInv, Numbered
  <1> QED
    BY <1>1, <1>2, <1>3, <1>4

LEMMA ChainKeeps ==
  ASSUME IInv, NextBlock \/ OthersAct
  PROVE  Numbered' /\ Counted' /\ NeverDrawnTwice'
  <1>1. CASE next' = next
    <2>1. sailing' \subseteq sailing
      <3>1. CASE NextBlock
        BY <3>1 DEF NextBlock, Chain!Tick
      <3>2. CASE OthersAct
        <4>1. CASE \E v \in sailing : Land({v})
          BY <4>1, LandType DEF IInv, Typed
        <4>2. ASSUME NEW route \in Routes, Sail(route[1], route[2]) PROVE FALSE
          <5>1. route[1] \in Planets /\ route[2] \in Planets /\ next \in Nat
            BY ClientAssumption DEF IInv, Typed, TypeOK
          <5>2. next' = next + 1
            BY <4>2, <5>1, SailType DEF IInv, Typed
          <5> QED
            BY <1>1, <5>1, <5>2
        <4> QED
          BY <3>2, <4>1, <4>2 DEF OthersAct
      <3> QED
        BY <3>1, <3>2
    <2>2. Quiet
      BY <1>1, <2>1 DEF NextBlock, OthersAct, Quiet, txs, pending
    <2> QED
      BY <2>2, QuietKeeps
  <1>2. CASE next' # next
    <2>1. PICK from \in Planets, to \in Planets : Sail(from, to)
      BY <1>2, LandType, ClientAssumption
         DEF NextBlock, Chain!Tick, OthersAct, IInv, Typed
    <2>2. UNCHANGED <<known, refreshes, txs, drawn>>
      BY DEF NextBlock, OthersAct, pending
    <2>3. PICK v \in Voyage :
            /\ v.id = next /\ v.to = to
            /\ Heard' \subseteq Heard \cup {v}
            /\ IsFiniteSet(sailing')
            /\ \A u, w \in sailing' : u.id = w.id => u = w
      BY <2>1, <2>2, SailHeard
    <2>4. next' = next + 1 /\ next \in Nat /\ \A t \in Txs : voyageOf[t] \in Nat
      BY <2>1, SailType DEF IInv, Typed, TypeOK
    <2>5. \A u \in Heard : u.id \in Nat
      BY HeardType, VoyageType DEF IInv, Typed
    <2>6. \A u \in Heard' : u.id < next'
      BY <2>3, <2>4, <2>5 DEF IInv, Numbered
    <2>7. \A t \in Txs, u \in Heard' : u.id = voyageOf'[t] => u.to = intent'[t].to
      BY <2>2, <2>3, <2>4 DEF IInv, Numbered, txs
    <2>8. Numbered'
      BY <2>2, <2>3, <2>4, <2>6, <2>7 DEF IInv, Numbered, txs
    <2>9. Counted' /\ NeverDrawnTwice'
      BY <2>2, <2>3 DEF IInv, Counted, NeverDrawnTwice, txs
    <2> QED
      BY <2>8, <2>9
  <1> QED
    BY <1>1, <1>2

LEMMA MinedKeeps ==
  ASSUME IInv, NEW t \in Txs, Mined(t)
  PROVE  Numbered' /\ Counted' /\ NeverDrawnTwice'
  <1>1. stage[t] # "none" /\ t \notin mined /\ mined' = mined \cup {t}
    BY DEF Mined
  <1>2. UNCHANGED <<intent, stage, known, refreshes, drawn>>
    BY DEF Mined, pending
  <1>3. /\ intent[t] \in Intents
        /\ intent[t].from \in Planets /\ intent[t].to \in Planets
    BY <1>1, EndsArePlanets DEF IInv
  <1>4. voyageOf \in [Txs -> Nat] /\ next \in Nat
    BY DEF IInv, Typed, TypeOK
  <1>5. \A u \in Heard : u.id \in Nat /\ u.id # 0
    BY HeardType, VoyageType DEF IInv, Typed
  <1>6. CASE intent[t].kind = "move"
    <2>1. Sail(intent[t].from, intent[t].to) /\ voyageOf' = [voyageOf EXCEPT ![t] = next]
      BY <1>6 DEF Mined
    <2>2. PICK v \in Voyage :
            /\ v.id = next /\ v.to = intent[t].to
            /\ Heard' \subseteq Heard \cup {v}
            /\ IsFiniteSet(sailing')
            /\ \A u, w \in sailing' : u.id = w.id => u = w
      BY <1>2, <1>3, <2>1, SailHeard
    <2>3. next' = next + 1
      BY <1>3, <2>1, SailType DEF IInv, Typed
    <2>4. \A u \in Heard' : u.id < next'
      BY <1>4, <1>5, <2>2, <2>3 DEF IInv, Numbered
    <2>5. \A s \in Txs : voyageOf'[s] < next' /\ (s \notin mined' => voyageOf'[s] = 0)
      BY <1>1, <1>4, <2>1, <2>3 DEF IInv, Numbered
    <2>6. ASSUME NEW s \in Txs, NEW u \in Heard', u.id = voyageOf'[s]
          PROVE  u.to = intent'[s].to
      <3>1. CASE s = t
        <4>1. u.id = next
          BY <1>4, <2>1, <2>6, <3>1
        <4>2. u = v
          BY <1>4, <1>5, <2>2, <4>1 DEF IInv, Numbered
        <4> QED
          BY <1>2, <2>2, <3>1, <4>2
      <3>2. CASE s # t
        <4>1. u.id = voyageOf[s] /\ voyageOf[s] < next
          BY <1>4, <2>1, <2>6, <3>2 DEF IInv, Numbered
        <4>2. u \in Heard
          BY <1>4, <2>2, <4>1
        <4> QED
          BY <1>2, <4>1, <4>2 DEF IInv, Numbered
      <3> QED
        BY <3>1, <3>2
    <2>7. \A s \in Txs : stage'[s] = "none" => s \notin mined'
      BY <1>1, <1>2 DEF IInv, Numbered
    <2>8. Numbered'
      BY <1>2, <2>2, <2>4, <2>5, <2>6, <2>7 DEF IInv, Numbered
    <2>9. Counted'
      BY <1>2, <2>2 DEF IInv, Counted
    <2>10. ASSUME NEW s \in drawn', NEW u \in known' PROVE u.id # voyageOf'[s]
      <3>1. u \in Heard /\ s \in drawn /\ s \in Txs
        BY <1>2, <2>10 DEF Heard, IInv, Typed, TypeOK
      <3>2. u.id < next /\ u.id # voyageOf[s]
        BY <1>2, <2>10, <3>1 DEF IInv, Numbered, NeverDrawnTwice
      <3> QED
        BY <1>4, <1>5, <2>1, <3>1, <3>2
    <2> QED
      BY <2>8, <2>9, <2>10 DEF NeverDrawnTwice
  <1>7. CASE intent[t].kind # "move"
    <2>1. next' = next /\ sailing' \subseteq sailing /\ voyageOf' = voyageOf
      BY <1>7, LandType DEF Mined, IInv, Typed, chain
    <2>2. Heard' \subseteq Heard
      BY <1>2, <2>1 DEF Heard
    <2>3. \A s \in Txs : stage'[s] = "none" => s \notin mined'
      BY <1>1, <1>2 DEF IInv, Numbered
    <2>4. Numbered'
      BY <1>1, <1>2, <2>1, <2>2, <2>3 DEF IInv, Numbered
    <2>5. Counted'
      BY <1>2, <2>1, FS_Subset DEF IInv, Counted
    <2>6. NeverDrawnTwice'
      BY <1>2, <2>1 DEF IInv, NeverDrawnTwice
    <2> QED
      BY <2>4, <2>5, <2>6
  <1> QED
    BY <1>6, <1>7

\* The arrivals of a planet are replaced together with the move drawn to it.
LEMMA ApplyKeeps ==
  ASSUME IInv, NEW r \in refreshes, Apply(r)
  PROVE  Numbered' /\ Counted' /\ NeverDrawnTwice'
  <1>1. /\ known' = {v \in known : v.to \notin r.planets} \cup r.seen
        /\ drawn' = {t \in drawn : intent[t].to \notin r.planets}
        /\ refreshes' = refreshes \ {r}
    BY DEF Apply, Replace
  <1>2. UNCHANGED <<chain, txs>>
    BY DEF Apply
  <1>3. Heard' \subseteq Heard
    BY <1>1, <1>2 DEF Heard, chain
  <1>4. Numbered'
    BY <1>1, <1>2, <1>3 DEF IInv, Numbered, chain, txs
  <1>5. Counted'
    <2>1. IsFiniteSet({v \in known : v.to \notin r.planets}) /\ IsFiniteSet(r.seen)
      BY FS_Subset DEF IInv, Counted
    <2>2. IsFiniteSet(known')
      BY <1>1, <2>1, FS_Union
    <2> QED
      BY <1>1, <1>2, <2>2 DEF IInv, Counted, chain
  <1>6. ASSUME NEW t \in drawn', NEW v \in known' PROVE v.id # voyageOf[t]
    <2>1. t \in drawn /\ t \in Txs /\ intent[t].to \notin r.planets
      BY <1>1, <1>6 DEF IInv, Typed, TypeOK
    <2>2. CASE v \in known
      BY <2>1, <2>2 DEF IInv, NeverDrawnTwice
    <2>3. CASE v \in r.seen
      <3>1. v \in Heard /\ v.to \in r.planets
        BY <2>3 DEF Heard, IInv, Numbered
      <3> QED
        BY <2>1, <3>1 DEF IInv, Numbered
    <2> QED
      BY <1>1, <2>2, <2>3
  <1> QED
    BY <1>2, <1>4, <1>5, <1>6 DEF NeverDrawnTwice, txs

LEMMA QueueKeeps ==
  ASSUME IInv, NEW t \in Txs, NEW i \in Intents, Queue(t, i)
  PROVE  Numbered' /\ Counted' /\ NeverDrawnTwice'
  <1>1. /\ stage[t] = "none"
        /\ intent' = [intent EXCEPT ![t] = i] /\ stage' = [stage EXCEPT ![t] = "args"]
        /\ UNCHANGED <<chain, mined, voyageOf, known, refreshes>>
        /\ drawn' \subseteq drawn \cup {t}
    BY DEF Queue, AddPendingArrivalForMove, pending
  <1>2. intent \in [Txs -> Intents \cup {NoIntent}] /\ stage \in [Txs -> Stages]
    BY DEF IInv, Typed, TypeOK
  <1>3. voyageOf[t] = 0
    BY <1>1 DEF IInv, Numbered
  <1>4. \A u \in Heard : u.id # 0
    BY HeardType, VoyageType DEF IInv, Typed
  <1>5. Heard' = Heard
    BY <1>1 DEF Heard, chain
  <1>6. \A s \in Txs, u \in Heard : u.id = voyageOf[s] => u.to = intent'[s].to
    BY <1>1, <1>2, <1>3, <1>4 DEF IInv, Numbered
  <1>7. \A s \in Txs : stage'[s] = "none" => s \notin mined
    BY <1>1, <1>2 DEF IInv, Numbered
  <1>8. Numbered'
    BY <1>1, <1>5, <1>6, <1>7 DEF IInv, Numbered, chain
  <1>9. Counted'
    BY <1>1 DEF IInv, Counted, chain
  <1>10. NeverDrawnTwice'
    BY <1>1, <1>3, <1>4 DEF IInv, NeverDrawnTwice, Heard
  <1> QED
    BY <1>8, <1>9, <1>10

\* The other steps are quiet.
LEMMA RefreshesQuiet ==
  ASSUME IInv
  PROVE  /\ \A l \in Asked : AskRefresh(l) => Quiet
         /\ \A r \in refreshes : ReadArrivals(r) \/ FailRefresh(r) => Quiet
  <1>1. ASSUME NEW l \in Asked, AskRefresh(l) PROVE Quiet
    BY <1>1, RefreshFields DEF AskRefresh, Quiet, chain, txs, pending
  <1>2. ASSUME NEW r \in refreshes, ReadArrivals(r) PROVE Quiet
    <2> DEFINE read == [r EXCEPT !.read = TRUE,
                                 !.seen = {v \in sailing : v.to \in r.planets}]
    <2>1. read.seen = {v \in sailing : v.to \in r.planets} /\ read.planets = r.planets
      BY DEF IInv, Typed, TypeOK, RefreshJob
    <2>2. refreshes' = (refreshes \ {r}) \cup {read}
      BY <1>2 DEF ReadArrivals
    <2> HIDE DEF read
    <2> QED
      BY <1>2, <2>1, <2>2 DEF ReadArrivals, Quiet, chain, txs, pending
  <1>3. ASSUME NEW r \in refreshes, FailRefresh(r) PROVE Quiet
    BY <1>3 DEF FailRefresh, Quiet, chain, txs, pending
  <1> QED
    BY <1>1, <1>2, <1>3

LEMMA ErroredQuiet ==
  ASSUME IInv, NEW t \in Txs, NEW n, Errored(t, n)
  PROVE  /\ drawn' \subseteq drawn
         /\ \A r \in refreshes' : r \in refreshes \/ r.seen = {}
  BY RefreshFields DEF Errored, ClearPendingArrivalForMove

LEMMA TxQuiet ==
  ASSUME IInv, NEW t \in Txs, Watch(t) \/ Send(t) \/ Confirm(t) \/ Fail(t) \/ Cancel(t)
  PROVE  Quiet
  <1>1. /\ UNCHANGED <<chain, intent, mined, voyageOf, known>>
        /\ \A s \in Txs : stage'[s] = "none" => stage[s] = "none"
    BY DEF Watch, Send, Confirm, Fail, Cancel, IInv, Typed, TypeOK
  <1>2. /\ drawn' \subseteq drawn
        /\ \A r \in refreshes' : r \in refreshes \/ r.seen = {}
    <2>1. CASE Watch(t)
      BY <2>1, ErroredQuiet DEF Watch, pending
    <2>2. CASE Send(t)
      BY <2>2 DEF Send, pending
    <2>3. CASE Confirm(t)
      BY <2>3, RefreshFields DEF Confirm, ClearPendingArrivalForMove
    <2>4. CASE Fail(t)
      BY <2>4, ErroredQuiet DEF Fail
    <2>5. CASE Cancel(t)
      BY <2>5 DEF Cancel, ClearPendingArrivalForMove
    <2> QED
      BY <2>1, <2>2, <2>3, <2>4, <2>5
  <1> QED
    BY <1>1, <1>2 DEF Quiet, chain

LEMMA ResolutionQuiet ==
  ASSUME IInv, BlockSeen \/ (\E x \in resolvers : ResolverNext(x))
  PROVE  Quiet
  <1>1. CASE BlockSeen
    <2>1. \A r \in refreshes' : r \in refreshes \/ r.seen = {}
      BY <1>1, RefreshFields DEF BlockSeen, SyncOwnedPlanets
    <2> QED
      BY <1>1, <2>1 DEF BlockSeen, Quiet, chain, txs, pending
  <1>2. ASSUME NEW x \in resolvers, ResolverNext(x) PROVE Quiet
    <2>1. UNCHANGED <<next, txs, drawn>> /\ sailing' \subseteq sailing
      BY <1>2, LandType DEF ResolverNext, CheckArrival, ResolveLands, ResolveAnswered,
         ResolveFails, IInv, Typed, chain, pending
    <2>2. ASSUME NEW clears, NEW then, Resolved(x, clears, then)
          PROVE  /\ known' \subseteq known
                 /\ \A r \in refreshes' : r \in refreshes \/ r.seen = {}
      BY <2>2, RefreshFields DEF Resolved
    <2>3. /\ known' \subseteq known
          /\ \A r \in refreshes' : r \in refreshes \/ r.seen = {}
      <3>1. CASE CheckArrival(x)
        BY <2>2, <3>1 DEF CheckArrival
      <3>2. CASE ResolveLands(x)
        BY <3>2 DEF ResolveLands
      <3>3. CASE ResolveAnswered(x)
        BY <2>2, <3>3 DEF ResolveAnswered
      <3>4. CASE ResolveFails(x)
        BY <2>2, <3>4 DEF ResolveFails
      <3> QED
        BY <1>2, <3>1, <3>2, <3>3, <3>4 DEF ResolverNext
    <2> QED
      BY <2>1, <2>3 DEF Quiet, txs
  <1> QED
    BY <1>1, <1>2

LEMMA StepKeeps ==
  ASSUME IInv, [Next]_vars
  PROVE  Numbered' /\ Counted' /\ NeverDrawnTwice'
  <1>1. CASE NextBlock \/ OthersAct
    BY <1>1, ChainKeeps
  <1>2. ASSUME NEW t \in Txs, TxNext(t)
        PROVE  Numbered' /\ Counted' /\ NeverDrawnTwice'
    BY <1>2, QueueKeeps, MinedKeeps, TxQuiet, QuietKeeps DEF TxNext
  <1>3. ASSUME NEW r \in refreshes, RefreshNext(r)
        PROVE  Numbered' /\ Counted' /\ NeverDrawnTwice'
    BY <1>3, ApplyKeeps, RefreshesQuiet, QuietKeeps DEF RefreshNext
  <1>4. CASE BlockSeen \/ (\E l \in Asked : AskRefresh(l))
             \/ (\E x \in resolvers : ResolverNext(x))
    BY <1>4, ResolutionQuiet, RefreshesQuiet, QuietKeeps
  <1>5. CASE UNCHANGED vars
    <2>1. Quiet
      BY <1>5 DEF vars, chain, txs, pending, Quiet
    <2> QED
      BY <2>1, QuietKeeps
  <1> QED
    BY <1>1, <1>2, <1>3, <1>4, <1>5 DEF Next

-----------------------------------------------------------------------------
(* Resolutions. *)

\* A set of resolutions, each with arrivals of its own, and what they resolve.
Apart(S, resolving) ==
    /\ resolving = UNION {x.batch : x \in S}
    /\ \A x, y \in S : x.batch \cap y.batch # {} => x = y

LEMMA ExactIsApart == ResolvingExact <=> Apart(resolvers, resolvingArrivals)
  BY DEF ResolvingExact, Apart

LEMMA ApartEnds ==
  ASSUME NEW S, NEW resolving, NEW x \in S, Apart(S, resolving)
  PROVE  Apart(S \ {x}, resolving \ x.batch)
  BY DEF Apart

LEMMA ApartGoesOn ==
  ASSUME NEW S, NEW resolving, NEW x \in S, Apart(S, resolving), NEW y,
         y.batch = x.batch
  PROVE  Apart((S \ {x}) \cup {y}, resolving)
  BY DEF Apart

LEMMA SingleBatch == \A v : Single(v).batch = {v}
  BY DEF Single

\* queueResolveArrival asks resolvingArrivals first.
LEMMA QueueApart ==
  ASSUME NEW S, ResolvingExact, QueueResolveArrivals(S)
  PROVE  ResolvingExact'
  <1>1. PICK queued :
          /\ queued \subseteq S \ resolvingArrivals
          /\ resolvingArrivals' = resolvingArrivals \cup queued
          /\ resolvers' = resolvers \cup {Single(v) : v \in queued}
    BY DEF QueueResolveArrivals
  <1>2. resolvingArrivals' = UNION {x.batch : x \in resolvers'}
    <2>1. ASSUME NEW v
          PROVE  (\E x \in resolvers' : v \in x.batch)
                   <=> (\E x \in resolvers : v \in x.batch) \/ v \in queued
      BY <1>1, SingleBatch
    <2>2. ASSUME NEW v
          PROVE  (\E x \in resolvers : v \in x.batch) <=> v \in resolvingArrivals
      BY DEF ResolvingExact
    <2>3. ASSUME NEW v
          PROVE  v \in resolvingArrivals' <=> \E x \in resolvers' : v \in x.batch
      BY <1>1, <2>1, <2>2
    <2> QED
      BY <2>3
  <1>3. ASSUME NEW x \in resolvers', NEW y \in resolvers', x.batch \cap y.batch # {}
        PROVE  x = y
    <2>1. \A z \in resolvers : z.batch \subseteq resolvingArrivals
      BY DEF ResolvingExact
    <2>2. CASE x \in resolvers /\ y \in resolvers
      BY <1>3, <2>2 DEF ResolvingExact
    <2>3. CASE x \in resolvers /\ y \notin resolvers
      BY <1>1, <1>3, <2>1, <2>3, SingleBatch
    <2>4. CASE x \notin resolvers /\ y \in resolvers
      BY <1>1, <1>3, <2>1, <2>4, SingleBatch
    <2>5. CASE x \notin resolvers /\ y \notin resolvers
      BY <1>1, <1>3, <2>5, SingleBatch
    <2> QED
      BY <2>2, <2>3, <2>4, <2>5
  <1> QED
    BY <1>2, <1>3 DEF ResolvingExact

\* resolveMaturedArrivals takes what is not being resolved: all that is due of a
\* planet by one resolution, a single one if there is no more than one.
LEMMA BlockSeenApart ==
  ASSUME IInv, BlockSeen
  PROVE  ResolvingExact'
  <1>1. PICK S \in SUBSET Planets :
          /\ Chosen(S)
          /\ resolvingArrivals' = resolvingArrivals \cup UNION {Pending(l) : l \in S}
          /\ resolvers' = resolvers \cup
               {IF Cardinality(Pending(l)) >= 2 THEN Batch(l, Pending(l))
                ELSE Single(CHOOSE v \in Pending(l) : TRUE) : l \in S}
    BY DEF BlockSeen, ResolveMaturedArrivals
  <1> DEFINE New(l) == IF Cardinality(Pending(l)) >= 2 THEN Batch(l, Pending(l))
                       ELSE Single(CHOOSE v \in Pending(l) : TRUE)
  <1>2. ASSUME NEW l \in S PROVE New(l).batch = Pending(l)
    <2>1. CASE Cardinality(Pending(l)) >= 2
      BY <2>1 DEF Batch
    <2>2. CASE ~(Cardinality(Pending(l)) >= 2)
      <3>1. IsFiniteSet(Pending(l)) /\ Pending(l) # {}
        BY <1>1, FS_Subset DEF IInv, Counted, Pending, Chosen
      <3>2. Cardinality(Pending(l)) = 1
        BY <2>2, <3>1, FS_EmptySet, FS_CardinalityType
      <3>3. PICK v : Pending(l) = {v}
        BY <3>1, <3>2, FS_Singleton
      <3> QED
        BY <2>2, <3>3, SingleBatch
    <2> QED
      BY <2>1, <2>2
  <1>3. resolvers' = resolvers \cup {New(l) : l \in S}
    BY <1>1
  <1>4. \A l \in S : Pending(l) \cap resolvingArrivals = {} /\ \A v \in Pending(l) : v.to = l
    BY DEF Pending
  <1> HIDE DEF New
  <1>5. resolvingArrivals' = UNION {x.batch : x \in resolvers'}
    <2>1. ASSUME NEW v
          PROVE  (\E x \in resolvers' : v \in x.batch)
                   <=> (\E x \in resolvers : v \in x.batch) \/ (\E l \in S : v \in Pending(l))
      BY <1>2, <1>3
    <2>2. ASSUME NEW v
          PROVE  (\E x \in resolvers : v \in x.batch) <=> v \in resolvingArrivals
      BY DEF IInv, ResolvingExact
    <2>3. ASSUME NEW v
          PROVE  v \in resolvingArrivals' <=> \E x \in resolvers' : v \in x.batch
      BY <1>1, <2>1, <2>2
    <2> QED
      BY <2>3
  <1>6. ASSUME NEW x \in resolvers', NEW y \in resolvers', x.batch \cap y.batch # {}
        PROVE  x = y
    <2>1. \A z \in resolvers : z.batch \subseteq resolvingArrivals
      BY DEF IInv, ResolvingExact
    <2>2. CASE x \in resolvers /\ y \in resolvers
      BY <1>6, <2>2 DEF IInv, ResolvingExact
    <2>3. CASE x \in resolvers /\ y \notin resolvers
      BY <1>2, <1>3, <1>4, <1>6, <2>1, <2>3
    <2>4. CASE x \notin resolvers /\ y \in resolvers
      BY <1>2, <1>3, <1>4, <1>6, <2>1, <2>4
    <2>5. CASE x \notin resolvers /\ y \notin resolvers
      <3>1. PICK l \in S, k \in S : x = New(l) /\ y = New(k)
        BY <1>3, <2>5
      <3>2. l = k
        BY <1>2, <1>4, <1>6, <3>1
      <3> QED
        BY <3>1, <3>2
    <2> QED
      BY <2>2, <2>3, <2>4, <2>5
  <1> QED
    BY <1>5, <1>6 DEF ResolvingExact

LEMMA ResolverApart ==
  ASSUME IInv, NEW x \in resolvers, ResolverNext(x)
  PROVE  ResolvingExact'
  <1>1. Apart(resolvers, resolvingArrivals) /\ x \in Resolver
    BY ExactIsApart DEF IInv, Typed, TypeOK
  <1>2. \A step : [x EXCEPT !.step = step].batch = x.batch
    BY <1>1 DEF Resolver
  <1>3. ASSUME NEW clears, NEW then, Resolved(x, clears, then)
        PROVE  ResolvingExact'
    BY <1>1, <1>3, ApartEnds, ExactIsApart DEF Resolved, ResolvingExact, Apart
  <1>4. ASSUME NEW step, resolvers' = (resolvers \ {x}) \cup {[x EXCEPT !.step = step]},
               UNCHANGED resolvingArrivals
        PROVE  ResolvingExact'
    <2>1. PICK y : y = [x EXCEPT !.step = step]
      OBVIOUS
    <2>2. y.batch = x.batch
      BY <1>2, <2>1
    <2>3. Apart((resolvers \ {x}) \cup {y}, resolvingArrivals)
      BY <1>1, <2>2, ApartGoesOn
    <2>4. Apart(resolvers', resolvingArrivals')
      BY <1>4, <2>1, <2>3
    <2> QED
      BY <2>4 DEF ResolvingExact, Apart
  <1>5. CASE CheckArrival(x)
    <2>1. \/ Resolved(x, x.batch \ sailing, Nothing)
          \/ /\ resolvers' = (resolvers \ {x}) \cup {[x EXCEPT !.step = "send"]}
             /\ UNCHANGED resolvingArrivals
      BY <1>5 DEF CheckArrival
    <2> QED
      BY <1>3, <1>4, <2>1
  <1>6. CASE ResolveLands(x)
    BY <1>4, <1>6 DEF ResolveLands
  <1>7. CASE ResolveAnswered(x)
    BY <1>3, <1>7 DEF ResolveAnswered
  <1>8. CASE ResolveFails(x)
    BY <1>3, <1>8 DEF ResolveFails
  <1> QED
    BY <1>5, <1>6, <1>7, <1>8 DEF ResolverNext

LEMMA StepApart ==
  ASSUME IInv, [Next]_vars
  PROVE  ResolvingExact'
  <1>1. CASE UNCHANGED solving
    BY <1>1 DEF IInv, ResolvingExact, solving
  <1>2. CASE BlockSeen
    BY <1>2, BlockSeenApart
  <1>3. ASSUME NEW r \in refreshes, Apply(r) PROVE ResolvingExact'
    <2>1. CASE r.then.do = "retry"
      <3>1. QueueResolveArrivals(r.then.batch)
        BY <1>3, <2>1 DEF Apply
      <3> QED
        BY <3>1, QueueApart DEF IInv
    <2>2. CASE r.then.do # "retry"
      <3>1. UNCHANGED solving
        BY <1>3, <2>2 DEF Apply, solving
      <3> QED
        BY <1>1, <3>1
    <2> QED
      BY <2>1, <2>2
  <1>4. ASSUME NEW x \in resolvers, ResolverNext(x) PROVE ResolvingExact'
    BY <1>4, ResolverApart
  <1>5. CASE NextBlock \/ OthersAct \/ (\E l \in Asked : AskRefresh(l))
    BY <1>1, <1>5 DEF NextBlock, OthersAct, AskRefresh
  <1>6. ASSUME NEW t \in Txs, TxNext(t) PROVE UNCHANGED solving
    BY <1>6 DEF TxNext, Queue, Watch, Send, Mined, Confirm, Fail, Cancel
  <1>7. ASSUME NEW r \in refreshes, ReadArrivals(r) \/ FailRefresh(r)
        PROVE  UNCHANGED solving
    BY <1>7 DEF ReadArrivals, FailRefresh
  <1>8. CASE UNCHANGED vars
    BY <1>1, <1>8 DEF vars
  <1> QED
    BY <1>1, <1>2, <1>3, <1>4, <1>5, <1>6, <1>7, <1>8 DEF Next, RefreshNext

-----------------------------------------------------------------------------
(* Theorems. *)

LEMMA InitHolds == Init => IInv
  <1> SUFFICES ASSUME Init PROVE IInv
    OBVIOUS
  <1>1. sailing = {} /\ known = {} /\ refreshes = {} /\ drawn = {} /\ resolvers = {}
        /\ resolvingArrivals = {} /\ mined = {} /\ next = 1
        /\ voyageOf = [t \in Txs |-> 0]
    BY DEF Init, Chain!Init
  <1>2. Heard = {}
    BY <1>1 DEF Heard
  <1>3. Numbered /\ Counted
    BY <1>1, <1>2, FS_EmptySet DEF Numbered, Counted
  <1>4. ResolvingExact /\ NeverDrawnTwice
    BY <1>1 DEF ResolvingExact, NeverDrawnTwice
  <1> QED
    BY <1>3, <1>4, InitTyped DEF IInv

LEMMA StepHolds == IInv /\ [Next]_vars => IInv'
  BY StepTyped, StepKeeps, StepApart DEF IInv

THEOREM ClientInductive == Spec => []IInv
  BY InitHolds, StepHolds, PTL DEF Spec

\* No arrival is resolved by two resolutions at a time, and what is taken for
\* being resolved is, however many batches fail and are retried one by one.
THEOREM ResolvingIsExact == Spec => []ResolvingExact
  <1>1. IInv => ResolvingExact
    BY DEF IInv
  <1> QED
    BY <1>1, ClientInductive, PTL

\* No move is shown twice, whatever reads of the chain are late or stale.
THEOREM MovesDrawnOnce == Spec => []NeverDrawnTwice
  <1>1. IInv => NeverDrawnTwice
    BY DEF IInv
  <1> QED
    BY <1>1, ClientInductive, PTL

-----------------------------------------------------------------------------
(* Records of transactions. *)

In(c, t) == \E i \in 1..Len(transactions[c]) : transactions[c][i] = t

OnRecord(t) == In("all", t) /\ In(intent[t].from, t)

Clean == \A u \in Txs : ~Failed(u) /\ u \notin cancelled

Ends(r) == r.then.do = "clear"

\* A transaction under way has its two records, and keeps them until the refresh
\* that follows its confirmation is over; there is one such refresh.
Recorded ==
    /\ \A t \in Txs : Unsettled(t) => OnRecord(t)
    /\ \A r \in refreshes : Ends(r) =>
         r.then.tx \in Txs /\ stage[r.then.tx] = "confirmed" /\ OnRecord(r.then.tx)
    /\ \A r, s \in refreshes : Ends(r) /\ Ends(s) /\ r.then.tx = s.then.tx => r = s

RInv == Clean => Recorded

\* What removes a record that is there removes no other.
LEMMA RemoveOther ==
  ASSUME NEW list \in Seq(Txs), NEW t, NEW u, u # t,
         \E i \in 1..Len(list) : list[i] = t, NEW k \in 1..Len(list), list[k] = u
  PROVE  \E j \in 1..Len(RemoveTransaction(list, t, 1)) :
           RemoveTransaction(list, t, 1)[j] = u
  <1> DEFINE at   == {i \in 1..Len(list) : list[i] = t}
             i    == CHOOSE i \in at : TRUE
             rest == RemoveAt(list, i)
             left == RemoveTransaction(list, t, 1)
  <1>1. i \in 1..Len(list) /\ list[i] = t /\ at # {}
    OBVIOUS
  <1> HIDE DEF i
  <1>2. rest \in Seq(Txs) /\ Len(rest) = Len(list) - 1
        /\ \A j \in 1..Len(rest) : rest[j] = IF j < i THEN list[j] ELSE list[j + 1]
    <2>1. rest = [j \in 1..(Len(list) - 1) |-> IF j < i THEN list[j] ELSE list[j + 1]]
      BY DEF RemoveAt
    <2>2. rest \in Seq(Txs)
      BY <1>1, RemoveAtType
    <2>3. Len(list) - 1 \in Nat
      BY <1>1
    <2> HIDE DEF rest
    <2>4. DOMAIN rest = 1..(Len(list) - 1)
      BY <2>1
    <2>5. Len(rest) = Len(list) - 1
      BY <2>2, <2>3, <2>4
    <2> QED
      BY <2>1, <2>2, <2>5
  <1> HIDE DEF rest
  <1>3. left = DropLast(rest, 0)
    BY <1>1 DEF RemoveTransaction, i, rest
  <1>4. Len(rest) - 0 = Len(rest) /\ Len(rest) \in Nat
    BY <1>2
  <1>5. left = [j \in 1..Len(rest) |-> rest[j]]
    BY <1>3, <1>4 DEF DropLast
  <1>6. left = rest
    BY <1>2, <1>5
  <1> HIDE DEF left
  <1>7. k # i
    BY <1>1
  <1>8. CASE k < i
    <2>1. k \in 1..Len(rest) /\ rest[k] = u
      BY <1>1, <1>2, <1>8
    <2> QED
      BY <1>6, <2>1 DEF left
  <1>9. CASE k > i
    <2>1. k - 1 \in 1..Len(rest) /\ rest[k - 1] = u
      BY <1>1, <1>2, <1>9
    <2> QED
      BY <1>6, <2>1 DEF left
  <1> QED
    BY <1>1, <1>7, <1>8, <1>9

\* A step that touches no record, and starts no refresh that will.
LEMMA RecordsQuiet ==
  ASSUME RInv, Clean, UNCHANGED <<transactions, intent, stage>>,
         \A r \in refreshes' : r \in refreshes \/ ~Ends(r)
  PROVE  Recorded'
  BY DEF RInv, Recorded, OnRecord, In, Unsettled

LEMMA NotEnding ==
  ASSUME NEW ls, NEW batch, NEW what \in {"retry", "synced"}
  PROVE  ~Ends(Refresh(ls, Nothing)) /\ ~Ends(Refresh(ls, Then(what, 0, batch)))
  BY DEF Ends, Refresh, Then, Nothing

LEMMA ReadRecords ==
  ASSUME Typed, RInv, Clean, NEW r \in refreshes, ReadArrivals(r)
  PROVE  Recorded'
  <1> DEFINE read == [r EXCEPT !.read = TRUE,
                               !.seen = {v \in sailing : v.to \in r.planets}]
  <1>1. r \in RefreshJob
    BY DEF Typed, TypeOK
  <1>2. read.then = r.then
    BY <1>1 DEF RefreshJob
  <1>3. refreshes' = (refreshes \ {r}) \cup {read}
        /\ UNCHANGED <<transactions, intent, stage>>
    BY DEF ReadArrivals, txs
  <1> HIDE DEF read
  <1>4. \A u \in Txs : (OnRecord(u)' <=> OnRecord(u)) /\ (Unsettled(u)' <=> Unsettled(u))
    BY <1>3 DEF OnRecord, In, Unsettled
  <1>5. \A u \in Txs : Unsettled(u)' => OnRecord(u)'
    BY <1>4 DEF RInv, Recorded
  <1>6. \A s \in refreshes' : \E q \in refreshes :
          /\ s.then = q.then
          /\ s = IF q = r THEN read ELSE q
    BY <1>2, <1>3
  <1>7. \A s \in refreshes' : Ends(s) =>
          s.then.tx \in Txs /\ stage'[s.then.tx] = "confirmed" /\ OnRecord(s.then.tx)'
    BY <1>3, <1>4, <1>6 DEF RInv, Recorded, Ends
  <1>8. ASSUME NEW s \in refreshes', NEW q \in refreshes', Ends(s), Ends(q),
               s.then.tx = q.then.tx
        PROVE  s = q
    <2>1. PICK a \in refreshes : s.then = a.then /\ s = IF a = r THEN read ELSE a
      BY <1>6
    <2>2. PICK b \in refreshes : q.then = b.then /\ q = IF b = r THEN read ELSE b
      BY <1>6
    <2>3. a = b
      BY <1>8, <2>1, <2>2 DEF RInv, Recorded, Ends
    <2> QED
      BY <2>1, <2>2, <2>3
  <1> QED
    BY <1>5, <1>7, <1>8 DEF Recorded

\* The refresh after a confirmation is over: the record it removes is there.
LEMMA ClearRecords ==
  ASSUME Typed, RInv, Clean, NEW r \in refreshes, Apply(r), Ends(r)
  PROVE  Recorded'
  <1> DEFINE t == r.then.tx
  <1>1. t \in Txs /\ stage[t] = "confirmed" /\ OnRecord(t)
    BY DEF RInv, Recorded
  <1>2. /\ ClearUnconfirmedTxIntent(t, intent[t].from, 1)
        /\ UNCHANGED <<intent, stage>> /\ refreshes' = refreshes \ {r}
    BY DEF Apply, Ends, txs
  <1>3. /\ intent[t].from \in Planets
        /\ transactions \in [{"all"} \cup Planets -> Seq(Txs)]
    BY <1>1, EndsArePlanets DEF Typed, TypeOK
  <1> HIDE DEF t
  <1>4. ASSUME NEW c \in {"all"} \cup Planets, NEW u \in Txs, u # t, In(c, u)
        PROVE  In(c, u)'
    <2>1. CASE c \in {"all", intent[t].from}
      <3>1. transactions'[c] = RemoveTransaction(transactions[c], t, 1)
        BY <1>2, <1>3, <2>1 DEF ClearUnconfirmedTxIntent
      <3>2. \E i \in 1..Len(transactions[c]) : transactions[c][i] = t
        BY <1>1, <2>1 DEF OnRecord, In
      <3>3. transactions[c] \in Seq(Txs)
        BY <1>3
      <3>4. PICK k \in 1..Len(transactions[c]) : transactions[c][k] = u
        BY <1>4 DEF In
      <3>5. PICK list \in Seq(Txs) : list = transactions[c]
        BY <3>3
      <3>6. PICK i \in 1..Len(list) : list[i] = t
        BY <3>2, <3>5
      <3>7. k \in 1..Len(list) /\ list[k] = u
        BY <3>4, <3>5
      <3>8. \E j \in 1..Len(RemoveTransaction(list, t, 1)) :
              RemoveTransaction(list, t, 1)[j] = u
        BY <1>4, <3>6, <3>7, RemoveOther
      <3> QED
        BY <3>1, <3>5, <3>8 DEF In
    <2>2. CASE c \notin {"all", intent[t].from}
      BY <1>2, <1>3, <1>4, <2>2 DEF ClearUnconfirmedTxIntent, In
    <2> QED
      BY <2>1, <2>2
  <1>5. ASSUME NEW u \in Txs, u # t, stage[u] # "none", OnRecord(u) PROVE OnRecord(u)'
    <2>1. intent[u].from \in Planets
      BY <1>5, EndsArePlanets
    <2> QED
      BY <1>2, <1>4, <1>5, <2>1 DEF OnRecord
  <1>6. \A u \in Txs : Unsettled(u)' => OnRecord(u)'
    BY <1>1, <1>2, <1>5 DEF RInv, Recorded, Unsettled
  <1>7. ASSUME NEW s \in refreshes', Ends(s)
        PROVE  s.then.tx \in Txs /\ stage'[s.then.tx] = "confirmed" /\ OnRecord(s.then.tx)'
    <2>1. s \in refreshes /\ s # r
      BY <1>2, <1>7
    <2>2. s.then.tx # t
      BY <1>7, <2>1 DEF RInv, Recorded, t
    <2> QED
      BY <1>2, <1>5, <1>7, <2>1, <2>2 DEF RInv, Recorded
  <1>8. \A q, s \in refreshes' : Ends(q) /\ Ends(s) /\ q.then.tx = s.then.tx => q = s
    BY <1>2 DEF RInv, Recorded
  <1> QED
    BY <1>6, <1>7, <1>8 DEF Recorded

LEMMA ApplyRecords ==
  ASSUME Typed, RInv, Clean, NEW r \in refreshes, Apply(r)
  PROVE  Recorded'
  <1>1. CASE ~Ends(r)
    <2>1. UNCHANGED <<transactions, intent, stage>> /\ refreshes' = refreshes \ {r}
      BY <1>1 DEF Apply, Ends, txs
    <2> QED
      BY <2>1, RecordsQuiet
  <1> QED
    BY <1>1, ClearRecords

LEMMA QueueRecords ==
  ASSUME Typed, RInv, Clean, NEW t \in Txs, NEW i \in Intents, Queue(t, i)
  PROVE  Recorded'
  <1>1. /\ stage[t] = "none" /\ OnTxIntent(t, i) /\ UNCHANGED refreshes
        /\ intent' = [intent EXCEPT ![t] = i] /\ stage' = [stage EXCEPT ![t] = "args"]
    BY DEF Queue
  <1>2. /\ i.from \in Planets
        /\ transactions \in [{"all"} \cup Planets -> Seq(Txs)]
        /\ \A u \in Txs : /\ intent'[u] = IF u = t THEN i ELSE intent[u]
                          /\ stage'[u] = IF u = t THEN "args" ELSE stage[u]
    BY <1>1, IntentsAssumption DEF Typed, TypeOK
  <1>3. ASSUME NEW c \in {"all"} \cup Planets
        PROVE  /\ \A u \in Txs : In(c, u) => In(c, u)'
               /\ c \in {"all", i.from} => In(c, t)'
    <2>1. transactions[c] \in Seq(Txs)
      BY <1>2
    <2>2. transactions'[c] = IF c \in {"all", i.from} THEN Append(transactions[c], t)
                             ELSE transactions[c]
      BY <1>1, <1>2 DEF OnTxIntent
    <2>3. CASE c \in {"all", i.from}
      <3> DEFINE list == transactions[c]
                 more == Append(list, t)
      <3>1. /\ Len(more) = Len(list) + 1 /\ more[Len(list) + 1] = t
            /\ \A j \in 1..Len(list) : more[j] = list[j]
            /\ Len(list) \in Nat
        BY <2>1
      <3>2. transactions'[c] = more
        BY <2>2, <2>3
      <3> HIDE DEF more
      <3>3. Len(list) + 1 \in 1..Len(more) /\ \A j \in 1..Len(list) : j \in 1..Len(more)
        BY <3>1
      <3> QED
        BY <3>1, <3>2, <3>3 DEF In
    <2> QED
      BY <2>2, <2>3 DEF In
  <1>4. \A u \in Txs \ {t} : stage[u] # "none" /\ OnRecord(u) => OnRecord(u)'
    BY <1>2, <1>3, EndsArePlanets DEF OnRecord
  <1>5. OnRecord(t)'
    BY <1>2, <1>3 DEF OnRecord
  <1> QED
    BY <1>1, <1>2, <1>4, <1>5 DEF RInv, Recorded, Unsettled

LEMMA ConfirmRecords ==
  ASSUME Typed, RInv, Clean, NEW t \in Txs, Confirm(t)
  PROVE  Recorded'
  <1> DEFINE last == Refresh({intent[t].from, intent[t].to}, Then("clear", t, {}))
  <1>1. /\ stage[t] = "sent" /\ UNCHANGED <<transactions, intent>>
        /\ \A u \in Txs : stage'[u] = IF u = t THEN "confirmed" ELSE stage[u]
    BY DEF Confirm, Typed, TypeOK
  <1>2. last.then.tx = t
    BY DEF Refresh, Then
  <1>3. \A r \in refreshes' : r \in refreshes \/ r = last \/ ~Ends(r)
    BY NotEnding DEF Confirm
  <1>4. \A r \in refreshes : Ends(r) => r.then.tx # t
    BY <1>1 DEF RInv, Recorded
  <1>5. OnRecord(t)
    BY <1>1 DEF RInv, Recorded, Unsettled
  <1> HIDE DEF last
  <1>6. \A u \in Txs : OnRecord(u)' <=> OnRecord(u)
    BY <1>1 DEF OnRecord, In
  <1>7. \A u \in Txs : Unsettled(u)' => Unsettled(u)
    BY <1>1 DEF Unsettled
  <1> QED
    BY <1>1, <1>2, <1>3, <1>4, <1>5, <1>6, <1>7 DEF RInv, Recorded

LEMMA SendRecords ==
  ASSUME Typed, RInv, Clean, NEW t \in Txs, Send(t)
  PROVE  Recorded'
  <1>1. /\ stage[t] = "args" /\ UNCHANGED <<transactions, intent, refreshes>>
        /\ \A u \in Txs : stage'[u] = IF u = t THEN "sent" ELSE stage[u]
    BY DEF Send, Typed, TypeOK
  <1>2. \A u \in Txs : OnRecord(u)' <=> OnRecord(u)
    BY <1>1 DEF OnRecord, In
  <1> QED
    BY <1>1, <1>2 DEF RInv, Recorded, Unsettled

LEMMA ResolverRecords ==
  ASSUME RInv, Clean, NEW x \in resolvers, ResolverNext(x)
  PROVE  Recorded'
  <1>1. UNCHANGED <<transactions, intent, stage>>
    BY DEF ResolverNext, CheckArrival, ResolveLands, ResolveAnswered, ResolveFails, txs
  <1>2. \A r \in refreshes' : r \in refreshes \/ ~Ends(r)
    BY NotEnding
       DEF ResolverNext, CheckArrival, ResolveLands, ResolveAnswered, ResolveFails, Resolved
  <1> QED
    BY <1>1, <1>2, RecordsQuiet

\* What has failed or was cancelled stays so.
LEMMA CleanBefore ==
  ASSUME Typed, [Next]_vars, Clean'
  PROVE  Clean
  <1>1. \A u \in Txs : u \in cancelled => u \in cancelled'
    BY DEF Next, vars, txs, NextBlock, OthersAct, BlockSeen, TxNext, Queue, Watch, Send,
           Mined, Confirm, Fail, Cancel, AskRefresh, RefreshNext, ReadArrivals, Apply,
           FailRefresh, ResolverNext, CheckArrival, ResolveLands, ResolveAnswered,
           ResolveFails
  <1>2. \A u \in Txs : Failed(u) => Failed(u)'
    <2>1. CASE UNCHANGED stage
      BY <2>1 DEF Failed
    <2>2. ASSUME NEW t \in Txs,
                 (\E i \in Intents : Queue(t, i)) \/ Send(t) \/ Confirm(t) \/ Fail(t)
          PROVE  \A u \in Txs : Failed(u) => Failed(u)'
      <3>1. stage[t] \in {"none", "args", "sent"}
            /\ \A u \in Txs \ {t} : stage'[u] = stage[u]
        BY <2>2 DEF Queue, Send, Confirm, Fail, Unsettled, Typed, TypeOK
      <3> QED
        BY <3>1 DEF Failed
    <2> QED
      BY <2>1, <2>2
         DEF Next, vars, txs, NextBlock, OthersAct, BlockSeen, TxNext, Watch, Mined,
             Cancel, AskRefresh, RefreshNext, ReadArrivals, Apply, FailRefresh,
             ResolverNext, CheckArrival, ResolveLands, ResolveAnswered, ResolveFails
  <1> QED
    BY <1>1, <1>2 DEF Clean

LEMMA StepRecords == ASSUME Typed, RInv, [Next]_vars PROVE RInv'
  <1> SUFFICES ASSUME Clean' PROVE Recorded'
    BY DEF RInv
  <1>1. Clean
    BY CleanBefore
  <1>2. CASE UNCHANGED vars \/ NextBlock \/ OthersAct \/ BlockSeen
             \/ (\E l \in Asked : AskRefresh(l))
    <2>1. UNCHANGED <<transactions, intent, stage>>
      BY <1>2 DEF vars, txs, NextBlock, OthersAct, BlockSeen, AskRefresh
    <2>2. \A r \in refreshes' : r \in refreshes \/ ~Ends(r)
      <3>1. CASE BlockSeen
        <4> DEFINE jobs == {Refresh(ls, Then("synced", 0, {})) : ls \in {Mine} \ {{}}}
        <4>1. refreshes' \subseteq refreshes \cup jobs
          BY <3>1 DEF BlockSeen, SyncOwnedPlanets
        <4>2. \A r \in jobs : ~Ends(r)
          BY NotEnding
        <4> QED
          BY <4>1, <4>2
      <3>2. CASE UNCHANGED vars \/ NextBlock \/ OthersAct
        <4>1. refreshes' = refreshes
          BY <3>2 DEF vars, NextBlock, OthersAct
        <4> QED
          BY <4>1
      <3>3. ASSUME NEW l \in Asked, AskRefresh(l)
            PROVE  \A r \in refreshes' : r \in refreshes \/ ~Ends(r)
        <4>1. refreshes' = refreshes \cup {Refresh({l}, Nothing)}
          BY <3>3 DEF AskRefresh
        <4>2. ~Ends(Refresh({l}, Nothing))
          BY NotEnding
        <4> QED
          BY <4>1, <4>2
      <3> QED
        BY <1>2, <3>1, <3>2, <3>3
    <2> QED
      BY <1>1, <2>1, <2>2, RecordsQuiet
  <1>3. ASSUME NEW r \in refreshes, RefreshNext(r) PROVE Recorded'
    <2>1. CASE FailRefresh(r)
      BY <1>1, <2>1, RecordsQuiet DEF FailRefresh, txs
    <2> QED
      BY <1>1, <1>3, <2>1, ReadRecords, ApplyRecords DEF RefreshNext
  <1>4. ASSUME NEW t \in Txs, TxNext(t) PROVE Recorded'
    <2>1. CASE Watch(t)
      <3>1. stage[t] # "unsent"
        BY <1>1 DEF Clean, Failed
      <3> QED
        BY <1>1, <2>1, <3>1, RecordsQuiet DEF Watch
    <2>2. CASE Mined(t)
      BY <1>1, <2>2, RecordsQuiet DEF Mined
    <2>3. CASE Fail(t)
      <3>1. stage'[t] \in {"unsent", "reverted"}
        BY <2>3 DEF Fail, Typed, TypeOK
      <3> QED
        BY <3>1 DEF Clean, Failed
    <2>4. CASE Cancel(t)
      BY <2>4 DEF Cancel, Clean
    <2> QED
      BY <1>1, <1>4, <2>1, <2>2, <2>3, <2>4, QueueRecords, SendRecords, ConfirmRecords
         DEF TxNext
  <1> QED
    BY <1>1, <1>2, <1>3, <1>4, ResolverRecords DEF Next

\* The record of a transaction under way is there, whatever other transactions
\* are confirmed meanwhile and in whatever order, until one fails or is cancelled.
THEOREM RecordsKept == Spec => []LostOnlyByErrors
  <1>1. Init => RInv
    BY DEF Init, RInv, Recorded, Unsettled
  <1>2. Typed /\ RInv /\ [Next]_vars => RInv'
    BY StepRecords
  <1>3. Typed /\ RInv => LostOnlyByErrors
    <2> SUFFICES ASSUME Typed, RInv, NEW t \in Txs, Unsettled(t), Clean
                 PROVE  InCollections(t)
      BY DEF LostOnlyByErrors, Clean
    <2>1. In("all", t)
      BY DEF RInv, Recorded, OnRecord
    <2>2. "all" \in DOMAIN transactions
      BY DEF Typed, TypeOK
    <2> QED
      BY <2>1, <2>2 DEF In, InCollections
  <1> QED
    BY <1>1, <1>2, <1>3, TypesInductive, PTL DEF Spec

-----------------------------------------------------------------------------
(* What is left of a transaction that is over. *)

Collections == {"all"} \cup Planets

Distinct(list) == \A i, j \in 1..Len(list) : list[i] = list[j] => i = j

\* A transaction has one record in the collection of all, one in that of its planet
\* and none elsewhere.
Filed ==
    \A c \in Collections :
        /\ Distinct(transactions[c])
        /\ \A t \in Txs : In(c, t) => stage[t] # "none" /\ c \in {"all", intent[t].from}

Ahead == pendingArrivalsByTx \cup drawn

Neat ==
    /\ Filed
    /\ \A t \in Txs : Failed(t) => \A c \in Collections : ~In(c, t)
    /\ \A t \in Ahead : Unsettled(t) /\ t \notin cancelled
    /\ \A t \in cancelled : stage[t] # "none"

LEMMA DropLastKeeps ==
  ASSUME NEW list \in Seq(Txs), NEW n \in Nat
  PROVE  /\ Len(DropLast(list, n)) <= Len(list)
         /\ \A j \in 1..Len(DropLast(list, n)) : DropLast(list, n)[j] = list[j]
  <1> DEFINE left == DropLast(list, n)
  <1>1. left = [j \in 1..(Len(list) - n) |-> list[j]] /\ left \in Seq(Txs)
    BY DropLastType DEF DropLast
  <1> HIDE DEF left
  <1>2. DOMAIN left = 1..(Len(list) - n) /\ DOMAIN left = 1..Len(left) /\ Len(left) \in Nat
    <2>1. DOMAIN left = 1..(Len(list) - n)
      BY <1>1
    <2>2. \A s \in Seq(Txs) : DOMAIN s = 1..Len(s) /\ Len(s) \in Nat
      OBVIOUS
    <2> QED
      BY <1>1, <2>1, <2>2
  <1>3. Len(left) <= Len(list)
    <2>1. CASE Len(left) = 0
      BY <2>1
    <2>2. CASE Len(left) # 0
      <3>1. Len(left) \in 1..(Len(list) - n)
        BY <1>2, <2>2
      <3> QED
        BY <3>1
    <2> QED
      BY <2>1, <2>2
  <1> QED
    BY <1>1, <1>2, <1>3 DEF left

LEMMA RemoveAtKeeps ==
  ASSUME NEW list \in Seq(Txs), Distinct(list), NEW i \in 1..Len(list)
  PROVE  /\ Distinct(RemoveAt(list, i))
         /\ \A j \in 1..Len(RemoveAt(list, i)) :
              /\ RemoveAt(list, i)[j] # list[i]
              /\ \E k \in 1..Len(list) : RemoveAt(list, i)[j] = list[k]
  <1> DEFINE rest == RemoveAt(list, i)
             from(j) == IF j < i THEN j ELSE j + 1
  <1>1. rest = [j \in 1..(Len(list) - 1) |-> IF j < i THEN list[j] ELSE list[j + 1]]
    BY DEF RemoveAt
  <1>2. rest \in Seq(Txs) /\ Len(list) \in Nat \ {0}
    BY RemoveAtType
  <1> HIDE DEF rest
  <1>3. Len(rest) = Len(list) - 1
    BY <1>1, <1>2
  <1>4. \A j \in 1..Len(rest) :
          from(j) \in 1..Len(list) /\ from(j) # i /\ rest[j] = list[from(j)]
    BY <1>1, <1>2, <1>3
  <1>5. \A j, k \in 1..Len(rest) : from(j) = from(k) => j = k
    BY <1>2, <1>3
  <1> HIDE DEF from
  <1>6. Distinct(rest)
    BY <1>4, <1>5 DEF Distinct
  <1>7. \A j \in 1..Len(rest) :
          rest[j] # list[i] /\ \E k \in 1..Len(list) : rest[j] = list[k]
    BY <1>4 DEF Distinct
  <1> QED
    BY <1>6, <1>7 DEF rest

\* However often a record is removed, it is gone, and no other is added.
LEMMA RemoveLeaves ==
  ASSUME NEW list \in Seq(Txs), Distinct(list), NEW t, NEW n \in Nat \ {0}
  PROVE  /\ Distinct(RemoveTransaction(list, t, n))
         /\ \A j \in 1..Len(RemoveTransaction(list, t, n)) :
              /\ RemoveTransaction(list, t, n)[j] # t
              /\ \E k \in 1..Len(list) : RemoveTransaction(list, t, n)[j] = list[k]
  <1> DEFINE at   == {i \in 1..Len(list) : list[i] = t}
             left == RemoveTransaction(list, t, n)
  <1>1. CASE at = {}
    <2>1. left = DropLast(list, n)
      BY <1>1 DEF RemoveTransaction
    <2>2. /\ Len(left) <= Len(list) /\ left \in Seq(Txs)
          /\ \A j \in 1..Len(left) : left[j] = list[j]
      BY <2>1, DropLastKeeps, DropLastType
    <2> HIDE DEF left
    <2>3. \A j \in 1..Len(left) : j \in 1..Len(list)
      BY <2>2
    <2> QED
      BY <1>1, <2>2, <2>3 DEF Distinct, left
  <1>2. CASE at # {}
    <2> DEFINE i    == CHOOSE i \in at : TRUE
               rest == RemoveAt(list, i)
    <2>1. i \in 1..Len(list) /\ list[i] = t
      BY <1>2
    <2>2. left = DropLast(rest, n - 1)
      BY <1>2 DEF RemoveTransaction
    <2> HIDE DEF i
    <2>3. /\ rest \in Seq(Txs) /\ Distinct(rest)
          /\ \A j \in 1..Len(rest) :
               rest[j] # t /\ \E k \in 1..Len(list) : rest[j] = list[k]
      BY <2>1, RemoveAtKeeps, RemoveAtType
    <2> HIDE DEF rest
    <2>4. n - 1 \in Nat
      OBVIOUS
    <2>5. /\ Len(left) <= Len(rest) /\ left \in Seq(Txs)
          /\ \A j \in 1..Len(left) : left[j] = rest[j]
      BY <2>2, <2>3, <2>4, DropLastKeeps, DropLastType
    <2> HIDE DEF left
    <2>6. \A j \in 1..Len(left) : j \in 1..Len(rest)
      BY <2>3, <2>5
    <2> QED
      BY <2>3, <2>5, <2>6 DEF Distinct, left
  <1> QED
    BY <1>1, <1>2

\* The step adds no record.
Thinner ==
    \A c \in Collections :
        /\ Distinct(transactions'[c])
        /\ \A u \in Txs : In(c, u)' => In(c, u)

LEMMA ThinnerSame == ASSUME Filed, UNCHANGED transactions PROVE Thinner
  BY DEF Filed, Thinner, In

LEMMA ClearLeaves ==
  ASSUME Typed, Filed, NEW t, NEW l, NEW n \in Nat \ {0},
         ClearUnconfirmedTxIntent(t, l, n)
  PROVE  /\ Thinner
         /\ \A c \in Collections \cap {"all", l} : ~In(c, t)'
  <1> SUFFICES ASSUME NEW c \in Collections
               PROVE  /\ Distinct(transactions'[c])
                      /\ \A u \in Txs : In(c, u)' => In(c, u)
                      /\ c \in {"all", l} => ~In(c, t)'
    BY DEF Thinner
  <1>1. transactions[c] \in Seq(Txs) /\ Distinct(transactions[c])
    BY DEF Typed, TypeOK, Filed, Collections
  <1>2. transactions'[c] = IF c \in {"all", l} THEN RemoveTransaction(transactions[c], t, n)
                           ELSE transactions[c]
    BY DEF ClearUnconfirmedTxIntent, Typed, TypeOK, Collections
  <1>3. CASE c \in {"all", l}
    <2> DEFINE left == transactions'[c]
    <2>1. left = RemoveTransaction(transactions[c], t, n)
      BY <1>2, <1>3
    <2>2. /\ Distinct(left)
          /\ \A j \in 1..Len(left) :
               left[j] # t /\ \E k \in 1..Len(transactions[c]) : left[j] = transactions[c][k]
      BY <1>1, <2>1, RemoveLeaves
    <2> QED
      BY <2>2 DEF In
  <1>4. CASE c \notin {"all", l}
    BY <1>1, <1>2, <1>4 DEF In
  <1> QED
    BY <1>3, <1>4

\* What a step that adds neither a record nor an arrival must see to.
LEMMA NeatStep ==
  ASSUME Neat, Thinner, UNCHANGED intent, Ahead' \subseteq Ahead,
         \A u \in Txs : stage[u] # "none" => stage'[u] # "none",
         \A u \in Txs : Failed(u)' => Failed(u) \/ \A c \in Collections : ~In(c, u)',
         \A u \in Ahead' : Unsettled(u)' /\ u \notin cancelled',
         \A u \in cancelled' : stage'[u] # "none"
  PROVE  Neat'
  <1>1. Filed'
    BY DEF Neat, Filed, Thinner
  <1>2. \A u \in Txs : Failed(u)' => \A c \in Collections : ~In(c, u)'
    BY DEF Neat, Thinner
  <1> QED
    BY <1>1, <1>2 DEF Neat, Collections

LEMMA NeatQuiet ==
  ASSUME Typed, Neat, Thinner, UNCHANGED <<intent, stage, cancelled>>, Ahead' \subseteq Ahead
  PROVE  Neat'
  <1>1. \A u \in Txs : (Failed(u)' <=> Failed(u)) /\ (Unsettled(u)' <=> Unsettled(u))
    BY DEF Failed, Unsettled
  <1>2. \A u \in Ahead' : Unsettled(u)' /\ u \notin cancelled'
    BY DEF Neat, Unsettled
  <1>3. \A u \in cancelled' : stage'[u] # "none"
    BY DEF Neat
  <1> QED
    BY <1>1, <1>2, <1>3, NeatStep

LEMMA QueueNeat ==
  ASSUME Typed, Neat, NEW t \in Txs, NEW i \in Intents, Queue(t, i)
  PROVE  Neat'
  <1>1. /\ stage[t] = "none" /\ OnTxIntent(t, i) /\ UNCHANGED cancelled
        /\ Ahead' \subseteq Ahead \cup {t}
    BY DEF Queue, AddPendingArrivalForMove, pending, Ahead
  <1>2. /\ transactions \in [Collections -> Seq(Txs)]
        /\ \A u \in Txs : /\ intent'[u] = IF u = t THEN i ELSE intent[u]
                          /\ stage'[u] = IF u = t THEN "args" ELSE stage[u]
    BY DEF Queue, Typed, TypeOK, Collections
  <1>3. ASSUME NEW c \in Collections
        PROVE  /\ Distinct(transactions'[c])
               /\ \A u \in Txs \ {t} : In(c, u)' => In(c, u)
               /\ In(c, t)' => c \in {"all", i.from}
    <2> DEFINE list == transactions[c]
    <2>1. list \in Seq(Txs) /\ Distinct(list) /\ ~In(c, t)
      BY <1>1, <1>2 DEF Neat, Filed
    <2>2. transactions'[c] = IF c \in {"all", i.from} THEN Append(list, t) ELSE list
      BY <1>1, <1>2 DEF OnTxIntent, Collections
    <2>3. CASE c \in {"all", i.from}
      <3> DEFINE more == Append(list, t)
      <3>1. /\ Len(more) = Len(list) + 1 /\ more[Len(list) + 1] = t
            /\ \A j \in 1..Len(list) : more[j] = list[j] /\ list[j] # t
            /\ Len(list) \in Nat
        BY <2>1 DEF In
      <3>2. transactions'[c] = more
        BY <2>2, <2>3
      <3> HIDE DEF more, list
      <3>3. \A j \in 1..Len(more) : j = Len(list) + 1 \/ j \in 1..Len(list)
        BY <3>1
      <3>4. Distinct(more)
        BY <2>1, <3>1, <3>3 DEF Distinct
      <3> QED
        BY <2>3, <3>1, <3>2, <3>3, <3>4 DEF In, list
    <2>4. CASE c \notin {"all", i.from}
      BY <2>1, <2>2, <2>4 DEF In
    <2> QED
      BY <2>3, <2>4
  <1>4. Filed'
    <2>1. \A c \in Collections, u \in Txs :
            In(c, u)' => stage'[u] # "none" /\ c \in {"all", intent'[u].from}
      BY <1>2, <1>3 DEF Neat, Filed
    <2> QED
      BY <1>3, <2>1 DEF Filed, Collections
  <1>5. \A u \in Txs : Failed(u)' => \A c \in Collections : ~In(c, u)'
    BY <1>2, <1>3 DEF Failed, Neat
  <1>6. t \notin cancelled /\ Ahead \subseteq Txs /\ cancelled \subseteq Txs
    BY <1>1 DEF Neat, Typed, TypeOK, Ahead
  <1>7. \A u \in Ahead' : Unsettled(u)' /\ u \notin cancelled'
    BY <1>1, <1>2, <1>6 DEF Neat, Unsettled
  <1>8. \A u \in cancelled' : stage'[u] # "none"
    BY <1>1, <1>2, <1>6 DEF Neat
  <1> QED
    BY <1>4, <1>5, <1>7, <1>8 DEF Neat, Collections

\* The listener of TxErrored leaves nothing of t, however often it runs.
LEMMA ErroredLeaves ==
  ASSUME Typed, Neat, NEW t \in Txs, stage[t] # "none", NEW n \in Nat \ {0}, Errored(t, n)
  PROVE  /\ Thinner /\ Ahead' \subseteq Ahead \ {t}
         /\ \A c \in Collections : ~In(c, t)'
  <1>1. ClearUnconfirmedTxIntent(t, intent[t].from, n)
    BY DEF Errored
  <1>2. /\ Thinner
        /\ \A c \in Collections \cap {"all", intent[t].from} : ~In(c, t)'
    BY <1>1, ClearLeaves DEF Neat
  <1>3. \A c \in Collections : ~In(c, t)'
    BY <1>2 DEF Neat, Filed, Thinner
  <1> QED
    BY <1>2, <1>3 DEF Errored, ClearPendingArrivalForMove, Ahead

LEMMA WatchNeat == ASSUME Typed, Neat, NEW t \in Txs, Watch(t) PROVE Neat'
  <1>1. UNCHANGED <<intent, stage, cancelled>> /\ stage[t] # "none"
    BY DEF Watch
  <1>2. CASE stage[t] = "unsent"
    <2>1. Errored(t, 2) /\ 2 \in Nat \ {0}
      BY <1>2 DEF Watch
    <2> QED
      BY <1>1, <2>1, ErroredLeaves, NeatQuiet
  <1>3. CASE stage[t] # "unsent"
    <2>1. UNCHANGED transactions /\ Ahead' \subseteq Ahead
      BY <1>3 DEF Watch, pending, Ahead
    <2> QED
      BY <1>1, <2>1, ThinnerSame, NeatQuiet DEF Neat
  <1> QED
    BY <1>2, <1>3

LEMMA FailNeat == ASSUME Typed, Neat, NEW t \in Txs, Fail(t) PROVE Neat'
  <1> DEFINE n == IF t \notin watched THEN 1 ELSE IF stage[t] = "args" THEN 3 ELSE 2
  <1>1. /\ n \in Nat \ {0} /\ Errored(t, n) /\ stage[t] # "none"
        /\ UNCHANGED <<intent, cancelled>>
    BY DEF Fail, Unsettled
  <1> HIDE DEF n
  <1>2. /\ Thinner /\ Ahead' \subseteq Ahead \ {t}
        /\ \A c \in Collections : ~In(c, t)'
    BY <1>1, ErroredLeaves
  <1>3. \A u \in Txs : IF u = t THEN stage'[u] \in {"unsent", "reverted"}
                       ELSE stage'[u] = stage[u]
    BY DEF Fail, Typed, TypeOK
  <1>4. Ahead \subseteq Txs /\ cancelled \subseteq Txs
    BY DEF Typed, TypeOK, Ahead
  <1>5. \A u \in Txs : Failed(u)' => Failed(u) \/ \A c \in Collections : ~In(c, u)'
    BY <1>2, <1>3 DEF Failed
  <1>6. \A u \in Ahead' : Unsettled(u)' /\ u \notin cancelled'
    BY <1>1, <1>2, <1>3, <1>4 DEF Neat, Unsettled
  <1>7. \A u \in Txs : stage[u] # "none" => stage'[u] # "none"
    BY <1>3
  <1>8. \A u \in cancelled' : stage'[u] # "none"
    BY <1>1, <1>4, <1>7 DEF Neat
  <1> QED
    BY <1>1, <1>2, <1>5, <1>6, <1>7, <1>8, NeatStep

\* It is sent or confirmed.
LEMMA ProgressNeat ==
  ASSUME Typed, Neat, NEW t \in Txs, Send(t) \/ Confirm(t)
  PROVE  Neat'
  <1>1. /\ UNCHANGED <<intent, cancelled, transactions>> /\ Ahead' \subseteq Ahead
        /\ stage'[t] = "sent" \/ t \notin Ahead'
    BY DEF Send, Confirm, ClearPendingArrivalForMove, pending, Ahead, Typed, TypeOK
  <1>2. \A u \in Txs : IF u = t THEN stage'[u] \in {"sent", "confirmed"}
                       ELSE stage'[u] = stage[u]
    BY DEF Send, Confirm, Typed, TypeOK
  <1>3. Ahead \subseteq Txs /\ cancelled \subseteq Txs
    BY DEF Typed, TypeOK, Ahead
  <1>4. \A u \in Txs : Failed(u)' => Failed(u)
    BY <1>2 DEF Failed
  <1>5. \A u \in Ahead' : Unsettled(u)' /\ u \notin cancelled'
    BY <1>1, <1>2, <1>3 DEF Neat, Unsettled
  <1>6. \A u \in Txs : stage[u] # "none" => stage'[u] # "none"
    BY <1>2
  <1>7. \A u \in cancelled' : stage'[u] # "none"
    BY <1>1, <1>3, <1>6 DEF Neat
  <1>8. Thinner
    BY <1>1, ThinnerSame DEF Neat
  <1> QED
    BY <1>1, <1>4, <1>5, <1>6, <1>7, <1>8, NeatStep

\* The pending arrival goes by the number of the transaction, which the copy has.
LEMMA CancelNeat == ASSUME Typed, Neat, NEW t \in Txs, Cancel(t) PROVE Neat'
  <1>1. /\ stage[t] = "args" /\ UNCHANGED <<intent, stage>>
        /\ cancelled' = cancelled \cup {t} /\ Ahead' \subseteq Ahead \ {t}
        /\ ClearUnconfirmedTxIntent(0, intent[t].from, 1)
    BY DEF Cancel, ClearPendingArrivalForMove, Ahead
  <1>2. Thinner
    BY <1>1, ClearLeaves, 1 \in Nat \ {0} DEF Neat
  <1>3. \A u \in Txs : Failed(u)' => Failed(u)
    BY <1>1 DEF Failed
  <1>4. \A u \in Ahead' : Unsettled(u)' /\ u \notin cancelled'
    BY <1>1 DEF Neat, Unsettled
  <1>5. \A u \in cancelled' : stage'[u] # "none"
    BY <1>1 DEF Neat
  <1> QED
    BY <1>1, <1>2, <1>3, <1>4, <1>5, NeatStep

LEMMA ApplyNeat == ASSUME Typed, Neat, NEW r \in refreshes, Apply(r) PROVE Neat'
  <1>1. UNCHANGED <<intent, stage, cancelled>> /\ Ahead' \subseteq Ahead
    BY DEF Apply, Replace, txs, Ahead
  <1>2. CASE r.then.do = "clear"
    <2>1. ClearUnconfirmedTxIntent(r.then.tx, intent[r.then.tx].from, 1)
      BY <1>2 DEF Apply
    <2>2. Thinner
      BY <2>1, ClearLeaves, 1 \in Nat \ {0} DEF Neat
    <2> QED
      BY <1>1, <2>2, NeatQuiet
  <1>3. CASE r.then.do # "clear"
    <2>1. UNCHANGED transactions
      BY <1>3 DEF Apply
    <2> QED
      BY <1>1, <2>1, ThinnerSame, NeatQuiet DEF Neat
  <1> QED
    BY <1>2, <1>3

LEMMA StepNeat == ASSUME Typed, Neat, [Next]_vars PROVE Neat'
  <1>1. CASE /\ UNCHANGED <<transactions, intent, stage, cancelled>>
             /\ Ahead' \subseteq Ahead
    BY <1>1, ThinnerSame, NeatQuiet DEF Neat
  <1>2. CASE UNCHANGED vars \/ NextBlock \/ OthersAct \/ BlockSeen
             \/ (\E l \in Asked : AskRefresh(l))
    BY <1>1, <1>2 DEF vars, txs, pending, NextBlock, OthersAct, BlockSeen, AskRefresh, Ahead
  <1>3. ASSUME NEW r \in refreshes, RefreshNext(r) PROVE Neat'
    BY <1>1, <1>3, ApplyNeat
       DEF RefreshNext, ReadArrivals, FailRefresh, txs, pending, Ahead
  <1>4. ASSUME NEW x \in resolvers, ResolverNext(x) PROVE Neat'
    BY <1>1, <1>4 DEF ResolverNext, CheckArrival, ResolveLands, ResolveAnswered,
                      ResolveFails, txs, pending, Ahead
  <1>5. ASSUME NEW t \in Txs, TxNext(t) PROVE Neat'
    <2>1. CASE Mined(t)
      BY <1>1, <2>1 DEF Mined, pending, Ahead
    <2> QED
      BY <1>5, <2>1, QueueNeat, WatchNeat, FailNeat, ProgressNeat, CancelNeat DEF TxNext
  <1> QED
    BY <1>2, <1>3, <1>4, <1>5 DEF Next

\* A transaction that failed has no record, though its failure may be announced up
\* to three times and before anybody listens; and no arrival is drawn for one that
\* is over: for any number of transactions, of any fates in any order.
THEOREM NothingStays == Spec => []NothingLeftBehind
  <1>1. Init => Neat
    <2> SUFFICES ASSUME Init PROVE Neat
      OBVIOUS
    <2>1. \A c \in Collections : transactions[c] = <<>> /\ 1..Len(transactions[c]) = {}
      BY DEF Init, Collections
    <2>2. Filed
      BY <2>1 DEF Filed, Distinct, In
    <2>3. \A t \in Txs : ~Failed(t)
      BY DEF Init, Failed
    <2> QED
      BY <2>2, <2>3 DEF Init, Neat, Ahead
  <1>2. Typed /\ Neat /\ [Next]_vars => Neat'
    BY StepNeat
  <1>3. Typed /\ Neat => NothingLeftBehind
    <2> SUFFICES ASSUME Typed, Neat PROVE NothingLeftBehind
      OBVIOUS
    <2>1. DOMAIN transactions = Collections
      BY DEF Typed, TypeOK, Collections
    <2>2. \A t \in Txs : Failed(t) => ~InCollections(t)
      BY <2>1 DEF Neat, InCollections, In
    <2> QED
      BY <2>2 DEF Neat, Ahead, NothingLeftBehind
  <1> QED
    BY <1>1, <1>2, <1>3, TypesInductive, PTL DEF Spec

=============================================================================
