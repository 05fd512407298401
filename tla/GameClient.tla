----------------------------- MODULE GameClient -----------------------------
(***************************************************************************)
(* One client of the game: the transactions its player queues, the arrivals *)
(* it knows of and resolves when they are due, and the reads of the chain   *)
(* that refresh what it knows.  ContractsAPI announces the fate of a        *)
(* transaction by events; GameManager listens and keeps GameObjects up to   *)
(* date.  Each action is what runs from one await to the next.              *)
(*                                                                         *)
(* The chain is the one Voyages describes, which the contract implements.   *)
(* The client runs with autoResolveArrivals on, its default: arrivals are   *)
(* resolved by transactions and never applied to the local planets.         *)
(***************************************************************************)
EXTENDS Integers, Sequences, FiniteSets

CONSTANTS
    Planets,
    Mine,           \* the planets the player owns all along
    Intents,        \* what the player may ask for
    Routes,         \* from where to where others move
    Asked,          \* what is refreshed for other reasons than the ones modelled
    NumTxs,         \* bounds of the model: transactions ever queued,
    MaxArrivals,    \* voyages that ever leave,
    MaxEvents,      \* transactions queued and voyages others send, together,
    MaxBlock,       \* blocks counted,
    TravelTimes,    \* blocks a voyage takes,
    MaxRefreshes,   \* refreshes in flight, but for those transactions start
    maxToResolve,
    ARRIVAL_PROVING_BUFFER_BLOCKS,
    AZTEC_PLANET_SYNC_INTERVAL_BLOCKS

ASSUME ClientAssumption ==
    /\ Mine \subseteq Planets
    /\ "all" \notin Planets
    /\ Routes \subseteq Planets \X Planets
    /\ Asked \subseteq Planets
    /\ NumTxs \in Nat
    /\ MaxArrivals \in Nat
    /\ MaxEvents \in Nat
    /\ MaxBlock \in Nat \ {0}
    /\ TravelTimes \subseteq Nat \ {0}
    /\ MaxRefreshes \in Nat
    /\ maxToResolve \in Nat
    /\ ARRIVAL_PROVING_BUFFER_BLOCKS \in Nat
    /\ AZTEC_PLANET_SYNC_INTERVAL_BLOCKS \in Nat

\* An upgrade or a reveal happens at one planet, both ends of its record.
ASSUME IntentsAssumption ==
    Intents \subseteq [kind : {"move", "upgrade", "reveal"}, from : Planets, to : Planets]

Txs == 1..NumTxs

NoIntent == [kind |-> "none"]

VARIABLES
    now, sailing, next,     \* the chain
    intent, stage,          \* of each transaction, and how far it has come
    watched,                \* those emitTransactionEvents was called for
    mined,                  \* those the chain has executed
    voyageOf,               \* the voyage of a mined move
    cancelled,              \* those the player has cancelled
    transactions,           \* the collection of all, and one of each planet
    pendingArrivalsByTx,    \* moves whose arrival is drawn ahead of the chain
    drawn,                  \* those of them still among the local arrivals
    known,                  \* the other local arrivals, read from the chain
    clientBlock,            \* the block the client has seen
    resolvingArrivals,
    resolvers,              \* resolutions in flight
    refreshes,              \* refreshes in flight
    sinceSync,              \* blocks since the owned planets were synced
    syncingPlanetRefresh

chain   == <<now, sailing, next>>
txs     == <<intent, stage, watched, mined, voyageOf, cancelled>>
pending == <<pendingArrivalsByTx, drawn>>
solving == <<resolvingArrivals, resolvers>>
sync    == <<clientBlock, sinceSync, syncingPlanetRefresh>>
vars    == <<chain, txs, transactions, pending, known, solving, refreshes, sync>>

Chain == INSTANCE Voyages WITH Berths <- 1..MaxArrivals

Voyage == [id : 1..MaxArrivals, from : Planets, to : Planets, at : 1..MaxBlock]

Stages == {"none", "args", "sent", "confirmed", "unsent", "reverted"}

Continuation ==
    [do : {"nothing", "clear", "retry", "synced"}, tx : 0..NumTxs, batch : SUBSET Voyage]

RefreshJob ==
    [planets : SUBSET Planets, read : BOOLEAN, seen : SUBSET Voyage, then : Continuation]

Resolver ==
    [kind : {"single", "batch"}, planet : Planets, batch : SUBSET Voyage,
     step : {"check", "send", "landed"}]

TypeOK ==
    /\ now \in 1..MaxBlock /\ next \in 1..(MaxArrivals + 1) /\ sailing \subseteq Voyage
    /\ intent \in [Txs -> Intents \cup {NoIntent}]
    /\ stage \in [Txs -> Stages]
    /\ watched \subseteq Txs /\ mined \subseteq Txs /\ cancelled \subseteq Txs
    /\ voyageOf \in [Txs -> 0..MaxArrivals]
    /\ transactions \in [{"all"} \cup Planets -> Seq(Txs)]
    /\ pendingArrivalsByTx \subseteq Txs /\ drawn \subseteq Txs
    /\ known \subseteq Voyage /\ resolvingArrivals \subseteq Voyage
    /\ resolvers \subseteq Resolver /\ refreshes \subseteq RefreshJob
    /\ clientBlock \in 1..MaxBlock
    /\ sinceSync \in 0..AZTEC_PLANET_SYNC_INTERVAL_BLOCKS
    /\ syncingPlanetRefresh \in BOOLEAN

Init ==
    /\ Chain!Init
    /\ intent = [t \in Txs |-> NoIntent]
    /\ stage = [t \in Txs |-> "none"]
    /\ watched = {} /\ mined = {} /\ cancelled = {}
    /\ voyageOf = [t \in Txs |-> 0]
    /\ transactions = [c \in {"all"} \cup Planets |-> <<>>]
    /\ pendingArrivalsByTx = {} /\ drawn = {} /\ known = {}
    /\ resolvingArrivals = {} /\ resolvers = {} /\ refreshes = {}
    /\ clientBlock = 1 /\ sinceSync = 0 /\ syncingPlanetRefresh = FALSE

-----------------------------------------------------------------------------
(* The chain: what its players do, and what this client's transactions do. *)

Due(l) == {v \in sailing : v.to = l /\ Chain!Due(v)}

\* A move lands what is due at both ends, and leaves.
Sail(from, to) ==
    LET landing == Due(from) \cup Due(to) IN
    /\ next <= MaxArrivals
    /\ \E d \in TravelTimes :
         /\ now + d + ARRIVAL_PROVING_BUFFER_BLOCKS <= MaxBlock
         /\ sailing' = (sailing \ landing) \cup
                         {[id |-> next, from |-> from, to |-> to, at |-> now + d]}
    /\ next' = next + 1
    /\ UNCHANGED now

Land(S) ==
    /\ Chain!MayLand(S)
    /\ sailing' = sailing \ S
    /\ UNCHANGED <<now, next>>

\* What the bound MaxEvents counts.
Events == Cardinality({t \in Txs : stage[t] # "none"}) + (next - 1)

NextBlock ==
    /\ Chain!Tick
    /\ UNCHANGED <<txs, transactions, pending, known, solving, refreshes, sync>>

OthersAct ==
    /\ \/ \E route \in Routes : Sail(route[1], route[2])
       \/ \E v \in sailing : Land({v})
    /\ next' > next => Events < MaxEvents
    /\ UNCHANGED <<txs, transactions, pending, known, solving, refreshes, sync>>

\* The chain executes what was sent, whether or not the client ever learns of it.
Mined(t) ==
    /\ stage[t] \notin {"none", "confirmed"}
    /\ t \in watched \ mined
    /\ mined' = mined \cup {t}
    /\ CASE intent[t].kind = "move" ->
              /\ Sail(intent[t].from, intent[t].to)
              /\ voyageOf' = [voyageOf EXCEPT ![t] = next]
         [] intent[t].kind = "upgrade" ->
              Land(Due(intent[t].from)) /\ UNCHANGED voyageOf
         [] OTHER -> UNCHANGED <<chain, voyageOf>>
    /\ UNCHANGED <<intent, stage, watched, cancelled, transactions, pending, known,
                   solving, refreshes, sync>>

-----------------------------------------------------------------------------
(* Refreshes: the chain is read, then what is known of the planets replaced. *)

\* What follows a refresh: nothing, the end of the TxConfirmed listener, single
\* resolutions in place of a batch that failed, or the end of syncOwnedPlanets.
Then(what, t, batch) == [do |-> what, tx |-> t, batch |-> batch]
Nothing == Then("nothing", 0, {})

Refresh(ls, then) == [planets |-> ls, read |-> FALSE, seen |-> {}, then |-> then]

\* Arrivals are replaced planet by planet: reading those of several planets one
\* after the other does to each what reading them together does.
ReadArrivals(r) ==
    /\ r \in refreshes /\ ~r.read
    /\ refreshes' = (refreshes \ {r}) \cup
         {[r EXCEPT !.read = TRUE, !.seen = {v \in sailing : v.to \in r.planets}]}
    /\ UNCHANGED <<chain, txs, transactions, pending, known, solving, sync>>

\* The player asks, or a chunk is found, or an event names the planet.
AskRefresh(l) ==
    /\ Cardinality(refreshes) < MaxRefreshes
    /\ refreshes' = refreshes \cup {Refresh({l}, Nothing)}
    /\ UNCHANGED <<chain, txs, transactions, pending, known, solving, sync>>

\* removeTransaction splices at the index found, and at -1, the last, if none is.
DropLast(list, n) == [j \in 1..(Len(list) - n) |-> list[j]]

RemoveAt(list, i) ==
    [j \in 1..(Len(list) - 1) |-> IF j < i THEN list[j] ELSE list[j + 1]]

RemoveTransaction(list, t, n) ==
    LET at == {i \in 1..Len(list) : list[i] = t} IN
    IF at = {} THEN DropLast(list, n)
    ELSE DropLast(RemoveAt(list, CHOOSE i \in at : TRUE), n - 1)

\* clearUnconfirmedTxIntent, n times for t, from the collections of all and of l.
ClearUnconfirmedTxIntent(t, l, n) ==
    transactions' = [c \in DOMAIN transactions |->
        IF c \in {"all", l} THEN RemoveTransaction(transactions[c], t, n)
        ELSE transactions[c]]

HasInflight(l) ==
    \E i \in 1..Len(transactions["all"]) :
        LET it == intent[transactions["all"][i]] IN
        it.kind \in {"move", "upgrade"} /\ l \in {it.from, it.to}

Single(v) == [kind |-> "single", planet |-> v.to, batch |-> {v}, step |-> "check"]
Batch(l, S) == [kind |-> "batch", planet |-> l, batch |-> S, step |-> "send"]

\* Mutant: without asking whether the arrival is being resolved.
QueueAnyway(S) ==
    LET queued == {v \in S : ~HasInflight(v.to)} IN
    /\ resolvingArrivals' = resolvingArrivals \cup queued
    /\ resolvers' = resolvers \cup {Single(v) : v \in queued}

\* queueResolveArrival for each of S: not if it is being resolved already, nor
\* if a transaction in flight is to land it.
QueueResolveArrivals(S) ==
    LET queued == {v \in S \ resolvingArrivals : ~HasInflight(v.to)} IN
    /\ resolvingArrivals' = resolvingArrivals \cup queued
    /\ resolvers' = resolvers \cup {Single(v) : v \in queued}

\* Mutant: new arrivals beside the old ones.
ReplaceBeside(r) ==
    /\ known' = {v \in known : v.to \notin r.planets} \cup r.seen
    /\ UNCHANGED drawn

\* replacePlanetFromContractData: the old arrivals of the planet are cleared,
\* those drawn ahead of the chain among them.
Replace(r) ==
    /\ known' = {v \in known : v.to \notin r.planets} \cup r.seen
    /\ drawn' = {t \in drawn : intent[t].to \notin r.planets}

Apply(r) ==
    /\ r \in refreshes /\ r.read
    /\ refreshes' = refreshes \ {r}
    /\ Replace(r)
    /\ CASE r.then.do = "clear" ->
              /\ ClearUnconfirmedTxIntent(r.then.tx, intent[r.then.tx].from, 1)
              /\ UNCHANGED <<solving, syncingPlanetRefresh>>
         [] r.then.do = "retry" ->
              /\ QueueResolveArrivals(r.then.batch)
              /\ UNCHANGED <<transactions, syncingPlanetRefresh>>
         [] r.then.do = "synced" ->
              /\ syncingPlanetRefresh' = FALSE
              /\ UNCHANGED <<transactions, solving>>
         [] OTHER -> UNCHANGED <<transactions, solving, syncingPlanetRefresh>>
    /\ UNCHANGED <<chain, txs, pendingArrivalsByTx, clientBlock, sinceSync>>

\* Mutant: no finally clause.
FailAltogether(r) ==
    /\ r \in refreshes /\ ~r.read
    /\ refreshes' = refreshes \ {r}
    /\ UNCHANGED <<chain, txs, transactions, pending, known, solving, sync>>

\* A read throws: of what was to follow only a finally clause does.
FailRefresh(r) ==
    /\ r \in refreshes /\ ~r.read
    /\ refreshes' = refreshes \ {r}
    /\ syncingPlanetRefresh' = (syncingPlanetRefresh /\ r.then.do # "synced")
    /\ UNCHANGED <<chain, txs, transactions, pending, known, solving, clientBlock, sinceSync>>

-----------------------------------------------------------------------------
(* Transactions: ContractsAPI.submitTransaction and GameManager's listeners. *)

Unsettled(t) == stage[t] \in {"args", "sent"}
Failed(t) == stage[t] \in {"unsent", "reverted"}

IsRevealing ==
    \E i \in 1..Len(transactions["all"]) : intent[transactions["all"][i]].kind = "reveal"

OnTxIntent(t, i) ==
    transactions' = [c \in DOMAIN transactions |->
        IF c \in {"all", i.from} THEN Append(transactions[c], t) ELSE transactions[c]]

AddPendingArrivalForMove(t) ==
    /\ pendingArrivalsByTx' = pendingArrivalsByTx \cup {t}
    /\ drawn' = drawn \cup {t}

\* A second reveal is refused, unless the player retries one that failed.
Queue(t, i) ==
    /\ Events < MaxEvents
    /\ stage[t] = "none" /\ \A u \in 1..(t - 1) : stage[u] # "none"
    /\ i.kind = "reveal" /\ IsRevealing => \E u \in Txs : Failed(u) /\ intent[u] = i
    /\ intent' = [intent EXCEPT ![t] = i]
    /\ stage' = [stage EXCEPT ![t] = "args"]
    /\ OnTxIntent(t, i)
    /\ IF i.kind = "move" THEN AddPendingArrivalForMove(t) ELSE UNCHANGED pending
    /\ UNCHANGED <<chain, watched, mined, voyageOf, cancelled, known, solving, refreshes, sync>>

ClearPendingArrivalForMove(t) ==
    /\ pendingArrivalsByTx' = pendingArrivalsByTx \ {t}
    /\ drawn' = drawn \ {t}

\* Mutant: the intent is cleared of what was sent only.
ErroredUncleared(t, n) ==
    /\ IF stage[t] = "sent" THEN ClearUnconfirmedTxIntent(t, intent[t].from, n)
       ELSE UNCHANGED transactions
    /\ ClearPendingArrivalForMove(t)
    /\ UNCHANGED refreshes

\* The listener of TxErrored runs n times for t.
Errored(t, n) ==
    /\ ClearUnconfirmedTxIntent(t, intent[t].from, n)
    /\ ClearPendingArrivalForMove(t)
    /\ IF intent[t].kind = "move"
       THEN refreshes' = refreshes \cup {Refresh({intent[t].from, intent[t].to}, Nothing)}
       ELSE UNCHANGED refreshes

\* emitTransactionEvents, from a timer: both promises may have been rejected.
Watch(t) ==
    /\ stage[t] # "none" /\ t \notin watched
    /\ watched' = watched \cup {t}
    /\ IF stage[t] = "unsent" THEN Errored(t, 2)
       ELSE UNCHANGED <<transactions, pending, refreshes>>
    /\ UNCHANGED <<chain, intent, stage, mined, voyageOf, cancelled, known, solving, sync>>

\* Proving takes longer than a timer of 0 ms.
Send(t) ==
    /\ stage[t] = "args" /\ t \in watched
    /\ stage' = [stage EXCEPT ![t] = "sent"]
    /\ UNCHANGED <<chain, intent, watched, mined, voyageOf, cancelled, transactions, pending,
                   known, solving, refreshes, sync>>

\* Mutant: the intent is cleared at once, and again after the refresh.
ConfirmTwice(t) ==
    /\ stage[t] = "sent" /\ t \in mined
    /\ stage' = [stage EXCEPT ![t] = "confirmed"]
    /\ ClearUnconfirmedTxIntent(t, intent[t].from, 1)
    /\ ClearPendingArrivalForMove(t)
    /\ refreshes' = refreshes
         \cup {Refresh({intent[t].from, intent[t].to}, Then("clear", t, {}))}
    /\ UNCHANGED <<chain, intent, watched, mined, voyageOf, cancelled, known, solving, sync>>

\* The listener of TxConfirmed refreshes the planets, then clears the intent.  A
\* revealed location is announced besides.
Confirm(t) ==
    /\ stage[t] = "sent" /\ t \in mined
    /\ stage' = [stage EXCEPT ![t] = "confirmed"]
    /\ ClearPendingArrivalForMove(t)
    /\ refreshes' = refreshes
         \cup {Refresh({intent[t].from, intent[t].to}, Then("clear", t, {}))}
         \cup {Refresh({intent[t].from}, Nothing) : i \in {intent[t].kind} \cap {"reveal"}}
    /\ UNCHANGED <<chain, intent, watched, mined, voyageOf, cancelled, transactions, known,
                   solving, sync>>

\* Mutant: the catch leaves the announcement to the promises.
FailUnannounced(t) ==
    /\ Unsettled(t)
    /\ stage' = [stage EXCEPT ![t] = IF @ = "args" THEN "unsent" ELSE "reverted"]
    /\ IF t \in watched THEN Errored(t, IF stage[t] = "args" THEN 2 ELSE 1)
       ELSE UNCHANGED <<transactions, pending, refreshes>>
    /\ UNCHANGED <<chain, intent, watched, mined, voyageOf, cancelled, known, solving, sync>>

\* The catch of submitTransaction announces TxErrored, and so does each promise
\* it rejects: confirmed, and submitted if there is no hash yet.
Fail(t) ==
    /\ Unsettled(t)
    /\ stage' = [stage EXCEPT ![t] = IF @ = "args" THEN "unsent" ELSE "reverted"]
    /\ Errored(t, IF t \notin watched THEN 1 ELSE IF stage[t] = "args" THEN 3 ELSE 2)
    /\ UNCHANGED <<chain, intent, watched, mined, voyageOf, cancelled, known, solving, sync>>

\* The log shows a transaction as queued until it is sent; what it cancels is
\* its own copy of the record, which no collection holds; the transaction goes on.
Cancel(t) ==
    /\ stage[t] = "args"
    /\ cancelled' = cancelled \cup {t}
    /\ ClearUnconfirmedTxIntent(0, intent[t].from, 1)
    /\ ClearPendingArrivalForMove(t)
    /\ UNCHANGED <<chain, intent, stage, watched, mined, voyageOf, known, solving, refreshes,
                   sync>>

-----------------------------------------------------------------------------
(* Blocks, and the resolution of arrivals that are due. *)

Matured(v, b) == v.at + ARRIVAL_PROVING_BUFFER_BLOCKS <= b

\* The arrivals of a planet that resolveMaturedArrivals would resolve.
Pending(l) == {v \in known : v.to = l /\ Matured(v, now) /\ v \notin resolvingArrivals}

\* Planets are taken in the order of the first matured arrival of each, which
\* may be one that is being resolved.
NotAfter(l, k) ==
    \E v \in {u \in known : u.to = l /\ Matured(u, now)} :
        \A u \in known : u.to = k /\ Matured(u, now) => v.at <= u.at

Chosen(S) ==
    LET eligible == {l \in Planets : Pending(l) # {} /\ ~HasInflight(l)} IN
    /\ S \subseteq eligible
    /\ \A l \in S, k \in eligible \ S : NotAfter(l, k)
    /\ Cardinality(S) <= maxToResolve
    /\ S = eligible \/ Cardinality(S) = maxToResolve

ResolveMaturedArrivals ==
    \E S \in SUBSET Planets :
        /\ Chosen(S)
        /\ resolvingArrivals' = resolvingArrivals \cup UNION {Pending(l) : l \in S}
        /\ resolvers' = resolvers \cup
             {IF Cardinality(Pending(l)) >= 2 THEN Batch(l, Pending(l))
              ELSE Single(CHOOSE v \in Pending(l) : TRUE) : l \in S}

\* Mutant: the block of the sync is not kept.
SyncUnrecorded(elapsed) ==
    IF ~syncingPlanetRefresh /\ elapsed >= AZTEC_PLANET_SYNC_INTERVAL_BLOCKS
    THEN /\ sinceSync' = elapsed
         /\ syncingPlanetRefresh' = (Mine # {})
         /\ refreshes' = refreshes \cup {Refresh(ls, Then("synced", 0, {})) : ls \in {Mine} \ {{}}}
    ELSE /\ sinceSync' = IF elapsed < AZTEC_PLANET_SYNC_INTERVAL_BLOCKS THEN elapsed
                         ELSE AZTEC_PLANET_SYNC_INTERVAL_BLOCKS
         /\ UNCHANGED <<syncingPlanetRefresh, refreshes>>

SyncOwnedPlanets(elapsed) ==
    IF ~syncingPlanetRefresh /\ elapsed >= AZTEC_PLANET_SYNC_INTERVAL_BLOCKS
    THEN /\ sinceSync' = 0
         /\ syncingPlanetRefresh' = (Mine # {})
         /\ refreshes' = refreshes \cup {Refresh(ls, Then("synced", 0, {})) : ls \in {Mine} \ {{}}}
    ELSE /\ sinceSync' = IF elapsed < AZTEC_PLANET_SYNC_INTERVAL_BLOCKS THEN elapsed
                         ELSE AZTEC_PLANET_SYNC_INTERVAL_BLOCKS
         /\ UNCHANGED <<syncingPlanetRefresh, refreshes>>

\* A block is seen.  Blocks go on when the model has stopped counting them.
BlockSeen ==
    /\ clientBlock < now \/ now = MaxBlock
    /\ clientBlock' = now
    /\ ResolveMaturedArrivals
    /\ SyncOwnedPlanets(sinceSync + IF clientBlock < now THEN now - clientBlock ELSE 1)
    /\ UNCHANGED <<chain, txs, transactions, pending, known>>

\* The resolution x ends: its planet is refreshed, and clears is no longer known.
Resolved(x, clears, then) ==
    /\ Cardinality(refreshes) < MaxRefreshes
    /\ resolvers' = resolvers \ {x}
    /\ resolvingArrivals' = resolvingArrivals \ x.batch
    /\ known' = known \ clears
    /\ refreshes' = refreshes \cup {Refresh({x.planet}, then)}

\* The first await of queueResolveArrival: is the arrival on the chain, and due?
CheckArrival(x) ==
    /\ x \in resolvers /\ x.step = "check"
    /\ IF \E v \in x.batch : v \in sailing /\ Matured(v, now)
       THEN /\ resolvers' = (resolvers \ {x}) \cup {[x EXCEPT !.step = "send"]}
            /\ UNCHANGED <<known, resolvingArrivals, refreshes>>
       ELSE Resolved(x, x.batch \ sailing, Nothing)
    /\ UNCHANGED <<chain, txs, transactions, pending, sync>>

\* resolve_arrival lands the next of its planet, resolve_planet_arrivals all.
ResolveLands(x) ==
    /\ x \in resolvers /\ x.step = "send"
    /\ IF x.kind = "single" THEN x.batch \subseteq sailing /\ Land(x.batch)
       ELSE Land(Due(x.planet))
    /\ resolvers' = (resolvers \ {x}) \cup {[x EXCEPT !.step = "landed"]}
    /\ UNCHANGED <<txs, transactions, pending, known, resolvingArrivals, refreshes, sync>>

ResolveAnswered(x) ==
    /\ x \in resolvers /\ x.step = "landed"
    /\ Resolved(x, x.batch, Nothing)
    /\ UNCHANGED <<chain, txs, transactions, pending, sync>>

\* The transaction fails, or only its answer is lost.  A single resolution looks
\* again whether the arrival is there, if it can; a batch is retried one by one.
ResolveFails(x) ==
    /\ x \in resolvers /\ x.step \in {"send", "landed"}
    /\ IF x.kind = "single"
       THEN \E clears \in {{}, x.batch \ sailing} : Resolved(x, clears, Nothing)
       ELSE Resolved(x, {}, Then("retry", 0, x.batch))
    /\ UNCHANGED <<chain, txs, transactions, pending, sync>>

-----------------------------------------------------------------------------
TxNext(t) ==
    \/ \E i \in Intents : Queue(t, i)
    \/ Watch(t) \/ Send(t) \/ Mined(t) \/ Confirm(t) \/ Fail(t) \/ Cancel(t)

RefreshNext(r) ==
    ReadArrivals(r) \/ Apply(r) \/ FailRefresh(r)

ResolverNext(x) ==
    CheckArrival(x) \/ ResolveLands(x) \/ ResolveAnswered(x) \/ ResolveFails(x)

Next ==
    \/ NextBlock \/ OthersAct \/ BlockSeen
    \/ \E t \in Txs : TxNext(t)
    \/ \E l \in Asked : AskRefresh(l)
    \/ \E r \in refreshes : RefreshNext(r)
    \/ \E x \in resolvers : ResolverNext(x)

Spec == Init /\ [][Next]_vars

-----------------------------------------------------------------------------
(* Fairness: blocks are made and seen, timers fire, submissions and calls end *)
(* in one way or the other, and what is tried for ever succeeds some time.    *)

RefreshThen(what, t) ==
    \E r \in refreshes : r.then.do = what /\ r.then.tx = t /\ RefreshNext(r)

ResolutionOf(i) == \E x \in resolvers : (\E v \in x.batch : v.id = i) /\ ResolverNext(x)

Fairness ==
    /\ WF_vars(NextBlock) /\ WF_vars(BlockSeen)
    /\ \A t \in Txs :
         /\ WF_vars(Watch(t) \/ Send(t) \/ Confirm(t) \/ Fail(t))
         /\ WF_vars(RefreshThen("clear", t))
    /\ \A what \in {"nothing", "retry", "synced"} : WF_vars(RefreshThen(what, 0))
    /\ SF_vars(\E r \in refreshes : r.then.do = "synced" /\ ReadArrivals(r))
    /\ \A i \in 1..MaxArrivals :
         /\ WF_vars(ResolutionOf(i))
         /\ SF_vars(\E x \in resolvers : (\E v \in x.batch : v.id = i) /\ ResolveLands(x))

FairSpec == Spec /\ Fairness

-----------------------------------------------------------------------------
(* Properties. *)

InCollections(t) ==
    \E c \in DOMAIN transactions : \E i \in 1..Len(transactions[c]) : transactions[c][i] = t

\* The refresh before clearUnconfirmedTxIntent threw: nothing clears t any more.
Stuck(t) ==
    /\ stage[t] = "confirmed" /\ InCollections(t)
    /\ ~\E r \in refreshes : r.then.do = "clear" /\ r.then.tx = t

StuckAt(l) == \E t \in Txs : Stuck(t) /\ l \in {intent[t].from, intent[t].to}

\* A voyage to a planet of the player's lands, whoever sent it and even if no
\* other client resolves it, and is forgotten when it has landed: batches that
\* fail, lost answers, reads that throw and stale ones only delay it.  But not if
\* an intent is stuck at the planet.
EveryArrivalResolves ==
    \A i \in 1..MaxArrivals :
        (\E v \in sailing \cup known : v.id = i /\ v.to \in Mine)
            ~> (\A v \in sailing \cup known : v.id = i => StuckAt(v.to))

\* The intent of a transaction leaves the collections, unless the refresh that
\* precedes its end threw.
IntentCleared ==
    \A t \in Txs : (stage[t] # "none") ~> (~InCollections(t) \/ Stuck(t))

\* An arrival is being resolved by one resolution at a time, and is not taken
\* for being resolved when none is.
ResolvingExact ==
    /\ resolvingArrivals = UNION {x.batch : x \in resolvers}
    /\ \A x, y \in resolvers : x.batch \cap y.batch # {} => x = y

\* A move is never shown twice, as the arrival drawn ahead and as the one read.
NeverDrawnTwice ==
    \A t \in drawn, v \in known : v.id # voyageOf[t]

\* The record of a transaction under way is there, unless one has failed or has
\* been cancelled: removing a record that is gone removes another.
LostOnlyByErrors ==
    \A t \in Txs : Unsettled(t) /\ (\A u \in Txs : ~Failed(u) /\ u \notin cancelled)
        => InCollections(t)

\* Of a transaction that is over nothing is left to be shown: no record of one that
\* failed, however often its failure is announced and whether the listeners were
\* there in time, and no arrival drawn ahead for one confirmed, failed or cancelled.
NothingLeftBehind ==
    /\ \A t \in Txs : Failed(t) => ~InCollections(t)
    /\ \A t \in pendingArrivalsByTx \cup drawn : Unsettled(t) /\ t \notin cancelled

\* What removeTransaction promises: it takes away no record but that of a
\* transaction that has ended or was cancelled.
RemovesOwnRecord ==
    [][\A t \in Txs : InCollections(t) /\ ~InCollections(t)'
        => ~Unsettled(t)' \/ t \in cancelled']_vars

=============================================================================
