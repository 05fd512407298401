# A verification project for Dark Forest on Aztec

TLA+ specifications of the game in this repository, the TLC configurations that
check them on small instances, and proofs, checked by TLAPS, of what matters
most for all instances. The code is the reference: each definition names the
lines it stands for in `PROJECT.json` (`map`).

## 1. The system

Players own planets, send fleets and spaceships between them, find and use
artifacts, and upgrade planets. The rules are one Aztec contract; the state it
keeps is public, the coordinates of planets are private and enter only as hashes
and proofs. A TypeScript client mines coordinates, mirrors the public state and
sends transactions.

### 1.1 Components

**DarkForest contract** (`packages/contracts/src/main.nr`, types in `types.nr`).
- *State*: maps of planets, of the twelve arrival slots and five artifact slots
  of each planet, arrivals by id and the next id, artifacts, their locations,
  spaceship owners, three counters of ships per planet (pausers, two doublers),
  destroyed flags, junk of planets and players, players, prospecting state,
  revealed coordinates, touched and revealed indices.
- *Operations*: `init_player`, `move`/`move_known` (-> `apply_move`),
  `reveal_location` and the numbered actions of `apply_action` (give ships,
  upgrade, prospect, find, deposit, withdraw, activate, deactivate),
  `resolve_arrival`, `resolve_planet_arrivals`.
- *Hard*: nothing happens by itself. A planet is aged only when a transaction
  reads it, and an arrival lands only when a transaction asks, so every operation
  meets planets that are stale and queues with arrivals that are overdue, some
  operations settle them first and some do not, and up to 24 landings run inside
  one transaction.
- *Correct when*: the queues hold exactly what flies; clocks never overtake
  arrivals; arrivals land in order, once, and in the end; unsigned arithmetic
  never goes below zero; planets change hands only by arms or by abandoning;
  ships, artifacts and silver are neither lost nor made; statistics go back to
  what they were when a ship leaves or an artifact is deactivated.

**NFT contract** (`packages/nft`): owners of artifacts. Called by the game to mint
and to transfer. *Correct when* owner, slot and location agree.

**Ticker** (`packages/ticker`, `aztec-tick.mjs`): sends a transaction now and then
so that blocks are produced when nobody plays.

**df-network** (`packages/df-network`): `ThrottledConcurrentQueue` (tasks under a
concurrency and a rate limit), which contract calls, account loading and the
executor share; `TxExecutor` (nonces, 30 s submission timeout, confirmation), which
the Aztec client has but does not instantiate; connection and contract-call
wrappers. *Correct when* limits hold, no task is run twice, overtaken or forgotten,
nonces follow each other.

**Client** (`apps/client/src/Backend`): `GameManager` and `GameObjects` (a mirror
of the chain with optimistic transactions and pending arrivals, and the resolver
of due arrivals), `ContractsAPI`, `SnapshotLoader`, `MinerManager` with its workers,
`PersistentChunkStore`. *Correct when* every optimistic effect is confirmed or
undone, an arrival is shown landed once, a due arrival is resolved, and no
explored chunk is lost or mined twice.

### 1.2 How they interact

client -> contract: transactions, through `ContractsAPI.submitTransaction`.
contract -> client: no events; the client polls blocks and reads public storage in
several calls, between which blocks pass. contract -> NFT: public calls within the
transaction. ticker -> chain: blocks. All clients compete to resolve arrivals.

The behaviours that are hard to test are listed one by one, at their lines, under
`hazards` in `PROJECT.json`.

## 2. The modules

| module | models | proofs |
|---|---|---|
| `DFRules` | functions of planet records and fixed arrays: refresh, combat, buffs, ships' effects, slots | `DFTypeProofs` |
| `DFStorage` | the public storage (VARIABLES), landing of arrivals: `execute_arrival`, `process_pending_arrivals` | `DFTypeProofs`, `DFQueueProofs` |
| `DarkForest` | the state machine: one action per transaction | `DFTypeProofs`, `DFQueueProofs`, `DFPlaceProofs`, `DFSilverProofs` |
| `Registry` | `DarkForest` with the public lists, the reveal clock and the nullifiers | `RegistryProofs` |
| `DFProperties` | what the contract promises | |
| `Voyages` | the arrival queues, abstractly: voyages that leave, and land in order | `DFQueueProofs` |
| `GameClient` | one client: its transactions, what it shows, the arrivals it resolves | `GameClientProofs` |
| `ChunkStore` | `PersistentChunkStore`: the quadtree of explored chunks and its saving | |
| `Explorer` | `MinerManager` over `ChunkStore`: jobs, searches, workers | `ExplorerProofs` |
| `ThrottledQueue` | `ThrottledConcurrentQueue` of df-network | `ThrottledQueueProofs` |
| `MCDarkForest`, `MCRegistry`, `MCGameClient`, `MCExplorer` | values of the constants for TLC | |

`DFStorage` extends `DFRules`, `DarkForest` extends `DFStorage`, `Registry` and
`DFProperties` extend `DarkForest`, and `DFProperties` instantiates `Voyages`. So
does `GameClient`, for its environment: the chain its transactions meet lands what
`Voyages` lets land. That is how it is built and nothing is claimed of it; that the
contract provides such a chain is `VoyagesImplemented`. `Explorer` extends
`ChunkStore`. `ThrottledQueue` stands alone: neither the contract nor the client's
handlers know of it.

### 2.1 The contract

A variable is a map in `Storage` of the same name (`ship_counts` joins
`planet_pausers` and the two doubler counters, `prospecting` is
`planet_artifact_state`, `home_planets` and `claimed_ships` are fields of a player,
`nft_owners` is the NFT contract's map). An action is a whole transaction with all
the public functions it calls: it runs alone and is undone as a whole when an
assertion fails, so each assertion is a conjunct of its action and an early return
an alternative. Landings, which run many times within one transaction, are
functions from storage to storage (`ExecuteArrival`, `ProcessPending`); their result
has a field `ok` that a failed assertion clears, and an action is enabled only when
it is still set. `ProcessPending` makes the twelve rounds the code makes.

`Registry` is the contract with what it keeps for its readers. There are no events,
so a client that starts learns of planets from two lists only: the planets ever
touched, the coordinates ever revealed. Three kinds of transactions write them, and
the nullifiers: a claim of a home, a reveal, and the first move to a planet, each an
action of `DarkForest` with its writes conjoined (`InitPlayerIndexed`,
`RevealLocation`, `Touch`). All others are `OtherNext`, which leaves them alone. A
count and the array it counts are one sequence. A reveal of a planet that is known
changes only the lists: for `DarkForest` it is a stutter.

**The refinement.** `Voyages` knows a clock, the set of voyages under way and the
next number. The mapping (`DFProperties`): `now` is `block`, a live arrival record is a
voyage with its number, ends and arrival block (`Sailing`), `next` is
`next_arrival_id`. Slots, buckets, clocks of planets, the rounds of
`process_pending_arrivals` and who asked for a landing are gone. What is left is that
a voyage lands once, not before it is due, with all that were due before it at its
planet, that whoever sends one leaves nothing due at either of its ends, and that a
planet has a berth for each voyage on its way there.

### 2.2 The client

Its code runs on one event loop, so an action of `GameClient` is what runs from one
`await`, event or timer to the next, and everything may come between: blocks, other
players, other handlers of the same client.

- *Transactions* (`GameManager`, `ContractsAPI.submitTransaction`). `stage` says how far
  one has come: its arguments are awaited, it is sent, confirmed, or failed before
  or after it was sent. `Queue` draws the intent and, for a move, the arrival ahead
  of the chain. `Watch` is the timer in which `emitTransactionEvents` subscribes; a
  failure before it and after it announces `TxErrored` a different number of times
  (`Errored(t, n)`). `Mined` is the chain's doing and happens whether or not the
  client ever learns of it. `Confirm` starts a refresh whose end clears the intent.
- *Collections*. `transactions` has the `TransactionCollection` of all and of each
  planet, as sequences, because `removeTransaction` splices at an index.
- *Refreshes*. One reads (`ReadArrivals`), then replaces what is known of its planets
  (`Apply`), and says in `then` what awaits it. Either read may be late; it may throw.
- *Resolution*. `BlockSeen` picks due planets as `resolveMaturedArrivals` does; a
  resolver checks the chain, sends, and is answered or fails, its answer possibly
  lost after the transaction was mined; a batch that fails is retried one by one.

Which planets are the player's (`Mine`) does not change: in the client it decides only
which are synced. What a refresh says of the planet itself, artifacts, and the intents
that are handled like an upgrade are left out.

### 2.3 The explorer

`Explorer` is `MinerManager` with its workers. A job begins with exploring, with a
new pattern or with a new number of cores, and ends nowhere in the code: what it
left behind, a search in a later callback or slices at workers, meets the jobs
after it. A chunk is explored by all workers of the pool, a slice each, and is
stored when as many slices have come as there are workers. The pattern is a pure
function (`NextChunk`, `Candidate`), on the part of the plane a search can reach.

`ChunkStore` holds the chunks three times over: in memory, in the queue of writes, and
on disk, with the batches in between that the database was given. `AddChunk` merges
four squares into one as far up as it goes (`Grown`, `Merged`). The throttle is
lodash's, with its leading and trailing call, and is replaced when the pace changes.
`Reload` forgets all but the disk, at any moment; `LoadChunk` reads it back in any
order, since the keys are hashes. A save may fail as a whole (`SaveFails`).

### 2.4 The throttled queue

Each callback is an action: a user's `add`, `remove` or `prioritize`; a call of
`executeNextTasks` that is owed (`WakeUp`: the `setTimeout(.., 0)` of `add`, or what
follows `next`); the armed timer; a task that settles, well or not. `next` runs up to
`task.start()` without giving up control, so `executeNextTasks` starts all it starts
in one step. Timestamps are kept as ages, which `Tick` advances and which stop at one
more than the interval, so the clock needs no bound; a timer may fire late, never
early. A `maxConcurrency` that is not given is infinite in the code: here, any number
from `NumTasks` up. That a started task returns a promise, as its type says, and does
not throw, is assumed of the users of the queue.

### 2.5 Abstractions

- *What is proved privately* (coordinates, distance, range, perlin) decides only
  which planets there are (`Geography`, `DefaultStats`), what a move loses on its way
  (`Losses`) and how long it takes (`TravelTimes`): chosen freely.
- *The logistic curve* is replaced by its direction: population moves towards the
  cap, from either side, never past it. No property depends on how fast.
- *Range and speed* of a planet are left out with what they decide.
- *Statistics* are constants. In the TLC runs buffs divide evenly; the drift by
  rounding down of repeated buffs is not covered (a listed hazard).
- *Ids*: an artifact is named by the planet it was found on (the code hashes the
  planet into the id, so there is at most one per planet), a ship by the home it was
  given out at and its type.
- *Left out of the contract*: admin configuration, pausing of the world.

**Bounds of the model** are `MaxArrivals` (ids) and `MaxBlock` in all of the contract and
the client, `Shipments`, `Losses` and `TravelTimes`; `NumTxs`, `MaxEvents` (transactions
queued and voyages others send) and `MaxRefreshes` (refreshes in flight, but for those
transactions start) in `GameClient`; `MaxJobs`, `MaxCandidates` (tried in one callback,
of which the code has its own number) and `MaxFaults` (saves that fail and pages closed)
in `Explorer`; `NumTasks` in `ThrottledQueue`. `MayDepart` and `Depart` keep moves within
them: an arrival that cannot land before `MaxBlock` is not sent. The proofs are for any
values of them.

## 3. What TLC checks

| run | instance | shows |
|---|---|---|
| `fleets` | two homes, two players, buckets of 2 (four slots), three arrivals, travel of 1 or 2 blocks, under fairness | types, exact queues, clocks behind arrivals, owned planets populated, landing in order, ownership only by arms or abandoning, `Voyages` implemented, every arrival lands |
| `ships` | two homes and a level-2 planet, two players, Mothership and Crescent each | no ship lost or doubled; counters and doubled growth agree with the ships there |
| `artifacts` | `Registry` on a home and a foundry, one artifact of five types | the public lists are exact; location, not lost, burned is gone, statistics follow the active artifact, the cannon included |
| `economy` | a home, a mine, a foundry, a trading post and a planet with upgrades | silver is made by mines only, no block of growth counts twice; no artifact is lost between planets and hands |
| `stuck_queue` (violated) | a foundry with a black domain | see findings |
| `two_places` (violated) | a trading post and an artifact in flight | see findings |
| `client` | a move and reveals, two transactions of all fates, another player, stale and failing reads | no move drawn twice; nothing left to be shown of a transaction that is over; no record lost unless something fails or is cancelled |
| `arrivals` | two arrivals at an owned planet, or one and an upgrade, under fairness | one resolution per arrival at a time; every arrival lands and is forgotten; intents are cleared |
| `lost_record` (violated) | two transactions, one cancelled | see findings |
| `explorer` | a world of four squares at the corner of an imported map, one or two workers, both patterns, two jobs, one fault, under fairness | slices add up, one chunk per job, whole and merged chunks, the disk follows memory and loses nothing, all of the world is explored |
| `unsaved` (violated) | one worker, the threshold of saving at 2 | see findings |
| `throttle` | three tasks, two at a time, two in two milliseconds, under fairness | both limits, for every interval; order; no waiting task without a call to come; every task starts or is removed |

The runs of the contract and of the client say `CHECK_DEADLOCK FALSE` because blocks,
ids and transactions run out by their bounds: the last state has no successor. The
runs of `ThrottledQueue` and `Explorer` check for deadlock.

*Why the bounds are enough.*
- A bucket of 2 lets a queue be partly and wholly full, hold arrivals of both kinds,
  tie on a block and be reordered by travel time (1 or 2); three arrivals let
  two queue up on one planet while a third is answered from it, and fill a bucket and
  have one refused. Three blocks more than the longest travel leave room for a landing
  that is overdue. A home holds 4 with a
  cap of 3 and defense 50, so that growth, decay, both rounding cases of combat, a
  win, a loss and a draw occur with shipments of 2. One artifact is enough for the
  location of artifacts, since at most one is active on a planet; two ships of two
  players meet for the counters. `SPACE_JUNK_LIMIT` is small enough that a move is
  refused for junk. Players are symmetric in `ships`; runs with fairness use no
  symmetry. The limit of six per bucket and the twelve rounds of the code are
  covered by the proof for all bucket sizes up to six. Three arrivals fill a bucket,
  never the whole queue: the fleet that finds no slot of it is left to `QueueCorrect`.
- `stuck_queue` blocks a queue by a black domain. Slots that are full when an artifact
  or a ship lands would block it as well; the run does not fill them, and `QueuesPass`
  has a free slot as a hypothesis.
- *Width.* An arrival block is a sum of 64 bits of which 32 are kept (`ArrivalBlock`).
  `WidthAssumption` says that nothing is cut, and every run and every theorem about
  queues is under it. It is the configured time factor that justifies it: at the
  deployed 1200000 (`deploy_local.js:47`, `deploy_devnet.js:83`) a travel time stays
  below 3.6e7 at any speed. It is not the map: a caller may name any distance up to
  2^32 - 1 for a ship, which no decay stops, and at the factor of 100 that
  `e2e_darkforest.js:50` uses its arrival block can wrap to the past or to 0.
- In `artifacts` the planets are touched in all three ways, before and after they are
  revealed, and a cooldown of one block both stops reveals and runs out. In the other
  runs of the contract anyone may reveal anything. In `economy` two arrivals are a
  conquest and a shipment of what the planet mined, or of the artifact found there.
- In `client` two transactions are the fewest that can take each other's record, and
  a refresh of the player's beside those the transactions start is what makes a
  read stale. In `arrivals` two arrivals make a batch, and one planet more is where
  they come from.
- In `explorer` a chunk added at `Home` completes a square of two and one of four, or
  comes to lie in one that is imported; there is a slice without planets and a square
  outside the world; one fault is a failed save or a closed page at any moment. The
  threshold of 2 stands for the code's 50: what matters is that the pace changes
  with something queued.
- In `throttle` three tasks under limits of two leave both quotas used up, by the same
  tasks and by different ones, with one more waiting; an interval of two milliseconds
  has an inside and both edges.

Each property is checked to be able to fail: `mutants` in `PROJECT.json` names, for
each, a plausible bug in one definition under which TLC finds it violated. They
stand in the modules, before the definition they are a mutant of.

**Fairness.**
- *Contract* (`FairSpec`). `WF(NextBlock)`: the sequencer produces blocks, and the
  ticker exists to make sure of it. `WF(ResolveNextOf(l))` for each planet: every
  client that sees an arrival due queues `resolve_arrival` for it
  (`GameManager.resolveMaturedArrivals`), again each block until it is gone; only the
  earliest of a planet can be resolved, so this is the least a client does. Nothing
  is assumed of players.
- *Client* (`Fairness`). Blocks are made and seen; each transaction's next step is
  taken, whichever it is (a promise settles one way or the other); each resolution
  and each kind of refresh goes on or fails. Strong fairness stands for "what is
  tried for ever succeeds some time", for two things the client repeats without
  limit: the synced read of its planets, and a resolution that is sent. Nothing is
  assumed of players, and no other client resolves anything.
- *Explorer*. `FairSpec`: timers of searches fire, workers answer, the table is read
  and the miner made. `FairStoreSpec` adds that the timers of the throttle and of the
  two minutes fire and that the database answers. Players and faults are free.
- *Throttled queue*. `WF(WakeUp)` and `WF(TimerFires)`, the event loop runs what is due;
  `WF(Tick)`, time passes; `WF(Settle(t))`, a task that is started settles in the end,
  without which `maxConcurrency` of them would block the queue for good.

## 4. Findings

- `stuck_queue`: `docs/aztec-arrival-lifecycle.md` says the loop of
  `process_pending_arrivals` resolves mature arrivals. On a planet that a black
  domain destroyed while fleets were on their way it cannot: `execute_arrival`
  asserts that the planet is not destroyed, so what was on its way stays in the
  queue forever, and with it every transaction that settles that planet fails.
  `QueuesPass` says what remains true.
- `two_places`: `docs/giga-truth-report.md` reads location 0 as "in transit/unowned".
  `DepositArtifact` takes 0 as leave to deposit; an artifact sent off from a trading
  post can be deposited there again while it flies, and ends up in the slots of two
  planets. `LocationNamesPlanet` is therefore checked without a trading post
  (`artifacts`), and `economy`, which has one, checks that nothing is lost.
  `LocationsCorrect` says that nothing else breaks it.
- `lost_record`: `TransactionCollection.removeTransaction` says it removes the record of
  the given transaction. It splices at the index found, which is -1 when there is
  none, and so removes the last. The log of transactions cancels a copy of the
  record, which is never found: the record of another transaction goes, while that
  one is still under way. `LostOnlyByErrors` says what remains true.
- `unsaved`: `PersistentChunkStore` says it queues chunks "and periodically saves them".
  When the pace of saving changes back, the throttled save is cancelled with the call
  that was pending, and the new one is called only when another chunk is added.
  `QueuedIsScheduled` says what remains true: it does not happen while chunks come fast.

Two remarks, which no run is about. `nextPossibleExecution`
(`ThrottledConcurrentQueue.ts:214`) says it returns the soonest possible time from now
and returns the interval *plus* the age of the oldest start, where what is left of the
interval is the interval minus that age; the timer is late, no limit is broken and
every task still starts (`throttle`). The loop of `nextValidExploreTarget`
(`MinerManager.ts:270`) gives up a search only if nothing is explored *and* the job is
not the last one, so that searches of earlier jobs go on beside the present one;
`OneChunkPerJob` says that they do so one per job, and `SlicesAddUp` that they do no harm.

## 5. What is proved

With TLAPS, for all values of the constants that satisfy the named assumptions
(model values differ, statistics and inputs are natural numbers, buffs are not zero,
the bucket limit is 1 to 6, travel takes at least a block, and the like; each is an
`ASSUME` of its module, which TLC evaluates in the runs):

*The contract.*
- `TypeCorrect`: `Spec => []TypeOK`. Typing is where the unsigned arithmetic is.
  The heart is `SurvivorsNat`: the two roundings of a landing agree. TypeOK alone is
  not inductive. A debuff divides by what the artifact's type and rarity give, so
  one has to know that only artifacts that were found, never ships, are active
  (`ArtifactsKnown`); a landing is on a planet only because live arrivals are bound
  for one (`LiveBound`). `TInv` adds the two; `StepType` has one lemma per action.
- `QueueCorrect`, `ClockCorrect`, `LandingOrderCorrect`: `QueueExact`,
  `ClockBehindArrivals` and `LandInOrder`. They are one inductive invariant, `QInv`,
  and cannot be proved apart: a landing writes its own block as the clock of the
  planet, so it passes no arrival only if it is the earliest; it is the earliest of
  all that are live and not only of those queued because the queues are exact; and a
  move or an upgrade writes the present block, which passes nothing only if
  `process_pending_arrivals` has landed all that was due. That is
- `ProcessSettles`: twelve rounds are enough. Each round that changes anything takes
  a slot off the due ones (`RoundLeft`), of which there are at most twice the bucket
  limit. `SettledGood` adds that the second of the two calls of a move does not
  undo the first. Within a transaction the argument is carried by `After`, a
  transitive relation between the storage a transaction starts with and the storage
  it has come to.
- `VoyagesImplemented`: `DarkForest` implements `Voyages`. From `QInv` and `After`: one
  transaction takes away a set of live arrivals that is closed under "due before, at
  the same planet", and at most adds one. The set is what `MayLand` asks for because
  the storage in between is exact too. The berths are the slots the exact queues
  assign (`BerthsKept`).
- `RegistryImplements`: `RegistrySpec => Spec`, so that all of the above holds of the
  contract with its lists. `ListsExact`: `IndicesExact`. Its invariant `RInv` ties the
  seen-sets to the flags of the planets; that no other transaction initializes one, or
  unsets one, and that a move initializes its destination and nothing else, in spite
  of the twenty-four landings before it, comes from `QInv` and `After` (`Sends`,
  `PlanetsStay`).

*Ships and artifacts* (`DFPlaceProofs`), over `PInv`: `QInv` with `Places`, which says of
each ship that was given out that it is in one place and that its location tells which
(`Tidy`, `ShipsKnown`), of each artifact that was found that it is somewhere, in hands or
burned (`FoundKept`), of the three counters what they count (`Counted`), and that slots
of planets nobody wrote are bare. It is carried through a transaction as the queues
are: what landings may do to places (`Carried`) is a relation between storages that is
transitive, so it holds of all 24 landings of a transaction.
- `ShipsInOnePlace`, `CountersCorrect`, `NoArtifactLost`, `ShipsLocated`: without any
  condition. The place of a ship is a cardinality over slots and arrivals in the
  property, and "in one slot or on one arrival" in the proof (`OnePlaceCounted`).
- `LocationsCorrect`, `BurnedStaysGone`: for behaviours in which no artifact is deposited
  while it flies (`[][Calm]_vars`). Without it they are false: that is the finding
  `two_places`. The theorems say that it is the only way to break them, on any map,
  with trading posts; `artifacts`, which has none, satisfies the hypothesis.
- `OwnersCorrect`: `OwnersChangeByArms`, without any condition.
- `GarrisonsHold`: `OwnedPopulated`, as long as no population cap comes down to 0
  (`[]Habitable`). One can: a Monolith activated on one planet, withdrawn while active,
  and deactivated on another takes from the second what it gave the first; a bloom
  filter then fills the planet up to a cap of nobody.
  `GarrisonsHoldWithoutMonoliths` gives the hypothesis from the constants: default caps
  are not zero and no buff changes a cap.
- `QueuesPass`: what remains true of the finding `stuck_queue`. A planet's queue settles
  if what is due finds it not destroyed, with a defense, and with a free slot for each
  artifact that comes (`Passable`); every other assertion of a landing, the unsigned
  subtractions and the order of the clock among them, holds by `QInv`.
- `GrowthCorrect`: `GrowthMatchesShips`, planet by planet, for planets that nobody
  upgrades or buffs meanwhile (`Unbuilt`). That is needed: an upgrade under a
  Mothership adds a part of the doubled growth, and the halving when the ship leaves
  takes half of that too, rounded. `GrowthsCorrect` is the property of the run, whose
  instance has neither upgrades nor artifacts. What carries it through landings is
  that a planet's growth is twice its default exactly while the counter of Motherships
  is not zero (`Doubled`), with `CountersCorrect`.
- `StatsCorrect` and `AllStatsCorrect`: `StatsMatchActive`, planet by planet and for all.
  Three hypotheses exclude what makes it false: no artifact is withdrawn while it is
  active (`Careful`; the code does not ask, and the buff stays behind), the planet is
  not upgraded (`Unraised`), and its default cap and defense times every buff are whole
  (`Evenly`; else buff and debuff both round, and the default does not come back). The
  instance of `artifacts` meets all three. `Calm` is needed too: an active artifact could
  otherwise be deposited a second time. `ActivationsKept` is the invariant under it
  (`AInv`): what is active lies in a slot and no stamp is later than the block
  (`Steadfast`), and nothing else on its planet is active (`Alone`), through landings, departures, cannons that fire
  within a move, and burning. That types beyond the nine have no buff is
  `NoBuffAssumption`, the last branch of the code's table.
- `StatsNeverGain`: without `Evenly`. What rounding loses is lost to the planet: cap and
  defense never exceed the default under the buff that is on, however often it is
  put on and taken off. How far they drift down is not bounded by it.

*Silver* (`DFSilverProofs`): `SilverCorrect`, `SilverAccounted` for any finite set of
planets, in games without what makes silver (`NoMint`: Crescents make mines, Whales
double them, bloom filters fill them; `economy` has none of these either). The
property compares sums, and a sum over a set is recursive: what it does when one
member changes is proved by counting the set down to the least number for which the
claim fails (`LeastOfNats`). The *worth* of a planet is its silver and what its upgrades
cost, less what nature gave it up to its clock. A refresh adds none, since growth
stops at the cap and a clock passes a block once; a landing adds at most what came; a
departure takes away what leaves. `Balance`, the worth of all planets and all that
is on the way, starts at 0 and never rises.

*The client* (`GameClientProofs`).
- `TypeCorrect`: also when a record is removed that is not in its collection.
- `ResolvingIsExact`: `resolvingArrivals` is what the resolutions in flight resolve, each
  arrival by one of them; inductive once the arrivals are typed.
- `MovesDrawnOnce`: `NeverDrawnTwice` for any number of moves and stale reads. `Numbered`
  is the strengthening: what anybody in the client has heard of was numbered by the
  chain, so a move that is not mined has no voyage known; the voyage of a move goes
  where the move does, and a refresh has seen only arrivals of the planets it will
  replace, so whoever brings in the voyage takes the move drawn ahead away.
- `RecordsKept`: `LostOnlyByErrors`. Unless something failed or was cancelled, a
  transaction under way has its record in both collections, and one refresh at most
  will take it away (`Recorded`); so a removal finds what it looks for, at an index that
  is not -1, and takes nothing else.
- `NothingStays`: `NothingLeftBehind`, for the failures `RecordsKept` leaves out. The
  listener of `TxErrored` runs up to three times for one transaction (the catch, and
  each promise it rejects); subscribed too late, it hears of the promises only.
  `Neat` says that a record is filed once in each of its collections (`Filed`) and
  that what is drawn ahead belongs to a transaction under way: the first removal
  takes the record, and the ones after it, which splice at -1, take others' but put
  nothing back.

*The explorer* (`ExplorerProofs`).
- `SlicesCounted` and `JobsAlone`: `SlicesAddUp` and `OneChunkPerJob`, from one invariant
  (`Good`) over the pool of workers, the searches and the entries. A worker has one
  slice of a job at most, the one of its place (`Lined`), and a job has one search or
  slices of one chunk (`Exclusive`): without either, taking a slice from a worker
  might not lower by one what is still to come (`AddUp`).
- `ScheduleKept`: `QueuedIsScheduled`, with the counter of updates being a number.
- `ExplorerTyped`, `ChunksWhole`, `BoardKept`: `TypeOK`, `WholeChunks`, `BoardGrows`, whatever
  fails and whenever the page is closed. `MinedInv` says that what is not yet explored
  of a chunk is in a slice that a worker has; so what is added when the last slice has
  come is whole. `StoreInv` says that memory, disk, queue and batches hold whole chunks
  only (`WholeMap`, `Txs`), and that nothing deletes a chunk but together with writing
  one it lies in.
- `ChunksCanonical`, `WritesAddUp`: `Canonical` and `WritesTell`. `Told` gives the maps the
  disk will go through as batches are written (`Path`) and says that it arrives at what
  memory holds. Merging climbs a tree: sides are powers of two, two aligned squares are
  one in the other or apart, and the chunk that a climb ends at lies in no other
  because none of its four quarters did (`GrewWell`). The hypothesis `Tidy(SavedBefore)`
  is on what the table held before the session: no chunk in another, no complete
  square unmerged. An empty table satisfies it, and a session without failed saves
  leaves it so, as `Canonical` says. That chunks which are imported are aligned is
  what `ChunkUtils.ts:72-81` says of footprints (`StoreAssumption`).

*The throttled queue* (`ThrottledQueueProofs`), for any limits and number of tasks:
`QueueTypes`, `ConcurrencyKept`, `ThrottleKept`, `NothingStranded`, `OrderIsKept`. Their
inductive invariant `IInv` adds to the types that the counter counts the tasks that
run, that what runs was started, that numbers above `added` wait nowhere and were
never started, and that every start within the interval is recorded. `ThrottleKept`
follows: those within the interval are among the recorded, of which there are never
more than the limit. That forgetting the outdated ones from the front forgets nothing
recent (`RecentKept`) needs the first index that is not outdated; `LeastNat`, from the
well-foundedness of the natural numbers, gives it.

The recursion in all this is over functions on numbers, sets or squares, and induction
over data is done by taking the least number at which the claim fails (`LeastNat`,
`LeastOfNats`, `LeastNumber`): theorems of the library that take an operator
as a parameter cannot be used by the installed provers.

*Only model-checked*: liveness under fairness, which is out of the installed provers'
reach: `EveryArrivalLands`, `EveryArrivalResolves`, `IntentCleared`, `WorldExplored`,
`EveryTaskStarts`. TLC's instances say nothing of larger numbers there. All other
properties of the passing runs are stated by a theorem, some of them under the
hypotheses named above.

## 6. What is not modelled, and the plan

Not modelled and not planned: hashing, noise and the exponentials of the private
half (254-bit field arithmetic, out of TLC's reach), user interface, renderer,
plugins, deployment and benchmark scripts, the v0.6 reference. The repository is
large because of these: most of its lines are display code, tables and copies of the
older game. The snapshot and the initial download happen before anything is
optimistic; a snapshot that is behind is a stale refresh, which `GameClient` has.

Next, in this order (a new component shares a run or replaces one that asks less):
1. `PlanetStats`: the code's own tables, drift of buffs, a defense of zero, the
   contract without `WidthAssumption`, to say what an arrival block that wraps breaks.
2. In `artifacts`, a trading post beside the foundry for withdrawals of active
   artifacts; in `ships`, a Whale beside the Crescent on one planet.
3. In `GameClient`, the fallback from `move_known` to `move` under one intent.
4. `ContractCaller` and `TxExecutor` over `ThrottledQueue`: retries; nonces and a
   transaction that is mined after it was given up. The Aztec client does not
   instantiate the executor.
5. The other patterns, the home search and its store.

Theorems worth proving next: silver with Crescents, which need only the default to be
counted again; a bound on the drift below `StatsNeverGain`.
