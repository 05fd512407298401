----------------------------- MODULE ChunkStore -----------------------------
(***************************************************************************)
(* PersistentChunkStore of the client: the chunks a player has explored,   *)
(* as a quadtree in memory and as a table on disk.                         *)
(*                                                                         *)
(* A chunk that is added may complete a square with its siblings; they are *)
(* then one chunk, which may complete a larger square.  What changes is    *)
(* made in memory at once and queued for the disk, where it is written in  *)
(* batches, at a pace that depends on how much was added lately.  The page *)
(* may be closed at any moment and loads the table when it is opened again.*)
(*                                                                         *)
(* A footprint is a square of the map, named by its corner and its side; a *)
(* map of chunks is a function from footprints to the planets found there. *)
(* The unit is MIN_CHUNK_SIZE.                                             *)
(***************************************************************************)
EXTENDS Integers, Sequences, FiniteSets

CONSTANTS
    MAX_CHUNK_SIZE,
    Planets,            \* <<x, y, n>>: in the unit square at (x, y), the n-th there
    SavedBefore,        \* the footprints earlier sessions left on disk
    Imports,            \* footprints of the map the player may import
    SaveThreshold,      \* updates in two minutes from which saving is slower
    MaxFaults           \* a bound of the model: saves that fail, pages closed

\* The powers of two: the least set that holds 1 and doubles its members.
Sides ==
    {s \in 1..MAX_CHUNK_SIZE :
        \A S \in SUBSET (1..MAX_CHUNK_SIZE) :
            1 \in S /\ (\A t \in S : 2 * t <= MAX_CHUNK_SIZE => 2 * t \in S) => s \in S}

Footprints == [x : Int, y : Int, side : Sides]

\* "We only store aligned chunks": corners are at multiples of sides.
Aligned(loc) == loc.x % loc.side = 0 /\ loc.y % loc.side = 0

ASSUME StoreAssumption ==
    /\ MAX_CHUNK_SIZE \in Sides
    /\ Planets \subseteq Int \X Int \X Nat
    /\ SavedBefore \cup Imports \subseteq Footprints
    /\ \A loc \in SavedBefore \cup Imports : Aligned(loc)
    /\ SaveThreshold \in Nat \ {0, 1}
    /\ MaxFaults \in Nat

VARIABLES
    chunkMap,               \* in memory
    board,                  \* the object store BOARD
    loading,                \* what loadChunks has still to read
    queuedChunkWrites,      \* a transaction for each chunk that was added
    saving,                 \* batches handed to the database, oldest first
    throttle,               \* the state of throttledSaveChunkCacheToDisk
    nUpdatesLastTwoMins,
    reloads, failures       \* history

storeVars == <<chunkMap, board, loading, queuedChunkWrites, saving, throttle,
               nUpdatesLastTwoMins, reloads, failures>>

-----------------------------------------------------------------------------
(* Footprints. *)

\* getChunkOfSideLengthContainingPoint
Containing(loc, side) ==
    [x |-> (loc.x \div side) * side, y |-> (loc.y \div side) * side, side |-> side]

\* getSiblingLocations
Siblings(loc) ==
    LET corner == Containing(loc, 2 * loc.side)
    IN  {[x |-> corner.x + i * loc.side, y |-> corner.y + j * loc.side,
          side |-> loc.side] : i, j \in 0..1} \ {loc}

Within(loc, outer) == loc.side <= outer.side /\ Containing(loc, outer.side) = outer

PlanetsOf(loc) ==
    {p \in Planets : /\ loc.x <= p[1] /\ p[1] < loc.x + loc.side
                     /\ loc.y <= p[2] /\ p[2] < loc.y + loc.side}

Whole(locs) == [loc \in locs |-> PlanetsOf(loc)]

Larger(loc) == {side \in Sides : side >= loc.side}

\* getChunkByFootprint
HasMinedChunk(map, loc) ==
    \E side \in Larger(loc) : Containing(loc, side) \in DOMAIN map

MinedSubChunks(map, loc) == {sub \in DOMAIN map : sub # loc /\ Within(sub, loc)}

-----------------------------------------------------------------------------
(* Adding a chunk. *)

\* addToChunkMap: the square a chunk is in is complete once it is added.
Completes(map, loc) ==
    loc.side < MAX_CHUNK_SIZE /\ Siblings(loc) \subseteq DOMAIN map

Grown(map, loc) ==
    LET grown[at \in Footprints] ==
            IF Completes(map, at) THEN grown[Containing(at, 2 * at.side)] ELSE at
    IN  grown[loc]

Merged(map, loc) ==
    LET merged[at \in Footprints] ==
            IF Completes(map, at)
            THEN Siblings(at) \cup merged[Containing(at, 2 * at.side)] ELSE {}
    IN  merged[loc]

\* The actions of addChunk: some deletions, then one update.
Addition(map, loc, planets, persist) ==
    [delete  |-> Merged(map, loc) \cup IF persist THEN MinedSubChunks(map, loc) ELSE {},
     put     |-> Grown(map, loc),
     planets |-> planets \cup UNION {map[sibling] : sibling \in Merged(map, loc)}]

\* A mutant of Applied: the chunks that were merged stay.
AppliedBeside(map, tx) ==
    [loc \in DOMAIN map \cup {tx.put} |-> IF loc = tx.put THEN tx.planets ELSE map[loc]]

Applied(map, tx) ==
    [loc \in (DOMAIN map \ tx.delete) \cup {tx.put} |->
        IF loc = tx.put THEN tx.planets ELSE map[loc]]

\* bulkSetKeyInCollection
Replayed(map, txs) ==
    LET after[i \in 0..Len(txs)] ==
            IF i = 0 THEN map ELSE Applied(after[i - 1], txs[i])
    IN  after[Len(txs)]

Added(map, loc, planets, persist) ==
    IF HasMinedChunk(map, loc) THEN map
    ELSE Applied(map, Addition(map, loc, planets, persist))

-----------------------------------------------------------------------------
(* The throttle: "idle", it saves when it is called and its timer starts;    *)
(* "open", the timer runs; "armed", it was called and will save when the     *)
(* timer fires; "trailing", it did so: a call that comes soon waits for the  *)
(* timer, a later one saves.                                                 *)

\* persistQueuedChunks: the queue is handed to one transaction of the database.
PersistQueuedChunks(queue) ==
    /\ saving' = Append(saving, queue)
    /\ queuedChunkWrites' = <<>>

\* A mutant of ThrottledSave: called before the throttle is replaced.
ThrottledSaveBefore(state, queue) ==
    \/ /\ throttle \in {"idle", "trailing"}
       /\ PersistQueuedChunks(queue)
       /\ throttle' = IF nUpdatesLastTwoMins + 1 = SaveThreshold THEN state ELSE "open"
    \/ /\ throttle \in {"open", "armed", "trailing"}
       /\ throttle' = IF nUpdatesLastTwoMins + 1 = SaveThreshold THEN state ELSE "armed"
       /\ queuedChunkWrites' = queue
       /\ UNCHANGED saving

ThrottledSave(state, queue) ==
    \/ /\ state \in {"idle", "trailing"}
       /\ PersistQueuedChunks(queue)
       /\ throttle' = "open"
    \/ /\ state \in {"open", "armed", "trailing"}
       /\ throttle' = "armed"
       /\ queuedChunkWrites' = queue
       /\ UNCHANGED saving

\* recomputeSaveThrottleAfterUpdate replaces the throttle by a new one.
RecomputedAfterUpdate(n) == IF n = SaveThreshold THEN "idle" ELSE throttle

AddChunk(loc, planets) ==
    /\ loading = {}
    /\ IF HasMinedChunk(chunkMap, loc) THEN UNCHANGED storeVars
       ELSE \E tx \in {Addition(chunkMap, loc, planets, TRUE)} :
            /\ chunkMap' = Applied(chunkMap, tx)
            /\ nUpdatesLastTwoMins' = nUpdatesLastTwoMins + 1
            /\ ThrottledSave(RecomputedAfterUpdate(nUpdatesLastTwoMins + 1),
                             Append(queuedChunkWrites, tx))
            /\ UNCHANGED <<board, loading, reloads, failures>>

\* bulkAddNewChunks: the map of another player, or what a plugin explored.
Import(loc) == AddChunk(loc, PlanetsOf(loc))

\* Two minutes after an update.
Forget ==
    /\ nUpdatesLastTwoMins > 0
    /\ nUpdatesLastTwoMins' = nUpdatesLastTwoMins - 1
    /\ throttle' = IF nUpdatesLastTwoMins = SaveThreshold THEN "idle" ELSE throttle
    /\ UNCHANGED <<chunkMap, board, loading, queuedChunkWrites, saving, reloads, failures>>

\* A mutant of ThrottleTimer: it saves whether or not it was called.
ThrottleTimerAlways ==
    /\ throttle \in {"open", "armed"}
    /\ throttle' = "trailing"
    /\ PersistQueuedChunks(queuedChunkWrites)
    /\ UNCHANGED <<chunkMap, board, loading, nUpdatesLastTwoMins, reloads, failures>>

ThrottleTimer ==
    /\ \/ /\ throttle = "open"
          /\ throttle' = "idle"
          /\ UNCHANGED <<queuedChunkWrites, saving>>
       \/ /\ throttle = "armed"
          /\ throttle' = "trailing"
          /\ PersistQueuedChunks(queuedChunkWrites)
    /\ UNCHANGED <<chunkMap, board, loading, nUpdatesLastTwoMins, reloads, failures>>

-----------------------------------------------------------------------------
(* The database, and the page that is opened again. *)

\* A mutant of SaveDone: the queue is emptied after the await.
SaveDoneEmpties ==
    /\ saving # <<>>
    /\ board' = Replayed(board, Head(saving))
    /\ saving' = Tail(saving)
    /\ queuedChunkWrites' = <<>>
    /\ UNCHANGED <<chunkMap, loading, throttle, nUpdatesLastTwoMins, reloads, failures>>

\* Transactions that write to one object store run in the order they began.
SaveDone ==
    /\ saving # <<>>
    /\ board' = Replayed(board, Head(saving))
    /\ saving' = Tail(saving)
    /\ UNCHANGED <<chunkMap, loading, queuedChunkWrites, throttle,
                   nUpdatesLastTwoMins, reloads, failures>>

\* A mutant of SaveFails: what was written before the failure stays.
SaveFailsHalfway ==
    /\ saving # <<>>
    /\ reloads + failures < MaxFaults
    /\ failures' = failures + 1
    /\ board' = [loc \in DOMAIN board \ UNION {Head(saving)[i].delete :
                                                i \in DOMAIN Head(saving)} |-> board[loc]]
    /\ saving' = Tail(saving)
    /\ UNCHANGED <<chunkMap, loading, queuedChunkWrites, throttle,
                   nUpdatesLastTwoMins, reloads>>

\* The transaction aborts as a whole; nobody writes its chunks again.
SaveFails ==
    /\ saving # <<>>
    /\ reloads + failures < MaxFaults
    /\ failures' = failures + 1
    /\ saving' = Tail(saving)
    /\ UNCHANGED <<chunkMap, board, loading, queuedChunkWrites, throttle,
                   nUpdatesLastTwoMins, reloads>>

\* The page is closed, or the tab crashes: what is in memory is gone.
Reload ==
    /\ reloads + failures < MaxFaults
    /\ reloads' = reloads + 1
    /\ chunkMap' = Whole({})
    /\ loading' = DOMAIN board
    /\ queuedChunkWrites' = <<>>
    /\ saving' = <<>>
    /\ throttle' = "idle"
    /\ nUpdatesLastTwoMins' = 0
    /\ UNCHANGED <<board, failures>>

\* loadChunks reads bucket by bucket, in the order of the keys, which start with
\* a hash: any order.
LoadChunk(loc) ==
    /\ loc \in loading
    /\ loading' = loading \ {loc}
    /\ chunkMap' = Added(chunkMap, loc, board[loc], FALSE)
    /\ UNCHANGED <<board, queuedChunkWrites, saving, throttle,
                   nUpdatesLastTwoMins, reloads, failures>>

StoreInit ==
    /\ chunkMap = Whole(SavedBefore)
    /\ board = Whole(SavedBefore)
    /\ loading = {}
    /\ queuedChunkWrites = <<>>
    /\ saving = <<>>
    /\ throttle = "idle"
    /\ nUpdatesLastTwoMins = 0
    /\ reloads = 0
    /\ failures = 0

=============================================================================
