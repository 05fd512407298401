------------------------------ MODULE Explorer ------------------------------
(***************************************************************************)
(* MinerManager of the client over the chunk store: chunks of the map are  *)
(* explored along a pattern, each by all the workers, a slice each.        *)
(*                                                                         *)
(* A job begins when exploring starts and ends in the code nowhere: what   *)
(* it left behind, a search or slices at the workers, meets the jobs after *)
(* it.  A search that finds no valid chunk among so many candidates goes   *)
(* on in a later callback.  The workers are of one pool, which setCores    *)
(* replaces; a worker explores what it is given in order.                  *)
(*                                                                         *)
(* Not modelled: the radius of the world may change (setRadius), but no    *)
(* contract gateway emits the event that would call it.                    *)
(***************************************************************************)
EXTENDS ChunkStore

CONSTANTS
    worldRadius,
    Home,               \* the unit square the patterns begin at
    Steps,              \* of the patterns: 1 the spiral, 2 the Swiss cheese
    Cores,              \* numbers of workers the settings offer
    MaxCandidates,      \* candidates a search tries in one callback
    MaxJobs             \* a bound of the model: jobs of a session

ASSUME ExplorerAssumption ==
    /\ worldRadius \in Nat
    /\ Home \in Footprints
    /\ Home.side = 1
    /\ 1 \in Steps /\ Steps \subseteq Nat \ {0}
    /\ Cores \subseteq Nat \ {0}
    /\ MaxCandidates \in Nat \ {0}
    /\ MaxJobs \in Nat

VARIABLES
    isExploring,
    currentJobId,
    step,               \* miningPattern
    searches,           \* calls of nextValidExploreTarget that go on later
    exploringChunk,     \* with minersComplete, by footprint and job
    workers             \* the slices each worker has still to explore

minerVars == <<isExploring, currentJobId, step, searches, exploringChunk, workers>>

vars == <<chunkMap, board, loading, queuedChunkWrites, saving, throttle,
          nUpdatesLastTwoMins, reloads, failures,
          isExploring, currentJobId, step, searches, exploringChunk, workers>>

Nobody == <<>>

-----------------------------------------------------------------------------
(* The pattern. *)

\* isValidExploreTarget, in quarters of units: the nearest edge is in bounds.
InBounds(loc) ==
    LET Away(c) == LET twice == 2 * c + loc.side
                   IN  (IF twice < 0 THEN -twice ELSE twice) - loc.side
    IN  Away(loc.x) * Away(loc.x) + Away(loc.y) * Away(loc.y)
          < 4 * worldRadius * worldRadius

IsValidExploreTarget(map, loc) == InBounds(loc) /\ ~HasMinedChunk(map, loc)

\* What is farther from Home is out of the world, and so is whatever follows: a
\* bound of the model, a search ends at the edge of it.
Region ==
    [x : (Home.x - 2 * worldRadius)..(Home.x + 2 * worldRadius),
     y : (Home.y - 2 * worldRadius)..(Home.y + 2 * worldRadius),
     side : {1}]

\* nextChunk: around Home, up first and then clockwise.
NextChunk[by \in Steps] ==
    [loc \in Region |->
        LET x    == loc.x - Home.x
            y    == loc.y - Home.y
            next == CASE y > x /\ x + y > 0  -> [loc EXCEPT !.x = @ + by]
                      [] y <= x /\ x + y > 0 -> [loc EXCEPT !.y = @ - by]
                      [] y < x /\ x + y <= 0 -> [loc EXCEPT !.x = @ - by]
                      [] OTHER               -> [loc EXCEPT !.y = @ + by]
        IN  IF next \in Region THEN next ELSE loc]

\* The loop of nextValidExploreTarget: the first that is valid, or the last of as
\* many as one callback tries.
Candidate(map, by, from) ==
    LET try[count \in 0..MaxCandidates] ==
            [loc \in Region |->
                IF count = 0 \/ IsValidExploreTarget(map, loc) THEN loc
                ELSE try[count - 1][NextChunk[by][loc]]]
    IN  try[MaxCandidates][from]

-----------------------------------------------------------------------------
(* Exploring. *)

\* Worker i of n mines every n-th planet of the chunk.
Slice(task) == {p \in PlanetsOf(task.chunk) : p[3] % task.of = task.index - 1}

Handed(pool, loc, job) ==
    [i \in DOMAIN pool |->
        Append(pool[i], [chunk |-> loc, job |-> job, index |-> i, of |-> Len(pool)])]

\* exploreNext: a chunk is found and handed to the workers, or the search goes on.
ExploreNext(map, by, from, job, searching, exploring, pool) ==
    \E loc \in {Candidate(map, by, from)} :
        IF IsValidExploreTarget(map, loc)
        THEN /\ searches' = searching
             /\ exploringChunk' =
                  [k \in DOMAIN exploring \cup {<<loc, job>>} |->
                      IF k = <<loc, job>> THEN [planets |-> {}, minersComplete |-> 0]
                      ELSE exploring[k]]
             /\ workers' = Handed(pool, loc, job)
        ELSE /\ searches' = searching \cup {[at |-> loc, job |-> job]}
             /\ exploringChunk' = exploring
             /\ workers' = pool

\* startExplore, when nothing is explored yet.
Begin(by, pool) ==
    /\ currentJobId < MaxJobs
    /\ currentJobId' = currentJobId + 1
    /\ isExploring' = TRUE
    /\ ExploreNext(chunkMap, by, Home, currentJobId + 1, searches, exploringChunk, pool)

\* A mutant of StartExplore: it does not ask whether it is exploring, nor
\* begins a new job.
StartAgain ==
    /\ workers # Nobody
    /\ isExploring' = TRUE
    /\ ExploreNext(chunkMap, step, Home, currentJobId, searches, exploringChunk, workers)
    /\ UNCHANGED <<currentJobId, step>>
    /\ UNCHANGED storeVars

StartExplore ==
    /\ workers # Nobody
    /\ ~isExploring
    /\ Begin(step, workers)
    /\ UNCHANGED step
    /\ UNCHANGED storeVars

StopExplore ==
    /\ workers # Nobody
    /\ isExploring
    /\ isExploring' = FALSE
    /\ UNCHANGED <<currentJobId, step, searches, exploringChunk, workers>>
    /\ UNCHANGED storeVars

\* A pattern that is set begins a new job at its first chunk.
SetMiningPattern(by) ==
    /\ workers # Nobody
    /\ step' = by
    /\ IF isExploring THEN Begin(by, workers)
       ELSE UNCHANGED <<isExploring, currentJobId, searches, exploringChunk, workers>>
    /\ UNCHANGED storeVars

\* A mutant of NewWorkers: the old workers are not terminated.
NewWorkersBeside(n) ==
    [i \in 1..n |-> IF i \in DOMAIN workers THEN workers[i] ELSE <<>>]

NewWorkers(n) == [i \in 1..n |-> <<>>]

\* The workers are terminated, with what they were exploring.
SetCores(n) ==
    /\ workers # Nobody
    /\ IF isExploring THEN Begin(step, NewWorkers(n))
       ELSE /\ workers' = NewWorkers(n)
            /\ UNCHANGED <<isExploring, currentJobId, searches, exploringChunk>>
    /\ UNCHANGED step
    /\ UNCHANGED storeVars

\* A mutant of SearchOn: one callback is all a search gets.
SearchOnce(search) ==
    /\ search \in searches
    /\ searches' = searches \ {search}
    /\ UNCHANGED <<isExploring, currentJobId, step, exploringChunk, workers>>
    /\ UNCHANGED storeVars

\* nextValidExploreTarget again: it gives up only if nothing is explored and
\* the job is not the last one.
SearchOn(search) ==
    /\ search \in searches
    /\ IF ~isExploring /\ search.job # currentJobId
       THEN /\ searches' = searches \ {search}
            /\ UNCHANGED <<exploringChunk, workers>>
       ELSE ExploreNext(chunkMap, step, search.at, search.job, searches \ {search},
                        exploringChunk, workers)
    /\ UNCHANGED <<isExploring, currentJobId, step>>
    /\ UNCHANGED storeVars

\* A mutant of Complete: one slice short.
CompleteButOne(n) == n + 1 >= Len(workers)

Complete(n) == n = Len(workers)

\* onDiscovered: the chunk is stored, and the job goes on unless it is over.
Discovered(loc, job, planets, pool) ==
    /\ AddChunk(loc, planets)
    /\ \E others \in {[k \in DOMAIN exploringChunk \ {<<loc, job>>} |-> exploringChunk[k]]} :
         IF isExploring /\ currentJobId = job
         THEN \E map \in {Added(chunkMap, loc, planets, TRUE)} :
                ExploreNext(map, step, loc, job, searches, others, pool)
         ELSE /\ exploringChunk' = others
              /\ workers' = pool
              /\ UNCHANGED searches

\* A worker is done with a slice, and its message is handled.  Were there no
\* entry for the chunk, the handler would throw.
SliceExplored(i) ==
    /\ workers[i] # <<>>
    /\ \E task \in {Head(workers[i])}, pool \in {[workers EXCEPT ![i] = Tail(@)]} :
         LET key == <<task.chunk, task.job>> IN
         IF key \notin DOMAIN exploringChunk
         THEN /\ workers' = pool
              /\ UNCHANGED <<searches, exploringChunk>>
              /\ UNCHANGED storeVars
         ELSE \E planets  \in {exploringChunk[key].planets \cup Slice(task)},
                 complete \in {exploringChunk[key].minersComplete + 1} :
              IF Complete(complete)
              THEN Discovered(task.chunk, task.job, planets, pool)
              ELSE /\ exploringChunk' =
                        [exploringChunk EXCEPT ![key] =
                            [planets |-> planets, minersComplete |-> complete]]
                   /\ workers' = pool
                   /\ UNCHANGED searches
                   /\ UNCHANGED storeVars
    /\ UNCHANGED <<isExploring, currentJobId, step>>

\* The game opens: the store has loaded, the miner is made and starts as the
\* setting IsMining says, which is written wherever isExploring is.
InitMiningManager(n) ==
    /\ workers = Nobody
    /\ loading = {}
    /\ IF isExploring THEN Begin(step, NewWorkers(n))
       ELSE /\ workers' = NewWorkers(n)
            /\ UNCHANGED <<isExploring, currentJobId, searches, exploringChunk>>
    /\ UNCHANGED step
    /\ UNCHANGED storeVars

Reopen ==
    /\ Reload
    /\ currentJobId' = 0
    /\ step' = 1
    /\ searches' = {}
    /\ exploringChunk' = <<>>
    /\ workers' = Nobody
    /\ UNCHANGED isExploring

Init ==
    /\ StoreInit
    /\ isExploring = TRUE
    /\ currentJobId = 0
    /\ step = 1
    /\ searches = {}
    /\ exploringChunk = <<>>
    /\ workers = Nobody

Store ==
    /\ \/ \E loc \in Imports : Import(loc)
       \/ Forget
       \/ ThrottleTimer
       \/ SaveDone
       \/ SaveFails
       \/ \E loc \in loading : LoadChunk(loc)
    /\ UNCHANGED minerVars

Next ==
    \/ StartExplore
    \/ StopExplore
    \/ \E by \in Steps : SetMiningPattern(by)
    \/ \E n \in Cores : SetCores(n)
    \/ \E n \in Cores : InitMiningManager(n)
    \/ \E search \in searches : SearchOn(search)
    \/ \E i \in DOMAIN workers : SliceExplored(i)
    \/ Store
    \/ Reopen

Spec == Init /\ [][Next]_vars

\* Callbacks run, workers answer and the table is read.  Searches take turns: each
\* is a timer of its own.
FairSpec ==
    /\ Spec
    /\ WF_vars(\E n \in Cores : InitMiningManager(n))
    /\ WF_vars(\E loc \in loading : LoadChunk(loc) /\ UNCHANGED minerVars)
    /\ \A job \in 1..MaxJobs :
         WF_vars(\E search \in searches : search.job = job /\ SearchOn(search))
    /\ \A i \in UNION {1..n : n \in Cores} :
         WF_vars(i \in DOMAIN workers /\ SliceExplored(i))

\* And timers fire, and the database answers what it is given to write.
FairStoreSpec ==
    /\ FairSpec
    /\ WF_vars(Forget /\ UNCHANGED minerVars)
    /\ WF_vars(ThrottleTimer /\ UNCHANGED minerVars)
    /\ WF_vars((SaveDone \/ SaveFails) /\ UNCHANGED minerVars)

-----------------------------------------------------------------------------

\* The chunks whose slices the workers have to explore.
Tasks == UNION {{workers[i][k] : k \in DOMAIN workers[i]} : i \in DOMAIN workers}

Awaited(key) == {task \in Tasks : <<task.chunk, task.job>> = key}

\* The type of every variable; what waits is written by one transaction each.
TypeOK ==
    /\ DOMAIN chunkMap \subseteq Footprints
    /\ DOMAIN board \subseteq Footprints
    /\ loading \subseteq DOMAIN board
    /\ \A i \in DOMAIN queuedChunkWrites : queuedChunkWrites[i].put \in Footprints
    /\ saving # <<>> => Head(saving) # <<>>
    /\ throttle \in {"idle", "open", "armed", "trailing"}
    /\ nUpdatesLastTwoMins \in Nat
    /\ isExploring \in BOOLEAN
    /\ currentJobId \in 0..MaxJobs
    /\ step \in Steps
    /\ \A search \in searches : search.at \in Footprints /\ search.job \in 1..MaxJobs
    /\ DOMAIN exploringChunk \subseteq Footprints \X (1..MaxJobs)
    /\ workers = Nobody \/ Len(workers) \in Cores

\* Whichever jobs and pools of workers came and went: a slice that is explored
\* finds its chunk, and with those that were explored before the slices still to
\* come are as many as there are workers.
SlicesAddUp ==
    \A task \in Tasks :
        LET key == <<task.chunk, task.job>> IN
        /\ key \in DOMAIN exploringChunk
        /\ exploringChunk[key].minersComplete + Cardinality(Awaited(key)) = Len(workers)

\* Exploring never stalls and never doubles: the job that goes on has one search
\* or one chunk at the workers, those before it one at most.
OneChunkPerJob ==
    \A job \in 1..currentJobId :
        LET going == {search \in searches : search.job = job}
                       \cup {<<task.chunk>> : task \in {task \in Tasks : task.job = job}}
        IN  /\ Cardinality(going) <= 1
            /\ job = currentJobId /\ isExploring /\ workers # Nobody => going # {}

\* No planet is missed: however the slices of a chunk come in and squares are
\* merged, a chunk in memory or on disk has the planets that are there.
WholeChunks ==
    /\ \A loc \in DOMAIN chunkMap : chunkMap[loc] = PlanetsOf(loc)
    /\ \A loc \in DOMAIN board : board[loc] = PlanetsOf(loc)

\* Unless a save failed, no chunk lies in another, and every complete square was
\* merged, also after the page was closed at any moment and loaded again.
Canonical ==
    failures = 0 =>
        \A loc \in DOMAIN chunkMap :
            /\ \A outer \in DOMAIN chunkMap \ {loc} : ~Within(loc, outer)
            /\ loc.side < MAX_CHUNK_SIZE => ~(Siblings(loc) \subseteq DOMAIN chunkMap)

\* Unless a save failed, what is on disk, being saved and queued amounts to what
\* is in memory: nothing is queued twice, forgotten or written out of order.
WritesTell ==
    LET BeingSaved[n \in 0..Len(saving)] ==
            IF n = 0 THEN board ELSE Replayed(BeingSaved[n - 1], saving[n])
    IN  failures = 0 /\ loading = {} =>
            Replayed(BeingSaved[Len(saving)], queuedChunkWrites) = chunkMap

\* While chunks are added fast, what is queued will be saved when a timer fires.
QueuedIsScheduled ==
    queuedChunkWrites # <<>> /\ nUpdatesLastTwoMins >= SaveThreshold => throttle = "armed"

\* What was once on disk stays there, by itself or in a larger chunk, whatever
\* fails and whenever the page is closed.
BoardGrows == [][\A loc \in DOMAIN board : HasMinedChunk(board', loc)]_vars

InWorld == {loc \in [x : -worldRadius..worldRadius, y : -worldRadius..worldRadius,
                     side : {1}] : InBounds(loc)}

\* When exploring is left on, with the spiral, all of the world is explored.
WorldExplored ==
    <>[](isExploring /\ step = 1) =>
        <>(\A loc \in InWorld : HasMinedChunk(chunkMap, loc))

\* "We queue up new chunks, and periodically save them."
EveryChunkSaved == queuedChunkWrites # <<>> ~> queuedChunkWrites = <<>>

=============================================================================
