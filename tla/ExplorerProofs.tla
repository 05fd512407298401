--------------------------- MODULE ExplorerProofs ---------------------------
(***************************************************************************)
(* Proofs about Explorer, whatever chunks there are, however many workers, *)
(* and whatever the searches find.  The slices of a chunk add up, each job *)
(* explores one chunk at a time, what is queued is scheduled, every chunk  *)
(* is whole, and what is written adds up to what is in memory.             *)
(***************************************************************************)
EXTENDS Explorer, FiniteSetTheorems, TLAPS

-----------------------------------------------------------------------------
(* What is queued will be saved. *)

Scheduled ==
    /\ nUpdatesLastTwoMins \in Nat
    /\ QueuedIsScheduled

saveVars == <<queuedChunkWrites, throttle, nUpdatesLastTwoMins>>

LEMMA AddScheduled ==
  ASSUME Scheduled, NEW loc, NEW planets, AddChunk(loc, planets)
  PROVE  Scheduled'
  <1>1. CASE UNCHANGED storeVars
    BY <1>1 DEF storeVars, Scheduled, QueuedIsScheduled
  <1>2. ASSUME NEW state, NEW queue, nUpdatesLastTwoMins' = nUpdatesLastTwoMins + 1,
               ThrottledSave(state, queue)
        PROVE  Scheduled'
    BY <1>2 DEF Scheduled, QueuedIsScheduled, ThrottledSave, PersistQueuedChunks
  <1> QED
    BY <1>1, <1>2 DEF AddChunk

LEMMA TimersScheduled ==
  ASSUME Scheduled, Forget \/ ThrottleTimer
  PROVE  Scheduled'
  <1>1. CASE Forget
    BY <1>1, StoreAssumption DEF Forget, Scheduled, QueuedIsScheduled
  <1>2. CASE ThrottleTimer
    BY <1>2 DEF ThrottleTimer, PersistQueuedChunks, Scheduled, QueuedIsScheduled
  <1> QED
    BY <1>1, <1>2

LEMMA StepScheduled == Scheduled /\ [Next]_vars => Scheduled'
  <1> SUFFICES ASSUME Scheduled, [Next]_vars PROVE Scheduled'
    OBVIOUS
  <1>1. CASE UNCHANGED saveVars
    BY <1>1 DEF saveVars, Scheduled, QueuedIsScheduled
  <1>2. CASE Store
    <2>1. ASSUME NEW loc, Import(loc) PROVE Scheduled'
      BY <2>1, AddScheduled DEF Import
    <2>2. CASE SaveDone \/ SaveFails
      BY <1>1, <2>2 DEF SaveDone, SaveFails, saveVars
    <2>3. ASSUME NEW loc, LoadChunk(loc) PROVE Scheduled'
      BY <1>1, <2>3 DEF LoadChunk, saveVars
    <2> QED
      BY <1>2, <2>1, <2>2, <2>3, TimersScheduled DEF Store
  <1>3. CASE Reopen
    BY <1>3 DEF Reopen, Reload, Scheduled, QueuedIsScheduled
  <1>4. ASSUME NEW i \in DOMAIN workers, SliceExplored(i) PROVE Scheduled'
    <2>1. ASSUME NEW loc, NEW job, NEW planets, NEW pool,
                 Discovered(loc, job, planets, pool)
          PROVE  Scheduled'
      BY <2>1, AddScheduled DEF Discovered
    <2>2. CASE UNCHANGED storeVars
      BY <1>1, <2>2 DEF storeVars, saveVars
    <2> QED
      BY <1>4, <2>1, <2>2 DEF SliceExplored
  <1>5. CASE StartExplore \/ StopExplore
    BY <1>1, <1>5 DEF StartExplore, StopExplore, storeVars, saveVars
  <1>6. CASE \E by \in Steps : SetMiningPattern(by)
    BY <1>1, <1>6 DEF SetMiningPattern, storeVars, saveVars
  <1>7. CASE \E n \in Cores : SetCores(n) \/ InitMiningManager(n)
    BY <1>1, <1>7 DEF SetCores, InitMiningManager, storeVars, saveVars
  <1>8. CASE \E search \in searches : SearchOn(search)
    BY <1>1, <1>8 DEF SearchOn, storeVars, saveVars
  <1>9. CASE UNCHANGED vars
    BY <1>1, <1>9 DEF vars, saveVars
  <1> QED
    BY <1>2, <1>3, <1>4, <1>5, <1>6, <1>7, <1>8, <1>9 DEF Next

\* While chunks are added fast, no chunk waits without a timer that saves it.
THEOREM ScheduleKept == Spec => []QueuedIsScheduled
  <1>1. Init => Scheduled
    BY DEF Init, StoreInit, Scheduled, QueuedIsScheduled
  <1>2. Scheduled => QueuedIsScheduled
    BY DEF Scheduled
  <1> QED
    BY <1>1, <1>2, StepScheduled, PTL DEF Spec

-----------------------------------------------------------------------------
(* Slices, searches and jobs. *)

TasksOf(pool) == UNION {{pool[i][k] : k \in DOMAIN pool[i]} : i \in DOMAIN pool}

AwaitedOf(pool, key) == {task \in TasksOf(pool) : <<task.chunk, task.job>> = key}

\* Each worker of a pool has one slice of a job at most, the one of its place.
Lined(pool, current) ==
    /\ \E S : pool \in Seq(Seq(S))
    /\ \A i \in DOMAIN pool : \A k \in DOMAIN pool[i] :
         pool[i][k].index = i /\ pool[i][k].job \in 1..current
    /\ \A i \in DOMAIN pool : \A j, k \in DOMAIN pool[i] :
         pool[i][j].job = pool[i][k].job => j = k

\* A job has one search, or slices of one chunk.
Exclusive(pool, searching, current) ==
    /\ \A search \in searching : search.job \in 1..current
    /\ \A s, t \in searching : s.job = t.job => s = t
    /\ \A a, b \in TasksOf(pool) : a.job = b.job => a.chunk = b.chunk
    /\ \A search \in searching, task \in TasksOf(pool) : search.job # task.job

\* The slices that were explored and those to come are as many as the workers.
AddUp(pool, exploring) ==
    \A task \in TasksOf(pool) :
        LET key == <<task.chunk, task.job>> IN
        /\ key \in DOMAIN exploring
        /\ exploring[key].minersComplete \in Nat
        /\ IsFiniteSet(AwaitedOf(pool, key))
        /\ exploring[key].minersComplete + Cardinality(AwaitedOf(pool, key)) = Len(pool)

Good(pool, searching, exploring, current) ==
    /\ Lined(pool, current)
    /\ Exclusive(pool, searching, current)
    /\ AddUp(pool, exploring)

Going(pool, searching, job) ==
    \/ \E search \in searching : search.job = job
    \/ \E task \in TasksOf(pool) : task.job = job

IInv ==
    /\ currentJobId \in Nat
    /\ Good(workers, searches, exploringChunk, currentJobId)
    /\ workers = Nobody => searches = {}
    /\ isExploring /\ workers # Nobody => Going(workers, searches, currentJobId)

LEMMA InTasks ==
  ASSUME NEW pool, NEW task
  PROVE  task \in TasksOf(pool) <=>
           \E i \in DOMAIN pool : \E k \in DOMAIN pool[i] : task = pool[i][k]
  BY DEF TasksOf

LEMMA PoolDomain ==
  ASSUME NEW pool, NEW current, Lined(pool, current)
  PROVE  Len(pool) \in Nat /\ DOMAIN pool = 1..Len(pool)
  <1>1. PICK S : pool \in Seq(Seq(S))
    BY DEF Lined
  <1> QED
    BY <1>1

LEMMA WiderSeq ==
  ASSUME NEW S, NEW T, S \subseteq T, NEW s \in Seq(S)
  PROVE  s \in Seq(T)
  OBVIOUS

\* New workers have nothing to explore.
LEMMA NewWorkersIdle ==
  ASSUME NEW n \in Nat
  PROVE  /\ NewWorkers(n) \in Seq(Seq({}))
         /\ Len(NewWorkers(n)) = n
         /\ TasksOf(NewWorkers(n)) = {}
         /\ \A i \in DOMAIN NewWorkers(n) : DOMAIN NewWorkers(n)[i] = {}
  <1>1. NewWorkers(n) = [i \in 1..n |-> <<>>]
    BY DEF NewWorkers
  <1>2. NewWorkers(n) \in Seq(Seq({})) /\ Len(NewWorkers(n)) = n
    BY <1>1
  <1>3. \A i \in DOMAIN NewWorkers(n) : DOMAIN NewWorkers(n)[i] = {}
    BY <1>1
  <1>4. \A task : task \notin TasksOf(NewWorkers(n))
    BY <1>3, InTasks
  <1> QED
    BY <1>2, <1>3, <1>4

LEMMA NewWorkersGood ==
  ASSUME NEW n \in Nat, NEW pool, NEW searching, NEW exploring, NEW current,
         Good(pool, searching, exploring, current)
  PROVE  Good(NewWorkers(n), searching, exploring, current)
  BY NewWorkersIdle DEF Good, Lined, Exclusive, AddUp

LEMMA NextJobGood ==
  ASSUME NEW pool, NEW searching, NEW exploring, NEW current \in Nat,
         Good(pool, searching, exploring, current)
  PROVE  /\ Good(pool, searching, exploring, current + 1)
         /\ ~Going(pool, searching, current + 1)
  <1>1. 1..current \subseteq 1..(current + 1) /\ current + 1 \notin 1..current
    OBVIOUS
  <1>2. \A task \in TasksOf(pool) : task.job \in 1..current
    BY InTasks DEF Good, Lined
  <1>3. Lined(pool, current + 1)
    BY <1>1 DEF Good, Lined
  <1>4. Exclusive(pool, searching, current + 1)
    BY <1>1 DEF Good, Exclusive
  <1> QED
    BY <1>1, <1>2, <1>3, <1>4 DEF Good, Exclusive, Going

\* A search that ends, while its job has nothing else to explore.
LEMMA SearchEnds ==
  ASSUME NEW pool, NEW searching, NEW exploring, NEW current, NEW search \in searching,
         Good(pool, searching, exploring, current)
  PROVE  /\ Good(pool, searching \ {search}, exploring, current)
         /\ ~Going(pool, searching \ {search}, search.job)
  BY DEF Good, Exclusive, Going

-----------------------------------------------------------------------------
(* A chunk is handed to the workers. *)

NewTask(loc, job, i, n) == [chunk |-> loc, job |-> job, index |-> i, of |-> n]

NewTasks(loc, job, n) == {NewTask(loc, job, i, n) : i \in 1..n}

LEMMA NewTasksCounted ==
  ASSUME NEW loc, NEW job, NEW n \in Nat
  PROVE  IsFiniteSet(NewTasks(loc, job, n)) /\ Cardinality(NewTasks(loc, job, n)) = n
  <1> DEFINE f == [i \in 1..n |-> NewTask(loc, job, i, n)]
  <1>1. IsFiniteSet(1..n) /\ Cardinality(1..n) = n
    BY FS_Interval
  <1>2. \A i, j \in 1..n : NewTask(loc, job, i, n) = NewTask(loc, job, j, n) => i = j
    BY DEF NewTask
  <1>3. f \in Bijection(1..n, NewTasks(loc, job, n))
    <2>1. f \in [1..n -> NewTasks(loc, job, n)]
      BY DEF NewTasks
    <2>2. \A t \in NewTasks(loc, job, n) : \E i \in 1..n : f[i] = t
      BY DEF NewTasks
    <2>3. \A i, j \in 1..n : f[i] = f[j] => i = j
      BY <1>2
    <2> HIDE DEF f
    <2> QED
      BY <2>1, <2>2, <2>3 DEF Bijection, Injection, Surjection, IsInjective
  <1> QED
    BY <1>1, <1>3, FS_Bijection DEF ExistsBijection

\* t is s with e at the end of it.
Longer(t, s, e) ==
    /\ DOMAIN t = DOMAIN s \cup {Len(s) + 1}
    /\ Len(s) + 1 \notin DOMAIN s
    /\ \A k \in DOMAIN s : t[k] = s[k]
    /\ t[Len(s) + 1] = e

LEMMA AppendShape ==
  ASSUME NEW T, NEW s \in Seq(T), NEW e \in T
  PROVE  /\ Append(s, e) \in Seq(T)
         /\ Longer(Append(s, e), s, e)
  BY DEF Longer

LEMMA HandedSlice ==
  ASSUME NEW S, NEW pool \in Seq(Seq(S)), NEW loc, NEW job, NEW i \in DOMAIN pool
  PROVE  /\ Handed(pool, loc, job)[i] \in Seq(S \cup NewTasks(loc, job, Len(pool)))
         /\ Longer(Handed(pool, loc, job)[i], pool[i], NewTask(loc, job, i, Len(pool)))
  <1> DEFINE T == S \cup NewTasks(loc, job, Len(pool))
  <1>1. PICK e : e = NewTask(loc, job, i, Len(pool))
    OBVIOUS
  <1>2. Handed(pool, loc, job)[i] = Append(pool[i], e)
    BY <1>1 DEF Handed, NewTask
  <1>3. pool[i] \in Seq(S)
    OBVIOUS
  <1>4. e \in T /\ pool[i] \in Seq(T)
    <2>1. i \in 1..Len(pool)
      OBVIOUS
    <2>2. e \in T
      BY <1>1, <2>1 DEF NewTasks
    <2> HIDE DEF T
    <2>3. S \subseteq T
      BY DEF T
    <2> QED
      BY <1>3, <2>2, <2>3, WiderSeq
  <1> HIDE DEF T
  <1>5. Append(pool[i], e) \in Seq(T) /\ Longer(Append(pool[i], e), pool[i], e)
    BY <1>4, AppendShape
  <1> QED
    BY <1>1, <1>2, <1>5 DEF T

LEMMA HandedShape ==
  ASSUME NEW S, NEW pool \in Seq(Seq(S)), NEW loc, NEW job
  PROVE  /\ Handed(pool, loc, job) \in Seq(Seq(S \cup NewTasks(loc, job, Len(pool))))
         /\ DOMAIN Handed(pool, loc, job) = DOMAIN pool
         /\ Len(Handed(pool, loc, job)) = Len(pool)
  <1> DEFINE H == Handed(pool, loc, job)
             T == S \cup NewTasks(loc, job, Len(pool))
  <1>1. DOMAIN H = 1..Len(pool) /\ H = [i \in 1..Len(pool) |-> H[i]]
    BY DEF Handed
  <1>2. ASSUME NEW i \in 1..Len(pool) PROVE H[i] \in Seq(T)
    <2>1. i \in DOMAIN pool
      OBVIOUS
    <2> QED
      BY <2>1, HandedSlice
  <1> HIDE DEF H, T
  <1>3. H \in Seq(Seq(T)) /\ Len(H) = Len(pool) /\ DOMAIN H = DOMAIN pool
    BY <1>1, <1>2
  <1> QED
    BY <1>3 DEF H, T

LEMMA HandedTasks ==
  ASSUME NEW S, NEW pool \in Seq(Seq(S)), NEW loc, NEW job, pool # Nobody
  PROVE  \A task : task \in TasksOf(Handed(pool, loc, job)) <=>
                     task \in TasksOf(pool) \/ task \in NewTasks(loc, job, Len(pool))
  <1> DEFINE H == Handed(pool, loc, job)
             New == NewTasks(loc, job, Len(pool))
  <1>2. H \in Seq(Seq(S \cup New)) /\ DOMAIN H = DOMAIN pool /\ Len(H) = Len(pool)
    BY HandedShape
  <1> DEFINE last(i) == Len(pool[i]) + 1
  <1>20. ASSUME NEW i \in DOMAIN pool
         PROVE  /\ DOMAIN H[i] = DOMAIN pool[i] \cup {last(i)}
                /\ last(i) \notin DOMAIN pool[i]
                /\ \A k \in DOMAIN pool[i] : H[i][k] = pool[i][k]
                /\ H[i][last(i)] = NewTask(loc, job, i, Len(pool))
    <2>1. Longer(Handed(pool, loc, job)[i], pool[i], NewTask(loc, job, i, Len(pool)))
      BY HandedSlice
    <2> QED
      BY <2>1 DEF Longer
  <1>3. Len(pool) \in Nat /\ DOMAIN pool = 1..Len(pool) /\ 1 \in DOMAIN pool
    BY DEF Nobody
  <1> HIDE DEF H, last
  <1>4. \A task : task \in TasksOf(H) <=> task \in TasksOf(pool) \/ task \in New
    <2>1. \A task : task \in New <=> \E i \in DOMAIN pool : task = NewTask(loc, job, i, Len(pool))
      BY <1>3 DEF NewTasks
    <2>2. ASSUME NEW task \in TasksOf(H) PROVE task \in TasksOf(pool) \/ task \in New
      <3>0. \E i \in DOMAIN H : \E k \in DOMAIN H[i] : task = H[i][k]
        BY <2>2 DEF TasksOf
      <3>1. PICK i \in DOMAIN pool : \E k \in DOMAIN H[i] : task = H[i][k]
        BY <1>2, <3>0
      <3>2. PICK k \in DOMAIN H[i] : task = H[i][k]
        BY <3>1
      <3>3. CASE k \in DOMAIN pool[i]
        BY <1>20, <3>2, <3>3, InTasks
      <3>4. CASE k = last(i)
        BY <1>20, <2>1, <3>2, <3>4
      <3> QED
        BY <1>20, <3>3, <3>4
    <2>3. ASSUME NEW task \in TasksOf(pool) PROVE task \in TasksOf(H)
      <3>1. PICK i \in DOMAIN pool : \E k \in DOMAIN pool[i] : task = pool[i][k]
        BY InTasks
      <3>2. \E k \in DOMAIN H[i] : task = H[i][k]
        BY <1>20, <3>1
      <3> QED
        BY <1>2, <3>1, <3>2, InTasks
    <2>4. ASSUME NEW task \in New PROVE task \in TasksOf(H)
      <3>1. PICK i \in DOMAIN pool : task = NewTask(loc, job, i, Len(pool))
        BY <2>1
      <3>2. \E k \in DOMAIN H[i] : task = H[i][k]
        BY <1>20, <3>1
      <3> QED
        BY <1>2, <3>1, <3>2, InTasks
    <2> QED
      BY <2>2, <2>3, <2>4
  <1> QED
    BY <1>4 DEF H

LEMMA HandedGood ==
  ASSUME NEW pool, NEW searching, NEW exploring, NEW current \in Nat, NEW loc,
         NEW job \in 1..current, NEW others,
         pool # Nobody,
         Good(pool, searching, exploring, current),
         ~Going(pool, searching, job),
         others = [k \in DOMAIN exploring \cup {<<loc, job>>} |->
                      IF k = <<loc, job>> THEN [planets |-> {}, minersComplete |-> 0]
                      ELSE exploring[k]]
  PROVE  /\ Good(Handed(pool, loc, job), searching, others, current)
         /\ \A j : Going(pool, searching, j) \/ j = job
                    => Going(Handed(pool, loc, job), searching, j)
         /\ Handed(pool, loc, job) # Nobody
  <1> DEFINE H == Handed(pool, loc, job)
             New == NewTasks(loc, job, Len(pool))
  <1>1. PICK S : pool \in Seq(Seq(S))
    BY DEF Good, Lined
  <1>2. H \in Seq(Seq(S \cup New)) /\ DOMAIN H = DOMAIN pool /\ Len(H) = Len(pool)
    BY <1>1, HandedShape
  <1> DEFINE last(i) == Len(pool[i]) + 1
  <1>20. ASSUME NEW i \in DOMAIN pool
         PROVE  /\ DOMAIN H[i] = DOMAIN pool[i] \cup {last(i)}
                /\ last(i) \notin DOMAIN pool[i]
                /\ \A k \in DOMAIN pool[i] : H[i][k] = pool[i][k]
                /\ H[i][last(i)] = NewTask(loc, job, i, Len(pool))
    <2>1. Longer(Handed(pool, loc, job)[i], pool[i], NewTask(loc, job, i, Len(pool)))
      BY <1>1, HandedSlice
    <2> QED
      BY <2>1 DEF Longer
  <1>3. Len(pool) \in Nat /\ DOMAIN pool = 1..Len(pool) /\ 1 \in DOMAIN pool
    BY <1>1 DEF Nobody
  <1> HIDE DEF H, last
  <1>4. \A task : task \in TasksOf(H) <=> task \in TasksOf(pool) \/ task \in New
    BY <1>1, HandedTasks DEF H
  <1>5. \A task \in New : task.chunk = loc /\ task.job = job
    BY DEF NewTasks, NewTask
  <1>6. \A task \in TasksOf(pool) : task.job # job
    BY DEF Going
  <1>7. \A i \in DOMAIN pool : NewTask(loc, job, i, Len(pool)).index = i
                               /\ NewTask(loc, job, i, Len(pool)).job = job
    BY DEF NewTask
  <1>8. \A i \in DOMAIN pool : \A k \in DOMAIN pool[i] : pool[i][k].job # job
    BY <1>6, InTasks
  <1>9. Lined(H, current)
    <2>1. ASSUME NEW i \in DOMAIN H, NEW k \in DOMAIN H[i]
          PROVE  H[i][k].index = i /\ H[i][k].job \in 1..current
      <3>1. i \in DOMAIN pool /\ (k \in DOMAIN pool[i] \/ k = last(i))
        BY <1>2, <1>20
      <3>2. CASE k \in DOMAIN pool[i]
        BY <1>20, <3>1, <3>2 DEF Good, Lined
      <3>3. CASE k = last(i)
        BY <1>20, <1>7, <3>1, <3>3
      <3> QED
        BY <3>1, <3>2, <3>3
    <2>2. ASSUME NEW i \in DOMAIN H, NEW j \in DOMAIN H[i], NEW k \in DOMAIN H[i],
                 H[i][j].job = H[i][k].job
          PROVE  j = k
      BY <1>2, <1>20, <1>7, <1>8, <2>2 DEF Good, Lined
    <2> QED
      BY <1>2, <2>1, <2>2 DEF Lined
  <1>10. Exclusive(H, searching, current)
    BY <1>4, <1>5, <1>6 DEF Good, Exclusive, Going
  <1>11. AwaitedOf(H, <<loc, job>>) = New
    BY <1>4, <1>5, <1>6 DEF AwaitedOf
  <1>12. ASSUME NEW task \in TasksOf(pool)
         PROVE  AwaitedOf(H, <<task.chunk, task.job>>)
                  = AwaitedOf(pool, <<task.chunk, task.job>>)
    BY <1>4, <1>5, <1>6 DEF AwaitedOf
  <1>13. AddUp(H, others)
    <2>1. ASSUME NEW task \in New
          PROVE  /\ <<task.chunk, task.job>> = <<loc, job>>
                 /\ <<loc, job>> \in DOMAIN others
                 /\ others[<<loc, job>>].minersComplete = 0
      BY <1>5
    <2>2. IsFiniteSet(New) /\ Cardinality(New) = Len(H)
      BY <1>2, <1>3, NewTasksCounted
    <2>3. ASSUME NEW task \in TasksOf(pool)
          PROVE  /\ <<task.chunk, task.job>> \in DOMAIN exploring
                 /\ <<task.chunk, task.job>> \in DOMAIN others
                 /\ others[<<task.chunk, task.job>>] = exploring[<<task.chunk, task.job>>]
      BY <1>6 DEF Good, AddUp
    <2>4. ASSUME NEW task \in TasksOf(H)
          PROVE  LET key == <<task.chunk, task.job>> IN
                 /\ key \in DOMAIN others
                 /\ others[key].minersComplete \in Nat
                 /\ IsFiniteSet(AwaitedOf(H, key))
                 /\ others[key].minersComplete + Cardinality(AwaitedOf(H, key)) = Len(H)
      <3>1. CASE task \in New
        <4>1. others[<<loc, job>>].minersComplete + Cardinality(AwaitedOf(H, <<loc, job>>))
                = Len(H)
          BY <3>1, <1>2, <1>3, <1>11, <2>1, <2>2
        <4> QED
          BY <3>1, <4>1, <1>11, <2>1, <2>2
      <3>2. CASE task \in TasksOf(pool)
        <4>1. AddUp(pool, exploring)
          BY DEF Good
        <4> QED
          BY <3>2, <4>1, <1>2, <1>12, <2>3 DEF AddUp
      <3> QED
        BY <1>4, <2>4, <3>1, <3>2
    <2> QED
      BY <2>4 DEF AddUp
  <1>14. \A j : Going(pool, searching, j) \/ j = job => Going(H, searching, j)
    <2>1. NewTask(loc, job, 1, Len(pool)) \in New
      BY <1>3 DEF NewTasks
    <2> QED
      BY <1>4, <1>5, <2>1 DEF Going
  <1>15. H # Nobody
    BY <1>2, <1>3 DEF Nobody
  <1> QED
    BY <1>9, <1>10, <1>13, <1>14, <1>15 DEF Good, H

\* exploreNext, for a job that explores nothing at the moment.
LEMMA ExploreGood ==
  ASSUME NEW map, NEW by, NEW from, NEW searching, NEW exploring, NEW pool,
         NEW current \in Nat, NEW job \in 1..current,
         pool # Nobody,
         Good(pool, searching, exploring, current),
         ~Going(pool, searching, job),
         ExploreNext(map, by, from, job, searching, exploring, pool)
  PROVE  /\ Good(workers', searches', exploringChunk', current)
         /\ \A j : Going(pool, searching, j) \/ j = job => Going(workers', searches', j)
         /\ workers' # Nobody
  <1>1. PICK loc :
          \/ /\ searches' = searching
             /\ exploringChunk' =
                  [k \in DOMAIN exploring \cup {<<loc, job>>} |->
                      IF k = <<loc, job>> THEN [planets |-> {}, minersComplete |-> 0]
                      ELSE exploring[k]]
             /\ workers' = Handed(pool, loc, job)
          \/ /\ searches' = searching \cup {[at |-> loc, job |-> job]}
             /\ exploringChunk' = exploring
             /\ workers' = pool
    BY DEF ExploreNext
  <1>2. CASE workers' = Handed(pool, loc, job) /\ searches' = searching
             /\ exploringChunk' =
                  [k \in DOMAIN exploring \cup {<<loc, job>>} |->
                      IF k = <<loc, job>> THEN [planets |-> {}, minersComplete |-> 0]
                      ELSE exploring[k]]
    BY <1>2, HandedGood
  <1>3. CASE /\ searches' = searching \cup {[at |-> loc, job |-> job]}
             /\ exploringChunk' = exploring
             /\ workers' = pool
    <2>1. Exclusive(pool, searches', current)
      BY <1>3 DEF Good, Exclusive, Going
    <2>2. \A j : Going(pool, searching, j) \/ j = job => Going(pool, searches', j)
      <3>1. PICK search : search = [at |-> loc, job |-> job]
        OBVIOUS
      <3>2. search.job = job
        BY <3>1
      <3>3. search \in searches'
        BY <1>3, <3>1
      <3> QED
        BY <1>3, <3>2, <3>3 DEF Going
    <2> QED
      BY <1>3, <2>1, <2>2 DEF Good
  <1> QED
    BY <1>1, <1>2, <1>3

-----------------------------------------------------------------------------
(* A slice is explored. *)

Taken(pool, i) == [pool EXCEPT ![i] = Tail(@)]

LEMMA TailShape ==
  ASSUME NEW S, NEW s \in Seq(S), s # <<>>
  PROVE  /\ Head(s) = s[1] /\ 1 \in DOMAIN s
         /\ Tail(s) \in Seq(S)
         /\ \A k \in DOMAIN Tail(s) : k + 1 \in DOMAIN s /\ Tail(s)[k] = s[k + 1]
         /\ \A k \in DOMAIN s : k # 1 => k - 1 \in DOMAIN Tail(s) /\ Tail(s)[k - 1] = s[k]
         /\ \A k \in DOMAIN s : k \in Nat
         /\ \A k \in DOMAIN Tail(s) : k \in Nat \ {0}
  OBVIOUS

LEMMA TaskTaken ==
  ASSUME NEW pool, NEW current, NEW i \in DOMAIN pool, NEW rest,
         Lined(pool, current), pool[i] # <<>>,
         rest = Taken(pool, i)
  PROVE  /\ Lined(rest, current)
         /\ Head(pool[i]) \in TasksOf(pool)
         /\ TasksOf(rest) = TasksOf(pool) \ {Head(pool[i])}
         /\ Len(rest) = Len(pool)
         /\ rest # Nobody
  <1>1. PICK S : pool \in Seq(Seq(S))
    BY DEF Lined
  <1>2. pool[i] \in Seq(S)
    BY <1>1
  <1> DEFINE s == pool[i]
             t == Tail(pool[i])
  <1>3. /\ Head(s) = s[1] /\ 1 \in DOMAIN s
        /\ t \in Seq(S)
        /\ \A k \in DOMAIN t : k + 1 \in DOMAIN s /\ t[k] = s[k + 1]
        /\ \A k \in DOMAIN s : k # 1 => k - 1 \in DOMAIN t /\ t[k - 1] = s[k]
        /\ \A k \in DOMAIN s : k \in Nat
        /\ \A k \in DOMAIN t : k \in Nat \ {0}
    BY <1>2, TailShape
  <1>4. /\ DOMAIN rest = DOMAIN pool /\ rest[i] = t
        /\ \A j \in DOMAIN pool : j # i => rest[j] = pool[j]
    BY DEF Taken
  <1>5. rest \in Seq(Seq(S)) /\ Len(rest) = Len(pool) /\ rest # Nobody
    BY <1>1, <1>3 DEF Nobody, Taken
  <1> HIDE DEF t
  <1>6. ASSUME NEW j \in DOMAIN rest, NEW k \in DOMAIN rest[j]
        PROVE  \E m \in DOMAIN pool[j] : rest[j][k] = pool[j][m]
    BY <1>3, <1>4
  <1>7. ASSUME NEW j \in DOMAIN rest, NEW k \in DOMAIN rest[j], NEW m \in DOMAIN rest[j],
               rest[j][k].job = rest[j][m].job
        PROVE  k = m
    <2>1. CASE j = i
      <3>1. s[k + 1].job = s[m + 1].job /\ k + 1 \in DOMAIN s /\ m + 1 \in DOMAIN s
        BY <1>3, <1>4, <1>7, <2>1
      <3>2. k + 1 = m + 1
        BY <3>1 DEF Lined
      <3> QED
        BY <1>3, <1>4, <2>1, <3>2
    <2>2. CASE j # i
      BY <1>4, <1>7, <2>2 DEF Lined
    <2> QED
      BY <2>1, <2>2
  <1>8. Lined(rest, current)
    <2>1. ASSUME NEW j \in DOMAIN rest, NEW k \in DOMAIN rest[j]
          PROVE  rest[j][k].index = j /\ rest[j][k].job \in 1..current
      BY <1>4, <1>6 DEF Lined
    <2>2. \E T : rest \in Seq(Seq(T))
      BY <1>5
    <2> QED
      BY <1>7, <2>1, <2>2 DEF Lined
  <1>9. Head(s) \in TasksOf(pool)
    BY <1>3 DEF TasksOf
  <1>10. ASSUME NEW task \in TasksOf(rest)
         PROVE  task \in TasksOf(pool) /\ task # Head(s)
    <2>1. PICK j \in DOMAIN rest : \E k \in DOMAIN rest[j] : task = rest[j][k]
      BY DEF TasksOf
    <2>6. PICK k \in DOMAIN rest[j] : task = rest[j][k]
      BY <2>1
    <2>2. PICK m \in DOMAIN pool[j] : task = pool[j][m]
      BY <1>6, <2>6
    <2>3. task \in TasksOf(pool)
      BY <1>4, <2>2 DEF TasksOf
    <2>4. CASE j = i
      <3>1. task = s[k + 1] /\ k + 1 \in DOMAIN s /\ k + 1 # 1
        BY <1>3, <1>4, <2>6, <2>4
      <3>2. task.job # s[1].job
        BY <1>3, <3>1 DEF Lined
      <3> QED
        BY <1>3, <2>3, <3>2
    <2>5. CASE j # i
      <3>1. task.index = j /\ s[1].index = i
        BY <1>3, <1>4, <2>2 DEF Lined
      <3> QED
        BY <1>3, <2>3, <2>5, <3>1
    <2> QED
      BY <2>4, <2>5
  <1>11. ASSUME NEW task \in TasksOf(pool), task # Head(s)
         PROVE  task \in TasksOf(rest)
    <2>1. PICK j \in DOMAIN pool : \E k \in DOMAIN pool[j] : task = pool[j][k]
      BY DEF TasksOf
    <2>2. \E m \in DOMAIN rest[j] : task = rest[j][m]
      BY <1>3, <1>4, <1>11, <2>1
    <2> QED
      BY <1>4, <2>2 DEF TasksOf
  <1> QED
    BY <1>5, <1>8, <1>9, <1>10, <1>11

\* One slice of the chunk and job of key is gone, and none of any other.
OneLess(pool, rest, exploring, key) ==
    /\ key \in DOMAIN exploring
    /\ exploring[key].minersComplete \in Nat
    /\ IsFiniteSet(AwaitedOf(rest, key))
    /\ exploring[key].minersComplete + 1 + Cardinality(AwaitedOf(rest, key)) = Len(rest)
    /\ \A task \in TasksOf(rest) :
         <<task.chunk, task.job>> # key =>
           AwaitedOf(rest, <<task.chunk, task.job>>)
             = AwaitedOf(pool, <<task.chunk, task.job>>)

LEMMA SliceCounted ==
  ASSUME NEW pool, NEW searching, NEW exploring, NEW current, NEW i \in DOMAIN pool, NEW rest,
         Good(pool, searching, exploring, current), pool[i] # <<>>,
         rest = Taken(pool, i),
         NEW key, key = <<Head(pool[i]).chunk, Head(pool[i]).job>>
  PROVE  OneLess(pool, rest, exploring, key) /\ Exclusive(rest, searching, current)
  <1>0. PICK head : head = Head(pool[i])
    OBVIOUS
  <1>1. /\ head \in TasksOf(pool) /\ TasksOf(rest) = TasksOf(pool) \ {head}
        /\ Len(rest) = Len(pool)
    <2>1. Lined(pool, current)
      BY DEF Good
    <2>2. /\ Head(pool[i]) \in TasksOf(pool)
          /\ TasksOf(rest) = TasksOf(pool) \ {Head(pool[i])}
          /\ Len(rest) = Len(pool)
      BY <2>1, TaskTaken
    <2> QED
      BY <1>0, <2>2
  <1>2. head \in AwaitedOf(pool, key) /\ AwaitedOf(rest, key) = AwaitedOf(pool, key) \ {head}
    BY <1>0, <1>1 DEF AwaitedOf
  <1>3. /\ key \in DOMAIN exploring
        /\ exploring[key].minersComplete \in Nat
        /\ IsFiniteSet(AwaitedOf(pool, key))
        /\ exploring[key].minersComplete + Cardinality(AwaitedOf(pool, key)) = Len(pool)
    BY <1>0, <1>1 DEF Good, AddUp
  <1>4. /\ IsFiniteSet(AwaitedOf(rest, key))
        /\ Cardinality(AwaitedOf(rest, key)) = Cardinality(AwaitedOf(pool, key)) - 1
    BY <1>2, <1>3, FS_RemoveElement
  <1>5. Cardinality(AwaitedOf(pool, key)) \in Nat
    BY <1>3, FS_CardinalityType
  <1>6. Exclusive(rest, searching, current)
    BY <1>1 DEF Good, Exclusive
  <1>7. ASSUME NEW task \in TasksOf(rest), <<task.chunk, task.job>> # key
        PROVE  AwaitedOf(rest, <<task.chunk, task.job>>)
                  = AwaitedOf(pool, <<task.chunk, task.job>>)
    BY <1>0, <1>1, <1>7 DEF AwaitedOf
  <1>8. exploring[key].minersComplete + 1 + Cardinality(AwaitedOf(rest, key)) = Len(rest)
    BY <1>1, <1>3, <1>4, <1>5
  <1> QED
    BY <1>3, <1>4, <1>6, <1>7, <1>8 DEF OneLess

\* The last slice of a chunk: its job has nothing else to explore.
LEMMA ChunkDone ==
  ASSUME NEW pool, NEW searching, NEW exploring, NEW current, NEW i \in DOMAIN pool, NEW rest,
         Good(pool, searching, exploring, current), pool[i] # <<>>,
         rest = Taken(pool, i),
         NEW key, key = <<Head(pool[i]).chunk, Head(pool[i]).job>>,
         exploring[key].minersComplete + 1 = Len(pool),
         NEW others, others = [k \in DOMAIN exploring \ {key} |-> exploring[k]]
  PROVE  /\ Good(rest, searching, others, current)
         /\ ~Going(rest, searching, Head(pool[i]).job)
  <1>0. PICK head : head = Head(pool[i])
    OBVIOUS
  <1>1. /\ Lined(rest, current) /\ head \in TasksOf(pool) /\ Len(rest) = Len(pool)
        /\ TasksOf(rest) = TasksOf(pool) \ {head}
    BY <1>0, TaskTaken DEF Good
  <1>2. OneLess(pool, rest, exploring, key) /\ Exclusive(rest, searching, current)
    BY SliceCounted
  <1>3. AwaitedOf(rest, key) = {}
    <2>1. Cardinality(AwaitedOf(rest, key)) \in Nat
      BY <1>2, FS_CardinalityType DEF OneLess
    <2>2. Cardinality(AwaitedOf(rest, key)) = 0
      BY <1>1, <1>2, <2>1 DEF OneLess
    <2> QED
      BY <1>2, <2>2, FS_EmptySet DEF OneLess
  <1>4. \A task \in TasksOf(rest) : <<task.chunk, task.job>> # key
    BY <1>3 DEF AwaitedOf
  <1>5. \A task \in TasksOf(rest) : task.job # head.job
    <2>1. \A task \in TasksOf(rest) : task.job = head.job => task.chunk = head.chunk
      BY <1>1 DEF Good, Exclusive
    <2> QED
      BY <1>0, <1>4, <2>1
  <1>6. \A search \in searching : search.job # head.job
    BY <1>1 DEF Good, Exclusive
  <1>7. AddUp(rest, others)
    <2>1. AddUp(pool, exploring)
      BY DEF Good
    <2> QED
      BY <1>1, <1>2, <1>4, <2>1 DEF AddUp, OneLess
  <1> QED
    BY <1>0, <1>1, <1>2, <1>5, <1>6, <1>7 DEF Good, Going

Counted(exploring, key, planets) ==
    [exploring EXCEPT ![key] =
        [planets |-> planets, minersComplete |-> exploring[key].minersComplete + 1]]

\* Whatever job goes on still does.
Onward(pool, rest, searching) ==
    \A job : Going(pool, searching, job) => Going(rest, searching, job)

\* Any other: the count goes up as the slice goes.
LEMMA SliceDone ==
  ASSUME NEW pool, NEW searching, NEW exploring, NEW current, NEW i \in DOMAIN pool, NEW rest,
         Good(pool, searching, exploring, current), pool[i] # <<>>,
         rest = Taken(pool, i),
         NEW key, key = <<Head(pool[i]).chunk, Head(pool[i]).job>>,
         exploring[key].minersComplete + 1 # Len(pool),
         NEW others, NEW planets, others = Counted(exploring, key, planets)
  PROVE  Good(rest, searching, others, current) /\ Onward(pool, rest, searching)
  <1>0. PICK head : head = Head(pool[i])
    OBVIOUS
  <1>1. /\ Lined(rest, current) /\ head \in TasksOf(pool) /\ Len(rest) = Len(pool)
        /\ TasksOf(rest) = TasksOf(pool) \ {head}
    BY <1>0, TaskTaken DEF Good
  <1>2. OneLess(pool, rest, exploring, key) /\ Exclusive(rest, searching, current)
    BY SliceCounted
  <1>3. /\ DOMAIN others = DOMAIN exploring
        /\ others[key].minersComplete = exploring[key].minersComplete + 1
        /\ \A k \in DOMAIN exploring : k # key => others[k] = exploring[k]
    BY <1>2 DEF OneLess, Counted
  <1>4. ASSUME NEW task \in TasksOf(rest)
        PROVE  LET k == <<task.chunk, task.job>> IN
               /\ k \in DOMAIN others
               /\ others[k].minersComplete \in Nat
               /\ IsFiniteSet(AwaitedOf(rest, k))
               /\ others[k].minersComplete + Cardinality(AwaitedOf(rest, k)) = Len(rest)
    <2>1. CASE <<task.chunk, task.job>> = key
      BY <1>2, <1>3, <2>1 DEF OneLess
    <2>2. CASE <<task.chunk, task.job>> # key
      <3>1. AddUp(pool, exploring) /\ task \in TasksOf(pool)
        BY <1>1 DEF Good
      <3> QED
        BY <1>1, <1>2, <1>3, <2>2, <3>1 DEF AddUp, OneLess
    <2> QED
      BY <2>1, <2>2
  <1>5. AddUp(rest, others)
    BY <1>4 DEF AddUp
  <1>6. \E task \in TasksOf(rest) : task.job = head.job
    <2>1. AwaitedOf(rest, key) # {}
      BY <1>1, <1>2, FS_EmptySet DEF OneLess
    <2>2. PICK task \in TasksOf(rest) : <<task.chunk, task.job>> = key
      BY <2>1 DEF AwaitedOf
    <2> QED
      BY <1>0, <2>2
  <1>7. Onward(pool, rest, searching)
    BY <1>1, <1>6 DEF Going, Onward
  <1> QED
    BY <1>1, <1>2, <1>5, <1>7 DEF Good

-----------------------------------------------------------------------------
(* The steps of the miner. *)

LEMMA NoPoolGood ==
  ASSUME NEW exploring, NEW current
  PROVE  Good(Nobody, {}, exploring, current)
  <1>1. Nobody \in Seq(Seq({})) /\ DOMAIN Nobody = {}
    BY DEF Nobody
  <1>2. TasksOf(Nobody) = {}
    BY <1>1 DEF TasksOf
  <1> QED
    BY <1>1, <1>2 DEF Good, Lined, Exclusive, AddUp

LEMMA BeginGood ==
  ASSUME IInv, NEW by, NEW pool, pool # Nobody,
         Good(pool, searches, exploringChunk, currentJobId),
         Begin(by, pool)
  PROVE  IInv'
  <1>1. currentJobId' = currentJobId + 1 /\ currentJobId + 1 \in Nat
        /\ currentJobId + 1 \in 1..(currentJobId + 1)
    BY DEF Begin, IInv
  <1>2. Good(pool, searches, exploringChunk, currentJobId + 1)
        /\ ~Going(pool, searches, currentJobId + 1)
    BY NextJobGood DEF IInv
  <1>3. ExploreNext(chunkMap, by, Home, currentJobId + 1, searches, exploringChunk, pool)
    BY DEF Begin
  <1>4. Good(workers', searches', exploringChunk', currentJobId + 1)
        /\ Going(workers', searches', currentJobId + 1) /\ workers' # Nobody
    BY <1>1, <1>2, <1>3, ExploreGood
  <1> QED
    BY <1>1, <1>4 DEF IInv

LEMMA PoolGood ==
  ASSUME IInv, NEW n \in Cores
  PROVE  /\ NewWorkers(n) # Nobody
         /\ Good(NewWorkers(n), searches, exploringChunk, currentJobId)
  <1>1. n \in Nat /\ n # 0
    BY ExplorerAssumption
  <1>2. Len(NewWorkers(n)) = n /\ Len(Nobody) = 0
    BY <1>1, NewWorkersIdle DEF Nobody
  <1> QED
    BY <1>1, <1>2, NewWorkersGood DEF IInv

LEMMA SearchGood ==
  ASSUME IInv, NEW search \in searches, SearchOn(search)
  PROVE  IInv'
  <1>1. /\ Good(workers, searches \ {search}, exploringChunk, currentJobId)
        /\ ~Going(workers, searches \ {search}, search.job)
        /\ search.job \in 1..currentJobId
    BY SearchEnds DEF IInv, Good, Exclusive
  <1>2. UNCHANGED <<isExploring, currentJobId>>
    BY DEF SearchOn
  <1>3. CASE ~isExploring /\ search.job # currentJobId
    <2>1. searches' = searches \ {search} /\ UNCHANGED <<exploringChunk, workers>>
      BY <1>3 DEF SearchOn
    <2>2. Good(workers', searches', exploringChunk', currentJobId')
      BY <1>1, <1>2, <2>1
    <2> QED
      BY <1>2, <1>3, <2>1, <2>2 DEF IInv
  <1>4. CASE ~(~isExploring /\ search.job # currentJobId)
    <2>1. ExploreNext(chunkMap, step, search.at, search.job, searches \ {search},
                      exploringChunk, workers)
      BY <1>4 DEF SearchOn
    <2>2. workers # Nobody
      BY DEF IInv
    <2>3. /\ Good(workers', searches', exploringChunk', currentJobId) /\ workers' # Nobody
          /\ \A j : Going(workers, searches \ {search}, j) \/ j = search.job
                     => Going(workers', searches', j)
      BY <1>1, <2>1, <2>2, ExploreGood DEF IInv
    <2>4. Going(workers, searches, currentJobId)
            => Going(workers, searches \ {search}, currentJobId) \/ currentJobId = search.job
      BY DEF Going
    <2> QED
      BY <1>2, <2>2, <2>3, <2>4 DEF IInv
  <1> QED
    BY <1>3, <1>4

LEMMA SliceGood ==
  ASSUME IInv, NEW i \in DOMAIN workers, SliceExplored(i)
  PROVE  IInv'
  <1> DEFINE rest == Taken(workers, i)
             head == Head(workers[i])
             key  == <<head.chunk, head.job>>
             n    == exploringChunk[key].minersComplete
  <1>1. workers[i] # <<>> /\ UNCHANGED <<isExploring, currentJobId>>
    BY DEF SliceExplored
  <1>2. /\ Good(workers, searches, exploringChunk, currentJobId)
        /\ currentJobId \in Nat /\ workers # Nobody
    BY DEF IInv, Nobody
  <1>3. head \in TasksOf(workers) /\ rest # Nobody
    BY <1>1, <1>2, TaskTaken DEF Good
  <1>4. key \in DOMAIN exploringChunk
    BY <1>1, <1>2, SliceCounted DEF OneLess
  <1>5. head.job \in 1..currentJobId
    BY <1>2, <1>3, InTasks DEF Good, Lined
  <1>6. PICK planets :
          IF Complete(n + 1) THEN Discovered(head.chunk, head.job, planets, rest)
          ELSE /\ exploringChunk' = [exploringChunk EXCEPT ![key] =
                                        [planets |-> planets, minersComplete |-> n + 1]]
               /\ workers' = rest
               /\ UNCHANGED searches
    BY <1>4 DEF SliceExplored, Taken
  <1> HIDE DEF rest
  <1>7. CASE ~Complete(n + 1)
    <2>1. Good(workers', searches', exploringChunk', currentJobId)
          /\ \A job : Going(workers, searches, job) => Going(workers', searches', job)
      <3>1. PICK others : others = Counted(exploringChunk, key, planets)
        OBVIOUS
      <3>2. exploringChunk' = others /\ workers' = rest /\ UNCHANGED searches
        BY <1>6, <1>7, <3>1 DEF Counted
      <3>3. exploringChunk[key].minersComplete + 1 # Len(workers)
        BY <1>7 DEF Complete
      <3>4. Good(rest, searches, others, currentJobId) /\ Onward(workers, rest, searches)
        BY <1>1, <1>2, <3>1, <3>3, SliceDone DEF rest
      <3> QED
        BY <3>2, <3>4 DEF Onward
    <2> QED
      BY <1>1, <1>2, <1>3, <1>6, <1>7, <2>1 DEF IInv
  <1>8. CASE Complete(n + 1)
    <2>1. PICK others : others = [k \in DOMAIN exploringChunk \ {key} |-> exploringChunk[k]]
      OBVIOUS
    <2>2. Good(rest, searches, others, currentJobId) /\ ~Going(rest, searches, head.job)
      BY <1>1, <1>2, <1>8, <2>1, ChunkDone DEF Complete, rest
    <2>3. CASE isExploring /\ currentJobId = head.job
      <3>1. PICK map : ExploreNext(map, step, head.chunk, head.job, searches, others, rest)
        BY <1>6, <1>8, <2>1, <2>3 DEF Discovered
      <3>2. /\ Good(workers', searches', exploringChunk', currentJobId) /\ workers' # Nobody
            /\ Going(workers', searches', head.job)
        BY <1>2, <1>3, <1>5, <2>2, <3>1, ExploreGood
      <3> QED
        BY <1>1, <1>2, <2>3, <3>2 DEF IInv
    <2>4. CASE ~(isExploring /\ currentJobId = head.job)
      <3>1. exploringChunk' = others /\ workers' = rest /\ UNCHANGED searches
        BY <1>6, <1>8, <2>1, <2>4 DEF Discovered
      <3>2. isExploring => Going(rest, searches, currentJobId)
        <4>1. TasksOf(rest) = TasksOf(workers) \ {head}
          BY <1>1, <1>2, TaskTaken DEF Good, rest
        <4> QED
          BY <1>2, <2>4, <4>1 DEF IInv, Going
      <3> QED
        BY <1>1, <1>2, <1>3, <2>2, <3>1, <3>2 DEF IInv
    <2> QED
      BY <2>3, <2>4
  <1> QED
    BY <1>7, <1>8

LEMMA StepGood == IInv /\ [Next]_vars => IInv'
  <1> SUFFICES ASSUME IInv, [Next]_vars PROVE IInv'
    OBVIOUS
  <1> DEFINE jobs == <<isExploring, currentJobId, searches, exploringChunk, workers>>
  <1>1. CASE UNCHANGED jobs
    BY <1>1 DEF IInv
  <1>2. CASE StartExplore
    BY <1>2, BeginGood DEF StartExplore, IInv
  <1>3. CASE StopExplore
    BY <1>3 DEF StopExplore, IInv
  <1>4. ASSUME NEW by \in Steps, SetMiningPattern(by) PROVE IInv'
    <2>1. CASE isExploring
      BY <1>4, <2>1, BeginGood DEF SetMiningPattern, IInv
    <2>2. CASE ~isExploring
      BY <1>1, <1>4, <2>2 DEF SetMiningPattern
    <2> QED
      BY <2>1, <2>2
  <1>5. ASSUME NEW n \in Cores,
               \/ isExploring /\ Begin(step, NewWorkers(n))
               \/ /\ ~isExploring
                  /\ workers' = NewWorkers(n)
                  /\ UNCHANGED <<isExploring, currentJobId, searches, exploringChunk>>
        PROVE  IInv'
    <2>1. /\ NewWorkers(n) # Nobody
          /\ Good(NewWorkers(n), searches, exploringChunk, currentJobId)
      BY PoolGood
    <2>2. CASE isExploring /\ Begin(step, NewWorkers(n))
      BY <2>1, <2>2, BeginGood
    <2>3. CASE /\ ~isExploring
               /\ workers' = NewWorkers(n)
               /\ UNCHANGED <<isExploring, currentJobId, searches, exploringChunk>>
      BY <2>1, <2>3 DEF IInv
    <2> QED
      BY <1>5, <2>2, <2>3
  <1>6. ASSUME NEW n \in Cores, SetCores(n) \/ InitMiningManager(n) PROVE IInv'
    BY <1>5, <1>6 DEF SetCores, InitMiningManager
  <1>7. ASSUME NEW search \in searches, SearchOn(search) PROVE IInv'
    BY <1>7, SearchGood
  <1>8. ASSUME NEW i \in DOMAIN workers, SliceExplored(i) PROVE IInv'
    BY <1>8, SliceGood
  <1>9. CASE Store \/ UNCHANGED vars
    BY <1>1, <1>9 DEF Store, minerVars, vars
  <1>10. CASE Reopen
    <2>1. workers' = Nobody /\ searches' = {} /\ currentJobId' = 0
      BY <1>10 DEF Reopen
    <2> QED
      BY <2>1, NoPoolGood DEF IInv
  <1> QED
    BY <1>2, <1>3, <1>4, <1>6, <1>7, <1>8, <1>9, <1>10 DEF Next

LEMMA InitGood == Init => IInv
  BY NoPoolGood DEF Init, IInv

THEOREM MinerInductive == Spec => []IInv
  BY InitGood, StepGood, PTL DEF Spec

LEMMA TasksAreTasks ==
  /\ Tasks = TasksOf(workers)
  /\ \A key : Awaited(key) = AwaitedOf(workers, key)
  BY DEF Tasks, TasksOf, Awaited, AwaitedOf

\* However many workers, and whichever jobs came and went, no chunk is complete
\* before the last of its slices, and each becomes so.
THEOREM SlicesCounted == Spec => []SlicesAddUp
  <1>1. IInv => SlicesAddUp
    BY TasksAreTasks DEF IInv, Good, AddUp, SlicesAddUp
  <1> QED
    BY <1>1, MinerInductive, PTL

\* Exploring never stalls and never doubles, whatever the searches find.
THEOREM JobsAlone == Spec => []OneChunkPerJob
  <1>1. ASSUME IInv PROVE OneChunkPerJob
    <2> SUFFICES ASSUME NEW job \in 1..currentJobId,
                        NEW going,
                        going = {search \in searches : search.job = job}
                          \cup {<<task.chunk>> : task \in {task \in Tasks : task.job = job}}
                 PROVE  /\ Cardinality(going) <= 1
                        /\ job = currentJobId /\ isExploring /\ workers # Nobody => going # {}
      BY DEF OneChunkPerJob
    <2>1. Exclusive(workers, searches, currentJobId)
      BY <1>1 DEF IInv, Good
    <2>2. \A a, b \in going : a = b
      BY <2>1, TasksAreTasks DEF Exclusive
    <2>3. Cardinality(going) <= 1
      <3>1. CASE going = {}
        <4>1. Cardinality({}) = 0
          BY FS_EmptySet
        <4> QED
          BY <3>1, <4>1
      <3>2. CASE going # {}
        <4>1. PICK a : going = {a}
          BY <2>2, <3>2
        <4>2. Cardinality({a}) = 1
          BY FS_Singleton
        <4> QED
          BY <4>1, <4>2
      <3> QED
        BY <3>1, <3>2
    <2>4. Going(workers, searches, job) => going # {}
      BY TasksAreTasks DEF Going
    <2> QED
      BY <1>1, <2>3, <2>4 DEF IInv
  <1> QED
    BY <1>1, MinerInductive, PTL

-----------------------------------------------------------------------------
(* Sides are powers of two: each divides the larger ones. *)

Doubles(t) == 2 * t <= MAX_CHUNK_SIZE => 2 * t \in Sides

Positive == Nat \ {0}

LEMMA MaxPositive == MAX_CHUNK_SIZE \in Positive /\ MAX_CHUNK_SIZE \in Sides
  BY StoreAssumption DEF Sides, Positive

LEMMA OneSide == 1 \in Sides
  BY MaxPositive DEF Sides, Positive

LEMMA SidePositive == \A s \in Sides : s \in Positive /\ s <= MAX_CHUNK_SIZE
  BY MaxPositive DEF Sides, Positive

LEMMA SideDoubles == ASSUME NEW t \in Sides PROVE Doubles(t)
  BY MaxPositive DEF Sides, Doubles, Positive

\* Whatever holds 1, and twice each side that it holds, holds all of them.
LEMMA SidesLeast ==
  ASSUME NEW S, 1 \in S,
         \A t \in S \cap Sides : 2 * t \in Sides => 2 * t \in S,
         NEW s \in Sides
  PROVE  s \in S
  <1> DEFINE T == S \cap Sides
  <1>1. T \in SUBSET (1..MAX_CHUNK_SIZE)
    BY DEF Sides
  <1>2. 1 \in T
    BY OneSide
  <1>3. \A t \in T : 2 * t <= MAX_CHUNK_SIZE => 2 * t \in T
    BY SideDoubles DEF Doubles
  <1> HIDE DEF T
  <1>4. s \in T
    BY <1>1, <1>2, <1>3 DEF Sides
  <1> QED
    BY <1>4 DEF T

\* A side is 1 or twice another.
LEMMA SideHalves ==
  ASSUME NEW s \in Sides, s # 1 PROVE \E r \in Sides : s = 2 * r
  <1> DEFINE S == {t \in Sides : t = 1 \/ \E r \in Sides : t = 2 * r}
  <1>1. 1 \in S
    BY OneSide
  <1>2. \A t \in S \cap Sides : 2 * t \in Sides => 2 * t \in S
    OBVIOUS
  <1> HIDE DEF S
  <1>3. s \in S
    BY <1>1, <1>2, SidesLeast
  <1> QED
    BY <1>3 DEF S

Multiple(a, s) == \E k \in Int : a = k * s

\* Of two sides the larger is a multiple of the smaller.
LEMMA SideDivides ==
  ASSUME NEW s \in Sides, NEW t \in Sides, s <= t
  PROVE  \E m \in Positive : t = m * s
  <1> DEFINE Fine(u) == \A r \in Sides : r <= u => \E m \in Positive : u = m * r
             S == {u \in Sides : Fine(u)}
  <1>1. 1 \in S
    BY OneSide, SidePositive DEF Positive
  <1>2. ASSUME NEW u \in S \cap Sides, 2 * u \in Sides PROVE 2 * u \in S
    <2>1. ASSUME NEW r \in Sides, r <= 2 * u
          PROVE  \E m \in Positive : 2 * u = m * r
      <3>1. CASE r <= u
        <4>1. PICK m \in Positive : u = m * r
          BY <3>1
        <4>2. 2 * m \in Positive /\ 2 * u = (2 * m) * r
          BY <2>1, <4>1, SidePositive DEF Positive
        <4> QED
          BY <4>2
      <3>2. CASE r > u
        <4>1. r # 1
          BY <3>2, SidePositive DEF Positive
        <4>2. PICK h \in Sides : r = 2 * h
          BY <4>1, SideHalves
        <4>3. h <= u /\ u < 2 * h /\ h \in Nat \ {0} /\ u \in Nat \ {0}
          BY <2>1, <3>2, <4>2, SidePositive DEF Positive
        <4>4. PICK m \in Positive : u = m * h
          BY <4>3
        <4>5. m = 1
          <5>1. m * h < 2 * h
            BY <4>3, <4>4
          <5>2. CASE m >= 2
            <6>1. (m - 2) * h >= 0
              BY <4>3, <5>2 DEF Positive
            <6> QED
              BY <4>3, <5>1, <6>1 DEF Positive
          <5> QED
            BY <5>2 DEF Positive
        <4>6. 2 * u = 1 * r
          BY <4>2, <4>3, <4>4, <4>5
        <4> QED
          BY <4>6 DEF Positive
      <3> QED
        BY <2>1, <3>1, <3>2, SidePositive DEF Positive
    <2> QED
      BY <1>2, <2>1
  <1> HIDE DEF S
  <1>3. t \in S
    BY <1>1, <1>2, SidesLeast
  <1> QED
    BY <1>3 DEF S

\* No side is between another and its double.
LEMMA SideGap ==
  ASSUME NEW s \in Sides, NEW t \in Sides, s < t
  PROVE  2 * s <= t /\ 2 * s \in Sides
  <1>1. PICK m \in Positive : t = m * s
    BY SideDivides, SidePositive DEF Positive
  <1>2. s \in Nat \ {0} /\ t \in Nat /\ t <= MAX_CHUNK_SIZE /\ MAX_CHUNK_SIZE \in Nat
    BY MaxPositive, SidePositive DEF Positive
  <1>3. m # 1
    BY <1>1, <1>2
  <1>4. (m - 2) * s >= 0
    BY <1>2, <1>3 DEF Positive
  <1>5. 2 * s <= t
    BY <1>1, <1>2, <1>4 DEF Positive
  <1> QED
    BY <1>2, <1>5, SideDoubles DEF Doubles

-----------------------------------------------------------------------------
(* Cutting a coordinate down to a multiple of a side. *)

Floor(x, s) == (x \div s) * s

LEMMA FloorBounds ==
  ASSUME NEW x \in Int, NEW s \in Positive
  PROVE  /\ Floor(x, s) \in Int /\ Multiple(Floor(x, s), s)
         /\ Floor(x, s) <= x /\ x < Floor(x, s) + s
  <1>1. x \div s \in Int
    BY DEF Positive
  <1>2. Multiple(Floor(x, s), s)
    BY <1>1 DEF Floor, Multiple
  <1>3. Floor(x, s) \in Int /\ Floor(x, s) <= x /\ x < Floor(x, s) + s
    BY DEF Floor, Positive
  <1> QED
    BY <1>2, <1>3

LEMMA MultipleInt ==
  ASSUME NEW s \in Positive, NEW a, Multiple(a, s) PROVE a \in Int
  BY DEF Multiple, Positive

LEMMA MultiplesApart ==
  ASSUME NEW s \in Positive, NEW a, NEW b, Multiple(a, s), Multiple(b, s), a < b
  PROVE  a + s <= b
  <1>1. PICK k \in Int : a = k * s
    BY DEF Multiple
  <1>2. PICK l \in Int : b = l * s
    BY DEF Multiple
  <1>3. s \in Int /\ s > 0
    BY DEF Positive
  <1>4. CASE l <= k
    <2>1. (k - l) * s >= 0
      BY <1>3, <1>4
    <2>2. (k - l) * s = k * s - l * s
      BY <1>3
    <2>3. k * s \in Int /\ l * s \in Int
      BY <1>3
    <2> HIDE <1>4
    <2> QED
      BY <1>1, <1>2, <2>1, <2>2, <2>3
  <1>5. CASE l > k
    <2>1. (l - (k + 1)) * s >= 0
      BY <1>3, <1>5
    <2>2. (l - (k + 1)) * s = l * s - (k * s + s)
      BY <1>3
    <2>3. k * s \in Int /\ l * s \in Int
      BY <1>3
    <2> QED
      BY <1>1, <1>2, <1>3, <2>1, <2>2, <2>3
  <1> QED
    BY <1>4, <1>5

LEMMA MultiplePlus ==
  ASSUME NEW s \in Positive, NEW a, Multiple(a, s) PROVE Multiple(a + s, s)
  <1>1. PICK k \in Int : a = k * s
    BY DEF Multiple
  <1>2. a + s = (k + 1) * s
    BY <1>1 DEF Positive
  <1> QED
    BY <1>2 DEF Multiple

LEMMA MultipleOf ==
  ASSUME NEW s \in Positive, NEW m \in Positive, NEW a, Multiple(a, m * s)
  PROVE  Multiple(a, s)
  <1>1. PICK k \in Int : a = k * (m * s)
    BY DEF Multiple
  <1>2. a = (k * m) * s /\ k * m \in Int
    BY <1>1 DEF Positive
  <1> QED
    BY <1>2 DEF Multiple

LEMMA FloorIs ==
  ASSUME NEW x \in Int, NEW s \in Positive, NEW a, Multiple(a, s), a <= x, x < a + s
  PROVE  Floor(x, s) = a
  <1>1. a \in Int /\ s \in Int
    BY MultipleInt DEF Positive
  <1>2. ~(a < Floor(x, s))
    BY <1>1, FloorBounds, MultiplesApart
  <1>3. ~(Floor(x, s) < a)
    BY <1>1, FloorBounds, MultiplesApart
  <1> QED
    BY <1>1, <1>2, <1>3, FloorBounds

\* Cutting down to a finer grid first changes nothing.
LEMMA FloorTwice ==
  ASSUME NEW x \in Int, NEW s \in Sides, NEW t \in Sides, s <= t
  PROVE  Floor(Floor(x, s), t) = Floor(x, t)
  <1> DEFINE a == Floor(x, t)
             b == Floor(x, s)
  <1>1. s \in Positive /\ t \in Positive /\ s \in Int /\ t \in Int
    BY SidePositive DEF Positive
  <1>2. PICK m \in Positive : t = m * s
    BY SideDivides
  <1>3. a \in Int /\ Multiple(a, t) /\ a <= x /\ x < a + t
    BY <1>1, FloorBounds
  <1>4. b \in Int /\ Multiple(b, s) /\ b <= x /\ x < b + s
    BY <1>1, FloorBounds
  <1> HIDE DEF a, b
  <1>5. Multiple(a, s)
    BY <1>1, <1>2, <1>3, MultipleOf
  <1>6. a <= b
    BY <1>1, <1>3, <1>4, <1>5, MultiplesApart
  <1>7. b < a + t
    BY <1>1, <1>3, <1>4
  <1>8. Floor(b, t) = a
    BY <1>1, <1>3, <1>4, <1>6, <1>7, FloorIs
  <1> QED
    BY <1>8 DEF a, b

-----------------------------------------------------------------------------
(* Chunks: aligned squares, one in another or apart. *)

Chunks == {loc \in Footprints : Aligned(loc)}

Up(loc) == Containing(loc, 2 * loc.side)

LEMMA ContainingIs ==
  ASSUME NEW loc \in Footprints, NEW side \in Sides
  PROVE  /\ Containing(loc, side) \in Footprints
         /\ Containing(loc, side).side = side
         /\ Containing(loc, side).x = Floor(loc.x, side)
         /\ Containing(loc, side).y = Floor(loc.y, side)
  <1>1. loc.x \in Int /\ loc.y \in Int /\ side \in Positive
    BY SidePositive DEF Footprints
  <1>2. Floor(loc.x, side) \in Int /\ Floor(loc.y, side) \in Int
    BY <1>1, FloorBounds
  <1> QED
    BY <1>2 DEF Containing, Footprints, Floor

LEMMA AlignedIs ==
  ASSUME NEW loc \in Footprints
  PROVE  Aligned(loc) <=> Containing(loc, loc.side) = loc
  <1>1. loc.x \in Int /\ loc.y \in Int /\ loc.side \in Sides /\ loc.side \in Int /\ loc.side > 0
        /\ loc = [x |-> loc.x, y |-> loc.y, side |-> loc.side]
    BY SidePositive DEF Footprints, Positive
  <1>2. ASSUME NEW x \in Int, NEW s \in Int, s > 0
        PROVE  x % s = 0 <=> (x \div s) * s = x
    BY <1>2
  <1>3. Aligned(loc) <=> (loc.x \div loc.side) * loc.side = loc.x
                          /\ (loc.y \div loc.side) * loc.side = loc.y
    BY <1>1, <1>2 DEF Aligned
  <1>4. Containing(loc, loc.side) = [x |-> (loc.x \div loc.side) * loc.side,
                                     y |-> (loc.y \div loc.side) * loc.side,
                                     side |-> loc.side]
    BY DEF Containing
  <1> HIDE DEF Footprints
  <1> QED
    BY <1>1, <1>3, <1>4

LEMMA FootprintsEqual ==
  ASSUME NEW a \in Footprints, NEW b \in Footprints,
         a.x = b.x, a.y = b.y, a.side = b.side
  PROVE  a = b
  BY DEF Footprints

LEMMA ContainingTwice ==
  ASSUME NEW loc \in Footprints, NEW s \in Sides, NEW t \in Sides, s <= t
  PROVE  Containing(Containing(loc, s), t) = Containing(loc, t)
  <1>1. loc.x \in Int /\ loc.y \in Int
    BY DEF Footprints
  <1>2. Floor(Floor(loc.x, s), t) = Floor(loc.x, t) /\ Floor(Floor(loc.y, s), t) = Floor(loc.y, t)
    BY <1>1, FloorTwice
  <1> QED
    BY <1>2 DEF Containing, Floor

LEMMA ContainingChunk ==
  ASSUME NEW loc \in Footprints, NEW side \in Sides
  PROVE  Containing(loc, side) \in Chunks
  <1> DEFINE c == Containing(loc, side)
  <1>1. c \in Footprints /\ c.side = side
    BY ContainingIs
  <1>2. side <= side
    BY SidePositive DEF Positive
  <1>3. Containing(c, side) = c
    BY <1>2, ContainingTwice
  <1> HIDE DEF c
  <1>4. c \in Chunks
    BY <1>1, <1>3, AlignedIs DEF Chunks
  <1> QED
    BY <1>4 DEF c

LEMMA ChunkSide ==
  ASSUME NEW c \in Chunks
  PROVE  /\ c \in Footprints /\ c.side \in Sides /\ c.side \in Nat /\ c.side > 0
         /\ c.side <= MAX_CHUNK_SIZE /\ MAX_CHUNK_SIZE \in Nat
         /\ Containing(c, c.side) = c
  <1>1. c \in Footprints /\ Aligned(c)
    BY DEF Chunks
  <1>2. c.side \in Sides
    BY <1>1 DEF Footprints
  <1>3. Containing(c, c.side) = c
    BY <1>1, AlignedIs
  <1>4. c.side \in Nat /\ c.side > 0 /\ c.side <= MAX_CHUNK_SIZE /\ MAX_CHUNK_SIZE \in Nat
    <2>1. c.side \in Positive /\ c.side <= MAX_CHUNK_SIZE /\ MAX_CHUNK_SIZE \in Positive
      BY <1>2, SidePositive, MaxPositive
    <2> QED
      BY <2>1 DEF Positive
  <1> QED
    BY <1>1, <1>2, <1>3, <1>4

LEMMA WithinSelf == ASSUME NEW c \in Chunks PROVE Within(c, c)
  BY ChunkSide DEF Within

LEMMA WithinTransitive ==
  ASSUME NEW a \in Footprints, NEW b \in Footprints, NEW c \in Footprints,
         Within(a, b), Within(b, c)
  PROVE  Within(a, c)
  <1>1. a.side \in Nat /\ b.side \in Nat /\ c.side \in Nat /\ b.side \in Sides /\ c.side \in Sides
    BY SidePositive DEF Footprints, Positive
  <1>2. Containing(a, b.side) = b /\ Containing(b, c.side) = c /\ a.side <= b.side /\ b.side <= c.side
    BY DEF Within
  <1>3. Containing(a, c.side) = c
    BY <1>1, <1>2, ContainingTwice
  <1> QED
    BY <1>1, <1>2, <1>3 DEF Within

LEMMA UpChunk ==
  ASSUME NEW at \in Chunks, at.side < MAX_CHUNK_SIZE
  PROVE  /\ Up(at) \in Chunks /\ Up(at).side = 2 * at.side /\ 2 * at.side \in Sides
         /\ Within(at, Up(at))
  <1>1. 2 * at.side \in Sides
    BY ChunkSide, MaxPositive, SideGap
  <1>2. Up(at) \in Chunks /\ Up(at).side = 2 * at.side
    BY <1>1, ChunkSide, ContainingChunk, ContainingIs DEF Up
  <1>3. Within(at, Up(at))
    BY <1>2, ChunkSide DEF Within, Up
  <1> QED
    BY <1>1, <1>2, <1>3

\* One coordinate of the four quarters of a square.
LEMMA Halves ==
  ASSUME NEW s \in Sides, 2 * s \in Sides, NEW x \in Int, NEW a \in Int,
         Floor(a, 2 * s) = a, Floor(x, s) = x
  PROVE  Floor(x, 2 * s) = a <=> x \in {a, a + s}
  <1>1. s \in Positive /\ 2 * s \in Positive /\ s \in Int /\ s > 0 /\ 2 \in Positive
    BY SidePositive DEF Positive
  <1>2. Multiple(a, 2 * s) /\ Multiple(x, s)
    BY <1>1, FloorBounds
  <1>3. Multiple(a, s) /\ Multiple(a + s, s)
    BY <1>1, <1>2, MultipleOf, MultiplePlus
  <1>4. ASSUME Floor(x, 2 * s) = a PROVE x \in {a, a + s}
    <2>1. a <= x /\ x < a + 2 * s
      BY <1>1, <1>4, FloorBounds
    <2>2. CASE a < x
      <3>1. a + s <= x
        BY <1>1, <1>2, <1>3, <2>2, MultiplesApart
      <3>2. ~(a + s < x)
        <4>1. a + s < x => a + s + s <= x
          BY <1>1, <1>2, <1>3, MultiplesApart
        <4> QED
          BY <1>1, <2>1, <4>1
      <3> QED
        BY <1>1, <3>1, <3>2
    <2> QED
      BY <2>1, <2>2
  <1>5. ASSUME x \in {a, a + s} PROVE Floor(x, 2 * s) = a
    <2>1. a <= x /\ x < a + 2 * s
      BY <1>1, <1>5
    <2> QED
      BY <1>1, <1>2, <2>1, FloorIs
  <1> QED
    BY <1>4, <1>5

\* The siblings of a chunk are the other chunks of its size in the next larger one.
LEMMA SiblingsAre ==
  ASSUME NEW at \in Chunks, at.side < MAX_CHUNK_SIZE
  PROVE  Siblings(at) = {c \in Chunks : c.side = at.side /\ Up(c) = Up(at) /\ c # at}
  <1> DEFINE s == at.side
             corner == Up(at)
  <1>1. /\ corner \in Chunks /\ corner.side = 2 * s /\ s \in Sides /\ 2 * s \in Sides
        /\ s \in Int
    BY UpChunk, ChunkSide
  <1>2. corner.x \in Int /\ corner.y \in Int
    BY <1>1 DEF Chunks, Footprints
  <1>3. Floor(corner.x, 2 * s) = corner.x /\ Floor(corner.y, 2 * s) = corner.y
    BY <1>1, ChunkSide, ContainingIs
  <1>4. Siblings(at) = {[x |-> corner.x + i * s, y |-> corner.y + j * s, side |-> s] :
                          i, j \in 0..1} \ {at}
    BY DEF Siblings, Up
  <1> HIDE DEF corner, s
  <1>5. ASSUME NEW c \in Footprints, c.side = s
        PROVE  (c \in Chunks /\ Containing(c, 2 * s) = corner) <=>
                  c.x \in {corner.x, corner.x + s} /\ c.y \in {corner.y, corner.y + s}
    <2>1. c.x \in Int /\ c.y \in Int
      BY DEF Footprints
    <2>2. c \in Chunks <=> Floor(c.x, s) = c.x /\ Floor(c.y, s) = c.y
      BY <1>1, <1>5, AlignedIs, ContainingIs, FootprintsEqual DEF Chunks
    <2>3. Containing(c, 2 * s) = corner <=>
            Floor(c.x, 2 * s) = corner.x /\ Floor(c.y, 2 * s) = corner.y
      <3> DEFINE d == Containing(c, 2 * s)
      <3>1. d \in Footprints /\ d.side = 2 * s /\ d.x = Floor(c.x, 2 * s)
            /\ d.y = Floor(c.y, 2 * s)
        BY <1>1, ContainingIs
      <3>2. corner \in Footprints
        BY <1>1 DEF Chunks
      <3> HIDE DEF d
      <3>3. d = corner <=> d.x = corner.x /\ d.y = corner.y
        BY <1>1, <3>1, <3>2, FootprintsEqual
      <3> QED
        BY <3>1, <3>3 DEF d
    <2>4. ASSUME NEW x \in {corner.x, corner.x + s} PROVE Floor(x, s) = x
      <3>1. /\ s \in Positive /\ 2 * s \in Positive /\ 2 \in Positive
        BY <1>1, SidePositive DEF Positive
      <3>2. Multiple(corner.x, s) /\ Multiple(corner.x + s, s)
        <4>1. Multiple(corner.x, 2 * s)
          BY <1>2, <1>3, <3>1, FloorBounds
        <4> QED
          BY <3>1, <4>1, MultipleOf, MultiplePlus
      <3>3. x \in Int /\ x <= x /\ x < x + s /\ Multiple(x, s)
        BY <1>2, <3>1, <3>2, <2>4 DEF Positive
      <3> QED
        BY <3>1, <3>3, FloorIs
    <2>5. ASSUME NEW y \in {corner.y, corner.y + s} PROVE Floor(y, s) = y
      <3>1. /\ s \in Positive /\ 2 * s \in Positive /\ 2 \in Positive
        BY <1>1, SidePositive DEF Positive
      <3>2. Multiple(corner.y, s) /\ Multiple(corner.y + s, s)
        <4>1. Multiple(corner.y, 2 * s)
          BY <1>2, <1>3, <3>1, FloorBounds
        <4> QED
          BY <3>1, <4>1, MultipleOf, MultiplePlus
      <3>3. y \in Int /\ y <= y /\ y < y + s /\ Multiple(y, s)
        BY <1>2, <3>1, <3>2, <2>5 DEF Positive
      <3> QED
        BY <3>1, <3>3, FloorIs
    <2>6. ASSUME Floor(c.x, s) = c.x, Floor(c.y, s) = c.y
          PROVE  /\ Floor(c.x, 2 * s) = corner.x <=> c.x \in {corner.x, corner.x + s}
                 /\ Floor(c.y, 2 * s) = corner.y <=> c.y \in {corner.y, corner.y + s}
      BY <1>1, <1>2, <1>3, <2>1, <2>6, Halves
    <2> QED
      BY <2>2, <2>3, <2>4, <2>5, <2>6
  <1>6. ASSUME NEW c \in {[x |-> corner.x + i * s, y |-> corner.y + j * s, side |-> s] :
                             i, j \in 0..1}
        PROVE  /\ c \in Footprints /\ c.side = s
               /\ c.x \in {corner.x, corner.x + s} /\ c.y \in {corner.y, corner.y + s}
    <2>1. PICK i \in 0..1, j \in 0..1 :
             c = [x |-> corner.x + i * s, y |-> corner.y + j * s, side |-> s]
      OBVIOUS
    <2>2. i * s \in {0, s} /\ j * s \in {0, s}
      BY <1>1
    <2> QED
      BY <1>1, <1>2, <2>1, <2>2 DEF Footprints
  <1>7. ASSUME NEW c \in Footprints, c.side = s,
               c.x \in {corner.x, corner.x + s}, c.y \in {corner.y, corner.y + s}
        PROVE  c \in {[x |-> corner.x + i * s, y |-> corner.y + j * s, side |-> s] :
                             i, j \in 0..1}
    <2>1. corner.x + 0 * s = corner.x /\ corner.x + 1 * s = corner.x + s
          /\ corner.y + 0 * s = corner.y /\ corner.y + 1 * s = corner.y + s
      BY <1>1, <1>2
    <2>2. PICK i \in 0..1 : c.x = corner.x + i * s
      BY <1>7, <2>1
    <2>3. PICK j \in 0..1 : c.y = corner.y + j * s
      BY <1>7, <2>1
    <2>4. c = [x |-> corner.x + i * s, y |-> corner.y + j * s, side |-> s]
      BY <1>7, <2>2, <2>3 DEF Footprints
    <2> QED
      BY <2>4
  <1>8. \A c \in Chunks : c \in Footprints
    BY DEF Chunks
  <1>9. \A c \in Footprints : c.side = s => Up(c) = Containing(c, 2 * s)
    BY DEF Up
  <1> QED
    BY <1>4, <1>5, <1>6, <1>7, <1>8, <1>9 DEF s, corner

-----------------------------------------------------------------------------
(* The planets of a chunk. *)

Spot(p) == [x |-> p[1], y |-> p[2], side |-> 1]

LEMMA PlanetsAre ==
  ASSUME NEW c \in Chunks, NEW p \in Planets
  PROVE  Spot(p) \in Footprints /\ (p \in PlanetsOf(c) <=> Containing(Spot(p), c.side) = c)
  <1>1. p[1] \in Int /\ p[2] \in Int
    BY StoreAssumption
  <1>2. Spot(p) \in Footprints /\ Spot(p).x = p[1] /\ Spot(p).y = p[2]
    BY <1>1, OneSide DEF Spot, Footprints
  <1>3. /\ c.x \in Int /\ c.y \in Int /\ c.side \in Sides /\ c.side \in Positive
        /\ Floor(c.x, c.side) = c.x /\ Floor(c.y, c.side) = c.y
    BY ChunkSide, ContainingIs, SidePositive DEF Footprints, Chunks
  <1>4. Multiple(c.x, c.side) /\ Multiple(c.y, c.side)
    BY <1>3, FloorBounds
  <1>5. Floor(p[1], c.side) = c.x <=> c.x <= p[1] /\ p[1] < c.x + c.side
    BY <1>1, <1>3, <1>4, FloorBounds, FloorIs
  <1>6. Floor(p[2], c.side) = c.y <=> c.y <= p[2] /\ p[2] < c.y + c.side
    BY <1>1, <1>3, <1>4, FloorBounds, FloorIs
  <1>7. Containing(Spot(p), c.side) = c <=>
          Floor(p[1], c.side) = c.x /\ Floor(p[2], c.side) = c.y
    BY <1>2, <1>3, ContainingIs, FootprintsEqual DEF Chunks
  <1> QED
    BY <1>2, <1>5, <1>6, <1>7 DEF PlanetsOf

LEMMA PlanetsWithin ==
  ASSUME NEW a \in Chunks, NEW b \in Chunks, Within(a, b)
  PROVE  PlanetsOf(a) \subseteq PlanetsOf(b)
  <1> SUFFICES ASSUME NEW p \in PlanetsOf(a) PROVE p \in PlanetsOf(b)
    OBVIOUS
  <1>1. p \in Planets
    BY DEF PlanetsOf
  <1>2. Spot(p) \in Footprints /\ Containing(Spot(p), a.side) = a
    BY <1>1, PlanetsAre
  <1>3. a.side \in Sides /\ b.side \in Sides /\ a.side <= b.side /\ Containing(a, b.side) = b
    BY ChunkSide DEF Within
  <1>4. Containing(Spot(p), b.side) = b
    BY <1>2, <1>3, ContainingTwice
  <1> QED
    BY <1>1, <1>4, PlanetsAre

\* The planets of a square are those of its four quarters.
LEMMA PlanetsUp ==
  ASSUME NEW at \in Chunks, at.side < MAX_CHUNK_SIZE
  PROVE  PlanetsOf(Up(at)) = PlanetsOf(at) \cup UNION {PlanetsOf(c) : c \in Siblings(at)}
  <1>1. /\ Up(at) \in Chunks /\ Up(at).side = 2 * at.side /\ 2 * at.side \in Sides
        /\ at.side \in Sides /\ at.side <= 2 * at.side
    BY UpChunk, ChunkSide
  <1>2. PlanetsOf(at) \subseteq PlanetsOf(Up(at))
    BY <1>1, UpChunk, PlanetsWithin
  <1>3. ASSUME NEW c \in Siblings(at) PROVE PlanetsOf(c) \subseteq PlanetsOf(Up(at))
    <2>1. c \in Chunks /\ c.side = at.side /\ Up(c) = Up(at)
      BY <1>3, SiblingsAre
    <2> QED
      BY <1>1, <2>1, UpChunk, PlanetsWithin
  <1>4. ASSUME NEW p \in PlanetsOf(Up(at))
        PROVE  p \in PlanetsOf(at) \/ \E c \in Siblings(at) : p \in PlanetsOf(c)
    <2> DEFINE c == Containing(Spot(p), at.side)
    <2>1. p \in Planets /\ Spot(p) \in Footprints
      BY <1>1, PlanetsAre DEF PlanetsOf
    <2>2. c \in Chunks /\ c.side = at.side
      BY <1>1, <2>1, ContainingChunk, ContainingIs
    <2>3. Up(c) = Up(at)
      <3>1. Containing(c, 2 * at.side) = Containing(Spot(p), 2 * at.side)
        BY <1>1, <2>1, ContainingTwice
      <3>2. Containing(Spot(p), 2 * at.side) = Up(at)
        BY <1>1, <2>1, PlanetsAre
      <3> QED
        BY <2>2, <3>1, <3>2 DEF Up
    <2>4. p \in PlanetsOf(c)
      BY <2>1, <2>2, PlanetsAre
    <2> HIDE DEF c
    <2> QED
      BY <2>2, <2>3, <2>4, SiblingsAre
  <1> QED
    BY <1>2, <1>3, <1>4

-----------------------------------------------------------------------------
(* Climbing to the square that a chunk completes. *)

GrownBy(g, map) ==
    g = [at \in Footprints |-> IF Completes(map, at) THEN g[Up(at)] ELSE at]

MergedBy(m, map) ==
    m = [at \in Footprints |-> IF Completes(map, at) THEN Siblings(at) \cup m[Up(at)] ELSE {}]

\* The least-number principle, from the well-foundedness of finite sets.
LEMMA LeastNumber ==
  ASSUME NEW S \in SUBSET Nat, S # {}
  PROVE  \E m \in S : \A n \in S : m <= n
  <1> DEFINE Below(k) == 0..k
             T == {Below(k) : k \in S}
  <1>1. \A k \in S : Below(k) \in FiniteSubsetsOf(Nat)
    BY FS_Interval DEF FiniteSubsetsOf
  <1>2. IsWellFoundedOn(StrictSubsetOrdering(Nat), FiniteSubsetsOf(Nat))
    BY FS_StrictSubsetOrderingWellFounded
  <1>3. PICK x \in T : \A y \in T : ~(<<y, x>> \in StrictSubsetOrdering(Nat))
    <2>1. T \subseteq FiniteSubsetsOf(Nat)
      BY <1>1
    <2>2. T # {}
      OBVIOUS
    <2> HIDE DEF T
    <2> QED
      BY <1>2, <2>1, <2>2, WFMin
  <1>4. PICK m \in S : x = Below(m)
    OBVIOUS
  <1>5. ASSUME NEW n \in S, n < m  PROVE FALSE
    <2>1. Below(n) \subseteq Below(m) /\ Below(n) # Below(m)
      <3>1. m \in Below(m) /\ m \notin Below(n)
        BY <1>5
      <3> QED
        BY <3>1, <1>5
    <2>2. <<Below(n), Below(m)>> \in StrictSubsetOrdering(Nat)
      BY <2>1 DEF StrictSubsetOrdering
    <2> QED
      BY <2>2, <1>3, <1>4
  <1> QED
    BY <1>5

\* A set of natural numbers that holds 0, and with each its successor, is all of them.
LEMMA Counting ==
  ASSUME NEW N, 0 \in N, \A n \in Nat : n \in N => n + 1 \in N
  PROVE  \A n \in Nat : n \in N
  <1> SUFFICES ASSUME NEW k \in Nat, k \notin N PROVE FALSE
    OBVIOUS
  <1> DEFINE out == {n \in Nat : n \notin N}
  <1>1. PICK n \in out : \A m \in out : n <= m
    <2> out \in SUBSET Nat /\ out # {}
      OBVIOUS
    <2> HIDE DEF out
    <2> QED
      BY LeastNumber
  <1>2. n \in Nat /\ n # 0
    OBVIOUS
  <1>3. n - 1 \in Nat /\ n - 1 \in N /\ (n - 1) + 1 = n
    BY <1>1, <1>2
  <1> QED
    BY <1>2, <1>3

LEMMA UpFootprint ==
  ASSUME NEW at \in Footprints, at.side < MAX_CHUNK_SIZE
  PROVE  /\ Up(at) \in Footprints
         /\ MAX_CHUNK_SIZE - at.side \in Nat /\ MAX_CHUNK_SIZE - Up(at).side \in Nat
         /\ MAX_CHUNK_SIZE - Up(at).side < MAX_CHUNK_SIZE - at.side
  <1>1. at.side \in Sides /\ at.side \in Positive /\ MAX_CHUNK_SIZE \in Positive
    BY SidePositive, MaxPositive DEF Footprints
  <1>2. 2 * at.side \in Sides /\ 2 * at.side <= MAX_CHUNK_SIZE
    BY <1>1, MaxPositive, SideGap
  <1>3. Up(at) \in Footprints /\ Up(at).side = 2 * at.side
    BY <1>2, ContainingIs DEF Up
  <1> QED
    BY <1>1, <1>2, <1>3 DEF Positive

LEMMA Topmost ==
  ASSUME NEW at \in Footprints, MAX_CHUNK_SIZE - at.side <= 0, NEW map
  PROVE  ~Completes(map, at)
  <1>1. at.side \in Positive /\ MAX_CHUNK_SIZE \in Positive
    BY SidePositive, MaxPositive DEF Footprints
  <1> QED
    BY <1>1 DEF Completes, Positive

LEMMA Height == \A at \in Footprints : MAX_CHUNK_SIZE - at.side \in Nat
  <1> SUFFICES ASSUME NEW at \in Footprints PROVE MAX_CHUNK_SIZE - at.side \in Nat
    OBVIOUS
  <1>1. at.side \in Positive /\ at.side <= MAX_CHUNK_SIZE /\ MAX_CHUNK_SIZE \in Positive
    BY SidePositive, MaxPositive DEF Footprints
  <1> QED
    BY <1>1 DEF Positive

LEMMA GrownExists ==
  ASSUME NEW map PROVE \E g : GrownBy(g, map)
  <1> DEFINE Fits(g, at) == g[at] = IF Completes(map, at) THEN g[Up(at)] ELSE at
             N == {n \in Nat : \E g : \A at \in Footprints :
                                 MAX_CHUNK_SIZE - at.side <= n => Fits(g, at)}
  <1>1. 0 \in N
    <2> DEFINE g == [at \in Footprints |-> at]
    <2>1. \A at \in Footprints : MAX_CHUNK_SIZE - at.side <= 0 => Fits(g, at)
      BY Topmost
    <2> QED
      BY <2>1
  <1>2. ASSUME NEW n \in Nat, n \in N PROVE n + 1 \in N
    <2>1. PICK g : \A at \in Footprints : MAX_CHUNK_SIZE - at.side <= n => Fits(g, at)
      BY <1>2
    <2> DEFINE h == [at \in Footprints |-> IF Completes(map, at) THEN g[Up(at)] ELSE at]
    <2>2. ASSUME NEW at \in Footprints, MAX_CHUNK_SIZE - at.side <= n + 1 PROVE Fits(h, at)
      <3>1. CASE ~Completes(map, at)
        BY <3>1
      <3>2. CASE Completes(map, at)
        <4>1. Up(at) \in Footprints /\ MAX_CHUNK_SIZE - Up(at).side <= n
          BY <2>2, <3>2, UpFootprint DEF Completes
        <4>2. Fits(g, Up(at))
          BY <2>1, <4>1
        <4>3. h[Up(at)] = g[Up(at)]
          BY <4>1, <4>2
        <4> QED
          BY <3>2, <4>3
      <3> QED
        BY <3>1, <3>2
    <2> HIDE DEF h, Fits
    <2> QED
      BY <2>2
  <1> HIDE DEF N
  <1>3. MAX_CHUNK_SIZE \in Nat /\ \A n \in Nat : n \in N
    BY <1>1, <1>2, Counting, MaxPositive DEF Positive
  <1>4. PICK g : \A at \in Footprints : MAX_CHUNK_SIZE - at.side <= MAX_CHUNK_SIZE => Fits(g, at)
    BY <1>3 DEF N
  <1>5. \A at \in Footprints : Fits(g, at)
    <2> TAKE at \in Footprints
    <2>1. at.side \in Positive
      BY SidePositive DEF Footprints
    <2>2. MAX_CHUNK_SIZE - at.side <= MAX_CHUNK_SIZE
      BY <1>3, <2>1 DEF Positive
    <2> QED
      BY <1>4, <2>2
  <1> DEFINE h == [at \in Footprints |-> IF Completes(map, at) THEN g[Up(at)] ELSE at]
  <1>6. \A at \in Footprints : Completes(map, at) => Up(at) \in Footprints
    BY UpFootprint DEF Completes
  <1>7. \A at \in Footprints : h[at] = g[at]
    BY <1>5
  <1>8. GrownBy(h, map)
    BY <1>6, <1>7 DEF GrownBy
  <1> QED
    BY <1>8

LEMMA MergedExists ==
  ASSUME NEW map PROVE \E m : MergedBy(m, map)
  <1> DEFINE Fits(m, at) == m[at] = IF Completes(map, at) THEN Siblings(at) \cup m[Up(at)] ELSE {}
             N == {n \in Nat : \E m : \A at \in Footprints :
                                 MAX_CHUNK_SIZE - at.side <= n => Fits(m, at)}
  <1>1. 0 \in N
    <2> DEFINE m == [at \in Footprints |-> {}]
    <2>1. \A at \in Footprints : MAX_CHUNK_SIZE - at.side <= 0 => Fits(m, at)
      BY Topmost
    <2> QED
      BY <2>1
  <1>2. ASSUME NEW n \in Nat, n \in N PROVE n + 1 \in N
    <2>1. PICK m : \A at \in Footprints : MAX_CHUNK_SIZE - at.side <= n => Fits(m, at)
      BY <1>2
    <2> DEFINE h == [at \in Footprints |->
                        IF Completes(map, at) THEN Siblings(at) \cup m[Up(at)] ELSE {}]
    <2>2. ASSUME NEW at \in Footprints, MAX_CHUNK_SIZE - at.side <= n + 1 PROVE Fits(h, at)
      <3>1. CASE ~Completes(map, at)
        BY <3>1
      <3>2. CASE Completes(map, at)
        <4>1. Up(at) \in Footprints /\ MAX_CHUNK_SIZE - Up(at).side <= n
          BY <2>2, <3>2, UpFootprint DEF Completes
        <4>2. Fits(m, Up(at))
          BY <2>1, <4>1
        <4>3. h[Up(at)] = m[Up(at)]
          BY <4>1, <4>2
        <4> QED
          BY <3>2, <4>3
      <3> QED
        BY <3>1, <3>2
    <2> HIDE DEF h, Fits
    <2> QED
      BY <2>2
  <1> HIDE DEF N
  <1>3. MAX_CHUNK_SIZE \in Nat /\ \A n \in Nat : n \in N
    BY <1>1, <1>2, Counting, MaxPositive DEF Positive
  <1>4. PICK m : \A at \in Footprints : MAX_CHUNK_SIZE - at.side <= MAX_CHUNK_SIZE => Fits(m, at)
    BY <1>3 DEF N
  <1>5. \A at \in Footprints : Fits(m, at)
    <2> TAKE at \in Footprints
    <2>1. at.side \in Positive
      BY SidePositive DEF Footprints
    <2>2. MAX_CHUNK_SIZE - at.side <= MAX_CHUNK_SIZE
      BY <1>3, <2>1 DEF Positive
    <2> QED
      BY <1>4, <2>2
  <1> DEFINE h == [at \in Footprints |->
                      IF Completes(map, at) THEN Siblings(at) \cup m[Up(at)] ELSE {}]
  <1>6. \A at \in Footprints : Completes(map, at) => Up(at) \in Footprints
    BY UpFootprint DEF Completes
  <1>7. \A at \in Footprints : h[at] = m[at]
    BY <1>5
  <1>8. MergedBy(h, map)
    BY <1>6, <1>7 DEF MergedBy
  <1> QED
    BY <1>8

\* No chunk lies in another.
Apart(locs) == \A a, b \in locs : a # b => ~Within(a, b)

\* What is merged into the square that grew from a chunk, among others that are apart.
GrewWell(locs, at, grown, merged) ==
    /\ grown \in Chunks /\ Within(at, grown)
    /\ ~(grown.side < MAX_CHUNK_SIZE /\ Siblings(grown) \subseteq locs)
    /\ merged \subseteq locs
    /\ \A s \in merged : Within(s, grown)
    /\ PlanetsOf(grown) = PlanetsOf(at) \cup UNION {PlanetsOf(s) : s \in merged}
    /\ Apart(locs) =>
         \A c \in locs : Within(c, grown) => Within(c, at) \/ c \in merged \/ Within(at, c)

LEMMA GrewNothing ==
  ASSUME NEW map, NEW at \in Chunks, ~Completes(map, at)
  PROVE  GrewWell(DOMAIN map, at, at, {})
  BY WithinSelf DEF GrewWell, Completes

LEMMA GrewUp ==
  ASSUME NEW map, DOMAIN map \subseteq Chunks, NEW at \in Chunks, Completes(map, at),
         NEW grown, NEW merged, GrewWell(DOMAIN map, Up(at), grown, merged)
  PROVE  GrewWell(DOMAIN map, at, grown, Siblings(at) \cup merged)
  <1>1. at.side < MAX_CHUNK_SIZE /\ Siblings(at) \subseteq DOMAIN map
    BY DEF Completes
  <1>2. /\ Up(at) \in Chunks /\ Up(at).side = 2 * at.side /\ 2 * at.side \in Sides
        /\ Within(at, Up(at)) /\ at.side \in Sides /\ at.side \in Nat /\ at.side > 0
        /\ at \in Footprints /\ Up(at) \in Footprints
    BY <1>1, UpChunk, ChunkSide
  <1>3. grown \in Chunks /\ grown \in Footprints /\ Within(Up(at), grown)
    BY ChunkSide DEF GrewWell
  <1>4. Within(at, grown)
    BY <1>2, <1>3, WithinTransitive
  <1>5. ASSUME NEW s \in Siblings(at) PROVE s \in Chunks /\ Within(s, grown)
    <2>1. s \in Chunks /\ s.side = at.side /\ Up(s) = Up(at)
      BY <1>1, <1>5, SiblingsAre
    <2>2. Within(s, Up(at)) /\ s \in Footprints
      BY <1>1, <2>1, UpChunk, ChunkSide
    <2> QED
      BY <1>2, <1>3, <2>1, <2>2, WithinTransitive
  <1>6. PlanetsOf(grown)
          = PlanetsOf(at) \cup UNION {PlanetsOf(s) : s \in Siblings(at) \cup merged}
    <2>1. PlanetsOf(Up(at)) = PlanetsOf(at) \cup UNION {PlanetsOf(c) : c \in Siblings(at)}
      BY <1>1, PlanetsUp
    <2>2. PlanetsOf(grown) = PlanetsOf(Up(at)) \cup UNION {PlanetsOf(s) : s \in merged}
      BY DEF GrewWell
    <2> QED
      BY <2>1, <2>2
  <1>7. ASSUME Apart(DOMAIN map), NEW c \in DOMAIN map, Within(c, grown)
        PROVE  Within(c, at) \/ c \in Siblings(at) \cup merged \/ Within(at, c)
    <2>1. c \in Chunks /\ c \in Footprints /\ c.side \in Sides /\ c.side \in Nat
          /\ Containing(c, c.side) = c
      BY ChunkSide
    <2>2. CASE Within(Up(at), c)
      BY <1>2, <2>1, <2>2, WithinTransitive
    <2>3. CASE Within(c, Up(at))
      <3>1. Containing(c, 2 * at.side) = Up(at) /\ c.side <= 2 * at.side
        BY <1>2, <2>3 DEF Within
      <3>2. CASE c.side = 2 * at.side
        BY <1>2, <2>1, <3>1, <3>2
      <3>3. CASE c.side < 2 * at.side
        <4> DEFINE b == Containing(c, at.side)
        <4>1. 2 * c.side <= 2 * at.side
          BY <1>2, <2>1, <3>3, SideGap
        <4>2. c.side <= at.side
          BY <1>2, <2>1, <4>1
        <4>3. b \in Chunks /\ b.side = at.side
          BY <1>2, <2>1, ContainingChunk, ContainingIs
        <4>4. Up(b) = Up(at)
          <5>1. at.side <= 2 * at.side
            BY <1>2
          <5>2. Containing(b, 2 * at.side) = Containing(c, 2 * at.side)
            BY <1>2, <2>1, <5>1, ContainingTwice
          <5> QED
            BY <3>1, <4>3, <5>2 DEF Up
        <4>5. Within(c, b)
          BY <4>2, <4>3 DEF Within
        <4> HIDE DEF b
        <4>6. b = at \/ b \in Siblings(at)
          BY <1>1, <4>3, <4>4, SiblingsAre
        <4>7. CASE b \in Siblings(at)
          <5>1. b \in DOMAIN map
            BY <1>1, <4>7
          <5>2. c = b
            BY <1>7, <4>5, <5>1 DEF Apart
          <5> QED
            BY <4>7, <5>2
        <4> QED
          BY <4>5, <4>6, <4>7
      <3> QED
        BY <1>2, <2>1, <3>1, <3>2, <3>3
    <2> QED
      BY <1>7, <2>2, <2>3 DEF GrewWell
  <1> QED
    BY <1>1, <1>3, <1>4, <1>5, <1>6, <1>7 DEF GrewWell

LEMMA Grew ==
  ASSUME NEW map, DOMAIN map \subseteq Chunks, NEW loc \in Chunks
  PROVE  GrewWell(DOMAIN map, loc, Grown(map, loc), Merged(map, loc))
  <1> DEFINE g == CHOOSE g : GrownBy(g, map)
             m == CHOOSE m : MergedBy(m, map)
  <1>1. GrownBy(g, map) /\ MergedBy(m, map)
    BY GrownExists, MergedExists
  <1>2. Grown(map, loc) = g[loc]
    BY DEF Grown, GrownBy, Up
  <1>3. Merged(map, loc) = m[loc]
    BY DEF Merged, MergedBy, Up
  <1> HIDE DEF g, m
  <1> DEFINE Well(at) == GrewWell(DOMAIN map, at, g[at], m[at])
             N == {n \in Nat : \A at \in Chunks : MAX_CHUNK_SIZE - at.side <= n => Well(at)}
  <1>4. ASSUME NEW at \in Chunks, ~Completes(map, at) PROVE Well(at)
    <2>1. at \in Footprints
      BY DEF Chunks
    <2>2. g[at] = at /\ m[at] = {}
      BY <1>1, <1>4, <2>1 DEF GrownBy, MergedBy
    <2> QED
      BY <1>4, <2>2, GrewNothing
  <1>5. ASSUME NEW at \in Chunks, Completes(map, at), Well(Up(at)) PROVE Well(at)
    <2>1. at \in Footprints
      BY DEF Chunks
    <2>2. g[at] = g[Up(at)] /\ m[at] = Siblings(at) \cup m[Up(at)]
      BY <1>1, <1>5, <2>1 DEF GrownBy, MergedBy
    <2> QED
      BY <1>5, <2>2, GrewUp
  <1> HIDE DEF Well
  <1>6. 0 \in N
    BY <1>4, Topmost DEF Chunks
  <1>7. ASSUME NEW n \in Nat, n \in N PROVE n + 1 \in N
    <2>1. ASSUME NEW at \in Chunks, MAX_CHUNK_SIZE - at.side <= n + 1, Completes(map, at)
          PROVE  Well(at)
      <3>1. at \in Footprints /\ at.side < MAX_CHUNK_SIZE
        BY <2>1 DEF Chunks, Completes
      <3>2. Up(at) \in Chunks /\ MAX_CHUNK_SIZE - Up(at).side <= n
        BY <2>1, <3>1, UpFootprint, UpChunk
      <3>3. Well(Up(at))
        BY <1>7, <3>2
      <3> QED
        BY <1>5, <2>1, <3>3
    <2> QED
      BY <1>4, <2>1
  <1> HIDE DEF N
  <1>8. \A n \in Nat : n \in N
    BY <1>6, <1>7, Counting
  <1>9. MAX_CHUNK_SIZE - loc.side \in Nat
    BY Height DEF Chunks
  <1>10. Well(loc)
    BY <1>8, <1>9 DEF N
  <1> QED
    BY <1>2, <1>3, <1>10 DEF Well

-----------------------------------------------------------------------------
(* What one transaction does to a map. *)

\* Every chunk of the map is aligned and has the planets that are there.
WholeMap(map) == DOMAIN map \subseteq Chunks /\ map = Whole(DOMAIN map)

\* No chunk lies in another, and no square is complete.
Tidy(locs) ==
    /\ Apart(locs)
    /\ \A loc \in locs : loc.side < MAX_CHUNK_SIZE => ~(Siblings(loc) \subseteq locs)

\* A transaction writes one whole chunk and deletes what lies in it.
WholeTx(tx) ==
    /\ tx.put \in Chunks
    /\ tx.planets = PlanetsOf(tx.put)
    /\ \A d \in tx.delete : Within(d, tx.put) /\ d \in Footprints

\* Whatever was in a chunk of the one map is in a chunk of the other.
Covers(map, other) ==
    \A loc \in Footprints : HasMinedChunk(map, loc) => HasMinedChunk(other, loc)

LEMMA HasMined ==
  ASSUME NEW map, DOMAIN map \subseteq Chunks, NEW loc \in Footprints
  PROVE  HasMinedChunk(map, loc) <=> \E c \in DOMAIN map : Within(loc, c)
  <1>1. ASSUME NEW side \in Larger(loc), Containing(loc, side) \in DOMAIN map
        PROVE  \E c \in DOMAIN map : Within(loc, c)
    <2>1. side \in Sides /\ loc.side <= side
      BY DEF Larger, Footprints
    <2>2. Containing(loc, side).side = side
      BY <2>1, ContainingIs
    <2> QED
      BY <1>1, <2>1, <2>2 DEF Within
  <1>2. ASSUME NEW c \in DOMAIN map, Within(loc, c)
        PROVE  \E side \in Larger(loc) : Containing(loc, side) \in DOMAIN map
    <2>1. c.side \in Sides /\ loc.side \in Sides
      BY ChunkSide DEF Footprints
    <2>2. loc.side <= c.side /\ Containing(loc, c.side) = c
      BY <1>2 DEF Within
    <2>3. c.side >= loc.side
      BY <2>1, <2>2, SidePositive DEF Positive
    <2> QED
      BY <2>1, <2>2, <2>3 DEF Larger
  <1> QED
    BY <1>1, <1>2 DEF HasMinedChunk

LEMMA AppliedDomain ==
  ASSUME NEW map, NEW tx
  PROVE  /\ DOMAIN Applied(map, tx) = (DOMAIN map \ tx.delete) \cup {tx.put}
         /\ \A loc \in DOMAIN Applied(map, tx) :
              Applied(map, tx)[loc] = IF loc = tx.put THEN tx.planets ELSE map[loc]
  BY DEF Applied

LEMMA AppliedWhole ==
  ASSUME NEW map, WholeMap(map), NEW tx, WholeTx(tx)
  PROVE  WholeMap(Applied(map, tx))
  <1> DEFINE D == (DOMAIN map \ tx.delete) \cup {tx.put}
  <1>1. D \subseteq Chunks
    BY DEF WholeMap, WholeTx
  <1>2. \A loc \in DOMAIN map : map[loc] = PlanetsOf(loc)
    BY DEF WholeMap, Whole
  <1>3. Applied(map, tx) = [loc \in D |-> PlanetsOf(loc)]
    BY <1>2 DEF Applied, WholeTx
  <1> HIDE DEF D
  <1> QED
    BY <1>1, <1>3 DEF WholeMap, Whole

LEMMA AppliedCovers ==
  ASSUME NEW map, WholeMap(map), NEW tx, WholeTx(tx)
  PROVE  Covers(map, Applied(map, tx))
  <1> SUFFICES ASSUME NEW loc \in Footprints, HasMinedChunk(map, loc)
               PROVE  HasMinedChunk(Applied(map, tx), loc)
    BY DEF Covers
  <1>1. DOMAIN map \subseteq Chunks /\ DOMAIN Applied(map, tx) \subseteq Chunks
    BY AppliedWhole DEF WholeMap
  <1>2. PICK c \in DOMAIN map : Within(loc, c)
    BY <1>1, HasMined
  <1> DEFINE after == Applied(map, tx)
  <1>3. ASSUME NEW d \in DOMAIN after, Within(loc, d) PROVE HasMinedChunk(after, loc)
    <2> HIDE DEF after
    <2> QED
      BY <1>1, <1>3, HasMined DEF after
  <1>4. DOMAIN after = (DOMAIN map \ tx.delete) \cup {tx.put}
    BY AppliedDomain
  <1> HIDE DEF after
  <1>5. CASE c \notin tx.delete
    BY <1>2, <1>3, <1>4, <1>5 DEF after
  <1>6. CASE c \in tx.delete
    <2>1. Within(c, tx.put) /\ tx.put \in Footprints /\ c \in Footprints
      BY <1>6 DEF WholeTx, Chunks
    <2>2. Within(loc, tx.put)
      BY <1>2, <2>1, WithinTransitive
    <2> QED
      BY <1>3, <1>4, <2>2 DEF after
  <1> QED
    BY <1>5, <1>6

LEMMA AdditionFields ==
  ASSUME NEW map, NEW loc, NEW planets, NEW persist \in BOOLEAN
  PROVE  LET tx == Addition(map, loc, planets, persist) IN
         /\ tx.put = Grown(map, loc)
         /\ tx.delete = Merged(map, loc) \cup IF persist THEN MinedSubChunks(map, loc) ELSE {}
         /\ tx.planets = planets \cup UNION {map[s] : s \in Merged(map, loc)}
  BY DEF Addition

LEMMA AdditionWhole ==
  ASSUME NEW map, WholeMap(map), NEW loc \in Chunks, NEW persist \in BOOLEAN
  PROVE  WholeTx(Addition(map, loc, PlanetsOf(loc), persist))
  <1> DEFINE grown == Grown(map, loc)
             merged == Merged(map, loc)
             tx == Addition(map, loc, PlanetsOf(loc), persist)
  <1>1. DOMAIN map \subseteq Chunks /\ \A c \in DOMAIN map : map[c] = PlanetsOf(c)
    BY DEF WholeMap, Whole
  <1>2. GrewWell(DOMAIN map, loc, grown, merged)
    BY <1>1, Grew
  <1>3. /\ tx.put = grown
        /\ tx.delete = merged \cup IF persist THEN MinedSubChunks(map, loc) ELSE {}
        /\ tx.planets = PlanetsOf(loc) \cup UNION {map[s] : s \in merged}
    BY AdditionFields
  <1> HIDE DEF tx, grown, merged
  <1>4. tx.planets = PlanetsOf(grown)
    <2>1. \A s \in merged : map[s] = PlanetsOf(s)
      BY <1>1, <1>2 DEF GrewWell
    <2>2. UNION {map[s] : s \in merged} = UNION {PlanetsOf(s) : s \in merged}
      BY <2>1
    <2> QED
      BY <1>2, <1>3, <2>2 DEF GrewWell
  <1>5. ASSUME NEW d \in tx.delete PROVE Within(d, grown) /\ d \in Footprints
    <2>1. CASE d \in merged
      BY <1>1, <1>2, <2>1 DEF GrewWell, Chunks
    <2>2. CASE d \in MinedSubChunks(map, loc)
      <3>1. d \in Chunks /\ Within(d, loc)
        BY <1>1, <2>2 DEF MinedSubChunks
      <3>2. d \in Footprints /\ loc \in Footprints /\ grown \in Footprints /\ Within(loc, grown)
        BY <1>2, <3>1 DEF GrewWell, Chunks
      <3> QED
        BY <3>1, <3>2, WithinTransitive
    <2> QED
      BY <1>3, <1>5, <2>1, <2>2
  <1>6. WholeTx(tx)
    BY <1>2, <1>3, <1>4, <1>5 DEF WholeTx, GrewWell
  <1> QED
    BY <1>6 DEF tx

LEMMA MutualSiblings ==
  ASSUME NEW a \in Chunks, NEW b \in Chunks, a.side < MAX_CHUNK_SIZE, a \in Siblings(b),
         b.side < MAX_CHUNK_SIZE
  PROVE  /\ a.side = b.side /\ b \in Siblings(a)
         /\ Siblings(a) \subseteq Siblings(b) \cup {b}
  BY SiblingsAre

\* What was tidy is tidy after a chunk is added that was not in another.
LEMMA AppliedTidy ==
  ASSUME NEW map, WholeMap(map), Tidy(DOMAIN map), NEW loc \in Chunks,
         ~HasMinedChunk(map, loc), NEW planets
  PROVE  Tidy(DOMAIN Applied(map, Addition(map, loc, planets, TRUE)))
  <1> DEFINE grown == Grown(map, loc)
             merged == Merged(map, loc)
             tx == Addition(map, loc, planets, TRUE)
  <1>1. DOMAIN map \subseteq Chunks
    BY DEF WholeMap
  <1>2. GrewWell(DOMAIN map, loc, grown, merged)
    BY <1>1, Grew
  <1>3. tx.put = grown /\ tx.delete = merged \cup MinedSubChunks(map, loc)
    BY DEF Addition
  <1>4. DOMAIN Applied(map, tx) = (DOMAIN map \ tx.delete) \cup {tx.put}
    BY AppliedDomain
  <1> HIDE DEF tx, grown, merged
  <1> DEFINE rest == DOMAIN map \ tx.delete
  <1>5. grown \in Chunks /\ grown \in Footprints /\ loc \in Footprints /\ Within(loc, grown)
    BY <1>2 DEF GrewWell, Chunks
  <1>6. \A c \in DOMAIN map : ~Within(loc, c)
    BY <1>1, <1>5, HasMined
  <1>7. loc \notin DOMAIN map
    BY <1>6, WithinSelf
  <1>8. ASSUME NEW c \in rest PROVE ~Within(c, grown)
    <2>1. SUFFICES ASSUME Within(c, grown) PROVE FALSE
      OBVIOUS
    <2>2. Within(c, loc) \/ c \in merged
      BY <1>2, <1>6, <2>1 DEF GrewWell, Tidy
    <2>3. c # loc
      BY <1>7
    <2> QED
      BY <1>3, <2>2, <2>3 DEF MinedSubChunks
  <1>9. ASSUME NEW c \in rest PROVE ~Within(grown, c)
    <2>1. SUFFICES ASSUME Within(grown, c) PROVE FALSE
      OBVIOUS
    <2>2. Within(loc, c)
      BY <1>1, <1>5, <2>1, WithinTransitive DEF Chunks
    <2> QED
      BY <1>6, <2>2
  <1>10. Apart(rest \cup {grown})
    BY <1>8, <1>9 DEF Apart, Tidy
  <1>11. ASSUME NEW c \in rest, c.side < MAX_CHUNK_SIZE
         PROVE  ~(Siblings(c) \subseteq rest \cup {grown})
    <2>1. SUFFICES ASSUME Siblings(c) \subseteq rest \cup {grown} PROVE FALSE
      OBVIOUS
    <2>2. CASE grown \notin Siblings(c)
      BY <1>11, <2>1, <2>2 DEF Tidy
    <2>3. CASE grown \in Siblings(c)
      <3>1. c \in Chunks /\ grown.side = c.side
        BY <1>1, <1>11, <2>3, SiblingsAre
      <3>2. grown.side < MAX_CHUNK_SIZE
        BY <1>11, <3>1
      <3>3. Siblings(grown) \subseteq Siblings(c) \cup {c}
        BY <1>5, <1>11, <2>3, <3>1, <3>2, MutualSiblings
      <3>4. grown \notin Siblings(grown)
        BY DEF Siblings
      <3>5. Siblings(grown) \subseteq DOMAIN map
        BY <2>1, <3>3, <3>4
      <3> QED
        BY <1>2, <3>2, <3>5 DEF GrewWell
    <2> QED
      BY <2>2, <2>3
  <1>12. ~(grown.side < MAX_CHUNK_SIZE /\ Siblings(grown) \subseteq rest \cup {grown})
    <2>1. grown \notin Siblings(grown)
      BY DEF Siblings
    <2> QED
      BY <1>2, <2>1 DEF GrewWell
  <1>13. Tidy(rest \cup {grown})
    BY <1>10, <1>11, <1>12 DEF Tidy
  <1> QED
    BY <1>3, <1>4, <1>13 DEF tx

LEMMA TidyPart ==
  ASSUME NEW locs, Tidy(locs), NEW part, part \subseteq locs
  PROVE  Tidy(part)
  BY DEF Tidy, Apart

LEMMA EmptyTidy == Tidy({})
  BY DEF Tidy, Apart

\* Reading a chunk of a tidy map puts it beside the others as it is.
LEMMA AddedPart ==
  ASSUME NEW map, WholeMap(map), NEW locs, locs \subseteq Chunks, Tidy(locs),
         DOMAIN map \subseteq locs, NEW loc \in locs \ DOMAIN map
  PROVE  Added(map, loc, PlanetsOf(loc), FALSE) = Whole(DOMAIN map \cup {loc})
  <1>1. loc \in Chunks /\ loc \in Footprints
    BY DEF Chunks
  <1>2. ~HasMinedChunk(map, loc)
    <2>1. \A c \in DOMAIN map : ~Within(loc, c)
      BY DEF Tidy, Apart
    <2> QED
      BY <1>1, <2>1, HasMined DEF WholeMap
  <1>3. ~Completes(map, loc)
    BY DEF Tidy, Completes
  <1>4. Grown(map, loc) = loc /\ Merged(map, loc) = {}
    <2>1. (CHOOSE g : GrownBy(g, map))[loc] = loc
      BY <1>1, <1>3, GrownExists DEF GrownBy
    <2>2. (CHOOSE m : MergedBy(m, map))[loc] = {}
      BY <1>1, <1>3, MergedExists DEF MergedBy
    <2> QED
      BY <2>1, <2>2 DEF Grown, Merged, GrownBy, MergedBy, Up
  <1> DEFINE tx == Addition(map, loc, PlanetsOf(loc), FALSE)
  <1>5. tx.put = loc /\ tx.delete = {} /\ tx.planets = PlanetsOf(loc)
    BY <1>4 DEF Addition
  <1> HIDE DEF tx
  <1>6. Applied(map, tx) = [c \in DOMAIN map \cup {loc} |-> PlanetsOf(c)]
    <2>1. \A c \in DOMAIN map : map[c] = PlanetsOf(c)
      BY DEF WholeMap, Whole
    <2> QED
      BY <1>5, <2>1 DEF Applied
  <1> QED
    BY <1>2, <1>6 DEF Added, Whole, tx

-----------------------------------------------------------------------------
(* Transactions one after another. *)

Txs == {tx \in [delete : SUBSET Footprints, put : Chunks, planets : SUBSET Planets] :
           WholeTx(tx)}

Replays(g, map, txs) ==
    g = [i \in 0..Len(txs) |-> IF i = 0 THEN map ELSE Applied(g[i - 1], txs[i])]

LEMMA ReplaysExist ==
  ASSUME NEW map, NEW txs, Len(txs) \in Nat PROVE \E g : Replays(g, map, txs)
  <1> DEFINE n == Len(txs)
             Fits(g, i) == g[i] = IF i = 0 THEN map ELSE Applied(g[i - 1], txs[i])
             N == {k \in Nat : \E g : \A i \in 0..k : Fits(g, i)}
  <1>1. 0 \in N
    <2> DEFINE g == [i \in 0..0 |-> map]
    <2>1. \A i \in 0..0 : Fits(g, i)
      OBVIOUS
    <2> QED
      BY <2>1
  <1>2. ASSUME NEW k \in Nat, k \in N PROVE k + 1 \in N
    <2>1. PICK g : \A i \in 0..k : Fits(g, i)
      BY <1>2
    <2> DEFINE h == [i \in 0..(k + 1) |-> IF i = 0 THEN map ELSE Applied(g[i - 1], txs[i])]
    <2>2. \A i \in 0..k : h[i] = g[i]
      BY <2>1
    <2>3. ASSUME NEW i \in 0..(k + 1), i # 0 PROVE h[i - 1] = g[i - 1]
      <3>1. i - 1 \in 0..k
        BY <2>3
      <3> HIDE DEF h
      <3> QED
        BY <2>2, <3>1
    <2>4. \A i \in 0..(k + 1) : Fits(h, i)
      BY <2>3
    <2> HIDE DEF h, Fits
    <2> QED
      BY <2>4
  <1> HIDE DEF N
  <1>3. n \in N
    BY <1>1, <1>2, Counting
  <1>4. PICK g : \A i \in 0..n : Fits(g, i)
    BY <1>3 DEF N
  <1> DEFINE h == [i \in 0..n |-> IF i = 0 THEN map ELSE Applied(g[i - 1], txs[i])]
  <1>5. \A i \in 0..n : h[i] = g[i]
    BY <1>4
  <1>6. ASSUME NEW i \in 0..n, i # 0 PROVE h[i - 1] = g[i - 1]
    <2>1. i - 1 \in 0..n
      BY <1>6
    <2> HIDE DEF h
    <2> QED
      BY <1>5, <2>1
  <1>7. h = [i \in 0..n |-> IF i = 0 THEN map ELSE Applied(h[i - 1], txs[i])]
    BY <1>6
  <1> HIDE DEF h
  <1> QED
    BY <1>7 DEF Replays

LEMMA ReplayedIs ==
  ASSUME NEW map, NEW txs, Len(txs) \in Nat
  PROVE  \E g : Replays(g, map, txs) /\ Replayed(map, txs) = g[Len(txs)]
  <1> DEFINE g == CHOOSE g : Replays(g, map, txs)
  <1>1. Replays(g, map, txs)
    BY ReplaysExist
  <1>2. Replayed(map, txs) = g[Len(txs)]
    BY DEF Replayed, Replays
  <1> HIDE DEF g
  <1> QED
    BY <1>1, <1>2

LEMMA ReplaysAgree ==
  ASSUME NEW map, NEW txs, NEW more, Len(txs) \in Nat, Len(more) \in Nat,
         Len(txs) <= Len(more), \A i \in 1..Len(txs) : txs[i] = more[i],
         NEW g, Replays(g, map, txs), NEW h, Replays(h, map, more)
  PROVE  \A i \in 0..Len(txs) : g[i] = h[i]
  <1> DEFINE N == {k \in Nat : k <= Len(txs) => g[k] = h[k]}
  <1>1. 0 \in N
    BY DEF Replays
  <1>2. ASSUME NEW k \in Nat, k \in N PROVE k + 1 \in N
    <2>1. CASE k + 1 <= Len(txs)
      <3>1. k + 1 \in 0..Len(txs) /\ k + 1 \in 0..Len(more) /\ k + 1 # 0 /\ (k + 1) - 1 = k
        BY <2>1
      <3>2. g[k + 1] = Applied(g[k], txs[k + 1])
        BY <3>1 DEF Replays
      <3>3. h[k + 1] = Applied(h[k], more[k + 1])
        BY <3>1 DEF Replays
      <3>4. g[k] = h[k] /\ txs[k + 1] = more[k + 1]
        BY <1>2, <2>1, <3>1
      <3> QED
        BY <3>2, <3>3, <3>4
    <2> QED
      BY <2>1
  <1> HIDE DEF N
  <1>3. \A k \in Nat : k \in N
    BY <1>1, <1>2, Counting
  <1> QED
    BY <1>3 DEF N

LEMMA ReplayedNone == ASSUME NEW map PROVE Replayed(map, <<>>) = map
  <1>1. Len(<<>>) = 0
    OBVIOUS
  <1>2. PICK g : Replays(g, map, <<>>) /\ Replayed(map, <<>>) = g[0]
    BY <1>1, ReplayedIs
  <1> QED
    BY <1>1, <1>2 DEF Replays

LEMMA ReplayedAppend ==
  ASSUME NEW map, NEW S, NEW txs \in Seq(S), NEW tx \in S
  PROVE  Replayed(map, Append(txs, tx)) = Applied(Replayed(map, txs), tx)
  <1> DEFINE more == Append(txs, tx)
             n == Len(txs)
  <1>1. /\ n \in Nat /\ Len(more) = n + 1 /\ more[n + 1] = tx
        /\ \A i \in 1..n : more[i] = txs[i]
    OBVIOUS
  <1> HIDE DEF more, n
  <1>2. PICK g : Replays(g, map, txs) /\ Replayed(map, txs) = g[n]
    BY <1>1, ReplayedIs DEF n
  <1>3. PICK h : Replays(h, map, more) /\ Replayed(map, more) = h[n + 1]
    BY <1>1, ReplayedIs
  <1>4. g[n] = h[n]
    <2>1. n = Len(txs) /\ Len(txs) \in Nat /\ Len(txs) <= Len(more) /\ Len(more) \in Nat
      BY <1>1 DEF n
    <2>2. \A i \in 1..Len(txs) : txs[i] = more[i]
      BY <1>1, <2>1
    <2>3. Replays(g, map, txs) /\ Replays(h, map, more)
      BY <1>2, <1>3
    <2> HIDE <1>1, <1>2, <1>3
    <2>4. \A i \in 0..Len(txs) : g[i] = h[i]
      BY <2>1, <2>2, <2>3, ReplaysAgree
    <2> QED
      BY <1>1, <2>1, <2>4
  <1>5. h[n + 1] = Applied(h[n], tx)
    <2>1. n + 1 \in 0..Len(more) /\ n + 1 # 0 /\ (n + 1) - 1 = n
      BY <1>1
    <2> QED
      BY <1>1, <1>3, <2>1 DEF Replays
  <1> QED
    BY <1>2, <1>3, <1>4, <1>5 DEF more

LEMMA CoversTransitive ==
  ASSUME NEW a, NEW b, NEW c, Covers(a, b), Covers(b, c) PROVE Covers(a, c)
  BY DEF Covers

\* Whole transactions leave a whole map, and lose nothing that it covered.
LEMMA ReplayedWhole ==
  ASSUME NEW map, WholeMap(map), NEW txs \in Seq(Txs)
  PROVE  WholeMap(Replayed(map, txs)) /\ Covers(map, Replayed(map, txs))
  <1> DEFINE n == Len(txs)
  <1>1. n \in Nat /\ \A i \in 1..n : txs[i] \in Txs
    OBVIOUS
  <1>2. PICK g : Replays(g, map, txs) /\ Replayed(map, txs) = g[n]
    BY <1>1, ReplayedIs
  <1> DEFINE N == {k \in Nat : k <= n => WholeMap(g[k]) /\ Covers(map, g[k])}
  <1> HIDE DEF n
  <1>3. 0 \in N
    <2>1. g[0] = map
      BY <1>1, <1>2 DEF Replays, n
    <2> QED
      BY <2>1 DEF Covers
  <1>4. ASSUME NEW k \in Nat, k \in N PROVE k + 1 \in N
    <2>1. CASE k + 1 <= n
      <3>1. k + 1 \in 0..Len(txs) /\ k + 1 # 0 /\ (k + 1) - 1 = k /\ k <= n /\ k + 1 \in 1..n
        BY <1>1, <2>1 DEF n
      <3>2. g[k + 1] = Applied(g[k], txs[k + 1])
        BY <1>2, <3>1 DEF Replays
      <3>3. WholeTx(txs[k + 1])
        BY <1>1, <3>1 DEF Txs
      <3>4. WholeMap(g[k]) /\ Covers(map, g[k])
        BY <1>4, <3>1
      <3>5. WholeMap(g[k + 1]) /\ Covers(g[k], g[k + 1])
        BY <3>2, <3>3, <3>4, AppliedWhole, AppliedCovers
      <3> QED
        BY <3>4, <3>5, CoversTransitive
    <2> QED
      BY <2>1
  <1> HIDE DEF N
  <1>5. n \in N
    BY <1>1, <1>3, <1>4, Counting
  <1> QED
    BY <1>1, <1>2, <1>5 DEF N

LEMMA AdditionTx ==
  ASSUME NEW map, WholeMap(map), NEW loc \in Chunks, NEW persist \in BOOLEAN
  PROVE  Addition(map, loc, PlanetsOf(loc), persist) \in Txs
  <1> DEFINE tx == Addition(map, loc, PlanetsOf(loc), persist)
  <1>1. WholeTx(tx)
    BY AdditionWhole
  <1>2. tx = [delete |-> tx.delete, put |-> tx.put, planets |-> tx.planets]
    BY DEF Addition
  <1> HIDE DEF tx
  <1>3. tx.put \in Chunks /\ tx.delete \subseteq Footprints /\ tx.planets \subseteq Planets
    BY <1>1 DEF WholeTx, PlanetsOf
  <1>4. tx \in [delete : SUBSET Footprints, put : Chunks, planets : SUBSET Planets]
    BY <1>2, <1>3
  <1> QED
    BY <1>1, <1>4 DEF Txs, tx

-----------------------------------------------------------------------------
(* The store is whole. *)

StoreInv ==
    /\ WholeMap(chunkMap) /\ WholeMap(board)
    /\ loading \subseteq DOMAIN board
    /\ loading # {} => saving = <<>> /\ queuedChunkWrites = <<>>
    /\ queuedChunkWrites \in Seq(Txs)
    /\ saving \in Seq(Seq(Txs) \ {<<>>})
    /\ throttle \in {"idle", "open", "armed", "trailing"}
    /\ throttle = "armed" => queuedChunkWrites # <<>>
    /\ nUpdatesLastTwoMins \in Nat
    /\ failures \in Nat

LEMMA PersistSeq ==
  ASSUME saving \in Seq(Seq(Txs) \ {<<>>}), NEW queue \in Seq(Txs), queue # <<>>,
         PersistQueuedChunks(queue)
  PROVE  saving' \in Seq(Seq(Txs) \ {<<>>}) /\ queuedChunkWrites' = <<>>
         /\ queuedChunkWrites' \in Seq(Txs)
  BY DEF PersistQueuedChunks

LEMMA WholeEmpty == WholeMap(Whole({})) /\ DOMAIN Whole({}) = {}
  BY DEF WholeMap, Whole

LEMMA AddedWhole ==
  ASSUME NEW map, WholeMap(map), NEW loc \in Chunks, NEW persist \in BOOLEAN
  PROVE  WholeMap(Added(map, loc, PlanetsOf(loc), persist))
  <1>1. CASE HasMinedChunk(map, loc)
    BY <1>1 DEF Added
  <1>2. CASE ~HasMinedChunk(map, loc)
    BY <1>2, AdditionWhole, AppliedWhole DEF Added
  <1> QED
    BY <1>1, <1>2

LEMMA AppendSeq ==
  ASSUME NEW S, NEW s \in Seq(S), NEW e \in S
  PROVE  Append(s, e) \in Seq(S) /\ Append(s, e) # <<>>
  <1>1. Append(s, e) \in Seq(S) /\ Len(Append(s, e)) = Len(s) + 1 /\ Len(s) \in Nat
    OBVIOUS
  <1>2. Len(<<>>) = 0
    OBVIOUS
  <1>3. Append(s, e) # <<>>
    BY <1>1, <1>2
  <1> QED
    BY <1>1, <1>3

LEMMA AddWhole ==
  ASSUME StoreInv, NEW loc \in Chunks, AddChunk(loc, PlanetsOf(loc))
  PROVE  StoreInv'
  <1>1. CASE UNCHANGED storeVars
    BY <1>1 DEF StoreInv, storeVars, WholeMap, Whole
  <1>2. CASE ~HasMinedChunk(chunkMap, loc)
    <2> DEFINE tx == Addition(chunkMap, loc, PlanetsOf(loc), TRUE)
               queue == Append(queuedChunkWrites, tx)
               state == RecomputedAfterUpdate(nUpdatesLastTwoMins + 1)
    <2>1. /\ chunkMap' = Applied(chunkMap, tx)
          /\ nUpdatesLastTwoMins' = nUpdatesLastTwoMins + 1
          /\ ThrottledSave(state, queue)
          /\ UNCHANGED <<board, loading, reloads, failures>>
      BY <1>2 DEF AddChunk
    <2>2. tx \in Txs /\ WholeTx(tx)
      BY AdditionTx DEF StoreInv, Txs
    <2> HIDE DEF tx, state
    <2>3. queue \in Seq(Txs) /\ queue # <<>>
      <3>1. queuedChunkWrites \in Seq(Txs)
        BY DEF StoreInv
      <3> QED
        BY <2>2, <3>1, AppendSeq
    <2> HIDE DEF queue
    <2>4. WholeMap(chunkMap')
      BY <2>1, <2>2, AppliedWhole DEF StoreInv
    <2>5. /\ queuedChunkWrites' \in Seq(Txs)
          /\ saving' \in Seq(Seq(Txs) \ {<<>>})
          /\ throttle' \in {"idle", "open", "armed", "trailing"}
          /\ throttle' = "armed" => queuedChunkWrites' # <<>>
      BY <2>1, <2>3, PersistSeq DEF ThrottledSave, StoreInv
    <2>6. WholeMap(board)' /\ loading' = {} /\ failures' \in Nat
          /\ nUpdatesLastTwoMins' \in Nat
      BY <2>1 DEF AddChunk, StoreInv, WholeMap, Whole
    <2> QED
      BY <2>4, <2>5, <2>6 DEF StoreInv, WholeMap, Whole
  <1> QED
    BY <1>1, <1>2 DEF AddChunk

\* The steps of the store that do not add a chunk.
StoreStill ==
    \/ Forget
    \/ ThrottleTimer
    \/ SaveDone
    \/ SaveFails
    \/ Reload
    \/ \E loc \in loading : LoadChunk(loc)
    \/ UNCHANGED storeVars

LEMMA HeadTail ==
  ASSUME NEW S, NEW batches \in Seq(S), batches # <<>>
  PROVE  /\ Head(batches) \in S /\ Tail(batches) \in Seq(S)
         /\ Head(batches) = batches[1] /\ Len(batches) \in Nat /\ Len(batches) # 0
         /\ Len(Tail(batches)) = Len(batches) - 1
         /\ \A i \in 1..(Len(batches) - 1) : Tail(batches)[i] = batches[i + 1]
  OBVIOUS

LEMMA StillWhole ==
  ASSUME StoreInv, StoreStill PROVE StoreInv'
  <1>1. CASE Forget
    BY <1>1 DEF Forget, StoreInv, WholeMap, Whole
  <1>2. CASE ThrottleTimer
    <2>1. /\ UNCHANGED <<chunkMap, board, loading, nUpdatesLastTwoMins, reloads, failures>>
          /\ \/ throttle' = "idle" /\ UNCHANGED <<queuedChunkWrites, saving>>
             \/ /\ throttle = "armed" /\ throttle' = "trailing"
                /\ PersistQueuedChunks(queuedChunkWrites)
      BY <1>2 DEF ThrottleTimer
    <2>2. queuedChunkWrites' \in Seq(Txs) /\ saving' \in Seq(Seq(Txs) \ {<<>>})
      BY <2>1, PersistSeq DEF StoreInv
    <2> QED
      BY <2>1, <2>2 DEF StoreInv, WholeMap, Whole
  <1>3. CASE SaveDone
    <2>1. saving # <<>> /\ board' = Replayed(board, Head(saving)) /\ saving' = Tail(saving)
          /\ UNCHANGED <<chunkMap, loading, queuedChunkWrites, throttle,
                         nUpdatesLastTwoMins, failures>>
      BY <1>3 DEF SaveDone
    <2>2. Head(saving) \in Seq(Txs) /\ saving' \in Seq(Seq(Txs) \ {<<>>})
      BY <2>1, HeadTail DEF StoreInv
    <2>3. WholeMap(board')
      BY <2>1, <2>2, ReplayedWhole DEF StoreInv
    <2> QED
      BY <2>1, <2>2, <2>3 DEF StoreInv, WholeMap, Whole
  <1>4. CASE SaveFails
    <2>1. saving # <<>> /\ saving' = Tail(saving) /\ failures' = failures + 1
          /\ UNCHANGED <<chunkMap, board, loading, queuedChunkWrites, throttle,
                         nUpdatesLastTwoMins>>
      BY <1>4 DEF SaveFails
    <2>2. saving' \in Seq(Seq(Txs) \ {<<>>})
      BY <2>1, HeadTail DEF StoreInv
    <2> QED
      BY <2>1, <2>2 DEF StoreInv, WholeMap, Whole
  <1>5. CASE Reload
    BY <1>5, WholeEmpty DEF Reload, StoreInv, WholeMap, Whole
  <1>6. ASSUME NEW loc \in loading, LoadChunk(loc) PROVE StoreInv'
    <2>1. loc \in Chunks /\ board[loc] = PlanetsOf(loc)
      BY <1>6 DEF StoreInv, WholeMap, Whole
    <2>2. chunkMap' = Added(chunkMap, loc, PlanetsOf(loc), FALSE) /\ loading' \subseteq loading
          /\ UNCHANGED <<board, queuedChunkWrites, saving, throttle,
                         nUpdatesLastTwoMins, failures>>
      BY <1>6, <2>1 DEF LoadChunk
    <2>3. WholeMap(chunkMap')
      BY <2>1, <2>2, AddedWhole DEF StoreInv
    <2> QED
      BY <2>2, <2>3 DEF StoreInv, WholeMap, Whole
  <1>7. CASE UNCHANGED storeVars
    BY <1>7 DEF StoreInv, storeVars, WholeMap, Whole
  <1> QED
    BY <1>1, <1>2, <1>3, <1>4, <1>5, <1>6, <1>7 DEF StoreStill

\* What was on disk stays there, in a chunk of its own or a larger one.
LEMMA BoardCovered ==
  ASSUME StoreInv,
         StoreStill \/ \E loc \in Chunks : AddChunk(loc, PlanetsOf(loc))
  PROVE  Covers(board, board')
  <1>1. CASE board' = board
    BY <1>1 DEF Covers
  <1>2. CASE SaveDone
    <2>1. saving # <<>> /\ board' = Replayed(board, Head(saving))
      BY <1>2 DEF SaveDone
    <2>2. Head(saving) \in Seq(Txs)
      BY <2>1, HeadTail DEF StoreInv
    <2> QED
      BY <2>1, <2>2, ReplayedWhole DEF StoreInv
  <1>3. SaveDone \/ board' = board
    BY DEF StoreStill, Forget, ThrottleTimer, SaveFails, Reload, LoadChunk, storeVars, AddChunk
  <1> QED
    BY <1>1, <1>2, <1>3

-----------------------------------------------------------------------------
(* As long as no save has failed, the disk will be what memory is. *)

\* The maps that the disk will go through as the batches are written.
Path(h, map, batches) ==
    /\ h[0] = map
    /\ \A n \in 1..Len(batches) : h[n] = Replayed(h[n - 1], batches[n])
    /\ \A n \in 0..Len(batches) : Tidy(DOMAIN h[n])

Arrives(h) ==
    IF loading = {}
    THEN Replayed(h[Len(saving)], queuedChunkWrites) = chunkMap
    ELSE /\ saving = <<>> /\ queuedChunkWrites = <<>>
         /\ chunkMap = Whole(DOMAIN board \ loading)

Told ==
    failures = 0 =>
        /\ Tidy(DOMAIN chunkMap)
        /\ \E h : Path(h, board, saving) /\ Arrives(h)

LEMMA PathNone ==
  ASSUME NEW map, Tidy(DOMAIN map) PROVE \E h : Path(h, map, <<>>) /\ h[0] = map
  <1> DEFINE h == [n \in 0..0 |-> map]
  <1>1. Len(<<>>) = 0 /\ h[0] = map
    OBVIOUS
  <1>2. Path(h, map, <<>>)
    BY <1>1 DEF Path
  <1> QED
    BY <1>1, <1>2

LEMMA PathAppend ==
  ASSUME NEW map, NEW S, NEW batches \in Seq(S), NEW batch \in S,
         NEW h, Path(h, map, batches), Tidy(DOMAIN Replayed(h[Len(batches)], batch))
  PROVE  \E k : /\ Path(k, map, Append(batches, batch))
                /\ k[Len(Append(batches, batch))] = Replayed(h[Len(batches)], batch)
  <1> DEFINE more == Append(batches, batch)
             l == Len(batches)
             last == Replayed(h[l], batch)
             k == [n \in 0..(l + 1) |-> IF n = l + 1 THEN last ELSE h[n]]
  <1>1. /\ l \in Nat /\ Len(more) = l + 1 /\ more[l + 1] = batch
        /\ \A n \in 1..l : more[n] = batches[n]
    OBVIOUS
  <1>2. /\ h[0] = map /\ \A n \in 1..l : h[n] = Replayed(h[n - 1], batches[n])
        /\ \A n \in 0..l : Tidy(DOMAIN h[n])
    BY DEF Path
  <1>3. Tidy(DOMAIN last)
    OBVIOUS
  <1> HIDE DEF more, l, last
  <1>4. k[l + 1] = last /\ \A n \in 0..l : k[n] = h[n]
    BY <1>1
  <1> HIDE DEF k
  <1>5. k[0] = map
    BY <1>1, <1>2, <1>4
  <1>6. ASSUME NEW n \in 1..Len(more) PROVE k[n] = Replayed(k[n - 1], more[n])
    <2>1. CASE n = l + 1
      <3>1. n - 1 = l /\ l \in 0..l
        BY <1>1, <2>1
      <3>2. k[n - 1] = h[l]
        BY <1>4, <3>1
      <3> QED
        BY <1>1, <1>4, <2>1, <3>2 DEF last
    <2>2. CASE n # l + 1
      <3>1. n \in 1..l /\ n \in 0..l /\ n - 1 \in 0..l
        BY <1>1, <2>2
      <3>2. k[n] = h[n] /\ k[n - 1] = h[n - 1] /\ more[n] = batches[n]
        BY <1>1, <1>4, <3>1
      <3> QED
        BY <1>2, <3>1, <3>2
    <2> QED
      BY <2>1, <2>2
  <1>7. ASSUME NEW n \in 0..Len(more) PROVE Tidy(DOMAIN k[n])
    <2>1. n = l + 1 \/ n \in 0..l
      BY <1>1
    <2> QED
      BY <1>2, <1>3, <1>4, <2>1
  <1>8. Path(k, map, more)
    BY <1>5, <1>6, <1>7 DEF Path
  <1> QED
    BY <1>1, <1>4, <1>8 DEF more, last, l

LEMMA PathTail ==
  ASSUME NEW map, NEW S, NEW batches \in Seq(S), batches # <<>>, NEW h, Path(h, map, batches)
  PROVE  \E k : /\ Path(k, Replayed(map, Head(batches)), Tail(batches))
                /\ k[Len(Tail(batches))] = h[Len(batches)]
  <1> DEFINE l == Len(batches)
             rest == Tail(batches)
             k == [n \in 0..(l - 1) |-> h[n + 1]]
  <1>1. /\ Head(batches) = batches[1] /\ l \in Nat /\ l # 0
        /\ Len(rest) = l - 1 /\ \A i \in 1..(l - 1) : rest[i] = batches[i + 1]
    BY HeadTail
  <1>2. /\ h[0] = map /\ \A n \in 1..l : h[n] = Replayed(h[n - 1], batches[n])
        /\ \A n \in 0..l : Tidy(DOMAIN h[n])
    BY DEF Path
  <1> HIDE DEF rest, l
  <1>3. \A n \in 0..(l - 1) : k[n] = h[n + 1]
    OBVIOUS
  <1> HIDE DEF k
  <1>4. k[0] = Replayed(map, Head(batches))
    <2>1. 0 \in 0..(l - 1) /\ 1 \in 1..l /\ 1 - 1 = 0 /\ 0 + 1 = 1
      BY <1>1
    <2>2. k[0] = h[1]
      BY <1>3, <2>1
    <2>3. h[1] = Replayed(h[0], batches[1])
      BY <1>2, <2>1
    <2> QED
      BY <1>1, <1>2, <2>2, <2>3
  <1>5. ASSUME NEW n \in 1..Len(rest) PROVE k[n] = Replayed(k[n - 1], rest[n])
    <2>1. /\ n \in 0..(l - 1) /\ n - 1 \in 0..(l - 1) /\ n \in 1..(l - 1) /\ (n - 1) + 1 = n
          /\ n + 1 \in 1..l /\ (n + 1) - 1 = n
      BY <1>1
    <2>2. k[n] = h[n + 1] /\ k[n - 1] = h[n] /\ rest[n] = batches[n + 1]
      <3>1. k[n - 1] = h[(n - 1) + 1]
        BY <1>3, <2>1
      <3> QED
        BY <1>1, <1>3, <2>1, <3>1
    <2>3. h[n + 1] = Replayed(h[(n + 1) - 1], batches[n + 1])
      BY <1>2, <2>1
    <2> QED
      BY <2>1, <2>2, <2>3
  <1>6. ASSUME NEW n \in 0..Len(rest) PROVE Tidy(DOMAIN k[n])
    <2>1. n \in 0..(l - 1) /\ n + 1 \in 0..l
      BY <1>1
    <2> QED
      BY <1>2, <1>3, <2>1
  <1>7. Path(k, Replayed(map, Head(batches)), rest)
    BY <1>4, <1>5, <1>6 DEF Path
  <1>8. k[Len(rest)] = h[l]
    <2>1. l - 1 \in 0..(l - 1) /\ (l - 1) + 1 = l
      BY <1>1
    <2>2. k[l - 1] = h[(l - 1) + 1]
      BY <1>3, <2>1
    <2> QED
      BY <1>1, <2>1, <2>2
  <1> QED
    BY <1>7, <1>8 DEF rest, l

LEMMA AddTold ==
  ASSUME StoreInv, Told, NEW loc \in Chunks, AddChunk(loc, PlanetsOf(loc))
  PROVE  Told'
  <1> SUFFICES ASSUME failures' = 0
               PROVE  Tidy(DOMAIN chunkMap') /\ \E h : Path(h, board', saving') /\ Arrives(h)'
    BY DEF Told
  <1>1. failures = 0
    BY DEF AddChunk, storeVars
  <1>2. PICK h : Path(h, board, saving) /\ Arrives(h)
    BY <1>1 DEF Told
  <1>3. Tidy(DOMAIN chunkMap)
    BY <1>1 DEF Told
  <1>4. CASE UNCHANGED storeVars
    <2>1. Arrives(h)'
      BY <1>2, <1>4 DEF Arrives, storeVars, Whole
    <2> QED
      BY <1>2, <1>3, <1>4, <2>1 DEF storeVars
  <1>5. CASE ~HasMinedChunk(chunkMap, loc)
    <2> DEFINE tx == Addition(chunkMap, loc, PlanetsOf(loc), TRUE)
               queue == Append(queuedChunkWrites, tx)
               state == RecomputedAfterUpdate(nUpdatesLastTwoMins + 1)
    <2>1. /\ chunkMap' = Applied(chunkMap, tx) /\ loading = {} /\ loading' = {}
          /\ board' = board
          /\ ThrottledSave(state, queue)
      BY <1>5 DEF AddChunk
    <2>2. Tidy(DOMAIN chunkMap')
      BY <1>3, <1>5, <2>1, AppliedTidy DEF StoreInv
    <2>3. tx \in Txs
      BY AdditionTx DEF StoreInv
    <2>4. queuedChunkWrites \in Seq(Txs) /\ saving \in Seq(Seq(Txs) \ {<<>>})
      BY DEF StoreInv
    <2>5. Replayed(h[Len(saving)], queue) = chunkMap'
      <3>1. Replayed(h[Len(saving)], queuedChunkWrites) = chunkMap
        BY <1>2, <2>1 DEF Arrives
      <3> HIDE DEF tx
      <3> QED
        BY <2>1, <2>3, <2>4, <3>1, ReplayedAppend
    <2> HIDE DEF tx, state
    <2>6. queue \in Seq(Txs) /\ queue # <<>>
      BY <2>3, <2>4, AppendSeq
    <2> HIDE DEF queue
    <2>7. CASE PersistQueuedChunks(queue)
      <3>1. saving' = Append(saving, queue) /\ queuedChunkWrites' = <<>>
        BY <2>7 DEF PersistQueuedChunks
      <3>2. PICK k : /\ Path(k, board, Append(saving, queue))
                     /\ k[Len(Append(saving, queue))] = Replayed(h[Len(saving)], queue)
        BY <1>2, <2>2, <2>4, <2>5, <2>6, PathAppend
      <3>3. Replayed(k[Len(saving')], queuedChunkWrites') = chunkMap'
        BY <2>5, <3>1, <3>2, ReplayedNone
      <3> QED
        BY <2>1, <2>2, <3>1, <3>2, <3>3 DEF Arrives
    <2>8. CASE queuedChunkWrites' = queue /\ UNCHANGED saving
      BY <1>2, <2>1, <2>2, <2>5, <2>8 DEF Arrives
    <2> QED
      BY <2>1, <2>7, <2>8 DEF ThrottledSave
  <1> QED
    BY <1>4, <1>5 DEF AddChunk

LEMMA TimerTold ==
  ASSUME StoreInv, Told, ThrottleTimer PROVE Told'
  <1> SUFFICES ASSUME failures' = 0
               PROVE  Tidy(DOMAIN chunkMap') /\ \E h : Path(h, board', saving') /\ Arrives(h)'
    BY DEF Told
  <1>1. failures = 0 /\ UNCHANGED <<chunkMap, board, loading>>
    BY DEF ThrottleTimer
  <1>2. PICK h : Path(h, board, saving) /\ Arrives(h)
    BY <1>1 DEF Told
  <1>3. Tidy(DOMAIN chunkMap')
    BY <1>1 DEF Told
  <1>4. CASE UNCHANGED <<queuedChunkWrites, saving>>
    BY <1>1, <1>2, <1>3, <1>4 DEF Arrives, Whole
  <1>5. CASE throttle = "armed" /\ PersistQueuedChunks(queuedChunkWrites)
    <2>1. saving' = Append(saving, queuedChunkWrites) /\ queuedChunkWrites' = <<>>
      BY <1>5 DEF PersistQueuedChunks
    <2>2. /\ queuedChunkWrites \in Seq(Txs) \ {<<>>} /\ saving \in Seq(Seq(Txs) \ {<<>>})
          /\ loading = {}
      BY <1>5 DEF StoreInv
    <2>3. Replayed(h[Len(saving)], queuedChunkWrites) = chunkMap
      BY <1>2, <2>2 DEF Arrives
    <2>4. Tidy(DOMAIN chunkMap)
      BY <1>1 DEF Told
    <2>5. PICK k : /\ Path(k, board, Append(saving, queuedChunkWrites))
                   /\ k[Len(Append(saving, queuedChunkWrites))] = chunkMap
      BY <1>2, <2>2, <2>3, <2>4, PathAppend
    <2>6. Replayed(k[Len(saving')], queuedChunkWrites') = chunkMap'
      BY <1>1, <2>1, <2>5, ReplayedNone
    <2> QED
      BY <1>1, <1>3, <2>1, <2>2, <2>5, <2>6 DEF Arrives
  <1> QED
    BY <1>4, <1>5 DEF ThrottleTimer

LEMMA DoneTold ==
  ASSUME StoreInv, Told, SaveDone PROVE Told'
  <1> SUFFICES ASSUME failures' = 0
               PROVE  Tidy(DOMAIN chunkMap') /\ \E h : Path(h, board', saving') /\ Arrives(h)'
    BY DEF Told
  <1>1. /\ failures = 0 /\ UNCHANGED <<chunkMap, loading, queuedChunkWrites>>
        /\ saving # <<>> /\ board' = Replayed(board, Head(saving)) /\ saving' = Tail(saving)
    BY DEF SaveDone
  <1>2. PICK h : Path(h, board, saving) /\ Arrives(h)
    BY <1>1 DEF Told
  <1>3. Tidy(DOMAIN chunkMap')
    BY <1>1 DEF Told
  <1>4. saving \in Seq(Seq(Txs) \ {<<>>}) /\ loading = {}
    BY <1>1 DEF StoreInv
  <1>5. PICK k : Path(k, board', saving') /\ k[Len(saving')] = h[Len(saving)]
    BY <1>1, <1>2, <1>4, PathTail
  <1>6. Replayed(k[Len(saving')], queuedChunkWrites') = chunkMap'
    BY <1>1, <1>2, <1>4, <1>5 DEF Arrives
  <1> QED
    BY <1>1, <1>3, <1>4, <1>5, <1>6 DEF Arrives

LEMMA ReloadTold ==
  ASSUME StoreInv, Told, Reload PROVE Told'
  <1> SUFFICES ASSUME failures' = 0
               PROVE  Tidy(DOMAIN chunkMap') /\ \E h : Path(h, board', saving') /\ Arrives(h)'
    BY DEF Told
  <1>1. /\ failures = 0 /\ chunkMap' = Whole({}) /\ loading' = DOMAIN board
        /\ queuedChunkWrites' = <<>> /\ saving' = <<>> /\ board' = board
    BY DEF Reload
  <1>2. PICK h : Path(h, board, saving) /\ Arrives(h)
    BY <1>1 DEF Told
  <1>3. Tidy(DOMAIN board)
    <2>1. h[0] = board /\ 0 \in 0..Len(saving)
      BY <1>2 DEF Path, StoreInv
    <2> QED
      BY <1>2, <2>1 DEF Path
  <1>4. Tidy(DOMAIN chunkMap')
    BY <1>1, WholeEmpty, EmptyTidy
  <1>5. PICK k : Path(k, board, <<>>) /\ k[0] = board
    BY <1>3, PathNone
  <1>6. Arrives(k)'
    <2>1. board = Whole(DOMAIN board)
      BY DEF StoreInv, WholeMap
    <2>2. Replayed(k[Len(saving')], queuedChunkWrites') = board
      <3>1. Len(saving') = 0
        BY <1>1
      <3> QED
        BY <1>1, <1>5, <3>1, ReplayedNone
    <2>3. DOMAIN board' \ loading' = {}
      BY <1>1
    <2>4. DOMAIN board = {} => board = chunkMap'
      BY <1>1, <2>1
    <2>5. chunkMap' = Whole(DOMAIN board' \ loading')
      BY <1>1, <2>3
    <2> QED
      BY <1>1, <2>2, <2>4, <2>5 DEF Arrives, Whole
  <1> QED
    BY <1>1, <1>4, <1>5, <1>6

LEMMA LoadTold ==
  ASSUME StoreInv, Told, NEW loc \in loading, LoadChunk(loc) PROVE Told'
  <1> SUFFICES ASSUME failures' = 0
               PROVE  Tidy(DOMAIN chunkMap') /\ \E h : Path(h, board', saving') /\ Arrives(h)'
    BY DEF Told
  <1>1. /\ failures = 0 /\ loading' = loading \ {loc}
        /\ chunkMap' = Added(chunkMap, loc, board[loc], FALSE)
        /\ UNCHANGED <<board, queuedChunkWrites, saving>>
    BY DEF LoadChunk
  <1>2. PICK h : Path(h, board, saving) /\ Arrives(h)
    BY <1>1 DEF Told
  <1>3. /\ saving = <<>> /\ queuedChunkWrites = <<>>
        /\ chunkMap = Whole(DOMAIN board \ loading)
    BY <1>2 DEF Arrives
  <1>4. /\ loc \in DOMAIN board /\ board[loc] = PlanetsOf(loc) /\ DOMAIN board \subseteq Chunks
        /\ WholeMap(chunkMap) /\ loading \subseteq DOMAIN board /\ board = Whole(DOMAIN board)
    BY DEF StoreInv, WholeMap, Whole
  <1>5. DOMAIN chunkMap = DOMAIN board \ loading
    BY <1>3 DEF Whole
  <1>6. h[0] = board /\ Tidy(DOMAIN board) /\ Len(saving) = 0
    <2>1. Len(saving) = 0 /\ 0 \in 0..Len(saving)
      BY <1>3
    <2> QED
      BY <1>2, <2>1 DEF Path
  <1>7. chunkMap' = Whole((DOMAIN board \ loading) \cup {loc})
    BY <1>1, <1>4, <1>5, <1>6, AddedPart
  <1>8. (DOMAIN board \ loading) \cup {loc} = DOMAIN board \ (loading \ {loc})
    BY <1>4
  <1>9. chunkMap' = Whole(DOMAIN board \ (loading \ {loc}))
    BY <1>7, <1>8
  <1>10. Tidy(DOMAIN chunkMap')
    <2>1. DOMAIN chunkMap' = DOMAIN board \ (loading \ {loc})
      BY <1>9 DEF Whole
    <2> QED
      BY <1>6, <2>1, TidyPart
  <1>11. Arrives(h)'
    <2>1. loading' = {} => chunkMap' = board
      <3>1. loading' = {} => DOMAIN board \ (loading \ {loc}) = DOMAIN board
        BY <1>1
      <3> QED
        BY <1>4, <1>9, <3>1
    <2>2. Replayed(h[Len(saving)], queuedChunkWrites) = board
      BY <1>3, <1>6, ReplayedNone
    <2>3. loading' # {} => chunkMap' = Whole(DOMAIN board' \ loading')
      BY <1>1, <1>9
    <2>4. saving' = <<>> /\ queuedChunkWrites' = <<>>
      BY <1>1, <1>3
    <2> QED
      BY <1>1, <2>1, <2>2, <2>3, <2>4 DEF Arrives, Whole
  <1> QED
    BY <1>1, <1>2, <1>10, <1>11

LEMMA StillTold ==
  ASSUME StoreInv, Told, StoreStill PROVE Told'
  <1>1. CASE Forget \/ UNCHANGED storeVars
    <2>1. UNCHANGED <<chunkMap, board, loading, queuedChunkWrites, saving, failures>>
      BY <1>1 DEF Forget, storeVars
    <2> QED
      BY <2>1 DEF Told, Arrives, Whole
  <1>2. CASE SaveFails
    <2>1. failures' # 0
      BY <1>2 DEF SaveFails, StoreInv
    <2> QED
      BY <2>1 DEF Told
  <1> QED
    BY <1>1, <1>2, TimerTold, DoneTold, ReloadTold, LoadTold DEF StoreStill

-----------------------------------------------------------------------------
(* A search stays in the region, and the slices of a chunk are all of it. *)

LEMMA RegionChunks ==
  /\ Region \subseteq Chunks
  /\ Home \in Region
  <1>1. Home.x \in Int /\ Home.y \in Int /\ Home.side = 1 /\ worldRadius \in Nat
    BY ExplorerAssumption DEF Footprints
  <1>2. ASSUME NEW loc \in Region PROVE loc \in Chunks
    <2>1. loc = [x |-> loc.x, y |-> loc.y, side |-> 1] /\ loc.x \in Int /\ loc.y \in Int
      BY <1>1 DEF Region
    <2>2. loc \in Footprints /\ loc.side = 1
      BY <2>1, OneSide DEF Footprints
    <2>3. loc.x % 1 = 0 /\ loc.y % 1 = 0
      BY <2>1
    <2> QED
      BY <2>2, <2>3 DEF Chunks, Aligned
  <1>3. Home = [x |-> Home.x, y |-> Home.y, side |-> 1]
    BY <1>1, ExplorerAssumption DEF Footprints
  <1>4. /\ Home.x \in (Home.x - 2 * worldRadius)..(Home.x + 2 * worldRadius)
        /\ Home.y \in (Home.y - 2 * worldRadius)..(Home.y + 2 * worldRadius)
    BY <1>1
  <1> QED
    BY <1>2, <1>3, <1>4 DEF Region

LEMMA NextInRegion ==
  ASSUME NEW by \in Steps, NEW loc \in Region
  PROVE  NextChunk[by][loc] \in Region
  <1> HIDE DEF Region
  <1> QED
    BY DEF NextChunk

LEMMA CandidateInRegion ==
  ASSUME NEW map, NEW by \in Steps, NEW from \in Region
  PROVE  Candidate(map, by, from) \in Region
  <1> DEFINE Valid(loc) == IsValidExploreTarget(map, loc)
             Step(g, i) == [loc \in Region |->
                               IF i = 0 \/ Valid(loc) THEN loc
                               ELSE g[i - 1][NextChunk[by][loc]]]
             Fits(g, i) == g[i] = Step(g, i)
             N == {k \in Nat : \E g : \A i \in 0..k : Fits(g, i)}
             n == MaxCandidates
  <1>0. n \in Nat
    BY ExplorerAssumption
  <1>1. 0 \in N
    <2> DEFINE g == [i \in 0..0 |-> [loc \in Region |-> loc]]
    <2>1. \A i \in 0..0 : Fits(g, i)
      OBVIOUS
    <2> QED
      BY <2>1
  <1>2. ASSUME NEW k \in Nat, k \in N PROVE k + 1 \in N
    <2>1. PICK g : \A i \in 0..k : Fits(g, i)
      BY <1>2
    <2> DEFINE h == [i \in 0..(k + 1) |-> Step(g, i)]
    <2>2. \A i \in 0..k : h[i] = g[i]
      BY <2>1
    <2>3. ASSUME NEW i \in 0..(k + 1), i # 0 PROVE h[i - 1] = g[i - 1]
      <3>1. i - 1 \in 0..k
        BY <2>3
      <3> HIDE DEF h
      <3> QED
        BY <2>2, <3>1
    <2>4. ASSUME NEW i \in 0..(k + 1) PROVE Fits(h, i)
      <3>1. h[i] = Step(g, i)
        OBVIOUS
      <3> HIDE DEF h
      <3>2. Step(g, i) = Step(h, i)
        BY <2>3
      <3> QED
        BY <3>1, <3>2
    <2> HIDE DEF h, Fits
    <2> QED
      BY <2>4
  <1> HIDE DEF N
  <1>3. n \in N
    BY <1>0, <1>1, <1>2, Counting
  <1>4. PICK g : \A i \in 0..n : Fits(g, i)
    BY <1>3 DEF N
  <1> DEFINE h == [i \in 0..n |-> Step(g, i)]
  <1>5. \A i \in 0..n : h[i] = g[i]
    BY <1>4
  <1>6. ASSUME NEW i \in 0..n, i # 0 PROVE h[i - 1] = g[i - 1]
    <2>1. i - 1 \in 0..n
      BY <1>0, <1>6
    <2> HIDE DEF h
    <2> QED
      BY <1>5, <2>1
  <1>7. h = [i \in 0..n |-> Step(h, i)]
    <2>1. ASSUME NEW i \in 0..n PROVE Step(g, i) = Step(h, i)
      <3> HIDE DEF h
      <3> QED
        BY <1>6
    <2> QED
      BY <2>1
  <1> DEFINE try == CHOOSE try : try = [i \in 0..n |-> Step(try, i)]
  <1>8. try = [i \in 0..n |-> Step(try, i)]
    <2> HIDE DEF h
    <2> QED
      BY <1>7
  <1>9. Candidate(map, by, from) = try[n][from]
    BY DEF Candidate
  <1> HIDE DEF try
  <1> DEFINE M == {k \in Nat : k <= n => \A loc \in Region : try[k][loc] \in Region}
  <1>10. 0 \in M
    BY <1>0, <1>8
  <1>11. ASSUME NEW k \in Nat, k \in M PROVE k + 1 \in M
    <2> SUFFICES ASSUME k + 1 <= n, NEW loc \in Region PROVE try[k + 1][loc] \in Region
      OBVIOUS
    <2>1. k <= n /\ k + 1 \in 0..n /\ (k + 1) - 1 = k /\ k + 1 # 0
      BY <1>0
    <2>2. try[k + 1] = Step(try, k + 1)
      BY <1>8, <2>1
    <2>3. NextChunk[by][loc] \in Region
      BY NextInRegion
    <2>4. try[k + 1][loc] = IF Valid(loc) THEN loc ELSE try[k][NextChunk[by][loc]]
      BY <2>1, <2>2
    <2>5. \A l \in Region : try[k][l] \in Region
      BY <1>11, <2>1
    <2> HIDE DEF Valid
    <2> QED
      BY <2>3, <2>4, <2>5
  <1> HIDE DEF M
  <1>12. n \in M
    BY <1>0, <1>10, <1>11, Counting
  <1> QED
    BY <1>0, <1>9, <1>12 DEF M

\* What is not explored yet of a chunk is in a slice that a worker has.
Explored(pool, exploring) ==
    \A task \in TasksOf(pool) :
        LET key == <<task.chunk, task.job>> IN
        /\ task.chunk \in Region
        /\ exploring[key].planets \subseteq PlanetsOf(task.chunk)
        /\ \A p \in PlanetsOf(task.chunk) :
             p \in exploring[key].planets \/ \E t \in AwaitedOf(pool, key) : p \in Slice(t)

Mined(pool, searching, exploring) ==
    /\ Explored(pool, exploring)
    /\ \A search \in searching : search.at \in Region
    /\ DOMAIN exploring \subseteq Region \X (1..MaxJobs)

\* Every planet of a chunk is in the slice of one of the workers.
LEMMA SlicesCover ==
  ASSUME NEW loc, NEW job, NEW n \in Nat, n # 0, NEW p \in PlanetsOf(loc)
  PROVE  \E t \in NewTasks(loc, job, n) : p \in Slice(t)
  <1>1. p[3] \in Nat
    BY StoreAssumption DEF PlanetsOf
  <1>2. p[3] % n \in 0..(n - 1)
    BY <1>1
  <1> DEFINE i == (p[3] % n) + 1
             t == NewTask(loc, job, i, n)
  <1>3. i \in 1..n /\ p[3] % n = i - 1
    BY <1>2
  <1> HIDE DEF i
  <1>4. t.chunk = loc /\ t.of = n /\ t.index = i
    BY DEF NewTask
  <1>5. t \in NewTasks(loc, job, n)
    BY <1>3 DEF NewTasks
  <1> HIDE DEF t
  <1>6. p \in Slice(t)
    BY <1>3, <1>4 DEF Slice
  <1> QED
    BY <1>5, <1>6

\* The chunks at the workers, and one that is handed to them.
Awaiting(exploring, loc, job) ==
    [k \in DOMAIN exploring \cup {<<loc, job>>} |->
        IF k = <<loc, job>> THEN [planets |-> {}, minersComplete |-> 0] ELSE exploring[k]]

LEMMA HandedMined ==
  ASSUME NEW pool, NEW searching, NEW exploring, NEW current \in Nat, NEW loc \in Region,
         NEW job \in 1..MaxJobs, NEW others,
         pool # Nobody,
         Good(pool, searching, exploring, current),
         ~Going(pool, searching, job),
         Mined(pool, searching, exploring),
         others = Awaiting(exploring, loc, job)
  PROVE  /\ Mined(Handed(pool, loc, job), searching, others)
         /\ Len(Handed(pool, loc, job)) = Len(pool)
  <1> DEFINE H == Handed(pool, loc, job)
             New == NewTasks(loc, job, Len(pool))
  <1>1. PICK S : pool \in Seq(Seq(S))
    BY DEF Good, Lined
  <1>2. /\ Len(H) = Len(pool)
        /\ \A task : task \in TasksOf(H) <=> task \in TasksOf(pool) \/ task \in New
    BY <1>1, HandedShape, HandedTasks
  <1>3. Len(pool) \in Nat /\ Len(pool) # 0
    BY <1>1 DEF Nobody
  <1> HIDE DEF H
  <1>4. \A task \in New : task.chunk = loc /\ task.job = job
    BY DEF NewTasks, NewTask
  <1>5. \A task \in TasksOf(pool) : task.job # job
    BY DEF Going
  <1>6. \A p \in PlanetsOf(loc) : \E t \in New : p \in Slice(t)
    BY <1>3, SlicesCover
  <1> HIDE DEF New
  <1>7. AwaitedOf(H, <<loc, job>>) = New
    BY <1>2, <1>4, <1>5 DEF AwaitedOf
  <1>8. ASSUME NEW task \in TasksOf(pool)
        PROVE  /\ AwaitedOf(H, <<task.chunk, task.job>>)
                    = AwaitedOf(pool, <<task.chunk, task.job>>)
               /\ others[<<task.chunk, task.job>>] = exploring[<<task.chunk, task.job>>]
    <2>1. <<task.chunk, task.job>> # <<loc, job>>
      BY <1>5
    <2>2. <<task.chunk, task.job>> \in DOMAIN exploring
      BY DEF Good, AddUp
    <2> QED
      BY <1>2, <1>4, <1>5, <2>1, <2>2 DEF AwaitedOf, Awaiting
  <1>9. others[<<loc, job>>].planets = {}
    BY DEF Awaiting
  <1>10. ASSUME NEW task \in TasksOf(H)
         PROVE  LET key == <<task.chunk, task.job>> IN
                /\ task.chunk \in Region
                /\ others[key].planets \subseteq PlanetsOf(task.chunk)
                /\ \A p \in PlanetsOf(task.chunk) :
                     p \in others[key].planets \/ \E t \in AwaitedOf(H, key) : p \in Slice(t)
    <2>1. CASE task \in New
      <3>1. task.chunk = loc /\ <<task.chunk, task.job>> = <<loc, job>>
        BY <1>4, <2>1
      <3> QED
        BY <1>6, <1>7, <1>9, <3>1
    <2>2. CASE task \in TasksOf(pool)
      BY <1>8, <2>2 DEF Mined, Explored
    <2> QED
      BY <1>2, <2>1, <2>2
  <1>11. Explored(H, others)
    BY <1>10 DEF Explored
  <1>12. DOMAIN others \subseteq Region \X (1..MaxJobs)
    BY DEF Mined, Awaiting
  <1> QED
    BY <1>2, <1>11, <1>12 DEF Mined, H

LEMMA ExploreMined ==
  ASSUME NEW map, NEW by \in Steps, NEW from \in Region,
         NEW searching, NEW exploring, NEW pool,
         NEW current \in Nat, NEW job \in 1..MaxJobs,
         pool # Nobody,
         Good(pool, searching, exploring, current),
         ~Going(pool, searching, job),
         Mined(pool, searching, exploring),
         ExploreNext(map, by, from, job, searching, exploring, pool)
  PROVE  /\ Mined(workers', searches', exploringChunk')
         /\ Len(workers') = Len(pool)
  <1>1. PICK loc \in Region :
          \/ /\ searches' = searching
             /\ exploringChunk' = Awaiting(exploring, loc, job)
             /\ workers' = Handed(pool, loc, job)
          \/ /\ searches' = searching \cup {[at |-> loc, job |-> job]}
             /\ exploringChunk' = exploring
             /\ workers' = pool
    <2>1. Candidate(map, by, from) \in Region
      BY CandidateInRegion
    <2> QED
      BY <2>1 DEF ExploreNext, Awaiting
  <1>2. CASE /\ searches' = searching
             /\ exploringChunk' = Awaiting(exploring, loc, job)
             /\ workers' = Handed(pool, loc, job)
    BY <1>2, HandedMined
  <1>3. CASE /\ searches' = searching \cup {[at |-> loc, job |-> job]}
             /\ exploringChunk' = exploring
             /\ workers' = pool
    <2>1. \A search \in searches' : search.at \in Region
      <3>1. [at |-> loc, job |-> job].at = loc
        OBVIOUS
      <3> QED
        BY <1>3, <3>1 DEF Mined
    <2> QED
      BY <1>3, <2>1 DEF Mined
  <1> QED
    BY <1>1, <1>2, <1>3

\* A slice is taken, of a chunk with others to come.
LEMMA SliceMined ==
  ASSUME NEW pool, NEW searching, NEW exploring, NEW current, NEW i \in DOMAIN pool, NEW rest,
         Good(pool, searching, exploring, current), pool[i] # <<>>,
         Mined(pool, searching, exploring),
         rest = Taken(pool, i),
         NEW head, head = Head(pool[i]),
         NEW key, key = <<head.chunk, head.job>>,
         NEW planets, planets = exploring[key].planets \cup Slice(head),
         NEW others, others = Counted(exploring, key, planets)
  PROVE  Mined(rest, searching, others)
  <1>1. head \in TasksOf(pool) /\ TasksOf(rest) = TasksOf(pool) \ {head}
    <2>1. Lined(pool, current)
      BY DEF Good
    <2> QED
      BY <2>1, TaskTaken
  <1>2. OneLess(pool, rest, exploring, key)
    <2>1. key = <<Head(pool[i]).chunk, Head(pool[i]).job>>
      OBVIOUS
    <2> QED
      BY <2>1, SliceCounted
  <1>3. /\ DOMAIN others = DOMAIN exploring
        /\ others[key].planets = planets
        /\ \A k \in DOMAIN exploring : k # key => others[k] = exploring[k]
    BY <1>2 DEF OneLess, Counted
  <1>4. Slice(head) \subseteq PlanetsOf(head.chunk)
    BY DEF Slice
  <1>5. AwaitedOf(rest, key) = AwaitedOf(pool, key) \ {head}
    BY <1>1 DEF AwaitedOf
  <1>6. Explored(pool, exploring)
    BY DEF Mined
  <1>7. ASSUME NEW task \in TasksOf(rest), NEW k, k = <<task.chunk, task.job>>
        PROVE  /\ task.chunk \in Region
               /\ others[k].planets \subseteq PlanetsOf(task.chunk)
               /\ \A p \in PlanetsOf(task.chunk) :
                    p \in others[k].planets \/ \E t \in AwaitedOf(rest, k) : p \in Slice(t)
    <2>1. /\ task.chunk \in Region
          /\ exploring[k].planets \subseteq PlanetsOf(task.chunk)
          /\ \A p \in PlanetsOf(task.chunk) :
               p \in exploring[k].planets \/ \E t \in AwaitedOf(pool, k) : p \in Slice(t)
      BY <1>1, <1>6, <1>7 DEF Explored
    <2>2. CASE k = key
      <3>1. task.chunk = head.chunk
        BY <1>7, <2>2
      <3> QED
        BY <1>3, <1>4, <1>5, <2>1, <2>2, <3>1
    <2>3. CASE k # key
      <3>1. AwaitedOf(rest, k) = AwaitedOf(pool, k)
        BY <1>1, <1>7, <2>3 DEF AwaitedOf
      <3>2. k \in DOMAIN exploring
        BY <1>1, <1>7 DEF Good, AddUp
      <3> QED
        BY <1>3, <2>1, <2>3, <3>1, <3>2
    <2> QED
      BY <2>2, <2>3
  <1>8. Explored(rest, others)
    BY <1>7 DEF Explored
  <1> QED
    BY <1>3, <1>8 DEF Mined

Without(exploring, key) == [k \in DOMAIN exploring \ {key} |-> exploring[k]]

\* The last slice is taken: the planets of all of them are those of the chunk.
LEMMA ChunkMined ==
  ASSUME NEW pool, NEW searching, NEW exploring, NEW current, NEW i \in DOMAIN pool, NEW rest,
         Good(pool, searching, exploring, current), pool[i] # <<>>,
         Mined(pool, searching, exploring),
         rest = Taken(pool, i),
         NEW head, head = Head(pool[i]),
         ~Going(rest, searching, head.job),
         NEW key, key = <<head.chunk, head.job>>,
         NEW others, others = Without(exploring, key)
  PROVE  /\ Mined(rest, searching, others)
         /\ exploring[key].planets \cup Slice(head) = PlanetsOf(head.chunk)
  <1>1. head \in TasksOf(pool) /\ TasksOf(rest) = TasksOf(pool) \ {head}
    <2>1. Lined(pool, current)
      BY DEF Good
    <2> QED
      BY <2>1, TaskTaken
  <1>2. \A task \in TasksOf(rest) : task.job # head.job
    BY DEF Going
  <1>3. AwaitedOf(pool, key) = {head}
    BY <1>1, <1>2 DEF AwaitedOf
  <1>4. Explored(pool, exploring)
    BY DEF Mined
  <1>5. exploring[key].planets \cup Slice(head) = PlanetsOf(head.chunk)
    <2>1. /\ exploring[key].planets \subseteq PlanetsOf(head.chunk)
          /\ \A p \in PlanetsOf(head.chunk) :
               p \in exploring[key].planets \/ \E t \in AwaitedOf(pool, key) : p \in Slice(t)
      BY <1>1, <1>4 DEF Explored
    <2>2. Slice(head) \subseteq PlanetsOf(head.chunk)
      BY DEF Slice
    <2> QED
      BY <1>3, <2>1, <2>2
  <1>6. ASSUME NEW task \in TasksOf(rest), NEW k, k = <<task.chunk, task.job>>
        PROVE  AwaitedOf(rest, k) = AwaitedOf(pool, k) /\ others[k] = exploring[k]
    <2>1. k # key
      BY <1>2, <1>6
    <2>2. k \in DOMAIN exploring
      BY <1>1, <1>6 DEF Good, AddUp
    <2> QED
      BY <1>1, <1>6, <2>1, <2>2 DEF AwaitedOf, Without
  <1>7. Explored(rest, others)
    BY <1>1, <1>4, <1>6 DEF Explored
  <1>8. DOMAIN others \subseteq DOMAIN exploring
    BY DEF Without
  <1> QED
    BY <1>5, <1>7, <1>8 DEF Mined

-----------------------------------------------------------------------------
(* The steps of the miner, and what they ask of the store. *)

MinedInv ==
    /\ currentJobId \in 0..MaxJobs
    /\ step \in Steps
    /\ isExploring \in BOOLEAN
    /\ workers = Nobody \/ Len(workers) \in Cores
    /\ Mined(workers, searches, exploringChunk)

\* A job that begins, with workers there are.
LEMMA BeginMined ==
  ASSUME IInv, MinedInv, NEW by \in Steps, NEW pool, pool # Nobody,
         Good(pool, searches, exploringChunk, currentJobId),
         Mined(pool, searches, exploringChunk),
         Begin(by, pool)
  PROVE  /\ currentJobId' \in 0..MaxJobs /\ isExploring' \in BOOLEAN
         /\ Mined(workers', searches', exploringChunk')
         /\ Len(workers') = Len(pool)
  <1>1. currentJobId \in Nat /\ MaxJobs \in Nat /\ currentJobId < MaxJobs
    BY ExplorerAssumption DEF Begin, IInv
  <1>2. currentJobId' = currentJobId + 1 /\ isExploring' = TRUE
        /\ currentJobId + 1 \in 0..MaxJobs /\ currentJobId + 1 \in 1..MaxJobs
        /\ currentJobId + 1 \in Nat
    BY <1>1 DEF Begin
  <1>3. /\ Good(pool, searches, exploringChunk, currentJobId + 1)
        /\ ~Going(pool, searches, currentJobId + 1)
    BY <1>1, NextJobGood
  <1>4. ExploreNext(chunkMap, by, Home, currentJobId + 1, searches, exploringChunk, pool)
    BY DEF Begin
  <1>5. Home \in Region
    BY RegionChunks
  <1>6. /\ Mined(workers', searches', exploringChunk')
        /\ Len(workers') = Len(pool)
    BY <1>2, <1>3, <1>4, <1>5, ExploreMined
  <1> QED
    BY <1>2, <1>6

LEMMA NewWorkersMined ==
  ASSUME MinedInv, NEW n \in Cores
  PROVE  /\ Mined(NewWorkers(n), searches, exploringChunk)
         /\ Len(NewWorkers(n)) \in Cores
  <1>1. n \in Nat
    BY ExplorerAssumption
  <1>2. TasksOf(NewWorkers(n)) = {} /\ Len(NewWorkers(n)) = n
    BY <1>1, NewWorkersIdle
  <1>3. Explored(NewWorkers(n), exploringChunk)
    BY <1>2 DEF Explored
  <1> QED
    BY <1>2, <1>3 DEF MinedInv, Mined

LEMMA NewPoolMined ==
  ASSUME IInv, MinedInv, NEW n \in Cores,
         \/ isExploring /\ Begin(step, NewWorkers(n))
         \/ /\ ~isExploring
            /\ workers' = NewWorkers(n)
            /\ UNCHANGED <<isExploring, currentJobId, searches, exploringChunk>>,
         UNCHANGED step
  PROVE  MinedInv'
  <1>1. /\ NewWorkers(n) # Nobody
        /\ Good(NewWorkers(n), searches, exploringChunk, currentJobId)
    BY PoolGood
  <1>2. Mined(NewWorkers(n), searches, exploringChunk) /\ Len(NewWorkers(n)) \in Cores
    BY NewWorkersMined
  <1>3. step \in Steps /\ step' \in Steps
    BY DEF MinedInv
  <1>4. CASE isExploring /\ Begin(step, NewWorkers(n))
    <2>1. /\ currentJobId' \in 0..MaxJobs /\ isExploring' \in BOOLEAN
          /\ Mined(workers', searches', exploringChunk')
          /\ Len(workers') = Len(NewWorkers(n))
      BY <1>1, <1>2, <1>3, <1>4, BeginMined
    <2> QED
      BY <1>2, <1>3, <2>1 DEF MinedInv
  <1>5. CASE /\ workers' = NewWorkers(n)
             /\ UNCHANGED <<isExploring, currentJobId, searches, exploringChunk>>
    BY <1>2, <1>3, <1>5 DEF MinedInv
  <1> QED
    BY <1>4, <1>5

LEMMA SearchMined ==
  ASSUME IInv, MinedInv, NEW search \in searches, SearchOn(search)
  PROVE  MinedInv'
  <1>1. /\ Good(workers, searches \ {search}, exploringChunk, currentJobId)
        /\ ~Going(workers, searches \ {search}, search.job)
        /\ search.job \in 1..currentJobId
    BY SearchEnds DEF IInv, Good, Exclusive
  <1>2. UNCHANGED <<isExploring, currentJobId, step>>
    BY DEF SearchOn
  <1>3. Mined(workers, searches \ {search}, exploringChunk)
    BY DEF MinedInv, Mined
  <1>4. CASE searches' = searches \ {search} /\ UNCHANGED <<exploringChunk, workers>>
    BY <1>2, <1>3, <1>4 DEF MinedInv
  <1>5. CASE ExploreNext(chunkMap, step, search.at, search.job, searches \ {search},
                         exploringChunk, workers)
    <2>1. workers # Nobody
      BY DEF IInv
    <2>2. search.at \in Region /\ step \in Steps
      BY DEF MinedInv, Mined
    <2>3. search.job \in 1..MaxJobs /\ currentJobId \in Nat
      BY <1>1, ExplorerAssumption DEF MinedInv
    <2>4. Mined(workers', searches', exploringChunk') /\ Len(workers') = Len(workers)
      BY <1>1, <1>3, <1>5, <2>1, <2>2, <2>3, ExploreMined
    <2> QED
      BY <1>2, <2>1, <2>4 DEF MinedInv
  <1> QED
    BY <1>4, <1>5 DEF SearchOn

LEMMA SliceStep ==
  ASSUME IInv, MinedInv, NEW i \in DOMAIN workers, SliceExplored(i)
  PROVE  /\ MinedInv'
         /\ UNCHANGED storeVars \/ \E loc \in Chunks : AddChunk(loc, PlanetsOf(loc))
  <1> DEFINE rest == Taken(workers, i)
  <1>0. PICK head, key, n, planets :
          /\ head = Head(workers[i])
          /\ key = <<head.chunk, head.job>>
          /\ n = exploringChunk[key].minersComplete
          /\ planets = exploringChunk[key].planets \cup Slice(head)
    OBVIOUS
  <1>1. workers[i] # <<>> /\ UNCHANGED <<isExploring, currentJobId, step>>
    BY DEF SliceExplored
  <1>2. /\ Good(workers, searches, exploringChunk, currentJobId)
        /\ currentJobId \in Nat /\ workers # Nobody
        /\ Mined(workers, searches, exploringChunk)
    BY DEF IInv, MinedInv, Nobody
  <1>3. head \in TasksOf(workers) /\ rest # Nobody /\ Len(rest) = Len(workers)
    BY <1>0, <1>1, <1>2, TaskTaken DEF Good
  <1>4. key \in DOMAIN exploringChunk
    <2>1. key = <<Head(workers[i]).chunk, Head(workers[i]).job>>
      BY <1>0
    <2> QED
      BY <1>1, <1>2, <2>1, SliceCounted DEF OneLess
  <1>5. head.job \in 1..currentJobId /\ head.job \in 1..MaxJobs
    <2>1. PICK j \in DOMAIN workers : \E k \in DOMAIN workers[j] : head = workers[j][k]
      BY <1>3, InTasks
    <2>2. head.job \in 1..currentJobId
      BY <1>2, <2>1 DEF Good, Lined
    <2> QED
      BY <2>2, ExplorerAssumption DEF MinedInv
  <1>6. head.chunk \in Region
    BY <1>2, <1>3 DEF Mined, Explored
  <1>7. IF Complete(n + 1) THEN Discovered(head.chunk, head.job, planets, rest)
        ELSE /\ exploringChunk' = Counted(exploringChunk, key, planets)
             /\ workers' = rest
             /\ UNCHANGED searches
             /\ UNCHANGED storeVars
    BY <1>0, <1>4 DEF SliceExplored, Taken, Counted
  <1> HIDE DEF rest
  <1>8. CASE ~Complete(n + 1)
    <2>1. PICK others : others = Counted(exploringChunk, key, planets)
      OBVIOUS
    <2>2. Mined(rest, searches, others)
      BY <1>0, <1>1, <1>2, <2>1, SliceMined DEF rest
    <2>3. exploringChunk' = others /\ workers' = rest /\ UNCHANGED searches
      BY <1>7, <1>8, <2>1
    <2> QED
      BY <1>1, <1>2, <1>3, <1>7, <1>8, <2>2, <2>3 DEF MinedInv
  <1>9. CASE Complete(n + 1)
    <2>1. PICK others : others = [k \in DOMAIN exploringChunk \ {key} |-> exploringChunk[k]]
      OBVIOUS
    <2>2. Good(rest, searches, others, currentJobId) /\ ~Going(rest, searches, head.job)
      <3>1. /\ key = <<Head(workers[i]).chunk, Head(workers[i]).job>>
            /\ exploringChunk[key].minersComplete + 1 = Len(workers)
        BY <1>0, <1>9 DEF Complete
      <3>2. Good(rest, searches, others, currentJobId)
            /\ ~Going(rest, searches, Head(workers[i]).job)
        BY <1>1, <1>2, <2>1, <3>1, ChunkDone DEF rest
      <3> QED
        BY <1>0, <3>2
    <2>3. Mined(rest, searches, others) /\ planets = PlanetsOf(head.chunk)
      <3>1. ~Going(rest, searches, head.job) /\ head = Head(workers[i])
            /\ key = <<head.chunk, head.job>>
            /\ others = Without(exploringChunk, key)
        BY <1>0, <2>1, <2>2 DEF Without
      <3>2. /\ Mined(rest, searches, others)
            /\ exploringChunk[key].planets \cup Slice(head) = PlanetsOf(head.chunk)
        BY <1>1, <1>2, <3>1, ChunkMined DEF rest
      <3> QED
        BY <1>0, <3>2
    <2>4. Discovered(head.chunk, head.job, PlanetsOf(head.chunk), rest)
      BY <1>7, <1>9, <2>3
    <2>5. \E loc \in Chunks : AddChunk(loc, PlanetsOf(loc))
      BY <1>6, <2>4, RegionChunks DEF Discovered
    <2>6. CASE isExploring /\ currentJobId = head.job
      <3>1. PICK map : ExploreNext(map, step, head.chunk, head.job, searches, others, rest)
        BY <1>0, <2>1, <2>4, <2>6 DEF Discovered
      <3>2. step \in Steps
        BY DEF MinedInv
      <3>3. Mined(workers', searches', exploringChunk') /\ Len(workers') = Len(rest)
        BY <1>2, <1>3, <1>5, <1>6, <2>2, <2>3, <3>1, <3>2, ExploreMined
      <3> QED
        BY <1>1, <1>2, <1>3, <2>5, <3>3 DEF MinedInv
    <2>7. CASE ~(isExploring /\ currentJobId = head.job)
      <3>1. exploringChunk' = others /\ workers' = rest /\ UNCHANGED searches
        BY <1>0, <2>1, <2>4, <2>7 DEF Discovered
      <3> QED
        BY <1>1, <1>2, <1>3, <2>3, <2>5, <3>1 DEF MinedInv
    <2> QED
      BY <2>6, <2>7
  <1> QED
    BY <1>8, <1>9

LEMMA NobodyMined ==
  ASSUME NEW exploring, exploring = <<>>
  PROVE  Mined(Nobody, {}, exploring)
  <1>1. DOMAIN Nobody = {} /\ DOMAIN exploring = {}
    BY DEF Nobody
  <1>2. TasksOf(Nobody) = {}
    BY <1>1 DEF TasksOf
  <1> QED
    BY <1>1, <1>2 DEF Mined, Explored

\* What a step of the program is for the store: what it does by itself, or a chunk
\* that is added with the planets that are there.
StoreStep == StoreStill \/ \E loc \in Chunks : AddChunk(loc, PlanetsOf(loc))

LEMMA StepMined ==
  ASSUME IInv, MinedInv, [Next]_vars
  PROVE  MinedInv' /\ StoreStep
  <1>1. ASSUME UNCHANGED minerVars PROVE MinedInv'
    BY <1>1 DEF minerVars, MinedInv, Mined
  <1>2. ASSUME UNCHANGED storeVars PROVE StoreStep
    BY <1>2 DEF StoreStep, StoreStill
  <1>3. CASE StartExplore
    <2>1. /\ Good(workers, searches, exploringChunk, currentJobId) /\ step \in Steps
          /\ Mined(workers, searches, exploringChunk) /\ workers # Nobody
          /\ Begin(step, workers)
      BY <1>3 DEF IInv, MinedInv, StartExplore
    <2>2. /\ currentJobId' \in 0..MaxJobs /\ isExploring' \in BOOLEAN
          /\ Mined(workers', searches', exploringChunk')
          /\ Len(workers') = Len(workers)
      BY <2>1, BeginMined
    <2> QED
      BY <1>2, <1>3, <2>1, <2>2 DEF MinedInv, StartExplore
  <1>4. CASE StopExplore
    BY <1>2, <1>4 DEF StopExplore, MinedInv
  <1>5. ASSUME NEW by \in Steps, SetMiningPattern(by)
        PROVE  MinedInv' /\ StoreStep
    <2>1. /\ Good(workers, searches, exploringChunk, currentJobId)
          /\ Mined(workers, searches, exploringChunk) /\ workers # Nobody
          /\ step' \in Steps /\ UNCHANGED storeVars
      BY <1>5 DEF IInv, MinedInv, SetMiningPattern
    <2>2. CASE isExploring
      <3>1. Begin(by, workers)
        BY <1>5, <2>2 DEF SetMiningPattern
      <3>2. /\ currentJobId' \in 0..MaxJobs /\ isExploring' \in BOOLEAN
            /\ Mined(workers', searches', exploringChunk')
            /\ Len(workers') = Len(workers)
        BY <2>1, <3>1, BeginMined
      <3> QED
        BY <1>2, <2>1, <3>2 DEF MinedInv
    <2>3. CASE ~isExploring
      BY <1>2, <1>5, <2>1, <2>3 DEF MinedInv, SetMiningPattern
    <2> QED
      BY <2>2, <2>3
  <1>6. ASSUME NEW n \in Cores, SetCores(n) \/ InitMiningManager(n)
        PROVE  MinedInv' /\ StoreStep
    <2>1. /\ UNCHANGED step /\ UNCHANGED storeVars
          /\ \/ isExploring /\ Begin(step, NewWorkers(n))
             \/ /\ ~isExploring
                /\ workers' = NewWorkers(n)
                /\ UNCHANGED <<isExploring, currentJobId, searches, exploringChunk>>
      BY <1>6 DEF SetCores, InitMiningManager
    <2> QED
      BY <1>2, <2>1, NewPoolMined
  <1>7. ASSUME NEW search \in searches, SearchOn(search)
        PROVE  MinedInv' /\ StoreStep
    BY <1>2, <1>7, SearchMined DEF SearchOn
  <1>8. ASSUME NEW i \in DOMAIN workers, SliceExplored(i)
        PROVE  MinedInv' /\ StoreStep
    BY <1>2, <1>8, SliceStep DEF StoreStep
  <1>9. CASE Store
    <2>1. UNCHANGED minerVars
      BY <1>9 DEF Store
    <2>2. ASSUME NEW loc \in Imports, Import(loc) PROVE StoreStep
      <3>1. loc \in Chunks
        BY StoreAssumption DEF Chunks
      <3> QED
        BY <2>2, <3>1 DEF Import, StoreStep
    <2>3. StoreStep
      BY <1>9, <2>2 DEF Store, StoreStep, StoreStill
    <2> QED
      BY <1>1, <2>1, <2>3
  <1>10. CASE Reopen
    <2>1. /\ workers' = Nobody /\ searches' = {} /\ exploringChunk' = <<>>
          /\ currentJobId' = 0 /\ step' = 1 /\ UNCHANGED isExploring /\ Reload
      BY <1>10 DEF Reopen
    <2>2. Mined(workers', searches', exploringChunk')
      BY <2>1, NobodyMined
    <2>3. 1 \in Steps /\ 0 \in 0..MaxJobs
      BY ExplorerAssumption
    <2> QED
      BY <2>1, <2>2, <2>3 DEF MinedInv, StoreStep, StoreStill
  <1>11. CASE UNCHANGED vars
    <2>1. UNCHANGED minerVars /\ UNCHANGED storeVars
      BY <1>11 DEF vars, minerVars, storeVars
    <2> QED
      BY <1>1, <1>2, <2>1
  <1> QED
    BY <1>3, <1>4, <1>5, <1>6, <1>7, <1>8, <1>9, <1>10, <1>11 DEF Next

-----------------------------------------------------------------------------
(* The theorems about the store. *)

LEMMA InitWhole == ASSUME Init PROVE MinedInv /\ StoreInv
  <1>1. /\ chunkMap = Whole(SavedBefore) /\ board = Whole(SavedBefore) /\ loading = {}
        /\ queuedChunkWrites = <<>> /\ saving = <<>> /\ throttle = "idle"
        /\ nUpdatesLastTwoMins = 0 /\ failures = 0
        /\ isExploring = TRUE /\ currentJobId = 0 /\ step = 1
        /\ searches = {} /\ exploringChunk = <<>> /\ workers = Nobody
    BY DEF Init, StoreInit
  <1>2. WholeMap(Whole(SavedBefore))
    <2>1. SavedBefore \subseteq Chunks
      BY StoreAssumption DEF Chunks
    <2> QED
      BY <2>1 DEF WholeMap, Whole
  <1>3. StoreInv
    BY <1>1, <1>2 DEF StoreInv
  <1>4. Mined(workers, searches, exploringChunk)
    BY <1>1, NobodyMined
  <1>5. 1 \in Steps /\ 0 \in 0..MaxJobs
    BY ExplorerAssumption
  <1> QED
    BY <1>1, <1>3, <1>4, <1>5 DEF MinedInv

LEMMA StepWhole == ASSUME StoreInv, StoreStep PROVE StoreInv'
  BY AddWhole, StillWhole DEF StoreStep

LEMMA ExplorerInductive == Spec => [](IInv /\ MinedInv /\ StoreInv)
  <1>1. Init => IInv /\ MinedInv /\ StoreInv
    BY InitGood, InitWhole
  <1>2. IInv /\ MinedInv /\ StoreInv /\ [Next]_vars => (IInv /\ MinedInv /\ StoreInv)'
    BY StepGood, StepMined, StepWhole
  <1> QED
    BY <1>1, <1>2, PTL DEF Spec

\* Every variable of the store and of the miner keeps its type: what is queued are
\* transactions, and no batch without one is handed to the database.
THEOREM ExplorerTyped == Spec => []TypeOK
  <1>1. ASSUME IInv, MinedInv, StoreInv PROVE TypeOK
    <2>1. \A i \in DOMAIN queuedChunkWrites : queuedChunkWrites[i].put \in Footprints
      <3>1. queuedChunkWrites \in Seq(Txs)
        BY <1>1 DEF StoreInv
      <3>2. \A i \in DOMAIN queuedChunkWrites : queuedChunkWrites[i] \in Txs
        BY <3>1
      <3> QED
        BY <3>2 DEF Txs, Chunks
    <2>2. saving # <<>> => Head(saving) # <<>>
      <3>1. saving \in Seq(Seq(Txs) \ {<<>>})
        BY <1>1 DEF StoreInv
      <3> QED
        BY <3>1, HeadTail
    <2>3. /\ DOMAIN chunkMap \subseteq Footprints
          /\ DOMAIN board \subseteq Footprints
          /\ loading \subseteq DOMAIN board
          /\ throttle \in {"idle", "open", "armed", "trailing"}
          /\ nUpdatesLastTwoMins \in Nat
      BY <1>1 DEF StoreInv, WholeMap, Chunks
    <2>4. Region \subseteq Footprints
      BY RegionChunks DEF Chunks
    <2>5. \A search \in searches : search.at \in Footprints /\ search.job \in 1..MaxJobs
      <3>1. \A search \in searches : search.at \in Region /\ search.job \in 1..currentJobId
        BY <1>1 DEF IInv, Good, Exclusive, MinedInv, Mined
      <3>2. 1..currentJobId \subseteq 1..MaxJobs
        BY <1>1, ExplorerAssumption DEF MinedInv
      <3> QED
        BY <2>4, <3>1, <3>2
    <2>6. DOMAIN exploringChunk \subseteq Footprints \X (1..MaxJobs)
      BY <1>1, <2>4 DEF MinedInv, Mined
    <2> QED
      BY <1>1, <2>1, <2>2, <2>3, <2>5, <2>6 DEF TypeOK, MinedInv
  <1> QED
    BY <1>1, ExplorerInductive, PTL

\* However the slices of a chunk come in, squares are merged, saves fail and pages
\* are closed: a chunk in memory or on disk has all the planets that are there.
THEOREM ChunksWhole == Spec => []WholeChunks
  <1>1. ASSUME StoreInv PROVE WholeChunks
    BY <1>1 DEF StoreInv, WholeMap, Whole, WholeChunks
  <1> QED
    BY <1>1, ExplorerInductive, PTL

\* What was once on disk stays there, by itself or in a larger chunk.
THEOREM BoardKept == Spec => BoardGrows
  <1>1. ASSUME IInv, MinedInv, StoreInv, [Next]_vars
        PROVE  \A loc \in DOMAIN board : HasMinedChunk(board', loc)
    <2>1. Covers(board, board')
      BY <1>1, StepMined, BoardCovered DEF StoreStep
    <2> SUFFICES ASSUME NEW loc \in DOMAIN board PROVE HasMinedChunk(board', loc)
      OBVIOUS
    <2>2. DOMAIN board \subseteq Chunks /\ loc \in Chunks /\ loc \in Footprints
      BY <1>1 DEF StoreInv, WholeMap, Chunks
    <2>3. HasMinedChunk(board, loc)
      BY <2>2, WithinSelf, HasMined
    <2> QED
      BY <2>1, <2>2, <2>3 DEF Covers
  <1>2. IInv /\ MinedInv /\ StoreInv /\ [Next]_vars
          => [\A loc \in DOMAIN board : HasMinedChunk(board', loc)]_vars
    BY <1>1
  <1> QED
    BY <1>2, ExplorerInductive, PTL DEF Spec, BoardGrows

LEMMA InitTold == ASSUME Tidy(SavedBefore), Init PROVE Told
  <1>1. /\ chunkMap = Whole(SavedBefore) /\ board = Whole(SavedBefore) /\ loading = {}
        /\ queuedChunkWrites = <<>> /\ saving = <<>>
    BY DEF Init, StoreInit
  <1>2. DOMAIN board = SavedBefore /\ DOMAIN chunkMap = SavedBefore
    BY <1>1 DEF Whole
  <1>3. PICK h : Path(h, board, <<>>) /\ h[0] = board
    BY <1>2, PathNone
  <1>4. Replayed(board, <<>>) = board
    BY ReplayedNone
  <1>5. Len(saving) = 0
    BY <1>1
  <1>6. Arrives(h)
    BY <1>1, <1>3, <1>4, <1>5 DEF Arrives
  <1> QED
    BY <1>1, <1>2, <1>3, <1>6 DEF Told

LEMMA ToldAlways == ASSUME Tidy(SavedBefore) PROVE Spec => []Told
  <1>1. Init => Told
    BY InitTold
  <1>2. IInv /\ MinedInv /\ StoreInv /\ Told /\ [Next]_vars => Told'
    BY StepMined, AddTold, StillTold DEF StoreStep
  <1> QED
    BY <1>1, <1>2, ExplorerInductive, PTL DEF Spec

\* Unless a save failed: no chunk is inside another and no square is left unmerged,
\* whenever the page was closed and in whatever order the table was read, if that
\* is how earlier sessions left the table.
THEOREM ChunksCanonical == ASSUME Tidy(SavedBefore) PROVE Spec => []Canonical
  <1>1. ASSUME Told PROVE Canonical
    <2> SUFFICES ASSUME failures = 0, NEW loc \in DOMAIN chunkMap
                 PROVE  /\ \A outer \in DOMAIN chunkMap \ {loc} : ~Within(loc, outer)
                        /\ loc.side < MAX_CHUNK_SIZE
                             => ~(Siblings(loc) \subseteq DOMAIN chunkMap)
      BY DEF Canonical
    <2>1. Tidy(DOMAIN chunkMap)
      BY <1>1 DEF Told
    <2> QED
      BY <2>1 DEF Tidy, Apart
  <1> QED
    BY <1>1, ToldAlways, PTL

\* A path there is, is the one that the recursive function finds.
LEMMA PathFound ==
  ASSUME NEW map, NEW batches, Len(batches) \in Nat, NEW h, Path(h, map, batches)
  PROVE  LET found[n \in 0..Len(batches)] ==
                 IF n = 0 THEN map ELSE Replayed(found[n - 1], batches[n])
         IN  found[Len(batches)] = h[Len(batches)]
  <1> DEFINE len == Len(batches)
             found == CHOOSE f : f = [n \in 0..len |->
                         IF n = 0 THEN map ELSE Replayed(f[n - 1], batches[n])]
             g == [n \in 0..len |-> h[n]]
  <1>1. g = [n \in 0..len |-> IF n = 0 THEN map ELSE Replayed(g[n - 1], batches[n])]
    <2>1. ASSUME NEW n \in 0..len
          PROVE  h[n] = IF n = 0 THEN map ELSE Replayed(g[n - 1], batches[n])
      <3>1. CASE n = 0
        BY <3>1 DEF Path
      <3>2. CASE n # 0
        <4>1. n \in 1..len /\ n - 1 \in 0..len
          BY <3>2
        <4> QED
          BY <3>2, <4>1 DEF Path
      <3> QED
        BY <3>1, <3>2
    <2> QED
      BY <2>1
  <1>2. found = [n \in 0..len |-> IF n = 0 THEN map ELSE Replayed(found[n - 1], batches[n])]
    <2> HIDE DEF g
    <2> QED
      BY <1>1
  <1> HIDE DEF found, g
  <1> DEFINE N == {n \in Nat : n <= len => found[n] = h[n]}
  <1>3. 0 \in N
    BY <1>2 DEF Path
  <1>4. ASSUME NEW n \in Nat, n \in N PROVE n + 1 \in N
    <2> SUFFICES ASSUME n + 1 <= len PROVE found[n + 1] = h[n + 1]
      OBVIOUS
    <2>1. n + 1 \in 1..len /\ n + 1 \in 0..len /\ (n + 1) - 1 = n /\ n + 1 # 0
      OBVIOUS
    <2>2. found[n] = h[n]
      BY <1>4
    <2>3. found[n + 1] = Replayed(found[n], batches[n + 1])
      BY <1>2, <2>1
    <2>4. h[n + 1] = Replayed(h[n], batches[n + 1])
      BY <2>1 DEF Path
    <2> QED
      BY <2>2, <2>3, <2>4
  <1> HIDE DEF N
  <1>5. len \in N
    BY <1>3, <1>4, Counting
  <1>6. found[len] = h[len]
    BY <1>5 DEF N
  <1> QED
    BY <1>6 DEF found

\* Unless a save failed: the table, with what is being saved and what is queued, is
\* what is in memory, if earlier sessions left it tidy.
THEOREM WritesAddUp == ASSUME Tidy(SavedBefore) PROVE Spec => []WritesTell
  <1>1. ASSUME StoreInv, Told PROVE WritesTell
    <2> DEFINE BeingSaved == CHOOSE f : f = [n \in 0..Len(saving) |->
                 IF n = 0 THEN board ELSE Replayed(f[n - 1], saving[n])]
    <2> SUFFICES ASSUME failures = 0, loading = {}
                 PROVE  Replayed(BeingSaved[Len(saving)], queuedChunkWrites) = chunkMap
      BY DEF WritesTell
    <2>1. PICK h : Path(h, board, saving) /\ Arrives(h)
      BY <1>1 DEF Told
    <2>2. Len(saving) \in Nat
      BY <1>1 DEF StoreInv
    <2>3. BeingSaved[Len(saving)] = h[Len(saving)]
      BY <2>1, <2>2, PathFound
    <2> HIDE DEF BeingSaved
    <2> QED
      BY <2>1, <2>3 DEF Arrives
  <1> QED
    BY <1>1, ExplorerInductive, ToldAlways, PTL

=============================================================================
