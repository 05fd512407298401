------------------------ MODULE ThrottledQueueProofs ------------------------
(***************************************************************************)
(* ThrottledQueue keeps its limits and strands no task, for all values of  *)
(* its constants.                                                          *)
(***************************************************************************)
EXTENDS ThrottledQueue, FiniteSetTheorems, WellFoundedInduction, TLAPS

LEMMA LeastNat ==
  ASSUME NEW S \in SUBSET Nat, S # {}
  PROVE  \E n \in S : \A m \in S : n <= m
  <1>1. PICK n \in S : \A m \in S : ~(<<m, n>> \in OpToRel(<, Nat))
    BY WFMin, NatLessThanWellFounded
  <1>2. ASSUME NEW m \in S PROVE n <= m
    <2>1. ~(<<m, n>> \in {ss \in Nat \X Nat : ss[1] < ss[2]})
      BY <1>1 DEF OpToRel
    <2> QED
      BY <2>1
  <1> QED
    BY <1>2

Fresh == {t \in Tasks : sinceStart[t] \in 0..invocationIntervalMs}

\* What deleteOutdatedExecutionTimestamps keeps is a part of what there was
\* and loses no start that is not outdated.
LEMMA RecentKept ==
  ASSUME TypeOK
  PROVE  /\ Recent \in Seq(Tasks)
         /\ Len(Recent) <= Len(executionTimestamps)
         /\ Fresh \cap Range(executionTimestamps) \subseteq Range(Recent)
  <1> DEFINE ts    == executionTimestamps
             valid == {i \in DOMAIN ts : ~Outdated(ts[i])}
             first == CHOOSE i \in valid : \A j \in valid : i <= j
  <1>1. ts \in Seq(Tasks)
    BY DEF TypeOK
  <1>2. CASE valid = {}
    <2>1. Recent = <<>>
      BY <1>2 DEF Recent
    <2>2. Fresh \cap Range(ts) = {}
      BY <1>1, <1>2, ConfigAssumption DEF Fresh, Range, Outdated, Tasks
    <2> QED
      BY <1>1, <2>1, <2>2
  <1>3. CASE valid # {}
    <2>1. valid \in SUBSET Nat
      BY <1>1
    <2>2. \E i \in valid : \A j \in valid : i <= j
      <3> HIDE DEF valid
      <3> QED
        BY <1>3, <2>1, LeastNat
    <2>3. first \in valid /\ \A j \in valid : first <= j
      <3> HIDE DEF valid
      <3> QED
        BY <2>2
    <2>4. first \in 1..Len(ts)
      BY <1>1, <2>3
    <2>5. Recent = SubSeq(ts, first, Len(ts))
      BY <1>3 DEF Recent
    <2> HIDE DEF first
    <2>6. /\ Recent \in Seq(Tasks)
          /\ Len(Recent) = Len(ts) - first + 1
          /\ \A i \in 1..Len(Recent) : Recent[i] = ts[first + i - 1]
      BY <1>1, <2>4, <2>5
    <2>7. ASSUME NEW t \in Fresh \cap Range(ts) PROVE t \in Range(Recent)
      <3>1. PICK i \in 1..Len(ts) : ts[i] = t
        BY <1>1 DEF Range
      <3>2. i \in valid
        BY <1>1, <3>1, ConfigAssumption DEF Fresh, Outdated
      <3>3. first <= i
        BY <2>3, <3>2
      <3>4. i - first + 1 \in 1..Len(Recent) /\ Recent[i - first + 1] = t
        BY <1>1, <2>4, <2>6, <3>1, <3>3
      <3> QED
        BY <2>6, <3>4 DEF Range
    <2> QED
      BY <1>1, <2>4, <2>6, <2>7
  <1> QED
    BY <1>2, <1>3
-----------------------------------------------------------------------------

\* The inductive invariant.  A running task was started, so that no task that
\* waits is running; every start that still counts is recorded.
IInv ==
    /\ TypeOK
    /\ \A t \in running : sinceStart[t] # NotStarted
    /\ \A i \in DOMAIN taskQueue : taskQueue[i] <= added
    /\ \A t \in Tasks : t > added => sinceStart[t] = NotStarted
    /\ ConcurrencyLimit
    /\ Len(executionTimestamps) <= maxInvocationsPerIntervalMs
    /\ Fresh \subseteq Range(executionTimestamps)
    /\ NeverStranded

LEMMA TasksFinite ==
  /\ IsFiniteSet(Tasks)
  /\ \A S \in SUBSET Tasks : IsFiniteSet(S) /\ Cardinality(S) \in Nat
  <1>1. IsFiniteSet(Tasks)
    BY ConfigAssumption, FS_Interval DEF Tasks
  <1> QED
    BY <1>1, FS_Subset, FS_CardinalityType

\* How many tasks executeNextTasks starts: what all three allow, and one of them
\* stops it there.
LEMMA QuotasObeyed ==
  ASSUME IInv
  PROVE  /\ TasksToExecute \in Nat
         /\ TasksToExecute <= maxInvocationsPerIntervalMs - Len(Recent)
         /\ TasksToExecute <= maxConcurrency - concurrency
         /\ TasksToExecute <= Len(taskQueue)
         /\ \/ TasksToExecute = maxInvocationsPerIntervalMs - Len(Recent)
            \/ TasksToExecute = maxConcurrency - concurrency
            \/ TasksToExecute = Len(taskQueue)
  <1> DEFINE a == maxInvocationsPerIntervalMs - Len(Recent)
             b == maxConcurrency - concurrency
             c == Len(taskQueue)
  <1>1. a \in Nat
    BY RecentKept, ConfigAssumption DEF IInv, TypeOK
  <1>2. b \in Nat
    BY ConfigAssumption DEF IInv, TypeOK, ConcurrencyLimit
  <1>3. c \in Nat
    BY DEF IInv, TypeOK
  <1>4. TasksToExecute = CHOOSE x \in {a, b, c} : \A y \in {a, b, c} : x <= y
    BY DEF TasksToExecute, Min, ThrottleQuotaRemaining, ConcurrencyQuotaRemaining
  <1> HIDE DEF a, b, c
  <1>5. \E x \in {a, b, c} : \A y \in {a, b, c} : x <= y
    BY <1>1, <1>2, <1>3
  <1>6. /\ TasksToExecute \in {a, b, c}
        /\ \A y \in {a, b, c} : TasksToExecute <= y
    BY <1>4, <1>5
  <1> QED
    BY <1>1, <1>2, <1>3, <1>6 DEF a, b, c

\* The tasks it starts waited, each once, and so were not running.
LEMMA PoppedWaited ==
  ASSUME IInv
  PROVE  /\ Popped \in Seq(Tasks)
         /\ Len(Popped) = TasksToExecute
         /\ Range(Popped) \in SUBSET Tasks
         /\ \A t \in Range(Popped) :
              /\ sinceStart[t] = NotStarted
              /\ t <= added
              /\ \A i \in 1..(Len(taskQueue) - TasksToExecute) : taskQueue[i] # t
         /\ Cardinality(Range(Popped)) = TasksToExecute
         /\ Range(Popped) \cap running = {}
  <1> DEFINE k == TasksToExecute
             n == Len(taskQueue)
  <1>1. k \in Nat /\ n \in Nat /\ k <= n /\ taskQueue \in Seq(Tasks)
    BY QuotasObeyed DEF IInv, TypeOK
  <1>2. Popped = [i \in 1..k |-> taskQueue[n + 1 - i]]
    BY DEF Popped
  <1> HIDE DEF k
  <1>3. Popped \in [1..k -> Tasks]
    BY <1>1, <1>2
  <1>4. Popped \in Seq(Tasks) /\ Len(Popped) = k /\ DOMAIN Popped = 1..k
    BY <1>1, <1>3
  <1>5. Range(Popped) \in SUBSET Tasks
    BY <1>3 DEF Range
  <1>6. ASSUME NEW t \in Range(Popped)
        PROVE  \E j \in (n + 1 - k)..n : taskQueue[j] = t
    <2>1. PICK i \in 1..k : Popped[i] = t
      BY <1>4 DEF Range
    <2>2. n + 1 - i \in (n + 1 - k)..n /\ taskQueue[n + 1 - i] = t
      BY <1>1, <1>2, <2>1
    <2> QED
      BY <2>2
  <1>7. \A t \in Range(Popped) :
          /\ sinceStart[t] = NotStarted
          /\ t <= added
          /\ \A i \in 1..(n - k) : taskQueue[i] # t
    <2> TAKE t \in Range(Popped)
    <2>1. PICK j \in (n + 1 - k)..n : taskQueue[j] = t
      BY <1>6
    <2>2. j \in DOMAIN taskQueue
      BY <1>1, <2>1
    <2>3. sinceStart[t] = NotStarted /\ t <= added
      BY <2>1, <2>2 DEF IInv, TypeOK
    <2>4. \A i \in 1..(n - k) : i \in DOMAIN taskQueue /\ i # j
      BY <1>1
    <2>5. \A i \in 1..(n - k) : taskQueue[i] # t
      BY <2>1, <2>2, <2>4 DEF IInv, TypeOK
    <2> QED
      BY <2>3, <2>5
  <1>8. Cardinality(Range(Popped)) = k
    <2>1. \A i, j \in 1..k : Popped[i] = Popped[j] => i = j
      <3> SUFFICES ASSUME NEW i \in 1..k, NEW j \in 1..k, i # j
                   PROVE  Popped[i] # Popped[j]
        OBVIOUS
      <3>1. n + 1 - i \in DOMAIN taskQueue /\ n + 1 - j \in DOMAIN taskQueue
        BY <1>1
      <3>2. n + 1 - i # n + 1 - j
        BY <1>1
      <3> QED
        BY <1>2, <3>1, <3>2 DEF IInv, TypeOK
    <2>2. Popped \in Injection(1..k, Range(Popped))
      BY <1>3, <2>1 DEF Injection, IsInjective, Range
    <2>3. Popped \in Surjection(1..k, Range(Popped))
      BY <1>3 DEF Surjection, Range
    <2>4. IsFiniteSet(1..k) /\ Cardinality(1..k) = k
      BY <1>1, FS_Interval
    <2>5. Cardinality(Range(Popped)) = Cardinality(1..k)
      BY <2>2, <2>3, <2>4, FS_Surjection
    <2> QED
      BY <2>4, <2>5
  <1>9. Range(Popped) \cap running = {}
    BY <1>7 DEF IInv
  <1> QED
    BY <1>4, <1>5, <1>7, <1>8, <1>9 DEF k

-----------------------------------------------------------------------------

LEMMA InitHolds == Init => IInv
  <1> SUFFICES ASSUME Init PROVE IInv
    OBVIOUS
  <1>1. TypeOK
    BY ConfigAssumption DEF Init, TypeOK, Tasks, NotStarted, NoTimer
  <1>2. ConcurrencyLimit
    BY ConfigAssumption, FS_EmptySet DEF Init, ConcurrencyLimit
  <1>3. Fresh = {}
    BY ConfigAssumption DEF Init, Fresh, NotStarted
  <1>4. NeverStranded
    BY DEF Init, NeverStranded
  <1> QED
    BY <1>1, <1>2, <1>3, <1>4, ConfigAssumption DEF Init, IInv

\* What the starts of executeNextTasks do, whatever the timer is.
LEMMA ExecuteHolds ==
  ASSUME IInv, NEW armed \in {NoTimer} \cup Nat, ExecuteNextTasks(armed),
         wakeups' \in Nat
  PROVE  IInv'
  <1> DEFINE k == TasksToExecute
             n == Len(taskQueue)
  <1>1. k \in Nat /\ n \in Nat /\ k <= n /\ taskQueue \in Seq(Tasks)
    BY QuotasObeyed DEF IInv, TypeOK
  <1>2. /\ taskQueue' \in Seq(Tasks)
        /\ Len(taskQueue') = n - k
        /\ DOMAIN taskQueue' = 1..(n - k)
        /\ \A i \in 1..(n - k) : i \in DOMAIN taskQueue /\ taskQueue'[i] = taskQueue[i]
    <2>1. taskQueue' = SubSeq(taskQueue, 1, n - k)
      BY DEF ExecuteNextTasks
    <2> HIDE DEF k
    <2> QED
      BY <1>1, <2>1
  <1>3. /\ Popped \in Seq(Tasks)
        /\ Len(Popped) = k
        /\ Range(Popped) \in SUBSET Tasks
        /\ \A t \in Range(Popped) :
             /\ sinceStart[t] = NotStarted
             /\ t <= added
             /\ \A i \in 1..(n - k) : taskQueue[i] # t
        /\ Cardinality(Range(Popped)) = k
        /\ Range(Popped) \cap running = {}
    BY PoppedWaited
  <1>4. sinceStart' = [t \in Tasks |-> IF t \in Range(Popped) THEN 0 ELSE sinceStart[t]]
    BY DEF ExecuteNextTasks
  <1>5. executionTimestamps' = Recent \o Popped
    BY DEF ExecuteNextTasks
  <1>6. Recent \in Seq(Tasks) /\ Fresh \cap Range(executionTimestamps) \subseteq Range(Recent)
    BY RecentKept DEF IInv
  <1>7. /\ executionTimestamps' \in Seq(Tasks)
        /\ Len(executionTimestamps') = Len(Recent) + k
        /\ Range(executionTimestamps') = Range(Recent) \cup Range(Popped)
    <2> HIDE DEF k
    <2>1. /\ executionTimestamps' \in Seq(Tasks)
          /\ Len(executionTimestamps') = Len(Recent) + k
      <3>1. /\ Recent \o Popped \in Seq(Tasks)
            /\ Len(Recent \o Popped) = Len(Recent) + Len(Popped)
        BY <1>3, <1>6
      <3> QED
        BY <1>3, <1>5, <3>1
    <2>2. \A i \in 1..Len(Recent) : executionTimestamps'[i] = Recent[i]
      BY <1>3, <1>5, <1>6
    <2>3. \A i \in 1..k : executionTimestamps'[Len(Recent) + i] = Popped[i]
      BY <1>3, <1>5, <1>6
    <2>4. Range(Recent) \cup Range(Popped) \subseteq Range(executionTimestamps')
      <3>1. \A i \in 1..Len(Recent) : i \in DOMAIN executionTimestamps'
        BY <1>1, <1>6, <2>1
      <3>2. \A i \in 1..k : Len(Recent) + i \in DOMAIN executionTimestamps'
        BY <1>1, <1>6, <2>1
      <3>3. DOMAIN Recent = 1..Len(Recent) /\ DOMAIN Popped = 1..k
        BY <1>3, <1>6
      <3> QED
        BY <2>2, <2>3, <3>1, <3>2, <3>3 DEF Range
    <2>5. ASSUME NEW i \in DOMAIN executionTimestamps'
          PROVE  executionTimestamps'[i] \in Range(Recent) \cup Range(Popped)
      <3>1. DOMAIN Recent = 1..Len(Recent) /\ DOMAIN Popped = 1..k /\ Len(Recent) \in Nat
        BY <1>3, <1>6
      <3>2. i \in 1..(Len(Recent) + k)
        BY <2>1
      <3>3. CASE i \in 1..Len(Recent)
        BY <2>2, <3>1, <3>3 DEF Range
      <3>4. CASE i - Len(Recent) \in 1..k
        <4>1. executionTimestamps'[i] = Popped[i - Len(Recent)]
          BY <2>3, <3>1, <3>2, <3>4
        <4> QED
          BY <3>1, <3>4, <4>1 DEF Range
      <3> QED
        BY <1>1, <3>1, <3>2, <3>3, <3>4
    <2> QED
      BY <2>1, <2>4, <2>5 DEF Range
  <1>8. sinceStart' \in [Tasks -> {NotStarted} \cup 0..Old]
    BY <1>4, ConfigAssumption DEF IInv, TypeOK, Old
  <1>9. running' = running \cup Range(Popped) /\ concurrency' = concurrency + k
    BY DEF ExecuteNextTasks
  <1>10. added' = added /\ prioritized' = prioritized
    BY DEF ExecuteNextTasks
  <1>11. executionTimeout' \in {NoTimer} \cup Nat
    <2>1. CASE taskQueue' = <<>> \/ executionTimestamps' = <<>> \/ concurrency' = maxConcurrency
      BY <2>1 DEF ExecuteNextTasks, ArmTimer
    <2>2. CASE ~(taskQueue' = <<>> \/ executionTimestamps' = <<>> \/ concurrency' = maxConcurrency)
      <3>1. Head(executionTimestamps') \in Tasks
        BY <1>7, <2>2
      <3>2. sinceStart'[Head(executionTimestamps')] \in {NotStarted} \cup 0..Old
        BY <1>8, <3>1
      <3>3. executionTimeout' = sinceStart'[Head(executionTimestamps')] + invocationIntervalMs
        BY <2>2 DEF ExecuteNextTasks, ArmTimer, Delay
      <3> QED
        BY <3>2, <3>3, ConfigAssumption DEF NotStarted, Old
    <2> QED
      BY <2>1, <2>2
  <1>12. TypeOK'
    <2>1. \A i \in DOMAIN taskQueue' : sinceStart'[taskQueue'[i]] = NotStarted
      <3> TAKE i \in DOMAIN taskQueue'
      <3>1. i \in DOMAIN taskQueue /\ taskQueue'[i] = taskQueue[i] /\ i \in 1..(n - k)
        BY <1>2
      <3>2. taskQueue[i] \in Tasks /\ taskQueue[i] \notin Range(Popped)
        BY <1>1, <1>3, <3>1
      <3> QED
        BY <1>4, <3>1, <3>2 DEF IInv, TypeOK
    <2>2. \A i, j \in DOMAIN taskQueue' : i # j => taskQueue'[i] # taskQueue'[j]
      BY <1>2 DEF IInv, TypeOK
    <2>3. running' \in SUBSET Tasks /\ concurrency' \in Nat
      BY <1>1, <1>3, <1>9 DEF IInv, TypeOK
    <2>4. added' \in 0..NumTasks /\ prioritized' \in SUBSET Tasks
      BY <1>10 DEF IInv, TypeOK
    <2> QED
      BY <1>2, <1>7, <1>8, <1>11, <2>1, <2>2, <2>3, <2>4 DEF TypeOK
  <1>13. \A t \in running' : sinceStart'[t] # NotStarted
    <2> TAKE t \in running'
    <2>1. t \in Tasks
      BY <1>3, <1>9 DEF IInv, TypeOK
    <2> QED
      BY <1>4, <1>9, <2>1 DEF IInv, NotStarted
  <1>14. \A i \in DOMAIN taskQueue' : taskQueue'[i] <= added'
    BY <1>2, <1>10 DEF IInv
  <1>15. \A t \in Tasks : t > added' => sinceStart'[t] = NotStarted
    <2> SUFFICES ASSUME NEW t \in Tasks, t > added PROVE sinceStart'[t] = NotStarted
      BY <1>10
    <2>1. t \notin Range(Popped)
      <3>1. t \in Nat /\ added \in Nat
        BY ConfigAssumption DEF Tasks, IInv, TypeOK
      <3> QED
        BY <1>3, <3>1
    <2> QED
      BY <1>4, <2>1 DEF IInv
  <1>16. ConcurrencyLimit'
    <2>1. IsFiniteSet(running) /\ IsFiniteSet(Range(Popped))
      BY <1>3, TasksFinite DEF IInv, TypeOK
    <2>2. Cardinality(running') = Cardinality(running) + k
      <3>1. Cardinality(running \cup Range(Popped)) =
              Cardinality(running) + Cardinality(Range(Popped))
                - Cardinality(running \cap Range(Popped))
        BY <2>1, FS_Union
      <3>2. running \cap Range(Popped) = {} /\ Cardinality({}) = 0
        BY <1>3, FS_EmptySet
      <3>3. Cardinality(running) \in Nat
        BY <2>1, FS_CardinalityType
      <3>4. Cardinality(running') = Cardinality(running) + k - 0
        BY <1>3, <1>9, <3>1, <3>2
      <3> QED
        BY <1>1, <3>3, <3>4
    <2>3. k <= maxConcurrency - concurrency
      BY QuotasObeyed
    <2> HIDE DEF k
    <2>4. concurrency + k <= maxConcurrency
      BY <1>1, <2>3, ConfigAssumption DEF IInv, TypeOK
    <2> QED
      BY <1>9, <2>2, <2>4 DEF IInv, ConcurrencyLimit
  <1>17. Len(executionTimestamps') <= maxInvocationsPerIntervalMs
    <2>1. k <= maxInvocationsPerIntervalMs - Len(Recent)
      BY QuotasObeyed
    <2>2. Len(Recent) \in Nat
      BY <1>6
    <2> HIDE DEF k
    <2> QED
      BY <1>1, <1>7, <2>1, <2>2, ConfigAssumption
  <1>18. Fresh' \subseteq Range(executionTimestamps')
    <2> SUFFICES ASSUME NEW t \in Fresh' PROVE t \in Range(executionTimestamps')
      OBVIOUS
    <2>1. t \in Tasks /\ sinceStart'[t] \in 0..invocationIntervalMs
      BY DEF Fresh, Tasks
    <2>2. CASE t \notin Range(Popped)
      <3>1. t \in Fresh
        BY <1>4, <2>1, <2>2 DEF Fresh
      <3> QED
        BY <1>6, <1>7, <3>1 DEF IInv
    <2> QED
      BY <1>7, <2>2
  <1>19. NeverStranded'
    <2> SUFFICES ASSUME taskQueue' # <<>>
                 PROVE  executionTimeout' # NoTimer \/ running' # {}
      BY DEF NeverStranded
    <2>1. CASE concurrency' = maxConcurrency
      <3>1. Cardinality(running') # 0
        BY <1>16, <2>1, ConfigAssumption DEF ConcurrencyLimit
      <3> QED
        BY <3>1, FS_EmptySet
    <2>2. CASE concurrency' # maxConcurrency /\ executionTimestamps' # <<>>
      <3>1. Head(executionTimestamps') \in Range(executionTimestamps')
        BY <1>7, <2>2 DEF Range
      <3>2. Head(executionTimestamps') \in Tasks
        BY <1>7, <2>2
      <3>3. executionTimeout' = sinceStart'[Head(executionTimestamps')] + invocationIntervalMs
        BY <2>2 DEF ExecuteNextTasks, ArmTimer, Delay
      <3>4. sinceStart'[Head(executionTimestamps')] \in {NotStarted} \cup 0..Old
        BY <1>8, <3>2
      <3> QED
        BY <3>3, <3>4, ConfigAssumption DEF NotStarted, NoTimer, Old
    <2>3. CASE concurrency' # maxConcurrency /\ executionTimestamps' = <<>>
      <3>1. Len(Recent) = 0 /\ k = 0
        <4>1. Len(executionTimestamps') = 0
          BY <2>3
        <4>2. Len(Recent) \in Nat
          BY <1>6
        <4>3. k \in Nat /\ Len(executionTimestamps') = Len(Recent) + k
          BY <1>1, <1>7
        <4> HIDE DEF k
        <4> QED
          BY <4>1, <4>2, <4>3
      <3>2. n # 0
        <4>1. Len(taskQueue') # 0
          BY <1>2
        <4> QED
          BY <1>1, <1>2, <3>1, <4>1
      <3>3. k # maxInvocationsPerIntervalMs - Len(Recent)
        BY <3>1, ConfigAssumption
      <3>4. k # maxConcurrency - concurrency
        BY <1>9, <2>3, <3>1, ConfigAssumption DEF IInv, TypeOK
      <3> QED
        BY <3>1, <3>2, <3>3, <3>4, QuotasObeyed
    <2> QED
      BY <2>1, <2>2, <2>3
  <1> QED
    BY <1>12, <1>13, <1>14, <1>15, <1>16, <1>17, <1>18, <1>19 DEF IInv

LEMMA AddHolds == IInv /\ Add => IInv'
  <1> SUFFICES ASSUME IInv, Add PROVE IInv'
    OBVIOUS
  <1> DEFINE t == added + 1
  <1>1. t \in Tasks /\ added' = t /\ added \in Nat /\ taskQueue \in Seq(Tasks)
    BY DEF Add, IInv, TypeOK
  <1>2. sinceStart[t] = NotStarted
    BY <1>1 DEF IInv
  <1>3. /\ taskQueue' \in Seq(Tasks)
        /\ DOMAIN taskQueue' = 1..(Len(taskQueue) + 1)
        /\ taskQueue'[1] = t
        /\ \A i \in DOMAIN taskQueue' :
             i # 1 => i - 1 \in DOMAIN taskQueue /\ taskQueue'[i] = taskQueue[i - 1]
    <2>1. taskQueue' = <<t>> \o taskQueue
      BY DEF Add, Enqueued
    <2> HIDE DEF t
    <2> QED
      BY <1>1, <2>1
  <1>4. UNCHANGED <<running, concurrency, executionTimestamps, sinceStart,
                    executionTimeout, prioritized>>
    BY DEF Add
  <1>5. wakeups' \in Nat /\ wakeups' > 0
    BY DEF Add, IInv, TypeOK
  <1>6. \A i \in DOMAIN taskQueue : taskQueue[i] < t /\ taskQueue[i] \in Nat
    BY <1>1, ConfigAssumption DEF IInv, Tasks
  <1>7. TypeOK'
    <2>1. \A i \in DOMAIN taskQueue' : sinceStart'[taskQueue'[i]] = NotStarted
      BY <1>2, <1>3, <1>4 DEF IInv, TypeOK
    <2>2. \A i, j \in DOMAIN taskQueue' : i # j => taskQueue'[i] # taskQueue'[j]
      <3> SUFFICES ASSUME NEW i \in DOMAIN taskQueue', NEW j \in DOMAIN taskQueue',
                          i < j
                   PROVE  taskQueue'[i] # taskQueue'[j]
        BY <1>1, <1>3
      <3>1. j # 1 /\ i - 1 # j - 1
        BY <1>1, <1>3
      <3>2. CASE i = 1
        BY <1>3, <1>6, <3>1, <3>2
      <3>3. CASE i # 1
        BY <1>3, <3>1, <3>3 DEF IInv, TypeOK
      <3> QED
        BY <3>2, <3>3
    <2> QED
      BY <1>1, <1>3, <1>4, <1>5, <2>1, <2>2, ConfigAssumption DEF IInv, TypeOK, Tasks
  <1>8. \A i \in DOMAIN taskQueue' : taskQueue'[i] <= added'
    BY <1>1, <1>3, <1>6
  <1>9. \A u \in Tasks : u > added' => sinceStart'[u] = NotStarted
    BY <1>1, <1>4 DEF IInv, Tasks
  <1> QED
    BY <1>4, <1>5, <1>7, <1>8, <1>9 DEF IInv, ConcurrencyLimit, Fresh, NeverStranded

\* Taking a task out of a sequence leaves the others in their order.
LEMMA RemoveAtFacts ==
  ASSUME NEW S, NEW s \in Seq(S), NEW i \in DOMAIN s
  PROVE  /\ RemoveAt(s, i) \in Seq(S)
         /\ DOMAIN RemoveAt(s, i) = 1..(Len(s) - 1)
         /\ \A j \in 1..(Len(s) - 1) :
              RemoveAt(s, i)[j] = s[IF j < i THEN j ELSE j + 1]
  <1> DEFINE a == SubSeq(s, 1, i - 1)
             b == SubSeq(s, i + 1, Len(s))
  <1>1. i \in 1..Len(s) /\ Len(s) \in Nat
    OBVIOUS
  <1>2. /\ a \in Seq(S) /\ Len(a) = i - 1
        /\ \A j \in 1..(i - 1) : a[j] = s[j]
    BY <1>1
  <1>3. /\ b \in Seq(S) /\ Len(b) = Len(s) - i
        /\ \A j \in 1..(Len(s) - i) : b[j] = s[i + j]
    BY <1>1
  <1>4. RemoveAt(s, i) = a \o b
    BY DEF RemoveAt
  <1> HIDE DEF a, b
  <1>5. /\ a \o b \in Seq(S)
        /\ Len(a \o b) = Len(s) - 1
        /\ \A j \in 1..(i - 1) : (a \o b)[j] = a[j]
        /\ \A j \in i..(Len(s) - 1) : (a \o b)[j] = b[j - i + 1]
    BY <1>1, <1>2, <1>3
  <1>6. \A j \in i..(Len(s) - 1) : (a \o b)[j] = s[j + 1]
    <2> TAKE j \in i..(Len(s) - 1)
    <2>1. j - i + 1 \in 1..(Len(s) - i) /\ i + (j - i + 1) = j + 1
      BY <1>1
    <2>2. b[j - i + 1] = s[j + 1]
      BY <1>3, <2>1
    <2> QED
      BY <1>5, <2>2
  <1>7. \A j \in 1..(i - 1) : (a \o b)[j] = s[j]
    BY <1>1, <1>2, <1>5
  <1>8. \A j \in 1..(Len(s) - 1) : (a \o b)[j] = s[IF j < i THEN j ELSE j + 1]
    <2> TAKE j \in 1..(Len(s) - 1)
    <2>1. CASE j < i
      <3>1. j \in 1..(i - 1)
        BY <1>1, <2>1
      <3> QED
        BY <1>7, <2>1, <3>1
    <2>2. CASE ~(j < i)
      <3>1. j \in i..(Len(s) - 1)
        BY <1>1, <2>2
      <3> QED
        BY <1>6, <2>2, <3>1
    <2> QED
      BY <2>1, <2>2
  <1>9. DOMAIN (a \o b) = 1..(Len(s) - 1)
    BY <1>5
  <1> QED
    BY <1>4, <1>5, <1>8, <1>9

LEMMA RemoveHolds ==
  ASSUME IInv, NEW i \in DOMAIN taskQueue, RemoveTask(i)
  PROVE  IInv'
  <1> DEFINE n  == Len(taskQueue)
             At(j) == IF j < i THEN j ELSE j + 1
  <1>1. taskQueue \in Seq(Tasks) /\ n \in Nat /\ i \in 1..n
    BY DEF IInv, TypeOK
  <1>2. /\ taskQueue' \in Seq(Tasks)
        /\ DOMAIN taskQueue' = 1..(n - 1)
        /\ \A j \in 1..(n - 1) : taskQueue'[j] = taskQueue[At(j)]
    BY <1>1, RemoveAtFacts DEF RemoveTask
  <1>3. \A j \in 1..(n - 1) : At(j) \in DOMAIN taskQueue
    BY <1>1
  <1>4. \A j, k \in 1..(n - 1) : j # k => At(j) # At(k)
    BY <1>1
  <1>5. UNCHANGED <<added, running, concurrency, executionTimestamps, sinceStart,
                    executionTimeout, wakeups, prioritized>>
    BY DEF RemoveTask
  <1> HIDE DEF At, n
  <1>6. \A j \in DOMAIN taskQueue' :
          sinceStart[taskQueue'[j]] = NotStarted /\ taskQueue'[j] <= added
    BY <1>2, <1>3 DEF IInv, TypeOK
  <1>7. \A j, k \in DOMAIN taskQueue' : j # k => taskQueue'[j] # taskQueue'[k]
    BY <1>2, <1>3, <1>4 DEF IInv, TypeOK
  <1>8. TypeOK'
    BY <1>2, <1>5, <1>6, <1>7 DEF IInv, TypeOK
  <1>9. taskQueue' # <<>> => taskQueue # <<>>
    BY <1>1
  <1> QED
    BY <1>5, <1>6, <1>8, <1>9 DEF IInv, ConcurrencyLimit, Fresh, NeverStranded

LEMMA PrioritizeHolds ==
  ASSUME IInv, NEW i \in DOMAIN taskQueue, PrioritizeTask(i)
  PROVE  IInv'
  <1> DEFINE n  == Len(taskQueue)
             rest == RemoveAt(taskQueue, i)
             At(j) == IF j = n THEN i ELSE IF j < i THEN j ELSE j + 1
  <1>1. taskQueue \in Seq(Tasks) /\ n \in Nat /\ i \in 1..n /\ taskQueue[i] \in Tasks
    BY DEF IInv, TypeOK
  <1>2. /\ rest \in Seq(Tasks)
        /\ DOMAIN rest = 1..(n - 1)
        /\ \A j \in 1..(n - 1) : rest[j] = taskQueue[IF j < i THEN j ELSE j + 1]
    BY <1>1, RemoveAtFacts
  <1>3. taskQueue' = Append(rest, taskQueue[i])
    BY DEF PrioritizeTask
  <1> HIDE DEF rest
  <1>4. Len(rest) = n - 1
    BY <1>1, <1>2
  <1>5. /\ taskQueue' \in Seq(Tasks)
        /\ DOMAIN taskQueue' = 1..n
        /\ taskQueue'[n] = taskQueue[i]
        /\ \A j \in 1..(n - 1) : taskQueue'[j] = rest[j]
    BY <1>1, <1>2, <1>3, <1>4
  <1>6. \A j \in 1..n : taskQueue'[j] = taskQueue[At(j)]
    BY <1>1, <1>2, <1>5
  <1>7. \A j \in 1..n : At(j) \in DOMAIN taskQueue
    BY <1>1
  <1>8. \A j, k \in 1..n : j # k => At(j) # At(k)
    BY <1>1
  <1>9. /\ UNCHANGED <<added, running, concurrency, executionTimestamps, sinceStart,
                       executionTimeout, wakeups>>
        /\ prioritized' \in SUBSET Tasks
    BY <1>1 DEF PrioritizeTask, IInv, TypeOK
  <1> HIDE DEF At
  <1>10. \A j \in DOMAIN taskQueue' :
          sinceStart[taskQueue'[j]] = NotStarted /\ taskQueue'[j] <= added
    BY <1>5, <1>6, <1>7 DEF IInv, TypeOK
  <1>11. \A j, k \in DOMAIN taskQueue' : j # k => taskQueue'[j] # taskQueue'[k]
    BY <1>5, <1>6, <1>7, <1>8 DEF IInv, TypeOK
  <1>12. TypeOK'
    BY <1>5, <1>9, <1>10, <1>11 DEF IInv, TypeOK
  <1>13. taskQueue # <<>>
    BY <1>1
  <1> QED
    BY <1>9, <1>10, <1>12, <1>13 DEF IInv, ConcurrencyLimit, Fresh, NeverStranded

LEMMA SettleHolds ==
  ASSUME IInv, NEW t \in Tasks, Settle(t)
  PROVE  IInv'
  <1>1. /\ t \in running
        /\ running' = running \ {t}
        /\ concurrency' = concurrency - 1
        /\ wakeups' = wakeups + 1
        /\ UNCHANGED <<added, taskQueue, executionTimestamps, sinceStart,
                       executionTimeout, prioritized>>
    BY DEF Settle, AfterTask
  <1>2. ConcurrencyLimit' /\ concurrency' \in Nat
    <2>1. IsFiniteSet(running)
      BY TasksFinite DEF IInv, TypeOK
    <2>2. Cardinality(running') = Cardinality(running) - 1
      BY <1>1, <2>1, FS_RemoveElement
    <2>3. Cardinality(running') \in Nat
      BY <1>1, <2>1, TasksFinite DEF IInv, TypeOK
    <2> QED
      BY <1>1, <2>2, <2>3, ConfigAssumption DEF IInv, TypeOK, ConcurrencyLimit
  <1>3. wakeups' \in Nat /\ wakeups' > 0
    BY <1>1 DEF IInv, TypeOK
  <1>4. TypeOK'
    BY <1>1, <1>2, <1>3 DEF IInv, TypeOK
  <1> QED
    BY <1>1, <1>2, <1>3, <1>4 DEF IInv, Fresh, NeverStranded

LEMMA TickHolds == IInv /\ Tick => IInv'
  <1> SUFFICES ASSUME IInv, Tick PROVE IInv'
    OBVIOUS
  <1>1. /\ UNCHANGED <<added, taskQueue, running, concurrency, executionTimestamps,
                       wakeups, prioritized>>
        /\ sinceStart' = [t \in Tasks |->
             IF sinceStart[t] \in {NotStarted, Old} THEN sinceStart[t]
             ELSE sinceStart[t] + 1]
        /\ executionTimeout' = IF executionTimeout > 0 THEN executionTimeout - 1
                               ELSE executionTimeout
    BY DEF Tick
  <1>2. sinceStart \in [Tasks -> {NotStarted} \cup 0..Old]
    BY DEF IInv, TypeOK
  <1>3. \A t \in Tasks :
          /\ sinceStart'[t] \in {NotStarted} \cup 0..Old
          /\ sinceStart'[t] = NotStarted <=> sinceStart[t] = NotStarted
          /\ sinceStart'[t] \in 0..invocationIntervalMs =>
               sinceStart[t] \in 0..invocationIntervalMs
    BY <1>1, <1>2, ConfigAssumption DEF NotStarted, Old
  <1>4. sinceStart' \in [Tasks -> {NotStarted} \cup 0..Old]
    BY <1>1, <1>3
  <1>5. /\ executionTimeout' \in {NoTimer} \cup Nat
        /\ executionTimeout' = NoTimer <=> executionTimeout = NoTimer
    BY <1>1 DEF IInv, TypeOK, NoTimer
  <1>6. TypeOK'
    <2>1. \A i \in DOMAIN taskQueue : sinceStart'[taskQueue[i]] = NotStarted
      BY <1>3 DEF IInv, TypeOK
    <2> QED
      BY <1>1, <1>4, <1>5, <2>1 DEF IInv, TypeOK
  <1>7. Fresh' \subseteq Fresh
    BY <1>3 DEF Fresh, Tasks
  <1>8. \A t \in running' : sinceStart'[t] # NotStarted
    BY <1>1, <1>3 DEF IInv, TypeOK
  <1>9. \A t \in Tasks : t > added' => sinceStart'[t] = NotStarted
    BY <1>1, <1>3 DEF IInv
  <1> QED
    BY <1>1, <1>5, <1>6, <1>7, <1>8, <1>9 DEF IInv, ConcurrencyLimit, NeverStranded

LEMMA StepHolds == IInv /\ [Next]_vars => IInv'
  <1> SUFFICES ASSUME IInv, [Next]_vars PROVE IInv'
    OBVIOUS
  <1>1. CASE WakeUp
    <2>1. wakeups' \in Nat /\ executionTimeout \in {NoTimer} \cup Nat
      BY <1>1 DEF WakeUp, IInv, TypeOK
    <2> QED
      BY <1>1, <2>1, ExecuteHolds DEF WakeUp
  <1>2. CASE TimerFires
    <2>1. wakeups' \in Nat
      BY <1>2 DEF TimerFires, IInv, TypeOK
    <2> QED
      BY <1>2, <2>1, ExecuteHolds DEF TimerFires
  <1>3. CASE UNCHANGED vars
    BY <1>3 DEF vars, IInv, TypeOK, ConcurrencyLimit, Fresh, NeverStranded
  <1> QED
    BY <1>1, <1>2, <1>3, AddHolds, RemoveHolds, PrioritizeHolds, SettleHolds,
       TickHolds DEF Next

-----------------------------------------------------------------------------

\* IInv is an invariant.
THEOREM QueueInductive == Spec => []IInv
  <1> QED
    BY InitHolds, StepHolds, PTL DEF Spec

\* Types are kept, and no task waits twice or after it was started.
THEOREM QueueTypes == Spec => []TypeOK
  <1>1. IInv => TypeOK
    BY DEF IInv
  <1> QED
    BY <1>1, QueueInductive, PTL

\* Never more tasks run than maxConcurrency.
THEOREM ConcurrencyKept == Spec => []ConcurrencyLimit
  <1>1. IInv => ConcurrencyLimit
    BY DEF IInv
  <1> QED
    BY <1>1, QueueInductive, PTL

\* In no interval more tasks start than maxInvocationsPerIntervalMs: those that
\* started are all recorded, and no more are recorded than that.
THEOREM ThrottleKept == Spec => []ThrottleLimit
  <1>1. IInv => ThrottleLimit
    <2> SUFFICES ASSUME IInv PROVE ThrottleLimit
      OBVIOUS
    <2> DEFINE ts == executionTimestamps
    <2>1. ts \in Seq(Tasks) /\ Len(ts) <= maxInvocationsPerIntervalMs /\ Len(ts) \in Nat
      BY DEF IInv, TypeOK
    <2>2. ts \in Surjection(1..Len(ts), Range(ts))
      BY <2>1 DEF Surjection, Range
    <2>3. IsFiniteSet(1..Len(ts)) /\ Cardinality(1..Len(ts)) = Len(ts)
      BY <2>1, FS_Interval
    <2>4. IsFiniteSet(Range(ts)) /\ Cardinality(Range(ts)) <= Len(ts)
      BY <2>2, <2>3, FS_Surjection
    <2>5. Cardinality(Fresh) <= Cardinality(Range(ts)) /\ IsFiniteSet(Fresh)
      BY <2>4, FS_Subset DEF IInv
    <2>6. Cardinality(Fresh) \in Nat /\ Cardinality(Range(ts)) \in Nat
      BY <2>4, <2>5, FS_CardinalityType
    <2>7. Cardinality(Fresh) <= maxInvocationsPerIntervalMs
      BY <2>1, <2>4, <2>5, <2>6, ConfigAssumption
    <2> QED
      BY <2>7 DEF ThrottleLimit, Fresh
  <1> QED
    BY <1>1, QueueInductive, PTL

\* No task that waits is forgotten.
THEOREM NothingStranded == Spec => []NeverStranded
  <1>1. IInv => NeverStranded
    BY DEF IInv
  <1> QED
    BY <1>1, QueueInductive, PTL

-----------------------------------------------------------------------------

\* Who waits further from the end of the queue may be overtaken.
Overtakes(t, u) ==
    /\ u \in prioritized => t \in prioritized
    /\ t \notin prioritized => t < u

\* The order of the queue: prioritized tasks are at its end, the others before
\* them, the first added last.
Ordered ==
    /\ \A t \in prioritized : t <= added
    /\ \A i, j \in DOMAIN taskQueue :
         i < j => Overtakes(taskQueue[j], taskQueue[i])

LEMMA OrderStep ==
  ASSUME IInv, Ordered, [Next]_vars
  PROVE  Ordered'
  <1> DEFINE n == Len(taskQueue)
  <1>1. /\ taskQueue \in Seq(Tasks) /\ n \in Nat /\ added \in Nat
        /\ \A i \in DOMAIN taskQueue : taskQueue[i] <= added /\ taskQueue[i] \in Nat
    BY ConfigAssumption DEF IInv, TypeOK, Tasks
  <1>2. CASE Add
    <2>1. /\ added' = added + 1 /\ prioritized' = prioritized
          /\ taskQueue' = <<added + 1>> \o taskQueue
      BY <1>2 DEF Add, Enqueued
    <2>2. /\ DOMAIN taskQueue' = 1..(n + 1)
          /\ taskQueue'[1] = added + 1
          /\ \A i \in 2..(n + 1) : taskQueue'[i] = taskQueue[i - 1]
      BY <1>1, <2>1
    <2>3. added + 1 \notin prioritized
      BY <1>1 DEF Ordered
    <2>4. ASSUME NEW i \in 1..(n + 1), NEW j \in 1..(n + 1), i < j
          PROVE  Overtakes(taskQueue'[j], taskQueue'[i])
      <3>1. j \in 2..(n + 1) /\ j - 1 \in DOMAIN taskQueue
        BY <1>1, <2>4
      <3>2. CASE i = 1
        BY <1>1, <2>2, <2>3, <3>1, <3>2 DEF Overtakes
      <3>3. CASE i # 1
        <4>1. i \in 2..(n + 1) /\ i - 1 \in DOMAIN taskQueue /\ i - 1 < j - 1
          BY <1>1, <2>4, <3>3
        <4> QED
          BY <2>2, <3>1, <4>1 DEF Ordered
      <3> QED
        BY <3>2, <3>3
    <2>5. \A t \in prioritized' : t <= added'
      BY <1>1, <2>1, ConfigAssumption DEF Ordered, IInv, TypeOK, Tasks
    <2> QED
      BY <2>1, <2>2, <2>4, <2>5 DEF Ordered, Overtakes
  <1>3. ASSUME NEW i \in DOMAIN taskQueue, RemoveTask(i)
        PROVE  Ordered'
    <2> DEFINE At(j) == IF j < i THEN j ELSE j + 1
    <2>1. /\ DOMAIN taskQueue' = 1..(n - 1)
          /\ \A j \in 1..(n - 1) : taskQueue'[j] = taskQueue[At(j)]
      BY <1>1, <1>3, RemoveAtFacts DEF RemoveTask
    <2>2. \A j, k \in 1..(n - 1) : j < k => /\ At(j) \in DOMAIN taskQueue
                                            /\ At(k) \in DOMAIN taskQueue
                                            /\ At(j) < At(k)
      BY <1>1
    <2> HIDE DEF At
    <2> QED
      BY <1>3, <2>1, <2>2 DEF RemoveTask, Ordered, Overtakes
  <1>4. ASSUME NEW i \in DOMAIN taskQueue, PrioritizeTask(i)
        PROVE  Ordered'
    <2> DEFINE rest == RemoveAt(taskQueue, i)
               At(j) == IF j < i THEN j ELSE j + 1
    <2>1. /\ rest \in Seq(Tasks)
          /\ DOMAIN rest = 1..(n - 1)
          /\ \A j \in 1..(n - 1) : rest[j] = taskQueue[At(j)]
      BY <1>1, RemoveAtFacts
    <2>2. /\ taskQueue' = Append(rest, taskQueue[i])
          /\ prioritized' = prioritized \cup {taskQueue[i]}
          /\ added' = added
      BY <1>4 DEF PrioritizeTask
    <2> HIDE DEF rest
    <2>3. i \in 1..n /\ Len(rest) = n - 1
      BY <1>1, <2>1
    <2>4. /\ DOMAIN taskQueue' = 1..n
          /\ taskQueue'[n] = taskQueue[i]
          /\ \A j \in 1..(n - 1) : taskQueue'[j] = rest[j]
      BY <1>1, <2>1, <2>2, <2>3
    <2>5. \A j, k \in 1..(n - 1) : j < k => /\ At(j) \in DOMAIN taskQueue
                                            /\ At(k) \in DOMAIN taskQueue
                                            /\ At(j) < At(k)
      BY <1>1
    <2>6. \A j \in 1..(n - 1) : At(j) \in DOMAIN taskQueue /\ At(j) # i
      BY <1>1
    <2>7. \A j \in 1..(n - 1) : taskQueue'[j] = taskQueue[At(j)]
      BY <2>1, <2>4
    <2> HIDE DEF At
    <2>8. \A j \in 1..(n - 1) : taskQueue'[j] # taskQueue[i]
      BY <2>6, <2>7 DEF IInv, TypeOK
    <2>9. ASSUME NEW j \in 1..n, NEW k \in 1..n, j < k
          PROVE  /\ taskQueue'[j] \in prioritized' => taskQueue'[k] \in prioritized'
                 /\ taskQueue'[k] \notin prioritized' => taskQueue'[k] < taskQueue'[j]
      <3>1. CASE k = n
        BY <2>2, <2>4, <3>1
      <3>2. CASE k # n
        <4>1. j \in 1..(n - 1) /\ k \in 1..(n - 1)
          BY <1>1, <2>9, <3>2
        <4>2. Overtakes(taskQueue[At(k)], taskQueue[At(j)])
          BY <2>5, <2>9, <4>1 DEF Ordered
        <4> QED
          BY <2>2, <2>7, <2>8, <4>1, <4>2 DEF Overtakes
      <3> QED
        BY <3>1, <3>2
    <2>10. \A t \in prioritized' : t <= added'
      BY <1>1, <2>2 DEF Ordered
    <2> QED
      BY <2>4, <2>9, <2>10 DEF Ordered, Overtakes
  <1>5. ASSUME NEW armed, ExecuteNextTasks(armed)
        PROVE  Ordered'
    <2> DEFINE k == TasksToExecute
    <2>1. k \in Nat /\ k <= n
      BY QuotasObeyed
    <2>2. /\ taskQueue' = SubSeq(taskQueue, 1, n - k)
          /\ added' = added /\ prioritized' = prioritized
      BY <1>5 DEF ExecuteNextTasks
    <2> HIDE DEF k
    <2>3. \A i \in DOMAIN taskQueue' : /\ i \in DOMAIN taskQueue
                                       /\ taskQueue'[i] = taskQueue[i]
      BY <1>1, <2>1, <2>2
    <2> QED
      BY <2>2, <2>3 DEF Ordered, Overtakes
  <1>6. CASE \/ \E t \in Tasks : Settle(t)
             \/ Tick
             \/ UNCHANGED vars
    BY <1>6 DEF Settle, Tick, vars, Ordered, Overtakes
  <1> QED
    BY <1>2, <1>3, <1>4, <1>5, <1>6 DEF Next, WakeUp, TimerFires

\* What a step that starts tasks takes them from: the end of the queue.
OrderOfStep ==
    \A t \in running' \ running, u \in Range(taskQueue') :
        /\ u \in prioritized => t \in prioritized
        /\ t \notin prioritized => t < u

LEMMA StartsInOrder ==
  ASSUME IInv, Ordered, [Next]_vars
  PROVE  [OrderOfStep]_vars
  <1>1. ASSUME NEW armed, ExecuteNextTasks(armed),
               NEW t \in running' \ running, NEW u \in Range(taskQueue')
        PROVE  Overtakes(t, u)
    <2> DEFINE k == TasksToExecute
               n == Len(taskQueue)
    <2>1. k \in Nat /\ k <= n /\ n \in Nat /\ taskQueue \in Seq(Tasks)
      BY QuotasObeyed DEF IInv, TypeOK
    <2>2. t \in Range(Popped)
      BY <1>1 DEF ExecuteNextTasks
    <2>3. Popped = [i \in 1..k |-> taskQueue[n + 1 - i]]
      BY DEF Popped
    <2>4. taskQueue' = SubSeq(taskQueue, 1, n - k)
      BY <1>1 DEF ExecuteNextTasks
    <2> HIDE DEF k
    <2>5. PICK p \in 1..k : taskQueue[n + 1 - p] = t
      BY <2>2, <2>3 DEF Range
    <2>6. PICK i \in 1..(n - k) : taskQueue[i] = u
      BY <2>1, <2>4 DEF Range
    <2>7. i \in DOMAIN taskQueue /\ n + 1 - p \in DOMAIN taskQueue /\ i < n + 1 - p
      BY <2>1
    <2> QED
      BY <2>5, <2>6, <2>7 DEF Ordered
  <1>2. CASE WakeUp \/ TimerFires
    BY <1>1, <1>2 DEF WakeUp, TimerFires, OrderOfStep, Overtakes
  <1>3. CASE ~(WakeUp \/ TimerFires)
    <2>1. UNCHANGED vars \/ running' \subseteq running
      BY <1>3 DEF Next, Add, RemoveTask, PrioritizeTask, Settle, Tick
    <2> QED
      BY <2>1 DEF OrderOfStep
  <1> QED
    BY <1>2, <1>3

\* Nothing overtakes but what was prioritized.
THEOREM OrderIsKept == Spec => OrderKept
  <1>1. Init => Ordered
    BY DEF Init, Ordered
  <1>2. Spec => []Ordered
    BY <1>1, OrderStep, QueueInductive, PTL DEF Spec
  <1>3. Spec => [][OrderOfStep]_vars
    BY <1>2, StartsInOrder, QueueInductive, PTL DEF Spec
  <1>4. OrderKept <=> [][OrderOfStep]_vars
    BY DEF OrderKept, OrderOfStep
  <1> QED
    BY <1>3, <1>4, PTL


=============================================================================
