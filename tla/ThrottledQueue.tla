--------------------------- MODULE ThrottledQueue ---------------------------
(***************************************************************************)
(* ThrottledConcurrentQueue of packages/df-network: tasks that wait are    *)
(* started under two limits, on how many run at a time and on how many     *)
(* start within an interval.                                               *)
(*                                                                         *)
(* Everything the queue does is done in callbacks of one event loop, each  *)
(* an action here.  Time is kept as ages: Tick makes whatever was recorded *)
(* a millisecond older and the armed timer a millisecond nearer, so that   *)
(* no clock has to be bounded.  A timer may fire late, never early.        *)
(***************************************************************************)
EXTENDS Integers, SequencesExt

CONSTANTS
    NumTasks,                       \* a bound of the model: tasks ever added
    maxInvocationsPerIntervalMs,
    invocationIntervalMs,
    maxConcurrency

\* What the constructor asserts.
ASSUME ConfigAssumption ==
    /\ NumTasks \in Nat
    /\ maxInvocationsPerIntervalMs \in Nat \ {0}
    /\ invocationIntervalMs \in Nat \ {0}
    /\ maxConcurrency \in Nat \ {0}

\* Tasks are numbered in the order they are added.
Tasks == 1..NumTasks

NotStarted == -1
NoTimer == -1

\* An age from which on nothing about it matters.
Old == invocationIntervalMs + 1

VARIABLES
    added,                \* how many tasks were added
    taskQueue,            \* added to the front, popped off the back
    running,              \* tasks whose promise is not settled
    concurrency,
    executionTimestamps,  \* the tasks whose start is recorded, oldest first
    sinceStart,           \* ages: how long ago a task was started
    executionTimeout,     \* until the armed timer fires
    wakeups,              \* calls of executeNextTasks the event loop owes
    prioritized           \* history: the tasks that were put first

vars == <<added, taskQueue, running, concurrency, executionTimestamps,
          sinceStart, executionTimeout, wakeups, prioritized>>

Init ==
    /\ added = 0
    /\ taskQueue = <<>>
    /\ running = {}
    /\ concurrency = 0
    /\ executionTimestamps = <<>>
    /\ sinceStart = [t \in Tasks |-> NotStarted]
    /\ executionTimeout = NoTimer
    /\ wakeups = 0
    /\ prioritized = {}

-----------------------------------------------------------------------------
(* What the users of the queue do. *)

\* A mutant of Enqueued: added where tasks are popped.
EnqueuedLast(t) == Append(taskQueue, t)

Enqueued(t) == <<t>> \o taskQueue

Add ==
    LET t == added + 1 IN
    /\ t \in Tasks
    /\ added' = t
    /\ taskQueue' = Enqueued(t)
    /\ wakeups' = wakeups + 1
    /\ UNCHANGED <<running, concurrency, executionTimestamps, sinceStart,
                   executionTimeout, prioritized>>

\* remove and prioritize throw when the task is not in the queue.
RemoveTask(i) ==
    /\ taskQueue' = RemoveAt(taskQueue, i)
    /\ UNCHANGED <<added, running, concurrency, executionTimestamps, sinceStart,
                   executionTimeout, wakeups, prioritized>>

\* A mutant of PrioritizeTask: the task is not taken out first.
PrioritizeCopy(i) ==
    /\ taskQueue' = Append(taskQueue, taskQueue[i])
    /\ prioritized' = prioritized \cup {taskQueue[i]}
    /\ UNCHANGED <<added, running, concurrency, executionTimestamps, sinceStart,
                   executionTimeout, wakeups>>

PrioritizeTask(i) ==
    /\ taskQueue' = Append(RemoveAt(taskQueue, i), taskQueue[i])
    /\ prioritized' = prioritized \cup {taskQueue[i]}
    /\ UNCHANGED <<added, running, concurrency, executionTimestamps, sinceStart,
                   executionTimeout, wakeups>>

-----------------------------------------------------------------------------
(* executeNextTasks. *)

\* A mutant of Outdated: a start is forgotten a millisecond early.
OutdatedEarly(t) == sinceStart[t] >= invocationIntervalMs

Outdated(t) == sinceStart[t] > invocationIntervalMs

\* What deleteOutdatedExecutionTimestamps keeps.
Recent ==
    LET valid == {i \in DOMAIN executionTimestamps :
                    ~Outdated(executionTimestamps[i])}
    IN  IF valid = {} THEN <<>>
        ELSE SubSeq(executionTimestamps, CHOOSE i \in valid : \A j \in valid : i <= j,
                    Len(executionTimestamps))

\* A mutant of ConcurrencyQuotaRemaining: one too many.
ConcurrencyQuotaAndOne == maxConcurrency - concurrency + 1

ConcurrencyQuotaRemaining == maxConcurrency - concurrency

ThrottleQuotaRemaining == maxInvocationsPerIntervalMs - Len(Recent)

TasksToExecute ==
    Min({ThrottleQuotaRemaining, ConcurrencyQuotaRemaining, Len(taskQueue)})

\* The tasks that calling next as often pops, in that order.
Popped == [i \in 1..TasksToExecute |-> taskQueue[Len(taskQueue) + 1 - i]]

\* A mutant of Delay: the timer is not armed while the throttle is closed.
DelayNone(oldest) == NoTimer

\* nextPossibleExecution as it is written: the age of the oldest start is
\* added to the interval.
Delay(oldest) == oldest + invocationIntervalMs

\* The armed timer is replaced, or left to itself: it is never cancelled.
ArmTimer(armed) ==
    executionTimeout' =
        IF \/ taskQueue' = <<>>
           \/ executionTimestamps' = <<>>
           \/ concurrency' = maxConcurrency
        THEN armed
        ELSE Delay(sinceStart'[Head(executionTimestamps')])

\* next runs up to task.start() without interruption, so the loop is one step.
\* A task returns a promise, as its type says: it does not throw when started.
\* There is always room in executionTimestamps, a circular buffer.
ExecuteNextTasks(armed) ==
    /\ taskQueue' = SubSeq(taskQueue, 1, Len(taskQueue) - TasksToExecute)
    /\ executionTimestamps' = Recent \o Popped
    /\ sinceStart' = [t \in Tasks |-> IF t \in Range(Popped) THEN 0 ELSE sinceStart[t]]
    /\ running' = running \cup Range(Popped)
    /\ concurrency' = concurrency + TasksToExecute
    /\ ArmTimer(armed)
    /\ UNCHANGED <<added, prioritized>>

\* The setTimeout of add, or the continuation of next.
WakeUp ==
    /\ wakeups > 0
    /\ wakeups' = wakeups - 1
    /\ ExecuteNextTasks(executionTimeout)

TimerFires ==
    /\ executionTimeout = 0
    /\ ExecuteNextTasks(NoTimer)
    /\ UNCHANGED wakeups

\* A mutant of AfterTask: next is not followed by executeNextTasks.
AfterTaskNothing == wakeups

AfterTask == wakeups + 1

\* The rest of next: the task's promise has resolved or been rejected.
Settle(t) ==
    /\ t \in running
    /\ running' = running \ {t}
    /\ concurrency' = concurrency - 1
    /\ wakeups' = AfterTask
    /\ UNCHANGED <<added, taskQueue, executionTimestamps, sinceStart,
                   executionTimeout, prioritized>>

Tick ==
    /\ sinceStart' = [t \in Tasks |->
         IF sinceStart[t] \in {NotStarted, Old} THEN sinceStart[t]
         ELSE sinceStart[t] + 1]
    /\ executionTimeout' = IF executionTimeout > 0 THEN executionTimeout - 1
                           ELSE executionTimeout
    /\ UNCHANGED <<added, taskQueue, running, concurrency, executionTimestamps,
                   wakeups, prioritized>>

Next ==
    \/ Add
    \/ \E i \in DOMAIN taskQueue : RemoveTask(i)
    \/ \E i \in DOMAIN taskQueue : PrioritizeTask(i)
    \/ WakeUp
    \/ TimerFires
    \/ \E t \in Tasks : Settle(t)
    \/ Tick

Spec == Init /\ [][Next]_vars

\* The event loop runs what is due, time passes, and every task settles.
FairSpec ==
    /\ Spec
    /\ WF_vars(WakeUp)
    /\ WF_vars(TimerFires)
    /\ WF_vars(Tick)
    /\ \A t \in Tasks : WF_vars(Settle(t))

-----------------------------------------------------------------------------

\* The type of every variable; a task that waits was not started, and no task
\* waits twice.
TypeOK ==
    /\ added \in 0..NumTasks
    /\ taskQueue \in Seq(Tasks)
    /\ \A i \in DOMAIN taskQueue : sinceStart[taskQueue[i]] = NotStarted
    /\ \A i, j \in DOMAIN taskQueue : i # j => taskQueue[i] # taskQueue[j]
    /\ running \in SUBSET Tasks
    /\ concurrency \in Nat
    /\ executionTimestamps \in Seq(Tasks)
    /\ sinceStart \in [Tasks -> {NotStarted} \cup 0..Old]
    /\ executionTimeout \in {NoTimer} \cup Nat
    /\ wakeups \in Nat
    /\ prioritized \in SUBSET Tasks

\* The counter counts the tasks that are running, however completions and
\* executions interleave, and never passes the limit.
ConcurrencyLimit ==
    /\ concurrency = Cardinality(running)
    /\ concurrency <= maxConcurrency

\* "We only allow a certain maximum amount of tasks" in an interval: of no
\* interval, wherever it begins, whichever callbacks started them.
ThrottleLimit ==
    Cardinality({t \in Tasks : sinceStart[t] \in 0..invocationIntervalMs})
      <= maxInvocationsPerIntervalMs

\* While a task waits, something is left that will call executeNextTasks: a
\* call that is owed, the timer, or a task that runs.
NeverStranded ==
    taskQueue # <<>> => wakeups > 0 \/ executionTimeout # NoTimer \/ running # {}

\* A task overtakes another only by having been prioritized.
OrderKept ==
    [][\A t \in running' \ running, u \in Range(taskQueue') :
         /\ u \in prioritized => t \in prioritized
         /\ t \notin prioritized => t < u]_vars

\* Whatever is added is started, unless it is removed.
EveryTaskStarts ==
    \A t \in Tasks : t \in Range(taskQueue) ~> t \notin Range(taskQueue)

=============================================================================
