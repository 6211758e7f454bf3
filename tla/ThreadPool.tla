----------------------------- MODULE ThreadPool -----------------------------
(***************************************************************************)
(* untwine/ThreadPool: worker threads, a task queue of bounded or unbounded*)
(* length, and the error list.  One client, the owner, joins, stops,       *)
(* restarts and awaits the pool; every client may add tasks.               *)
(*                                                                         *)
(* Every action is one critical section of m_mutex together with the       *)
(* notify_all that follows it: a thread that is about to sleep holds the   *)
(* mutex from its test to its wait, so a later notify finds it asleep.     *)
(*                                                                         *)
(* An operator marked "Fault" is no part of the specification: it is the   *)
(* definition below it with a plausible bug, which a property must catch.  *)
(***************************************************************************)
EXTENDS Integers, Sequences, FiniteSets

CONSTANTS
    Workers,        \* the threads go() starts (numThreads of them)
    Clients,        \* threads that call add()
    Owner,          \* the client that owns the pool
    Tasks,          \* the tasks there are to add; each is added at most once
    NoTask,
    QueueSizes,     \* the values of m_queueSize; a negative one is no bound
    SharedBounded,  \* may several clients add to a bounded pool?
    MaxRestarts     \* bound: calls of go() after the constructor's

ASSUME PoolAssumption ==
    /\ IsFiniteSet(Workers) /\ Workers # {}     \* numThreads is at least 1
    /\ Owner \in Clients /\ NoTask \notin Tasks
    /\ QueueSizes \subseteq Int \ {0} /\ SharedBounded \in BOOLEAN
    /\ MaxRestarts \in Nat

VARIABLES
    queueSize,      \* m_queueSize
    tasks,          \* m_tasks
    running,        \* m_running
    outstanding,    \* m_outstanding
    errors,         \* m_errors: the tasks whose exception it holds
    wpc,            \* where each worker thread is
    held,           \* the task each worker has taken
    cpc,            \* where each client is
    adding,         \* the task each client is adding
    restarts,
    accepted,       \* history: tasks add() has taken
    ran,            \* history: how often each task was run
    threw,          \* history: tasks that ended in an exception with a message
    reported        \* history: tasks whose exception clearErrors() returned

poolVars == <<tasks, running, outstanding, errors>>
vars == <<queueSize, tasks, running, outstanding, errors, wpc, held, cpc, adding,
          restarts, accepted, ran, threw, reported>>

Init ==
    /\ queueSize \in QueueSizes
    /\ tasks = <<>> /\ running = TRUE /\ outstanding = 0 /\ errors = {}
    /\ wpc = [w \in Workers |-> "test"]
    /\ held = [w \in Workers |-> NoTask]
    /\ cpc = [c \in Clients |-> "ready"]
    /\ adding = [c \in Clients |-> NoTask]
    /\ restarts = 0
    /\ accepted = {} /\ threw = {} /\ reported = {}
    /\ ran = [t \in Tasks |-> 0]

\* Fault: a task taken or done does not wake add().
WakeAwaiter == [c \in Clients |-> IF cpc[c] = "awaitAsleep" THEN "awaitWoken" ELSE cpc[c]]

\* notify_all on m_consumeCv and on m_produceCv.
WakeWorkers == [w \in Workers |-> IF wpc[w] = "asleep" THEN "test" ELSE wpc[w]]
WakeClients == [c \in Clients |->
    CASE cpc[c] = "adderAsleep" -> "adderWoken"
      [] cpc[c] = "awaitAsleep" -> "awaitWoken"
      [] OTHER -> cpc[c]]

Room == queueSize < 0 \/ Len(tasks) < queueSize
Idle == outstanding = 0 /\ tasks = <<>>
Gone == \A w \in Workers : wpc[w] = "gone"

-----------------------------------------------------------------------------
(* add().                                                                  *)

\* Fault: add() does not notify.
PushSilently(c, t) ==
    /\ Room
    /\ tasks' = Append(tasks, t)
    /\ accepted' = accepted \cup {t}
    /\ cpc' = [cpc EXCEPT ![c] = "ready"]
    /\ adding' = [adding EXCEPT ![c] = NoTask]
    /\ UNCHANGED <<wpc, running, outstanding, errors, held, restarts, ran, threw, reported>>

Push(c, t) ==
    /\ Room
    /\ tasks' = Append(tasks, t)
    /\ accepted' = accepted \cup {t}
    /\ wpc' = WakeWorkers
    /\ cpc' = [cpc EXCEPT ![c] = "ready"]
    /\ adding' = [adding EXCEPT ![c] = NoTask]
    /\ UNCHANGED <<running, outstanding, errors, held, restarts, ran, threw, reported>>

\* A call on a pool that is not running returns false and changes nothing.
\* The program adds from several threads to unbounded pools only.
Add(c, t) ==
    /\ cpc[c] = "ready" /\ running
    /\ c = Owner \/ queueSize < 0 \/ SharedBounded
    /\ t \notin accepted /\ \A d \in Clients : adding[d] # t
    /\ \/ Push(c, t)
       \/ /\ ~Room
          /\ cpc' = [cpc EXCEPT ![c] = "adderAsleep"]
          /\ adding' = [adding EXCEPT ![c] = t]
          /\ UNCHANGED <<poolVars, wpc, held, restarts, accepted, ran, threw, reported>>

\* After its wait add() does not look at m_running again.
AddWoken(c) ==
    /\ cpc[c] = "adderWoken"
    /\ \/ Push(c, adding[c])
       \/ /\ ~Room
          /\ cpc' = [cpc EXCEPT ![c] = "adderAsleep"]
          /\ UNCHANGED <<poolVars, wpc, held, adding, restarts, accepted, ran, threw, reported>>

-----------------------------------------------------------------------------
(* work().                                                                 *)

\* Faults: the task stays on the queue, or is not counted.
PeekTask(w) ==
    /\ wpc[w] = "test" /\ tasks # <<>>
    /\ held' = [held EXCEPT ![w] = Head(tasks)]
    /\ outstanding' = outstanding + 1
    /\ wpc' = [wpc EXCEPT ![w] = "run"]
    /\ cpc' = WakeClients
    /\ UNCHANGED <<tasks, running, errors, adding, restarts, accepted, ran, threw, reported>>
TakeUncounted(w) ==
    /\ wpc[w] = "test" /\ tasks # <<>>
    /\ held' = [held EXCEPT ![w] = Head(tasks)]
    /\ tasks' = Tail(tasks)
    /\ wpc' = [wpc EXCEPT ![w] = "run"]
    /\ cpc' = WakeClients
    /\ UNCHANGED <<outstanding, running, errors, adding, restarts, accepted, ran, threw,
                   reported>>

TakeTask(w) ==
    /\ wpc[w] = "test" /\ tasks # <<>>
    /\ held' = [held EXCEPT ![w] = Head(tasks)]
    /\ tasks' = Tail(tasks)
    /\ outstanding' = outstanding + 1
    /\ wpc' = [wpc EXCEPT ![w] = "run"]
    /\ cpc' = WakeClients
    /\ UNCHANGED <<running, errors, adding, restarts, accepted, ran, threw, reported>>

\* Faults: an error replaces the earlier ones, or await() is not woken.
RunTaskOverwriting(w) ==
    /\ wpc[w] = "run"
    /\ ran' = [ran EXCEPT ![held[w]] = @ + 1]
    /\ \/ errors' = {held[w]} /\ threw' = threw \cup {held[w]}
       \/ UNCHANGED <<errors, threw>>
    /\ outstanding' = outstanding - 1
    /\ held' = [held EXCEPT ![w] = NoTask]
    /\ wpc' = [wpc EXCEPT ![w] = "test"]
    /\ cpc' = WakeClients
    /\ UNCHANGED <<tasks, running, adding, restarts, accepted, reported>>
RunTaskSilently(w) ==
    /\ wpc[w] = "run"
    /\ ran' = [ran EXCEPT ![held[w]] = @ + 1]
    /\ outstanding' = outstanding - 1
    /\ held' = [held EXCEPT ![w] = NoTask]
    /\ wpc' = [wpc EXCEPT ![w] = "test"]
    /\ UNCHANGED <<cpc, errors, threw, tasks, running, adding, restarts, accepted, reported>>

\* The task runs outside the lock; then its exception, if it had one with a
\* message, is recorded.  (m_trap is set: without it an exception ends the
\* process.)
RunTask(w) ==
    /\ wpc[w] = "run"
    /\ ran' = [ran EXCEPT ![held[w]] = @ + 1]
    /\ \/ errors' = errors \cup {held[w]} /\ threw' = threw \cup {held[w]}
       \/ UNCHANGED <<errors, threw>>
    /\ outstanding' = outstanding - 1
    /\ held' = [held EXCEPT ![w] = NoTask]
    /\ wpc' = [wpc EXCEPT ![w] = "test"]
    /\ cpc' = WakeClients
    /\ UNCHANGED <<tasks, running, adding, restarts, accepted, reported>>

\* Fault: a pool that is not running leaves its queue.
LeaveTasks(w) ==
    /\ wpc[w] = "test" /\ (tasks = <<>> \/ ~running)
    /\ wpc' = [wpc EXCEPT ![w] = IF running THEN "asleep" ELSE "gone"]
    /\ UNCHANGED <<poolVars, held, cpc, adding, restarts, accepted, ran, threw, reported>>

\* Nothing to do: sleep while the pool runs, leave when it does not.
NoWork(w) ==
    /\ wpc[w] = "test" /\ tasks = <<>>
    /\ wpc' = [wpc EXCEPT ![w] = IF running THEN "asleep" ELSE "gone"]
    /\ UNCHANGED <<poolVars, held, cpc, adding, restarts, accepted, ran, threw, reported>>

-----------------------------------------------------------------------------
(* The owner: join() and stop(), go(), await(), clearErrors().             *)

\* Fault: join() does not wake the workers.
JoinSilently ==
    /\ cpc[Owner] = "ready" /\ running
    /\ running' = FALSE
    /\ cpc' = [cpc EXCEPT ![Owner] = "joining"]
    /\ UNCHANGED <<wpc, tasks, outstanding, errors, held, adding, restarts, accepted, ran,
                   threw, reported>>

JoinBegin ==
    /\ cpc[Owner] = "ready" /\ running
    /\ running' = FALSE
    /\ wpc' = WakeWorkers
    /\ cpc' = [cpc EXCEPT ![Owner] = "joining"]
    /\ UNCHANGED <<tasks, outstanding, errors, held, adding, restarts, accepted, ran,
                   threw, reported>>

\* All threads are joined; stop() goes on to clear the queue.
JoinEnd ==
    /\ cpc[Owner] = "joining" /\ Gone
    /\ cpc' = [cpc EXCEPT ![Owner] = "ready"]
    /\ tasks' \in {tasks, <<>>}
    /\ UNCHANGED <<running, outstanding, errors, wpc, held, adding, restarts, accepted,
                   ran, threw, reported>>

Go ==
    /\ cpc[Owner] = "ready" /\ ~running /\ restarts < MaxRestarts
    /\ running' = TRUE
    /\ wpc' = [w \in Workers |-> "test"]
    /\ restarts' = restarts + 1
    /\ UNCHANGED <<tasks, outstanding, errors, held, cpc, adding, accepted, ran, threw,
                   reported>>

Await ==
    /\ cpc[Owner] \in {"ready", "awaitWoken"}
    /\ IF Idle THEN cpc[Owner] = "awaitWoken" /\ cpc' = [cpc EXCEPT ![Owner] = "ready"]
               ELSE cpc' = [cpc EXCEPT ![Owner] = "awaitAsleep"]
    /\ UNCHANGED <<poolVars, wpc, held, adding, restarts, accepted, ran, threw, reported>>

ClearErrors ==
    /\ cpc[Owner] = "ready" /\ errors # {}
    /\ reported' = reported \cup errors
    /\ errors' = {}
    /\ UNCHANGED <<tasks, running, outstanding, wpc, held, cpc, adding, restarts, accepted,
                   ran, threw>>

-----------------------------------------------------------------------------
ClientStep(c) == AddWoken(c) \/ \E t \in Tasks : Add(c, t)
WorkerStep(w) == TakeTask(w) \/ RunTask(w) \/ NoWork(w)
OwnerStep == JoinBegin \/ JoinEnd \/ Go \/ Await \/ ClearErrors

\* The owner may be done with the pool.
Finished == ~running /\ Gone /\ UNCHANGED vars

Next ==
    /\ UNCHANGED queueSize
    /\ \/ \E c \in Clients : ClientStep(c)
       \/ \E w \in Workers : WorkerStep(w)
       \/ OwnerStep
       \/ Finished

Spec == Init /\ [][Next]_vars

\* Worker threads run, a woken or joining client runs; nobody has to call.
Fairness ==
    /\ \A w \in Workers : WF_vars(WorkerStep(w) /\ UNCHANGED queueSize)
    /\ \A c \in Clients : WF_vars(AddWoken(c) /\ UNCHANGED queueSize)
    /\ WF_vars(JoinEnd /\ UNCHANGED queueSize)
    /\ WF_vars(cpc[Owner] = "awaitWoken" /\ Await /\ UNCHANGED queueSize)

FairSpec == Spec /\ Fairness

-----------------------------------------------------------------------------
(* Properties.                                                             *)

Queued == {tasks[i] : i \in 1..Len(tasks)}
InHand == {w \in Workers : wpc[w] = "run"}
Done   == {t \in Tasks : ran[t] > 0}

TypeOK ==
    /\ tasks \in Seq(Tasks) /\ running \in BOOLEAN /\ outstanding \in Nat
    /\ errors \subseteq Tasks
    /\ wpc \in [Workers -> {"test", "asleep", "run", "gone"}]
    /\ held \in [Workers -> Tasks \cup {NoTask}]
    /\ cpc \in [Clients -> {"ready", "adderAsleep", "adderWoken", "joining",
                            "awaitAsleep", "awaitWoken"}]
    /\ adding \in [Clients -> Tasks \cup {NoTask}]
    /\ restarts \in Nat
    /\ accepted \subseteq Tasks /\ threw \subseteq Tasks /\ reported \subseteq Tasks
    /\ ran \in [Tasks -> Nat]

\* A task that add() took is on the queue, with a worker, or has been run;
\* never two of these, and never run twice.
EachTaskOnce ==
    /\ accepted = Queued \cup {held[w] : w \in InHand} \cup Done
    /\ \A t \in Tasks : ran[t] <= 1
    /\ \A w \in InHand : ran[held[w]] = 0 /\ held[w] \notin Queued
    /\ \A i \in 1..Len(tasks) : ran[tasks[i]] = 0
    /\ \A i, j \in 1..Len(tasks) : tasks[i] = tasks[j] => i = j
    /\ \A v, w \in InHand : held[v] = held[w] => v = w

\* When join() has returned every task the pool accepted has been run, and no
\* thread is in one ("Disallow the addition of new tasks and wait for all
\* currently running tasks to complete", ThreadPool.hpp:73).
JoinRunsAll ==
    ~running /\ cpc[Owner] # "joining" => accepted = Done /\ outstanding = 0

\* m_outstanding, await()'s test, counts the tasks that are being run.
OutstandingCounts == outstanding = Cardinality(InHand)

\* An exception of a task stays until clearErrors() hands it to the owner.
ErrorsReachOwner == threw = errors \cup reported

\* No notify is lost: with tasks waiting, not every worker sleeps or has left.
NoLostWakeup ==
    running /\ tasks # <<>> => \E w \in Workers : wpc[w] \in {"test", "run"}

\* Every call returns: join(), however the queue and the workers stand when it is
\* called; await(), which the last task to end wakes; and an add() that waits for
\* room in a bounded queue.
CallsReturn ==
    /\ cpc[Owner] = "joining" ~> cpc[Owner] = "ready"
    /\ cpc[Owner] \in {"awaitAsleep", "awaitWoken"} ~> cpc[Owner] = "ready"
    /\ \A c \in Clients : cpc[c] \in {"adderAsleep", "adderWoken"} ~> cpc[c] = "ready"
=============================================================================
