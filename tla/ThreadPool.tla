----------------------------- MODULE ThreadPool -----------------------------
(***************************************************************************)
(* The class ThreadPool (src/src/jtheadpool.h, src/src/theadpool.cpp): a   *)
(* vector of worker threads, a queue of tasks, one mutex, one condition    *)
(* variable and a stop flag that the destructor sets.                      *)
(*                                                                         *)
(* Every thread takes the mutex in a step of its own, works on the         *)
(* protected members while it holds it, and lets it go in the step that    *)
(* ends the critical section; notify_one and notify_all are called after   *)
(* the mutex has been released, as in the code.                            *)
(*                                                                         *)
(* The pool has one owner, which calls enqueue and, when it is done with   *)
(* the pool, the destructor: in this program the accept loop of JServer    *)
(* and then whoever drops the last reference to the JServer, ordered by    *)
(* the join in JService::_stop.  With NestedEnqueue the tasks themselves   *)
(* may call enqueue too.  No task of this program does, but the class      *)
(* allows it, and it is the only use in which enqueue can meet m_stop on a *)
(* pool that still exists.                                                 *)
(***************************************************************************)
EXTENDS Naturals, Sequences, FiniteSets

CONSTANTS
    Workers,        \* the worker threads, max(threads, 1) of them
    Tasks,          \* the tasks that enqueue may be called with, once each
    Owner,          \* the thread that owns the pool
    Free,           \* m_mutex is not held
    NoTask,         \* an empty std::function
    NestedEnqueue,  \* whether tasks call enqueue
    MaxSpurious     \* bound: spurious wakeups of the condition variable

ASSUME PoolAssumption ==
    /\ Workers # {}
    /\ IsFiniteSet(Workers)
    /\ Owner \notin Workers
    /\ Free \notin Workers \cup {Owner}
    /\ NoTask \notin Tasks
    /\ NestedEnqueue \in BOOLEAN
    /\ MaxSpurious \in Nat

VARIABLES
    m_tasks,    \* the queue of tasks
    m_stop,     \* set by the destructor
    m_mutex,    \* who holds the mutex
    wpc,        \* where each worker is in its loop
    task,       \* the local variable task of each worker
    cpc,        \* where each caller is in enqueue
    arg,        \* the task each caller is enqueueing
    dpc,        \* where the owner is in the destructor
    issued,     \* history: tasks enqueue has been called with
    refused,    \* history: tasks for which enqueue threw
    finished,   \* history: tasks that have been executed
    spurious    \* spurious wakeups so far

histVars == <<issued, refused, finished>>
vars == <<m_tasks, m_stop, m_mutex, wpc, task, cpc, arg, dpc,
          issued, refused, finished, spurious>>

Callers == {Owner} \cup (IF NestedEnqueue THEN Workers ELSE {})
Threads == Workers \cup {Owner}

Init ==
    /\ m_tasks = <<>>
    /\ m_stop = FALSE
    /\ m_mutex = Free
    /\ wpc = [w \in Workers |-> "lock"]
    /\ task = [w \in Workers |-> NoTask]
    /\ cpc = [c \in Callers |-> "idle"]
    /\ arg = [c \in Callers |-> NoTask]
    /\ dpc = "alive"
    /\ issued = {}
    /\ refused = {}
    /\ finished = {}
    /\ spurious = 0

-----------------------------------------------------------------------------
(* Mutations: what some actions below would be with a plausible bug in the *)
(* code.  They take no part in Next; each one shows, put in the place of   *)
(* the action it is named after, that a property tells the difference.     *)

(* The front is moved out but m_tasks.pop() is forgotten. *)
WorkerTakeNoPop(w) ==
    /\ wpc[w] = "check"
    /\ m_tasks # <<>>
    /\ task' = [task EXCEPT ![w] = Head(m_tasks)]
    /\ m_mutex' = Free
    /\ wpc' = [wpc EXCEPT ![w] = "run"]
    /\ UNCHANGED <<m_tasks, m_stop, cpc, arg, dpc, histVars, spurious>>

(* The newest task is taken: a stack in the place of the queue. *)
WorkerTakeNewest(w) ==
    /\ wpc[w] = "check"
    /\ m_tasks # <<>>
    /\ task' = [task EXCEPT ![w] = m_tasks[Len(m_tasks)]]
    /\ m_tasks' = SubSeq(m_tasks, 1, Len(m_tasks) - 1)
    /\ m_mutex' = Free
    /\ wpc' = [wpc EXCEPT ![w] = "run"]
    /\ UNCHANGED <<m_stop, cpc, arg, dpc, histVars, spurious>>

(* if (m_stop) return: the worker ends with tasks still in the queue. *)
WorkerReturnAtOnce(w) ==
    /\ wpc[w] = "check"
    /\ m_stop
    /\ m_mutex' = Free
    /\ wpc' = [wpc EXCEPT ![w] = "exited"]
    /\ UNCHANGED <<m_tasks, m_stop, task, cpc, arg, dpc, histVars, spurious>>

(* The predicate looks at the queue only and not at m_stop. *)
WorkerWaitStopped(w) ==
    /\ wpc[w] = "check"
    /\ m_tasks = <<>>
    /\ m_mutex' = Free
    /\ wpc' = [wpc EXCEPT ![w] = "asleep"]
    /\ UNCHANGED <<m_tasks, m_stop, task, cpc, arg, dpc, histVars, spurious>>

(* The task is dropped when the pool is busy. *)
EnqueueEmplaceBounded(c) ==
    /\ cpc[c] = "locked"
    /\ ~m_stop
    /\ m_tasks' = IF m_tasks = <<>> THEN <<arg[c]>> ELSE m_tasks
    /\ arg' = [arg EXCEPT ![c] = NoTask]
    /\ m_mutex' = Free
    /\ cpc' = [cpc EXCEPT ![c] = "notify"]
    /\ UNCHANGED <<m_stop, wpc, task, dpc, histVars, spurious>>

(* m_condition.notify_one() is forgotten. *)
EnqueueNotifyNobody(c) ==
    /\ cpc[c] = "notify"
    /\ cpc' = [cpc EXCEPT ![c] = "idle"]
    /\ UNCHANGED <<m_tasks, m_stop, m_mutex, wpc, task, arg, dpc, histVars,
                   spurious>>

(* notify_one() in the destructor. *)
DestroyNotifyOne ==
    /\ dpc = "notify"
    /\ \/ /\ \A w \in Workers : wpc[w] # "asleep"
          /\ UNCHANGED wpc
       \/ \E w \in Workers :
             /\ wpc[w] = "asleep"
             /\ wpc' = [wpc EXCEPT ![w] = "lock"]
    /\ dpc' = "join"
    /\ UNCHANGED <<m_tasks, m_stop, m_mutex, task, cpc, arg, histVars, spurious>>

-----------------------------------------------------------------------------
(* A worker: the lambda of the constructor.                                *)

(* std::unique_lock, or the lock that a wait takes again when it wakes.    *)
WorkerLock(w) ==
    /\ wpc[w] = "lock"
    /\ m_mutex = Free
    /\ m_mutex' = w
    /\ wpc' = [wpc EXCEPT ![w] = "check"]
    /\ UNCHANGED <<m_tasks, m_stop, task, cpc, arg, dpc, histVars, spurious>>

(* The predicate is false: release the mutex and sleep, in one step.       *)
WorkerWait(w) ==
    /\ wpc[w] = "check"
    /\ ~m_stop
    /\ m_tasks = <<>>
    /\ m_mutex' = Free
    /\ wpc' = [wpc EXCEPT ![w] = "asleep"]
    /\ UNCHANGED <<m_tasks, m_stop, task, cpc, arg, dpc, histVars, spurious>>

(* Stopped and nothing left to do: the thread ends.                        *)
WorkerReturn(w) ==
    /\ wpc[w] = "check"
    /\ m_stop
    /\ m_tasks = <<>>
    /\ m_mutex' = Free
    /\ wpc' = [wpc EXCEPT ![w] = "exited"]
    /\ UNCHANGED <<m_tasks, m_stop, task, cpc, arg, dpc, histVars, spurious>>

(* Move the front of the queue out, pop it, release the mutex.             *)
WorkerTake(w) ==
    /\ wpc[w] = "check"
    /\ m_tasks # <<>>
    /\ task' = [task EXCEPT ![w] = Head(m_tasks)]
    /\ m_tasks' = Tail(m_tasks)
    /\ m_mutex' = Free
    /\ wpc' = [wpc EXCEPT ![w] = "run"]
    /\ UNCHANGED <<m_stop, cpc, arg, dpc, histVars, spurious>>

(* task() returns (a packaged_task keeps what its function throws) and the *)
(* function object dies with the iteration.                                *)
WorkerFinish(w) ==
    /\ wpc[w] = "run"
    /\ w \in Callers => cpc[w] = "idle"
    /\ finished' = finished \cup {task[w]}
    /\ task' = [task EXCEPT ![w] = NoTask]
    /\ wpc' = [wpc EXCEPT ![w] = "lock"]
    /\ UNCHANGED <<m_tasks, m_stop, m_mutex, cpc, arg, dpc, issued, refused,
                   spurious>>

WorkerStep(w) ==
    \/ WorkerLock(w)
    \/ WorkerWait(w)
    \/ WorkerReturn(w)
    \/ WorkerTake(w)
    \/ WorkerFinish(w)

(* A condition variable may wake a thread that nobody notified.            *)
SpuriousWake(w) ==
    /\ wpc[w] = "asleep"
    /\ spurious < MaxSpurious
    /\ spurious' = spurious + 1
    /\ wpc' = [wpc EXCEPT ![w] = "lock"]
    /\ UNCHANGED <<m_tasks, m_stop, m_mutex, task, cpc, arg, dpc, histVars>>

-----------------------------------------------------------------------------
(* enqueue, called by c.                                                   *)

(* The owner calls it until it destroys the pool, a worker while it runs a *)
(* task.  Each call wraps its function in a new packaged_task.             *)
EnqueueBegin(c, t) ==
    /\ cpc[c] = "idle"
    /\ IF c = Owner THEN dpc = "alive" ELSE wpc[c] = "run"
    /\ t \notin issued
    /\ issued' = issued \cup {t}
    /\ arg' = [arg EXCEPT ![c] = t]
    /\ cpc' = [cpc EXCEPT ![c] = "lock"]
    /\ UNCHANGED <<m_tasks, m_stop, m_mutex, wpc, task, dpc, refused,
                   finished, spurious>>

EnqueueLock(c) ==
    /\ cpc[c] = "lock"
    /\ m_mutex = Free
    /\ m_mutex' = c
    /\ cpc' = [cpc EXCEPT ![c] = "locked"]
    /\ UNCHANGED <<m_tasks, m_stop, wpc, task, arg, dpc, histVars, spurious>>

(* throw std::runtime_error("enqueue on stopped ThreadPool").              *)
EnqueueThrow(c) ==
    /\ cpc[c] = "locked"
    /\ m_stop
    /\ refused' = refused \cup {arg[c]}
    /\ arg' = [arg EXCEPT ![c] = NoTask]
    /\ m_mutex' = Free
    /\ cpc' = [cpc EXCEPT ![c] = "idle"]
    /\ UNCHANGED <<m_tasks, m_stop, wpc, task, dpc, issued, finished, spurious>>

(* m_tasks.emplace, and the end of the block that holds the mutex.         *)
EnqueueEmplace(c) ==
    /\ cpc[c] = "locked"
    /\ ~m_stop
    /\ m_tasks' = Append(m_tasks, arg[c])
    /\ arg' = [arg EXCEPT ![c] = NoTask]
    /\ m_mutex' = Free
    /\ cpc' = [cpc EXCEPT ![c] = "notify"]
    /\ UNCHANGED <<m_stop, wpc, task, dpc, histVars, spurious>>

(* notify_one wakes one sleeping worker, if there is one.                  *)
EnqueueNotify(c) ==
    /\ cpc[c] = "notify"
    /\ \/ /\ \A w \in Workers : wpc[w] # "asleep"
          /\ UNCHANGED wpc
       \/ \E w \in Workers :
             /\ wpc[w] = "asleep"
             /\ wpc' = [wpc EXCEPT ![w] = "lock"]
    /\ cpc' = [cpc EXCEPT ![c] = "idle"]
    /\ UNCHANGED <<m_tasks, m_stop, m_mutex, task, arg, dpc, histVars, spurious>>

EnqueueStep(c) ==
    \/ EnqueueLock(c)
    \/ EnqueueThrow(c)
    \/ EnqueueEmplace(c)
    \/ EnqueueNotify(c)

-----------------------------------------------------------------------------
(* ~ThreadPool, called by the owner.                                       *)

DestroyBegin ==
    /\ dpc = "alive"
    /\ cpc[Owner] = "idle"
    /\ dpc' = "lock"
    /\ UNCHANGED <<m_tasks, m_stop, m_mutex, wpc, task, cpc, arg, histVars,
                   spurious>>

DestroyLock ==
    /\ dpc = "lock"
    /\ m_mutex = Free
    /\ m_mutex' = Owner
    /\ dpc' = "locked"
    /\ UNCHANGED <<m_tasks, m_stop, wpc, task, cpc, arg, histVars, spurious>>

DestroyStop ==
    /\ dpc = "locked"
    /\ m_stop' = TRUE
    /\ m_mutex' = Free
    /\ dpc' = "notify"
    /\ UNCHANGED <<m_tasks, wpc, task, cpc, arg, histVars, spurious>>

DestroyNotifyAll ==
    /\ dpc = "notify"
    /\ wpc' = [w \in Workers |-> IF wpc[w] = "asleep" THEN "lock" ELSE wpc[w]]
    /\ dpc' = "join"
    /\ UNCHANGED <<m_tasks, m_stop, m_mutex, task, cpc, arg, histVars, spurious>>

(* The loop of w.join(): the order of the joins makes no difference.       *)
DestroyJoin ==
    /\ dpc = "join"
    /\ \A w \in Workers : wpc[w] = "exited"
    /\ dpc' = "done"
    /\ UNCHANGED <<m_tasks, m_stop, m_mutex, wpc, task, cpc, arg, histVars,
                   spurious>>

DestroyStep ==
    \/ DestroyLock
    \/ DestroyStop
    \/ DestroyNotifyAll
    \/ DestroyJoin

-----------------------------------------------------------------------------

(* The pool is gone.                                                       *)
Terminated == dpc = "done" /\ UNCHANGED vars

Next ==
    \/ \E w \in Workers : WorkerStep(w) \/ SpuriousWake(w)
    \/ \E c \in Callers : EnqueueStep(c) \/ \E t \in Tasks : EnqueueBegin(c, t)
    \/ DestroyBegin
    \/ DestroyStep
    \/ Terminated

(* Threads are scheduled and the functions they run return; nobody is      *)
(* bound to call enqueue or the destructor, and no thread is woken without *)
(* a reason for sure.                                                      *)
Fairness ==
    /\ \A w \in Workers : WF_vars(WorkerStep(w))
    /\ \A c \in Callers : WF_vars(EnqueueStep(c))
    /\ WF_vars(DestroyStep)

Spec == Init /\ [][Next]_vars /\ Fairness

-----------------------------------------------------------------------------
(* Invariants.                                                             *)

WorkerStates == {"lock", "check", "asleep", "run", "exited"}
CallerStates == {"idle", "lock", "locked", "notify"}
DestroyStates == {"alive", "lock", "locked", "notify", "join", "done"}

(* Every variable has its type; in particular the queue holds tasks and    *)
(* never a moved-from function object.                                     *)
TypeOK ==
    /\ m_tasks \in Seq(Tasks)
    /\ m_stop \in BOOLEAN
    /\ m_mutex \in Threads \cup {Free}
    /\ wpc \in [Workers -> WorkerStates]
    /\ task \in [Workers -> Tasks \cup {NoTask}]
    /\ cpc \in [Callers -> CallerStates]
    /\ arg \in [Callers -> Tasks \cup {NoTask}]
    /\ dpc \in DestroyStates
    /\ issued \in SUBSET Tasks
    /\ refused \in SUBSET Tasks
    /\ finished \in SUBSET Tasks
    /\ spurious \in 0..MaxSpurious

Queued == {m_tasks[i] : i \in 1..Len(m_tasks)}
Running == {w \in Workers : wpc[w] = "run"}
Seekers == {w \in Workers : wpc[w] \in {"lock", "check"}}
Sleepers == {w \in Workers : wpc[w] = "asleep"}
Notifiers == {c \in Callers : cpc[c] = "notify"}
Calling == {c \in Callers : cpc[c] \in {"lock", "locked"}}

(* No task is executed twice: a task stands in the queue once, is held by  *)
(* one worker, and is never still queued, held, or on its way into the     *)
(* queue once it has been executed or refused.                             *)
NoDoubleExecution ==
    /\ \A i, j \in 1..Len(m_tasks) : m_tasks[i] = m_tasks[j] => i = j
    /\ \A v, w \in Running : task[v] = task[w] => v = w
    /\ \A w \in Running : task[w] \notin Queued \cup finished \cup refused
    /\ Queued \cap (finished \cup refused) = {}
    /\ finished \cap refused = {}

(* No task is lost: what enqueue was called with is still being enqueued,  *)
(* queued, held by a worker, executed, or was refused to its caller.       *)
NoTaskLost ==
    issued = {arg[c] : c \in Calling} \cup Queued
             \cup {task[w] : w \in Running} \cup finished \cup refused

(* No wakeup is lost: while some worker sleeps, every queued task has a    *)
(* worker that is awake and on its way to the queue, or a notify_one that  *)
(* is still to come.                                                       *)
NoLostWakeup ==
    Sleepers # {} => Len(m_tasks) <= Cardinality(Seekers)
                                     + Cardinality(Notifiers)

(* Once the destructor has notified, no worker sleeps: none evaluated the  *)
(* predicate before m_stop was set and fell asleep after the notification. *)
NoSleeperMissesStop == dpc \in {"join", "done"} => Sleepers = {}

(* When the destructor returns, every worker has ended and every task that *)
(* was accepted has been executed.                                         *)
DestroyedMeansDrained ==
    dpc = "done" => /\ \A w \in Workers : wpc[w] = "exited"
                    /\ issued = finished \cup refused

-----------------------------------------------------------------------------
(* Temporal properties.                                                    *)

(* Every task for which enqueue was called is executed or refused.         *)
EveryTaskSettled ==
    \A t \in Tasks : t \in issued ~> t \in finished \cup refused

(* The destructor returns: no worker is left behind in its join.           *)
DestructorReturns == dpc = "lock" ~> dpc = "done"

(* The pool is an Executor.                                                *)
Exec == INSTANCE Executor WITH
    Capacity <- Cardinality(Workers),
    pending  <- m_tasks,
    running  <- {task[w] : w \in Running},
    phase    <- IF dpc = "done" THEN "closed"
                ELSE IF m_stop THEN "closing" ELSE "open"

(* What a user sees of the pool is what Executor promises: hand-over order *)
(* is starting order, nothing is started twice, and nothing is left when   *)
(* it is gone, with its liveness.                                          *)
ImplementsExecutor == Exec!Spec

=============================================================================
