-------------------------- MODULE ThreadPoolProofs --------------------------
(***************************************************************************)
(* Theorems about ThreadPool, for every number of workers and of tasks,    *)
(* with and without tasks that enqueue tasks.  The argument is in layers,  *)
(* each inductive relative to the ones before it:                          *)
(*                                                                         *)
(*   TypeInv       the types, and that a task in hand is a task;           *)
(*   Control       how the program counters, m_stop and the queue fit;     *)
(*   NoLostWakeup  a count of the workers awake; needs the types only;     *)
(*   Whereabouts   every task is in one place; needs the types.            *)
(***************************************************************************)
EXTENDS ThreadPool, TLAPS, FiniteSetTheorems, SequenceTheorems

(* The threads that call enqueue are threads, and the owner is one of them. *)
LEMMA CallersAreThreads == Owner \in Callers /\ Callers \subseteq Threads
  BY DEF Callers, Threads

-----------------------------------------------------------------------------
(* Types.                                                                  *)

(* A caller between the entry of enqueue and the end of its critical       *)
(* section, and a worker in task(), have a task in hand.                   *)
InHand ==
    /\ \A c \in Calling : arg[c] \in Tasks
    /\ \A w \in Running : task[w] \in Tasks

TypeInv == TypeOK /\ InHand

(* The pool starts well typed.                                             *)
LEMMA TypeInit == Init => TypeInv
<1> SUFFICES ASSUME Init PROVE TypeInv
  OBVIOUS
<1>1. m_tasks \in Seq(Tasks)
  BY EmptySeq DEF Init
<1>2. wpc \in [Workers -> WorkerStates] /\ task \in [Workers -> Tasks \cup {NoTask}]
  BY DEF Init, WorkerStates
<1>3. cpc \in [Callers -> CallerStates] /\ arg \in [Callers -> Tasks \cup {NoTask}]
  BY DEF Init, CallerStates
<1>4. spurious \in 0..MaxSpurious
  BY PoolAssumption DEF Init
<1>5. InHand
  BY DEF Init, InHand, Calling, Running
<1> QED
  BY <1>1, <1>2, <1>3, <1>4, <1>5 DEF Init, TypeInv, TypeOK, DestroyStates

(* No action of the code gives a member or a local variable a value that   *)
(* is not of its type, or enters task() or the queue with an empty         *)
(* function.                                                               *)
LEMMA TypeNext == TypeInv /\ [Next]_vars => TypeInv'
<1> SUFFICES ASSUME TypeInv, [Next]_vars PROVE TypeInv'
  OBVIOUS
<1> USE PoolAssumption, CallersAreThreads
        DEF TypeInv, TypeOK, InHand, Calling, Running, WorkerStates, CallerStates,
            DestroyStates, Threads, histVars
<1>1. ASSUME NEW w \in Workers, WorkerLock(w) PROVE TypeInv'
  BY <1>1 DEF WorkerLock
<1>2. ASSUME NEW w \in Workers, WorkerWait(w) PROVE TypeInv'
  BY <1>2 DEF WorkerWait
<1>3. ASSUME NEW w \in Workers, WorkerReturn(w) PROVE TypeInv'
  BY <1>3 DEF WorkerReturn
<1>4. ASSUME NEW w \in Workers, WorkerTake(w) PROVE TypeInv'
  <2>1. Head(m_tasks) \in Tasks /\ Tail(m_tasks) \in Seq(Tasks)
    BY <1>4, HeadTailProperties DEF WorkerTake
  <2> QED
    BY <1>4, <2>1 DEF WorkerTake
<1>5. ASSUME NEW w \in Workers, WorkerFinish(w) PROVE TypeInv'
  <2>1. task[w] \in Tasks
    BY <1>5 DEF WorkerFinish
  <2> QED
    BY <1>5, <2>1 DEF WorkerFinish
<1>6. ASSUME NEW w \in Workers, SpuriousWake(w) PROVE TypeInv'
  BY <1>6 DEF SpuriousWake
<1>7. ASSUME NEW c \in Callers, NEW t \in Tasks, EnqueueBegin(c, t) PROVE TypeInv'
  BY <1>7 DEF EnqueueBegin
<1>8. ASSUME NEW c \in Callers, EnqueueLock(c) PROVE TypeInv'
  BY <1>8 DEF EnqueueLock
<1>9. ASSUME NEW c \in Callers, EnqueueThrow(c) PROVE TypeInv'
  <2>1. arg[c] \in Tasks
    BY <1>9 DEF EnqueueThrow
  <2> QED
    BY <1>9, <2>1 DEF EnqueueThrow
<1>10. ASSUME NEW c \in Callers, EnqueueEmplace(c) PROVE TypeInv'
  <2>1. arg[c] \in Tasks
    BY <1>10 DEF EnqueueEmplace
  <2>2. Append(m_tasks, arg[c]) \in Seq(Tasks)
    BY <2>1, AppendProperties
  <2> QED
    BY <1>10, <2>2 DEF EnqueueEmplace
<1>11. ASSUME NEW c \in Callers, EnqueueNotify(c) PROVE TypeInv'
  BY <1>11 DEF EnqueueNotify
<1>12. CASE DestroyBegin
  BY <1>12 DEF DestroyBegin
<1>13. CASE DestroyLock
  BY <1>13 DEF DestroyLock
<1>14. CASE DestroyStop
  BY <1>14 DEF DestroyStop
<1>15. CASE DestroyNotifyAll
  BY <1>15 DEF DestroyNotifyAll
<1>16. CASE DestroyJoin
  BY <1>16 DEF DestroyJoin
<1>17. CASE UNCHANGED vars
  BY <1>17 DEF vars
<1> QED
  BY <1>1, <1>2, <1>3, <1>4, <1>5, <1>6, <1>7, <1>8, <1>9, <1>10, <1>11, <1>12,
     <1>13, <1>14, <1>15, <1>16, <1>17
     DEF Next, WorkerStep, EnqueueStep, DestroyStep, Terminated

(* Type correctness, and that the queue never holds a moved-from function. *)
THEOREM TypeCorrect == Spec => []TypeOK
<1>1. Spec => []TypeInv
  BY TypeInit, TypeNext, PTL DEF Spec
<1>2. TypeInv => TypeOK
  BY DEF TypeInv
<1> QED
  BY <1>1, <1>2, PTL

-----------------------------------------------------------------------------
(* Control.                                                                *)

(* m_stop is set between the destructor's critical section and its end; a  *)
(* thread ends only when it is set and nothing is queued, which stays so;  *)
(* from the notification on nobody sleeps; a worker in enqueue is in a     *)
(* task, and the owner is not in enqueue and the destructor at once.       *)
Control ==
    /\ m_stop <=> dpc \in {"notify", "join", "done"}
    /\ \A w \in Workers : wpc[w] = "exited" => m_stop /\ m_tasks = <<>>
    /\ dpc \in {"join", "done"} => \A w \in Workers : wpc[w] # "asleep"
    /\ dpc = "done" => \A w \in Workers : wpc[w] = "exited"
    /\ dpc # "alive" => cpc[Owner] = "idle"
    /\ \A w \in Workers : w \in Callers /\ cpc[w] # "idle" => wpc[w] = "run"

(* Control holds of the fresh pool.                                        *)
LEMMA ControlInit == Init => Control
  BY CallersAreThreads DEF Init, Control

(* Every step of a worker, of enqueue and of the destructor keeps Control. *)
LEMMA ControlNext == TypeInv /\ Control /\ [Next]_vars => Control'
<1> SUFFICES ASSUME TypeOK, Control, [Next]_vars PROVE Control'
  BY DEF TypeInv
<1> USE PoolAssumption, CallersAreThreads
        DEF TypeOK, Control, WorkerStates, CallerStates, DestroyStates, Threads, histVars
<1>1. ASSUME NEW w \in Workers, WorkerLock(w) PROVE Control'
  BY <1>1 DEF WorkerLock
<1>2. ASSUME NEW w \in Workers, WorkerWait(w) PROVE Control'
  BY <1>2 DEF WorkerWait
<1>3. ASSUME NEW w \in Workers, WorkerReturn(w) PROVE Control'
  BY <1>3 DEF WorkerReturn
<1>4. ASSUME NEW w \in Workers, WorkerTake(w) PROVE Control'
  BY <1>4 DEF WorkerTake
<1>5. ASSUME NEW w \in Workers, WorkerFinish(w) PROVE Control'
  BY <1>5 DEF WorkerFinish
<1>6. ASSUME NEW w \in Workers, SpuriousWake(w) PROVE Control'
  BY <1>6 DEF SpuriousWake
<1>7. ASSUME NEW c \in Callers, NEW t \in Tasks, EnqueueBegin(c, t) PROVE Control'
  BY <1>7 DEF EnqueueBegin
<1>8. ASSUME NEW c \in Callers, EnqueueLock(c) PROVE Control'
  BY <1>8 DEF EnqueueLock
<1>9. ASSUME NEW c \in Callers, EnqueueThrow(c) PROVE Control'
  BY <1>9 DEF EnqueueThrow
<1>10. ASSUME NEW c \in Callers, EnqueueEmplace(c) PROVE Control'
  BY <1>10 DEF EnqueueEmplace
<1>11. ASSUME NEW c \in Callers, EnqueueNotify(c) PROVE Control'
  BY <1>11 DEF EnqueueNotify
<1>12. CASE DestroyBegin
  BY <1>12 DEF DestroyBegin
<1>13. CASE DestroyLock
  BY <1>13 DEF DestroyLock
<1>14. CASE DestroyStop
  BY <1>14 DEF DestroyStop
<1>15. CASE DestroyNotifyAll
  BY <1>15 DEF DestroyNotifyAll
<1>16. CASE DestroyJoin
  BY <1>16 DEF DestroyJoin
<1>17. CASE UNCHANGED vars
  BY <1>17 DEF vars
<1> QED
  BY <1>1, <1>2, <1>3, <1>4, <1>5, <1>6, <1>7, <1>8, <1>9, <1>10, <1>11, <1>12,
     <1>13, <1>14, <1>15, <1>16, <1>17
     DEF Next, WorkerStep, EnqueueStep, DestroyStep, Terminated

(* Types and control, together.                                            *)
LEMMA ControlAlways == Spec => [](TypeInv /\ Control)
  BY TypeInit, TypeNext, ControlInit, ControlNext, PTL DEF Spec

(* No worker sleeps through the destructor's notify_all.                   *)
THEOREM NoSleeper == Spec => []NoSleeperMissesStop
<1>1. TypeInv /\ Control => NoSleeperMissesStop
  BY DEF Control, NoSleeperMissesStop, Sleepers
<1> QED
  BY <1>1, ControlAlways, PTL

-----------------------------------------------------------------------------
(* No lost wakeup.                                                         *)

(* The sets that NoLostWakeup counts are finite, before and after a step.  *)
LEMMA CountersFinite ==
    /\ IsFiniteSet(Seekers) /\ Cardinality(Seekers) \in Nat
    /\ IsFiniteSet(Notifiers) /\ Cardinality(Notifiers) \in Nat
    /\ IsFiniteSet(Seekers') /\ Cardinality(Seekers') \in Nat
    /\ IsFiniteSet(Notifiers') /\ Cardinality(Notifiers') \in Nat
<1>1. IsFiniteSet(Seekers) /\ IsFiniteSet(Seekers')
  BY PoolAssumption, FS_Subset DEF Seekers
<1>2. IsFiniteSet(Workers \cup {Owner})
  BY PoolAssumption, FS_AddElement
<1>3. IsFiniteSet(Notifiers) /\ IsFiniteSet(Notifiers')
  BY <1>2, CallersAreThreads, FS_Subset DEF Notifiers, Threads
<1> QED
  BY <1>1, <1>3, FS_CardinalityType

(* A step keeps NoLostWakeup: a task comes into the queue together with a  *)
(* notification that is due, the notification turns into an awake worker   *)
(* or finds nobody asleep, an awake worker takes a task along when it      *)
(* leaves the queue, and a worker falls asleep on an empty queue only.     *)
LEMMA WakeupNext == TypeInv /\ NoLostWakeup /\ [Next]_vars => NoLostWakeup'
<1> SUFFICES ASSUME TypeInv, NoLostWakeup, [Next]_vars PROVE NoLostWakeup'
  OBVIOUS
<1>a. TypeOK /\ TypeOK'
  BY TypeNext DEF TypeInv
<1>b. Len(m_tasks) \in Nat /\ Len(m_tasks') \in Nat
  BY <1>a, LenProperties DEF TypeOK
(* Steps that leave the queue alone and send nobody to sleep. *)
<1>c. ASSUME Sleepers' \subseteq Sleepers, Seekers \subseteq Seekers',
             Notifiers \subseteq Notifiers', m_tasks' = m_tasks
      PROVE  NoLostWakeup'
  <2>1. Cardinality(Seekers) <= Cardinality(Seekers')
    BY <1>c, CountersFinite, FS_Subset
  <2>2. Cardinality(Notifiers) <= Cardinality(Notifiers')
    BY <1>c, CountersFinite, FS_Subset
  <2> QED
    BY <1>b, <1>c, <2>1, <2>2, CountersFinite DEF NoLostWakeup
(* Steps after which the queue is empty. *)
<1>d. ASSUME m_tasks' = <<>> PROVE NoLostWakeup'
  BY <1>d, CountersFinite, EmptySeq DEF NoLostWakeup
<1>1. ASSUME NEW w \in Workers, WorkerLock(w) PROVE NoLostWakeup'
  BY <1>1, <1>a, <1>c DEF WorkerLock, TypeOK, Sleepers, Seekers, Notifiers
<1>2. ASSUME NEW w \in Workers, WorkerWait(w) PROVE NoLostWakeup'
  BY <1>2, <1>d DEF WorkerWait
<1>3. ASSUME NEW w \in Workers, WorkerReturn(w) PROVE NoLostWakeup'
  BY <1>3, <1>d DEF WorkerReturn
<1>4. ASSUME NEW w \in Workers, WorkerTake(w) PROVE NoLostWakeup'
  <2>1. Len(m_tasks') = Len(m_tasks) - 1
    BY <1>4, <1>a, HeadTailProperties DEF WorkerTake, TypeOK
  <2>2. w \in Seekers /\ Seekers' = Seekers \ {w}
    BY <1>4, <1>a DEF WorkerTake, TypeOK, Seekers
  <2>3. Cardinality(Seekers') = Cardinality(Seekers) - 1
    BY <2>2, CountersFinite, FS_RemoveElement
  <2>4. Sleepers' = Sleepers /\ Notifiers' = Notifiers
    BY <1>4, <1>a DEF WorkerTake, TypeOK, Sleepers, Notifiers
  <2> QED
    BY <1>b, <2>1, <2>3, <2>4, CountersFinite DEF NoLostWakeup
<1>5. ASSUME NEW w \in Workers, WorkerFinish(w) PROVE NoLostWakeup'
  BY <1>5, <1>a, <1>c DEF WorkerFinish, TypeOK, Sleepers, Seekers, Notifiers
<1>6. ASSUME NEW w \in Workers, SpuriousWake(w) PROVE NoLostWakeup'
  BY <1>6, <1>a, <1>c DEF SpuriousWake, TypeOK, Sleepers, Seekers, Notifiers
<1>7. ASSUME NEW c \in Callers, NEW t \in Tasks, EnqueueBegin(c, t) PROVE NoLostWakeup'
  BY <1>7, <1>a, <1>c DEF EnqueueBegin, TypeOK, Sleepers, Seekers, Notifiers
<1>8. ASSUME NEW c \in Callers, EnqueueLock(c) PROVE NoLostWakeup'
  BY <1>8, <1>a, <1>c DEF EnqueueLock, TypeOK, Sleepers, Seekers, Notifiers
<1>9. ASSUME NEW c \in Callers, EnqueueThrow(c) PROVE NoLostWakeup'
  BY <1>9, <1>a, <1>c DEF EnqueueThrow, TypeOK, Sleepers, Seekers, Notifiers
<1>10. ASSUME NEW c \in Callers, EnqueueEmplace(c) PROVE NoLostWakeup'
  <2>1. arg[c] \in Tasks
    BY <1>10 DEF EnqueueEmplace, TypeInv, InHand, Calling
  <2>2. Len(m_tasks') = Len(m_tasks) + 1
    BY <1>10, <1>a, <2>1, AppendProperties DEF EnqueueEmplace, TypeOK
  <2>3. c \notin Notifiers /\ Notifiers' = Notifiers \cup {c}
    BY <1>10, <1>a DEF EnqueueEmplace, TypeOK, Notifiers
  <2>4. Cardinality(Notifiers') = Cardinality(Notifiers) + 1
    BY <2>3, CountersFinite, FS_AddElement
  <2>5. Sleepers' = Sleepers /\ Seekers' = Seekers
    BY <1>10 DEF EnqueueEmplace, Sleepers, Seekers
  <2> QED
    BY <1>b, <2>2, <2>4, <2>5, CountersFinite DEF NoLostWakeup
<1>11. ASSUME NEW c \in Callers, EnqueueNotify(c) PROVE NoLostWakeup'
  <2>1. CASE \A w \in Workers : wpc[w] # "asleep" /\ UNCHANGED wpc
    <3>1. Sleepers' = {}
      BY <2>1, PoolAssumption DEF Sleepers
    <3> QED
      BY <3>1 DEF NoLostWakeup
  <2>2. ASSUME NEW w \in Workers, wpc[w] = "asleep", wpc' = [wpc EXCEPT ![w] = "lock"]
        PROVE  NoLostWakeup'
    <3>1. w \notin Seekers /\ Seekers' = Seekers \cup {w}
      BY <2>2, <1>a DEF TypeOK, Seekers
    <3>2. Cardinality(Seekers') = Cardinality(Seekers) + 1
      BY <3>1, CountersFinite, FS_AddElement
    <3>3. c \in Notifiers /\ Notifiers' = Notifiers \ {c}
      BY <1>11, <1>a DEF EnqueueNotify, TypeOK, Notifiers
    <3>4. Cardinality(Notifiers') = Cardinality(Notifiers) - 1
      BY <3>3, CountersFinite, FS_RemoveElement
    <3>5. Sleepers # {} /\ m_tasks' = m_tasks
      BY <1>11, <2>2 DEF EnqueueNotify, Sleepers
    <3> QED
      BY <1>b, <3>2, <3>4, <3>5, CountersFinite DEF NoLostWakeup
  <2> QED
    BY <1>11, <2>1, <2>2 DEF EnqueueNotify
<1>12. CASE DestroyBegin
  BY <1>12, <1>c DEF DestroyBegin, Sleepers, Seekers, Notifiers
<1>13. CASE DestroyLock
  BY <1>13, <1>c DEF DestroyLock, Sleepers, Seekers, Notifiers
<1>14. CASE DestroyStop
  BY <1>14, <1>c DEF DestroyStop, Sleepers, Seekers, Notifiers
<1>15. CASE DestroyNotifyAll
  BY <1>15, <1>a, <1>c DEF DestroyNotifyAll, TypeOK, Sleepers, Seekers, Notifiers
<1>16. CASE DestroyJoin
  BY <1>16, <1>c DEF DestroyJoin, Sleepers, Seekers, Notifiers
<1>17. CASE UNCHANGED vars
  BY <1>17, <1>c DEF vars, Sleepers, Seekers, Notifiers
<1> QED
  BY <1>1, <1>2, <1>3, <1>4, <1>5, <1>6, <1>7, <1>8, <1>9, <1>10, <1>11, <1>12,
     <1>13, <1>14, <1>15, <1>16, <1>17
     DEF Next, WorkerStep, EnqueueStep, DestroyStep, Terminated

(* While a worker sleeps there are enough workers awake, or about to be    *)
(* notified, for all the tasks in the queue.                               *)
THEOREM NoWakeupLost == Spec => []NoLostWakeup
<1>1. Init => NoLostWakeup
  BY PoolAssumption DEF Init, NoLostWakeup, Sleepers
<1> QED
  BY <1>1, TypeInit, TypeNext, WakeupNext, PTL DEF Spec

-----------------------------------------------------------------------------
(* Where the tasks are.                                                    *)

Elems(q) == {q[i] : i \in 1..Len(q)}
Distinct(q) == \A i, j \in 1..Len(q) : q[i] = q[j] => i = j

(* emplace puts one task into the queue: what it returns contains the old  *)
(* elements and the new one, once each if the new one is new.              *)
LEMMA ElemsAppend ==
    ASSUME NEW S, NEW q \in Seq(S), NEW e \in S
    PROVE  /\ Elems(Append(q, e)) = Elems(q) \cup {e}
           /\ Distinct(q) /\ e \notin Elems(q) => Distinct(Append(q, e))
<1> DEFINE r == Append(q, e)
<1>1. Len(q) \in Nat /\ Len(r) = Len(q) + 1 /\ r[Len(q) + 1] = e
  BY AppendProperties, LenProperties
<1>2. \A i \in 1..Len(q) : r[i] = q[i]
  BY AppendProperties
<1> HIDE DEF r
<1>3. 1..Len(r) = (1..Len(q)) \cup {Len(q) + 1}
  BY <1>1
<1>4. Elems(r) = Elems(q) \cup {e}
  BY <1>1, <1>2, <1>3 DEF Elems
<1>5. ASSUME Distinct(q), e \notin Elems(q) PROVE Distinct(r)
  BY <1>1, <1>2, <1>3, <1>5 DEF Distinct, Elems
<1> QED
  BY <1>4, <1>5 DEF r

(* pop removes the front of the queue and nothing else. *)
LEMMA ElemsTail ==
    ASSUME NEW S, NEW q \in Seq(S), q # <<>>, Distinct(q)
    PROVE  /\ Head(q) \in Elems(q)
           /\ Elems(Tail(q)) = Elems(q) \ {Head(q)}
           /\ Distinct(Tail(q))
<1> DEFINE r == Tail(q)
<1>1. Len(q) \in Nat /\ Len(q) > 0 /\ Len(r) = Len(q) - 1
  BY HeadTailProperties, EmptySeq, LenProperties
<1>2. \A i \in 1..Len(r) : r[i] = q[i + 1]
  BY HeadTailProperties
<1>3. Head(q) = q[1]
  OBVIOUS
<1> HIDE DEF r
<1>4. Head(q) \in Elems(q)
  BY <1>1, <1>3 DEF Elems
<1>5. Distinct(r)
  BY <1>1, <1>2 DEF Distinct
<1>6. ASSUME NEW x \in Elems(r) PROVE x \in Elems(q) /\ x # q[1]
  <2>1. PICK i \in 1..Len(r) : x = r[i]
    BY <1>6 DEF Elems
  <2>2. x = q[i + 1] /\ i + 1 \in 1..Len(q) /\ i + 1 # 1 /\ 1 \in 1..Len(q)
    BY <1>1, <1>2, <2>1
  <2> QED
    BY <2>2 DEF Elems, Distinct
<1>7. ASSUME NEW x \in Elems(q), x # q[1] PROVE x \in Elems(r)
  <2>1. PICK i \in 1..Len(q) : x = q[i]
    BY DEF Elems
  <2>2. i - 1 \in 1..Len(r) /\ r[i - 1] = q[(i - 1) + 1]
    BY <1>1, <1>2, <1>7, <2>1
  <2>3. x = r[i - 1]
    BY <2>1, <2>2
  <2> QED
    BY <2>2, <2>3 DEF Elems
<1>8. Elems(r) = Elems(q) \ {Head(q)}
  BY <1>3, <1>6, <1>7
<1> QED
  BY <1>4, <1>5, <1>8 DEF r

(* What NoDoubleExecution leaves open: the tasks on their way into the     *)
(* queue are nowhere else, and no two callers bring the same one.          *)
Underway ==
    /\ \A c, d \in Calling : arg[c] = arg[d] => c = d
    /\ \A c \in Calling : arg[c] \notin Queued \cup finished \cup refused
    /\ \A c \in Calling, w \in Running : arg[c] # task[w]

Whereabouts == NoTaskLost /\ NoDoubleExecution /\ Underway

(* A fresh pool has no tasks at all. *)
LEMMA WhereaboutsInit == Init => Whereabouts
  BY EmptySeq DEF Init, Whereabouts, NoTaskLost, NoDoubleExecution, Underway,
     Queued, Running, Calling

(* Steps that move no task keep Whereabouts. *)
LEMMA NoTaskMoves ==
    ASSUME Whereabouts, Calling' = Calling, Running' = Running,
           UNCHANGED <<m_tasks, task, arg, issued, refused, finished>>
    PROVE  Whereabouts'
  BY DEF Whereabouts, NoTaskLost, NoDoubleExecution, Underway, Queued, Running, Calling

(* A step takes at most one task from where it is to the next place.       *)
LEMMA WhereaboutsNext == TypeInv /\ Whereabouts /\ [Next]_vars => Whereabouts'
<1> SUFFICES ASSUME TypeInv, Whereabouts, [Next]_vars PROVE Whereabouts'
  OBVIOUS
<1>a. TypeOK
  BY DEF TypeInv
<1>b. Queued = Elems(m_tasks) /\ Queued' = Elems(m_tasks')
  BY DEF Queued, Elems
<1>c. Distinct(m_tasks)
  BY DEF Whereabouts, NoDoubleExecution, Distinct
<1>1. ASSUME NEW w \in Workers, WorkerLock(w) PROVE Whereabouts'
  BY <1>1, <1>a, NoTaskMoves DEF WorkerLock, TypeOK, Running, Calling, histVars
<1>2. ASSUME NEW w \in Workers, WorkerWait(w) PROVE Whereabouts'
  BY <1>2, <1>a, NoTaskMoves DEF WorkerWait, TypeOK, Running, Calling, histVars
<1>3. ASSUME NEW w \in Workers, WorkerReturn(w) PROVE Whereabouts'
  BY <1>3, <1>a, NoTaskMoves DEF WorkerReturn, TypeOK, Running, Calling, histVars
<1>4. ASSUME NEW w \in Workers, WorkerTake(w) PROVE Whereabouts'
  <2> DEFINE t == Head(m_tasks)
  <2>1. t \in Queued /\ Queued' = Queued \ {t} /\ Distinct(m_tasks')
    BY <1>4, <1>a, <1>b, <1>c, ElemsTail DEF WorkerTake, TypeOK
  <2>2. w \notin Running /\ Running' = Running \cup {w} /\ Calling' = Calling
    BY <1>4, <1>a DEF WorkerTake, TypeOK, Running, Calling
  <2>3. task'[w] = t /\ \A v \in Running : task'[v] = task[v]
    BY <1>4, <1>a, <2>2 DEF WorkerTake, TypeOK, Running
  <2>4. UNCHANGED <<arg, issued, refused, finished>>
    BY <1>4 DEF WorkerTake, histVars
  <2> HIDE DEF t
  <2>5. {task'[v] : v \in Running'} = {task[v] : v \in Running} \cup {t}
    BY <2>2, <2>3
  <2>6. NoTaskLost'
    BY <2>1, <2>2, <2>4, <2>5 DEF Whereabouts, NoTaskLost
  <2>7. NoDoubleExecution'
    BY <2>1, <2>2, <2>3, <2>4 DEF Whereabouts, NoDoubleExecution, Distinct
  <2>8. Underway'
    BY <2>1, <2>2, <2>3, <2>4 DEF Whereabouts, Underway
  <2> QED
    BY <2>6, <2>7, <2>8 DEF Whereabouts
<1>5. ASSUME NEW w \in Workers, WorkerFinish(w) PROVE Whereabouts'
  <2>1. w \in Running /\ Running' = Running \ {w} /\ Calling' = Calling
    BY <1>5, <1>a DEF WorkerFinish, TypeOK, Running, Calling
  <2>2. \A v \in Running' : task'[v] = task[v]
    BY <1>5, <1>a, <2>1 DEF WorkerFinish, TypeOK, Running
  <2>3. /\ UNCHANGED <<m_tasks, arg, issued, refused>>
        /\ finished' = finished \cup {task[w]}
    BY <1>5 DEF WorkerFinish
  <2>4. {task[v] : v \in Running} = {task'[v] : v \in Running'} \cup {task[w]}
    BY <2>1, <2>2
  <2>5. NoTaskLost'
    BY <1>b, <2>1, <2>3, <2>4 DEF Whereabouts, NoTaskLost
  <2>6. NoDoubleExecution'
    BY <1>b, <2>1, <2>2, <2>3 DEF Whereabouts, NoDoubleExecution
  <2>7. Underway'
    BY <1>b, <2>1, <2>2, <2>3 DEF Whereabouts, Underway
  <2> QED
    BY <2>5, <2>6, <2>7 DEF Whereabouts
<1>6. ASSUME NEW w \in Workers, SpuriousWake(w) PROVE Whereabouts'
  BY <1>6, <1>a, NoTaskMoves DEF SpuriousWake, TypeOK, Running, Calling, histVars
<1>7. ASSUME NEW c \in Callers, NEW t \in Tasks, EnqueueBegin(c, t) PROVE Whereabouts'
  <2>1. c \notin Calling /\ Calling' = Calling \cup {c} /\ Running' = Running
    BY <1>7, <1>a DEF EnqueueBegin, TypeOK, Calling, Running
  <2>2. arg'[c] = t /\ \A d \in Calling : arg'[d] = arg[d]
    BY <1>7, <1>a, <2>1 DEF EnqueueBegin, TypeOK, Calling
  <2>3. /\ UNCHANGED <<m_tasks, task, refused, finished>>
        /\ issued' = issued \cup {t}
        /\ t \notin issued
    BY <1>7 DEF EnqueueBegin
  <2>4. {arg'[d] : d \in Calling'} = {arg[d] : d \in Calling} \cup {t}
    BY <2>1, <2>2
  <2>5. NoTaskLost'
    BY <1>b, <2>1, <2>3, <2>4 DEF Whereabouts, NoTaskLost
  <2>6. NoDoubleExecution'
    BY <1>b, <2>1, <2>3 DEF Whereabouts, NoDoubleExecution
  <2>7. Underway'
    BY <1>b, <2>1, <2>2, <2>3 DEF Whereabouts, NoTaskLost, Underway
  <2> QED
    BY <2>5, <2>6, <2>7 DEF Whereabouts
<1>8. ASSUME NEW c \in Callers, EnqueueLock(c) PROVE Whereabouts'
  BY <1>8, <1>a, NoTaskMoves DEF EnqueueLock, TypeOK, Running, Calling, histVars
(* The two ways out of the critical section of enqueue. *)
<1>d. ASSUME NEW c \in Calling, arg' = [arg EXCEPT ![c] = NoTask],
             Calling' = Calling \ {c}
      PROVE  /\ \A d \in Calling' : arg'[d] = arg[d]
             /\ {arg[d] : d \in Calling} = {arg'[d] : d \in Calling'} \cup {arg[c]}
  <2>1. \A d \in Calling' : arg'[d] = arg[d]
    BY <1>a, <1>d DEF TypeOK, Calling
  <2> QED
    BY <1>d, <2>1
<1>9. ASSUME NEW c \in Callers, EnqueueThrow(c) PROVE Whereabouts'
  <2>1. c \in Calling /\ Calling' = Calling \ {c} /\ Running' = Running
    BY <1>9, <1>a DEF EnqueueThrow, TypeOK, Calling, Running
  <2>2. /\ arg' = [arg EXCEPT ![c] = NoTask]
        /\ refused' = refused \cup {arg[c]}
        /\ UNCHANGED <<m_tasks, task, issued, finished>>
    BY <1>9 DEF EnqueueThrow
  <2>3. /\ \A d \in Calling' : arg'[d] = arg[d]
        /\ {arg[d] : d \in Calling} = {arg'[d] : d \in Calling'} \cup {arg[c]}
    BY <1>d, <2>1, <2>2
  <2>4. NoTaskLost'
    BY <1>b, <2>1, <2>2, <2>3 DEF Whereabouts, NoTaskLost
  <2>5. NoDoubleExecution'
    BY <1>b, <2>1, <2>2 DEF Whereabouts, NoDoubleExecution, Underway
  <2>6. Underway'
    BY <1>b, <2>1, <2>2, <2>3 DEF Whereabouts, Underway
  <2> QED
    BY <2>4, <2>5, <2>6 DEF Whereabouts
<1>10. ASSUME NEW c \in Callers, EnqueueEmplace(c) PROVE Whereabouts'
  <2>1. c \in Calling /\ Calling' = Calling \ {c} /\ Running' = Running
    BY <1>10, <1>a DEF EnqueueEmplace, TypeOK, Calling, Running
  <2>2. /\ arg' = [arg EXCEPT ![c] = NoTask]
        /\ m_tasks' = Append(m_tasks, arg[c])
        /\ UNCHANGED <<task, issued, refused, finished>>
    BY <1>10 DEF EnqueueEmplace, histVars
  <2>3. /\ \A d \in Calling' : arg'[d] = arg[d]
        /\ {arg[d] : d \in Calling} = {arg'[d] : d \in Calling'} \cup {arg[c]}
    BY <1>d, <2>1, <2>2
  <2>4. arg[c] \in Tasks /\ arg[c] \notin Queued
    BY <2>1 DEF TypeInv, InHand, Whereabouts, Underway
  <2>5. Queued' = Queued \cup {arg[c]} /\ Distinct(m_tasks')
    BY <1>a, <1>b, <1>c, <2>2, <2>4, ElemsAppend DEF TypeOK
  <2>6. NoTaskLost'
    BY <2>1, <2>2, <2>3, <2>5 DEF Whereabouts, NoTaskLost
  <2>7. NoDoubleExecution'
    BY <2>1, <2>2, <2>5 DEF Whereabouts, NoDoubleExecution, Underway, Distinct
  <2>8. Underway'
    BY <2>1, <2>2, <2>3, <2>5 DEF Whereabouts, Underway
  <2> QED
    BY <2>6, <2>7, <2>8 DEF Whereabouts
<1>11. ASSUME NEW c \in Callers, EnqueueNotify(c) PROVE Whereabouts'
  BY <1>11, <1>a, NoTaskMoves DEF EnqueueNotify, TypeOK, Running, Calling, histVars
<1>12. CASE DestroyBegin
  BY <1>12, NoTaskMoves DEF DestroyBegin, Running, Calling, histVars
<1>13. CASE DestroyLock
  BY <1>13, NoTaskMoves DEF DestroyLock, Running, Calling, histVars
<1>14. CASE DestroyStop
  BY <1>14, NoTaskMoves DEF DestroyStop, Running, Calling, histVars
<1>15. CASE DestroyNotifyAll
  BY <1>15, <1>a, NoTaskMoves DEF DestroyNotifyAll, TypeOK, Running, Calling, histVars
<1>16. CASE DestroyJoin
  BY <1>16, NoTaskMoves DEF DestroyJoin, Running, Calling, histVars
<1>17. CASE UNCHANGED vars
  BY <1>17, NoTaskMoves DEF vars, Running, Calling
<1> QED
  BY <1>1, <1>2, <1>3, <1>4, <1>5, <1>6, <1>7, <1>8, <1>9, <1>10, <1>11, <1>12,
     <1>13, <1>14, <1>15, <1>16, <1>17
     DEF Next, WorkerStep, EnqueueStep, DestroyStep, Terminated

(* The inductive invariant of the pool, all layers but the count. *)
LEMMA PoolInvariant == Spec => [](TypeInv /\ Control /\ Whereabouts)
  BY ControlAlways, TypeInit, TypeNext, WhereaboutsInit, WhereaboutsNext, PTL DEF Spec

(* What enqueue was called with is not lost.                               *)
THEOREM NothingLost == Spec => []NoTaskLost
<1>1. Whereabouts => NoTaskLost
  BY DEF Whereabouts
<1> QED
  BY <1>1, PoolInvariant, PTL

(* No task is executed twice, however many workers there are.              *)
THEOREM NothingTwice == Spec => []NoDoubleExecution
<1>1. Whereabouts => NoDoubleExecution
  BY DEF Whereabouts
<1> QED
  BY <1>1, PoolInvariant, PTL

(* When nobody runs, calls or waits any more, what is left of the tasks is *)
(* executed or refused.                                                    *)
LEMMA DrainedState == TypeInv /\ Control /\ Whereabouts => DestroyedMeansDrained
<1> SUFFICES ASSUME TypeOK, Control, Whereabouts, dpc = "done"
             PROVE  /\ \A w \in Workers : wpc[w] = "exited"
                    /\ issued = finished \cup refused
  BY DEF DestroyedMeansDrained, TypeInv
<1>1. \A w \in Workers : wpc[w] = "exited"
  BY DEF Control
<1>2. Running = {}
  BY <1>1 DEF Running
<1>3. m_tasks = <<>>
  BY <1>1, PoolAssumption DEF Control
<1>4. Queued = {}
  BY <1>3, EmptySeq DEF Queued
<1>5. Calling = {}
  BY <1>1, CallersAreThreads DEF Control, Calling, Threads
<1> QED
  BY <1>1, <1>2, <1>4, <1>5 DEF Whereabouts, NoTaskLost

(* The destructor returns only when every worker has ended and every task  *)
(* that was accepted has been executed.                                    *)
THEOREM Drained == Spec => []DestroyedMeansDrained
  BY PoolInvariant, DrainedState, PTL

-----------------------------------------------------------------------------
(* The pool implements Executor: the initial states and the steps.         *)

(* The instance of Executor has a copy of its own of Cardinality.          *)
LEMMA SameCardinality ==
    ASSUME NEW S PROVE Exec!Cardinality(S) = Cardinality(S)
  BY DEF Exec!Cardinality, Cardinality

(* The capacity of the executor, the number of workers, is at least one.   *)
LEMMA CapacityOK == Cardinality(Workers) \in Nat \ {0}
  BY PoolAssumption, FS_CardinalityType, FS_EmptySet

(* While a worker is not in task(), fewer tasks run than there are workers. *)
LEMMA RoomForOne ==
    ASSUME NEW w \in Workers \ Running
    PROVE  Cardinality({task[v] : v \in Running}) < Cardinality(Workers)
<1> DEFINE T == {task[v] : v \in Running}
           f == [v \in Running |-> task[v]]
<1>1. IsFiniteSet(Workers \ {w}) /\ Cardinality(Workers \ {w}) = Cardinality(Workers) - 1
  BY PoolAssumption, FS_RemoveElement
<1>2. Running \in SUBSET (Workers \ {w})
  BY DEF Running
<1>3. IsFiniteSet(Running) /\ Cardinality(Running) <= Cardinality(Workers \ {w})
  BY <1>1, <1>2, FS_Subset
<1>4. f \in Surjection(Running, T)
  BY DEF Surjection
<1>5. IsFiniteSet(T) /\ Cardinality(T) <= Cardinality(Running)
  BY <1>3, <1>4, FS_Surjection
<1>6. /\ Cardinality(T) \in Nat
      /\ Cardinality(Running) \in Nat
      /\ Cardinality(Workers) \in Nat
  BY <1>3, <1>5, PoolAssumption, FS_CardinalityType
<1> QED
  BY <1>1, <1>3, <1>5, <1>6

(* A fresh pool is an open executor without tasks. *)
LEMMA ExecInit == Init => Exec!Init
  BY DEF Init, Exec!Init, Running

(* Steps that move no task and leave the destructor where an Executor sees *)
(* no difference are stutters of the Executor.                             *)
LEMMA ExecStutter ==
    ASSUME Running' = Running, UNCHANGED <<m_tasks, task, finished, m_stop>>,
           dpc' = "done" <=> dpc = "done"
    PROVE  UNCHANGED Exec!vars
  BY DEF Exec!vars, Running

(* emplace is Submit, the removal from the queue is Start, the end of a    *)
(* task is Finish, m_stop = true is Close, and the return from the         *)
(* destructor is Closed.                                                   *)
LEMMA ExecNext ==
    TypeInv /\ Control /\ Whereabouts /\ [Next]_vars => [Exec!Next]_(Exec!vars)
<1> SUFFICES ASSUME TypeInv, TypeOK, Control, Whereabouts, [Next]_vars
             PROVE  Exec!Next \/ UNCHANGED Exec!vars
  BY DEF TypeInv
<1> USE DEF histVars
<1>1. ASSUME NEW w \in Workers, WorkerLock(w) PROVE UNCHANGED Exec!vars
  BY <1>1, ExecStutter DEF WorkerLock, TypeOK, Running
<1>2. ASSUME NEW w \in Workers, WorkerWait(w) PROVE UNCHANGED Exec!vars
  BY <1>2, ExecStutter DEF WorkerWait, TypeOK, Running
<1>3. ASSUME NEW w \in Workers, WorkerReturn(w) PROVE UNCHANGED Exec!vars
  BY <1>3, ExecStutter DEF WorkerReturn, TypeOK, Running
<1>4. ASSUME NEW w \in Workers, WorkerTake(w) PROVE Exec!Start
  <2>1. w \in Workers \ Running /\ Running' = Running \cup {w}
    BY <1>4 DEF WorkerTake, TypeOK, Running
  <2>2. Cardinality({task[v] : v \in Running}) < Cardinality(Workers)
    BY <2>1, RoomForOne
  <2>3. task'[w] = Head(m_tasks) /\ \A v \in Running : task'[v] = task[v]
    BY <1>4, <2>1 DEF WorkerTake, TypeOK, Running
  <2>4. {task'[v] : v \in Running'} = {task[v] : v \in Running} \cup {Head(m_tasks)}
    BY <2>1, <2>3
  <2>5. /\ m_tasks # <<>>
        /\ m_tasks' = Tail(m_tasks)
        /\ UNCHANGED <<finished, m_stop, dpc>>
    BY <1>4 DEF WorkerTake
  <2> QED
    BY <2>2, <2>4, <2>5, SameCardinality DEF Exec!Start
<1>5. ASSUME NEW w \in Workers, WorkerFinish(w) PROVE Exec!Finish(task[w])
  <2>1. w \in Running /\ Running' = Running \ {w}
    BY <1>5 DEF WorkerFinish, TypeOK, Running
  <2>2. \A v \in Running' : task'[v] = task[v]
    BY <1>5, <2>1 DEF WorkerFinish, TypeOK, Running
  <2>3. \A v \in Running' : task[v] # task[w]
    BY <2>1 DEF Whereabouts, NoDoubleExecution
  <2>4. {task'[v] : v \in Running'} = {task[v] : v \in Running} \ {task[w]}
    BY <2>1, <2>2, <2>3
  <2>5. finished' = finished \cup {task[w]} /\ UNCHANGED <<m_tasks, m_stop, dpc>>
    BY <1>5 DEF WorkerFinish
  <2> QED
    BY <2>1, <2>4, <2>5 DEF Exec!Finish
<1>6. ASSUME NEW w \in Workers, SpuriousWake(w) PROVE UNCHANGED Exec!vars
  BY <1>6, ExecStutter DEF SpuriousWake, TypeOK, Running
<1>7. ASSUME NEW c \in Callers, NEW t \in Tasks, EnqueueBegin(c, t)
      PROVE  UNCHANGED Exec!vars
  BY <1>7, ExecStutter DEF EnqueueBegin, TypeOK, Running
<1>8. ASSUME NEW c \in Callers, EnqueueLock(c) PROVE UNCHANGED Exec!vars
  BY <1>8, ExecStutter DEF EnqueueLock, TypeOK, Running
<1>9. ASSUME NEW c \in Callers, EnqueueThrow(c) PROVE UNCHANGED Exec!vars
  BY <1>9, ExecStutter DEF EnqueueThrow, TypeOK, Running
<1>10. ASSUME NEW c \in Callers, EnqueueEmplace(c) PROVE Exec!Submit(arg[c])
  <2>1. c \in Calling /\ Running' = Running
    BY <1>10 DEF EnqueueEmplace, Calling, Running
  <2>2. /\ \A i \in 1..Len(m_tasks) : m_tasks[i] # arg[c]
        /\ arg[c] \notin {task[v] : v \in Running} \cup finished
    BY <2>1 DEF Whereabouts, Underway, Queued
  <2>3. ~m_stop /\ dpc # "done"
    BY <1>10 DEF EnqueueEmplace, Control
  <2>4. m_tasks' = Append(m_tasks, arg[c]) /\ UNCHANGED <<task, finished, m_stop, dpc>>
    BY <1>10 DEF EnqueueEmplace
  <2> QED
    BY <2>1, <2>2, <2>3, <2>4 DEF Exec!Submit
<1>11. ASSUME NEW c \in Callers, EnqueueNotify(c) PROVE UNCHANGED Exec!vars
  BY <1>11, ExecStutter DEF EnqueueNotify, TypeOK, Running
<1>12. CASE DestroyBegin
  BY <1>12, ExecStutter DEF DestroyBegin, Running
<1>13. CASE DestroyLock
  BY <1>13, ExecStutter DEF DestroyLock, Running
<1>14. ASSUME DestroyStop PROVE Exec!Close
  BY <1>14 DEF DestroyStop, Control, Running, Exec!Close
<1>15. CASE DestroyNotifyAll
  BY <1>15, ExecStutter DEF DestroyNotifyAll, TypeOK, Running
<1>16. ASSUME DestroyJoin PROVE Exec!Closed
  <2>1. m_stop /\ dpc # "done" /\ dpc' = "done"
    BY <1>16 DEF DestroyJoin, Control
  <2>2. m_tasks = <<>> /\ Running = {} /\ Running' = {}
    BY <1>16, PoolAssumption DEF DestroyJoin, Control, Running
  <2> QED
    BY <1>16, <2>1, <2>2 DEF DestroyJoin, Exec!Closed
<1>17. CASE UNCHANGED vars
  BY <1>17, ExecStutter DEF vars, Running
<1>18. ASSUME NEW w \in Workers, WorkerStep(w) \/ SpuriousWake(w)
       PROVE  Exec!Next \/ UNCHANGED Exec!vars
  <2>1. CASE WorkerFinish(w)
    <3>1. task[w] \in Tasks
      BY <2>1 DEF WorkerFinish, TypeInv, InHand, Running
    <3>2. \E t \in Tasks : Exec!Finish(t)
      BY <1>5, <2>1, <3>1 DEF Exec!Finish
    <3> QED
      BY <3>2 DEF Exec!Next
  <2>2. CASE WorkerTake(w)
    BY <1>4, <2>2 DEF Exec!Next
  <2> QED
    BY <1>1, <1>2, <1>3, <1>6, <1>18, <2>1, <2>2 DEF WorkerStep
<1>19. ASSUME NEW c \in Callers,
              EnqueueStep(c) \/ \E t \in Tasks : EnqueueBegin(c, t)
       PROVE  Exec!Next \/ UNCHANGED Exec!vars
  <2>1. CASE EnqueueEmplace(c)
    <3>1. arg[c] \in Tasks
      BY <2>1 DEF EnqueueEmplace, TypeInv, InHand, Calling
    <3>2. Exec!Submit(arg[c])
      BY <1>10, <2>1
    <3> QED
      BY <3>1, <3>2 DEF Exec!Next
  <2> QED
    BY <1>7, <1>8, <1>9, <1>11, <1>19, <2>1 DEF EnqueueStep
<1>20. CASE DestroyStep
  BY <1>13, <1>14, <1>15, <1>16, <1>20 DEF DestroyStep, Exec!Next
<1> QED
  BY <1>12, <1>17, <1>18, <1>19, <1>20 DEF Next, Terminated

(* Every behaviour of the pool is one of an Executor, its fairness apart:  *)
(* tasks start once, in the order in which enqueue took them over, at most *)
(* one per worker at a time, none after m_stop, and the destructor returns *)
(* only when nothing is left.                                              *)
THEOREM PoolIsExecutor == Spec => Exec!Init /\ [][Exec!Next]_(Exec!vars)
  BY ExecInit, ExecNext, PoolInvariant, PTL DEF Spec

=============================================================================
