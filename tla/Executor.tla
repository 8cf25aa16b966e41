------------------------------ MODULE Executor ------------------------------
(***************************************************************************)
(* What the class ThreadPool promises to its user, without threads, locks  *)
(* or condition variables: a task handed over while the executor is open   *)
(* is started once, in the order of hand-over, at most Capacity tasks run  *)
(* at a time, and the executor is closed only after every task it ever     *)
(* took has finished.  ThreadPool.tla is shown to implement this module.   *)
(***************************************************************************)
EXTENDS Naturals, Sequences, FiniteSets

CONSTANTS
    Tasks,      \* the tasks that may be handed over
    Capacity    \* how many tasks may run at the same time, one or more

VARIABLES
    pending,    \* tasks handed over and not yet started, oldest first
    running,    \* tasks being executed
    finished,   \* tasks whose execution has ended
    phase       \* "open", "closing" (hand-over refused) or "closed"

vars == <<pending, running, finished, phase>>

-----------------------------------------------------------------------------

Init ==
    /\ pending = <<>>
    /\ running = {}
    /\ finished = {}
    /\ phase = "open"

(* A task never seen before is taken over. *)
Submit(t) ==
    /\ phase = "open"
    /\ \A i \in 1..Len(pending) : pending[i] # t
    /\ t \notin running \cup finished
    /\ pending' = Append(pending, t)
    /\ UNCHANGED <<running, finished, phase>>

(* The oldest pending task starts, if fewer than Capacity tasks run. *)
Start ==
    /\ pending # <<>>
    /\ Cardinality(running) < Capacity
    /\ running' = running \cup {Head(pending)}
    /\ pending' = Tail(pending)
    /\ UNCHANGED <<finished, phase>>

Finish(t) ==
    /\ t \in running
    /\ running' = running \ {t}
    /\ finished' = finished \cup {t}
    /\ UNCHANGED <<pending, phase>>

(* From here on no task is taken over. *)
Close ==
    /\ phase = "open"
    /\ phase' = "closing"
    /\ UNCHANGED <<pending, running, finished>>

(* The executor goes away, with nothing left behind. *)
Closed ==
    /\ phase = "closing"
    /\ pending = <<>>
    /\ running = {}
    /\ phase' = "closed"
    /\ UNCHANGED <<pending, running, finished>>

Next ==
    \/ \E t \in Tasks : Submit(t) \/ Finish(t)
    \/ Start
    \/ Close
    \/ Closed

(* Work that has been taken over is carried on; the user decides when to   *)
(* submit and when to close.                                               *)
Fairness ==
    /\ WF_vars(Start)
    /\ WF_vars(Closed)
    /\ \A t \in Tasks : WF_vars(Finish(t))

Spec == Init /\ [][Next]_vars /\ Fairness

=============================================================================
