------------------------------ MODULE MCTasks ------------------------------
(***************************************************************************)
(* TLC instances of the task life cycle.                                   *)
(***************************************************************************)
EXTENDS TaskProperties, TLC

\* Threads and ordinary task names are interchangeable.
Threads == Permutations(Req)
ThreadsAndTasks == Permutations(Req) \cup Permutations(Task \ {Integration})
=============================================================================
