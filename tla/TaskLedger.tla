----------------------------- MODULE TaskLedger -----------------------------
(***************************************************************************)
(* What the task records promise to the people and agents who read them,   *)
(* with no threads, locks, files or commits: a task is started once, on    *)
(* settled dependencies, moves forward only, and sequential work never     *)
(* overlaps with work that is still outside the integration branch.        *)
(***************************************************************************)
CONSTANT Task

VARIABLES status, mode, deps
ledger == <<status, mode, deps>>

Outstanding == {t \in Task : mode[t] = "parallel" /\ status[t] \in {"active", "completed"}}
Sequential  == {t \in Task : mode[t] = "integration" /\ status[t] = "active"}

\* The task's result is part of the integration branch.
Settled(t) == \/ mode[t] = "parallel" /\ status[t] = "merged"
              \/ mode[t] = "integration" /\ status[t] = "completed"

Init == /\ status = [t \in Task |-> "absent"]
        /\ mode = [t \in Task |-> "none"]
        /\ deps = [t \in Task |-> {}]

Start(t, m, ds) ==
  /\ status[t] = "absent"
  /\ Sequential = {}
  /\ m = "integration" => Outstanding = {}
  /\ \A d \in ds : Settled(d)
  /\ status' = [status EXCEPT ![t] = "active"]
  /\ mode' = [mode EXCEPT ![t] = m]
  /\ deps' = [deps EXCEPT ![t] = ds]

Advance(t, from, to) ==
  /\ status[t] \in from
  /\ status' = [status EXCEPT ![t] = to]
  /\ UNCHANGED <<mode, deps>>

Complete(t) == Advance(t, {"active"}, "completed")
Merge(t)    == mode[t] = "parallel" /\ Advance(t, {"completed"}, "merged")
Abort(t)    == mode[t] = "parallel" /\ Advance(t, {"active", "completed"}, "aborted")

Next == \E t \in Task :
          \/ \E m \in {"integration", "parallel"}, ds \in SUBSET Task : Start(t, m, ds)
          \/ Complete(t) \/ Merge(t) \/ Abort(t)

Spec == Init /\ [][Next]_ledger
=============================================================================
