-------------------------- MODULE SessionContract --------------------------
(***************************************************************************)
(* What a session promises to whoever waits for it, with no frames, locks, *)
(* signals, processes or buffers: its container runs under the lock of the *)
(* workspace, output is displayed after it was written, and an exit code   *)
(* means that the container will not run again, so that the lock is free   *)
(* or about to be, and, when the code is the agent's own, that all of its  *)
(* output was displayed.                                                   *)
(***************************************************************************)
EXTENDS Naturals

VARIABLES
  session,  \* "open", "ended" while it only keeps the lock, then "closed"; or "crashed"
  box,      \* its container
  written,  \* what the agent wrote
  shown,    \* what the operator has seen of that
  code      \* what the operator was answered; "none" so far

contract == <<session, box, written, shown, code>>

ExitCode == {"agent", "124", "130"}
Excuse   == {"lost", "killed"}      \* no answer: agentd or agentctl is gone

Init == session = "open" /\ box = "none" /\ written = 0 /\ shown = 0 /\ code = "none"

Launch ==
  /\ session = "open"
  /\ \/ box = "none" /\ box' = "created"
     \/ box = "created" /\ box' = "running"
  /\ UNCHANGED <<session, written, shown, code>>

\* By itself, or because it is removed.
ContainerEnds ==
  /\ box \in {"created", "running"} /\ box' = "gone"
  /\ UNCHANGED <<session, written, shown, code>>

AgentWrites ==
  /\ session = "open" /\ box = "running"
  /\ written' = written + 1
  /\ UNCHANGED <<session, box, shown, code>>

Show ==
  /\ code = "none" /\ shown < written
  /\ shown' = shown + 1
  /\ UNCHANGED <<session, box, written, code>>

\* The session is over for the container and whoever waits ...
End ==
  /\ session = "open" /\ box # "running"
  /\ session' = "ended"
  /\ UNCHANGED <<box, written, shown, code>>

\* ... then its lock is released ...
Close ==
  /\ session = "ended"
  /\ session' = "closed"
  /\ UNCHANGED <<box, written, shown, code>>

\* ... unless it was cut off before, whatever the container does.
Crash ==
  /\ session = "open"
  /\ session' = "crashed"
  /\ UNCHANGED <<box, written, shown, code>>

Return(c) ==
  /\ code = "none"
  /\ c = "agent" => session \in {"ended", "closed"} /\ shown = written
  /\ c = "124"   => session \in {"ended", "closed"}
  /\ c = "130"   => session # "open"
  /\ c = "lost"  => session = "crashed"
  /\ code' = c
  /\ UNCHANGED <<session, box, written, shown>>

Next == \/ Launch \/ ContainerEnds \/ AgentWrites \/ Show \/ End \/ Close \/ Crash
        \/ \E c \in ExitCode \cup Excuse : Return(c)

Spec == Init /\ [][Next]_contract
=============================================================================
