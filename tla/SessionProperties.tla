------------------------- MODULE SessionProperties -------------------------
(***************************************************************************)
(* What a session promises to the operator, and to the workspace lock it   *)
(* runs under.                                                             *)
(***************************************************************************)
EXTENDS InteractiveSession

\* Every variable has its type.
SessionTypeOK ==
  /\ handlers \in Seq(Handler) /\ pump \in Seq({"input", "cancel", "ctrl-c", "set"})
  /\ typing \in BOOLEAN /\ keys \in Nat /\ sendLock \in {"free", "main", "pump"}
  /\ cancelSent \in BOOLEAN /\ result \in Code \cup {"none", "lost", "killed"} /\ shown \in Nat
  /\ up \in Seq(UpFrame) /\ buf \in Seq(UpFrame) /\ down \in Seq(DownFrame)
  /\ bpc \in BrokerPC /\ cause \in Cause /\ expired \in BOOLEAN
  /\ proc \in BOOLEAN /\ box \in {"none", "created", "running", "gone"} /\ cid \in BOOLEAN
  /\ tty \in Nat /\ produced \in Nat

\* The container runs only while the broker thread has the workspace lock, however the
\* session ends: exit, cancel, timeout, a broken connection at any write, and with a
\* podman client killed at any point of starting the container.  Only a crash of agentd
\* leaves it behind (see strays in TaskLifecycle).
ContainerUnderLock ==
  box = "running" /\ bpc \in {"answer", "release", "over"} => cause = "crash"

\* When agentctl returns the agent's own exit code it has displayed all that the
\* agent wrote: the PTY is drained after the process has gone.
OutputBeforeExit == result = "agent" => shown = produced

\* The session as the operator and the next request for the workspace see it.
Contract == INSTANCE SessionContract WITH
              session <- CASE bpc = "release" -> "ended"
                           [] bpc = "over"    -> IF cause = "crash" THEN "crashed" ELSE "closed"
                           [] OTHER           -> "open",
              written <- produced,
              code    <- result

\* However frames, signals, the pump, the deadline, the podman client and the loss of
\* either side interleave, agentctl shows only what was written and returns an exit code
\* only when the container has gone for good, and nothing but the release of the lock
\* can follow: whoever sees it and starts the next session waits for no container.
ContractSpec == Contract!Spec

\* The broker waits for the other end of the PTY to read its input.
InputUnread == bpc = "input" /\ proc

\* A session whose agentctl is gone ends, whatever frames it left unread and even if
\* the agent never writes again: the workspace lock is not held for nobody.  The one
\* exception is an agent that for ever neither ends nor reads what it was sent.
HangupEnds == <>[]InputUnread \/ ((result # "none") ~> (bpc = "over"))

\* agentctl's main thread waits in a handler for the lock it holds itself ...
LockedByItself == \E i \in 1 .. Len(handlers) - 1 : handlers[i].sending

\* ... or it waits in a handler, to send or for the pump that sends, while the broker
\* does not read because it waits for the main thread to take what it wrote.
LockedInCircle == /\ handlers # <<>> /\ (Top.sending \/ sendLock = "pump")
                  /\ Len(up) = Room /\ Len(down) = Room

\* A login ends after its timeout, unless agentctl has locked itself up for good and no
\* longer reads what the broker must write first, or the agent never reads its input.
TimeoutEnds == \/ <>[]LockedByItself \/ <>[]LockedInCircle \/ <>[]InputUnread
               \/ expired ~> (bpc = "over")

\* A cancel frame that has reached the broker ends the session: receive_control gives
\* "the next control event, or None if no event is available".  Where the agent never
\* reads its input, nothing is said.
CancelEnds == <>[]InputUnread \/ ((\E i \in 1 .. Len(buf) : buf[i] = "cancel") ~> (bpc = "over"))
=============================================================================
