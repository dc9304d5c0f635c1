------------------------- MODULE InteractiveSession -------------------------
(***************************************************************************)
(* One container session, from the terminal to the container: agentctl     *)
(* (its main thread with two signal handlers, its input pump and the lock  *)
(* they send under), the socket, the broker thread that runs the podman    *)
(* client and listens for control frames, and the container.  The broker   *)
(* holds the lock of the workspace until it has sent the exit frame.       *)
(*                                                                         *)
(* Socket buffers hold Room frames in each direction; a full buffer blocks *)
(* its sender.                                                             *)
(***************************************************************************)
EXTENDS Naturals, Sequences

CONSTANTS Interactive,  \* run and auth: a PTY and control frames; index: neither
          Events,       \* what the outside does (see EventKinds)
          Room,         \* frames a socket buffer holds, chunks the PTY holds
          MaxOutput,    \* bound: chunks the agent writes
          MaxKeys,      \* bound: reads of the input pump
          MaxSignals    \* bound: handlers on the main thread's stack

EventKinds == {"keys", "sigint", "sigwinch", "hangup", "deadline", "crash"}

ASSUME InteractiveAssumption == Interactive \in BOOLEAN
ASSUME EventsAssumption == Events \subseteq EventKinds
ASSUME RoomAssumption == Room \in Nat \ {0}

VARIABLES
  handlers,   \* signal handlers on the stack of agentctl's main thread
  pump,       \* frames the input pump has still to send
  typing,     \* the pump still reads the terminal
  keys,       \* reads the pump has made
  sendLock,   \* who holds send_lock: "free", "main" or "pump"
  cancelSent, \* the event cancel_sent
  result,     \* what agentctl returned; "none" while it runs
  up, down,   \* frames in the socket, to the broker and to agentctl
  buf,        \* frames the broker has received but not yet looked at
  bpc,        \* where the broker thread is
  cause,      \* why the session ends
  expired,    \* the deadline has passed
  proc,       \* the podman client runs
  box,        \* the container
  cid,        \* the cidfile names the container
  tty,        \* chunks waiting in the PTY (or pipe)
  produced,   \* chunks the agent wrote
  shown       \* chunks agentctl displayed

client    == <<handlers, pump, typing, keys, sendLock, cancelSent, result, shown>>
container == <<proc, box, cid, tty, produced>>
vars == <<client, up, down, buf, bpc, cause, expired, container>>

UpFrame   == {"input", "resize", "cancel"}
Code      == {"agent", "124", "130"}
DownFrame == {"output", "notice"} \cup Code
Handler   == [frame : {"cancel", "resize"}, sending : BOOLEAN]
BrokerPC  == {"deadline", "notice", "select", "write", "control", "input", "poll", "drain",
              "drainwrite", "stop", "clean", "answer", "release", "over"}
Cause     == {"none", "agent", "timeout", "cancel", "broken", "crash"}

Running == result = "none"      \* agentctl lives and its end of the socket is open
Top     == handlers[Len(handlers)]
Below   == SubSeq(handlers, 1, Len(handlers) - 1)

(***************************************************************************)
(* agentctl: signal handlers on the main thread.                           *)
(***************************************************************************)
\* Python runs a handler on the main thread between two bytecodes, also inside
\* another handler.
Interrupt(frame) ==
  /\ Running /\ Interactive /\ Len(handlers) < MaxSignals
  /\ handlers' = Append(handlers, [frame |-> frame, sending |-> FALSE])
  /\ UNCHANGED <<pump, typing, keys, sendLock, result, shown, up, down, buf, bpc, cause, expired,
                 container>>

SigWinch == "sigwinch" \in Events /\ Interrupt("resize") /\ UNCHANGED cancelSent
SigInt   == "sigint" \in Events /\ ~cancelSent /\ Interrupt("cancel") /\ cancelSent' = TRUE

MainLocks ==
  /\ handlers # <<>> /\ ~Top.sending /\ sendLock = "free"
  /\ sendLock' = "main"
  /\ handlers' = [handlers EXCEPT ![Len(handlers)].sending = TRUE]
  /\ UNCHANGED <<pump, typing, keys, cancelSent, result, shown, up, down, buf, bpc, cause,
                 expired, container>>

\* sendall, which blocks while the buffer is full and fails when the broker is gone
\* (the handlers ignore that).
Send(frame) == \/ bpc = "over" /\ UNCHANGED up
               \/ bpc # "over" /\ Len(up) < Room /\ up' = Append(up, frame)

MainSends ==
  /\ handlers # <<>> /\ Top.sending
  /\ Send(Top.frame)
  /\ sendLock' = "free"
  /\ handlers' = Below
  /\ UNCHANGED <<pump, typing, keys, cancelSent, result, shown, down, buf, bpc, cause, expired,
                 container>>

(***************************************************************************)
(* agentctl: the input pump.                                               *)
(***************************************************************************)
\* One os.read: text, text up to a Ctrl-C, or a Ctrl-C alone.  After a Ctrl-C the
\* pump ends.
Type ==
  /\ Running /\ Interactive /\ "keys" \in Events
  /\ typing /\ pump = <<>> /\ keys < MaxKeys
  /\ keys' = keys + 1
  /\ \/ pump' = <<"input">> /\ UNCHANGED typing
     \/ pump' \in {<<"input", "ctrl-c">>, <<"ctrl-c">>} /\ typing' = FALSE
  /\ UNCHANGED <<handlers, sendLock, cancelSent, result, shown, up, down, buf, bpc, cause, expired,
                 container>>

\* request_cancel in the pump: a SIGINT handler may run between its test of cancel_sent
\* and the set, and both send a cancel frame.
PumpTests ==
  /\ pump = <<"ctrl-c">>
  /\ pump' = IF cancelSent THEN <<>> ELSE <<"set">>
  /\ UNCHANGED <<handlers, typing, keys, sendLock, cancelSent, result, shown, up, down, buf, bpc,
                 cause, expired, container>>

PumpSets ==
  /\ pump = <<"set">>
  /\ pump' = <<"cancel">> /\ cancelSent' = TRUE
  /\ UNCHANGED <<handlers, typing, keys, sendLock, result, shown, up, down, buf, bpc, cause,
                 expired, container>>

PumpLocks ==
  /\ pump # <<>> /\ Head(pump) \in UpFrame /\ sendLock = "free"
  /\ sendLock' = "pump"
  /\ UNCHANGED <<handlers, pump, typing, keys, cancelSent, result, shown, up, down, buf, bpc,
                 cause, expired, container>>

PumpSends ==
  /\ sendLock = "pump"
  /\ Send(Head(pump))
  /\ sendLock' = "free"
  /\ IF bpc = "over" THEN pump' = <<>> /\ typing' = FALSE      \* OSError
                     ELSE pump' = Tail(pump) /\ UNCHANGED typing
  /\ UNCHANGED <<handlers, keys, cancelSent, result, shown, down, buf, bpc, cause, expired,
                 container>>

(***************************************************************************)
(* agentctl: the main loop.                                                *)
(***************************************************************************)
\* Returning from rpc ends the process: its threads and locks go with it.
Return(code) ==
  /\ result' = code
  /\ handlers' = <<>> /\ pump' = <<>> /\ typing' = FALSE /\ sendLock' = "free"
  /\ UNCHANGED <<keys, cancelSent>>

ReadFrame ==
  /\ Running /\ handlers = <<>> /\ down # <<>>
  /\ down' = Tail(down)
  /\ IF Head(down) \in Code
       THEN Return(Head(down)) /\ UNCHANGED shown
       ELSE /\ shown' = IF Head(down) = "output" THEN shown + 1 ELSE shown
            /\ UNCHANGED <<handlers, pump, typing, keys, sendLock, cancelSent, result>>
  /\ UNCHANGED <<up, buf, bpc, cause, expired, container>>

\* Variant: the end of the connection passes for the end of the agent.
ReadEndAsExit ==
  /\ Running /\ handlers = <<>> /\ down = <<>> /\ bpc = "over"
  /\ Return(IF cancelSent /\ up = <<>> THEN "130" ELSE "agent")
  /\ UNCHANGED <<shown, up, down, buf, bpc, cause, expired, container>>

\* The connection was closed without an answer: the end of the stream, or a reset when
\* the broker had left frames unread, which agentctl does not expect.
ReadEnd ==
  /\ Running /\ handlers = <<>> /\ down = <<>> /\ bpc = "over"
  /\ Return(IF cancelSent /\ up = <<>> THEN "130" ELSE "lost")
  /\ UNCHANGED <<shown, up, down, buf, bpc, cause, expired, container>>

\* The terminal closes or agentctl is killed (Ctrl-C, in a session without a PTY).
HangUp ==
  /\ "hangup" \in Events /\ Running
  /\ Return("killed")
  /\ UNCHANGED <<shown, up, down, buf, bpc, cause, expired, container>>

(***************************************************************************)
(* The broker thread: the loop of run_interactive_argv.                    *)
(***************************************************************************)
Broker(from, to) == bpc = from /\ bpc' = to

\* send_output and send: blocks while the buffer is full, raises when agentctl is gone.
Write(frame, from, to, broken) ==
  \/ Running /\ Len(down) < Room /\ Broker(from, to) /\ down' = Append(down, frame)
       /\ UNCHANGED cause
  \/ ~Running /\ Broker(from, broken) /\ cause' = "broken" /\ UNCHANGED down

\* Variant: the deadline is looked at after the output, and not in an idle loop.
LateDeadline ==
  /\ IF expired /\ tty > 0 THEN Broker("deadline", "notice") /\ cause' = "timeout"
                            ELSE Broker("deadline", "select") /\ UNCHANGED cause
  /\ UNCHANGED <<client, up, down, buf, expired, container>>

CheckDeadline ==
  /\ IF expired THEN Broker("deadline", "notice") /\ cause' = "timeout"
                ELSE Broker("deadline", "select") /\ UNCHANGED cause
  /\ UNCHANGED <<client, up, down, buf, expired, container>>

SendNotice ==
  /\ Write("notice", "notice", "stop", "stop")
  /\ UNCHANGED <<client, up, buf, expired, container>>

Forward(from, write, otherwise) ==
  /\ IF tty > 0 THEN Broker(from, write) /\ tty' = tty - 1
                ELSE Broker(from, otherwise) /\ UNCHANGED tty
  /\ UNCHANGED <<client, up, down, buf, cause, expired, proc, box, cid, produced>>

SelectOutput == Forward("select", "write", "control")

WriteOutput ==
  /\ Write("output", "write", "control", "stop")
  /\ UNCHANGED <<client, up, buf, expired, container>>

\* receive_control: select looks at the socket, readline at the frames already
\* received.  One recv takes any number of the frames that are there.
Received(k) == buf \o SubSeq(up, 1, k)

\* Variant: the end of the connection is taken for no frame.
IgnoreEnd ==
  /\ Broker("control", "poll") /\ up = <<>> /\ buf = <<>>
  /\ UNCHANGED <<client, up, down, buf, cause, expired, container>>

NoControl ==
  /\ Broker("control", "poll") /\ up = <<>> /\ Running
  /\ UNCHANGED <<client, up, down, buf, cause, expired, container>>

ReceiveControl ==
  /\ bpc = "control" /\ (up # <<>> \/ ~Running) /\ (buf # <<>> \/ up # <<>>)
  /\ \E k \in IF buf # <<>> THEN {0} ELSE 1 .. Len(up) :
       /\ buf' = Tail(Received(k))
       /\ up' = SubSeq(up, k + 1, Len(up))
       /\ \/ Head(Received(k)) = "cancel" /\ bpc' = "stop" /\ cause' = "cancel"
          \/ Head(Received(k)) = "input"  /\ bpc' = "input" /\ UNCHANGED cause
          \/ Head(Received(k)) = "resize" /\ bpc' = "poll" /\ UNCHANGED cause
  /\ UNCHANGED <<client, down, expired, container>>

\* os.write to the PTY returns when the other end has read enough to make room; until
\* then the thread looks neither at the deadline nor at the socket.
TakeInput ==
  /\ proc /\ Broker("input", "poll")
  /\ UNCHANGED <<client, up, down, buf, cause, expired, container>>

\* Nobody is left at the other end: an OSError, which is ignored.
InputFails ==
  /\ ~proc /\ Broker("input", "poll")
  /\ UNCHANGED <<client, up, down, buf, cause, expired, container>>

\* A peer that closed with unread output resets the connection instead.
ReceiveEnd ==
  /\ ~Running /\ buf = <<>> /\ up = <<>>
  /\ Broker("control", "stop")
  /\ cause' = IF down = <<>> THEN "cancel" ELSE "broken"
  /\ UNCHANGED <<client, up, down, buf, expired, container>>

\* Variant: what the PTY still holds when the process ends is dropped.
PollWithoutDrain ==
  /\ IF proc THEN Broker("poll", "deadline") /\ UNCHANGED cause
             ELSE Broker("poll", "stop") /\ cause' = "agent"
  /\ UNCHANGED <<client, up, down, buf, expired, container>>

Poll ==
  /\ Broker("poll", IF proc THEN "deadline" ELSE "drain")
  /\ UNCHANGED <<client, up, down, buf, cause, expired, container>>

\* Also the whole loop of a session without a PTY, which reads until the end.
Drain ==
  \/ tty > 0 /\ Forward("drain", "drainwrite", "drain")
  \/ /\ tty = 0 /\ ~proc
     /\ Broker("drain", IF Interactive THEN "stop" ELSE "answer")
     /\ cause' = "agent"
     /\ UNCHANGED <<client, up, down, buf, expired, container>>

DrainWrite ==
  /\ Write("output", "drainwrite", "drain", IF Interactive THEN "stop" ELSE "over")
  /\ UNCHANGED <<client, up, buf, expired, container>>

\* terminate_process_group: SIGINT, SIGTERM, SIGKILL.  The podman client is gone
\* afterwards; it may have taken the container with it.
Stop ==
  /\ Broker("stop", "clean")
  /\ proc' = FALSE
  /\ box' \in IF proc /\ box = "running" THEN {"running", "gone"} ELSE {box}
  /\ UNCHANGED <<client, up, down, buf, cause, expired, cid, tty, produced>>

\* Variant: a cancelled container is trusted to be gone.
CleanUnlessCancelled ==
  /\ Broker("clean", "answer")
  /\ box' = IF cid /\ cause # "cancel" THEN "gone" ELSE box
  /\ cid' = FALSE
  /\ UNCHANGED <<client, up, down, buf, cause, expired, proc, tty, produced>>

\* podman rm -f of the container the cidfile names; the cidfile is removed.
Clean ==
  /\ Broker("clean", "answer")
  /\ box' = IF cid THEN "gone" ELSE box
  /\ cid' = FALSE
  /\ UNCHANGED <<client, up, down, buf, cause, expired, proc, tty, produced>>

\* Variant: the reason is sent in place of an exit code.
ReasonAsCode(why) == why

CodeOf(why) == CASE why = "timeout" -> "124"
                 [] why = "cancel"  -> "130"
                 [] OTHER           -> "agent"

\* The exit frame, if there is anybody to read it, sent under the lock.
Answer ==
  \/ /\ cause # "broken"
     /\ Write(CodeOf(cause), "answer", "release", "release")
     /\ UNCHANGED <<client, up, buf, expired, container>>
  \/ /\ cause = "broken" /\ Broker("answer", "release")
     /\ UNCHANGED <<client, up, down, buf, cause, expired, container>>

\* Then the lock is released (a login has none) and the connection closed.
Release ==
  /\ Broker("release", "over")
  /\ UNCHANGED <<client, up, down, buf, cause, expired, container>>

(***************************************************************************)
(* The podman client, the container and the clock.                         *)
(***************************************************************************)
Podman ==
  /\ proc
  /\ \/ box = "none" /\ box' = "created" /\ UNCHANGED <<proc, cid>>
     \/ box = "created" /\ Interactive /\ ~cid /\ cid' = TRUE /\ UNCHANGED <<proc, box>>
     \/ box = "created" /\ (Interactive => cid) /\ box' = "running" /\ UNCHANGED <<proc, cid>>
     \/ box = "gone" /\ proc' = FALSE /\ UNCHANGED <<box, cid>>
  /\ UNCHANGED <<client, up, down, buf, bpc, cause, expired, tty, produced>>

AgentWrites ==
  /\ box = "running" /\ proc /\ tty < Room /\ produced < MaxOutput
  /\ tty' = tty + 1 /\ produced' = produced + 1
  /\ UNCHANGED <<client, up, down, buf, bpc, cause, expired, proc, box, cid>>

AgentEnds ==
  /\ box = "running"
  /\ box' = "gone"
  /\ UNCHANGED <<client, up, down, buf, bpc, cause, expired, proc, cid, tty, produced>>

DeadlinePasses ==
  /\ "deadline" \in Events /\ Interactive /\ ~expired /\ bpc # "over"
  /\ expired' = TRUE
  /\ UNCHANGED <<client, up, down, buf, bpc, cause, container>>

\* agentd dies and its podman client with it, and cuts a session off that has not been
\* answered yet.  The container is in a scope of its own and goes on.
Crash ==
  /\ "crash" \in Events /\ bpc # "over"
  /\ bpc' = "over" /\ cause' = IF bpc = "release" THEN cause ELSE "crash"
  /\ proc' = FALSE /\ buf' = <<>>
  /\ UNCHANGED <<client, up, down, expired, box, cid, tty, produced>>

(***************************************************************************)
(* The specification: it starts when agentctl has got the start frame, set *)
(* the terminal up and sent its size.                                      *)
(***************************************************************************)
Init ==
  /\ handlers = <<>> /\ pump = <<>> /\ typing = TRUE /\ keys = 0 /\ sendLock = "free"
  /\ cancelSent = FALSE /\ result = "none" /\ shown = 0
  /\ up = IF "sigwinch" \in Events THEN <<"resize">> ELSE <<>>
  /\ down = <<>> /\ buf = <<>>
  /\ bpc = IF Interactive THEN "deadline" ELSE "drain"
  /\ cause = "none" /\ expired = FALSE
  /\ proc = TRUE /\ box = "none" /\ cid = FALSE /\ tty = 0 /\ produced = 0

MainStep   == MainLocks \/ MainSends \/ ReadFrame \/ ReadEnd
PumpStep   == PumpTests \/ PumpSets \/ PumpLocks \/ PumpSends
BrokerStep == \/ CheckDeadline \/ SendNotice \/ SelectOutput \/ WriteOutput
              \/ NoControl \/ ReceiveControl \/ ReceiveEnd \/ InputFails \/ Poll
              \/ Drain \/ DrainWrite \/ Stop \/ Clean \/ Answer \/ Release
Outside    == \/ SigInt \/ SigWinch \/ Type \/ HangUp \/ DeadlinePasses \/ Crash
              \/ Podman \/ TakeInput \/ AgentWrites \/ AgentEnds

Next == MainStep \/ PumpStep \/ BrokerStep \/ Outside

Spec == Init /\ [][Next]_vars

\* The threads of agentctl and of the broker run when they can, and podman ends after
\* its container.  Nothing is assumed of the agent (it may never write, end or read its
\* input), the operator or the clock.
Fairness == WF_vars(MainStep) /\ WF_vars(PumpStep) /\ WF_vars(BrokerStep) /\ WF_vars(Podman)

FairSpec == Spec /\ Fairness
=============================================================================
