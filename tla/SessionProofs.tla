--------------------------- MODULE SessionProofs ---------------------------
(***************************************************************************)
(* Proofs about one session, for any events, buffer sizes and bounds.      *)
(*                                                                         *)
(* That it never leaves its container running without the lock rests on    *)
(* the order of three things: podman names the container in the cidfile    *)
(* before it starts it, the client is dead before the cidfile is read, and *)
(* the container is removed before the answer.  That an exit code comes    *)
(* after all output rests on a count: every chunk the agent wrote is in    *)
(* the PTY, in the hand of the broker, in the socket, or displayed.        *)
(***************************************************************************)
EXTENDS SessionProperties, SequenceTheorems, TLAPS

\* A running container is named by the cidfile ...
Named == box = "running" => cid

\* ... and once the broker looks there, nobody starts another one.
Dead == bpc \in {"clean", "answer", "release", "over"} => ~proc

\* The answer is sent after the container was removed.
Removed == bpc = "answer" => box # "running"

SInv == Named /\ Dead /\ Removed /\ ContainerUnderLock

\* agentctl and the clock have no hand in this.
LEMMA ClientStep ==
  ASSUME SInv, MainStep \/ PumpStep \/ SigInt \/ SigWinch \/ Type \/ HangUp \/ DeadlinePasses
  PROVE  SInv'
<1>1. UNCHANGED <<bpc, cause, container>>
  BY DEF MainStep, PumpStep, SigInt, SigWinch, Type, HangUp, DeadlinePasses, Interrupt, MainLocks,
         MainSends, ReadFrame, ReadEnd, PumpTests, PumpSets, PumpLocks, PumpSends
<1>2. QED
  BY <1>1 DEF SInv, Named, Dead, Removed, ContainerUnderLock, container

\* The broker thread up to the end of the podman client.
LEMMA LoopStep ==
  ASSUME Interactive = TRUE, SInv,
         \/ CheckDeadline \/ SendNotice \/ SelectOutput \/ WriteOutput \/ NoControl
         \/ ReceiveControl \/ ReceiveEnd \/ TakeInput \/ InputFails \/ Poll \/ Drain \/ DrainWrite
  PROVE  SInv'
<1>1. UNCHANGED <<proc, box, cid>>
  BY DEF CheckDeadline, SendNotice, SelectOutput, WriteOutput, NoControl, ReceiveControl,
         ReceiveEnd, TakeInput, InputFails, Poll, Drain, DrainWrite, Forward, container
<1>2. bpc' \notin {"clean", "answer", "release", "over"}
  BY DEF CheckDeadline, SendNotice, SelectOutput, WriteOutput, NoControl, ReceiveControl,
         ReceiveEnd, TakeInput, InputFails, Poll, Drain, DrainWrite, Forward, Write, Broker
<1>3. QED
  BY <1>1, <1>2 DEF SInv, Named, Dead, Removed, ContainerUnderLock

\* Its end: stop the client, remove the container, answer.
LEMMA EndStep ==
  ASSUME SInv, Stop \/ Clean \/ Answer \/ Release
  PROVE  SInv'
<1>1. CASE Stop
  BY <1>1 DEF Stop, Broker, SInv, Named, Dead, Removed, ContainerUnderLock
<1>2. CASE Clean
  BY <1>2 DEF Clean, Broker, SInv, Named, Dead, Removed, ContainerUnderLock
<1>3. CASE Answer
  <2>1. UNCHANGED <<proc, box, cid>> /\ bpc = "answer" /\ bpc' = "release"
    BY <1>3 DEF Answer, Write, Broker, container
  <2>2. box # "running" /\ ~proc
    BY <2>1 DEF SInv, Dead, Removed
  <2>3. QED
    BY <2>1, <2>2 DEF SInv, Named, Dead, Removed, ContainerUnderLock
<1>4. CASE Release
  BY <1>4 DEF Release, Broker, container, SInv, Named, Dead, Removed, ContainerUnderLock
<1>5. QED
  BY <1>1, <1>2, <1>3, <1>4

\* The podman client, the agent and a crash of agentd.
LEMMA ContainerStep ==
  ASSUME Interactive = TRUE, SInv, Podman \/ AgentWrites \/ AgentEnds \/ Crash
  PROVE  SInv'
<1>1. CASE Podman
  <2>1. proc /\ UNCHANGED <<bpc, cause>> /\ bpc \notin {"clean", "answer", "release", "over"}
    BY <1>1 DEF Podman, SInv, Dead
  <2>2. ASSUME box' = "running"
        PROVE  cid'
    <3>1. (Interactive => cid) /\ cid' = cid
      BY <1>1, <2>2 DEF Podman
    <3>2. QED
      BY <3>1
  <2>3. QED
    BY <2>1, <2>2 DEF SInv, Named, Dead, Removed, ContainerUnderLock
<1>2. CASE AgentWrites \/ AgentEnds
  BY <1>2 DEF AgentWrites, AgentEnds, SInv, Named, Dead, Removed, ContainerUnderLock
<1>3. CASE Crash
  BY <1>3 DEF Crash, SInv, Named, Dead, Removed, ContainerUnderLock
<1>4. QED
  BY <1>1, <1>2, <1>3

LEMMA LockIsKept == ASSUME Interactive = TRUE PROVE Spec => []SInv
<1>1. Init => SInv
  BY DEF Init, SInv, Named, Dead, Removed, ContainerUnderLock
<1>2. SInv /\ [Next]_vars => SInv'
  <2>1. CASE Next
    BY <2>1, ClientStep, LoopStep, EndStep, ContainerStep DEF Next, BrokerStep, Outside
  <2>2. CASE UNCHANGED vars
    BY <2>2 DEF vars, container, SInv, Named, Dead, Removed, ContainerUnderLock
  <2>3. QED
    BY <2>1, <2>2
<1>3. QED
  BY <1>1, <1>2, PTL DEF Spec

\* The container of an interactive session never runs on after the workspace lock was
\* released, unless agentd itself dies (run_interactive_argv and its finally).
THEOREM ContainersEndFirst == ASSUME Interactive = TRUE PROVE Spec => []ContainerUnderLock
<1>1. SInv => ContainerUnderLock
  BY DEF SInv
<1>2. QED
  BY <1>1, LockIsKept, PTL

(***************************************************************************)
(* Type correctness.                                                       *)
(***************************************************************************)
\* The pump has a frame in hand while it holds the send lock, so the head it sends is
\* one the broker knows.
PumpHasFrame == sendLock = "pump" => pump # <<>> /\ Head(pump) \in UpFrame

TInv == SessionTypeOK /\ PumpHasFrame

LEMMA SeqFacts ==
  ASSUME NEW S, NEW s \in Seq(S)
  PROVE  /\ <<>> \in Seq(S)
         /\ \A x \in S : Append(s, x) \in Seq(S)
         /\ \A k \in 0 .. Len(s) : SubSeq(s, 1, k) \in Seq(S) /\ SubSeq(s, k + 1, Len(s)) \in Seq(S)
         /\ s # <<>> => Head(s) \in S /\ Tail(s) \in Seq(S) /\ Len(s) \in Nat \ {0}
                        /\ SubSeq(s, 1, Len(s) - 1) \in Seq(S) /\ s[Len(s)] \in S
<1>1. Len(s) \in Nat /\ \A i \in 1 .. Len(s) : s[i] \in S
  BY LenProperties, ElementOfSeq
<1>2. ASSUME NEW k \in 0 .. Len(s)
      PROVE  SubSeq(s, 1, k) \in Seq(S) /\ SubSeq(s, k + 1, Len(s)) \in Seq(S)
  <2>1. k \in Int /\ k + 1 \in Int /\ Len(s) \in Int
    BY <1>1
  <2>2. (\A i \in 1 .. k : s[i] \in S) /\ \A i \in k + 1 .. Len(s) : s[i] \in S
    BY <1>1
  <2>3. QED
    BY <2>1, <2>2, SubSeqProperties
<1>3. ASSUME s # <<>>
      PROVE  Head(s) \in S /\ Tail(s) \in Seq(S) /\ Len(s) \in Nat \ {0}
             /\ SubSeq(s, 1, Len(s) - 1) \in Seq(S) /\ s[Len(s)] \in S
  <2>1. Head(s) \in S /\ Tail(s) \in Seq(S) /\ Len(s) \in Nat \ {0}
    BY <1>3, HeadTailProperties, EmptySeq
  <2>2. Len(s) - 1 \in 0 .. Len(s) /\ Len(s) \in 1 .. Len(s)
    BY <2>1
  <2>3. QED
    BY <1>1, <1>2, <2>1, <2>2
<1>4. QED
  BY <1>2, <1>3

LEMMA ShortSeqs ==
  ASSUME NEW S, NEW x \in S, NEW y \in S
  PROVE  <<>> \in Seq(S) /\ <<x>> \in Seq(S) /\ <<x, y>> \in Seq(S)
OBVIOUS

\* The frames of the pump, typed or not.
LEMMA PumpSeqs ==
  LET Items == Seq({"input", "cancel", "ctrl-c", "set"}) IN
  /\ <<>> \in Items /\ <<"set">> \in Items /\ <<"cancel">> \in Items /\ <<"ctrl-c">> \in Items
  /\ <<"input">> \in Items /\ <<"input", "ctrl-c">> \in Items
<1> DEFINE S == {"input", "cancel", "ctrl-c", "set"}
<1>1. "input" \in S /\ "cancel" \in S /\ "ctrl-c" \in S /\ "set" \in S
  OBVIOUS
<1> HIDE DEF S
<1>2. /\ <<>> \in Seq(S) /\ <<"set">> \in Seq(S) /\ <<"cancel">> \in Seq(S)
      /\ <<"ctrl-c">> \in Seq(S) /\ <<"input">> \in Seq(S) /\ <<"input", "ctrl-c">> \in Seq(S)
  BY <1>1, ShortSeqs
<1>3. QED
  BY <1>2 DEF S

\* What is sent is a frame the broker knows.
LEMMA SentFrames ==
  ASSUME up \in Seq(UpFrame), NEW frame \in UpFrame, up' = up \/ up' = Append(up, frame)
  PROVE  up' \in Seq(UpFrame)
BY SeqFacts

LEMMA AnsweredFrames ==
  ASSUME down \in Seq(DownFrame), NEW frame \in DownFrame, down' = down \/ down' = Append(down, frame)
  PROVE  down' \in Seq(DownFrame)
BY SeqFacts

\* agentctl.
LEMMA ClientTypes ==
  ASSUME TInv, MainStep \/ PumpStep \/ SigInt \/ SigWinch \/ Type \/ HangUp
  PROVE  TInv'
<1> USE DEF TInv, PumpHasFrame, SessionTypeOK
<1>1. CASE SigInt \/ SigWinch
  <2>1. PICK frame \in {"cancel", "resize"} :
          handlers' = Append(handlers, [frame |-> frame, sending |-> FALSE])
    BY <1>1 DEF SigInt, SigWinch, Interrupt
  <2>2. [frame |-> frame, sending |-> FALSE] \in Handler
    BY DEF Handler
  <2>3. handlers' \in Seq(Handler)
    BY <2>1, <2>2, SeqFacts
  <2>4. /\ UNCHANGED <<pump, typing, keys, sendLock, result, shown>>
        /\ UNCHANGED <<up, down, buf, bpc, cause, expired, container>>
        /\ cancelSent' \in BOOLEAN
    BY <1>1 DEF SigInt, SigWinch, Interrupt
  <2>5. QED
    BY <2>3, <2>4 DEF container
<1>2. CASE MainLocks
  <2>1. handlers # <<>> /\ handlers' = [handlers EXCEPT ![Len(handlers)].sending = TRUE]
    BY <1>2 DEF MainLocks
  <2>2. handlers[Len(handlers)] \in Handler /\ Len(handlers) \in Nat \ {0}
    BY <2>1, SeqFacts
  <2>3. [handlers[Len(handlers)] EXCEPT !.sending = TRUE] \in Handler
    BY <2>2 DEF Handler
  <2>4. handlers' = [handlers EXCEPT ![Len(handlers)] =
                       [handlers[Len(handlers)] EXCEPT !.sending = TRUE]]
    BY <2>1
  <2>5. handlers' \in Seq(Handler)
    BY <2>2, <2>3, <2>4, ExceptSeq
  <2>6. QED
    BY <1>2, <2>5 DEF MainLocks, container
<1>3. CASE MainSends
  <2>1. handlers' \in Seq(Handler) /\ Top \in Handler
    BY <1>3, SeqFacts DEF MainSends, Below, Top
  <2>2. PICK frame \in UpFrame : frame = Top.frame
    BY <2>1 DEF Handler, UpFrame
  <2>3. up' = up \/ up' = Append(up, frame)
    BY <1>3, <2>2 DEF MainSends, Send
  <2>4. up' \in Seq(UpFrame)
    BY <2>3, SentFrames
  <2>5. QED
    BY <1>3, <2>1, <2>4 DEF MainSends, container
<1>4. CASE Type
  <2>1. pump' \in {<<"input">>, <<"input", "ctrl-c">>, <<"ctrl-c">>} /\ typing' \in BOOLEAN
    BY <1>4 DEF Type
  <2>2. pump' \in Seq({"input", "cancel", "ctrl-c", "set"})
    BY <2>1, PumpSeqs
  <2>3. pump = <<>> /\ sendLock # "pump"
    BY <1>4 DEF Type
  <2>4. QED
    BY <1>4, <2>1, <2>2, <2>3 DEF Type, container
<1>5. CASE PumpTests \/ PumpSets
  <2>1. pump' \in {<<>>, <<"set">>, <<"cancel">>} /\ cancelSent' \in BOOLEAN
    BY <1>5 DEF PumpTests, PumpSets
  <2>2. pump' \in Seq({"input", "cancel", "ctrl-c", "set"})
    BY <2>1, PumpSeqs
  <2>3. sendLock # "pump"
    BY <1>5 DEF PumpTests, PumpSets, UpFrame
  <2>4. QED
    BY <1>5, <2>1, <2>2, <2>3 DEF PumpTests, PumpSets, container
<1>6. CASE PumpLocks
  BY <1>6 DEF PumpLocks, container
<1>7. CASE PumpSends
  <2>1. pump' \in Seq({"input", "cancel", "ctrl-c", "set"}) /\ typing' \in BOOLEAN
    BY <1>7, SeqFacts DEF PumpSends
  <2>2. PICK frame \in UpFrame : frame = Head(pump)
    BY <1>7 DEF PumpSends
  <2>3. up' = up \/ up' = Append(up, frame)
    BY <1>7, <2>2 DEF PumpSends, Send
  <2>4. up' \in Seq(UpFrame)
    BY <2>3, SentFrames
  <2>5. QED
    BY <1>7, <2>1, <2>4 DEF PumpSends, container
<1>8. CASE ReadFrame
  <2>1. Head(down) \in DownFrame /\ down' \in Seq(DownFrame)
    BY <1>8, SeqFacts DEF ReadFrame
  <2>2. UNCHANGED <<keys, cancelSent, up, buf, bpc, cause, expired, container>>
    BY <1>8 DEF ReadFrame, Return
  <2>3. CASE Head(down) \in Code
    <3>1. /\ handlers' = <<>> /\ pump' = <<>> /\ typing' = FALSE /\ sendLock' = "free"
          /\ result' \in Code /\ shown' = shown
      BY <1>8, <2>3 DEF ReadFrame, Return
    <3>2. handlers' \in Seq(Handler) /\ pump' \in Seq({"input", "cancel", "ctrl-c", "set"})
      BY <3>1, EmptySeq
    <3>3. QED
      BY <2>1, <2>2, <3>1, <3>2 DEF container
  <2>4. CASE Head(down) \notin Code
    <3>1. /\ UNCHANGED <<handlers, pump, typing, sendLock, result>>
          /\ shown' \in Nat
      BY <1>8, <2>4 DEF ReadFrame
    <3>2. QED
      BY <2>1, <2>2, <3>1 DEF container
  <2>5. QED
    BY <2>3, <2>4
<1>9. CASE ReadEnd \/ HangUp
  <2>1. handlers' \in Seq(Handler) /\ pump' \in Seq({"input", "cancel", "ctrl-c", "set"})
    BY <1>9, EmptySeq DEF ReadEnd, HangUp, Return
  <2>2. result' \in Code \cup {"none", "lost", "killed"}
    BY <1>9 DEF ReadEnd, HangUp, Return, Code
  <2>3. QED
    BY <1>9, <2>1, <2>2 DEF ReadEnd, HangUp, Return, container
<1>10. QED
  BY <1>1, <1>2, <1>3, <1>4, <1>5, <1>6, <1>7, <1>8, <1>9 DEF MainStep, PumpStep

\* The broker thread.
LEMMA BrokerTypes ==
  ASSUME TInv, BrokerStep
  PROVE  TInv'
<1> USE DEF TInv, SessionTypeOK
<1>c. UNCHANGED client /\ UNCHANGED <<expired, produced>>
  BY DEF BrokerStep, CheckDeadline, SendNotice, SelectOutput, WriteOutput, NoControl,
         ReceiveControl, ReceiveEnd, InputFails, Poll, Drain, DrainWrite, Stop, Clean, Answer,
         Release, Forward, container
<1>p. PumpHasFrame'
  BY <1>c DEF client, PumpHasFrame
<1>1. ASSUME up' \in Seq(UpFrame), buf' \in Seq(UpFrame), down' \in Seq(DownFrame), bpc' \in BrokerPC,
             cause' \in Cause, proc' \in BOOLEAN, box' \in {"none", "created", "running", "gone"},
             cid' \in BOOLEAN, tty' \in Nat
      PROVE  TInv'
  BY <1>1, <1>c, <1>p DEF client
<1>3. CASE CheckDeadline \/ NoControl \/ InputFails \/ Poll \/ Release
  BY <1>1, <1>3 DEF CheckDeadline, NoControl, InputFails, Poll, Release, Broker, BrokerPC, Cause,
                    container
<1>4. CASE SendNotice \/ WriteOutput \/ DrainWrite
  <2>1. PICK frame \in {"notice", "output"} :
          /\ down' = down \/ down' = Append(down, frame)
          /\ bpc' \in {"stop", "control", "drain", "over"} /\ cause' \in {cause, "broken"}
    BY <1>4 DEF SendNotice, WriteOutput, DrainWrite, Write, Broker
  <2>2. down' \in Seq(DownFrame)
    <3>1. frame \in DownFrame
      BY DEF DownFrame
    <3>2. QED
      BY <2>1, <3>1, AnsweredFrames
  <2>3. UNCHANGED <<up, buf, container>>
    BY <1>4 DEF SendNotice, WriteOutput, DrainWrite
  <2>4. QED
    BY <1>1, <2>1, <2>2, <2>3 DEF container, BrokerPC, Cause
<1>5. CASE SelectOutput \/ Drain
  <2>1. /\ bpc' \in BrokerPC /\ tty' \in Nat /\ cause' \in {cause, "agent"}
        /\ UNCHANGED <<up, down, buf, proc, box, cid>>
    BY <1>5 DEF SelectOutput, Drain, Forward, Broker, BrokerPC, container
  <2>2. QED
    BY <1>1, <2>1 DEF Cause
<1>6. CASE ReceiveControl
  <2>1. PICK k \in IF buf # <<>> THEN {0} ELSE 1 .. Len(up) :
          /\ buf' = Tail(Received(k)) /\ up' = SubSeq(up, k + 1, Len(up))
    BY <1>6 DEF ReceiveControl
  <2>2. Len(up) \in Nat /\ (buf # <<>> \/ up # <<>>)
    BY <1>6, EmptySeq DEF ReceiveControl
  <2>3. k \in 0 .. Len(up)
    BY <2>1, <2>2
  <2>4. up' \in Seq(UpFrame) /\ SubSeq(up, 1, k) \in Seq(UpFrame)
    BY <2>1, <2>3, SeqFacts
  <2>5. Received(k) \in Seq(UpFrame) /\ Len(Received(k)) = Len(buf) + Len(SubSeq(up, 1, k))
    BY <2>4, ConcatProperties DEF Received
  <2>6. Received(k) # <<>>
    <3>1. CASE buf # <<>>
      BY <2>4, <3>1, ConcatEqualIffEmpty, EmptySeq DEF Received
    <3>2. CASE buf = <<>>
      <4>1. Len(SubSeq(up, 1, k)) = k /\ k > 0
        BY <2>1, <2>2, <2>3, <3>2
      <4>2. Len(Received(k)) # 0
        BY <2>2, <2>3, <2>5, <3>2, <4>1
      <4>3. QED
        BY <4>2
    <3>3. QED
      BY <3>1, <3>2
  <2>7. buf' \in Seq(UpFrame)
    BY <2>1, <2>5, <2>6, SeqFacts
  <2>8. bpc' \in BrokerPC /\ cause' \in {cause, "cancel"} /\ UNCHANGED <<down, container>>
    BY <1>6 DEF ReceiveControl, BrokerPC
  <2>9. QED
    BY <1>1, <2>4, <2>7, <2>8 DEF Cause, container
<1>7. CASE ReceiveEnd \/ Stop \/ Clean
  BY <1>1, <1>7 DEF ReceiveEnd, Stop, Clean, Broker, BrokerPC, Cause, container
<1>8. CASE Answer
  <2>1. CodeOf(cause) \in DownFrame /\ "release" \in BrokerPC
    BY DEF CodeOf, DownFrame, Code, BrokerPC
  <2>2. UNCHANGED <<up, buf, container>>
    BY <1>8 DEF Answer
  <2>3. CASE Write(CodeOf(cause), "answer", "release", "release")
    <3>1. PICK frame \in DownFrame : down' = down \/ down' = Append(down, frame)
      BY <2>1, <2>3 DEF Write
    <3>2. down' \in Seq(DownFrame)
      BY <3>1, AnsweredFrames
    <3>3. bpc' \in BrokerPC /\ cause' \in Cause
      BY <2>1, <2>3 DEF Write, Broker, Cause
    <3>4. QED
      BY <1>1, <2>2, <3>2, <3>3 DEF container
  <2>4. CASE ~Write(CodeOf(cause), "answer", "release", "release")
    BY <1>1, <1>8, <2>1, <2>4 DEF Answer, Broker, container
  <2>5. QED
    BY <2>3, <2>4
<1>9. QED
  BY <1>3, <1>4, <1>5, <1>6, <1>7, <1>8 DEF BrokerStep

\* Every variable of a session keeps its type, for any events, buffers and bounds.
THEOREM SessionTypes == Spec => []SessionTypeOK
<1>1. Init => TInv
  <2> SUFFICES ASSUME Init PROVE TInv
    OBVIOUS
  <2>1. handlers \in Seq(Handler) /\ pump \in Seq({"input", "cancel", "ctrl-c", "set"})
        /\ down \in Seq(DownFrame) /\ buf \in Seq(UpFrame)
    BY EmptySeq DEF Init
  <2>2. "resize" \in UpFrame
    BY DEF UpFrame
  <2>3. up \in Seq(UpFrame)
    BY <2>2, ShortSeqs, EmptySeq DEF Init
  <2>4. QED
    BY <2>1, <2>3 DEF Init, TInv, SessionTypeOK, PumpHasFrame, BrokerPC, Cause
<1>2. TInv /\ [Next]_vars => TInv'
  <2> SUFFICES ASSUME TInv, [Next]_vars PROVE TInv'
    OBVIOUS
  <2>0. CASE TakeInput
    BY <2>0 DEF TakeInput, Broker, BrokerPC, TInv, SessionTypeOK, PumpHasFrame, client, container
  <2>1. CASE Podman \/ AgentWrites \/ AgentEnds \/ DeadlinePasses
    <3>1. /\ proc' = proc \/ proc' = FALSE
          /\ cid' = cid \/ cid' = TRUE
          /\ box' = box \/ box' \in {"created", "running", "gone"}
      BY <2>1 DEF Podman, AgentWrites, AgentEnds, DeadlinePasses, container
    <3>2. /\ tty' = tty \/ tty' = tty + 1
          /\ produced' = produced \/ produced' = produced + 1
          /\ expired' = expired \/ expired' = TRUE
      BY <2>1 DEF Podman, AgentWrites, AgentEnds, DeadlinePasses, container
    <3>3. UNCHANGED <<client, up, down, buf, bpc, cause>>
      BY <2>1 DEF Podman, AgentWrites, AgentEnds, DeadlinePasses
    <3>4. proc' \in BOOLEAN /\ cid' \in BOOLEAN /\ box' \in {"none", "created", "running", "gone"}
      BY <3>1 DEF TInv, SessionTypeOK
    <3>5. tty' \in Nat /\ produced' \in Nat
      <4>1. tty \in Nat /\ produced \in Nat
        BY DEF TInv, SessionTypeOK
      <4>2. QED
        BY <3>2, <4>1
    <3>6. expired' \in BOOLEAN
      <4>1. expired \in BOOLEAN
        BY DEF TInv, SessionTypeOK
      <4>2. QED
        BY <3>2, <4>1
    <3>7. QED
      BY <3>3, <3>4, <3>5, <3>6 DEF TInv, SessionTypeOK, PumpHasFrame, client
  <2>2. CASE Crash
    <3>1. up' \in Seq(UpFrame) /\ buf' \in Seq(UpFrame)
      BY <2>2, EmptySeq DEF Crash, TInv, SessionTypeOK
    <3>2. UNCHANGED <<client, down, expired, box, cid, tty, produced>>
      BY <2>2 DEF Crash
    <3>3. bpc' \in BrokerPC /\ cause' \in Cause /\ proc' \in BOOLEAN
      BY <2>2 DEF Crash, BrokerPC, Cause, TInv, SessionTypeOK
    <3>4. QED
      BY <3>1, <3>2, <3>3 DEF TInv, SessionTypeOK, PumpHasFrame, client
  <2>3. CASE UNCHANGED vars
    BY <2>3 DEF vars, TInv, SessionTypeOK, PumpHasFrame, client, container
  <2>4. QED
    BY <2>0, <2>1, <2>2, <2>3, ClientTypes, BrokerTypes DEF Next, Outside
<1>3. TInv => SessionTypeOK
  BY DEF TInv
<1>4. QED
  BY <1>1, <1>2, <1>3, PTL DEF Spec

(***************************************************************************)
(* The output.  Every chunk the agent wrote is displayed, on its way in    *)
(* the socket, in the hands of the broker, or waits in the PTY; when the   *)
(* agent's own code is sent, nothing waits and nobody can write any more,  *)
(* and that code is the last frame agentctl gets.                          *)
(***************************************************************************)
\* n frames of s are output: c[i] of those after the first i.
Outputs(s, n) ==
  \E c \in [0 .. Len(s) -> Nat] :
    /\ c[Len(s)] = 0
    /\ \A i \in 1 .. Len(s) : c[i - 1] = c[i] + (IF s[i] = "output" THEN 1 ELSE 0)
    /\ c[0] = n

LEMMA NoOutputs == Outputs(<<>>, 0)
<1> DEFINE c == [i \in 0 .. 0 |-> 0]
<1>1. Len(<<>>) = 0 /\ c \in [0 .. 0 -> Nat] /\ c[0] = 0 /\ 1 .. 0 = {}
  OBVIOUS
<1>2. QED
  BY <1>1 DEF Outputs

LEMMA AppendOutputs ==
  ASSUME NEW S, NEW s \in Seq(S), NEW x \in S, NEW n, Outputs(s, n)
  PROVE  Outputs(Append(s, x), n + (IF x = "output" THEN 1 ELSE 0))
<1> DEFINE t == Append(s, x)
           one == IF x = "output" THEN 1 ELSE 0
<1>1. /\ Len(s) \in Nat /\ Len(t) = Len(s) + 1 /\ t[Len(s) + 1] = x
      /\ \A i \in 1 .. Len(s) : t[i] = s[i]
  BY LenProperties, AppendProperties
<1>2. PICK c \in [0 .. Len(s) -> Nat] :
        /\ c[0] = n /\ c[Len(s)] = 0
        /\ \A i \in 1 .. Len(s) : c[i - 1] = c[i] + (IF s[i] = "output" THEN 1 ELSE 0)
  BY DEF Outputs
<1> DEFINE d == [i \in 0 .. Len(t) |-> IF i = Len(t) THEN 0 ELSE c[i] + one]
<1>3. one \in Nat
  OBVIOUS
<1>4. d \in [0 .. Len(t) -> Nat] /\ d[0] = n + one /\ d[Len(t)] = 0
  BY <1>1, <1>2, <1>3
<1>5. ASSUME NEW i \in 1 .. Len(t)
      PROVE  d[i - 1] = d[i] + (IF t[i] = "output" THEN 1 ELSE 0)
  <2>1. CASE i = Len(t)
    <3>1. i - 1 = Len(s) /\ d[i - 1] = one /\ d[i] = 0
      BY <1>1, <1>2, <1>3, <2>1
    <3>2. t[i] = x
      BY <1>1, <2>1
    <3>3. QED
      BY <3>1, <3>2
  <2>2. CASE i # Len(t)
    <3>1. i \in 1 .. Len(s) /\ c[i] \in Nat
      BY <1>1, <1>2, <2>2
    <3>2. d[i] = c[i] + one /\ d[i - 1] = c[i - 1] + one /\ t[i] = s[i]
      BY <1>1, <3>1
    <3>3. c[i - 1] = c[i] + (IF s[i] = "output" THEN 1 ELSE 0)
      BY <1>2, <3>1
    <3>4. QED
      BY <1>3, <3>1, <3>2, <3>3
  <2>3. QED
    BY <2>1, <2>2
<1> HIDE DEF d, one, t
<1>6. Outputs(t, n + one)
  BY <1>4, <1>5 DEF Outputs
<1>7. QED
  BY <1>6 DEF t, one

LEMMA TailOutputs ==
  ASSUME NEW S, NEW s \in Seq(S), s # <<>>, NEW n, Outputs(s, n)
  PROVE  /\ n \in Nat /\ n - (IF Head(s) = "output" THEN 1 ELSE 0) \in Nat
         /\ Outputs(Tail(s), n - (IF Head(s) = "output" THEN 1 ELSE 0))
<1> DEFINE t == Tail(s)
           one == IF Head(s) = "output" THEN 1 ELSE 0
<1>1. /\ Len(s) \in Nat \ {0} /\ Len(t) = Len(s) - 1 /\ Head(s) = s[1]
      /\ \A i \in 1 .. Len(t) : t[i] = s[i + 1]
  BY EmptySeq, LenProperties, HeadTailProperties
<1>2. PICK c \in [0 .. Len(s) -> Nat] :
        /\ c[0] = n /\ c[Len(s)] = 0
        /\ \A i \in 1 .. Len(s) : c[i - 1] = c[i] + (IF s[i] = "output" THEN 1 ELSE 0)
  BY DEF Outputs
<1>3. 1 \in 0 .. Len(s) /\ c[1] \in Nat /\ n = c[1] + one /\ n - one = c[1] /\ n \in Nat
  <2>1. 1 \in 1 .. Len(s) /\ 1 \in 0 .. Len(s) /\ 1 - 1 = 0 /\ one \in Nat
    BY <1>1
  <2>2. c[0] = c[1] + one
    BY <1>1, <1>2, <2>1
  <2>3. QED
    BY <1>2, <2>1, <2>2
<1> DEFINE d == [i \in 0 .. Len(t) |-> c[i + 1]]
<1>4. \A i \in 0 .. Len(t) : i + 1 \in 0 .. Len(s) /\ c[i + 1] \in Nat
  BY <1>1, <1>2
<1>5. d \in [0 .. Len(t) -> Nat] /\ d[0] = n - one /\ d[Len(t)] = 0
  <2>1. 0 \in 0 .. Len(t) /\ Len(t) \in 0 .. Len(t) /\ Len(t) + 1 = Len(s)
    BY <1>1
  <2>2. QED
    BY <1>2, <1>3, <1>4, <2>1
<1>6. ASSUME NEW i \in 1 .. Len(t)
      PROVE  d[i - 1] = d[i] + (IF t[i] = "output" THEN 1 ELSE 0)
  <2>1. i + 1 \in 1 .. Len(s) /\ i \in 0 .. Len(t) /\ i - 1 \in 0 .. Len(t) /\ (i - 1) + 1 = i
        /\ (i + 1) - 1 = i
    BY <1>1
  <2>2. d[i] = c[i + 1] /\ d[i - 1] = c[i] /\ t[i] = s[i + 1]
    BY <1>1, <2>1
  <2>3. c[i] = c[i + 1] + (IF s[i + 1] = "output" THEN 1 ELSE 0)
    BY <1>2, <2>1
  <2>4. QED
    BY <2>2, <2>3
<1> HIDE DEF d, one, t
<1>7. Outputs(t, n - one) /\ n \in Nat /\ n - one \in Nat
  BY <1>3, <1>5, <1>6 DEF Outputs
<1>8. QED
  BY <1>7 DEF t, one

\* A frame alone, which is no output.
LEMMA OneFrame ==
  ASSUME NEW s, Len(s) = 1, s[1] # "output", NEW n, Outputs(s, n)
  PROVE  n = 0
<1>1. PICK c \in [0 .. 1 -> Nat] :
        /\ c[0] = n /\ c[1] = 0
        /\ \A i \in 1 .. 1 : c[i - 1] = c[i] + (IF s[i] = "output" THEN 1 ELSE 0)
  BY DEF Outputs
<1>2. 1 \in 1 .. 1 /\ 1 - 1 = 0
  OBVIOUS
<1>3. c[0] = c[1] + (IF s[1] = "output" THEN 1 ELSE 0)
  BY <1>1, <1>2
<1>4. QED
  BY <1>1, <1>3

\* A chunk the broker has read from the PTY and not yet written to the socket.
InHand == IF bpc \in {"write", "drainwrite"} THEN 1 ELSE 0

\* No chunk is lost while agentctl lives and the session was not cut off.
Accounted == Running /\ cause \notin {"broken", "crash"} =>
               Outputs(down, produced - shown - tty - InHand)

\* Why the session ends is known from the moment the loop is left.
CauseFollows ==
  /\ bpc \in {"stop", "clean", "answer", "release"} => cause \in {"agent", "timeout", "cancel", "broken"}
  /\ bpc = "notice" => cause = "timeout"
  /\ bpc \notin {"notice", "stop", "clean", "answer", "release", "over"} => cause = "none"

\* The PTY is empty, and stays so, when the agent is found to be gone.
AgentIsDone ==
  /\ cause = "agent" => ~proc /\ tty = 0 /\ bpc \in {"stop", "clean", "answer", "release", "over"}
  /\ result = "agent" => ~proc /\ shown = produced

\* The exit frame is the last one and tells the cause.
CodeIsLast ==
  \A i \in 1 .. Len(down) : /\ down[i] \in Code => i = Len(down) /\ bpc \in {"release", "over"}
                            /\ down[i] = "agent" => cause = "agent"

OInv == Accounted /\ CauseFollows /\ AgentIsDone /\ CodeIsLast

\* What the argument is about.
account == <<result, shown, down, bpc, cause, proc, tty, produced>>

LEMMA AccountUnchanged == ASSUME OInv, UNCHANGED account PROVE OInv'
BY DEF OInv, account, Accounted, CauseFollows, AgentIsDone, CodeIsLast, InHand, Running

\* agentctl takes a frame.
LEMMA ReadAccounted ==
  ASSUME SessionTypeOK, OInv, ReadFrame
  PROVE  OInv'
<1>1. /\ down \in Seq(DownFrame) /\ shown \in Nat /\ produced \in Nat /\ tty \in Nat
      /\ Running /\ down # <<>> /\ down' = Tail(down)
      /\ UNCHANGED <<bpc, cause, proc, tty, produced>>
  BY DEF SessionTypeOK, ReadFrame, container
<1>2. /\ Len(down) \in Nat \ {0} /\ Head(down) = down[1] /\ Len(down') = Len(down) - 1
      /\ \A i \in 1 .. Len(down') : down'[i] = down[i + 1]
  BY <1>1, EmptySeq, HeadTailProperties
<1>3. CauseFollows'
  BY <1>1 DEF OInv, CauseFollows
<1>4. CodeIsLast'
  <2>1. \A i \in 1 .. Len(down') : i + 1 \in 1 .. Len(down) /\ (i + 1 = Len(down) => i = Len(down'))
    BY <1>2
  <2>2. QED
    BY <1>1, <1>2, <2>1 DEF OInv, CodeIsLast
<1>5. CASE Head(down) \in Code
  <2>1. result' = Head(down) /\ shown' = shown
    BY <1>5 DEF ReadFrame, Return
  <2>2. ~Running'
    BY <1>5, <2>1 DEF Running, Code
  <2>3. ASSUME Head(down) = "agent"
        PROVE  ~proc /\ shown = produced
    <3>1. 1 \in 1 .. Len(down)
      BY <1>2
    <3>2. Len(down) = 1 /\ bpc \in {"release", "over"} /\ cause = "agent"
      BY <1>2, <1>5, <2>3, <3>1 DEF OInv, CodeIsLast
    <3>3. ~proc /\ tty = 0 /\ InHand = 0
      BY <3>2 DEF OInv, AgentIsDone, InHand
    <3>4. Outputs(down, produced - shown - tty - InHand)
      BY <1>1, <3>2 DEF OInv, Accounted
    <3>5. produced - shown - tty - InHand = 0
      BY <1>2, <2>3, <3>2, <3>4, OneFrame
    <3>6. QED
      BY <1>1, <3>3, <3>5
  <2>4. AgentIsDone'
    BY <1>1, <2>1, <2>3 DEF OInv, AgentIsDone
  <2>5. QED
    BY <1>3, <1>4, <2>2, <2>4 DEF OInv, Accounted
<1>6. CASE Head(down) \notin Code
  <2>1. /\ result' = result
        /\ shown' = IF Head(down) = "output" THEN shown + 1 ELSE shown
    BY <1>6 DEF ReadFrame
  <2>2. AgentIsDone'
    BY <1>1, <2>1 DEF OInv, AgentIsDone, Running
  <2>3. ASSUME cause \notin {"broken", "crash"}
        PROVE  Outputs(down', (produced - shown - tty - InHand)')
    <3> DEFINE n == produced - shown - tty - InHand
               one == IF Head(down) = "output" THEN 1 ELSE 0
    <3>1. Outputs(down, n)
      BY <1>1, <2>3 DEF OInv, Accounted
    <3> HIDE DEF n
    <3>2. Outputs(down', n - one)
      BY <1>1, <3>1, TailOutputs
    <3>3. InHand' = InHand /\ InHand \in Int
      BY <1>1 DEF InHand
    <3>4. shown' = shown + one
      BY <1>1, <2>1
    <3>5. n - one = (produced - shown - tty - InHand)'
      BY <1>1, <3>3, <3>4 DEF n
    <3>6. QED
      BY <3>2, <3>5
  <2>4. QED
    BY <1>1, <1>3, <1>4, <2>2, <2>3 DEF OInv, Accounted
<1>7. QED
  BY <1>5, <1>6

\* The broker moves on without touching the output.
LEMMA QuietAccounted ==
  ASSUME SessionTypeOK, OInv,
         \/ CheckDeadline \/ NoControl \/ ReceiveControl \/ ReceiveEnd \/ TakeInput \/ InputFails
         \/ Poll \/ Stop \/ Clean \/ (Drain /\ tty = 0)
  PROVE  OInv'
<1>1. UNCHANGED <<client, down, tty, produced>>
  BY DEF CheckDeadline, NoControl, ReceiveControl, ReceiveEnd, TakeInput, InputFails, Poll, Stop,
         Clean, Drain, container
<1>2. /\ bpc \notin {"write", "drainwrite", "release", "over"}
      /\ bpc' \notin {"write", "drainwrite", "release", "over"}
  BY DEF CheckDeadline, NoControl, ReceiveControl, ReceiveEnd, TakeInput, InputFails, Poll, Stop,
         Clean, Drain, Broker
<1>3. CauseFollows'
  BY DEF OInv, CauseFollows, CheckDeadline, NoControl, ReceiveControl, ReceiveEnd, TakeInput,
         InputFails, Poll, Stop, Clean, Drain, Broker
<1>4. proc' => proc
  <2>1. CASE Stop
    BY <2>1 DEF Stop
  <2>2. CASE ~Stop
    <3>1. proc' = proc
      BY <2>2 DEF CheckDeadline, NoControl, ReceiveControl, ReceiveEnd, TakeInput, InputFails,
                  Poll, Clean, Drain, container
    <3>2. QED
      BY <3>1
  <2>3. QED
    BY <2>1, <2>2
<1>5. UNCHANGED <<result, shown>>
  BY <1>1 DEF client
<1>6. ASSUME cause' = "agent"
      PROVE  ~proc' /\ tty' = 0 /\ bpc' \in {"stop", "clean", "answer", "release", "over"}
  <2>1. CASE Drain /\ tty = 0
    BY <1>1, <1>4, <2>1 DEF Drain, Broker
  <2>2. CASE \/ CheckDeadline \/ ReceiveControl \/ ReceiveEnd \/ NoControl \/ TakeInput
             \/ InputFails \/ Poll
    <3>1. cause = "none"
      BY <2>2 DEF OInv, CauseFollows, CheckDeadline, ReceiveControl, ReceiveEnd, NoControl,
                  TakeInput, InputFails, Poll, Broker
    <3>2. cause' # "agent"
      BY <2>2, <3>1 DEF CheckDeadline, ReceiveControl, ReceiveEnd, NoControl, TakeInput,
                        InputFails, Poll
    <3>3. QED
      BY <1>6, <3>2
  <2>3. CASE Stop \/ Clean
    <3>1. cause = "agent" /\ bpc' \in {"clean", "answer"}
      BY <1>6, <2>3 DEF Stop, Clean, Broker
    <3>2. QED
      BY <1>1, <1>4, <3>1 DEF OInv, AgentIsDone
  <2>4. QED
    BY <2>1, <2>2, <2>3
<1>7. AgentIsDone'
  BY <1>1, <1>4, <1>5, <1>6 DEF OInv, AgentIsDone
<1>8. \A i \in 1 .. Len(down) : down[i] \notin Code
  BY <1>2 DEF OInv, CodeIsLast
<1>9. CodeIsLast'
  BY <1>1, <1>8 DEF CodeIsLast, Code
<1>10. Accounted'
  <2>1. InHand = 0 /\ InHand' = 0
    BY <1>2 DEF InHand
  <2>2. Running /\ cause' \notin {"broken", "crash"} => cause \notin {"broken", "crash"}
    BY DEF OInv, CauseFollows, CheckDeadline, NoControl, ReceiveControl, ReceiveEnd, TakeInput,
           InputFails, Poll, Stop, Clean, Drain, Broker
  <2>3. QED
    BY <1>1, <1>5, <2>1, <2>2 DEF OInv, Accounted, Running
<1>11. QED
  BY <1>3, <1>7, <1>9, <1>10 DEF OInv

\* A chunk is taken from the PTY.
LEMMA ForwardAccounted ==
  ASSUME SessionTypeOK, OInv, SelectOutput \/ (Drain /\ tty # 0)
  PROVE  OInv'
<1>1. /\ tty \in Nat /\ shown \in Nat /\ produced \in Nat
      /\ UNCHANGED <<result, shown, down, cause, proc, produced>> /\ cause = "none"
      /\ bpc \in {"select", "drain"} /\ bpc' \in {"write", "drainwrite", "control"}
  BY DEF SessionTypeOK, OInv, CauseFollows, SelectOutput, Drain, Forward, Broker, client
<1>2. tty' + InHand' = tty + InHand /\ tty' \in Nat /\ InHand \in Nat /\ InHand' \in Nat
  BY <1>1 DEF SelectOutput, Drain, Forward, Broker, InHand
<1>3. CauseFollows' /\ AgentIsDone'
  BY <1>1 DEF OInv, CauseFollows, AgentIsDone
<1>4. CodeIsLast'
  BY <1>1 DEF OInv, CodeIsLast, Code
<1>5. Accounted'
  <2>1. produced' - shown' - tty' - InHand' = produced - shown - tty - InHand
    <3>1. produced' = produced /\ shown' = shown /\ produced \in Nat /\ shown \in Nat /\ tty \in Nat
      BY <1>1
    <3>2. tty \in Nat /\ InHand \in Nat /\ tty' \in Nat /\ InHand' \in Nat /\ tty' + InHand' = tty + InHand
      BY <1>2, <3>1
    <3>3. produced - shown - tty - InHand = produced - shown - (tty + InHand)
      BY <3>1, <3>2
    <3>4. produced - shown - tty' - InHand' = produced - shown - (tty' + InHand')
      BY <3>1, <3>2
    <3>5. QED
      BY <3>1, <3>2, <3>3, <3>4
  <2>2. QED
    BY <1>1, <2>1 DEF OInv, Accounted, Running
<1>6. QED
  BY <1>3, <1>4, <1>5 DEF OInv

\* send_output, send and the exit frame.
LEMMA WriteAccounted ==
  ASSUME SessionTypeOK, OInv, SendNotice \/ WriteOutput \/ DrainWrite \/ Answer
  PROVE  OInv'
<1>1. /\ UNCHANGED <<client, proc, tty, produced>> /\ down \in Seq(DownFrame)
      /\ tty \in Nat /\ shown \in Nat /\ produced \in Nat
  BY DEF SessionTypeOK, SendNotice, WriteOutput, DrainWrite, Answer, container
<1>2. UNCHANGED <<result, shown>>
  BY <1>1 DEF client
<1>3. bpc \notin {"release", "over"} /\ \A i \in 1 .. Len(down) : down[i] \notin Code
  <2>1. bpc \notin {"release", "over"}
    BY DEF SendNotice, WriteOutput, DrainWrite, Answer, Write, Broker
  <2>2. QED
    BY <2>1 DEF OInv, CodeIsLast
<1>4. CASE cause' = "broken" /\ down' = down /\ ~Running /\ bpc' \in {"stop", "release", "over"}
  <2>1. CauseFollows' /\ AgentIsDone'
    BY <1>1, <1>2, <1>4 DEF OInv, CauseFollows, AgentIsDone
  <2>2. CodeIsLast'
    BY <1>3, <1>4 DEF CodeIsLast, Code
  <2>3. QED
    BY <1>4, <2>1, <2>2 DEF OInv, Accounted
<1>5. CASE Answer /\ cause = "broken"
  <2>1. cause' = cause /\ down' = down /\ bpc' = "release"
    BY <1>5 DEF Answer, Broker
  <2>2. CauseFollows' /\ AgentIsDone'
    BY <1>1, <1>2, <1>5, <2>1 DEF OInv, CauseFollows, AgentIsDone
  <2>3. CodeIsLast'
    BY <1>3, <2>1 DEF CodeIsLast, Code
  <2>4. QED
    BY <1>5, <2>1, <2>2, <2>3 DEF OInv, Accounted
<1>6. ASSUME NEW frame \in DownFrame, down' = Append(down, frame), cause' = cause,
             frame = "output" => bpc \in {"write", "drainwrite"},
             frame # "output" => bpc \notin {"write", "drainwrite"},
             frame \in Code => bpc' = "release", frame = "agent" => cause = "agent",
             bpc' \notin {"write", "drainwrite"}, CauseFollows', AgentIsDone'
      PROVE  OInv'
  <2>1. /\ Len(down) \in Nat /\ Len(down') = Len(down) + 1 /\ down'[Len(down) + 1] = frame
        /\ \A i \in 1 .. Len(down) : down'[i] = down[i]
    BY <1>1, <1>6, LenProperties, AppendProperties
  <2>2. ASSUME NEW i \in 1 .. Len(down')
        PROVE  (down'[i] \in Code => i = Len(down') /\ bpc' = "release")
               /\ (down'[i] = "agent" => cause' = "agent")
    <3>1. CASE i = Len(down) + 1
      BY <1>6, <2>1, <3>1
    <3>2. CASE i # Len(down) + 1
      <4>1. i \in 1 .. Len(down)
        BY <2>1, <3>2
      <4>2. down'[i] \notin Code
        BY <1>3, <2>1, <4>1
      <4>3. QED
        BY <4>2 DEF Code
    <3>3. QED
      BY <3>1, <3>2
  <2>3. ASSUME Running, cause \notin {"broken", "crash"}
        PROVE  Outputs(down', produced' - shown' - tty' - InHand')
    <3> DEFINE n == produced - shown - tty - InHand
               one == IF frame = "output" THEN 1 ELSE 0
    <3>1. Outputs(down, n)
      BY <2>3 DEF OInv, Accounted
    <3> HIDE DEF n
    <3>2. Outputs(down', n + one)
      BY <1>1, <1>6, <3>1, AppendOutputs
    <3>3. InHand' = 0 /\ InHand = one
      BY <1>6 DEF InHand
    <3>4. n + one = produced' - shown' - tty' - InHand'
      <4>1. \A p, s, t, o \in Int : (p - s - t - o) + o = p - s - t - 0
        OBVIOUS
      <4>2. produced' = produced /\ shown' = shown /\ tty' = tty /\ one \in Int
        BY <1>1, <1>2
      <4>3. QED
        BY <1>1, <3>3, <4>1, <4>2 DEF n
    <3>5. QED
      BY <3>2, <3>4
  <2>4. Running' = Running
    BY <1>2 DEF Running
  <2>5. Accounted'
    BY <1>6, <2>3, <2>4 DEF Accounted
  <2>6. QED
    BY <1>6, <2>2, <2>5 DEF OInv, CodeIsLast
<1>7. CASE SendNotice \/ WriteOutput \/ DrainWrite
  <2>1. \/ cause' = "broken" /\ down' = down /\ ~Running /\ bpc' \in {"stop", "release", "over"}
        \/ \E frame \in {"notice", "output"} :
             /\ cause' = cause /\ down' = Append(down, frame)
             /\ frame = "output" <=> bpc \in {"write", "drainwrite"}
             /\ \/ bpc = "notice" /\ bpc' = "stop"
                \/ bpc = "write" /\ bpc' = "control"
                \/ bpc = "drainwrite" /\ bpc' = "drain"
    BY <1>7 DEF SendNotice, WriteOutput, DrainWrite, Write, Broker
  <2>2. CASE cause' = "broken" /\ down' = down /\ ~Running /\ bpc' \in {"stop", "release", "over"}
    BY <1>4, <2>2
  <2>3. ASSUME NEW frame \in {"notice", "output"}, cause' = cause, down' = Append(down, frame),
               frame = "output" <=> bpc \in {"write", "drainwrite"},
               \/ bpc = "notice" /\ bpc' = "stop"
               \/ bpc = "write" /\ bpc' = "control"
               \/ bpc = "drainwrite" /\ bpc' = "drain"
        PROVE  OInv'
    <3>1. frame \in DownFrame /\ frame \notin Code /\ bpc' \notin {"write", "drainwrite"}
      BY <2>3 DEF DownFrame, Code
    <3>2. CauseFollows' /\ AgentIsDone'
      BY <1>1, <1>2, <2>3 DEF OInv, CauseFollows, AgentIsDone
    <3>3. frame # "agent"
      BY <3>1 DEF Code
    <3>4. QED
      BY <1>6, <2>3, <3>1, <3>2, <3>3
  <2>4. QED
    BY <2>1, <2>2, <2>3
<1>8. CASE Answer /\ cause # "broken"
  <2>1. \/ cause' = "broken" /\ down' = down /\ ~Running /\ bpc' = "release"
        \/ cause' = cause /\ down' = Append(down, CodeOf(cause)) /\ bpc' = "release"
    BY <1>8 DEF Answer, Write, Broker
  <2>2. bpc = "answer" /\ cause \in {"agent", "timeout", "cancel"}
    BY <1>8 DEF Answer, Write, Broker, OInv, CauseFollows
  <2>3. CASE cause' = "broken" /\ down' = down /\ ~Running /\ bpc' = "release"
    BY <1>4, <2>3
  <2>4. CASE cause' = cause /\ down' = Append(down, CodeOf(cause)) /\ bpc' = "release"
    <3>1. /\ CodeOf(cause) \in DownFrame /\ CodeOf(cause) # "output"
          /\ CodeOf(cause) = "agent" => cause = "agent"
      BY <2>2 DEF CodeOf, DownFrame, Code
    <3>2. CauseFollows' /\ AgentIsDone'
      BY <1>1, <1>2, <2>2, <2>4 DEF OInv, CauseFollows, AgentIsDone
    <3>3. bpc \notin {"write", "drainwrite"} /\ bpc' \notin {"write", "drainwrite"}
      BY <2>2, <2>4
    <3>4. QED
      BY <1>6, <2>4, <3>1, <3>2, <3>3
  <2>5. QED
    BY <2>1, <2>3, <2>4
<1>9. QED
  BY <1>5, <1>7, <1>8

\* The lock is released.
LEMMA ReleaseAccounted == ASSUME OInv, Release PROVE OInv'
<1>1. UNCHANGED <<client, down, cause, proc, tty, produced>> /\ bpc = "release" /\ bpc' = "over"
  BY DEF Release, Broker, container
<1>2. UNCHANGED <<result, shown>>
  BY <1>1 DEF client
<1>3. QED
  BY <1>1, <1>2 DEF OInv, Accounted, CauseFollows, AgentIsDone, CodeIsLast, InHand, Running

\* The podman client, the agent, a crash of agentd, and the ends of agentctl.
LEMMA OutsideAccounted ==
  ASSUME SessionTypeOK, OInv,
         Podman \/ AgentWrites \/ AgentEnds \/ Crash \/ ReadEnd \/ HangUp
  PROVE  OInv'
<1>1. CASE Podman \/ AgentEnds
  <2>1. UNCHANGED <<result, shown, down, bpc, cause, tty, produced>>
    BY <1>1 DEF Podman, AgentEnds, client
  <2>2. proc' = proc \/ proc' = FALSE
    BY <1>1 DEF Podman, AgentEnds
  <2>3. AgentIsDone'
    BY <2>1, <2>2 DEF OInv, AgentIsDone
  <2>4. QED
    BY <2>1, <2>3 DEF OInv, Accounted, CauseFollows, CodeIsLast, InHand, Running
<1>2. CASE AgentWrites
  <2>1. /\ UNCHANGED <<result, shown, down, bpc, cause, proc>> /\ proc
        /\ tty' = tty + 1 /\ produced' = produced + 1
        /\ tty \in Nat /\ shown \in Nat /\ produced \in Nat
    BY <1>2 DEF AgentWrites, client, SessionTypeOK
  <2>2. AgentIsDone' /\ CauseFollows' /\ CodeIsLast'
    BY <2>1 DEF OInv, AgentIsDone, CauseFollows, CodeIsLast
  <2>3. InHand' = InHand /\ InHand \in Int
    BY <2>1 DEF InHand
  <2>4. produced' - shown' - tty' - InHand' = produced - shown - tty - InHand
    <3>1. \A p, s, t, h \in Int : (p + 1) - s - (t + 1) - h = p - s - t - h
      OBVIOUS
    <3>2. QED
      BY <2>1, <2>3, <3>1
  <2>5. Accounted'
    BY <2>1, <2>4 DEF OInv, Accounted, Running
  <2>6. QED
    BY <2>2, <2>5 DEF OInv
<1>3. CASE Crash
  <2>1. /\ UNCHANGED <<result, shown, down, tty, produced>> /\ bpc' = "over" /\ ~proc'
        /\ \/ bpc = "release" /\ cause' = cause
           \/ bpc # "release" /\ bpc # "over" /\ cause' = "crash"
    BY <1>3 DEF Crash, client
  <2>2. bpc # "release" => \A i \in 1 .. Len(down) : down[i] \notin Code
    BY <2>1 DEF OInv, CodeIsLast
  <2>3. CodeIsLast'
    BY <2>1, <2>2 DEF OInv, CodeIsLast, Code
  <2>4. AgentIsDone' /\ CauseFollows'
    BY <2>1 DEF OInv, AgentIsDone, CauseFollows
  <2>5. QED
    BY <2>1, <2>3, <2>4 DEF OInv, Accounted, InHand, Running
<1>4. CASE ReadEnd \/ HangUp
  <2>1. UNCHANGED <<shown, down, bpc, cause, proc, tty, produced>> /\ result' \in {"130", "lost", "killed"}
    BY <1>4 DEF ReadEnd, HangUp, Return, container
  <2>2. QED
    BY <2>1 DEF OInv, Accounted, Running, CauseFollows, AgentIsDone, CodeIsLast
<1>5. QED
  BY <1>1, <1>2, <1>3, <1>4

LEMMA OutputIsKept == Spec => []OInv
<1>1. Init => OInv
  <2> SUFFICES ASSUME Init PROVE OInv
    OBVIOUS
  <2>1. down = <<>> /\ Len(down) = 0 /\ 1 .. 0 = {}
    BY DEF Init
  <2>2. produced - shown - tty - InHand = 0
    <3>1. InHand = 0
      BY DEF Init, InHand
    <3>2. produced = 0 /\ shown = 0 /\ tty = 0
      BY DEF Init
    <3>3. QED
      BY <3>1, <3>2
  <2>3. Accounted
    BY <2>1, <2>2, NoOutputs DEF Accounted
  <2>4. CauseFollows /\ AgentIsDone /\ CodeIsLast
    BY <2>1 DEF Init, CauseFollows, AgentIsDone, CodeIsLast
  <2>5. QED
    BY <2>3, <2>4 DEF OInv
<1>2. SessionTypeOK /\ OInv /\ [Next]_vars => OInv'
  <2> SUFFICES ASSUME SessionTypeOK, OInv, [Next]_vars PROVE OInv'
    OBVIOUS
  <2>1. CASE \/ MainLocks \/ MainSends \/ PumpStep \/ SigInt \/ SigWinch \/ Type \/ DeadlinePasses
             \/ UNCHANGED vars
    <3>1. UNCHANGED account
      BY <2>1 DEF account, MainLocks, MainSends, PumpStep, PumpTests, PumpSets, PumpLocks,
                  PumpSends, SigInt, SigWinch, Interrupt, Type, DeadlinePasses, vars, client,
                  container
    <3>2. QED
      BY <3>1, AccountUnchanged
  <2>2. CASE ReadFrame
    BY <2>2, ReadAccounted
  <2>3. CASE BrokerStep
    BY <2>3, QuietAccounted, ForwardAccounted, WriteAccounted, ReleaseAccounted DEF BrokerStep
  <2>4. CASE Podman \/ AgentWrites \/ AgentEnds \/ Crash \/ ReadEnd \/ HangUp
    BY <2>4, OutsideAccounted
  <2>5. CASE TakeInput
    BY <2>5, QuietAccounted
  <2>6. QED
    BY <2>1, <2>2, <2>3, <2>4, <2>5 DEF Next, MainStep, Outside
<1>3. QED
  BY <1>1, <1>2, SessionTypes, PTL DEF Spec

\* agentctl returns the agent's own exit code only after it has displayed all that the
\* agent wrote (run_interactive_argv and run_noninteractive_argv drain before the exit frame).
THEOREM OutputComesFirst == Spec => []OutputBeforeExit
<1>1. OInv => OutputBeforeExit
  BY DEF OInv, AgentIsDone, OutputBeforeExit
<1>2. QED
  BY <1>1, OutputIsKept, PTL
=============================================================================
