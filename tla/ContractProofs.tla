--------------------------- MODULE ContractProofs ---------------------------
(***************************************************************************)
(* Proof that a session keeps its contract: every step of agentctl, the    *)
(* broker thread, the podman client and the agent is a step of             *)
(* SessionContract or none.  What SessionProofs knows of the container and *)
(* of the output carries most of it; what is added here is about the frame *)
(* the operator waits for.                                                 *)
(***************************************************************************)
EXTENDS SessionProofs

\* The cidfile names a container that was created.
Made == cid => box # "none"

\* A connection breaks only at the hand of agentctl's end ...
BrokenIsAlone == cause = "broken" => ~Running

\* ... so who still waits when all is over has the exit frame before him, unless agentd
\* has died first ...
AnswerIsThere == Running /\ bpc \in {"release", "over"} /\ cause # "crash" =>
                   down # <<>> /\ down[Len(down)] \in Code

\* ... and of a session that its death cut off, there is no exit frame.
Orderly == \A i \in 1 .. Len(down) : down[i] \in Code => cause # "crash"

\* After a crash, what is on its way to the operator was written.
NotAhead == Running /\ cause = "crash" =>
              \E n \in Nat : Outputs(down, n) /\ shown + n <= produced

RInv == Made /\ BrokenIsAlone /\ AnswerIsThere /\ Orderly /\ NotAhead

\* What is known already.
Known == SessionTypeOK /\ SInv /\ OInv

(***************************************************************************)
(* The invariant.                                                          *)
(***************************************************************************)
LEMMA MadeStays == ASSUME Known, RInv, [Next]_vars PROVE Made'
<1>1. UNCHANGED <<box, cid>> \/ Podman \/ AgentEnds \/ Stop \/ Clean
  BY DEF Next, MainStep, PumpStep, BrokerStep, Outside, MainLocks, MainSends, ReadFrame, ReadEnd,
         PumpTests, PumpSets, PumpLocks, PumpSends, CheckDeadline, SendNotice, SelectOutput,
         WriteOutput, NoControl, ReceiveControl, ReceiveEnd, InputFails, Poll, Drain, DrainWrite,
         Answer, Release, Forward, SigInt, SigWinch, Interrupt, Type, HangUp, DeadlinePasses, Crash,
         TakeInput, AgentWrites, vars, container
<1>2. Made
  BY DEF RInv
<1>3. QED
  BY <1>1, <1>2 DEF Made, Podman, AgentEnds, Stop, Clean

\* Steps that leave the answer, the frames on their way and the broker alone.
LEMMA AnswerKept ==
  ASSUME Known, RInv, Made', UNCHANGED <<result, shown, down, bpc, cause>>,
         produced' = produced \/ produced' = produced + 1
  PROVE  RInv'
<1>1. BrokenIsAlone' /\ AnswerIsThere' /\ Orderly'
  BY DEF RInv, BrokenIsAlone, AnswerIsThere, Orderly, Running
<1>2. NotAhead'
  <2> SUFFICES ASSUME Running, cause = "crash"
               PROVE  \E n \in Nat : Outputs(down, n) /\ shown + n <= produced'
    BY DEF NotAhead, Running
  <2>1. PICK n \in Nat : Outputs(down, n) /\ shown + n <= produced
    BY DEF RInv, NotAhead
  <2>2. shown \in Nat /\ produced \in Nat
    BY DEF Known, SessionTypeOK
  <2>3. shown + n <= produced'
    BY <2>1, <2>2
  <2>4. QED
    BY <2>1, <2>3
<1>3. QED
  BY <1>1, <1>2 DEF RInv

\* Steps of a broker thread that has not ended yet, or after which nobody waits.
LEMMA NothingToAnswer ==
  ASSUME Made', cause' # "crash", ~Running' \/ (bpc' \notin {"release", "over"} /\ cause' # "broken")
  PROVE  RInv'
BY DEF RInv, BrokenIsAlone, AnswerIsThere, Orderly, NotAhead

\* The broker thread, and the PTY it writes to.
LEMMA BrokerAnswers ==
  ASSUME Known, RInv, Made', BrokerStep \/ TakeInput
  PROVE  RInv'
<1>1. bpc # "over" /\ UNCHANGED <<result, shown>>
  BY DEF BrokerStep, CheckDeadline, SendNotice, SelectOutput, WriteOutput, NoControl, ReceiveControl,
         ReceiveEnd, TakeInput, InputFails, Poll, Drain, DrainWrite, Stop, Clean, Answer, Release,
         Forward, Write, Broker, client
<1>2. cause # "crash" /\ (Running => cause # "broken") /\ Running' = Running
  BY <1>1 DEF Known, OInv, CauseFollows, RInv, BrokenIsAlone, Running
<1>3. CASE ~Answer /\ ~Release
  <2>1. cause' # "crash"
    BY <1>2, <1>3 DEF BrokerStep, CheckDeadline, SendNotice, SelectOutput, WriteOutput, NoControl,
          ReceiveControl, ReceiveEnd, TakeInput, InputFails, Poll, Drain, DrainWrite, Stop, Clean,
          Forward, Write
  <2>2. Running => bpc' \notin {"release", "over"} /\ cause' # "broken"
    BY <1>2, <1>3 DEF BrokerStep, CheckDeadline, SendNotice, SelectOutput, WriteOutput, NoControl,
          ReceiveControl, ReceiveEnd, TakeInput, InputFails, Poll, Drain, DrainWrite, Stop, Clean,
          Forward, Write, Broker
  <2>3. QED
    BY <1>2, <2>1, <2>2, NothingToAnswer
<1>4. CASE Answer
  <2>1. cause' # "crash"
    BY <1>2, <1>4 DEF Answer, Write, Broker
  <2>2. CASE ~Running
    BY <1>2, <2>1, <2>2, NothingToAnswer
  <2>3. CASE Running
    <3>1. down' = Append(down, CodeOf(cause)) /\ cause' = cause
      BY <1>2, <1>4, <2>3 DEF Answer, Write
    <3>2. down \in Seq(DownFrame) /\ CodeOf(cause) \in Code /\ CodeOf(cause) \in DownFrame
      BY DEF Known, SessionTypeOK, CodeOf, Code, DownFrame
    <3>3. Len(down) \in Nat /\ Len(down') = Len(down) + 1 /\ down'[Len(down) + 1] = CodeOf(cause)
      BY <3>1, <3>2, LenProperties, AppendProperties
    <3>4. down' # <<>> /\ down'[Len(down')] \in Code
      BY <3>2, <3>3
    <3>5. BrokenIsAlone' /\ AnswerIsThere' /\ Orderly' /\ NotAhead'
      BY <1>2, <2>1, <3>1, <3>4 DEF BrokenIsAlone, AnswerIsThere, Orderly, NotAhead
    <3>6. QED
      BY <3>5 DEF RInv
  <2>4. QED
    BY <2>2, <2>3
<1>5. CASE Release
  <2>1. bpc = "release" /\ UNCHANGED <<down, cause>>
    BY <1>5 DEF Release, Broker
  <2>2. QED
    BY <1>2, <2>1 DEF RInv, BrokenIsAlone, AnswerIsThere, Orderly, NotAhead
<1>6. QED
  BY <1>3, <1>4, <1>5

\* agentctl takes a frame.
LEMMA FrameTaken ==
  ASSUME Known, RInv, Made', ReadFrame
  PROVE  RInv'
<1>1. /\ down \in Seq(DownFrame) /\ shown \in Nat /\ produced \in Nat
      /\ Running /\ down # <<>> /\ down' = Tail(down)
      /\ UNCHANGED <<bpc, cause, produced>>
  BY DEF Known, SessionTypeOK, ReadFrame, container
<1>2. /\ Len(down) \in Nat \ {0} /\ Head(down) = down[1] /\ Len(down') = Len(down) - 1
      /\ \A i \in 1 .. Len(down') : down'[i] = down[i + 1] /\ i + 1 \in 1 .. Len(down)
  <2>1. /\ Len(down) \in Nat \ {0} /\ Head(down) = down[1] /\ Len(down') = Len(down) - 1
        /\ \A i \in 1 .. Len(down') : down'[i] = down[i + 1]
    BY <1>1, EmptySeq, HeadTailProperties
  <2>2. \A i \in 1 .. Len(down') : i + 1 \in 1 .. Len(down)
    BY <2>1
  <2>3. QED
    BY <2>1, <2>2
<1>3. Orderly'
  BY <1>1, <1>2 DEF RInv, Orderly
<1>4. CASE Head(down) \in Code
  <2>1. ~Running'
    BY <1>4 DEF ReadFrame, Return, Running, Code
  <2>2. QED
    BY <1>3, <2>1 DEF RInv, BrokenIsAlone, AnswerIsThere, NotAhead
<1>5. CASE Head(down) \notin Code
  <2>1. Running' /\ shown' = IF Head(down) = "output" THEN shown + 1 ELSE shown
    BY <1>1, <1>5 DEF ReadFrame, Running
  <2>2. BrokenIsAlone'
    BY <1>1, <2>1 DEF RInv, BrokenIsAlone
  <2>3. AnswerIsThere'
    <3> SUFFICES ASSUME bpc \in {"release", "over"}, cause # "crash"
                 PROVE  down' # <<>> /\ down'[Len(down')] \in Code
      BY <1>1 DEF AnswerIsThere
    <3>1. down[Len(down)] \in Code
      BY <1>1 DEF RInv, AnswerIsThere
    <3>2. Len(down) # 1
      BY <1>2, <1>5, <3>1
    <3>3. Len(down') \in 1 .. Len(down') /\ Len(down') + 1 = Len(down)
      BY <1>2, <3>2
    <3>4. QED
      BY <1>2, <3>1, <3>3
  <2>4. NotAhead'
    <3> SUFFICES ASSUME cause = "crash"
                 PROVE  \E n \in Nat : Outputs(down', n) /\ shown' + n <= produced
      BY <1>1 DEF NotAhead
    <3> DEFINE one == IF Head(down) = "output" THEN 1 ELSE 0
    <3>1. PICK n \in Nat : Outputs(down, n) /\ shown + n <= produced
      BY <1>1 DEF RInv, NotAhead
    <3>2. n - one \in Nat /\ Outputs(down', n - one)
      BY <1>1, <3>1, TailOutputs
    <3>3. shown' = shown + one /\ one \in Nat
      BY <1>1, <2>1
    <3>4. shown' + (n - one) <= produced
      BY <1>1, <3>1, <3>3
    <3>5. QED
      BY <3>2, <3>4
  <2>5. QED
    BY <1>3, <2>2, <2>3, <2>4 DEF RInv
<1>6. QED
  BY <1>4, <1>5

\* agentd dies.
LEMMA CrashAnswers ==
  ASSUME Known, RInv, Made', Crash
  PROVE  RInv'
<1>0. CASE bpc = "release"
  <2>1. UNCHANGED <<result, shown, down, cause, produced>>
    BY <1>0 DEF Crash, client
  <2>2. QED
    BY <1>0, <2>1 DEF RInv, BrokenIsAlone, AnswerIsThere, Orderly, NotAhead, Running, Known, OInv,
                      CauseFollows
<1> SUFFICES ASSUME bpc # "release" PROVE RInv'
  BY <1>0
<1>1. /\ bpc # "over" /\ cause' = "crash" /\ UNCHANGED <<result, shown, down, tty, produced>>
      /\ shown \in Nat /\ produced \in Nat /\ tty \in Nat /\ InHand \in Nat
  BY DEF Crash, client, Known, SessionTypeOK, InHand
<1>2. Orderly'
  BY <1>1 DEF Known, OInv, CodeIsLast, Orderly
<1>3. NotAhead'
  <2> SUFFICES ASSUME Running
               PROVE  \E n \in Nat : Outputs(down, n) /\ shown + n <= produced
    BY <1>1 DEF NotAhead, Running
  <2> DEFINE n == produced - shown - tty - InHand
  <2>1. cause \notin {"broken", "crash"}
    BY <1>1 DEF Known, OInv, CauseFollows, RInv, BrokenIsAlone
  <2>2. Outputs(down, n)
    BY <2>1 DEF Known, OInv, Accounted
  <2>3. PICK c \in [0 .. Len(down) -> Nat] : c[0] = n
    BY <2>2 DEF Outputs
  <2>4. n \in Nat
    <3>1. down \in Seq(DownFrame)
      BY DEF Known, SessionTypeOK
    <3>2. 0 \in 0 .. Len(down)
      BY <3>1, LenProperties
    <3>3. QED
      BY <2>3, <3>2
  <2>5. shown + n <= produced
    <3>1. \A p, s, t, h \in Nat : s + (p - s - t - h) <= p
      OBVIOUS
    <3>2. QED
      BY <1>1, <3>1
  <2>6. QED
    BY <2>2, <2>4, <2>5
<1>4. QED
  BY <1>1, <1>2, <1>3 DEF RInv, BrokenIsAlone, AnswerIsThere

LEMMA AnswersAreKept == ASSUME Interactive = TRUE PROVE Spec => [](Known /\ RInv)
<1>1. Init => RInv
  <2> SUFFICES ASSUME Init PROVE RInv
    OBVIOUS
  <2>1. down = <<>> /\ 1 .. Len(down) = {}
    BY DEF Init
  <2>2. QED
    BY <2>1 DEF Init, RInv, Made, BrokenIsAlone, AnswerIsThere, Orderly, NotAhead
<1>2. Known /\ RInv /\ [Next]_vars => RInv'
  <2> SUFFICES ASSUME Known, RInv, [Next]_vars PROVE RInv'
    OBVIOUS
  <2>1. Made'
    BY MadeStays
  <2>2. CASE \/ MainLocks \/ MainSends \/ PumpStep \/ SigInt \/ SigWinch \/ Type \/ DeadlinePasses
             \/ Podman \/ AgentEnds \/ AgentWrites \/ UNCHANGED vars
    <3>1. /\ UNCHANGED <<result, shown, down, bpc, cause>>
          /\ produced' = produced \/ produced' = produced + 1
      BY <2>2 DEF MainLocks, MainSends, PumpStep, PumpTests, PumpSets, PumpLocks, PumpSends, SigInt,
                  SigWinch, Interrupt, Type, DeadlinePasses, Podman, AgentEnds, AgentWrites, vars,
                  client, container
    <3>2. QED
      BY <2>1, <3>1, AnswerKept
  <2>3. CASE BrokerStep \/ TakeInput
    BY <2>1, <2>3, BrokerAnswers
  <2>4. CASE ReadFrame
    BY <2>1, <2>4, FrameTaken
  <2>5. CASE ReadEnd \/ HangUp
    <3>1. UNCHANGED <<down, cause>> /\ ~Running'
      BY <2>5 DEF ReadEnd, HangUp, Return, Running
    <3>2. QED
      BY <2>1, <3>1 DEF RInv, BrokenIsAlone, AnswerIsThere, Orderly, NotAhead
  <2>6. CASE Crash
    BY <2>1, <2>6, CrashAnswers
  <2>7. QED
    BY <2>2, <2>3, <2>4, <2>5, <2>6 DEF Next, MainStep, Outside
<1>3. SessionTypeOK /\ SInv /\ OInv => Known
  BY DEF Known
<1>4. QED
  BY <1>1, <1>2, <1>3, SessionTypes, LockIsKept, OutputIsKept, PTL DEF Spec

(***************************************************************************)
(* The refinement, step by step.                                           *)
(***************************************************************************)
\* What of a session the contract speaks of.
visible == <<bpc, cause, box, produced, shown, result>>

LEMMA NoStep == ASSUME UNCHANGED visible PROVE UNCHANGED Contract!contract
BY DEF visible, Contract!contract

\* The broker thread, up to the answer.
LEMMA LoopKeepsContract ==
  ASSUME Interactive = TRUE, Known, RInv, BrokerStep \/ TakeInput, ~Answer, ~Release
  PROVE  [Contract!Next]_Contract!contract
<1>1. /\ bpc \notin {"release", "over"} /\ bpc' \notin {"release", "over"}
      /\ UNCHANGED <<produced, shown, result>>
  BY DEF BrokerStep, CheckDeadline, SendNotice, SelectOutput, WriteOutput, NoControl, ReceiveControl,
         ReceiveEnd, TakeInput, InputFails, Poll, Drain, DrainWrite, Stop, Clean, Forward, Write,
         Broker, client, container
<1>2. box' = box \/ (box \in {"created", "running"} /\ box' = "gone")
  <2>1. CASE Stop
    BY <2>1 DEF Stop
  <2>2. CASE Clean
    <3>1. box' = box \/ (box # "none" /\ box' = "gone")
      BY <2>2 DEF Clean, RInv, Made
    <3>2. QED
      BY <3>1 DEF Known, SessionTypeOK
  <2>3. CASE ~Stop /\ ~Clean
    BY <2>3 DEF BrokerStep, CheckDeadline, SendNotice, SelectOutput, WriteOutput, NoControl,
       ReceiveControl, ReceiveEnd, TakeInput, InputFails, Poll, Drain, DrainWrite, Forward, container
  <2>4. QED
    BY <2>1, <2>2, <2>3
<1>3. CASE box' = box
  BY <1>1, <1>3 DEF Contract!contract
<1>4. CASE box \in {"created", "running"} /\ box' = "gone"
  <2>1. Contract!ContainerEnds
    BY <1>1, <1>4 DEF Contract!ContainerEnds
  <2>2. QED
    BY <2>1 DEF Contract!Next
<1>5. QED
  BY <1>2, <1>3, <1>4

\* The answer ...
LEMMA AnswerKeepsContract ==
  ASSUME Known, RInv, Answer
  PROVE  [Contract!Next]_Contract!contract
<1>1. bpc = "answer" /\ bpc' = "release" /\ UNCHANGED <<box, produced, shown, result>>
  BY DEF Answer, Write, Broker, client, container
<1>2. box # "running"
  BY <1>1 DEF Known, SInv, Removed
<1>3. Contract!End
  BY <1>1, <1>2 DEF Contract!End
<1>4. QED
  BY <1>3 DEF Contract!Next

\* ... and the lock released.
LEMMA ReleaseKeepsContract ==
  ASSUME Known, Release
  PROVE  [Contract!Next]_Contract!contract
<1>1. bpc = "release" /\ bpc' = "over" /\ UNCHANGED <<cause, box, produced, shown, result>>
  BY DEF Release, Broker, client, container
<1>2. cause # "crash"
  BY <1>1 DEF Known, OInv, CauseFollows
<1>3. Contract!Close
  BY <1>1, <1>2 DEF Contract!Close
<1>4. QED
  BY <1>3 DEF Contract!Next

\* agentctl takes a frame: it shows a chunk that was written, or returns its code.
LEMMA FrameKeepsContract ==
  ASSUME Known, RInv, ReadFrame
  PROVE  [Contract!Next]_Contract!contract
<1>1. /\ down \in Seq(DownFrame) /\ shown \in Nat /\ produced \in Nat /\ tty \in Nat /\ InHand \in Nat
      /\ Running /\ result = "none" /\ down # <<>> /\ UNCHANGED <<bpc, cause, box, produced>>
  BY DEF Known, SessionTypeOK, ReadFrame, container, Running, InHand
<1>2. Len(down) \in Nat \ {0} /\ Head(down) = down[1] /\ 1 \in 1 .. Len(down)
  BY <1>1, EmptySeq, HeadTailProperties
<1>3. CASE Head(down) \in Code
  <2>1. result' = Head(down) /\ shown' = shown
    BY <1>3 DEF ReadFrame, Return
  <2>2. bpc \in {"release", "over"} /\ cause # "crash"
    BY <1>2, <1>3 DEF Known, OInv, CodeIsLast, RInv, Orderly
  <2>3. Head(down) = "agent" => shown = produced
    BY <1>1, <2>1, ReadAccounted DEF Known, OInv, AgentIsDone
  <2>4. Head(down) \in {"agent", "124", "130"}
    BY <1>3 DEF Code
  <2>5. Contract!Return(Head(down))
    BY <1>1, <2>1, <2>2, <2>3, <2>4 DEF Contract!Return
  <2>6. Contract!Next
    BY <2>4, <2>5 DEF Contract!Next, Contract!ExitCode
  <2>7. QED
    BY <2>6
<1>4. CASE Head(down) = "output"
  <2>1. result' = result /\ shown' = shown + 1
    BY <1>4 DEF ReadFrame, Code
  <2>2. shown < produced
    <3>1. ASSUME NEW n, Outputs(down, n)
          PROVE  n \in Nat \ {0}
      <4>1. n \in Nat /\ n - 1 \in Nat
        BY <1>1, <1>4, <3>1, TailOutputs
      <4>2. QED
        BY <4>1
    <3>2. CASE cause = "crash"
      <4>1. PICK n \in Nat : Outputs(down, n) /\ shown + n <= produced
        BY <1>1, <3>2 DEF RInv, NotAhead
      <4>2. QED
        BY <1>1, <3>1, <4>1
    <3>3. CASE cause # "crash"
      <4> DEFINE n == produced - shown - tty - InHand
      <4>1. cause # "broken"
        BY <1>1 DEF RInv, BrokenIsAlone
      <4>2. Outputs(down, n)
        BY <1>1, <3>3, <4>1 DEF Known, OInv, Accounted
      <4>3. n \in Nat \ {0}
        BY <3>1, <4>2
      <4>4. \A p, s, t, h \in Nat : p - s - t - h \in Nat \ {0} => s < p
        OBVIOUS
      <4>5. QED
        BY <1>1, <4>3, <4>4
    <3>4. QED
      BY <3>2, <3>3
  <2>3. Contract!Show
    BY <1>1, <2>1, <2>2 DEF Contract!Show
  <2>4. QED
    BY <2>3 DEF Contract!Next
<1>5. CASE Head(down) \notin Code /\ Head(down) # "output"
  BY <1>1, <1>5, NoStep DEF ReadFrame, visible
<1>6. QED
  BY <1>3, <1>4, <1>5

\* agentctl ends without an answer.
LEMMA EndKeepsContract ==
  ASSUME Known, RInv, ReadEnd \/ HangUp
  PROVE  [Contract!Next]_Contract!contract
<1>1. result = "none" /\ UNCHANGED <<bpc, cause, box, produced, shown>>
  BY DEF ReadEnd, HangUp, Running, container
<1>2. CASE ReadEnd
  <2>1. PICK c \in {"130", "lost"} : result' = c
    BY <1>2 DEF ReadEnd, Return
  <2>2. bpc = "over" /\ cause = "crash"
    BY <1>2 DEF ReadEnd, RInv, AnswerIsThere
  <2>3. Contract!Return(c)
    BY <1>1, <2>1, <2>2 DEF Contract!Return
  <2>4. QED
    BY <2>1, <2>3 DEF Contract!Next, Contract!ExitCode, Contract!Excuse
<1>3. CASE HangUp
  <2>1. Contract!Return("killed")
    BY <1>1, <1>3 DEF HangUp, Return, Contract!Return
  <2>2. QED
    BY <2>1 DEF Contract!Next, Contract!Excuse
<1>4. QED
  BY <1>2, <1>3

\* The podman client, the agent, and a crash of agentd.
LEMMA OutsideKeepsContract ==
  ASSUME Known, RInv, Podman \/ AgentWrites \/ AgentEnds \/ Crash
  PROVE  [Contract!Next]_Contract!contract
<1>1. CASE Podman
  <2>1. UNCHANGED <<bpc, cause, produced, shown, result>> /\ bpc \notin {"release", "over"}
    BY <1>1 DEF Podman, client, Known, SInv, Dead
  <2>2. \/ box' = box
        \/ box = "none" /\ box' = "created"
        \/ box = "created" /\ box' = "running"
    BY <1>1 DEF Podman
  <2>3. CASE box' = box
    BY <2>1, <2>3, NoStep DEF visible
  <2>4. CASE (box = "none" /\ box' = "created") \/ (box = "created" /\ box' = "running")
    <3>1. Contract!Launch
      BY <2>1, <2>4 DEF Contract!Launch
    <3>2. QED
      BY <3>1 DEF Contract!Next
  <2>5. QED
    BY <2>2, <2>3, <2>4
<1>2. CASE AgentWrites
  <2>1. bpc \notin {"release", "over"}
    BY <1>2 DEF AgentWrites, Known, SInv, Dead
  <2>2. Contract!AgentWrites
    BY <1>2, <2>1 DEF AgentWrites, Contract!AgentWrites, client
  <2>3. QED
    BY <2>2 DEF Contract!Next
<1>3. CASE AgentEnds
  <2>1. Contract!ContainerEnds
    BY <1>3 DEF AgentEnds, Contract!ContainerEnds, client
  <2>2. QED
    BY <2>1 DEF Contract!Next
<1>4. CASE Crash
  <2>1. bpc' = "over" /\ UNCHANGED <<box, produced, shown, result>>
    BY <1>4 DEF Crash, client
  <2>2. CASE bpc = "release"
    <3>1. cause' = cause /\ cause # "crash"
      BY <1>4, <2>2 DEF Crash, Known, OInv, CauseFollows
    <3>2. Contract!Close
      BY <2>1, <2>2, <3>1 DEF Contract!Close
    <3>3. QED
      BY <3>2 DEF Contract!Next
  <2>3. CASE bpc # "release"
    <3>1. bpc # "over" /\ cause' = "crash"
      BY <1>4, <2>3 DEF Crash
    <3>2. Contract!Crash
      BY <2>1, <2>3, <3>1 DEF Contract!Crash
    <3>3. QED
      BY <3>2 DEF Contract!Next
  <2>4. QED
    BY <2>2, <2>3
<1>5. QED
  BY <1>1, <1>2, <1>3, <1>4

\* A session with a PTY (run, auth) shows only what the agent wrote, runs its container
\* only while it has the workspace lock or agentd has died, and answers with an exit code
\* only when the container has gone for good and nothing but the release of the lock can
\* follow; with the agent's own, only after everything the agent wrote
\* (run_interactive_argv, op_run, op_auth, rpc).
THEOREM SessionKeepsContract == ASSUME Interactive = TRUE PROVE Spec => ContractSpec
<1>1. Init => Contract!Init
  BY DEF Init, Contract!Init
<1>2. Known /\ RInv /\ [Next]_vars => [Contract!Next]_Contract!contract
  <2> SUFFICES ASSUME Known, RInv, [Next]_vars
               PROVE  [Contract!Next]_Contract!contract
    OBVIOUS
  <2>1. CASE \/ MainLocks \/ MainSends \/ PumpStep \/ SigInt \/ SigWinch \/ Type \/ DeadlinePasses
             \/ UNCHANGED vars
    <3>1. UNCHANGED visible
      BY <2>1 DEF visible, MainLocks, MainSends, PumpStep, PumpTests, PumpSets, PumpLocks, PumpSends,
                  SigInt, SigWinch, Interrupt, Type, DeadlinePasses, vars, client, container
    <3>2. QED
      BY <3>1, NoStep
  <2>2. CASE BrokerStep \/ TakeInput
    BY <2>2, LoopKeepsContract, AnswerKeepsContract, ReleaseKeepsContract
  <2>3. CASE ReadFrame
    BY <2>3, FrameKeepsContract
  <2>4. CASE ReadEnd \/ HangUp
    BY <2>4, EndKeepsContract
  <2>5. CASE Podman \/ AgentWrites \/ AgentEnds \/ Crash
    BY <2>5, OutsideKeepsContract
  <2>6. QED
    BY <2>1, <2>2, <2>3, <2>4, <2>5 DEF Next, MainStep, Outside
<1>3. QED
  BY <1>1, <1>2, AnswersAreKept, PTL DEF Spec, ContractSpec, Contract!Spec
=============================================================================
