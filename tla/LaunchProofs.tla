---------------------------- MODULE LaunchProofs ----------------------------
(***************************************************************************)
(* Proofs about preparing and starting provider containers, for any        *)
(* threads, volumes, policies, events and number of crashes, of agentd or  *)
(* of the host.                                                            *)
(*                                                                         *)
(* Nothing here happens under a lock, so the argument has two halves: what *)
(* only ever grows (markers, owners, a configuration once there, policy    *)
(* files named by their content) holds against every interleaving; the     *)
(* rest holds until two meet in an unguarded script (raced), and for that  *)
(* it is enough that a thread, or a container that outlived its thread, is *)
(* alone in it.  Requests that come one at a time, with nothing left over  *)
(* from before, never meet; that is the last part.                         *)
(***************************************************************************)
EXTENDS LaunchProperties, TLAPS

\* After the owners are right.
Late == {"config", "install", "installing", "jq", "mv",
         "publish", "start", "running", "open", "write", "replace"}

\* After the configuration was looked at and is there.
Configured == {"installing", "jq", "mv", "publish", "start", "running", "open", "write", "replace"}

Alone(script) == \A q, r \in Req : th[q].pc \in script /\ th[r].pc \in script => q = r

(***************************************************************************)
(* The volumes.                                                            *)
(***************************************************************************)
\* The owner is adjusted only after every marker is there.
OwnedIsMarked == \A v \in Volume : vol[v].owner # "root" => vol[v].marker

\* What a thread has checked or done stays so.
Progress(r) ==
  /\ th[r].pc \in {"probe"} \cup Migration =>
       \A i \in 1 .. Len(Volumes) : i < th[r].at => vol[Volumes[i]].marker
  /\ th[r].pc \in {"owner", "adjust", "adjusting"} =>
       /\ \A v \in Volume : vol[v].marker
       /\ \A i \in 1 .. Len(Volumes) : i < th[r].at => vol[Volumes[i]].owner = "agent"
  /\ th[r].pc \in Late => \A v \in Volume : vol[v].marker /\ vol[v].owner = "agent"

MarkedIsCopied == \A v \in legacy : vol[v].marker => vol[v].copied = "all"

\* What a migrating thread found out about its volume is still true.
Migrates(r) ==
  /\ th[r].pc \in {"find", "copy", "copying", "mark"} => ~vol[At(r)].marker
  /\ th[r].pc = "mark" /\ At(r) \in legacy => vol[At(r)].copied = "all"

\* A copy without a marker is somebody's work.
CopyHasOwner ==
  \A v \in Volume : vol[v].copied # "none" =>
    vol[v].marker \/ \E r \in Req : th[r].pc \in {"copying", "mark"} /\ At(r) = v

CreatesMissing == \A r \in Req : th[r].pc = "create" => ~vol[At(r)].exists

VolumeInv ==
  /\ OwnedIsMarked
  /\ \A r \in Req : Progress(r)
  /\ ~raced => /\ Alone(Migration)
               /\ MarkedIsCopied
               /\ \A r \in Req : Migrates(r)
               /\ CreatesMissing
               /\ ~cut => CopyHasOwner

(***************************************************************************)
(* The configuration.                                                      *)
(***************************************************************************)
Installing(r) == th[r].pc \in {"install", "installing"}

ConfigInv ==
  /\ Managed => \A r \in Req : th[r].pc \in Configured => config.data # "absent"
  /\ \A r \in Req : th[r].pc \in Seeding => Managed
  /\ \A r \in Req : th[r].pc = "mv" => th[r].jq # "absent"
  /\ ~raced =>
       /\ \A r \in Req : th[r].pc = "install" => config.data = "absent"
       /\ \A r \in Req : th[r].pc = "installing" => config = [data |-> "empty", by |-> r]
       /\ \A q, r \in Req : Installing(r) /\ q # r =>
            ~Installing(q) /\ th[q].pc \notin Configured
       /\ ~cut => /\ config.data = "empty" => \E r \in Req : th[r].pc = "installing"
                  /\ \A r \in Req : th[r].pc = "mv" => th[r].jq = "seed"

(***************************************************************************)
(* The policy files and the manifest.                                      *)
(***************************************************************************)
PolicyFileInv ==
  /\ \A p \in Policies : policy[p] \in {None, p}
  /\ \A r \in Req :
       /\ th[r].pc = "publish" => th[r].policy # None
       /\ th[r].pc = "start" /\ th[r].policy # None => policy[th[r].policy] = th[r].policy
       /\ th[r].pc = "running" => th[r].sees = th[r].policy

Writing == {"write", "replace"}

ManifestInv ==
  /\ \A r \in Req : th[r].fd # "none" => th[r].pc = "write"
  /\ tmp = "torn" => \E r \in Req : th[r].fd = "tmp"
  /\ ~raced => /\ Alone(Writing)
               /\ \A r \in Req : th[r].pc = "write" => th[r].fd = "tmp" /\ tmp = "torn"
               /\ \A r \in Req : th[r].pc = "replace" => tmp = "whole"
  /\ ManifestWhole

LInv == /\ LaunchTypeOK /\ VolumeInv /\ ConfigInv /\ PolicyFileInv /\ ManifestInv
        /\ NoFalseAlarm
(***************************************************************************)
(* Types.                                                                  *)
(***************************************************************************)
\* A step of a thread.
Step(r) == Request(r) \/ Prepare(r) \/ Seed(r) \/ Contain(r) \/ Build(r)

LEMMA VolumeFacts ==
  /\ Len(Volumes) \in Nat /\ Len(Volumes) >= 1
  /\ \A i \in 1 .. Len(Volumes) : Volumes[i] \in Volume
  /\ \A v \in Volume : \E i \in 1 .. Len(Volumes) : v = Volumes[i]
BY VolumesAssumption DEF Volume

LEMMA Position ==
  ASSUME LaunchTypeOK, NEW r \in Req
  PROVE  /\ th[r].at \in 1 .. Len(Volumes) /\ At(r) \in Volume /\ th[r].pc \in Stage
         /\ Last(r) <=> th[r].at = Len(Volumes)
         /\ ~Last(r) => th[r].at + 1 \in 1 .. Len(Volumes)
         /\ 1 \in 1 .. Len(Volumes)
<1>1. th[r] \in Thread
  BY DEF LaunchTypeOK
<1>2. QED
  BY <1>1, VolumeFacts DEF Thread, At, Last

LEMMA TypeInit == Init => LaunchTypeOK
<1> SUFFICES ASSUME Init PROVE LaunchTypeOK
  OBVIOUS
<1>1. Idle \in Thread
  BY VolumeFacts DEF Idle, Thread, Stage, Content
<1>2. Fresh \in VolumeState
  BY DEF Fresh, VolumeState
<1>3. vol \in [Volume -> VolumeState] /\ th \in [Req -> Thread] /\ legacy \subseteq Volume
  BY <1>1, <1>2 DEF Init
<1>4. crashes \in 0 .. MaxCrashes
  BY LaunchAssumption DEF Init
<1>5. QED
  BY <1>3, <1>4 DEF Init, LaunchTypeOK, Content, File

\* A thread that only moves on.
Moves(r) == \E stage \in Stage, at \in 1 .. Len(Volumes) :
              th' = [th EXCEPT ![r].pc = stage, ![r].at = at]

LEMMA AdvanceMoves ==
  ASSUME LaunchTypeOK, NEW r \in Req, NEW loop \in Stage, NEW after \in Stage, Advance(r, loop, after)
  PROVE  Moves(r)
<1>1. CASE Last(r)
  <2>1. th' = [th EXCEPT ![r].pc = after, ![r].at = 1]
    BY <1>1 DEF Advance
  <2>2. QED
    BY <2>1, Position DEF Moves
<1>2. CASE ~Last(r)
  <2>1. th' = [th EXCEPT ![r].pc = loop, ![r].at = th[r].at + 1]
    BY <1>2 DEF Advance
  <2>2. QED
    BY <1>2, <2>1, Position DEF Moves
<1>3. QED
  BY <1>1, <1>2

LEMMA GoMoves ==
  ASSUME LaunchTypeOK, NEW r \in Req, NEW stage \in Stage, Go(r, stage)
  PROVE  Moves(r)
<1>1. th[r] \in Thread
  BY DEF LaunchTypeOK
<1>2. th' = [th EXCEPT ![r].pc = stage, ![r].at = th[r].at]
  BY <1>1 DEF Go, Thread, LaunchTypeOK
<1>3. QED
  BY <1>2, Position DEF Moves

LEMMA Afterwards ==
  ASSUME NEW r \in Req
  PROVE  /\ AfterSeeding(r) \in {"open", "publish", "start"}
         /\ AfterOwners(r) \in {"config", "open", "publish", "start"}
         /\ AfterOwners(r) = "config" <=> Managed
         /\ AfterSeeding(r) = "publish" => th[r].policy # None
         /\ AfterSeeding(r) = "start" => th[r].policy = None
         /\ \A stage : Return(r, stage) \in {stage, "idle"}
BY LaunchAssumption DEF AfterSeeding, AfterOwners, Return

\* What every step of a thread leaves alone, besides the other threads.
LEMMA StepKeeps ==
  ASSUME NEW r \in Req, Step(r)
  PROVE  UNCHANGED <<legacy, crashes, cut>> /\ (raced => raced')
<1>1. UNCHANGED <<legacy, crashes, cut>>
  BY DEF Step, Request, Prepare, Exists, Create, Probe, TestMarker, FindFiles, CopyBegin, CopyEnd,
         Mark, MigrationDenied, OwnerProbe, AdjustBegin, AdjustEnd, Seed, TestConfig, InstallBegin,
         InstallEnd, Jq, Mv, Contain, Publish, Start, Save, Finish, Build, OpenTmp, WriteTmp,
         Replace, ReplaceFails, Keep
<1>2. raced => raced'
  BY DEF Step, Request, Prepare, Exists, Create, Probe, TestMarker, FindFiles, CopyBegin, CopyEnd,
         Mark, MigrationDenied, OwnerProbe, AdjustBegin, AdjustEnd, Seed, TestConfig, InstallBegin,
         InstallEnd, Jq, Mv, Contain, Publish, Start, Save, Finish, Build, OpenTmp, WriteTmp,
         Replace, ReplaceFails, Keep, Enter, files
<1>3. QED
  BY <1>1, <1>2

LEMMA PrepareMoves ==
  ASSUME LaunchTypeOK, NEW r \in Req, Prepare(r)
  PROVE  Moves(r)
<1> USE GoMoves, AdvanceMoves, Afterwards DEF Stage
<1>1. CASE Exists(r) \/ Create(r)
  BY <1>1 DEF Exists, Create
<1>2. CASE Probe(r)
  <2>1. CASE vol[At(r)].marker
    BY <1>2, <2>1 DEF Probe
  <2>2. CASE ~vol[At(r)].marker
    BY <1>2, <2>2, Position DEF Probe, Moves
  <2>3. QED
    BY <2>1, <2>2
<1>3. CASE TestMarker(r) \/ OwnerProbe(r)
  BY <1>3 DEF TestMarker, OwnerProbe
<1>4. CASE FindFiles(r) \/ CopyBegin(r) \/ CopyEnd(r) \/ Mark(r) \/ MigrationDenied(r)
  BY <1>4 DEF FindFiles, CopyBegin, CopyEnd, Mark, MigrationDenied
<1>5. CASE AdjustBegin(r) \/ AdjustEnd(r)
  BY <1>5 DEF AdjustBegin, AdjustEnd
<1>6. QED
  BY <1>1, <1>2, <1>3, <1>4, <1>5 DEF Prepare

LEMMA StepFrame ==
  ASSUME LaunchTypeOK, NEW r \in Req, Step(r)
  PROVE  /\ th' \in [Req -> Thread]
         /\ \A q \in Req \ {r} : /\ th'[q].pc = th[q].pc /\ th'[q].at = th[q].at
                                 /\ th'[q].policy = th[q].policy /\ th'[q].sees = th[q].sees
                                 /\ th'[q].jq = th[q].jq
<1>0. th[r] \in Thread /\ Idle \in Thread /\ \A q \in Req : th[q] \in Thread
  BY VolumeFacts DEF LaunchTypeOK, Thread, Idle, Stage, Content
<1>a. \A x \in Thread : th' = [th EXCEPT ![r] = x] =>
        th' \in [Req -> Thread] /\ \A q \in Req \ {r} : th'[q] = th[q]
  BY DEF LaunchTypeOK
<1>b. \A stage \in Stage : [th[r] EXCEPT !.pc = stage] \in Thread
  BY <1>0 DEF Thread
<1>c. ASSUME NEW stage \in Stage, Go(r, stage)
      PROVE  th' = [th EXCEPT ![r] = [th[r] EXCEPT !.pc = stage]]
  BY <1>c DEF Go
<1>1. CASE Request(r)
  <2>1. ASSUME NEW op \in {"run", "auth", "build"}, NEW p \in Policies \cup {None}
        PROVE  [Idle EXCEPT !.pc = "exists", !.op = op, !.policy = p] \in Thread
    <3>1. "exists" \in Stage
      BY DEF Stage
    <3>2. QED
      BY <1>0, <3>1 DEF Thread
  <2>2. PICK x \in Thread : th' = [th EXCEPT ![r] = x]
    BY <1>1, <2>1 DEF Request
  <2>3. th' \in [Req -> Thread] /\ \A q \in Req \ {r} : th'[q] = th[q]
    BY <1>a, <2>2
  <2>4. QED
    BY <2>3
<1>2. CASE Moves(r)
  <2>1. PICK stage \in Stage, at \in 1 .. Len(Volumes) : th' = [th EXCEPT ![r].pc = stage, ![r].at = at]
    BY <1>2 DEF Moves
  <2>2. th' = [th EXCEPT ![r] = [th[r] EXCEPT !.pc = stage, !.at = at]]
    BY <2>1 DEF LaunchTypeOK
  <2> DEFINE x == [th[r] EXCEPT !.pc = stage, !.at = at]
  <2>3. x \in Thread
    BY <1>0 DEF Thread
  <2>4. th' = [th EXCEPT ![r] = x]
    BY <2>2
  <2> HIDE DEF x
  <2>5. th' \in [Req -> Thread] /\ \A q \in Req \ {r} : th'[q] = th[q]
    BY <1>a, <2>3, <2>4
  <2>6. QED
    BY <2>5
<1>3. CASE Seed(r)
  <2>1. CASE Jq(r)
    <3>1. \A c \in Content : [th[r] EXCEPT !.pc = "mv", !.jq = c] \in Thread
      BY <1>0 DEF Thread, Stage
    <3>2. \E c \in Content : th' = [th EXCEPT ![r] = [th[r] EXCEPT !.pc = "mv", !.jq = c]]
      BY <2>1 DEF Jq, Content
    <3>3. QED
      BY <1>a, <3>1, <3>2
  <2>2. CASE TestConfig(r) \/ InstallBegin(r)
    <3>1. \E stage \in Stage : Go(r, stage)
      BY <2>2 DEF TestConfig, InstallBegin, Stage
    <3>2. QED
      BY <1>a, <1>b, <1>c, <3>1
  <2>3. CASE InstallEnd(r) \/ Mv(r)
    <3>1. \E stage \in Stage : Go(r, stage)
      BY <2>3, Afterwards DEF InstallEnd, Mv, Stage
    <3>2. QED
      BY <1>a, <1>b, <1>c, <3>1
  <2>4. QED
    BY <1>3, <2>1, <2>2, <2>3 DEF Seed
<1>4. CASE Contain(r)
  <2>1. CASE Publish(r)
    BY <1>a, <1>b, <1>c, <2>1 DEF Publish, Stage
  <2>2. CASE Start(r)
    <3>1. \A sees \in Policies \cup {None} : [th[r] EXCEPT !.pc = "running", !.sees = sees] \in Thread
      BY <1>0 DEF Thread, Stage
    <3>2. (IF th[r].policy = None THEN None ELSE policy[PolicyName(r)]) \in Policies \cup {None}
      BY <1>0 DEF PolicyName, Thread, LaunchTypeOK
    <3>3. th' = [th EXCEPT ![r] = [th[r] EXCEPT !.pc = "running",
                                     !.sees = IF th[r].policy = None THEN None ELSE policy[PolicyName(r)]]]
      BY <2>2 DEF Start
    <3>4. QED
      BY <1>a, <3>1, <3>2, <3>3
  <2>3. CASE Save(r) \/ Finish(r)
    BY <1>0, <1>a, <2>3 DEF Save, Finish, LaunchTypeOK
  <2>4. QED
    BY <1>4, <2>1, <2>2, <2>3 DEF Contain
<1>5. CASE OpenTmp(r) \/ WriteTmp(r) \/ ReplaceFails(r)
  <2>1. \A pc \in Stage, fd \in {"none", "tmp"} : [th[r] EXCEPT !.pc = pc, !.fd = fd] \in Thread
    BY <1>0 DEF Thread
  <2>2. CASE ReplaceFails(r)
    BY <1>a, <1>b, <1>c, <2>2 DEF ReplaceFails, Stage
  <2>3. CASE OpenTmp(r) \/ WriteTmp(r)
    <3>1. "write" \in Stage /\ "replace" \in Stage
      BY DEF Stage
    <3>2. CASE OpenTmp(r)
      <4>1. th' = [th EXCEPT ![r] = [th[r] EXCEPT !.pc = "write", !.fd = "tmp"]]
        BY <3>2 DEF OpenTmp
      <4>2. [th[r] EXCEPT !.pc = "write", !.fd = "tmp"] \in Thread
        BY <2>1, <3>1
      <4>3. QED
        BY <1>a, <4>1, <4>2
    <3>3. CASE WriteTmp(r)
      <4>1. th' = [th EXCEPT ![r] = [th[r] EXCEPT !.pc = "replace", !.fd = "none"]]
        BY <3>3 DEF WriteTmp
      <4>2. [th[r] EXCEPT !.pc = "replace", !.fd = "none"] \in Thread
        BY <2>1, <3>1
      <4>3. QED
        BY <1>a, <4>1, <4>2
    <3>4. QED
      BY <2>3, <3>2, <3>3
  <2>4. QED
    BY <1>5, <2>2, <2>3
<1>6. CASE Replace(r)
  <2>1. \A q \in Req \ {r} : th'[q] = [th[q] EXCEPT !.fd = IF @ = "tmp" THEN "manifest" ELSE "none"]
    BY <1>6 DEF Replace
  <2>2. \A x \in Thread : LET y == [x EXCEPT !.fd = IF @ = "tmp" THEN "manifest" ELSE "none"]
                          IN  /\ y \in Thread /\ y.pc = x.pc /\ y.at = x.at
                              /\ y.policy = x.policy /\ y.sees = x.sees /\ y.jq = x.jq
    BY DEF Thread
  <2>3. \A q \in Req \ {r} : /\ th'[q].pc = th[q].pc /\ th'[q].at = th[q].at
                             /\ th'[q].policy = th[q].policy /\ th'[q].sees = th[q].sees
                             /\ th'[q].jq = th[q].jq
    BY <1>0, <2>1, <2>2
  <2>4. th' \in [Req -> Thread]
    BY <1>0, <1>6, <2>2 DEF Replace
  <2>5. QED
    BY <2>3, <2>4
<1>7. QED
  BY <1>1, <1>2, <1>3, <1>4, <1>5, <1>6, PrepareMoves DEF Step, Build

LEMMA TypeStep ==
  ASSUME LaunchTypeOK, NEW r \in Req, Step(r)
  PROVE  LaunchTypeOK'
<1>1. th' \in [Req -> Thread] /\ UNCHANGED <<legacy, crashes, cut>>
  BY StepFrame, StepKeeps
<1>2. raced' \in BOOLEAN
  BY DEF Step, Request, Prepare, Exists, Create, Probe, TestMarker, FindFiles, CopyBegin, CopyEnd,
         Mark, MigrationDenied, OwnerProbe, AdjustBegin, AdjustEnd, Seed, TestConfig, InstallBegin,
         InstallEnd, Jq, Mv, Contain, Publish, Start, Save, Finish, Build, OpenTmp, WriteTmp,
         Replace, ReplaceFails, Keep, Enter, files, LaunchTypeOK
<1>3. vol' \in [Volume -> VolumeState]
  <2>1. vol[At(r)] \in VolumeState
    BY Position DEF LaunchTypeOK
  <2>2. CASE \E x \in VolumeState : vol' = [vol EXCEPT ![At(r)] = x]
    BY <2>2 DEF LaunchTypeOK
  <2>3. CASE UNCHANGED vol
    BY <2>3 DEF LaunchTypeOK
  <2>4. CASE Create(r) \/ CopyBegin(r) \/ CopyEnd(r)
    BY <2>1, <2>2, <2>3, <2>4 DEF Create, CopyBegin, CopyEnd, VolumeState
  <2>5. CASE Mark(r) \/ AdjustBegin(r) \/ AdjustEnd(r)
    BY <2>1, <2>2, <2>3, <2>5 DEF Mark, AdjustBegin, AdjustEnd, VolumeState
  <2>6. QED
    BY <2>3, <2>4, <2>5
       DEF Step, Request, Prepare, Exists, Probe, TestMarker, FindFiles, MigrationDenied, OwnerProbe,
           Seed, TestConfig, InstallBegin, InstallEnd, Jq, Mv, Contain, Publish, Start, Save, Finish,
           Build, OpenTmp, WriteTmp, Replace, ReplaceFails, Keep, files
<1>4. config' \in [data : Content, by : Req \cup {None}]
  <2>1. th[r].jq \in Content
    BY DEF LaunchTypeOK, Thread
  <2>2. CASE InstallBegin(r) \/ InstallEnd(r) \/ Mv(r) \/ Save(r)
    BY <2>1, <2>2 DEF InstallBegin, InstallEnd, Mv, Save, Content, LaunchTypeOK
  <2>3. CASE UNCHANGED config
    BY <2>3 DEF LaunchTypeOK
  <2>4. QED
    BY <2>2, <2>3
       DEF Step, Request, Prepare, Exists, Create, Probe, TestMarker, FindFiles, CopyBegin, CopyEnd,
           Mark, MigrationDenied, OwnerProbe, AdjustBegin, AdjustEnd, Seed, TestConfig, Jq, Contain,
           Publish, Start, Finish, Build, OpenTmp, WriteTmp, Replace, ReplaceFails, Keep, files
<1>5. policy' \in [Policies -> Policies \cup {None}]
  <2>1. th[r].policy \in Policies \cup {None}
    BY DEF LaunchTypeOK, Thread
  <2>2. CASE Publish(r)
    BY <2>1, <2>2 DEF Publish, LaunchTypeOK
  <2>3. CASE UNCHANGED policy
    BY <2>3 DEF LaunchTypeOK
  <2>4. QED
    BY <2>2, <2>3
       DEF Step, Request, Prepare, Exists, Create, Probe, TestMarker, FindFiles, CopyBegin, CopyEnd,
           Mark, MigrationDenied, OwnerProbe, AdjustBegin, AdjustEnd, Seed, TestConfig, InstallBegin,
           InstallEnd, Jq, Mv, Contain, Start, Save, Finish, Build, OpenTmp, WriteTmp, Replace,
           ReplaceFails, Keep, files
<1>6. tmp' \in File /\ manifest' \in File
  BY DEF Step, Request, Prepare, Exists, Create, Probe, TestMarker, FindFiles, CopyBegin, CopyEnd,
         Mark, MigrationDenied, OwnerProbe, AdjustBegin, AdjustEnd, Seed, TestConfig, InstallBegin,
         InstallEnd, Jq, Mv, Contain, Publish, Start, Save, Finish, Build, OpenTmp, WriteTmp,
         Replace, ReplaceFails, Keep, files, File, LaunchTypeOK
<1>7. QED
  BY <1>1, <1>2, <1>3, <1>4, <1>5, <1>6 DEF LaunchTypeOK

\* What a crash leaves of the threads: the containers that live on, where they were.
LEMMA Survivors ==
  ASSUME LaunchTypeOK, Crash
  PROVE  /\ th' \in [Req -> Thread]
         /\ \A r \in Req :
              \/ th'[r] = Idle /\ (~cut' => ~HalfDone(r)) /\ config'.by # r
              \/ /\ "survive" \in Env /\ th[r].pc \in Survivable
                 /\ th'[r] = [th[r] EXCEPT !.op = "none"]
                 /\ config.by = r => config'.by = r
         /\ config' \in [data : Content, by : Req \cup {None}] /\ config'.data = config.data
         /\ cut' \in BOOLEAN /\ (cut => cut')
<1>1. PICK alive \in SUBSET {r \in Req : "survive" \in Env /\ th[r].pc \in Survivable} :
        /\ th' = [r \in Req |-> IF r \in alive THEN [th[r] EXCEPT !.op = "none"] ELSE Idle]
        /\ cut' = (cut \/ \E r \in Req \ alive : HalfDone(r))
        /\ config' = [config EXCEPT !.by = IF @ \in alive THEN @ ELSE None]
  BY DEF Crash
<1>2. Idle \in Thread /\ \A r \in Req : [th[r] EXCEPT !.op = "none"] \in Thread
  <2>1. Idle \in Thread
    BY VolumeFacts DEF Idle, Thread, Stage, Content
  <2>2. \A r \in Req : th[r] \in Thread
    BY DEF LaunchTypeOK
  <2>3. \A x \in Thread : [x EXCEPT !.op = "none"] \in Thread
    BY DEF Thread
  <2>4. QED
    BY <2>1, <2>2, <2>3
<1>3. /\ config \in [data : Content, by : Req \cup {None}] /\ cut \in BOOLEAN
      /\ None \notin Req /\ alive \subseteq Req
  BY LaunchAssumption DEF LaunchTypeOK
<1>4. QED
  BY <1>1, <1>2, <1>3

LEMMA TypeCrash == ASSUME LaunchTypeOK, Crash PROVE LaunchTypeOK'
<1>1. crashes' \in 0 .. MaxCrashes
  BY LaunchAssumption DEF Crash, LaunchTypeOK
<1>2. QED
  BY <1>1, Survivors DEF Crash, LaunchTypeOK, File
(***************************************************************************)
(* The volumes.                                                            *)
(***************************************************************************)
\* What a step does to the volumes, and who does it.
LEMMA VolumeSteps ==
  ASSUME LaunchTypeOK, NEW r \in Req, Step(r), NEW v \in Volume
  PROVE  /\ vol'[v].marker = vol[v].marker \/ (Mark(r) /\ v = At(r) /\ vol'[v].marker)
         /\ vol'[v].copied = vol[v].copied \/ ((CopyBegin(r) \/ CopyEnd(r)) /\ v = At(r))
         /\ vol'[v].owner = vol[v].owner \/ (AdjustBegin(r) /\ vol[v].owner = "root")
              \/ (AdjustEnd(r) /\ vol'[v].owner = "agent")
         /\ vol'[v].exists = vol[v].exists \/ (Create(r) /\ v = At(r))
<1>1. At(r) \in Volume /\ vol[v] \in VolumeState /\ vol[At(r)] \in VolumeState
  BY Position DEF LaunchTypeOK
<1>2. CASE Create(r) \/ Mark(r)
  BY <1>1, <1>2 DEF Create, Mark, VolumeState, LaunchTypeOK
<1>3. CASE CopyBegin(r) \/ CopyEnd(r)
  BY <1>1, <1>3 DEF CopyBegin, CopyEnd, VolumeState, LaunchTypeOK
<1>4. CASE AdjustBegin(r) \/ AdjustEnd(r)
  BY <1>1, <1>4 DEF AdjustBegin, AdjustEnd, VolumeState, LaunchTypeOK
<1>5. CASE UNCHANGED vol
  BY <1>5
<1>6. QED
  BY <1>2, <1>3, <1>4, <1>5
     DEF Step, Request, Prepare, Exists, Probe, TestMarker, FindFiles, MigrationDenied, OwnerProbe,
         Seed, TestConfig, InstallBegin, InstallEnd, Jq, Mv, Contain, Publish, Start, Save, Finish,
         Build, OpenTmp, WriteTmp, Replace, ReplaceFails, Keep, files

\* The steps outside prepare_provider_state.
LEMMA Elsewhere ==
  ASSUME LaunchTypeOK, NEW r \in Req, Request(r) \/ Seed(r) \/ Contain(r) \/ Build(r)
  PROVE  /\ UNCHANGED vol
         /\ th'[r].pc \in Late \cup {"idle", "exists", "failed"}
         /\ th'[r].pc \in Late => th[r].pc \in Late
<1>0. th[r] \in Thread /\ th \in [Req -> Thread]
  BY DEF LaunchTypeOK
<1>1. CASE Request(r)
  <2>1. vol' = vol /\ th'[r].pc = "exists"
    BY <1>0, <1>1 DEF Request, Keep, files, Idle
  <2>2. QED
    BY <2>1 DEF Late
<1>2. CASE Seed(r)
  BY <1>0, <1>2, Afterwards DEF Seed, TestConfig, InstallBegin, InstallEnd, Jq, Mv, Go, Keep, files, Late, Thread
<1>3. CASE Contain(r)
  BY <1>0, <1>3 DEF Contain, Publish, Start, Save, Finish, Go, Keep, files, Idle, Late, Thread
<1>4. CASE Build(r)
  BY <1>0, <1>4 DEF Build, OpenTmp, WriteTmp, Replace, ReplaceFails, Go, Keep, files, Idle, Late, Thread
<1>5. QED
  BY <1>1, <1>2, <1>3, <1>4

\* Where a thread is after it advanced or moved on.
LEMMA Arrives ==
  ASSUME LaunchTypeOK, NEW r \in Req
  PROVE  /\ \A stage : Go(r, stage) => th'[r].pc = stage /\ th'[r].at = th[r].at /\ At(r)' = At(r)
         /\ \A loop, after : Advance(r, loop, after) =>
              \/ Last(r) /\ th'[r].pc = after /\ th'[r].at = 1
              \/ ~Last(r) /\ th'[r].pc = loop /\ th'[r].at = th[r].at + 1
<1>0. th[r] \in Thread /\ th \in [Req -> Thread]
  BY DEF LaunchTypeOK
<1>1. ASSUME NEW stage, Go(r, stage)
      PROVE  th'[r].pc = stage /\ th'[r].at = th[r].at /\ At(r)' = At(r)
  <2>1. th'[r] = [th[r] EXCEPT !.pc = stage]
    BY <1>0, <1>1 DEF Go
  <2>2. QED
    BY <1>0, <2>1 DEF Thread, At
<1>2. ASSUME NEW loop, NEW after, Advance(r, loop, after)
      PROVE  \/ Last(r) /\ th'[r].pc = after /\ th'[r].at = 1
             \/ ~Last(r) /\ th'[r].pc = loop /\ th'[r].at = th[r].at + 1
  <2>1. th'[r] = [th[r] EXCEPT !.pc = IF Last(r) THEN after ELSE loop,
                               !.at = IF Last(r) THEN 1 ELSE @ + 1]
    BY <1>0, <1>2 DEF Advance
  <2>2. QED
    BY <1>0, <2>1 DEF Thread
<1>3. QED
  BY <1>1, <1>2
LEMMA Grows ==
  ASSUME LaunchTypeOK, OwnedIsMarked, NEW r \in Req, Step(r), NEW v \in Volume
  PROVE  /\ vol[v].marker => vol'[v].marker
         /\ vol[v].owner = "agent" => vol'[v].owner = "agent"
BY VolumeSteps

\* A thread keeps what it has checked, whatever the others do.
LEMMA ProgressOfOthers ==
  ASSUME LaunchTypeOK, VolumeInv, NEW r \in Req, Step(r), NEW q \in Req \ {r}
  PROVE  Progress(q)'
<1>1. th'[q].pc = th[q].pc /\ th'[q].at = th[q].at
  BY StepFrame
<1>2. \A i \in 1 .. Len(Volumes) : Volumes[i] \in Volume
  BY VolumeFacts
<1>3. QED
  BY <1>1, <1>2, Grows DEF Progress, VolumeInv

\* What a thread has to know where it arrives.
Probing == {"probe"} \cup Migration
Owning == {"owner", "adjust", "adjusting"}

LEMMA Landing ==
  ASSUME NEW r \in Req
  PROVE  /\ th'[r].pc \notin Probing \cup Owning \cup Late => Progress(r)'
         /\ th'[r].pc \in Probing
              /\ (\A i \in 1 .. Len(Volumes) : i < th'[r].at => vol'[Volumes[i]].marker) => Progress(r)'
         /\ th'[r].pc \in Owning /\ (\A v \in Volume : vol'[v].marker)
              /\ (\A i \in 1 .. Len(Volumes) : i < th'[r].at => vol'[Volumes[i]].owner = "agent")
              => Progress(r)'
         /\ th'[r].pc \in Late /\ (\A v \in Volume : vol'[v].marker /\ vol'[v].owner = "agent")
              => Progress(r)'
<1>1. th'[r].pc \in Probing => th'[r].pc \notin Owning \cup Late
  BY DEF Probing, Migration, Owning, Late
<1>2. th'[r].pc \in Owning => th'[r].pc \notin Late
  BY DEF Owning, Late
<1>3. QED
  BY <1>1, <1>2 DEF Progress, Probing, Owning

\* A thread whose present volume is marked goes on to the next one, or to the owners, or
\* is a container whose script is done.
LEMMA MarkedAdvance ==
  ASSUME LaunchTypeOK, NEW r \in Req, NEW loop \in {"probe", "marker"},
         NEW after \in {"owner", "idle"}, Advance(r, loop, after),
         \A i \in 1 .. Len(Volumes) : i <= th[r].at => vol'[Volumes[i]].marker
  PROVE  Progress(r)'
<1>0. th[r].at \in 1 .. Len(Volumes) /\ (Last(r) <=> th[r].at = Len(Volumes)) /\ Len(Volumes) \in Nat
  BY Position, VolumeFacts
<1>1. CASE Last(r) /\ th'[r].pc = "owner" /\ th'[r].at = 1
  <2>1. \A i \in 1 .. Len(Volumes) : vol'[Volumes[i]].marker
    BY <1>0, <1>1
  <2>2. \A v \in Volume : vol'[v].marker
    BY <2>1, VolumeFacts
  <2>3. \A i \in 1 .. Len(Volumes) : ~(i < th'[r].at)
    BY <1>1
  <2>4. th'[r].pc \in Owning
    BY <1>1 DEF Owning
  <2>5. QED
    BY <2>2, <2>3, <2>4, Landing
<1>2. CASE ~Last(r) /\ th'[r].pc = loop /\ th'[r].at = th[r].at + 1
  <2>1. \A i \in 1 .. Len(Volumes) : i < th'[r].at => vol'[Volumes[i]].marker
    BY <1>0, <1>2
  <2>2. th'[r].pc \in Probing
    BY <1>2 DEF Probing, Migration
  <2>3. QED
    BY <2>1, <2>2, Landing
<1>3. CASE th'[r].pc = "idle"
  BY <1>3, Landing DEF Probing, Migration, Owning, Late
<1>4. QED
  BY <1>1, <1>2, <1>3, Arrives

\* The same with the owner: the next volume, or past the owners.
LEMMA OwnedAdvance ==
  ASSUME LaunchTypeOK, NEW r \in Req, NEW loop \in {"owner", "idle"},
         NEW after \in {AfterOwners(r), "idle"}, Advance(r, loop, after),
         \A v \in Volume : vol'[v].marker,
         \A i \in 1 .. Len(Volumes) : i <= th[r].at => vol'[Volumes[i]].owner = "agent"
  PROVE  Progress(r)'
<1>0. th[r].at \in 1 .. Len(Volumes) /\ (Last(r) <=> th[r].at = Len(Volumes)) /\ Len(Volumes) \in Nat
  BY Position, VolumeFacts
<1>1. CASE Last(r) /\ th'[r].pc = AfterOwners(r) /\ th'[r].at = 1
  <2>1. \A i \in 1 .. Len(Volumes) : vol'[Volumes[i]].owner = "agent"
    BY <1>0, <1>1
  <2>2. \A v \in Volume : vol'[v].owner = "agent"
    BY <2>1, VolumeFacts
  <2>3. th'[r].pc \in Late
    BY <1>1, Afterwards DEF Late
  <2>4. QED
    BY <2>2, <2>3, Landing
<1>2. CASE ~Last(r) /\ th'[r].pc = "owner" /\ th'[r].at = th[r].at + 1
  <2>1. \A i \in 1 .. Len(Volumes) : i < th'[r].at => vol'[Volumes[i]].owner = "agent"
    BY <1>0, <1>2
  <2>2. th'[r].pc \in Owning
    BY <1>2 DEF Owning
  <2>3. QED
    BY <2>1, <2>2, Landing
<1>3. CASE th'[r].pc = "idle"
  BY <1>3, Landing DEF Probing, Migration, Owning, Late
<1>4. QED
  BY <1>1, <1>2, <1>3, Arrives

LEMMA ProgressOfOne ==
  ASSUME LaunchTypeOK, VolumeInv, NEW r \in Req, Step(r)
  PROVE  Progress(r)'
<1>0. OwnedIsMarked /\ Progress(r)
  BY DEF VolumeInv
<1>a. \A i \in 1 .. Len(Volumes) : Volumes[i] \in Volume
  BY VolumeFacts
<1>b. th[r].at \in 1 .. Len(Volumes) /\ Len(Volumes) \in Nat /\ At(r) = Volumes[th[r].at]
  BY Position, VolumeFacts DEF At
<1>c. \A v \in Volume : /\ vol[v].marker => vol'[v].marker
                        /\ vol[v].owner = "agent" => vol'[v].owner = "agent"
  BY <1>0, Grows
<1>d. ASSUME th[r].pc \in Probing
      PROVE  \A i \in 1 .. Len(Volumes) : i < th[r].at => vol'[Volumes[i]].marker
  BY <1>0, <1>a, <1>c, <1>d DEF Progress, Probing
<1>e. ASSUME th[r].pc \in Probing, vol'[At(r)].marker
      PROVE  \A i \in 1 .. Len(Volumes) : i <= th[r].at => vol'[Volumes[i]].marker
  BY <1>b, <1>d, <1>e
<1>f. ASSUME th[r].pc \in Owning
      PROVE  /\ \A v \in Volume : vol'[v].marker
             /\ \A i \in 1 .. Len(Volumes) : i < th[r].at => vol'[Volumes[i]].owner = "agent"
  BY <1>0, <1>a, <1>c, <1>f DEF Progress, Owning
<1>1. CASE Exists(r) \/ Create(r)
  <2>1. th'[r].pc \in {"exists", "create", "failed"} \/ (th'[r].pc = "probe" /\ th'[r].at = 1)
    BY <1>1, Arrives DEF Exists, Create
  <2>2. CASE th'[r].pc \in {"exists", "create", "failed"}
    <3>1. th'[r].pc \notin Probing \cup Owning \cup Late
      BY <2>2 DEF Probing, Migration, Owning, Late
    <3>2. QED
      BY <3>1, Landing
  <2>3. CASE th'[r].pc = "probe" /\ th'[r].at = 1
    <3>1. th'[r].pc \in Probing /\ \A i \in 1 .. Len(Volumes) : ~(i < th'[r].at)
      BY <2>3 DEF Probing
    <3>2. QED
      BY <3>1, Landing
  <2>4. QED
    BY <2>1, <2>2, <2>3
<1>2. CASE Probe(r)
  <2>1. vol' = vol /\ th[r].pc \in Probing
    BY <1>2 DEF Probe, Keep, files, Probing
  <2>2. CASE vol[At(r)].marker
    <3>1. Advance(r, "probe", "owner")
      BY <1>2, <2>2 DEF Probe
    <3>2. vol'[At(r)].marker
      BY <2>1, <2>2
    <3>3. QED
      BY <1>e, <2>1, <3>1, <3>2, MarkedAdvance
  <2>3. CASE ~vol[At(r)].marker
    <3>1. th'[r].pc = "marker" /\ th'[r].at = 1
      BY <1>2, <2>3 DEF Probe, LaunchTypeOK, Thread
    <3>2. th'[r].pc \in Probing /\ \A i \in 1 .. Len(Volumes) : ~(i < th'[r].at)
      BY <3>1 DEF Probing, Migration
    <3>3. QED
      BY <3>2, Landing
  <2>4. QED
    BY <2>2, <2>3
<1>3. CASE TestMarker(r)
  <2>1. vol' = vol /\ th[r].pc \in Probing
    BY <1>3 DEF TestMarker, Keep, files, Probing, Migration
  <2>2. CASE vol[At(r)].marker
    <3>1. \E after \in {"owner", "idle"} : Advance(r, "marker", after)
      BY <1>3, <2>2, Afterwards DEF TestMarker
    <3>2. vol'[At(r)].marker
      BY <2>1, <2>2
    <3>3. QED
      BY <1>e, <2>1, <3>1, <3>2, MarkedAdvance
  <2>3. CASE ~vol[At(r)].marker
    <3>1. Go(r, "find")
      BY <1>3, <2>3 DEF TestMarker
    <3>2. th'[r].pc = "find" /\ th'[r].at = th[r].at
      BY <3>1, Arrives
    <3>3. th'[r].pc \in Probing
      BY <3>2 DEF Probing, Migration
    <3>4. QED
      BY <1>d, <2>1, <3>2, <3>3, Landing
  <2>4. QED
    BY <2>2, <2>3
<1>4. CASE FindFiles(r) \/ CopyBegin(r) \/ CopyEnd(r) \/ MigrationDenied(r)
  <2>1. th[r].pc \in {"marker", "find", "copy", "copying", "mark"} /\ th'[r].at = th[r].at
        /\ th'[r].pc \in {"failed", "idle", "copy", "copying", "mark"}
    BY <1>4, Arrives, Afterwards DEF FindFiles, CopyBegin, CopyEnd, MigrationDenied, Migration
  <2>2. th[r].pc \in Probing /\ (th'[r].pc \in Probing \/ th'[r].pc \notin Probing \cup Owning \cup Late)
    BY <2>1 DEF Probing, Migration, Owning, Late
  <2>3. QED
    BY <1>d, <2>1, <2>2, Landing
<1>5. CASE Mark(r)
  <2>1. th[r].pc \in Probing /\ \E after \in {"owner", "idle"} : Advance(r, "marker", after)
    BY <1>5, Afterwards DEF Mark, Probing, Migration
  <2>2. vol'[At(r)].marker
    BY <1>5, Position DEF Mark, LaunchTypeOK, VolumeState
  <2>3. QED
    BY <1>e, <2>1, <2>2, MarkedAdvance
<1>6. CASE OwnerProbe(r) \/ AdjustEnd(r)
  <2>1. th[r].pc \in Owning
    BY <1>6 DEF OwnerProbe, AdjustEnd, Owning
  <2>2. CASE OwnerProbe(r) /\ vol[At(r)].owner # "agent"
    <3>1. Go(r, "adjust")
      BY <2>2 DEF OwnerProbe
    <3>2. th'[r].pc \in Owning /\ th'[r].at = th[r].at
      BY <3>1, Arrives DEF Owning
    <3>3. QED
      BY <1>f, <2>1, <3>2, Landing
  <2>3. CASE AdjustEnd(r) \/ (OwnerProbe(r) /\ vol[At(r)].owner = "agent")
    <3>1. \E loop \in {"owner", "idle"}, after \in {AfterOwners(r), "idle"} : Advance(r, loop, after)
      BY <2>3, Afterwards DEF OwnerProbe, AdjustEnd
    <3>2. vol'[At(r)].owner = "agent"
      BY <2>3, Position DEF OwnerProbe, AdjustEnd, LaunchTypeOK, VolumeState, Keep, files
    <3>3. \A i \in 1 .. Len(Volumes) : i <= th[r].at => vol'[Volumes[i]].owner = "agent"
      BY <1>b, <1>f, <2>1, <3>2
    <3>4. QED
      BY <1>f, <2>1, <3>1, <3>3, OwnedAdvance
  <2>4. QED
    BY <1>6, <2>2, <2>3
<1>7. CASE AdjustBegin(r)
  <2>1. Go(r, "adjusting") /\ th[r].pc \in Owning
    BY <1>7 DEF AdjustBegin, Owning
  <2>2. th'[r].pc \in Owning /\ th'[r].at = th[r].at
    BY <2>1, Arrives DEF Owning
  <2>3. QED
    BY <1>f, <2>1, <2>2, Landing
<1>8. CASE Request(r) \/ Seed(r) \/ Contain(r) \/ Build(r)
  <2>1. /\ vol' = vol /\ th'[r].pc \in Late \cup {"idle", "exists", "failed"}
        /\ th'[r].pc \in Late => th[r].pc \in Late
    BY <1>8, Elsewhere
  <2>2. th'[r].pc \in Late \/ th'[r].pc \notin Probing \cup Owning \cup Late
    BY <2>1 DEF Probing, Migration, Owning, Late
  <2>3. th[r].pc \in Late => \A v \in Volume : vol[v].marker /\ vol[v].owner = "agent"
    BY <1>0 DEF Progress
  <2>4. QED
    BY <2>1, <2>2, <2>3, Landing
<1>9. QED
  BY <1>1, <1>2, <1>3, <1>4, <1>5, <1>6, <1>7, <1>8 DEF Step, Prepare
\* A thread is alone in the migration until another one is noticed there.
LEMMA AloneInMigration ==
  ASSUME LaunchTypeOK, VolumeInv, NEW r \in Req, Step(r), ~raced'
  PROVE  /\ Alone(Migration)'
         /\ th[r].pc \in Migration => \A q \in Req \ {r} : th'[q].pc \notin Migration
<1>0. ~raced /\ Alone(Migration)
  BY StepKeeps DEF VolumeInv
<1>1. th'[r].pc \in Migration =>
        th[r].pc \in Migration \/ \A q \in Req \ {r} : th[q].pc \notin Migration
  <2>1. CASE Probe(r)
    <3>1. CASE vol[At(r)].marker
      <4>1. Advance(r, "probe", "owner")
        BY <2>1, <3>1 DEF Probe
      <4>2. th'[r].pc \in {"probe", "owner"}
        BY <4>1, Arrives
      <4>3. QED
        BY <4>2 DEF Migration
    <3>2. CASE ~vol[At(r)].marker
      <4>1. Enter(r, Migration)
        BY <2>1, <3>2 DEF Probe
      <4>2. QED
        BY <4>1 DEF Enter
    <3>3. QED
      BY <3>1, <3>2
  <2>2. CASE Exists(r) \/ Create(r) \/ OwnerProbe(r) \/ AdjustBegin(r) \/ AdjustEnd(r)
    <3>1. th'[r].pc \in {"create", "exists", "failed", "probe", "adjust", "adjusting", "owner",
                         "idle", AfterOwners(r)}
      BY <2>2, Arrives, Afterwards DEF Exists, Create, OwnerProbe, AdjustBegin, AdjustEnd
    <3>2. QED
      BY <3>1, Afterwards DEF Migration
  <2>3. CASE \/ TestMarker(r) \/ FindFiles(r) \/ CopyBegin(r) \/ CopyEnd(r) \/ Mark(r)
             \/ MigrationDenied(r)
    BY <2>3, Arrives, Afterwards
       DEF TestMarker, FindFiles, CopyBegin, CopyEnd, Mark, MigrationDenied, Migration
  <2>4. CASE Request(r) \/ Seed(r) \/ Contain(r) \/ Build(r)
    <3>1. th'[r].pc \in Late \cup {"idle", "exists", "failed"}
      BY <2>4, Elsewhere
    <3>2. QED
      BY <3>1 DEF Late, Migration
  <2>5. QED
    BY <2>1, <2>2, <2>3, <2>4 DEF Step, Prepare
<1>2. \A q \in Req \ {r} : th'[q].pc = th[q].pc
  BY StepFrame
<1>3. QED
  BY <1>0, <1>1, <1>2 DEF Alone

LEMMA MigratesOfOne ==
  ASSUME LaunchTypeOK, VolumeInv, NEW r \in Req, Step(r), ~raced'
  PROVE  Migrates(r)'
<1> USE Arrives, Afterwards DEF Migrates
<1>0. /\ Migrates(r) /\ At(r) \in Volume /\ legacy' = legacy
      /\ vol \in [Volume -> VolumeState] /\ vol[At(r)] \in VolumeState
  BY StepKeeps, Position DEF VolumeInv, LaunchTypeOK
<1>1. CASE Exists(r) \/ Create(r) \/ OwnerProbe(r) \/ AdjustBegin(r) \/ AdjustEnd(r)
  BY <1>1 DEF Exists, Create, OwnerProbe, AdjustBegin, AdjustEnd
<1>2. CASE Probe(r)
  <2>1. th'[r].pc \in {"probe", "owner", "marker"}
    BY <1>2 DEF Probe, LaunchTypeOK, Thread
  <2>2. QED
    BY <2>1
<1>3. CASE TestMarker(r) \/ FindFiles(r) \/ MigrationDenied(r)
  <2>1. vol' = vol
    BY <1>3 DEF TestMarker, FindFiles, MigrationDenied, Keep, files
  <2>2. th'[r].pc \in {"find", "copy", "mark"} => At(r)' = At(r) /\ ~vol[At(r)].marker
    BY <1>0, <1>3 DEF TestMarker, FindFiles, MigrationDenied
  <2>3. th'[r].pc = "mark" => At(r) \notin legacy
    BY <1>3 DEF TestMarker, FindFiles, MigrationDenied
  <2>4. th'[r].pc # "copying"
    BY <1>3 DEF TestMarker, FindFiles, MigrationDenied
  <2>5. QED
    BY <1>0, <2>1, <2>2, <2>3, <2>4
<1>4. CASE CopyBegin(r) \/ CopyEnd(r)
  <2>1. At(r)' = At(r) /\ ~vol[At(r)].marker /\ vol'[At(r)].marker = vol[At(r)].marker
    BY <1>0, <1>4 DEF CopyBegin, CopyEnd, VolumeState
  <2>2. th'[r].pc = "copying" \/ (th'[r].pc = "mark" /\ vol'[At(r)].copied = "all")
    BY <1>0, <1>4 DEF CopyBegin, CopyEnd, VolumeState
  <2>3. QED
    BY <2>1, <2>2
<1>5. CASE Mark(r)
  BY <1>5 DEF Mark
<1>6. CASE Request(r) \/ Seed(r) \/ Contain(r) \/ Build(r)
  BY <1>6, Elsewhere DEF Late
<1>7. QED
  BY <1>1, <1>2, <1>3, <1>4, <1>5, <1>6 DEF Step, Prepare

LEMMA MigrationStep ==
  ASSUME LaunchTypeOK, VolumeInv, NEW r \in Req, Step(r), ~raced'
  PROVE  (MarkedIsCopied /\ \A q \in Req : Migrates(q))'
<1>0. ~raced /\ MarkedIsCopied /\ (\A q \in Req : Migrates(q)) /\ legacy' = legacy
      /\ legacy \subseteq Volume
  BY StepKeeps DEF VolumeInv, LaunchTypeOK
<1>1. MarkedIsCopied'
  <2> SUFFICES ASSUME NEW v \in legacy, vol'[v].marker PROVE vol'[v].copied = "all"
    BY <1>0 DEF MarkedIsCopied
  <2>1. CASE vol[v].marker
    <3>1. v # At(r) \/ ~(CopyBegin(r) \/ CopyEnd(r))
      BY <1>0, <2>1 DEF Migrates, CopyBegin, CopyEnd
    <3>2. QED
      BY <1>0, <2>1, <3>1, VolumeSteps DEF MarkedIsCopied
  <2>2. CASE ~vol[v].marker
    <3>1. Mark(r) /\ v = At(r)
      BY <1>0, <2>2, VolumeSteps
    <3>2. vol[v].copied = "all" /\ ~(CopyBegin(r) \/ CopyEnd(r))
      BY <1>0, <3>1 DEF Migrates, Mark, CopyBegin, CopyEnd
    <3>3. QED
      BY <1>0, <3>2, VolumeSteps
  <2>3. QED
    BY <2>1, <2>2
<1>2. ASSUME NEW q \in Req \ {r} PROVE Migrates(q)'
  <2>1. th'[q].pc = th[q].pc /\ At(q)' = At(q)
    BY StepFrame DEF At
  <2>2. CASE th[r].pc \in Migration
    BY <2>1, <2>2, AloneInMigration DEF Migrates, Migration
  <2>3. CASE th[r].pc \notin Migration
    <3>1. ~Mark(r) /\ ~CopyBegin(r) /\ ~CopyEnd(r)
      BY <2>3 DEF Mark, CopyBegin, CopyEnd, Migration
    <3>2. vol'[At(q)].marker = vol[At(q)].marker /\ vol'[At(q)].copied = vol[At(q)].copied
      BY <3>1, VolumeSteps, Position
    <3>3. QED
      BY <1>0, <2>1, <3>2 DEF Migrates
  <2>4. QED
    BY <2>2, <2>3
<1>3. QED
  BY <1>1, <1>2, MigratesOfOne
LEMMA CreatesStep ==
  ASSUME LaunchTypeOK, VolumeInv, NEW r \in Req, Step(r), ~raced'
  PROVE  CreatesMissing'
<1> USE Arrives, Afterwards
<1>0. ~raced /\ CreatesMissing
  BY StepKeeps DEF VolumeInv
<1>1. ASSUME th'[r].pc = "create" PROVE ~vol'[At(r)'].exists
  <2>1. CASE Exists(r)
    BY <1>1, <2>1 DEF Exists, Keep, files
  <2>2. CASE Create(r)
    BY <1>1, <2>2 DEF Create
  <2>3. CASE Request(r) \/ Seed(r) \/ Contain(r) \/ Build(r)
    BY <1>1, <2>3, Elsewhere DEF Late
  <2>4. CASE Probe(r)
    BY <1>1, <2>4 DEF Probe, LaunchTypeOK, Thread
  <2>5. CASE \/ TestMarker(r) \/ FindFiles(r) \/ CopyBegin(r) \/ CopyEnd(r) \/ Mark(r)
             \/ MigrationDenied(r) \/ OwnerProbe(r) \/ AdjustBegin(r) \/ AdjustEnd(r)
    BY <1>1, <2>5 DEF TestMarker, FindFiles, CopyBegin, CopyEnd, Mark, MigrationDenied,
                      OwnerProbe, AdjustBegin, AdjustEnd
  <2>6. QED
    BY <2>1, <2>2, <2>3, <2>4, <2>5 DEF Step, Prepare
<1>2. ASSUME NEW q \in Req \ {r}, th'[q].pc = "create" PROVE ~vol'[At(q)'].exists
  <2>1. th[q].pc = "create" /\ At(q)' = At(q)
    BY <1>2, StepFrame DEF At
  <2>2. ~Create(r)
    BY <2>1 DEF Create, Enter
  <2>3. QED
    BY <1>0, <2>1, <2>2, VolumeSteps, Position DEF CreatesMissing
<1>3. QED
  BY <1>1, <1>2 DEF CreatesMissing

LEMMA CopyHasOwnerStep ==
  ASSUME LaunchTypeOK, VolumeInv, NEW r \in Req, Step(r), ~raced', ~cut'
  PROVE  CopyHasOwner'
<1>0. CopyHasOwner
  BY StepKeeps DEF VolumeInv
<1> SUFFICES ASSUME NEW v \in Volume, vol'[v].copied # "none", ~vol'[v].marker
             PROVE  \E q \in Req : th'[q].pc \in {"copying", "mark"} /\ At(q)' = v
  BY DEF CopyHasOwner
<1>1. CASE (CopyBegin(r) \/ CopyEnd(r)) /\ v = At(r)
  BY <1>1, Arrives DEF CopyBegin, CopyEnd
<1>2. CASE ~((CopyBegin(r) \/ CopyEnd(r)) /\ v = At(r))
  <2>1. vol[v].copied # "none" /\ ~vol[v].marker
    BY <1>2, VolumeSteps
  <2>2. PICK q \in Req : th[q].pc \in {"copying", "mark"} /\ At(q) = v
    BY <1>0, <2>1 DEF CopyHasOwner
  <2>3. CASE q # r
    BY <2>2, <2>3, StepFrame DEF At
  <2>4. CASE q = r
    <3>1. Mark(r) \/ MigrationDenied(r)
      <4>1. ~Request(r) /\ ~Seed(r) /\ ~Contain(r) /\ ~Build(r)
        BY <2>2, <2>4 DEF Request, Seed, TestConfig, InstallBegin, InstallEnd, Jq, Mv, Contain,
                          Publish, Start, Save, Finish, Build, OpenTmp, WriteTmp, Replace, ReplaceFails
      <4>2. Prepare(r)
        BY <4>1 DEF Step
      <4>3. QED
        BY <1>2, <2>2, <2>4, <4>2
           DEF Prepare, Exists, Create, Probe, TestMarker, FindFiles, CopyBegin, CopyEnd,
               OwnerProbe, AdjustBegin, AdjustEnd
    <3>2. ~Mark(r)
      BY <2>2, <2>4, Position DEF Mark, LaunchTypeOK, VolumeState
    <3>3. vol[At(r)].owner = "root"
      <4>1. Migrates(r) /\ ~vol[At(r)].marker /\ At(r) \in Volume
        BY <2>1, <2>2, <2>4, StepKeeps, Position DEF VolumeInv
      <4>2. QED
        BY <4>1 DEF VolumeInv, OwnedIsMarked
    <3>4. QED
      BY <3>1, <3>2, <3>3 DEF MigrationDenied, Writable
  <2>5. QED
    BY <2>3, <2>4
<1>3. QED
  BY <1>1, <1>2

LEMMA VolumeStep ==
  ASSUME LaunchTypeOK, VolumeInv, NEW r \in Req, Step(r)
  PROVE  VolumeInv'
<1>1. OwnedIsMarked'
  <2> SUFFICES ASSUME NEW v \in Volume, vol'[v].owner # "root" PROVE vol'[v].marker
    BY DEF OwnedIsMarked
  <2>1. CASE vol[v].owner # "root"
    BY <2>1, Grows DEF VolumeInv, OwnedIsMarked
  <2>2. CASE vol[v].owner = "root"
    <3>1. th[r].pc \in {"adjust", "adjusting"}
      BY <2>2, VolumeSteps DEF AdjustBegin, AdjustEnd
    <3>2. vol[v].marker
      BY <3>1 DEF VolumeInv, Progress
    <3>3. QED
      BY <3>2, Grows DEF VolumeInv
  <2>3. QED
    BY <2>1, <2>2
<1>2. \A q \in Req : Progress(q)'
  BY ProgressOfOne, ProgressOfOthers
<1>3. ASSUME ~raced'
      PROVE  (Alone(Migration) /\ MarkedIsCopied /\ (\A q \in Req : Migrates(q)) /\ CreatesMissing)'
  BY <1>3, AloneInMigration, MigrationStep, CreatesStep
<1>4. ASSUME ~raced', ~cut' PROVE CopyHasOwner'
  BY <1>4, CopyHasOwnerStep
<1>5. QED
  BY <1>1, <1>2, <1>3, <1>4 DEF VolumeInv
(***************************************************************************)
(* The configuration.                                                      *)
(***************************************************************************)
\* The steps outside seed_provider_home.
LEMMA OutsideSeeding ==
  ASSUME LaunchTypeOK, NEW r \in Req, Request(r) \/ Prepare(r) \/ Contain(r) \/ Build(r)
  PROVE  /\ config' = config \/ Save(r)
         /\ th[r].pc \notin Seeding
         /\ th'[r].pc \notin {"install", "installing", "jq", "mv"}
         /\ th'[r].pc = "config" => Managed
         /\ th'[r].pc \in Configured => th[r].pc \in Configured \/ ~Managed
<1> USE Arrives, Afterwards DEF Seeding, Configured
<1>0. th[r] \in Thread /\ th \in [Req -> Thread]
  BY DEF LaunchTypeOK
<1>1. CASE Request(r)
  <2>1. config' = config /\ th[r].pc = "idle" /\ th'[r].pc = "exists"
    BY <1>0, <1>1 DEF Request, Keep, files, Idle
  <2>2. QED
    BY <2>1
<1>2. CASE Exists(r) \/ Create(r) \/ TestMarker(r)
  BY <1>2 DEF Exists, Create, TestMarker, Keep, files
<1>3. CASE Probe(r)
  BY <1>0, <1>3 DEF Probe, Keep, files, Thread
<1>4. CASE FindFiles(r) \/ CopyBegin(r) \/ CopyEnd(r) \/ Mark(r) \/ MigrationDenied(r) \/ AdjustBegin(r)
  BY <1>4 DEF FindFiles, CopyBegin, CopyEnd, Mark, MigrationDenied, AdjustBegin, Keep, files
<1>5. CASE OwnerProbe(r) \/ AdjustEnd(r)
  <2>1. config' = config /\ th[r].pc \in {"owner", "adjusting"}
        /\ th'[r].pc \in {"owner", "idle", "adjust", AfterOwners(r)}
    BY <1>5 DEF OwnerProbe, AdjustEnd, Keep, files
  <2>2. QED
    BY <2>1
<1>6. CASE Contain(r)
  BY <1>0, <1>6 DEF Contain, Publish, Start, Save, Finish, Keep, files, Idle, Thread
<1>7. CASE Build(r)
  BY <1>0, <1>7 DEF Build, OpenTmp, WriteTmp, Replace, ReplaceFails, Keep, files, Idle, Thread
<1>8. QED
  BY <1>1, <1>2, <1>3, <1>4, <1>5, <1>6, <1>7 DEF Prepare

LEMMA JqOfOthers ==
  ASSUME LaunchTypeOK, NEW r \in Req, Step(r), NEW q \in Req, th'[q].pc = "mv", th[q].pc = "mv"
  PROVE  th'[q].jq = th[q].jq
<1>1. CASE q # r
  BY <1>1, StepFrame
<1>2. CASE q = r
  BY <1>2, OutsideSeeding, Arrives, Afterwards
     DEF Step, Seed, TestConfig, InstallBegin, InstallEnd, Jq, Mv
<1>3. QED
  BY <1>1, <1>2

LEMMA ConfigOutside ==
  ASSUME LaunchTypeOK, ConfigInv, NEW r \in Req, Step(r),
         Request(r) \/ Prepare(r) \/ Contain(r) \/ Build(r)
  PROVE  ConfigInv'
<1>1. \A q \in Req \ {r} : th'[q].pc = th[q].pc
  BY StepFrame
<1>2. /\ th[r].pc \notin Seeding
      /\ th'[r].pc \notin {"install", "installing", "jq", "mv"}
      /\ th'[r].pc = "config" => Managed
      /\ th'[r].pc \in Configured => th[r].pc \in Configured \/ ~Managed
  BY OutsideSeeding
<1>3. config' = config \/ (th[r].pc \in Configured /\ config' = [data |-> "other", by |-> None])
  BY OutsideSeeding DEF Save, Configured
<1>4. cut' = cut /\ (raced => raced')
  BY StepKeeps
<1>5. \A q \in Req : th'[q].pc = "mv" => th[q].pc = "mv" /\ th'[q].jq = th[q].jq
  BY <1>1, <1>2, JqOfOthers
<1>6. \A q \in Req : Installing(q)' => Installing(q) /\ q # r /\ th'[q].pc = th[q].pc
  BY <1>1, <1>2 DEF Installing
<1>7. Managed \in BOOLEAN
  BY LaunchAssumption
<1>8. (Managed => \A q \in Req : th[q].pc \in Configured => config.data # "absent")'
  BY <1>1, <1>2, <1>3 DEF ConfigInv
<1>9. (\A q \in Req : /\ th[q].pc \in Seeding => Managed
                      /\ th[q].pc = "mv" => th[q].jq # "absent")'
  BY <1>1, <1>2, <1>5 DEF ConfigInv, Seeding
<1>10. ASSUME ~raced'
       PROVE  (/\ \A q \in Req : th[q].pc = "install" => config.data = "absent"
               /\ \A q \in Req : th[q].pc = "installing" => config = [data |-> "empty", by |-> q]
               /\ \A p, q \in Req : Installing(q) /\ p # q =>
                    ~Installing(p) /\ th[p].pc \notin Configured)'
  <2>1. ASSUME NEW q \in Req, Installing(q)'
        PROVE  Installing(q) /\ q # r /\ th'[q].pc = th[q].pc /\ th[r].pc \notin Configured
               /\ config' = config
    BY <1>3, <1>4, <1>6, <1>10, <2>1 DEF ConfigInv
  <2>2. ASSUME NEW q \in Req, Installing(q)' PROVE Managed
    BY <2>1, <2>2 DEF ConfigInv, Installing, Seeding
  <2>3. \A q \in Req : /\ th'[q].pc = "install" => config'.data = "absent"
                       /\ th'[q].pc = "installing" => config' = [data |-> "empty", by |-> q]
    BY <1>4, <1>10, <2>1 DEF ConfigInv, Installing
  <2>4. ASSUME NEW p \in Req, NEW q \in Req, Installing(q)', p # q
        PROVE  ~Installing(p)' /\ th'[p].pc \notin Configured
    <3>1. Installing(q) /\ ~Installing(p) /\ th[p].pc \notin Configured
      BY <1>4, <1>10, <2>1, <2>4 DEF ConfigInv
    <3>2. QED
      BY <1>1, <1>2, <1>6, <2>2, <2>4, <3>1
  <2>5. QED
    BY <2>3, <2>4 DEF Installing
<1>11. ASSUME ~raced', ~cut'
       PROVE  (/\ config.data = "empty" => \E q \in Req : th[q].pc = "installing"
               /\ \A q \in Req : th[q].pc = "mv" => th[q].jq = "seed")'
  <2>1. config'.data = "empty" => config.data = "empty"
    BY <1>3
  <2>2. \A q \in Req : th[q].pc = "installing" => th'[q].pc = "installing"
    BY <1>1, <1>2 DEF Seeding
  <2>3. QED
    BY <1>4, <1>5, <1>11, <2>1, <2>2 DEF ConfigInv
<1>12. QED
  BY <1>8, <1>9, <1>10, <1>11 DEF ConfigInv, Installing
LEMMA ConfigSeeding ==
  ASSUME LaunchTypeOK, ConfigInv, NEW r \in Req, Step(r), Seed(r)
  PROVE  ConfigInv'
<1> USE Arrives, Afterwards
<1>0. /\ th[r] \in Thread /\ th \in [Req -> Thread]
      /\ config \in [data : Content, by : Req \cup {None}]
      /\ Managed /\ th[r].pc \in Seeding
  BY DEF LaunchTypeOK, ConfigInv, Seed, TestConfig, InstallBegin, InstallEnd, Jq, Mv, Seeding
<1>1. \A q \in Req \ {r} : th'[q].pc = th[q].pc /\ th'[q].jq = th[q].jq
  BY StepFrame
<1>2. cut' = cut /\ (raced => raced')
  BY StepKeeps
<1>3. CASE TestConfig(r)
  <2>1. /\ config' = config /\ th[r].pc = "config"
        /\ th'[r].pc = IF config.data = "absent" THEN "install" ELSE "jq"
        /\ ~raced' /\ config.data \in {"absent", "empty"} =>
             \A q \in Req \ {r} : th[q].pc \notin {"install", "installing", "jq", "mv"}
    BY <1>3 DEF TestConfig, Keep, files, Enter, Seeding
  <2>2. CASE config.data = "absent"
    BY <1>0, <1>1, <1>2, <2>1, <2>2 DEF ConfigInv, Installing, Configured, Seeding
  <2>3. CASE config.data # "absent"
    <3>1. ~raced' => \A q \in Req \ {r} : ~Installing(q)
      BY <1>2, <2>1, <2>3 DEF ConfigInv, Installing
    <3>2. QED
      BY <1>0, <1>1, <1>2, <2>1, <2>3, <3>1 DEF ConfigInv, Installing, Configured, Seeding
  <2>4. QED
    BY <2>2, <2>3
<1>4. CASE InstallBegin(r)
  <2>1. /\ th[r].pc = "install" /\ th'[r].pc = "installing"
        /\ config' = [data |-> "empty", by |-> r]
    BY <1>4 DEF InstallBegin
  <2>2. ~raced' => \A q \in Req \ {r} : ~Installing(q) /\ th[q].pc \notin Configured
    BY <1>2, <2>1 DEF ConfigInv, Installing
  <2>3. QED
    BY <1>0, <1>1, <1>2, <2>1, <2>2 DEF ConfigInv, Installing, Configured, Seeding
<1>5. CASE InstallEnd(r)
  <2>1. /\ th[r].pc = "installing" /\ th'[r].pc \in {"idle", "open", "publish", "start"}
        /\ config' = IF config.by = r THEN [data |-> "seed", by |-> None] ELSE config
    BY <1>5 DEF InstallEnd
  <2>2. ~raced' => /\ \A q \in Req \ {r} : ~Installing(q) /\ th[q].pc \notin Configured
                   /\ config' = [data |-> "seed", by |-> None]
    BY <1>2, <2>1 DEF ConfigInv, Installing
  <2>3. config'.data # "absent"
    BY <1>0, <2>1 DEF ConfigInv, Configured
  <2>4. QED
    BY <1>0, <1>1, <1>2, <2>1, <2>2, <2>3 DEF ConfigInv, Installing, Configured, Seeding
<1>6. CASE Jq(r)
  <2>1. /\ th[r].pc = "jq" /\ th'[r].pc = "mv" /\ config' = config
        /\ th'[r].jq = IF config.data = "empty" THEN "empty" ELSE "seed"
    BY <1>0, <1>6 DEF Jq, Keep, files, Thread
  <2>2. ~raced' => \A q \in Req : ~Installing(q)
    BY <1>2, <2>1 DEF ConfigInv, Installing, Configured
  <2>3. ~raced' /\ ~cut' => config.data # "empty"
    BY <1>2, <2>2 DEF ConfigInv, Installing
  <2>4. QED
    BY <1>0, <1>1, <1>2, <2>1, <2>2, <2>3 DEF ConfigInv, Installing, Configured, Seeding
<1>7. CASE Mv(r)
  <2>1. /\ th[r].pc = "mv" /\ th'[r].pc \in {"idle", "open", "publish", "start"}
        /\ config' = [data |-> th[r].jq, by |-> None] /\ th[r].jq # "absent"
    BY <1>7 DEF Mv, ConfigInv
  <2>2. ~raced' => \A q \in Req : ~Installing(q)
    BY <1>2, <2>1 DEF ConfigInv, Installing, Configured
  <2>3. ~raced' /\ ~cut' => th[r].jq = "seed"
    BY <1>2, <2>1 DEF ConfigInv
  <2>4. QED
    BY <1>0, <1>1, <1>2, <2>1, <2>2, <2>3 DEF ConfigInv, Installing, Configured, Seeding
<1>8. QED
  BY <1>3, <1>4, <1>5, <1>6, <1>7 DEF Seed

LEMMA ConfigStep ==
  ASSUME LaunchTypeOK, ConfigInv, NEW r \in Req, Step(r)
  PROVE  ConfigInv'
BY ConfigOutside, ConfigSeeding DEF Step

(***************************************************************************)
(* The policy files and the manifest.                                      *)
(***************************************************************************)
LEMMA PolicyFileStep ==
  ASSUME LaunchTypeOK, PolicyFileInv, NEW r \in Req, Step(r)
  PROVE  PolicyFileInv'
<1> USE Arrives, Afterwards
<1>0. /\ th[r] \in Thread /\ th \in [Req -> Thread] /\ policy \in [Policies -> Policies \cup {None}]
      /\ None \notin Policies
  BY LaunchAssumption DEF LaunchTypeOK
<1>1. \A q \in Req \ {r} : /\ th'[q].pc = th[q].pc /\ th'[q].policy = th[q].policy
                           /\ th'[q].sees = th[q].sees
  BY StepFrame
<1>2. CASE Publish(r)
  <2>1. /\ th[r].pc = "publish" /\ th'[r].pc = "start" /\ th'[r].policy = th[r].policy
        /\ policy' = [policy EXCEPT ![th[r].policy] = th[r].policy]
        /\ th[r].policy \in Policies
    BY <1>0, <1>2 DEF Publish, Go, PolicyName, PolicyFileInv, Thread
  <2>2. QED
    BY <1>0, <1>1, <2>1 DEF PolicyFileInv
<1>3. CASE Start(r)
  <2>1. /\ th[r].pc = "start" /\ th'[r].pc = "running" /\ th'[r].policy = th[r].policy
        /\ th'[r].sees = IF th[r].policy = None THEN None ELSE policy[th[r].policy]
        /\ policy' = policy
    BY <1>0, <1>3 DEF Start, PolicyName, Keep, files, Thread
  <2>2. QED
    BY <1>0, <1>1, <2>1 DEF PolicyFileInv
<1>4. CASE InstallEnd(r) \/ Mv(r) \/ OwnerProbe(r) \/ AdjustEnd(r)
  <2>1. policy' = policy /\ th'[r].policy = th[r].policy
    BY <1>0, <1>4 DEF InstallEnd, Mv, OwnerProbe, AdjustEnd, Go, Advance, Keep, files, Thread
  <2>2. th'[r].pc \in {"owner", "adjust", "idle", AfterSeeding(r), AfterOwners(r)}
    BY <1>4 DEF InstallEnd, Mv, OwnerProbe, AdjustEnd
  <2>3. th'[r].pc = "publish" => th[r].policy # None
    BY <2>2 DEF AfterOwners
  <2>4. th'[r].pc = "start" => th[r].policy = None
    BY <2>2 DEF AfterOwners
  <2>5. QED
    BY <1>0, <1>1, <2>1, <2>2, <2>3, <2>4 DEF PolicyFileInv
<1>5. CASE Save(r)
  BY <1>5 DEF Save, Keep, files, PolicyFileInv
<1>6. CASE th'[r].pc \notin {"publish", "start", "running"} /\ policy' = policy
  BY <1>0, <1>1, <1>6 DEF PolicyFileInv
<1>7. CASE Request(r)
  <2>1. th'[r].pc = "exists" /\ policy' = policy
    BY <1>0, <1>7 DEF Request, Keep, files, Idle
  <2>2. QED
    BY <1>6, <2>1
<1>8. CASE Exists(r) \/ Create(r) \/ Probe(r) \/ TestMarker(r)
  <2>1. th'[r].pc \in {"exists", "probe", "create", "failed", "owner", "marker", "find", "idle"}
    BY <1>0, <1>8 DEF Exists, Create, Probe, TestMarker, Thread
  <2>2. policy' = policy
    BY <1>8 DEF Exists, Create, Probe, TestMarker, Keep, files
  <2>3. QED
    BY <1>6, <2>1, <2>2
<1>9. CASE FindFiles(r) \/ CopyBegin(r) \/ CopyEnd(r) \/ Mark(r) \/ MigrationDenied(r) \/ AdjustBegin(r)
  <2>1. th'[r].pc \in {"failed", "copy", "copying", "mark", "marker", "owner", "adjusting", "idle"}
    BY <1>9 DEF FindFiles, CopyBegin, CopyEnd, Mark, MigrationDenied, AdjustBegin
  <2>2. policy' = policy
    BY <1>9 DEF FindFiles, CopyBegin, CopyEnd, Mark, MigrationDenied, AdjustBegin, Keep, files
  <2>3. QED
    BY <1>6, <2>1, <2>2
<1>10. CASE TestConfig(r) \/ InstallBegin(r) \/ Jq(r)
  <2>1. th'[r].pc \in {"install", "installing", "jq", "mv"}
    BY <1>0, <1>10 DEF TestConfig, InstallBegin, Jq, Thread
  <2>2. policy' = policy
    BY <1>10 DEF TestConfig, InstallBegin, Jq, Keep, files
  <2>3. QED
    BY <1>6, <2>1, <2>2
<1>11. CASE Finish(r) \/ Build(r)
  <2>1. th'[r].pc \in {"idle", "write", "replace", "failed"}
    BY <1>0, <1>11 DEF Finish, Build, OpenTmp, WriteTmp, Replace, ReplaceFails, Idle, Thread
  <2>2. policy' = policy
    BY <1>11 DEF Finish, Build, OpenTmp, WriteTmp, Replace, ReplaceFails, Keep, files
  <2>3. QED
    BY <1>6, <2>1, <2>2
<1>12. QED
  BY <1>2, <1>3, <1>4, <1>5, <1>7, <1>8, <1>9, <1>10, <1>11 DEF Step, Prepare, Seed, Contain
\* The steps outside the build manifest.
LEMMA OutsideBuild ==
  ASSUME LaunchTypeOK, NEW r \in Req, Request(r) \/ Prepare(r) \/ Seed(r) \/ Contain(r)
  PROVE  /\ UNCHANGED <<tmp, manifest>>
         /\ th[r].pc \notin Writing /\ th'[r].pc \notin Writing
         /\ th'[r].fd \in {th[r].fd, "none"}
         /\ \A q \in Req \ {r} : th'[q].fd = th[q].fd
<1> USE Arrives, Afterwards DEF Writing
<1>0. th[r] \in Thread /\ th \in [Req -> Thread]
  BY DEF LaunchTypeOK
<1>a. ASSUME NEW stage, Go(r, stage) PROVE th'[r].fd = th[r].fd /\ \A q \in Req \ {r} : th'[q] = th[q]
  BY <1>0, <1>a DEF Go, Thread
<1>b. ASSUME NEW loop, NEW after, Advance(r, loop, after)
      PROVE th'[r].fd = th[r].fd /\ \A q \in Req \ {r} : th'[q] = th[q]
  BY <1>0, <1>b DEF Advance, Thread
<1>1. CASE Request(r)
  <2>1. /\ UNCHANGED <<tmp, manifest>> /\ th[r].pc = "idle" /\ th'[r].pc = "exists"
        /\ th'[r].fd = "none" /\ \A q \in Req \ {r} : th'[q] = th[q]
    BY <1>0, <1>1 DEF Request, Keep, files, Idle
  <2>2. QED
    BY <2>1
<1>2. CASE Exists(r) \/ Create(r) \/ TestMarker(r) \/ OwnerProbe(r) \/ AdjustEnd(r)
  BY <1>2, <1>a, <1>b DEF Exists, Create, TestMarker, OwnerProbe, AdjustEnd, Keep, files
<1>3. CASE Probe(r)
  <2>1. CASE vol[At(r)].marker
    BY <1>3, <1>b, <2>1 DEF Probe, Keep, files
  <2>2. CASE ~vol[At(r)].marker
    BY <1>0, <1>3, <2>2 DEF Probe, Keep, files, Thread
  <2>3. QED
    BY <2>1, <2>2
<1>4. CASE FindFiles(r) \/ CopyBegin(r) \/ CopyEnd(r) \/ Mark(r) \/ MigrationDenied(r) \/ AdjustBegin(r)
  BY <1>4, <1>a, <1>b
     DEF FindFiles, CopyBegin, CopyEnd, Mark, MigrationDenied, AdjustBegin, Keep, files
<1>5. CASE TestConfig(r) \/ InstallBegin(r) \/ InstallEnd(r) \/ Mv(r) \/ Publish(r)
  BY <1>5, <1>a DEF TestConfig, InstallBegin, InstallEnd, Mv, Publish, Keep, files
<1>6. CASE Jq(r) \/ Start(r)
  BY <1>0, <1>6 DEF Jq, Start, Keep, files, Thread
<1>7. CASE Save(r) \/ Finish(r)
  BY <1>0, <1>7 DEF Save, Finish, Keep, files, Idle, Thread
<1>8. QED
  BY <1>1, <1>2, <1>3, <1>4, <1>5, <1>6, <1>7 DEF Prepare, Seed, Contain

LEMMA ManifestOutside ==
  ASSUME LaunchTypeOK, ManifestInv, NEW r \in Req, Step(r),
         Request(r) \/ Prepare(r) \/ Seed(r) \/ Contain(r)
  PROVE  ManifestInv'
<1>1. \A q \in Req \ {r} : th'[q].pc = th[q].pc /\ th'[q].fd = th[q].fd
  BY StepFrame, OutsideBuild
<1>2. /\ UNCHANGED <<tmp, manifest, crashes>> /\ (raced => raced')
      /\ th[r].pc \notin Writing /\ th'[r].pc \notin Writing /\ th[r].fd = "none" /\ th'[r].fd = "none"
  BY OutsideBuild, StepKeeps DEF ManifestInv, Writing
<1>3. QED
  BY <1>1, <1>2 DEF ManifestInv, ManifestWhole, Alone, Writing

LEMMA ManifestBuild ==
  ASSUME LaunchTypeOK, ManifestInv, NEW r \in Req, Step(r), Build(r)
  PROVE  ManifestInv'
<1> USE Arrives
<1>0. /\ th[r] \in Thread /\ th \in [Req -> Thread] /\ \A q \in Req : th[q] \in Thread
  BY DEF LaunchTypeOK
<1>1. \A q \in Req \ {r} : th'[q].pc = th[q].pc
  BY StepFrame
<1>2. crashes' = crashes /\ (raced => raced')
  BY StepKeeps
<1>3. CASE OpenTmp(r)
  <2>1. /\ th[r].pc = "open" /\ th'[r].pc = "write" /\ th'[r].fd = "tmp" /\ tmp' = "torn"
        /\ manifest' = manifest /\ \A q \in Req \ {r} : th'[q].fd = th[q].fd
        /\ ~raced' => \A q \in Req \ {r} : th[q].pc \notin Writing
    BY <1>0, <1>3 DEF OpenTmp, Enter, Keep, Thread, Writing
  <2>2. th[r].fd = "none"
    BY <2>1 DEF ManifestInv
  <2>3. QED
    BY <1>1, <1>2, <2>1, <2>2 DEF ManifestInv, ManifestWhole, Alone, Writing
<1>4. CASE WriteTmp(r)
  <2>1. /\ th[r].pc = "write" /\ th'[r].pc = "replace" /\ th'[r].fd = "none"
        /\ tmp' = IF th[r].fd = "tmp" THEN "whole" ELSE tmp
        /\ manifest' = IF th[r].fd = "manifest" THEN "whole" ELSE manifest
        /\ \A q \in Req \ {r} : th'[q].fd = th[q].fd
    BY <1>0, <1>4 DEF WriteTmp, Thread
  <2>2. ~raced' => th[r].fd = "tmp" /\ \A q \in Req \ {r} : th[q].pc \notin Writing
    BY <1>2, <2>1 DEF ManifestInv, Alone, Writing
  <2>3. QED
    BY <1>1, <1>2, <2>1, <2>2 DEF ManifestInv, ManifestWhole, Alone, Writing
<1>5. CASE Replace(r)
  <2>1. /\ th[r].pc = "replace" /\ th'[r].pc = "idle" /\ th'[r].fd = "none"
        /\ manifest' = tmp /\ tmp' = "absent"
    BY <1>0, <1>5 DEF Replace, Idle
  <2>2. \A q \in Req \ {r} : th'[q].fd = IF th[q].fd = "tmp" THEN "manifest" ELSE "none"
    BY <1>0, <1>5 DEF Replace, Thread
  <2>3. th[r].fd = "none"
    BY <2>1 DEF ManifestInv
  <2>4. ~raced' => \A q \in Req \ {r} : th[q].pc \notin Writing
    BY <1>2, <2>1 DEF ManifestInv, Alone, Writing
  <2>5. ManifestWhole'
    <3> SUFFICES ASSUME tmp = "torn"
                 PROVE  raced' /\ \E q \in Req : th'[q].fd = "manifest"
      BY <2>1 DEF ManifestWhole
    <3>1. PICK q \in Req : th[q].fd = "tmp"
      BY DEF ManifestInv
    <3>2. q # r /\ th[q].pc = "write"
      BY <2>3, <3>1 DEF ManifestInv
    <3>3. QED
      BY <2>2, <2>4, <3>1, <3>2 DEF Writing
  <2>6. (\A q \in Req : th[q].fd # "none" => th[q].pc = "write")'
    BY <1>1, <2>1, <2>2 DEF ManifestInv
  <2>7. ~raced' => \A q \in Req : th'[q].pc \notin Writing
    BY <1>1, <2>1, <2>4 DEF Writing
  <2>8. QED
    BY <2>1, <2>5, <2>6, <2>7 DEF ManifestInv, Alone, Writing
<1>6. CASE ReplaceFails(r)
  <2>1. /\ th[r].pc = "replace" /\ th'[r].pc = "failed" /\ th'[r].fd = th[r].fd
        /\ UNCHANGED <<tmp, manifest>> /\ \A q \in Req \ {r} : th'[q].fd = th[q].fd
    BY <1>0, <1>6 DEF ReplaceFails, Go, Keep, files, Thread
  <2>2. th[r].fd = "none"
    BY <2>1 DEF ManifestInv
  <2>3. QED
    BY <1>1, <1>2, <2>1, <2>2 DEF ManifestInv, ManifestWhole, Alone, Writing
<1>7. QED
  BY <1>3, <1>4, <1>5, <1>6 DEF Build

LEMMA ManifestStep ==
  ASSUME LaunchTypeOK, ManifestInv, NEW r \in Req, Step(r)
  PROVE  ManifestInv'
BY ManifestOutside, ManifestBuild DEF Step
(***************************************************************************)
(* Failures, crashes and the theorems.                                     *)
(***************************************************************************)
LEMMA FailStep ==
  ASSUME LInv, NEW r \in Req, Step(r)
  PROVE  NoFalseAlarm'
<1> USE Arrives, Afterwards DEF LInv
<1>0. /\ th[r] \in Thread /\ th \in [Req -> Thread] /\ At(r) \in Volume
      /\ vol[At(r)] \in VolumeState
  BY Position DEF LaunchTypeOK
<1>1. cut' = cut /\ (raced => raced')
  BY StepKeeps
<1>2. \A q \in Req \ {r} : th'[q].pc = th[q].pc
  BY StepFrame
<1>3. ASSUME th'[r].pc = "failed", ~raced', ~cut' PROVE FALSE
  <2>1. ~raced /\ ~cut /\ Alone(Migration) /\ Migrates(r) /\ CopyHasOwner /\ CreatesMissing
    BY <1>1, <1>3 DEF VolumeInv
  <2>2. CASE Create(r)
    BY <1>3, <2>1, <2>2 DEF Create, CreatesMissing
  <2>3. CASE FindFiles(r)
    <3>1. th[r].pc = "find" /\ Nonempty(At(r)) /\ ~vol[At(r)].marker
      BY <1>3, <2>1, <2>3 DEF FindFiles, Migrates
    <3>2. vol[At(r)].owner = "root"
      BY <1>0, <3>1 DEF VolumeInv, OwnedIsMarked
    <3>3. vol[At(r)].copied # "none"
      BY <3>1, <3>2 DEF Nonempty
    <3>4. PICK q \in Req : th[q].pc \in {"copying", "mark"}
      BY <1>0, <2>1, <3>1, <3>3 DEF CopyHasOwner
    <3>5. QED
      BY <2>1, <3>1, <3>4 DEF Alone, Migration
  <2>4. CASE MigrationDenied(r)
    <3>1. vol[At(r)].owner # "root" /\ ~vol[At(r)].marker
      BY <2>1, <2>4 DEF MigrationDenied, Writable, Migrates
    <3>2. QED
      BY <1>0, <3>1 DEF VolumeInv, OwnedIsMarked
  <2>5. CASE ReplaceFails(r)
    BY <2>1, <2>5 DEF ReplaceFails, ManifestInv
  <2>6. CASE Exists(r) \/ Probe(r) \/ TestMarker(r) \/ OwnerProbe(r) \/ AdjustBegin(r) \/ AdjustEnd(r)
    <3>1. th'[r].pc \in {"exists", "probe", "create", "owner", "marker", "find", "adjust",
                         "adjusting", "idle", AfterOwners(r)}
      BY <1>0, <2>6 DEF Exists, Probe, TestMarker, OwnerProbe, AdjustBegin, AdjustEnd, Thread
    <3>2. QED
      BY <1>3, <3>1
  <2>7. CASE CopyBegin(r) \/ CopyEnd(r) \/ Mark(r)
    BY <1>3, <2>7 DEF CopyBegin, CopyEnd, Mark
  <2>8. CASE Request(r) \/ Publish(r) \/ Start(r) \/ Finish(r)
    <3>1. Request(r) => th'[r].pc = "exists"
      BY <1>0 DEF Request, Idle
    <3>2. ~Request(r) => th'[r].pc \in {"start", "running", "idle"}
      BY <1>0, <2>8 DEF Publish, Start, Finish, Idle, Thread
    <3>3. QED
      BY <1>3, <3>1, <3>2
  <2>9. CASE Save(r)
    BY <1>3, <2>9 DEF Save
  <2>10. CASE Seed(r)
    <3>1. th'[r].pc \in {"install", "installing", "jq", "mv", "idle", AfterSeeding(r)}
      BY <1>0, <2>10 DEF Seed, TestConfig, InstallBegin, InstallEnd, Jq, Mv, Thread
    <3>2. QED
      BY <1>3, <3>1
  <2>11. CASE OpenTmp(r) \/ WriteTmp(r) \/ Replace(r)
    <3>1. th'[r].pc \in {"write", "replace", "idle"}
      BY <1>0, <2>11 DEF OpenTmp, WriteTmp, Replace, Idle, Thread
    <3>2. QED
      BY <1>3, <3>1
  <2>12. QED
    BY <2>2, <2>3, <2>4, <2>5, <2>6, <2>7, <2>8, <2>9, <2>10, <2>11
       DEF Step, Prepare, Contain, Build
<1>4. QED
  BY <1>1, <1>2, <1>3 DEF NoFalseAlarm

\* A crash leaves containers where they were, and no thread anywhere else; what it cut
\* short is noticed.
LEMMA CrashStep == ASSUME LInv, Crash PROVE LInv'
<1>1. /\ UNCHANGED <<legacy, vol, policy, manifest, raced>> /\ tmp' = "absent"
      /\ config'.data = config.data /\ (cut => cut') /\ crashes' > 0
  BY Survivors, LaunchAssumption DEF Crash, LInv, LaunchTypeOK
<1>2. Idle.pc = "idle" /\ Idle.fd = "none"
  BY DEF Idle
<1>3. \A r \in Req :
        \/ th'[r].pc = "idle" /\ th'[r].fd = "none" /\ (~cut' => ~HalfDone(r)) /\ config'.by # r
        \/ /\ th[r].pc \in Survivable /\ th'[r].pc = th[r].pc /\ th'[r].at = th[r].at
           /\ th'[r].policy = th[r].policy /\ th'[r].sees = th[r].sees /\ th'[r].jq = th[r].jq
           /\ th'[r].fd = th[r].fd /\ (config.by = r => config'.by = r)
  <2>1. \A r \in Req : th[r] \in Thread
    BY DEF LInv, LaunchTypeOK
  <2>2. \A x \in Thread : LET y == [x EXCEPT !.op = "none"]
                         IN  /\ y.pc = x.pc /\ y.at = x.at /\ y.policy = x.policy
                             /\ y.sees = x.sees /\ y.jq = x.jq /\ y.fd = x.fd
    BY DEF Thread
  <2>3. ASSUME NEW r \in Req, th'[r] = [th[r] EXCEPT !.op = "none"]
        PROVE  /\ th'[r].pc = th[r].pc /\ th'[r].at = th[r].at /\ th'[r].policy = th[r].policy
               /\ th'[r].sees = th[r].sees /\ th'[r].jq = th[r].jq /\ th'[r].fd = th[r].fd
    BY <2>1, <2>2, <2>3
  <2>4. ASSUME NEW r \in Req, th'[r] = Idle PROVE th'[r].pc = "idle" /\ th'[r].fd = "none"
    BY <1>2, <2>4
  <2>5. LaunchTypeOK
    BY DEF LInv
  <2>6. QED
    BY <2>3, <2>4, <2>5, Survivors
<1>4. \A r \in Req : th'[r].pc # "idle" =>
        /\ th'[r].pc = th[r].pc /\ th'[r].at = th[r].at /\ At(r)' = At(r)
        /\ th[r].pc \in Survivable
  BY <1>3 DEF At
<1>5. LaunchTypeOK'
  BY TypeCrash DEF LInv
<1>6. VolumeInv'
  <2>1. ~raced' /\ ~cut' => CopyHasOwner'
    <3> SUFFICES ASSUME ~raced', ~cut', NEW v \in Volume, vol[v].copied # "none", ~vol[v].marker
                 PROVE  \E r \in Req : th'[r].pc \in {"copying", "mark"} /\ At(r)' = v
      BY <1>1 DEF CopyHasOwner
    <3>1. PICK r \in Req : th[r].pc \in {"copying", "mark"} /\ At(r) = v
      BY <1>1 DEF LInv, VolumeInv, CopyHasOwner
    <3>2. HalfDone(r)
      BY <3>1 DEF HalfDone
    <3>3. QED
      BY <1>3, <3>1, <3>2 DEF At
  <2>2. OwnedIsMarked' /\ (~raced' => MarkedIsCopied')
    BY <1>1 DEF LInv, VolumeInv, OwnedIsMarked, MarkedIsCopied
  <2>3. ASSUME NEW r \in Req PROVE Progress(r)'
    <3>1. CASE th'[r].pc = "idle"
      BY <3>1 DEF Progress, Migration, Late
    <3>2. CASE th'[r].pc # "idle"
      BY <1>1, <1>4, <3>2 DEF Progress, LInv, VolumeInv
    <3>3. QED
      BY <3>1, <3>2
  <2>4. ~raced' => (Alone(Migration) /\ (\A r \in Req : Migrates(r)) /\ CreatesMissing)'
    <3>1. ASSUME NEW r \in Req, ~raced' PROVE Migrates(r)'
      BY <1>1, <1>4, <3>1 DEF Migrates, LInv, VolumeInv
    <3>2. CreatesMissing'
      BY <1>4 DEF CreatesMissing, Survivable, Migration, Seeding
    <3>3. ~raced' => Alone(Migration)'
      BY <1>1, <1>4 DEF Alone, Migration, LInv, VolumeInv
    <3>4. QED
      BY <3>1, <3>2, <3>3
  <2>5. QED
    BY <2>1, <2>2, <2>3, <2>4 DEF VolumeInv
<1>7. ConfigInv'
  <2>1. ASSUME NEW r \in Req
        PROVE  /\ Managed /\ th'[r].pc \in Configured => config'.data # "absent"
               /\ th'[r].pc \in Seeding => Managed
               /\ th'[r].pc = "mv" => th'[r].jq # "absent"
    BY <1>1, <1>3 DEF LInv, ConfigInv, Configured, Seeding
  <2>2. ASSUME ~raced'
        PROVE  (/\ \A r \in Req : th[r].pc = "install" => config.data = "absent"
                /\ \A r \in Req : th[r].pc = "installing" => config = [data |-> "empty", by |-> r]
                /\ \A q, r \in Req : Installing(r) /\ q # r =>
                     ~Installing(q) /\ th[q].pc \notin Configured)'
    <3>1. ASSUME NEW r \in Req, th'[r].pc = "installing"
          PROVE  config' = [data |-> "empty", by |-> r]
      <4>1. config = [data |-> "empty", by |-> r] /\ config'.by = r
        BY <1>1, <1>3, <2>2, <3>1 DEF LInv, ConfigInv
      <4>2. QED
        BY <1>1, <1>5, <4>1 DEF LaunchTypeOK
    <3>2. \A r \in Req : th'[r].pc = "install" => config'.data = "absent"
      BY <1>1, <1>4, <2>2 DEF LInv, ConfigInv
    <3>3. \A q, r \in Req : Installing(r)' /\ q # r =>
            ~Installing(q)' /\ th'[q].pc \notin Configured
      BY <1>1, <1>4, <2>2 DEF LInv, ConfigInv, Installing, Configured
    <3>4. QED
      BY <3>1, <3>2, <3>3
  <2>3. ASSUME ~raced', ~cut'
        PROVE  (/\ config.data = "empty" => \E r \in Req : th[r].pc = "installing"
                /\ \A r \in Req : th[r].pc = "mv" => th[r].jq = "seed")'
    <3>1. ASSUME config'.data = "empty" PROVE \E r \in Req : th'[r].pc = "installing"
      <4>1. PICK r \in Req : th[r].pc = "installing"
        BY <1>1, <2>3, <3>1 DEF LInv, ConfigInv
      <4>2. QED
        BY <1>3, <2>3, <4>1 DEF HalfDone
    <3>2. \A r \in Req : th'[r].pc = "mv" => th'[r].jq = "seed"
      BY <1>1, <1>3, <2>3 DEF LInv, ConfigInv
    <3>3. QED
      BY <3>1, <3>2
  <2>4. QED
    BY <2>1, <2>2, <2>3 DEF ConfigInv, Installing
<1>8. PolicyFileInv'
  BY <1>1, <1>3 DEF LInv, PolicyFileInv
<1>9. ManifestInv'
  <2>1. manifest' = "torn" => raced'
    BY <1>1 DEF LInv, ManifestInv, ManifestWhole
  <2>2. \A r \in Req : th'[r].pc \notin Writing /\ th'[r].fd = "none"
    <3>1. \A r \in Req : th[r].pc \in Survivable => th[r].fd = "none" /\ th[r].pc \notin Writing
      BY DEF LInv, ManifestInv, Survivable, Migration, Seeding, Writing
    <3>2. QED
      BY <1>3, <3>1 DEF Writing
  <2>3. QED
    BY <1>1, <2>1, <2>2 DEF ManifestInv, ManifestWhole, Alone, Writing
<1>10. NoFalseAlarm'
  BY <1>4 DEF NoFalseAlarm, Survivable, Migration, Seeding
<1>11. QED
  BY <1>5, <1>6, <1>7, <1>8, <1>9, <1>10 DEF LInv

LEMMA LaunchInit == Init => LInv
<1> SUFFICES ASSUME Init PROVE LInv
  OBVIOUS
<1>1. LaunchTypeOK
  BY TypeInit
<1>2. \A r \in Req : th[r].pc = "idle" /\ th[r].fd = "none"
  BY DEF Init, Idle
<1>3. \A v \in Volume : vol[v].copied = "none" /\ ~vol[v].marker /\ vol[v].owner = "root"
  BY DEF Init, Fresh
<1>4. VolumeInv
  BY <1>1, <1>2, <1>3
     DEF VolumeInv, OwnedIsMarked, Progress, MarkedIsCopied, Migrates, CopyHasOwner,
         CreatesMissing, Alone, Migration, Late, LaunchTypeOK
<1>5. ConfigInv /\ PolicyFileInv
  BY <1>2 DEF Init, ConfigInv, PolicyFileInv, Configured, Seeding, Installing
<1>6. ManifestInv /\ NoFalseAlarm
  BY <1>2 DEF Init, ManifestInv, ManifestWhole, NoFalseAlarm, Alone, Writing
<1>7. QED
  BY <1>1, <1>4, <1>5, <1>6 DEF LInv

LEMMA LaunchInvariant == Spec => []LInv
<1>1. LInv /\ [Next]_vars => LInv'
  <2> SUFFICES ASSUME LInv, [Next]_vars PROVE LInv'
    OBVIOUS
  <2>1. ASSUME NEW r \in Req, Step(r) PROVE LInv'
    BY <2>1, TypeStep, VolumeStep, ConfigStep, PolicyFileStep, ManifestStep, FailStep DEF LInv
  <2>2. CASE Crash
    BY <2>2, CrashStep
  <2>3. CASE UNCHANGED vars
    BY <2>3 DEF vars, LInv, LaunchTypeOK, VolumeInv, OwnedIsMarked, Progress, MarkedIsCopied,
                Migrates, CopyHasOwner, CreatesMissing, Alone, At, ConfigInv, Installing,
                PolicyFileInv, ManifestInv, ManifestWhole, NoFalseAlarm
  <2>4. QED
    BY <2>1, <2>2, <2>3 DEF Next, Step
<1>2. QED
  BY <1>1, LaunchInit, PTL DEF Spec

\* Volumes, files and threads keep their types.
THEOREM LaunchTypeCorrect == Spec => []LaunchTypeOK
BY LaunchInvariant, PTL DEF LInv

\* A provider container starts on prepared volumes only, and with a configuration, however
\* many requests prepare them at once, wherever preparations were cut short and whichever
\* containers of a dead agentd go on preparing (prepare_provider_state, seed_provider_home).
THEOREM ContainersFindPreparedState == Spec => []StartsPrepared
<1>1. LInv => StartsPrepared
  <2> SUFFICES ASSUME LInv, NEW r \in Req, th[r].pc = "running"
               PROVE  /\ \A v \in Volume : /\ vol[v].marker /\ vol[v].owner = "agent"
                                           /\ v \in legacy => vol[v].copied = "all" \/ raced
                      /\ Managed => /\ config.data # "absent"
                                    /\ config.data = "empty" => raced \/ cut
    BY DEF StartsPrepared, Running
  <2>1. \A v \in Volume : vol[v].marker /\ vol[v].owner = "agent"
    BY DEF LInv, VolumeInv, Progress, Late
  <2>2. \A v \in legacy : vol[v].copied = "all" \/ raced
    BY <2>1 DEF LInv, LaunchTypeOK, VolumeInv, MarkedIsCopied
  <2>3. Managed => config.data # "absent"
    BY DEF LInv, ConfigInv, Configured
  <2>4. Managed /\ config.data = "empty" => raced \/ cut
    BY DEF LInv, ConfigInv, Configured, Installing
  <2>5. QED
    BY <2>1, <2>2, <2>3, <2>4
<1>2. QED
  BY <1>1, LaunchInvariant, PTL

\* Preparing the volumes and the manifest fails only after two requests, or a request and a
\* container that outlived agentd, met in a script, or a copy died half done
\* (prepare_provider_state, write_json).
THEOREM PreparationIsRepeatable == Spec => []NoFalseAlarm
BY LaunchInvariant, PTL DEF LInv

\* A run's container sees the policy file compiled for that run: files are named by their
\* content, and no other run replaces them (materialize_generated_policy_files).
THEOREM PoliciesAreNotMixedUp == Spec => []RunMountsItsOwnPolicy
<1>1. LInv => RunMountsItsOwnPolicy
  BY DEF LInv, PolicyFileInv, RunMountsItsOwnPolicy, Running
<1>2. QED
  BY <1>1, LaunchInvariant, PTL

\* The manifest is read half written only after two builds shared the temporary file, and
\* only until the slower one is done or the host goes down (write_json).
THEOREM ManifestIsWhole == Spec => []ManifestWhole
BY LaunchInvariant, PTL DEF LInv, ManifestInv

(***************************************************************************)
(* Any number of requests, beside a provider that leaves the managed       *)
(* fields alone.                                                           *)
(***************************************************************************)
OnlySeeds == /\ config.data # "other"
             /\ \A r \in Req : th[r].pc = "mv" => th[r].jq # "other"

LEMMA OnlySeedsStep ==
  ASSUME "save" \notin Env, LaunchTypeOK, OnlySeeds, NEW r \in Req, Step(r)
  PROVE  OnlySeeds'
<1>1. config'.data # "other"
  <2>1. CASE Seed(r)
    BY <2>1 DEF Seed, TestConfig, InstallBegin, InstallEnd, Jq, Mv, Keep, files, OnlySeeds
  <2>2. CASE Request(r) \/ Prepare(r) \/ Contain(r) \/ Build(r)
    BY <2>2, OutsideSeeding DEF Save, OnlySeeds
  <2>3. QED
    BY <2>1, <2>2 DEF Step
<1>2. ASSUME NEW q \in Req, th'[q].pc = "mv" PROVE th'[q].jq # "other"
  <2>1. CASE th[q].pc = "mv"
    BY <1>2, <2>1, JqOfOthers DEF OnlySeeds
  <2>2. CASE th[q].pc # "mv"
    <3>1. q = r
      BY <1>2, <2>2, StepFrame
    <3>2. Seed(r)
      BY <1>2, <3>1, OutsideSeeding DEF Step
    <3>3. Jq(r)
      BY <1>2, <3>1, <3>2, <2>2, Arrives, Afterwards DEF Seed, TestConfig, InstallBegin, InstallEnd, Mv
    <3>4. QED
      BY <3>1, <3>3 DEF Jq, LaunchTypeOK, Thread
  <2>3. QED
    BY <2>1, <2>2
<1>3. QED
  BY <1>1, <1>2 DEF OnlySeeds

\* Whoever prepares beside a request, containers that outlived agentd included, its
\* container starts with the seed's managed fields unless two were in the seeding script at
\* once or an install died half done: what else could change them is the provider itself
\* (seed_provider_home).
THEOREM ReconciledBesideOthers ==
  ASSUME Managed = TRUE, "save" \notin Env
  PROVE  Spec => [][\A r \in Req : th[r].pc = "start" /\ th'[r].pc = "running" =>
                      config.data = "seed" \/ raced \/ cut]_vars
<1> DEFINE Seeded == \A r \in Req : th[r].pc = "start" /\ th'[r].pc = "running" =>
                       config.data = "seed" \/ raced \/ cut
<1>1. Init => OnlySeeds
  BY DEF Init, Idle, OnlySeeds
<1>2. LInv /\ OnlySeeds /\ [Next]_vars => OnlySeeds'
  <2> SUFFICES ASSUME LInv, OnlySeeds, [Next]_vars PROVE OnlySeeds'
    OBVIOUS
  <2>1. CASE Crash
    <3>1. LaunchTypeOK
      BY DEF LInv
    <3>2. \A r \in Req : th'[r].pc = "mv" => th[r].pc = "mv" /\ th'[r].jq = th[r].jq
      <4>1. ASSUME NEW r \in Req, th'[r] = [th[r] EXCEPT !.op = "none"]
            PROVE  th'[r].pc = th[r].pc /\ th'[r].jq = th[r].jq
        BY <3>1, <4>1 DEF LaunchTypeOK, Thread
      <4>2. Idle.pc # "mv"
        BY DEF Idle
      <4>3. QED
        BY <2>1, <3>1, <4>1, <4>2, Survivors
    <3>3. QED
      BY <2>1, <3>1, <3>2, Survivors DEF OnlySeeds
  <2>2. CASE UNCHANGED vars
    BY <2>2 DEF vars, OnlySeeds
  <2>3. QED
    BY <2>1, <2>2, OnlySeedsStep DEF Next, Step, LInv
<1>3. LInv /\ OnlySeeds => Seeded
  <2> SUFFICES ASSUME LInv, OnlySeeds, NEW r \in Req, th[r].pc = "start"
               PROVE  config.data = "seed" \/ raced \/ cut
    OBVIOUS
  <2>1. config.data \in Content /\ config.data # "absent"
    BY DEF LInv, LaunchTypeOK, ConfigInv, Configured
  <2>2. config.data = "empty" => raced \/ cut
    BY DEF LInv, ConfigInv, Configured, Installing
  <2>3. QED
    BY <2>1, <2>2 DEF OnlySeeds, Content
<1>4. QED
  BY <1>1, <1>2, <1>3, LaunchInvariant, PTL DEF Spec

(***************************************************************************)
(* Requests one at a time.                                                 *)
(***************************************************************************)
OneRequest == \A q, r \in Req : q = r

\* Nobody is met in a script, and unless a crash hit an install, what seed_provider_home
\* has put in place is there until the container starts.
Reconciled ==
  /\ ~raced
  /\ ~cut => \A r \in Req : th[r].pc \in {"publish", "start"} => config.data = "seed"

LEMMA RacesNeedTwo ==
  ASSUME OneRequest, NEW r \in Req, Step(r), ~raced
  PROVE  ~raced'
<1>1. ASSUME NEW script, Enter(r, script)
      PROVE  ~raced'
  BY <1>1 DEF OneRequest, Enter
<1>2. raced' = raced \/ \E script \in {{"create"}, Migration, Seeding \ {"config"}, {"write", "replace"}} :
                          Enter(r, script)
  BY DEF Step, Request, Prepare, Exists, Create, Probe, TestMarker, FindFiles, CopyBegin, CopyEnd,
         Mark, MigrationDenied, OwnerProbe, AdjustBegin, AdjustEnd, Seed, TestConfig, InstallBegin,
         InstallEnd, Jq, Mv, Contain, Publish, Start, Save, Finish, Build, OpenTmp, WriteTmp,
         Replace, ReplaceFails, Keep, files
<1>3. QED
  BY <1>1, <1>2

\* A managed configuration is the seed's when a thread leaves seed_provider_home.
LEMMA ReconciledStep ==
  ASSUME OneRequest, Managed = TRUE, LInv, Reconciled, NEW r \in Req, Step(r)
  PROVE  Reconciled'
<1> USE Arrives, Afterwards
<1>0. /\ LaunchTypeOK /\ ConfigInv /\ th[r] \in Thread /\ th \in [Req -> Thread]
      /\ ~raced /\ ~raced' /\ cut' = cut
  BY RacesNeedTwo, StepKeeps DEF LInv, LaunchTypeOK, Reconciled
<1>1. SUFFICES ASSUME ~cut, th'[r].pc \in {"publish", "start"}
               PROVE  config'.data = "seed"
  BY <1>0 DEF Reconciled, OneRequest
<1>2. CASE Request(r)
  BY <1>0, <1>1, <1>2 DEF Request, Idle
<1>3. CASE Prepare(r)
  <2>1. th[r].pc \in Configured
    BY <1>0, <1>1, <1>3, OutsideSeeding DEF Configured
  <2>2. th[r].pc \in {"exists", "create", "probe", "marker", "find", "copy", "copying", "mark",
                      "owner", "adjust", "adjusting"}
    BY <1>3 DEF Prepare, Exists, Create, Probe, TestMarker, FindFiles, CopyBegin, CopyEnd, Mark,
                MigrationDenied, OwnerProbe, AdjustBegin, AdjustEnd
  <2>3. QED
    BY <2>1, <2>2 DEF Configured
<1>4. CASE TestConfig(r) \/ InstallBegin(r) \/ Jq(r)
  BY <1>0, <1>1, <1>4 DEF TestConfig, InstallBegin, Jq, Thread
<1>5. CASE InstallEnd(r)
  <2>1. config = [data |-> "empty", by |-> r]
    BY <1>0, <1>5 DEF ConfigInv, InstallEnd
  <2>2. QED
    BY <1>5, <2>1 DEF InstallEnd
<1>6. CASE Mv(r)
  <2>1. th[r].jq = "seed"
    BY <1>0, <1>1, <1>6 DEF ConfigInv, Mv
  <2>2. QED
    BY <1>6, <2>1 DEF Mv
<1>7. CASE Publish(r)
  <2>1. th[r].pc = "publish" /\ config' = config
    BY <1>7 DEF Publish, Keep
  <2>2. QED
    BY <1>1, <2>1 DEF Reconciled
<1>8. CASE Start(r) \/ Save(r) \/ Finish(r)
  BY <1>0, <1>1, <1>8 DEF Start, Save, Finish, Idle, Thread
<1>9. CASE Build(r)
  BY <1>0, <1>1, <1>9 DEF Build, OpenTmp, WriteTmp, Replace, ReplaceFails, Idle, Thread
<1>10. QED
  BY <1>2, <1>3, <1>4, <1>5, <1>6, <1>7, <1>8, <1>9 DEF Step, Seed, Contain

LEMMA Reconciliation ==
  ASSUME OneRequest, Managed = TRUE, "crash" \notin Env \/ "survive" \notin Env
  PROVE  Spec => []Reconciled
<1>1. Init => Reconciled
  BY DEF Init, Idle, Reconciled
<1>2. LInv /\ Reconciled /\ [Next]_vars => Reconciled'
  <2> SUFFICES ASSUME LInv, Reconciled, [Next]_vars PROVE Reconciled'
    OBVIOUS
  <2>1. CASE Crash
    <3>1. raced' = raced /\ \A r \in Req : th'[r] = Idle
      BY <2>1 DEF Crash
    <3>2. QED
      BY <3>1 DEF Reconciled, Idle
  <2>2. CASE UNCHANGED vars
    BY <2>2 DEF vars, Reconciled
  <2>3. QED
    BY <2>1, <2>2, ReconciledStep DEF Next, Step
<1>3. QED
  BY <1>1, <1>2, LaunchInvariant, PTL DEF Spec

\* While the requests for a provider come one at a time, and no container of an agentd that
\* died works on beside them, every container starts with the seed's managed fields,
\* whatever the containers before it saved, unless the host went down inside an install or
\* a copy (seed_provider_home).
THEOREM ReconciledBeforeStart ==
  ASSUME OneRequest, Managed = TRUE, "survive" \notin Env
  PROVE  Spec => [][\A r \in Req : th[r].pc = "start" /\ th'[r].pc = "running" =>
                      config.data = "seed" \/ cut]_vars
<1> DEFINE Seeded == \A r \in Req : th[r].pc = "start" /\ th'[r].pc = "running" =>
                       config.data = "seed" \/ cut
<1>1. Reconciled => Seeded
  BY DEF Reconciled
<1>2. QED
  BY <1>1, Reconciliation, PTL DEF Spec

\* So what the documentation says of every start holds of requests one at a time while
\* agentd stays up.
THEOREM ManagedWhenAlone ==
  ASSUME OneRequest, Managed = TRUE, "crash" \notin Env PROVE Spec => ManagedAtStart
<1> DEFINE Seeded == \A r \in Req : th[r].pc = "start" /\ th'[r].pc = "running" =>
                       config.data = "seed"
<1>1. Init => ~cut
  BY DEF Init
<1>2. ~cut /\ [Next]_vars => ~cut'
  BY StepKeeps DEF Next, Step, Crash, vars
<1>3. ~cut /\ Reconciled => Seeded
  BY DEF Reconciled
<1>4. QED
  BY <1>1, <1>2, <1>3, Reconciliation, PTL DEF Spec, ManagedAtStart
=============================================================================
