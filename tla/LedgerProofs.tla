---------------------------- MODULE LedgerProofs ----------------------------
(***************************************************************************)
(* Proofs of what the documentation says of the task records, which needs  *)
(* requests to be issued one at a time: then the record a thread loaded    *)
(* before it had its lock is still the record on disk.  The main result is *)
(* that the life cycle, with its locks, Git steps, crashes and surviving   *)
(* containers, implements the ledger.                                      *)
(***************************************************************************)
EXTENDS TaskProofs

\* One thread serves all requests.
OneAtATime == \A q, r \in Req : q = r

Loading == {"complete", "merge", "abort", "run", "index"}

\* The request a thread serves agrees with the record on disk.
Agrees(q) ==
  /\ q.op \in Loading =>
       /\ q.task \in Task /\ q.rec.mode = meta[q.task].mode
       /\ q.rec.deps = meta[q.task].deps /\ q.rec.base = meta[q.task].base
  /\ q.op = "start"    => meta[q.task].status = "absent"
  /\ q.op = "complete" => meta[q.task].status = "active"
  /\ q.op = "merge"    => q.task \in PendingParallel /\ meta[q.task].status = "completed"
  /\ q.op = "abort"    => q.task \in PendingParallel
  /\ q.op = "run" /\ ~q.shared => meta[q.task].status = "active"
  /\ q.op = "sync"     => ActiveSequential = {} /\ PendingParallel = {}

\* What a start checked under its lock.
Checked(q) ==
  /\ ActiveSequential = {}
  /\ q.rec.mode = "integration" => PendingParallel = {}
  /\ \A d \in q.rec.deps : DependencyMet(d, q.rec.base)

Snapshot == \A r \in Req : Agrees(rq[r]) /\ (pc[r] = "write" /\ rq[r].op = "start" => Checked(rq[r]))

\* What a task was started on is settled.
DependenciesMet == \A t \in Task : \A d \in meta[t].deps : DependencyMet(d, meta[t].base)

OneInv == LockInv /\ Snapshot /\ ModesExclude /\ DependenciesMet

LEMMA BeginAgrees ==
  ASSUME TypeOK, NEW r \in Req, Begin(r)
  PROVE  Agrees(rq'[r])
<1> DEFINE Asks(q) == rq' = [rq EXCEPT ![r] = q]
<1>t. rq \in [Req -> Request] /\ \A t \in Task : meta[t] \in TaskRecord
  BY DEF TypeOK
<1>1. ASSUME NEW t \in Task, NEW mode \in {"integration", "parallel"}, NEW deps \in SUBSET Task,
             BeginStart(r, t, mode, deps)
      PROVE  Agrees(rq'[r])
  <2>1. rq'[r].op = "start" /\ rq'[r].task = t
    BY <1>t, <1>1 DEF BeginStart, Submit
  <2>2. QED
    BY <1>1, <2>1 DEF BeginStart, Agrees, Loading
<1>2. ASSUME NEW t \in Task,
             \/ BeginComplete(r, t) \/ BeginMerge(r, t) \/ BeginAbort(r, t) \/ BeginIndex(r, t)
      PROVE  Agrees(rq'[r])
  <2>1. /\ rq'[r].task = t /\ rq'[r].rec = meta[t]
        /\ rq'[r].op \in {"complete", "merge", "abort", "index"}
        /\ rq'[r].op = "complete" => meta[t].status = "active"
        /\ rq'[r].op = "merge" => meta[t].mode = "parallel" /\ meta[t].status = "completed"
        /\ rq'[r].op = "abort" => t \in PendingParallel
    BY <1>t, <1>2 DEF BeginComplete, BeginMerge, BeginAbort, BeginIndex, Submit
  <2>2. QED
    BY <2>1 DEF Agrees, Loading, PendingParallel
<1>3. ASSUME NEW t \in Task, NEW readonly \in BOOLEAN, BeginRun(r, t, readonly)
      PROVE  Agrees(rq'[r])
  <2>1. /\ rq'[r].task = t /\ rq'[r].rec = meta[t] /\ rq'[r].op = "run"
        /\ rq'[r].shared = readonly
    BY <1>t, <1>3 DEF BeginRun, Submit
  <2>2. QED
    BY <1>3, <2>1 DEF BeginRun, Agrees, Loading
<1>4. CASE BeginSync(r) \/ BeginExport(r)
  <2>1. /\ rq'[r].op \in {"sync", "export"}
        /\ rq'[r].op = "sync" => ActiveSequential = {} /\ PendingParallel = {}
    BY <1>t, <1>4 DEF BeginSync, BeginExport, Submit
  <2>2. QED
    BY <2>1 DEF Agrees, Loading
<1>5. QED
  BY <1>1, <1>2, <1>3, <1>4 DEF Begin

\* A step of a request that writes no record.
LEMMA AdvanceAgrees ==
  ASSUME LockInv, NEW r \in Req, Agrees(rq[r]), Advance(r), UNCHANGED meta
  PROVE  Agrees(rq[r])'
<1>t. /\ TypeOK /\ rq \in [Req -> Request] /\ rq' \in [Req -> Request]
      /\ rq[r] \in Request /\ rq[r].rec \in TaskRecord /\ rq'[r] \in Request
      /\ RequestOK(pc[r], rq[r])
  <2>1. TypeOK /\ RequestInv /\ NameInv
    BY DEF LockInv
  <2>2. [Next]_vars
    BY DEF Next
  <2>3. TypeOK'
    BY <2>1, <2>2, TypeStep
  <2>4. rq[r] \in Request /\ rq[r].rec \in TaskRecord
    BY <2>1 DEF TypeOK, Request
  <2>5. QED
    BY <2>1, <2>3, <2>4 DEF TypeOK, RequestInv
<1>1. CASE Finish(r)
  <2>1. rq'[r] = NoRequest
    BY <1>1, <1>t DEF Finish
  <2>2. QED
    BY <2>1 DEF Agrees, Loading, NoRequest
<1>2. CASE UNCHANGED rq
  BY <1>2, <1>t DEF Agrees, Loading, ActiveSequential, PendingParallel
<1>3. ASSUME NEW rec \in TaskRecord, rq' = [rq EXCEPT ![r].rec = rec],
             rec.mode = rq[r].rec.mode, rec.deps = rq[r].rec.deps,
             rq[r].op \in Loading => rec.base = rq[r].rec.base
      PROVE  Agrees(rq[r])'
  <2>1. /\ rq'[r].op = rq[r].op /\ rq'[r].task = rq[r].task /\ rq'[r].shared = rq[r].shared
        /\ rq'[r].rec = rec
    BY <1>t, <1>3 DEF Request
  <2>2. QED
    BY <1>t, <1>3, <2>1 DEF Agrees, Loading, ActiveSequential, PendingParallel
<1>4. CASE StartTask(r)
  <2>1. [rq[r].rec EXCEPT !.base = refs[Integration]] \in TaskRecord
    BY <1>t DEF TaskRecord, TypeOK, Name, Commit
  <2>2. QED
    BY <1>t, <1>4, <1>3, <2>1 DEF StartTask, AtBody, Goto, TaskRecord, Loading
<1>5. CASE CompleteTask(r)
  <2>1. refs[Workspace(rq[r].task, rq[r].rec)] \in Commit
    BY <1>t DEF Workspace, TypeOK, Request, Name
  <2>2. Completed(rq[r].rec, refs[Workspace(rq[r].task, rq[r].rec)]) \in TaskRecord
    BY <1>t, <2>1 DEF Completed, TaskRecord
  <2>3. QED
    BY <1>t, <1>5, <1>3, <2>2 DEF CompleteTask, Goto, Completed, TaskRecord
<1>6. CASE MergeTask(r)
  <2> DEFINE tip    == refs[Integration]
             commit == IF rq[r].rec.head \subseteq tip THEN tip
                       ELSE tip \cup rq[r].rec.head \cup {born + 1}
  <2>1. commit \in Commit
    BY <1>t DEF TaskRecord, TypeOK, Name, Commit
  <2>2. Merged(rq[r].rec, tip, commit) \in TaskRecord
    BY <1>t, <2>1 DEF Merged, TaskRecord
  <2>3. Goto(r, "merged", Merged(rq[r].rec, tip, commit))
    BY <1>6 DEF MergeTask
  <2>4. QED
    BY <1>t, <1>3, <2>2, <2>3 DEF Goto, Merged, TaskRecord
<1>7. CASE MergeConflict(r) \/ RemoveWorktree(r) \/ OpenSession(r)
  BY <1>t, <1>3, <1>7 DEF MergeConflict, RemoveWorktree, OpenSession, Goto
<1>8. CASE DeleteBranch(r)
  <2>1. \A s \in {"merged", "aborted"} : [rq[r].rec EXCEPT !.status = s] \in TaskRecord
    BY <1>t DEF TaskRecord
  <2>2. PICK s \in {"merged", "aborted"} : Goto(r, "write", [rq[r].rec EXCEPT !.status = s])
    BY <1>8 DEF DeleteBranch
  <2>3. QED
    BY <1>t, <1>3, <2>1, <2>2 DEF Goto, TaskRecord
<1>9. CASE ExportHead(r)
  <2>1. /\ rq'[r].op = rq[r].op /\ rq'[r].task = rq[r].task /\ rq'[r].shared = rq[r].shared
        /\ rq'[r].rec = rq[r].rec
    BY <1>t, <1>9 DEF ExportHead, Request
  <2>2. QED
    BY <1>t, <2>1 DEF Agrees, Loading, ActiveSequential, PendingParallel
<1>10. QED
  BY <1>1, <1>2, <1>4, <1>5, <1>6, <1>7, <1>8, <1>9
     DEF Advance, Acquire, AcquireTask, Refuse, MergeRestore, WriteRecord, SyncRepo, ExportBundle,
         CloseSession

\* Under its lock, a start has checked what it relies on when it writes its record.
LEMMA SnapshotStep ==
  ASSUME OneAtATime, LockInv, Snapshot, [Next]_vars
  PROVE  Snapshot'
<1>t. /\ TypeOK /\ RequestInv /\ NameInv /\ pc \in [Req -> PC] /\ rq \in [Req -> Request]
      /\ refs \in [Name -> Commit]
      /\ \A r \in Req : RequestOK(pc[r], rq[r]) /\ rq[r] \in Request /\ Agrees(rq[r])
  BY DEF LockInv, TypeOK, RequestInv, Snapshot
<1>1. ASSUME NEW r \in Req, \A q \in Req : q = r,
             Agrees(rq[r])', (pc[r] = "write" /\ rq[r].op = "start" => Checked(rq[r]))'
      PROVE  Snapshot'
  BY <1>1 DEF Snapshot
<1>2. ASSUME NEW r \in Req, Begin(r)
      PROVE  Snapshot'
  <2>1. pc'[r] = "lock" /\ UNCHANGED meta /\ Agrees(rq'[r])
    BY <1>2, <1>t, BeginFacts, BeginAgrees
  <2>2. Agrees(rq[r])'
    BY <2>1 DEF Agrees, ActiveSequential, PendingParallel
  <2>3. QED
    BY <1>1, <2>1, <2>2 DEF OneAtATime
<1>3. ASSUME NEW r \in Req, WriteRecord(r)
      PROVE  Snapshot'
  <2>1. pc'[r] = "idle" /\ rq'[r] = NoRequest
    BY <1>3, <1>t DEF WriteRecord, Finish
  <2>2. Agrees(rq[r])'
    BY <2>1 DEF Agrees, Loading, NoRequest
  <2>3. QED
    BY <1>1, <2>1, <2>2 DEF OneAtATime
<1>4. ASSUME NEW r \in Req, Advance(r), UNCHANGED meta
      PROVE  Snapshot'
  <2>1. Agrees(rq[r])'
    BY <1>4, <1>t, AdvanceAgrees
  <2>2. ASSUME pc'[r] = "write", rq'[r].op = "start"
        PROVE  Checked(rq[r])'
    <3>1. StartTask(r) \/ CompleteTask(r) \/ DeleteBranch(r)
      BY <1>4, <2>2, Arrives DEF Acts
    <3>2. rq'[r].op = rq[r].op
      BY <3>1, <1>t DEF StartTask, CompleteTask, DeleteBranch, Goto, Request
    <3>3. StartTask(r)
      BY <2>2, <3>1, <3>2, <1>t DEF CompleteTask, DeleteBranch, AtBody, RequestOK, OpsAt
    <3>4. Startable(rq[r].task, rq[r].rec)
      BY <3>3 DEF StartTask, Accepts, AtBody
    <3>5. /\ rq'[r].rec.base = refs[Integration] /\ rq'[r].rec.deps = rq[r].rec.deps
          /\ rq'[r].rec.mode = rq[r].rec.mode /\ rq[r].rec.mode # "none"
          /\ rq[r].rec.mode \in {"none", "integration", "parallel"}
      BY <3>3, <1>t DEF StartTask, Goto, Request, TaskRecord, AtBody, RequestOK
    <3>6. QED
      BY <1>4, <3>4, <3>5 DEF Checked, Startable, DependencyMet, ActiveSequential, PendingParallel
  <2>3. QED
    BY <1>1, <1>4, <2>1, <2>2 DEF OneAtATime
<1>5. ASSUME UNCHANGED <<meta, pc, rq>>
      PROVE  Snapshot'
  BY <1>5 DEF Snapshot, Agrees, Checked, DependencyMet, ActiveSequential, PendingParallel
<1>6. CASE Crash
  BY <1>6 DEF Crash, Snapshot, Agrees, Loading, NoRequest
<1>7. CASE Outside \/ StrayWrites
  BY <1>5, <1>6, <1>7, StrayStep DEF Outside, HumanCommit, StrayEnds, vars, disk
<1>8. ASSUME NEW r \in Req, Acts(r)
      PROVE  Snapshot'
  <2>1. ASSUME Session(r)
        PROVE  UNCHANGED <<meta, pc, rq>>
    BY <2>1, <1>t, SessionFacts
  <2>2. QED
    BY <1>2, <1>3, <1>4, <1>5, <1>8, <2>1, RecordsStay DEF Acts
<1>9. QED
  BY <1>7, <1>8, NextActs

\* What write_json can change about a task, when nobody else has changed it since the
\* request loaded it.
Opens(old, q) == /\ old.status = "absent" /\ Checked(q)
                 /\ q.rec.status = "active" /\ q.rec.mode \in {"integration", "parallel"}

Forwards(old, q) ==
  /\ q.rec.mode = old.mode /\ q.rec.deps = old.deps /\ q.rec.base = old.base
  /\ \/ old.status = "active" /\ q.rec.status = "completed"
     \/ q.task \in PendingParallel /\ old.status = "completed" /\ q.rec.status = "merged"
     \/ q.task \in PendingParallel /\ q.rec.status = "aborted"

LEMMA Writes ==
  ASSUME LockInv, Snapshot, NEW r \in Req, WriteRecord(r)
  PROVE  /\ rq[r].task \in Task /\ rq[r].rec \in TaskRecord
         /\ meta' = [meta EXCEPT ![rq[r].task] = rq[r].rec]
         /\ Opens(meta[rq[r].task], rq[r]) \/ Forwards(meta[rq[r].task], rq[r])
<1>t. /\ rq[r] \in Request /\ rq[r].rec \in TaskRecord /\ RequestOK("write", rq[r])
      /\ Agrees(rq[r]) /\ (rq[r].op = "start" => Checked(rq[r]))
      /\ meta' = [meta EXCEPT ![rq[r].task] = rq[r].rec]
  BY DEF LockInv, TypeOK, RequestInv, Snapshot, WriteRecord, Request
<1>1. rq[r].op \in {"start", "complete", "merge", "abort"} /\ rq[r].task \in Task
      /\ rq[r].rec.status = StatusWritten(rq[r].op)
  BY <1>t DEF RequestOK, OpsAt
<1>2. CASE rq[r].op = "start"
  BY <1>t, <1>1, <1>2 DEF Opens, Agrees, RequestOK, StatusWritten, TaskRecord
<1>3. CASE rq[r].op \in {"complete", "merge", "abort"}
  BY <1>t, <1>1, <1>3 DEF Forwards, Agrees, Loading, StatusWritten
<1>4. QED
  BY <1>t, <1>1, <1>2, <1>3

\* What a settled dependency means stays true of it.
LEMMA SettledStays ==
  ASSUME LockInv, Snapshot, NEW r \in Req, WriteRecord(r), NEW d \in Task,
         \/ meta[d].mode = "parallel" /\ meta[d].status = "merged"
         \/ meta[d].mode = "integration" /\ meta[d].status = "completed"
  PROVE  meta'[d] = meta[d]
<1>1. CASE d = rq[r].task
  BY <1>1, Writes DEF Opens, Forwards, PendingParallel
<1>2. CASE d # rq[r].task
  BY <1>2, Writes DEF LockInv, TypeOK
<1>3. QED
  BY <1>1, <1>2

LEMMA ModesStep ==
  ASSUME LockInv, Snapshot, ModesExclude, NEW r \in Req, WriteRecord(r)
  PROVE  ModesExclude'
<1> DEFINE t == rq[r].task
<1>t. /\ t \in Task /\ meta \in [Task -> TaskRecord] /\ rq[r].rec \in TaskRecord
      /\ meta' = [meta EXCEPT ![t] = rq[r].rec]
  BY Writes DEF LockInv, TypeOK
<1>1. CASE Forwards(meta[t], rq[r])
  <2>1. ActiveSequential' \subseteq ActiveSequential /\ PendingParallel' \subseteq PendingParallel
    BY <1>t, <1>1 DEF Forwards, ActiveSequential, PendingParallel
  <2>2. QED
    BY <2>1 DEF ModesExclude
<1>2. CASE Opens(meta[t], rq[r])
  <2>1. ActiveSequential = {} /\ (rq[r].rec.mode = "integration" => PendingParallel = {})
        /\ rq[r].rec.mode \in {"integration", "parallel"}
    BY <1>2 DEF Opens, Checked
  <2>2. CASE rq[r].rec.mode = "integration"
    BY <1>t, <2>1, <2>2 DEF ModesExclude, PendingParallel
  <2>3. CASE rq[r].rec.mode = "parallel"
    BY <1>t, <2>1, <2>3 DEF ModesExclude, ActiveSequential
  <2>4. QED
    BY <2>1, <2>2, <2>3
<1>3. QED
  BY <1>1, <1>2, Writes

LEMMA DependenciesStep ==
  ASSUME LockInv, Snapshot, DependenciesMet, NEW r \in Req, WriteRecord(r)
  PROVE  DependenciesMet'
<1> DEFINE t == rq[r].task
<1>t. /\ t \in Task /\ meta \in [Task -> TaskRecord] /\ rq[r].rec \in TaskRecord
      /\ meta' = [meta EXCEPT ![t] = rq[r].rec]
  BY Writes DEF LockInv, TypeOK
<1>1. ASSUME NEW d \in Task, NEW base, DependencyMet(d, base)
      PROVE  DependencyMet(d, base)'
  BY <1>1, SettledStays DEF DependencyMet, Integrated
<1>2. ASSUME NEW u \in Task, NEW d \in meta'[u].deps
      PROVE  d \in Task /\ DependencyMet(d, meta'[u].base)
  <2>1. d \in Task
    BY <1>2, <1>t DEF TaskRecord
  <2>2. CASE u = t /\ Opens(meta[t], rq[r])
    BY <1>2, <1>t, <2>1, <2>2 DEF Opens, Checked
  <2>3. CASE u # t \/ Forwards(meta[t], rq[r])
    BY <1>2, <1>t, <2>1, <2>3 DEF Forwards, DependenciesMet
  <2>4. QED
    BY <2>1, <2>2, <2>3, Writes
<1>3. ASSUME NEW u \in Task, NEW d \in meta'[u].deps
      PROVE  DependencyMet(d, meta[u].base)'
  <2>1. d \in Task /\ DependencyMet(d, meta'[u].base)
    BY <1>2, <1>3
  <2>2. meta'[d] = meta[d]
    BY <2>1, SettledStays DEF DependencyMet
  <2>3. QED
    BY <2>1, <2>2 DEF DependencyMet, Integrated
<1>4. QED
  BY <1>3 DEF DependenciesMet

\* The write is a step of the ledger.
LEMMA LedgerStep ==
  ASSUME LockInv, Snapshot, NEW r \in Req, WriteRecord(r)
  PROVE  Ledger!Next
<1> SUFFICES ASSUME NEW t \in Task, t = rq[r].task, NEW rec \in TaskRecord, rec = rq[r].rec
             PROVE  Ledger!Next
  BY Writes
<1> DEFINE Status == [u \in Task |-> meta[u].status]
           Mode == [u \in Task |-> meta[u].mode]
           Deps == [u \in Task |-> meta[u].deps]
<1>t. meta \in [Task -> TaskRecord] /\ meta' = [meta EXCEPT ![t] = rec]
  BY Writes DEF LockInv, TypeOK
<1>1. /\ Status' = [Status EXCEPT ![t] = rec.status]
      /\ Mode' = [Mode EXCEPT ![t] = rec.mode]
      /\ Deps' = [Deps EXCEPT ![t] = rec.deps]
  BY <1>t
<1>2. CASE Opens(meta[t], rq[r])
  <2>1. Ledger!Sequential = {} /\ (rec.mode = "integration" => Ledger!Outstanding = {})
    <3>1. Ledger!Sequential = ActiveSequential
      BY Zenon DEF Ledger!Sequential, ActiveSequential
    <3>2. Ledger!Outstanding = PendingParallel
      BY Zenon DEF Ledger!Outstanding, PendingParallel
    <3>3. QED
      BY <1>2, <3>1, <3>2 DEF Opens, Checked
  <2>2. \A d \in rec.deps : Ledger!Settled(d)
    BY <1>2, <1>t DEF Opens, Checked, DependencyMet, Ledger!Settled, TaskRecord
  <2>3. Ledger!Start(t, rec.mode, rec.deps)
    BY <1>t, <1>1, <1>2, <2>1, <2>2 DEF Ledger!Start, Opens
  <2>4. rec.mode \in {"integration", "parallel"} /\ rec.deps \in SUBSET Task
    BY <1>2, <1>t DEF Opens, TaskRecord
  <2>5. QED
    BY <1>t, <2>3, <2>4 DEF Ledger!Next
<1>3. CASE Forwards(meta[t], rq[r])
  <2>1. Mode' = Mode /\ Deps' = Deps
    BY <1>t, <1>1, <1>3 DEF Forwards
  <2>2. \/ Ledger!Complete(t) \/ Ledger!Merge(t) \/ Ledger!Abort(t)
    BY <1>t, <1>1, <1>3, <2>1 DEF Forwards, PendingParallel, Ledger!Complete, Ledger!Merge,
                                   Ledger!Abort, Ledger!Advance
  <2>3. QED
    BY <1>t, <2>2 DEF Ledger!Next
<1>4. QED
  BY <1>2, <1>3, Writes

\* Every step writes a record or leaves the records alone.
LEMMA RecordStep ==
  ASSUME LockInv, [Next]_vars
  PROVE  (\E r \in Req : WriteRecord(r)) \/ UNCHANGED meta
BY NextActs, RecordsStay, OutsideStep, StrayStep

(***************************************************************************)
(* What holds while requests are issued one at a time.                     *)
(***************************************************************************)
LEMMA OneInit == Init => OneInv
<1> SUFFICES ASSUME Init PROVE OneInv
  OBVIOUS
<1>1. Snapshot
  BY DEF Init, Snapshot, Agrees, Loading, NoRequest
<1>2. ModesExclude /\ DependenciesMet
  <2>1. \A t \in Task : meta[t].status = "absent" /\ meta[t].deps = {}
    BY DEF Init, NoRecord
  <2>2. QED
    BY <2>1 DEF ModesExclude, ActiveSequential, DependenciesMet
<1>3. QED
  BY <1>1, <1>2, LockInit DEF OneInv

LEMMA OneStep == ASSUME OneAtATime PROVE OneInv /\ [Next]_vars => OneInv'
<1> SUFFICES ASSUME OneInv, [Next]_vars PROVE OneInv'
  OBVIOUS
<1>1. LockInv' /\ Snapshot'
  BY LockStep, SnapshotStep DEF OneInv
<1>2. ASSUME UNCHANGED meta
      PROVE  ModesExclude' /\ DependenciesMet'
  <2>1. ModesExclude'
    BY <1>2 DEF OneInv, ModesExclude, ActiveSequential, PendingParallel
  <2>2. DependenciesMet'
    BY <1>2 DEF OneInv, DependenciesMet, DependencyMet, Integrated
  <2>3. QED
    BY <2>1, <2>2
<1>3. ASSUME NEW r \in Req, WriteRecord(r)
      PROVE  ModesExclude' /\ DependenciesMet'
  BY <1>3, ModesStep, DependenciesStep DEF OneInv
<1>4. ModesExclude' /\ DependenciesMet'
  BY <1>2, <1>3, RecordStep DEF OneInv
<1>5. QED
  BY <1>1, <1>4 DEF OneInv

LEMMA OneInvariance == ASSUME OneAtATime PROVE Spec => []OneInv
BY OneInit, OneStep, PTL DEF Spec

\* The life cycle, with its locks, Git steps, crashes and surviving containers,
\* implements the ledger: tasks start once, on settled dependencies, and move forward.
THEOREM RecordsRefineLedger == ASSUME OneAtATime PROVE Spec => LedgerSpec
<1>1. Init => Ledger!Init
  BY DEF Init, Ledger!Init, NoRecord
<1>2. OneInv /\ [Next]_vars => [Ledger!Next]_Ledger!ledger
  <2> SUFFICES ASSUME OneInv, [Next]_vars PROVE [Ledger!Next]_Ledger!ledger
    OBVIOUS
  <2>1. ASSUME UNCHANGED meta
        PROVE  UNCHANGED Ledger!ledger
    BY <2>1 DEF Ledger!ledger
  <2>2. QED
    BY <2>1, RecordStep, LedgerStep DEF OneInv
<1>3. QED
  BY <1>1, <1>2, OneInvariance, PTL DEF Spec, LedgerSpec, Ledger!Spec

\* Sequential and parallel work never overlap.
THEOREM SequentialExcludesParallel == ASSUME OneAtATime PROVE Spec => []ModesExclude
<1>1. OneInv => ModesExclude
  BY DEF OneInv
<1>2. QED
  BY OneInvariance, <1>1, PTL

\* The dependencies a task was started on stay integrated in its base.
THEOREM DependenciesStay == ASSUME OneAtATime PROVE Spec => []DependenciesInBase
<1>1. OneInv => DependenciesInBase
  BY DEF OneInv, DependenciesMet, DependenciesInBase, DependencyMet, Integrated
<1>2. QED
  BY OneInvariance, <1>1, PTL

\* task-abort (and every other operation) leaves a merged record as it is, when nobody
\* merges the task between the load of op_task_abort and its lock.
THEOREM MergedStaysMerged == ASSUME OneAtATime PROVE Spec => MergedIsFinal
<1> DEFINE Final == \A t \in Task : meta[t].status = "merged" => meta'[t] = meta[t]
<1>1. ASSUME OneInv, NEW r \in Req, WriteRecord(r)
      PROVE  Final
  BY <1>1, Writes DEF OneInv, LockInv, TypeOK, Opens, Forwards, PendingParallel
<1>2. OneInv /\ [Next]_vars => [Final]_vars
  BY <1>1, RecordStep DEF OneInv
<1>3. QED
  BY <1>2, OneInvariance, PTL DEF Spec, MergedIsFinal
=============================================================================
