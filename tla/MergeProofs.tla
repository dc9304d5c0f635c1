----------------------------- MODULE MergeProofs -----------------------------
(***************************************************************************)
(* What a merge integrates.  A thread that serves task-merge holds the     *)
(* record it loaded before it had its locks, and the checks made under     *)
(* them compare that record with the branch, not with the record on disk,  *)
(* which other requests may have written since.  The proof that it still   *)
(* integrates the head the record on disk names follows three things that  *)
(* can name a head of one branch: the record, the merges that have loaded  *)
(* it, and a completion that is about to replace it.                       *)
(*                                                                         *)
(* The last part is about what task-abort can discard: the worktree of a   *)
(* pending task is there for as long as agentd does not die.               *)
(***************************************************************************)
EXTENDS TaskProofs

(***************************************************************************)
(* The inductive invariant.                                                *)
(***************************************************************************)
\* Commits are numbered as they are made, so a new commit is in no known history.
Known(commit) == commit \subseteq 0 .. born

NumbersInv ==
  /\ Known(human)
  /\ \A n \in Name : Known(refs[n])
  /\ \A t \in Task : Known(meta[t].head)
  /\ \A r \in Req : Known(rq[r].rec.head) /\ Known(rq[r].seen)

\* A worktree has its branch, and is there while a request relies on it.
BranchInv ==
  /\ \A t \in wt : refs[t] # NoCommit
  /\ \A r \in Req : pc[r] = "removed" => rq[r].task \notin wt
  /\ \A r \in Req : pc[r] = "write" /\ rq[r].op \in {"start", "complete"}
                      /\ rq[r].rec.mode = "parallel" => rq[r].task \in wt

\* A merge or an abort of t has deleted the branch and has still to say so.
Discarding(t) == \E q \in Req : /\ pc[q] = "write" /\ rq[q].op \in {"merge", "abort"}
                                /\ rq[q].task = t

\* So a start that is overtaken by another of the same task finds its branch there.
RestartInv ==
  \A r \in Req : pc[r] \in {"lock", "body"} /\ rq[r].op = "start"
                   /\ rq[r].task \in PendingParallel =>
     refs[rq[r].task] # NoCommit \/ Discarding(rq[r].task)

Done(t)       == meta[t].mode = "parallel" /\ meta[t].status = "completed"
Merges(r, t)  == rq[r].op = "merge" /\ rq[r].task = t
Completing(r) == pc[r] = "write" /\ rq[r].op = "complete" /\ rq[r].rec.mode = "parallel"

\* If a merge would accept the branch for the head it has loaded, that is the head
\* the record names ...
HeadInv ==
  \A r \in Req, t \in Task :
     /\ Merges(r, t) /\ Done(t)
     /\ rq[r].rec.head = refs[t] /\ refs[t] # NoCommit
     => meta[t].head = refs[t]

\* ... and so is the one a completion is about to write there.
NewHeadInv ==
  \A q \in Req : Completing(q) =>
     LET t == rq[q].task IN
     /\ Done(t) /\ meta[t].head = refs[t] => rq[q].rec.head = refs[t]
     /\ \A r \in Req : Merges(r, t) /\ rq[r].rec.head = refs[t] => rq[q].rec.head = refs[t]

HeadsInv == LockInv /\ NumbersInv /\ BranchInv /\ RestartInv /\ HeadInv /\ NewHeadInv

(***************************************************************************)
(* What a step does to the branch and the worktree of one task.            *)
(***************************************************************************)
Keeps(t) == refs'[t] = refs[t] /\ (t \in wt' <=> t \in wt)
Grows(t) == refs[t] \subseteq refs'[t] /\ born + 1 \in refs'[t] /\ (t \in wt' <=> t \in wt)

Makes(q, t) ==
  /\ StartTask(q) /\ rq[q].task = t /\ rq[q].rec.mode = "parallel"
  /\ t \notin wt /\ refs[t] = NoCommit
  /\ t \in wt' /\ refs'[t] = refs[Integration]

Drops(q, t) ==
  /\ DeleteBranch(q) /\ rq[q].task = t
  /\ refs'[t] = NoCommit /\ (t \in wt' <=> t \in wt)

Removes(q, t) ==
  /\ RemoveWorktree(q) /\ rq[q].task = t
  /\ t \notin wt' /\ refs'[t] = refs[t]

\* A container's commit is new, and changes no other branch.
LEMMA ContainerCommits ==
  ASSUME LockInv, NEW c \in Container, CommitIn(c) \/ TouchIn(c), NEW t \in Task
  PROVE  Keeps(t) \/ Grows(t)
<1>t. refs \in [Name -> Commit] /\ t \in Name
  BY DEF LockInv, TypeOK, Name
<1>1. CASE CommitIn(c)
  BY <1>1, <1>t DEF CommitIn, Keeps, Grows
<1>2. CASE TouchIn(c)
  BY <1>2 DEF TouchIn, Keeps
<1>3. QED
  BY <1>1, <1>2

\* A request makes, grows or drops the branch of its own task, or leaves it alone.
LEMMA BranchOfActor ==
  ASSUME LockInv, NEW q \in Req, Acts(q), NEW t \in Task, t # Integration
  PROVE  Keeps(t) \/ Grows(t) \/ Makes(q, t) \/ Drops(q, t) \/ Removes(q, t)
<1>t. /\ TypeOK /\ NameInv /\ refs \in [Name -> Commit] /\ t \in Name /\ rq[q].task \in Name
      /\ wt \subseteq Task
  BY DEF LockInv, TypeOK, Name, Request
<1>1. CASE UNCHANGED <<refs, wt>>
  BY <1>1 DEF Keeps
<1>2. CASE Begin(q)
  BY <1>1, <1>2, <1>t, BeginFacts
<1>3. CASE Session(q)
  BY <1>3, <1>t, SessionFacts, ContainerCommits
<1>4. CASE StartTask(q)
  <2>1. CASE rq[q].rec.mode = "parallel" /\ rq[q].task = t
    BY <1>4, <1>t, <2>1 DEF StartTask, Accepts, AtBody, Startable, Makes
  <2>2. CASE rq[q].rec.mode = "parallel" /\ rq[q].task # t
    BY <1>4, <1>t, <2>2 DEF StartTask, Keeps
  <2>3. CASE rq[q].rec.mode # "parallel"
    BY <1>1, <1>4, <2>3 DEF StartTask
  <2>4. QED
    BY <2>1, <2>2, <2>3
<1>5. CASE MergeTask(q)
  BY <1>5, <1>t DEF MergeTask, Keeps
<1>6. CASE RemoveWorktree(q)
  BY <1>6, <1>t DEF RemoveWorktree, Keeps, Removes
<1>7. CASE DeleteBranch(q)
  BY <1>7, <1>t DEF DeleteBranch, Keeps, Drops
<1>8. CASE SyncRepo(q)
  BY <1>8, <1>t DEF SyncRepo, Keeps
<1>9. QED
  BY <1>1, <1>2, <1>3, <1>4, <1>5, <1>6, <1>7, <1>8 DEF Acts, Advance, Acquire, AcquireTask,
     Refuse, CompleteTask, MergeConflict, MergeRestore, WriteRecord, ExportHead, ExportBundle,
     OpenSession, CloseSession, disk

LEMMA BranchStep ==
  ASSUME LockInv, [Next]_vars, NEW t \in Task, t # Integration
  PROVE  Keeps(t) \/ Grows(t) \/ \E q \in Req : Makes(q, t) \/ Drops(q, t) \/ Removes(q, t)
<1>1. CASE StrayWrites
  BY <1>1, ContainerCommits DEF StrayWrites, Stray, LockInv, TypeOK
<1>2. CASE Outside
  BY <1>2, OutsideStep DEF Keeps
<1>3. CASE \E q \in Req : Acts(q)
  BY <1>3, BranchOfActor
<1>4. QED
  BY <1>1, <1>2, <1>3, NextActs

\* No request works in the worktree of a task with an operation that has its lock.
LEMMA TaskIsLocked ==
  ASSUME LockInv, NEW q \in Req, NEW r \in Req, r # q,
         NEW n \in holds[q], n \in holds[r]
  PROVE  rq[r].shared /\ rq[q].shared
BY DEF LockInv, MutexInv

(***************************************************************************)
(* What a step does to the requests the invariant speaks of.               *)
(***************************************************************************)
\* A merge keeps the head it loaded, and a new one loads that of the record.
LEMMA MergeRequests ==
  ASSUME LockInv, [Next]_vars, NEW r \in Req, rq'[r].op = "merge"
  PROVE  \/ /\ rq[r].op = "merge" /\ rq'[r].task = rq[r].task
            /\ rq'[r].rec.head = rq[r].rec.head
         \/ \E t \in Task : BeginMerge(r, t) /\ rq'[r].task = t /\ rq'[r].rec = meta[t]
<1>t. /\ TypeOK /\ RequestInv /\ NameInv /\ rq \in [Req -> Request] /\ rq[r].rec \in TaskRecord
  BY DEF LockInv, TypeOK, Request
<1>1. CASE rq'[r] = rq[r]
  BY <1>1
<1>2. ASSUME NEW q \in Req, Acts(q), q # r
      PROVE  rq'[r] = rq[r]
  BY <1>2, OthersStay
<1>3. CASE StrayWrites \/ Outside
  BY <1>1, <1>3, StrayStep DEF Outside, HumanCommit, Crash, StrayEnds, vars, NoRequest
<1>4. CASE Begin(r)
  <2>1. ASSUME NEW t \in Task, BeginMerge(r, t)
        PROVE  rq'[r].task = t /\ rq'[r].rec = meta[t]
    BY <2>1, <1>t DEF BeginMerge, Submit
  <2>2. ASSUME NEW t \in Task, BeginComplete(r, t) \/ BeginAbort(r, t) \/ BeginIndex(r, t)
        PROVE  FALSE
    BY <2>2, <1>t DEF BeginComplete, BeginAbort, BeginIndex, Submit
  <2>3. ASSUME NEW t \in Task, NEW readonly \in BOOLEAN, BeginRun(r, t, readonly)
        PROVE  FALSE
    BY <2>3, <1>t DEF BeginRun, Submit
  <2>6. ASSUME NEW t \in Task, NEW mode \in {"integration", "parallel"}, NEW deps \in SUBSET Task,
               BeginStart(r, t, mode, deps)
        PROVE  FALSE
    BY <2>6, <1>t DEF BeginStart, Submit
  <2>4. ~BeginSync(r) /\ ~BeginExport(r)
    BY <1>t DEF BeginSync, BeginExport, Submit
  <2>5. QED
    BY <1>4, <2>1, <2>2, <2>3, <2>4, <2>6 DEF Begin
<1>5. CASE Session(r)
  BY <1>1, <1>5, <1>t, SessionFacts
<1>6. CASE Advance(r)
  <2>1. CASE Finish(r)
    BY <1>t, <2>1 DEF Finish, NoRequest
  <2>3. CASE MergeTask(r) \/ MergeConflict(r) \/ RemoveWorktree(r)
    <3>1. rq'[r].op = rq[r].op /\ rq'[r].task = rq[r].task /\ rq'[r].rec.head = rq[r].rec.head
      BY <1>t, <2>3 DEF MergeTask, MergeConflict, RemoveWorktree, Goto, Merged, Request, TaskRecord
    <3>2. QED
      BY <3>1
  <2>4. CASE DeleteBranch(r)
    <3>1. rq'[r].op = rq[r].op /\ rq'[r].task = rq[r].task /\ rq'[r].rec.head = rq[r].rec.head
      BY <1>t, <2>4 DEF DeleteBranch, Goto, Request, TaskRecord
    <3>2. QED
      BY <3>1
  <2>5. CASE StartTask(r) \/ CompleteTask(r) \/ OpenSession(r) \/ ExportHead(r)
    <3>1. rq'[r].op = rq[r].op /\ rq[r].op # "merge"
      BY <1>t, <2>5 DEF StartTask, CompleteTask, OpenSession, ExportHead, Goto, AtBody, Request
    <3>2. QED
      BY <3>1
  <2>6. CASE Acquire(r) \/ AcquireTask(r)
    BY <1>1, <2>6 DEF Acquire, AcquireTask
  <2>7. QED
    BY <1>6, <2>1, <2>3, <2>4, <2>5, <2>6 DEF Advance, Refuse, MergeRestore, WriteRecord,
       SyncRepo, ExportBundle, CloseSession
<1>7. QED
  BY <1>1, <1>2, <1>3, <1>4, <1>5, <1>6, NextActs DEF Acts

\* A completion of a parallel task has the lock of its worktree.
LEMMA CompleterHasTask ==
  ASSUME LockInv, NEW r \in Req,
         pc[r] \in {"body", "write"}, rq[r].op = "complete", rq[r].rec.mode = "parallel"
  PROVE  /\ rq[r].task \in Task /\ rq[r].task # Integration
         /\ holds[r] = {rq[r].task} /\ ~rq[r].shared
<1>t. RequestOK(pc[r], rq[r]) /\ holds[r] = Locks(pc[r], rq[r])
  BY DEF LockInv, RequestInv, HoldsInv
<1>1. rq[r].rec.status # "merged" /\ rq[r].task \in Task /\ rq[r].task # Integration
      /\ ~rq[r].shared
  BY <1>t DEF RequestOK
<1>2. Workspace(rq[r].task, rq[r].rec) = rq[r].task
  BY <1>1 DEF Workspace, InRepoAgent
<1>3. holds[r] = {rq[r].task}
  BY <1>t, <1>2 DEF Locks, Checkouts
<1>4. QED
  BY <1>1, <1>3

\* A completion that is about to write has just read the head of its worktree, or
\* waits with what it read.
LEMMA CompletionRequests ==
  ASSUME LockInv, [Next]_vars, NEW r \in Req, Completing(r)'
  PROVE  /\ rq'[r].task = rq[r].task /\ rq[r].task \in Task /\ rq[r].task # Integration
         /\ holds[r] = {rq[r].task} /\ ~rq[r].shared
         /\ \/ Completing(r) /\ pc'[r] = pc[r] /\ rq'[r] = rq[r]
            \/ /\ CompleteTask(r) /\ rq'[r].rec.head = refs[rq[r].task]
               /\ rq[r].task \in wt
<1>t. /\ TypeOK /\ RequestInv /\ rq \in [Req -> Request] /\ rq[r].rec \in TaskRecord
      /\ RequestOK(pc[r], rq[r]) /\ holds[r] = Locks(pc[r], rq[r])
  BY DEF LockInv, TypeOK, Request, RequestInv, HoldsInv
<1>2. CASE pc'[r] = pc[r] /\ rq'[r] = rq[r]
  BY <1>2, CompleterHasTask DEF Completing
<1>3. CASE Acts(r)
  <2>1. StartTask(r) \/ CompleteTask(r) \/ DeleteBranch(r)
    BY <1>3, Arrives DEF Completing
  <2>2. rq'[r].op = rq[r].op
    BY <2>1, <1>t DEF StartTask, CompleteTask, DeleteBranch, Goto, Request
  <2>3. CompleteTask(r)
    BY <1>t, <2>1, <2>2 DEF Completing, StartTask, DeleteBranch, AtBody, RequestOK, OpsAt
  <2>4. /\ rq[r].op = "complete" /\ pc[r] = "body" /\ rq'[r].task = rq[r].task
        /\ rq'[r].rec.mode = rq[r].rec.mode
        /\ rq'[r].rec.head = refs[Workspace(rq[r].task, rq[r].rec)]
        /\ Present(rq[r].task, rq[r].rec)
    BY <1>t, <2>3 DEF CompleteTask, AtBody, Accepts, Completable, Goto, Completed, Request, TaskRecord
  <2>5. rq[r].rec.mode = "parallel" /\ rq[r].rec.status # "merged"
    BY <1>t, <2>4 DEF Completing, RequestOK
  <2>6. QED
    BY <2>3, <2>4, <2>5, CompleterHasTask DEF Workspace, Present, InRepoAgent
<1>4. CASE StrayWrites \/ Outside
  BY <1>2, <1>4, StrayStep, OutsideStep DEF Completing
<1>5. QED
  BY <1>2, <1>3, <1>4, NextActs, OthersStay

(***************************************************************************)
(* Commits and their numbers.                                              *)
(***************************************************************************)
\* What a new request knows is what the records and the human history hold.
LEMMA BeginKnows ==
  ASSUME LockInv, NumbersInv, NEW r \in Req, Begin(r)
  PROVE  Known(rq'[r].rec.head) /\ Known(rq'[r].seen)
<1>t. /\ rq \in [Req -> Request] /\ \A t \in Task : meta[t] \in TaskRecord
      /\ Known(human) /\ Known(NoCommit) /\ Known(NoRecord.head)
      /\ \A t \in Task : Known(meta[t].head)
  BY DEF LockInv, TypeOK, NumbersInv, Known, NoCommit, NoRecord
<1>1. ASSUME NEW op, NEW t, NEW rec, NEW lock, NEW shared, NEW seen,
             Submit(r, op, t, rec, lock, shared, seen), Known(rec.head), Known(seen)
      PROVE  Known(rq'[r].rec.head) /\ Known(rq'[r].seen)
  BY <1>1, <1>t DEF Submit
<1>2. ASSUME NEW t \in Task, NEW mode \in {"integration", "parallel"}, NEW deps \in SUBSET Task,
             BeginStart(r, t, mode, deps)
      PROVE  Known(rq'[r].rec.head) /\ Known(rq'[r].seen)
  <2> DEFINE rec == [NoRecord EXCEPT !.mode = mode, !.status = "active", !.deps = deps]
  <2>1. rec.head = NoCommit
    BY DEF NoRecord
  <2>2. Submit(r, "start", t, rec, Integration, FALSE, NoCommit)
    BY <1>2 DEF BeginStart
  <2> HIDE DEF rec
  <2>3. QED
    BY <1>1, <1>t, <2>1, <2>2
<1>3. ASSUME NEW t \in Task, BeginComplete(r, t) \/ BeginIndex(r, t)
      PROVE  Known(rq'[r].rec.head) /\ Known(rq'[r].seen)
  BY <1>1, <1>3, <1>t DEF BeginComplete, BeginIndex
<1>4. ASSUME NEW t \in Task, BeginMerge(r, t) \/ BeginAbort(r, t)
      PROVE  Known(rq'[r].rec.head) /\ Known(rq'[r].seen)
  BY <1>1, <1>4, <1>t DEF BeginMerge, BeginAbort
<1>5. ASSUME NEW t \in Task, NEW readonly \in BOOLEAN, BeginRun(r, t, readonly)
      PROVE  Known(rq'[r].rec.head) /\ Known(rq'[r].seen)
  BY <1>1, <1>5, <1>t DEF BeginRun
<1>6. CASE BeginSync(r) \/ BeginExport(r)
  BY <1>1, <1>6, <1>t DEF BeginSync, BeginExport
<1>7. QED
  BY <1>2, <1>3, <1>4, <1>5, <1>6 DEF Begin

\* A request goes on with what it knows, or with the head of a branch.
LEMMA AdvanceKnows ==
  ASSUME LockInv, NumbersInv, NEW r \in Req, Advance(r)
  PROVE  Known(rq'[r].rec.head) /\ Known(rq'[r].seen)
<1>t. /\ rq \in [Req -> Request] /\ rq[r].rec \in TaskRecord
      /\ Known(rq[r].rec.head) /\ Known(rq[r].seen) /\ \A n \in Name : Known(refs[n])
      /\ Integration \in Name /\ Workspace(rq[r].task, rq[r].rec) \in Name
  BY DEF LockInv, TypeOK, Request, NumbersInv, Name, Workspace
<1>1. CASE UNCHANGED rq
  BY <1>1, <1>t
<1>2. CASE Finish(r)
  BY <1>2, <1>t DEF Finish, NoRequest, NoRecord, NoCommit, Known
<1>3. ASSUME NEW rec, NEW label, Goto(r, label, rec), Known(rec.head)
      PROVE  Known(rq'[r].rec.head) /\ Known(rq'[r].seen)
  BY <1>3, <1>t DEF Goto, Request
<1>4. CASE CompleteTask(r)
  <2> DEFINE ws == Workspace(rq[r].task, rq[r].rec)
  <2>1. Goto(r, "write", Completed(rq[r].rec, refs[ws])) /\ Known(refs[ws])
    BY <1>4, <1>t DEF CompleteTask
  <2>2. Completed(rq[r].rec, refs[ws]).head = refs[ws]
    BY <1>t DEF Completed, TaskRecord
  <2>3. QED
    BY <1>3, <2>1, <2>2
<1>5. CASE StartTask(r) \/ DeleteBranch(r) \/ MergeTask(r)
  <2>1. \A commit : /\ [rq[r].rec EXCEPT !.base = commit].head = rq[r].rec.head
                    /\ [rq[r].rec EXCEPT !.merge = commit].head = rq[r].rec.head
                    /\ [rq[r].rec EXCEPT !.status = commit].head = rq[r].rec.head
    BY <1>t DEF TaskRecord
  <2>2. \E rec, label : Goto(r, label, rec) /\ rec.head = rq[r].rec.head
    <3>1. CASE StartTask(r)
      BY <2>1, <3>1 DEF StartTask
    <3>2. CASE DeleteBranch(r)
      BY <2>1, <3>2 DEF DeleteBranch
    <3>3. CASE MergeTask(r)
      BY <2>1, <3>3 DEF MergeTask, Merged
    <3>4. QED
      BY <1>5, <3>1, <3>2, <3>3
  <2>3. QED
    BY <1>3, <1>t, <2>2
<1>6. CASE MergeConflict(r) \/ RemoveWorktree(r) \/ OpenSession(r)
  BY <1>3, <1>6, <1>t DEF MergeConflict, RemoveWorktree, OpenSession
<1>7. CASE ExportHead(r)
  BY <1>7, <1>t DEF ExportHead, Request
<1>8. QED
  BY <1>1, <1>2, <1>4, <1>5, <1>6, <1>7 DEF Advance, Acquire, AcquireTask, Refuse, MergeRestore,
     WriteRecord, SyncRepo, ExportBundle, CloseSession

\* A step makes at most the next commit, which no branch had before.
LEMMA NewCommits ==
  ASSUME LockInv, NumbersInv, [Next]_vars
  PROVE  /\ born' \in Nat /\ born <= born'
         /\ \A n \in Name : refs'[n] \subseteq 0 .. born'
         /\ human' \subseteq 0 .. born'
<1> DEFINE Goal == /\ born' \in Nat /\ born <= born'
                   /\ \A n \in Name : refs'[n] \subseteq 0 .. born'
                   /\ human' \subseteq 0 .. born'
<1>t. /\ TypeOK /\ RequestInv /\ NameInv /\ born \in Nat /\ refs \in [Name -> Commit]
      /\ Integration \in Name
      /\ \A n \in Name : refs[n] \subseteq 0 .. born
      /\ human \subseteq 0 .. born
      /\ \A r \in Req : rq[r].rec.head \subseteq 0 .. born /\ rq[r].seen \subseteq 0 .. born
                        /\ rq[r].task \in Name
  BY DEF LockInv, TypeOK, Name, NumbersInv, Known, Request
<1>0. 0 .. born \subseteq 0 .. (born + 1) /\ born + 1 \in 0 .. (born + 1) /\ born + 1 \in Nat
      /\ born <= born + 1 /\ born <= born
  BY <1>t
<1>1. CASE UNCHANGED <<refs, born, human>>
  BY <1>0, <1>1, <1>t
<1>2. ASSUME NEW c \in Container, CommitIn(c) \/ TouchIn(c)
      PROVE  Goal
  <2>1. c.ws \in Name
    BY DEF Container
  <2>2. CASE CommitIn(c)
    <3>1. born' = born + 1 /\ human' = human /\ refs' = [refs EXCEPT ![c.ws] = @ \cup {born + 1}]
      BY <2>2 DEF CommitIn
    <3>2. \A n \in Name : refs'[n] \subseteq refs[n] \cup {born + 1}
      BY <1>t, <3>1
    <3>3. QED
      BY <1>0, <1>t, <3>1, <3>2
  <2>3. CASE TouchIn(c)
    BY <1>1, <2>3 DEF TouchIn, made
  <2>4. QED
    BY <1>2, <2>2, <2>3
<1>3. CASE HumanCommit
  <2>1. born' = born + 1 /\ refs' = refs /\ human' \subseteq 0 .. (born + 1)
    BY <1>0, <1>3, <1>t DEF HumanCommit, disk
  <2>2. QED
    BY <1>0, <1>t, <2>1
<1>4. ASSUME NEW r \in Req, Begin(r)
      PROVE  Goal
  BY <1>1, <1>4, <1>t, BeginFacts
<1>5. ASSUME NEW r \in Req, Session(r)
      PROVE  Goal
  BY <1>2, <1>5, <1>t, SessionFacts
<1>6. ASSUME NEW r \in Req, StartTask(r) \/ DeleteBranch(r) \/ SyncRepo(r)
      PROVE  Goal
  <2>1. born' = born /\ human' = human
    BY <1>6 DEF StartTask, DeleteBranch, SyncRepo, made
  <2>2. \A n \in Name : refs'[n] \in {refs[n], refs[Integration], NoCommit, rq[r].seen}
    BY <1>6, <1>t DEF StartTask, DeleteBranch, SyncRepo, Synced
  <2>3. QED
    BY <1>0, <1>t, <2>1, <2>2 DEF NoCommit
<1>7. ASSUME NEW r \in Req, MergeTask(r)
      PROVE  Goal
  <2>1. human' = human
    BY <1>7 DEF MergeTask
  <2>2. CASE rq[r].rec.head \subseteq refs[Integration]
    BY <1>1, <1>7, <1>t, <2>1, <2>2 DEF MergeTask
  <2>3. CASE ~(rq[r].rec.head \subseteq refs[Integration])
    <3>1. /\ born' = born + 1
          /\ refs' = [refs EXCEPT ![Integration] =
                        refs[Integration] \cup rq[r].rec.head \cup {born + 1}]
      BY <1>7, <2>3 DEF MergeTask
    <3>2. \A n \in Name : refs'[n] \subseteq refs[n] \cup rq[r].rec.head \cup {born + 1}
      BY <1>t, <3>1
    <3>3. QED
      BY <1>0, <1>t, <2>1, <3>1, <3>2
  <2>4. QED
    BY <2>2, <2>3
<1>8. ASSUME NEW r \in Req, Advance(r),
             ~(StartTask(r) \/ DeleteBranch(r) \/ SyncRepo(r) \/ MergeTask(r))
      PROVE  UNCHANGED <<refs, born, human>>
  BY <1>8 DEF Advance, Acquire, AcquireTask, Refuse, CompleteTask, MergeConflict, MergeRestore,
     RemoveWorktree, WriteRecord, ExportHead, ExportBundle, OpenSession, CloseSession, disk, made
<1>9. CASE Crash \/ (\E c \in strays : StrayEnds(c)) \/ UNCHANGED vars
  BY <1>1, <1>9 DEF Crash, StrayEnds, vars, disk
<1>10. ASSUME NEW c \in strays, Stray(c)
       PROVE  Goal
  BY <1>2, <1>10, <1>t DEF Stray, TypeOK
<1>11. QED
  BY <1>1, <1>3, <1>4, <1>5, <1>6, <1>7, <1>8, <1>9, <1>10 DEF Next

LEMMA NumbersStep ==
  ASSUME LockInv, NumbersInv, [Next]_vars
  PROVE  NumbersInv'
<1>t. /\ TypeOK /\ RequestInv /\ NameInv /\ meta \in [Task -> TaskRecord]
      /\ born \in Nat /\ born' \in Nat /\ born <= born'
  BY NewCommits DEF LockInv, TypeOK
<1>1. ASSUME NEW commit, Known(commit)
      PROVE  commit \subseteq 0 .. born'
  BY <1>1, <1>t DEF Known
<1>2. ASSUME NEW t \in Task
      PROVE  Known(meta'[t].head)
  <2>1. CASE meta'[t] = meta[t]
    BY <2>1 DEF NumbersInv
  <2>2. CASE \E q \in Req : meta'[t] = rq[q].rec
    BY <2>2 DEF NumbersInv
  <2>3. \A q \in Req : WriteRecord(q) => meta'[t] \in {meta[t], rq[q].rec}
    BY <1>t DEF WriteRecord
  <2>4. QED
    BY <2>1, <2>2, <2>3, NextActs, RecordsStay, OutsideStep, StrayStep
<1>3. ASSUME NEW r \in Req
      PROVE  Known(rq'[r].rec.head) /\ Known(rq'[r].seen)
  <2>1. CASE rq'[r] = rq[r]
    BY <2>1 DEF NumbersInv
  <2>2. CASE rq'[r] = NoRequest
    BY <2>2 DEF NoRequest, NoRecord, NoCommit, Known
  <2>3. ASSUME NEW q \in Req, Acts(q), q # r
        PROVE  rq'[r] = rq[r]
    BY <2>3, OthersStay
  <2>4. CASE Acts(r)
    BY <1>t, <2>1, <2>4, BeginKnows, AdvanceKnows, SessionFacts DEF Acts
  <2>5. CASE StrayWrites \/ Outside
    BY <2>1, <2>2, <2>5, StrayStep DEF Outside, HumanCommit, Crash, StrayEnds, vars
  <2>6. QED
    BY <2>1, <2>3, <2>4, <2>5, NextActs
<1>4. QED
  BY <1>1, <1>2, <1>3, NewCommits DEF NumbersInv, Known

(***************************************************************************)
(* Worktrees and branches.                                                 *)
(***************************************************************************)
\* A request that is still being served has acted or is where it was.
LEMMA ActsOrWaits ==
  ASSUME LockInv, [Next]_vars, NEW r \in Req, pc'[r] # "idle"
  PROVE  Acts(r) \/ (pc'[r] = pc[r] /\ rq'[r] = rq[r])
BY NextActs, OthersStay, OutsideStep, StrayStep

\* Whoever makes or removes worktrees and branches has the integration lock, and
\* whoever removes them that of the task too.
LEMMA Removers ==
  ASSUME LockInv, NEW q \in Req
  PROVE  /\ pc[q] \in {"body", "write"} /\ rq[q].op = "start" =>
              Integration \in holds[q] /\ ~rq[q].shared
         /\ \/ pc[q] \in {"removed", "write"} /\ rq[q].op \in {"merge", "abort"}
            \/ RemoveWorktree(q)
            \/ DeleteBranch(q)
            => Integration \in holds[q] /\ rq[q].task \in holds[q] /\ ~rq[q].shared
BY DEF LockInv, RequestInv, HoldsInv, RequestOK, OpsAt, Locks, Checkouts, RemoveWorktree,
       DeleteBranch, AtBody

LEMMA BranchInvStep ==
  ASSUME LockInv, BranchInv, [Next]_vars
  PROVE  BranchInv'
<1>t. /\ LockInv' /\ TypeOK /\ RequestInv /\ NameInv /\ NameInv' /\ rq \in [Req -> Request]
      /\ \A r \in Req : RequestOK(pc[r], rq[r]) /\ holds[r] = Locks(pc[r], rq[r])
      /\ wt' \subseteq Task
  BY LockStep DEF LockInv, RequestInv, HoldsInv, TypeOK
<1>1. ASSUME NEW t \in wt'
      PROVE  refs'[t] # NoCommit
  <2>1. CASE t = Integration
    BY <1>t, <2>1 DEF NameInv, Initial, NoCommit
  <2>2. ASSUME t # Integration, NEW q \in Req, Makes(q, t)
        PROVE  refs'[t] # NoCommit
    BY <1>t, <2>2 DEF Makes, NameInv, Initial, NoCommit
  <2>3. ASSUME t # Integration, NEW q \in Req, Drops(q, t)
        PROVE  FALSE
    BY <1>1, <2>3 DEF Drops, DeleteBranch, BranchInv
  <2>4. CASE Keeps(t) \/ Grows(t)
    BY <1>1, <2>4 DEF Keeps, Grows, BranchInv, NoCommit
  <2>5. QED
    BY <1>1, <1>t, <2>1, <2>2, <2>3, <2>4, BranchStep DEF Removes
<1>2. ASSUME NEW r \in Req, pc'[r] = "removed"
      PROVE  rq'[r].task \notin wt'
  <2>1. CASE Acts(r)
    <3>1. RemoveWorktree(r)
      BY <1>2, <2>1, Arrives
    <3>2. QED
      BY <1>t, <3>1 DEF RemoveWorktree, Goto, Request
  <2>2. CASE pc'[r] = pc[r] /\ rq'[r] = rq[r]
    <3>1. /\ rq[r].task \notin wt /\ rq[r].task \in Task /\ rq[r].task # Integration
          /\ rq[r].op \in {"merge", "abort"}
      BY <1>2, <1>t, <2>2 DEF BranchInv, RequestOK, OpsAt
    <3>2. Integration \in holds[r] /\ ~rq[r].shared
      BY <1>2, <2>2, <3>1, Removers
    <3>3. ASSUME NEW q \in Req, Makes(q, rq[r].task)
          PROVE  FALSE
      <4>1. pc[q] = "body" /\ rq[q].op = "start"
        BY <3>3 DEF Makes, StartTask, AtBody
      <4>2. q # r /\ Integration \in holds[q]
        BY <1>2, <2>2, <4>1, Removers
      <4>3. QED
        BY <3>2, <4>2, TaskIsLocked
    <3>4. QED
      BY <2>2, <3>1, <3>3, BranchStep DEF Keeps, Grows, Drops, Removes
  <2>3. QED
    BY <1>2, <2>1, <2>2, ActsOrWaits
<1>3. ASSUME NEW r \in Req, pc'[r] = "write", rq'[r].op \in {"start", "complete"},
             rq'[r].rec.mode = "parallel"
      PROVE  rq'[r].task \in wt'
  <2>1. CASE rq'[r].op = "complete"
    <3>1. Completing(r)'
      BY <1>3, <2>1 DEF Completing
    <3>2. /\ rq'[r].task = rq[r].task /\ rq[r].task \in Task /\ rq[r].task # Integration
          /\ holds[r] = {rq[r].task} /\ ~rq[r].shared
          /\ (Completing(r) /\ rq'[r] = rq[r]) \/ rq[r].task \in wt
          /\ rq[r].op = "complete"
      BY <3>1, CompletionRequests DEF Completing, CompleteTask, AtBody
    <3>3. rq[r].task \in wt
      BY <3>2 DEF Completing, BranchInv
    <3>4. ASSUME NEW q \in Req, Removes(q, rq[r].task)
          PROVE  FALSE
      <4>1. q # r
        BY <1>t, <3>2, <3>4 DEF Removes, RemoveWorktree, AtBody, RequestOK, OpsAt
      <4>2. rq[r].task \in holds[q]
        BY <3>4, Removers DEF Removes
      <4>3. QED
        BY <3>2, <4>1, <4>2, TaskIsLocked
    <3>5. QED
      BY <3>2, <3>3, <3>4, BranchStep DEF Keeps, Grows, Makes, Drops
  <2>2. CASE rq'[r].op = "start" /\ Acts(r)
    <3>1. StartTask(r) \/ CompleteTask(r) \/ DeleteBranch(r)
      BY <1>3, <2>2, Arrives
    <3>2. rq'[r].op = rq[r].op
      BY <3>1, <1>t DEF StartTask, CompleteTask, DeleteBranch, Goto, Request
    <3>3. StartTask(r)
      BY <1>t, <2>2, <3>1, <3>2 DEF CompleteTask, DeleteBranch, AtBody, RequestOK, OpsAt
    <3>4. rq[r].rec.mode = "parallel" /\ rq'[r].task = rq[r].task
      BY <1>3, <1>t, <3>3 DEF StartTask, Goto, Request, TaskRecord
    <3>5. QED
      BY <3>3, <3>4 DEF StartTask
  <2>3. CASE rq'[r].op = "start" /\ pc'[r] = pc[r] /\ rq'[r] = rq[r]
    <3>1. /\ rq[r].task \in wt /\ rq[r].task \in Task /\ rq[r].task # Integration
          /\ Integration \in holds[r] /\ ~rq[r].shared
      BY <1>3, <1>t, <2>3, Removers DEF BranchInv, RequestOK
    <3>2. ASSUME NEW q \in Req, Removes(q, rq[r].task)
          PROVE  FALSE
      <4>1. q # r
        BY <1>3, <1>t, <2>3, <3>2 DEF Removes, RemoveWorktree, AtBody
      <4>2. Integration \in holds[q]
        BY <3>2, Removers DEF Removes
      <4>3. QED
        BY <3>1, <4>1, <4>2, TaskIsLocked
    <3>3. QED
      BY <2>3, <3>1, <3>2, BranchStep DEF Keeps, Grows, Makes, Drops
  <2>4. QED
    BY <1>3, <2>1, <2>2, <2>3, ActsOrWaits
<1>4. QED
  BY <1>1, <1>2, <1>3 DEF BranchInv

(***************************************************************************)
(* A start that is overtaken.                                              *)
(***************************************************************************)
\* A start that waits for its lock or has it has waited before, or begins now, when
\* its task has no record.
LEMMA StartRequests ==
  ASSUME LockInv, [Next]_vars, NEW r \in Req,
         pc'[r] \in {"lock", "body"}, rq'[r].op = "start"
  PROVE  \/ pc[r] \in {"lock", "body"} /\ rq'[r] = rq[r]
         \/ rq'[r].task \in Task /\ meta'[rq'[r].task].status = "absent"
<1>t. /\ TypeOK /\ RequestInv /\ NameInv /\ rq \in [Req -> Request] /\ pc \in [Req -> PC]
      /\ RequestOK(pc[r], rq[r])
  BY DEF LockInv, TypeOK, RequestInv
<1>1. CASE Begin(r)
  <2>1. UNCHANGED meta
    BY <1>1, <1>t, BeginFacts
  <2>2. ASSUME NEW t \in Task, NEW mode \in {"integration", "parallel"}, NEW deps \in SUBSET Task,
               BeginStart(r, t, mode, deps)
        PROVE  rq'[r].task = t /\ meta[t].status = "absent"
    BY <1>t, <2>2 DEF BeginStart, Submit
  <2>3. ASSUME NEW t \in Task, \/ BeginComplete(r, t) \/ BeginMerge(r, t)
                               \/ BeginAbort(r, t)    \/ BeginIndex(r, t)
        PROVE  FALSE
    BY <1>t, <2>3 DEF BeginComplete, BeginMerge, BeginAbort, BeginIndex, Submit
  <2>4. ASSUME NEW t \in Task, NEW readonly \in BOOLEAN, BeginRun(r, t, readonly)
        PROVE  FALSE
    BY <1>t, <2>4 DEF BeginRun, Submit
  <2>5. ~BeginSync(r) /\ ~BeginExport(r)
    BY <1>t DEF BeginSync, BeginExport, Submit
  <2>6. QED
    BY <1>1, <2>1, <2>2, <2>3, <2>4, <2>5 DEF Begin
<1>2. CASE Session(r)
  BY <1>2, <1>t, SessionFacts DEF Writing
<1>3. CASE Acquire(r)
  BY <1>3 DEF Acquire
<1>4. CASE AcquireTask(r)
  BY <1>4, <1>t DEF AcquireTask, RequestOK, OpsAt
<1>5. CASE Finish(r)
  BY <1>5, <1>t DEF Finish
<1>6. CASE StartTask(r) \/ CompleteTask(r) \/ MergeTask(r) \/ MergeConflict(r)
             \/ RemoveWorktree(r) \/ DeleteBranch(r) \/ OpenSession(r) \/ ExportHead(r)
  BY <1>6, <1>t DEF StartTask, CompleteTask, MergeTask, MergeConflict, RemoveWorktree,
                    DeleteBranch, OpenSession, ExportHead, Goto
<1>7. Acts(r) => \/ Begin(r) \/ Session(r) \/ Acquire(r) \/ AcquireTask(r) \/ Finish(r)
                 \/ StartTask(r) \/ CompleteTask(r) \/ MergeTask(r) \/ MergeConflict(r)
                 \/ RemoveWorktree(r) \/ DeleteBranch(r) \/ OpenSession(r) \/ ExportHead(r)
  BY DEF Acts, Advance, Refuse, MergeRestore, WriteRecord, SyncRepo, ExportBundle, CloseSession
<1>8. Acts(r) \/ (pc'[r] = pc[r] /\ rq'[r] = rq[r])
  BY ActsOrWaits
<1>9. QED
  BY <1>1, <1>2, <1>3, <1>4, <1>5, <1>6, <1>7, <1>8

\* Only write_json changes a record, and only to what its thread has prepared.
LEMMA RecordWritten ==
  ASSUME LockInv, [Next]_vars, NEW t \in Task, meta'[t] # meta[t]
  PROVE  \E q \in Req : /\ WriteRecord(q) /\ rq[q].task = t /\ meta'[t] = rq[q].rec
                        /\ pc[q] = "write" /\ RequestOK("write", rq[q])
<1>1. PICK q \in Req : WriteRecord(q)
  BY NextActs, RecordsStay, OutsideStep, StrayStep
<1>2. QED
  BY <1>1 DEF WriteRecord, LockInv, TypeOK, RequestInv

LEMMA RestartStep ==
  ASSUME LockInv, BranchInv, RestartInv, [Next]_vars
  PROVE  RestartInv'
<1>t. /\ TypeOK /\ RequestInv /\ NameInv /\ rq \in [Req -> Request] /\ pc \in [Req -> PC]
      /\ NameInv'
  BY LockStep DEF LockInv, TypeOK
<1>1. SUFFICES ASSUME NEW r \in Req, pc'[r] \in {"lock", "body"}, rq'[r].op = "start",
                      NEW t \in PendingParallel', rq'[r].task = t, refs'[t] = NoCommit
               PROVE  Discarding(t)'
  BY DEF RestartInv
<1>2. t \in Task /\ t # Integration /\ meta'[t].mode = "parallel"
      /\ meta'[t].status \in {"active", "completed"}
  BY <1>1, <1>t DEF PendingParallel, NameInv
<1>3. pc[r] \in {"lock", "body"} /\ rq[r] = rq'[r]
  BY <1>1, <1>2, StartRequests
\* The branch was not there already unless somebody is discarding it.
<1>4. ASSUME refs[t] = NoCommit
      PROVE  Discarding(t)
  <2>1. t \notin wt
    BY <1>4 DEF BranchInv
  <2>2. meta'[t] = meta[t]
    <3>1. SUFFICES ASSUME meta'[t] # meta[t] PROVE FALSE
      OBVIOUS
    <3>2. PICK q \in Req : /\ rq[q].task = t /\ meta'[t] = rq[q].rec /\ pc[q] = "write"
                           /\ RequestOK("write", rq[q])
      BY <1>2, <3>1, RecordWritten
    <3>3. rq[q].op \in {"start", "complete"} /\ rq[q].rec.mode = "parallel"
      BY <1>2, <3>2 DEF RequestOK, OpsAt, StatusWritten
    <3>4. QED
      BY <2>1, <3>2, <3>3 DEF BranchInv
  <2>3. t \in PendingParallel
    BY <1>2, <2>2 DEF PendingParallel
  <2>4. QED
    BY <1>1, <1>3, <1>4, <2>3 DEF RestartInv
\* It goes on discarding until it has written that the task is not pending.
<1>5. CASE Discarding(t)
  <2>1. PICK q \in Req : pc[q] = "write" /\ rq[q].op \in {"merge", "abort"} /\ rq[q].task = t
    BY <1>5 DEF Discarding
  <2>2. CASE pc'[q] = pc[q] /\ rq'[q] = rq[q]
    BY <2>1, <2>2 DEF Discarding
  <2>3. CASE WriteRecord(q)
    <3>1. meta'[t] = rq[q].rec /\ RequestOK("write", rq[q])
      BY <1>2, <1>t, <2>1, <2>3 DEF WriteRecord, TypeOK, RequestInv
    <3>2. QED
      BY <1>2, <2>1, <3>1 DEF RequestOK, StatusWritten
  <2>4. Acts(q) => WriteRecord(q)
    <3>1. Begin(q) => pc[q] = "idle"
      BY <1>t, BeginFacts
    <3>2. Session(q) => pc[q] = "session"
      BY <1>t, SessionFacts DEF Writing
    <3>3. QED
      BY <2>1, <3>1, <3>2 DEF Acts, Advance, Acquire, AcquireTask, Refuse, StartTask, CompleteTask,
         MergeTask, MergeConflict, MergeRestore, RemoveWorktree, DeleteBranch, SyncRepo, ExportHead,
         ExportBundle, OpenSession, CloseSession, AtBody
  <2>5. (\E p \in Req : Acts(p)) \/ StrayWrites \/ Outside
    BY NextActs
  <2>6. ~(\A p \in Req : pc'[p] = "idle")
    BY <1>1
  <2>7. QED
    BY <2>2, <2>3, <2>4, <2>5, <2>6, OthersStay, StrayStep, OutsideStep
<1>6. CASE refs[t] # NoCommit
  <2>1. PICK q \in Req : Drops(q, t)
    BY <1>1, <1>2, <1>6, BranchStep DEF Keeps, Grows, Makes, Removes, NoCommit
  <2>2. /\ pc'[q] = "write" /\ rq'[q].op = rq[q].op /\ rq'[q].task = t
        /\ rq[q].op \in {"merge", "abort"}
    BY <1>t, <2>1 DEF Drops, DeleteBranch, Goto, Request, RequestInv, RequestOK, OpsAt
  <2>3. QED
    BY <2>2 DEF Discarding
<1>7. QED
  BY <1>4, <1>5, <1>6

(***************************************************************************)
(* The heads.                                                              *)
(***************************************************************************)
\* A record that becomes that of a completed task, or stays one with another head,
\* is written by a completion.
LEMMA DoneWritten ==
  ASSUME LockInv, [Next]_vars, NEW t \in Task, Done(t)', meta'[t] # meta[t]
  PROVE  \E q \in Req : WriteRecord(q) /\ Completing(q) /\ rq[q].task = t /\ meta'[t] = rq[q].rec
<1>1. PICK q \in Req : /\ WriteRecord(q) /\ rq[q].task = t /\ meta'[t] = rq[q].rec
                       /\ pc[q] = "write" /\ RequestOK("write", rq[q])
  BY RecordWritten
<1>2. Completing(q)
  BY <1>1 DEF Done, Completing, RequestOK, OpsAt, StatusWritten
<1>3. QED
  BY <1>1, <1>2

\* Every head somebody knows is one of a commit made before.
LEMMA NotTheNewCommit ==
  ASSUME LockInv, NumbersInv, [Next]_vars
  PROVE  /\ \A t \in Task : born + 1 \notin meta'[t].head
         /\ \A r \in Req : rq'[r].op = "merge" => born + 1 \notin rq'[r].rec.head
<1>1. /\ \A t \in Task : born + 1 \notin meta[t].head
      /\ \A r \in Req : born + 1 \notin rq[r].rec.head
  <2>1. born \in Nat /\ born + 1 \notin 0 .. born
    BY DEF LockInv, TypeOK
  <2>2. QED
    BY <2>1 DEF NumbersInv, Known
<1>2. \A t \in Task : meta'[t] = meta[t] \/ \E q \in Req : meta'[t] = rq[q].rec
  BY RecordWritten
<1>3. \A r \in Req : rq'[r].op = "merge" =>
        \/ rq'[r].rec.head = rq[r].rec.head
        \/ \E t \in Task : rq'[r].rec = meta[t]
  BY MergeRequests
<1>4. QED
  BY <1>1, <1>2, <1>3

\* A start never makes a new branch for a completed task.
LEMMA NotRemade ==
  ASSUME LockInv, RestartInv, NEW q \in Req, NEW t \in Task, Makes(q, t)
  PROVE  meta' = meta /\ ~Done(t)
<1>1. pc[q] = "body" /\ rq[q].op = "start" /\ rq[q].task = t /\ refs[t] = NoCommit /\ meta' = meta
  BY DEF Makes, StartTask, AtBody
<1>2. ASSUME Done(t)
      PROVE  FALSE
  <2>1. Discarding(t)
    BY <1>1, <1>2 DEF RestartInv, PendingParallel, Done
  <2>2. PICK p \in Req : pc[p] = "write" /\ rq[p].op \in {"merge", "abort"}
    BY <2>1 DEF Discarding
  <2>3. p # q /\ Integration \in holds[p] /\ Integration \in holds[q] /\ ~rq[q].shared
    BY <1>1, <2>2, Removers
  <2>4. QED
    BY <2>3, TaskIsLocked
<1>3. QED
  BY <1>1, <1>2

LEMMA HeadStep ==
  ASSUME HeadsInv, [Next]_vars
  PROVE  HeadInv'
<1>t. /\ LockInv /\ TypeOK /\ NameInv' /\ NumbersInv /\ RestartInv /\ HeadInv /\ NewHeadInv
  BY LockStep DEF HeadsInv, LockInv
<1>1. SUFFICES ASSUME NEW r \in Req, NEW t \in Task, Merges(r, t)', Done(t)',
                      rq'[r].rec.head = refs'[t], refs'[t] # NoCommit
               PROVE  meta'[t].head = refs'[t]
  BY DEF HeadInv
<1>2. t # Integration
  BY <1>1, <1>t DEF Done, NameInv
<1>3. CASE BeginMerge(r, t) /\ rq'[r].rec = meta[t]
  <2>1. UNCHANGED meta
    BY <1>3 DEF BeginMerge, Submit, disk
  <2>2. QED
    BY <1>1, <1>3, <2>1
<1>4. CASE Merges(r, t) /\ rq'[r].rec.head = rq[r].rec.head
  <2>1. refs'[t] = refs[t]
    <3>1. ~Grows(t)
      BY <1>1, <1>t, NotTheNewCommit DEF Grows, Merges
    <3>2. ASSUME NEW q \in Req, Makes(q, t)
          PROVE  FALSE
      BY <1>1, <1>t, <3>2, NotRemade DEF Done
    <3>3. QED
      BY <1>1, <1>2, <1>t, <3>1, <3>2, BranchStep DEF Keeps, Drops, Removes
  <2>2. CASE meta'[t] = meta[t]
    BY <1>1, <1>4, <1>t, <2>1, <2>2 DEF HeadInv, Done
  <2>3. CASE meta'[t] # meta[t]
    <3>1. PICK q \in Req : Completing(q) /\ rq[q].task = t /\ meta'[t] = rq[q].rec
      BY <1>1, <1>t, <2>3, DoneWritten
    <3>2. rq[r].rec.head = refs[t]
      BY <1>1, <1>4, <2>1
    <3>3. rq[q].rec.head = refs[t]
      BY <1>4, <1>t, <3>1, <3>2 DEF NewHeadInv
    <3>4. QED
      BY <2>1, <3>1, <3>3
  <2>4. QED
    BY <2>2, <2>3
<1>5. QED
  BY <1>1, <1>3, <1>4, <1>t, MergeRequests DEF Merges

LEMMA NewHeadStep ==
  ASSUME HeadsInv, [Next]_vars
  PROVE  NewHeadInv'
<1>t. LockInv /\ NumbersInv /\ BranchInv /\ NewHeadInv
  BY DEF HeadsInv
<1>1. SUFFICES ASSUME NEW q \in Req, Completing(q)', NEW t, t = rq'[q].task
               PROVE  /\ Done(t)' /\ meta'[t].head = refs'[t] => rq'[q].rec.head = refs'[t]
                      /\ \A r \in Req : Merges(r, t)' /\ rq'[r].rec.head = refs'[t] =>
                                           rq'[q].rec.head = refs'[t]
  BY DEF NewHeadInv
<1>2. /\ t = rq[q].task /\ t \in Task /\ t # Integration /\ holds[q] = {t} /\ ~rq[q].shared
      /\ \/ Completing(q) /\ pc'[q] = pc[q] /\ rq'[q] = rq[q]
         \/ CompleteTask(q) /\ rq'[q].rec.head = refs[t]
  BY <1>1, <1>t, CompletionRequests
<1>3. CASE CompleteTask(q) /\ rq'[q].rec.head = refs[t]
  BY <1>3 DEF CompleteTask, disk
<1>4. CASE Grows(t)
  BY <1>2, <1>4, <1>t, NotTheNewCommit DEF Grows, Merges
<1>5. CASE Completing(q) /\ pc'[q] = pc[q] /\ rq'[q] = rq[q] /\ ~Grows(t)
  <2>1. t \in wt /\ q \in Req /\ pc[q] = "write" /\ rq[q].op = "complete"
    BY <1>2, <1>5, <1>t DEF Completing, BranchInv
  <2>2. ASSUME NEW p \in Req, t \in holds[p], ~rq[p].shared
        PROVE  p = q
    BY <1>2, <1>t, <2>2, TaskIsLocked
  <2>3. ASSUME NEW p \in Req, Drops(p, t) \/ Removes(p, t)
        PROVE  FALSE
    <3>1. t \in holds[p] /\ ~rq[p].shared /\ (DeleteBranch(p) \/ RemoveWorktree(p))
      BY <1>t, <2>3, Removers DEF Drops, Removes
    <3>2. p = q
      BY <2>2, <3>1
    <3>3. QED
      BY <2>1, <3>1, <3>2 DEF DeleteBranch, RemoveWorktree, AtBody
  <2>4. refs'[t] = refs[t]
    BY <1>2, <1>5, <1>t, <2>1, <2>3, BranchStep DEF Keeps, Makes
  <2>5. ASSUME Done(t)', meta'[t].head = refs[t]
        PROVE  rq[q].rec.head = refs[t]
    <3>1. CASE meta'[t] = meta[t]
      BY <1>2, <1>5, <1>t, <2>5, <3>1 DEF NewHeadInv, Done
    <3>2. CASE meta'[t] # meta[t]
      <4>1. PICK p \in Req : WriteRecord(p) /\ Completing(p) /\ rq[p].task = t
                             /\ meta'[t] = rq[p].rec
        BY <1>2, <1>t, <2>5, <3>2, DoneWritten
      <4>2. QED
        <5>1. t \in holds[p] /\ ~rq[p].shared
          BY <1>t, <4>1, CompleterHasTask DEF Completing
        <5>2. p = q
          BY <2>2, <5>1
        <5>3. QED
          BY <2>5, <4>1, <5>2
    <3>3. QED
      BY <3>1, <3>2
  <2>6. ASSUME NEW r \in Req, Merges(r, t)', rq'[r].rec.head = refs[t]
        PROVE  rq[q].rec.head = refs[t]
    <3>1. CASE Merges(r, t) /\ rq'[r].rec.head = rq[r].rec.head
      BY <1>2, <1>5, <1>t, <2>6, <3>1 DEF NewHeadInv
    <3>2. CASE BeginMerge(r, t) /\ rq'[r].rec = meta[t]
      <4>1. Done(t) /\ meta[t].head = refs[t]
        BY <2>6, <3>2 DEF BeginMerge, Done
      <4>2. QED
        BY <1>2, <1>5, <1>t, <4>1 DEF NewHeadInv
    <3>3. QED
      BY <1>t, <2>6, <3>1, <3>2, MergeRequests DEF Merges
  <2>7. QED
    BY <1>5, <2>4, <2>5, <2>6
<1>6. QED
  BY <1>2, <1>3, <1>4, <1>5

LEMMA HeadsInit == Init => HeadsInv
<1>1. ASSUME Init
      PROVE  NumbersInv
  BY <1>1 DEF Init, NumbersInv, Known, Initial, NoCommit, NoRecord, NoRequest
<1>2. Init => BranchInv /\ RestartInv /\ HeadInv /\ NewHeadInv
  BY DEF Init, BranchInv, RestartInv, HeadInv, NewHeadInv, Merges, Completing, NoRequest
<1>3. QED
  BY <1>1, <1>2, LockInit DEF HeadsInv

LEMMA HeadsStep == HeadsInv /\ [Next]_vars => HeadsInv'
<1>1. ASSUME HeadsInv, [Next]_vars
      PROVE  LockInv' /\ NumbersInv' /\ BranchInv' /\ RestartInv'
  BY <1>1, LockStep, NumbersStep, BranchInvStep, RestartStep DEF HeadsInv
<1>2. ASSUME HeadsInv, [Next]_vars
      PROVE  HeadInv' /\ NewHeadInv'
  BY <1>2, HeadStep, NewHeadStep
<1>3. QED
  BY <1>1, <1>2 DEF HeadsInv

(***************************************************************************)
(* What a merge integrates.                                                *)
(***************************************************************************)
\* Every head that is known, on disk or by a request, is one of a commit made before,
\* worktrees have their branches, and the three kinds of heads agree on the branch.
THEOREM HeadsAgree == Spec => []HeadsInv
BY HeadsInit, HeadsStep, PTL DEF Spec

\* task-merge integrates the head that a completed parallel task's record names at
\* that moment, for any number of threads, crashes and containers that outlive agentd.
THEOREM MergesWhatIsRecorded == Spec => MergesRecordedHead
<1> DEFINE Integrates(r) ==
             LET rec == meta[rq[r].task]  tip == refs[Integration] IN
             pc[r] = "body" /\ pc'[r] = "merged" /\ rec.mode = "parallel" /\ rec.status = "completed"
               => refs'[Integration] = tip \cup rec.head
                                         \cup IF rec.head \subseteq tip THEN {} ELSE {born'}
<1>1. ASSUME HeadsInv, [Next]_vars, NEW r \in Req
      PROVE  Integrates(r)
  <2> DEFINE t == rq[r].task
             tip == refs[Integration]
  <2>1. SUFFICES ASSUME pc[r] = "body", pc'[r] = "merged", Done(t)
                 PROVE  refs'[Integration] = tip \cup meta[t].head
                          \cup IF meta[t].head \subseteq tip THEN {} ELSE {born'}
    BY DEF Done
  <2>2. LockInv /\ refs \in [Name -> Commit] /\ Integration \in Name
    BY <1>1 DEF HeadsInv, LockInv, TypeOK, Name
  <2>3. MergeTask(r)
    <3>1. Acts(r)
      BY <1>1, <2>1, <2>2, ActsOrWaits
    <3>2. QED
      BY <2>1, <2>2, <3>1, Arrives
  <2>4. /\ rq[r].op = "merge" /\ rq[r].rec.head # NoCommit /\ refs[t] = rq[r].rec.head
        /\ t \in Task
    BY <2>2, <2>3 DEF MergeTask, AtBody, Accepts, Mergeable, LockInv, RequestInv, RequestOK
  <2>5. meta[t].head = rq[r].rec.head
    BY <1>1, <2>1, <2>4 DEF HeadsInv, HeadInv, Merges
  <2>6. CASE meta[t].head \subseteq tip
    <3>1. refs'[Integration] = tip
      BY <2>2, <2>3, <2>5, <2>6 DEF MergeTask
    <3>2. QED
      BY <2>6, <3>1
  <2>7. CASE ~(meta[t].head \subseteq tip)
    <3>1. refs'[Integration] = tip \cup meta[t].head \cup {born + 1} /\ born' = born + 1
      BY <2>2, <2>3, <2>5, <2>7 DEF MergeTask
    <3>2. QED
      BY <2>7, <3>1
  <2>8. QED
    BY <2>6, <2>7
<1>2. HeadsInv /\ [Next]_vars => [\A r \in Req : Integrates(r)]_vars
  BY <1>1
<1>3. QED
  BY HeadsAgree, <1>2, PTL DEF Spec, MergesRecordedHead

(***************************************************************************)
(* What can be discarded.                                                  *)
(***************************************************************************)
NoCrashes == "crash" \notin Env

\* A merge or an abort has removed the worktree of t and has still to say so.
Clearing(q, t) == pc[q] \in {"removed", "write"} /\ rq[q].op \in {"merge", "abort"} /\ rq[q].task = t

\* The worktree of a pending task is there, unless somebody is at work who will write
\* that the task is not pending.
PendingInv == \A t \in PendingParallel : t \in wt \/ \E q \in Req : Clearing(q, t)

\* Who has removed the worktree goes on until it has written the record.
LEMMA ClearingGoesOn ==
  ASSUME NoCrashes, LockInv, [Next]_vars, NEW t \in PendingParallel', NEW q \in Req, Clearing(q, t)
  PROVE  Clearing(q, t)'
<1>t. /\ TypeOK /\ RequestInv /\ NameInv /\ rq \in [Req -> Request] /\ pc \in [Req -> PC]
      /\ meta \in [Task -> TaskRecord] /\ pc[q] \in {"removed", "write"}
  BY DEF LockInv, TypeOK, Clearing
<1>1. CASE pc'[q] = pc[q] /\ rq'[q] = rq[q]
  BY <1>1 DEF Clearing
<1>2. CASE DeleteBranch(q)
  BY <1>2, <1>t DEF Clearing, DeleteBranch, Goto, Request
<1>3. CASE WriteRecord(q)
  <2>1. /\ meta'[t] = rq[q].rec /\ RequestOK("write", rq[q]) /\ rq[q].op \in {"merge", "abort"}
    BY <1>3, <1>t DEF Clearing, WriteRecord, RequestInv, PendingParallel
  <2>2. QED
    BY <2>1 DEF RequestOK, StatusWritten, PendingParallel
<1>4. Acts(q) => DeleteBranch(q) \/ WriteRecord(q)
  <2>1. Begin(q) => pc[q] = "idle"
    BY <1>t, BeginFacts
  <2>2. Session(q) => pc[q] = "session"
    BY <1>t, SessionFacts DEF Writing
  <2>3. QED
    BY <1>t, <2>1, <2>2 DEF Acts, Advance, Acquire, AcquireTask, Refuse, StartTask, CompleteTask,
       MergeTask, MergeConflict, MergeRestore, RemoveWorktree, SyncRepo, ExportHead, ExportBundle,
       OpenSession, CloseSession, AtBody
<1>5. Outside => UNCHANGED <<pc, rq>>
  BY DEF NoCrashes, Outside, HumanCommit, Crash, StrayEnds, vars
<1>6. QED
  BY <1>1, <1>2, <1>3, <1>4, <1>5, NextActs, OthersStay, StrayStep

LEMMA PendingStep ==
  ASSUME NoCrashes, HeadsInv, PendingInv, [Next]_vars
  PROVE  PendingInv'
<1>t. /\ LockInv /\ BranchInv /\ RequestInv /\ NameInv' /\ rq \in [Req -> Request]
      /\ pc \in [Req -> PC]
  BY LockStep DEF HeadsInv, LockInv, TypeOK
<1>1. SUFFICES ASSUME NEW t \in PendingParallel', t \notin wt'
               PROVE  \E q \in Req : Clearing(q, t)'
  BY DEF PendingInv
<1>2. t \in Task /\ t # Integration /\ meta'[t].mode = "parallel"
      /\ meta'[t].status \in {"active", "completed"}
  BY <1>t DEF PendingParallel, NameInv
<1>3. ASSUME NEW q \in Req, Clearing(q, t)
      PROVE  \E p \in Req : Clearing(p, t)'
  BY <1>3, <1>t, ClearingGoesOn
<1>4. CASE t \in wt
  <2>1. PICK q \in Req : Removes(q, t)
    BY <1>1, <1>2, <1>4, <1>t, BranchStep DEF Keeps, Grows, Makes, Drops
  <2>2. RemoveWorktree(q) /\ rq[q].task = t /\ RequestOK(pc[q], rq[q])
    BY <1>t, <2>1 DEF Removes, RequestInv
  <2>3. /\ pc'[q] = "removed" /\ rq'[q].task = t /\ rq'[q].op = rq[q].op
        /\ rq[q].op \in {"merge", "abort"}
    BY <1>t, <2>2 DEF RemoveWorktree, AtBody, Goto, Request, RequestOK, OpsAt
  <2>4. QED
    BY <2>3 DEF Clearing
<1>5. CASE t \notin wt
  <2>1. meta'[t] = meta[t]
    <3>1. SUFFICES ASSUME meta'[t] # meta[t] PROVE FALSE
      OBVIOUS
    <3>2. PICK q \in Req : /\ rq[q].task = t /\ meta'[t] = rq[q].rec /\ pc[q] = "write"
                           /\ RequestOK("write", rq[q])
      BY <1>2, <1>t, <3>1, RecordWritten
    <3>3. rq[q].op \in {"start", "complete"} /\ rq[q].rec.mode = "parallel"
      BY <1>2, <3>2 DEF RequestOK, OpsAt, StatusWritten
    <3>4. QED
      BY <1>5, <1>t, <3>2, <3>3 DEF BranchInv
  <2>2. t \in PendingParallel
    BY <1>2, <2>1 DEF PendingParallel
  <2>3. PICK q \in Req : Clearing(q, t)
    BY <1>5, <2>2 DEF PendingInv
  <2>4. QED
    BY <1>3, <2>3
<1>6. QED
  BY <1>4, <1>5

\* While agentd does not die, a parallel task that is active or completed can always be
\* discarded with task-abort once the project is quiet: no merge, conflict, refused or
\* overtaken request takes the worktree from under a record that is still pending.
THEOREM PendingStaysAbortable == ASSUME NoCrashes PROVE Spec => []PendingCanBeAborted
<1>1. Init => PendingInv
  BY DEF Init, PendingInv, PendingParallel, NoRecord
<1>2. HeadsInv /\ PendingInv /\ [Next]_vars => PendingInv'
  BY PendingStep
<1>3. HeadsInv /\ PendingInv => PendingCanBeAborted
  <2> SUFFICES ASSUME HeadsInv, PendingInv, NEW t \in PendingParallel, \A r \in Req : pc[r] = "idle"
               PROVE  Loadable(t)
    BY DEF PendingCanBeAborted
  <2>1. t \in wt
    BY DEF PendingInv, Clearing
  <2>2. QED
    BY <2>1 DEF Loadable, Present, PendingParallel
<1>4. QED
  BY <1>1, <1>2, <1>3, HeadsAgree, PTL DEF Spec
=============================================================================
