----------------------------- MODULE TaskProofs -----------------------------
(***************************************************************************)
(* Proofs about the task life cycle, for any tasks, threads, operations    *)
(* and environment.  The inductive invariant says, in this order: what a   *)
(* request looks like at each point, which names can be branches of tasks, *)
(* which locks a thread holds and that they exclude each other, and what   *)
(* the steps under those locks may therefore rely on.                      *)
(***************************************************************************)
EXTENDS TaskProperties, TLAPS

(***************************************************************************)
(* The inductive invariant.                                                *)
(***************************************************************************)
OpsAt(label) ==
  CASE label = "idle"                   -> {"none"}
    [] label \in {"lock", "body"}       -> AllOps
    [] label \in {"merged", "conflict"} -> {"merge"}
    [] label \in {"nested", "removed"}  -> {"merge", "abort"}
    [] label = "write"                  -> {"start", "complete", "merge", "abort"}
    [] label = "bundle"                 -> {"export"}
    [] OTHER                            -> {"run", "index"}

\* The status of the record an operation is about to write.
StatusWritten(op) ==
  CASE op = "start"    -> "active"
    [] op = "complete" -> "completed"
    [] op = "merge"    -> "merged"
    [] OTHER           -> "aborted"

\* What a request q looks like while its thread is at label.
RequestOK(label, q) ==
  /\ q.op \in OpsAt(label)
  /\ q.op \in {"start", "sync", "export", "merge", "abort"} => q.lock = Integration
  /\ q.op \in {"complete", "run", "index"} => q.lock = Workspace(q.task, q.rec)
  /\ q.shared => q.op \in {"run", "export"}
  /\ q.op \in {"start", "complete", "merge", "abort"} => q.task \in Task
  /\ q.op \in {"merge", "abort"} => q.rec.mode = "parallel"
  /\ q.op = "start" => q.rec.mode # "none" /\ q.rec.status = "active"
  /\ q.op \in {"complete", "index"} => q.rec.status # "merged"
  /\ (q.op # "start" \/ label = "write") /\ q.rec.mode = "parallel" => q.task # Integration
  /\ label = "write" => q.rec.status = StatusWritten(q.op)

RequestInv == \A r \in Req : RequestOK(pc[r], rq[r])

\* Nobody can make a parallel task of the integration branch.
NameInv == /\ Initial \subseteq refs[Integration]
           /\ \A t \in Task : meta[t].mode = "parallel" => t # Integration

\* A working thread holds the locks of exactly the checkouts it touches.
Locks(label, q) == IF label \in {"idle", "lock"} THEN {}
                   ELSE IF label = "nested" THEN {Integration} ELSE Checkouts(q)

HoldsInv == \A r \in Req : holds[r] = Locks(pc[r], rq[r])

MutexInv ==
  \A r, q \in Req : r # q /\ holds[r] \cap holds[q] # {} => rq[r].shared /\ rq[q].shared

\* The check of a sequential start still holds when it writes its record.
StartInv ==
  \A r \in Req : pc[r] = "write" /\ rq[r].op = "start" /\ rq[r].rec.mode = "integration"
                   => ActiveSequential = {}

\* The record a merge is about to write describes the integration branch.
MergeInv ==
  \A r \in Req : pc[r] \in {"merged", "removed", "write"} /\ rq[r].op = "merge" =>
     rq[r].rec.head \subseteq rq[r].rec.merge /\ rq[r].rec.merge \subseteq refs[Integration]

\* The head a task-complete is about to write is that of a checkout that is there.
CompleteInv ==
  \A r \in Req : pc[r] = "write" /\ rq[r].op = "complete" => Present(rq[r].task, rq[r].rec)

LockInv == TypeOK /\ RequestInv /\ NameInv /\ HoldsInv /\ MutexInv

\* What relies on the locks alone: a container that outlived agentd has none.
ContainersDie == "survive" \notin Env
Guarded == strays = {} /\ CleanupCannotFail /\ RecordedHeadIsCurrent /\ CompleteInv
             /\ ExportConsistent

IInv == /\ LockInv
        /\ OneActiveSequential /\ StartInv
        /\ MergedIsIntegrated /\ MergeInv
        /\ ContainersDie => Guarded

(***************************************************************************)
(* Requests.                                                               *)
(***************************************************************************)
LEMMA RecordTypes ==
  /\ NoRecord \in TaskRecord
  /\ NoRequest \in Request
  /\ RequestOK("idle", NoRequest)
BY DEF NoRecord, TaskRecord, NoRequest, Request, NoCommit, Commit, Name, RequestOK,
       OpsAt, AllOps

Ask(op, t, rec, lock, shared, seen) ==
  [op |-> op, task |-> t, rec |-> rec, lock |-> lock, shared |-> shared, seen |-> seen]

\* A request that passes its checks is a well-formed request waiting for its lock,
\* and nothing else has changed.
LEMMA BeginFacts ==
  ASSUME TypeOK, NameInv, NEW r \in Req, Begin(r)
  PROVE  /\ pc[r] = "idle"
         /\ pc' = [pc EXCEPT ![r] = "lock"]
         /\ \E q \in Request : RequestOK("lock", q) /\ rq' = [rq EXCEPT ![r] = q]
         /\ UNCHANGED <<meta, refs, wt, tree, born, human, holds, strays>>
<1> USE DEF Commit, Name, NoCommit
<1> DEFINE Goal == /\ pc[r] = "idle"
                   /\ pc' = [pc EXCEPT ![r] = "lock"]
                   /\ \E q \in Request : RequestOK("lock", q) /\ rq' = [rq EXCEPT ![r] = q]
                   /\ UNCHANGED <<meta, refs, wt, tree, born, human, holds, strays>>
<1>1. ASSUME NEW q \in Request, RequestOK("lock", q), rq' = [rq EXCEPT ![r] = q],
             pc[r] = "idle", pc' = [pc EXCEPT ![r] = "lock"],
             UNCHANGED <<disk, made, holds>>
      PROVE  Goal
  BY <1>1 DEF disk, made
<1> HIDE DEF Goal
<1>t. \A t \in Task : meta[t] \in TaskRecord /\ t \in Name
  BY DEF TypeOK
<1>2. ASSUME NEW t \in Task, NEW mode \in {"integration", "parallel"}, NEW deps \in SUBSET Task,
             BeginStart(r, t, mode, deps)
      PROVE  Goal
  <2> DEFINE rec == [NoRecord EXCEPT !.mode = mode, !.status = "active", !.deps = deps]
  <2>1. rec \in TaskRecord /\ rec.mode # "none" /\ rec.status = "active"
    BY DEF NoRecord, TaskRecord
  <2>2. RequestOK("lock", Ask("start", t, rec, Integration, FALSE, NoCommit))
    BY <2>1 DEF Ask, RequestOK, OpsAt, AllOps
  <2> HIDE DEF rec
  <2>3. Submit(r, "start", t, rec, Integration, FALSE, NoCommit)
    BY <1>2 DEF BeginStart, rec
  <2>4. Ask("start", t, rec, Integration, FALSE, NoCommit) \in Request
    BY <2>1, <2>2, <2>3, <1>t DEF Ask, Request, AllOps
  <2>5. QED
    BY <2>1, <2>2, <2>3, <2>4, <1>1 DEF Submit, Ask
<1>3. ASSUME NEW t \in Task, BeginComplete(r, t)
      PROVE  Goal
  <2>1. RequestOK("lock", Ask("complete", t, meta[t], TaskLock(t, meta[t]), FALSE, NoCommit))
    BY <1>3, <1>t DEF BeginComplete, Ask, RequestOK, OpsAt, AllOps, TaskLock, Workspace,
                      InRepoAgent, NameInv, TaskRecord
  <2>2. TaskLock(t, meta[t]) \in Name
    BY DEF TaskLock
  <2>3. Submit(r, "complete", t, meta[t], TaskLock(t, meta[t]), FALSE, NoCommit)
    BY <1>3 DEF BeginComplete
  <2>4. Ask("complete", t, meta[t], TaskLock(t, meta[t]), FALSE, NoCommit) \in Request
    BY <2>1, <2>2, <2>3, <1>t DEF Ask, Request, AllOps
  <2>5. QED
    BY <2>1, <2>2, <2>3, <2>4, <1>1 DEF Submit, Ask
<1>4. ASSUME NEW t \in Task, BeginMerge(r, t)
      PROVE  Goal
  <2>1. RequestOK("lock", Ask("merge", t, meta[t], Integration, FALSE, NoCommit))
    BY <1>4, <1>t DEF BeginMerge, Ask, RequestOK, OpsAt, AllOps, NameInv
  <2>2. Submit(r, "merge", t, meta[t], Integration, FALSE, NoCommit)
    BY <1>4 DEF BeginMerge
  <2>3. Ask("merge", t, meta[t], Integration, FALSE, NoCommit) \in Request
    BY <2>1, <2>2, <1>t DEF Ask, Request, AllOps
  <2>4. QED
    BY <2>1, <2>2, <2>3, <1>1 DEF Submit, Ask
<1>5. ASSUME NEW t \in Task, BeginAbort(r, t)
      PROVE  Goal
  <2>1. RequestOK("lock", Ask("abort", t, meta[t], Integration, FALSE, NoCommit))
    BY <1>5, <1>t DEF BeginAbort, PendingParallel, Ask, RequestOK, OpsAt, AllOps, NameInv
  <2>2. Submit(r, "abort", t, meta[t], Integration, FALSE, NoCommit)
    BY <1>5 DEF BeginAbort
  <2>3. Ask("abort", t, meta[t], Integration, FALSE, NoCommit) \in Request
    BY <2>1, <2>2, <1>t DEF Ask, Request, AllOps
  <2>4. QED
    BY <2>1, <2>2, <2>3, <1>1 DEF Submit, Ask
<1>6. ASSUME NEW t \in Task, BeginIndex(r, t)
      PROVE  Goal
  <2>1. RequestOK("lock", Ask("index", t, meta[t], TaskLock(t, meta[t]), FALSE, NoCommit))
    BY <1>6, <1>t DEF BeginIndex, Ask, RequestOK, OpsAt, AllOps, TaskLock, Workspace,
                      InRepoAgent, NameInv
  <2>2. TaskLock(t, meta[t]) \in Name
    BY DEF TaskLock
  <2>3. Submit(r, "index", t, meta[t], TaskLock(t, meta[t]), FALSE, NoCommit)
    BY <1>6 DEF BeginIndex
  <2>4. Ask("index", t, meta[t], TaskLock(t, meta[t]), FALSE, NoCommit) \in Request
    BY <2>1, <2>2, <2>3, <1>t DEF Ask, Request, AllOps
  <2>5. QED
    BY <2>1, <2>2, <2>3, <2>4, <1>1 DEF Submit, Ask
<1>7. ASSUME NEW t \in Task, NEW readonly \in BOOLEAN, BeginRun(r, t, readonly)
      PROVE  Goal
  <2>1. RequestOK("lock", Ask("run", t, meta[t], RunLock(t, meta[t]), readonly, NoCommit))
    BY <1>7, <1>t DEF BeginRun, Ask, RequestOK, OpsAt, AllOps, RunLock, Workspace,
                      InRepoAgent, NameInv
  <2>2. RunLock(t, meta[t]) \in Name
    BY DEF RunLock
  <2>3. Submit(r, "run", t, meta[t], RunLock(t, meta[t]), readonly, NoCommit)
    BY <1>7 DEF BeginRun
  <2>4. Ask("run", t, meta[t], RunLock(t, meta[t]), readonly, NoCommit) \in Request
    BY <2>1, <2>2, <2>3, <1>t DEF Ask, Request, AllOps
  <2>5. QED
    BY <2>1, <2>2, <2>3, <2>4, <1>1 DEF Submit, Ask
<1>8. ASSUME BeginSync(r)
      PROVE  Goal
  <2>1. RequestOK("lock", Ask("sync", Integration, NoRecord, Integration, FALSE, human))
    BY DEF Ask, RequestOK, OpsAt, AllOps, NoRecord
  <2>2. Submit(r, "sync", Integration, NoRecord, Integration, FALSE, human) /\ human \in Commit
    BY <1>8 DEF BeginSync, TypeOK
  <2>3. Ask("sync", Integration, NoRecord, Integration, FALSE, human) \in Request
    BY <2>1, <2>2, RecordTypes DEF Ask, Request, AllOps
  <2>4. QED
    BY <2>1, <2>2, <2>3, <1>1 DEF Submit, Ask
<1>9. ASSUME BeginExport(r)
      PROVE  Goal
  <2>1. RequestOK("lock", Ask("export", Integration, NoRecord, Integration, TRUE, NoCommit))
    BY DEF Ask, RequestOK, OpsAt, AllOps, NoRecord
  <2>2. Submit(r, "export", Integration, NoRecord, Integration, TRUE, NoCommit)
    BY <1>9 DEF BeginExport
  <2>3. Ask("export", Integration, NoRecord, Integration, TRUE, NoCommit) \in Request
    BY <2>1, <2>2, RecordTypes DEF Ask, Request, AllOps
  <2>4. QED
    BY <2>1, <2>2, <2>3, <1>1 DEF Submit, Ask
<1>10. Goal
  BY <1>2, <1>3, <1>4, <1>5, <1>6, <1>7, <1>8, <1>9 DEF Begin
<1>11. QED
  BY <1>10 DEF Goal

(***************************************************************************)
(* One step of a request: it finishes, it gets a lock, or it goes on with  *)
(* the same operation in the same checkouts.                               *)
(***************************************************************************)
Moves(r, label, q) == pc' = [pc EXCEPT ![r] = label] /\ rq' = [rq EXCEPT ![r] = q]

GoesOn(r) ==
  \E label \in PC \ {"idle", "lock", "nested"}, q \in Request :
     /\ RequestOK(label, q) /\ Moves(r, label, q) /\ UNCHANGED holds
     /\ Checkouts(q) = Checkouts(rq[r]) /\ q.shared = rq[r].shared

\* A request that changes only its record, without moving to another checkout.
LEMMA GotoFacts ==
  ASSUME TypeOK, RequestInv, NEW r \in Req, Working(r),
         NEW label \in PC \ {"idle", "lock", "nested"}, NEW rec \in TaskRecord,
         Goto(r, label, rec), rec.mode = rq[r].rec.mode,
         rq[r].op \in {"complete", "run", "index"} =>
            (rec.status = "merged" <=> rq[r].rec.status = "merged"),
         RequestOK(label, [rq[r] EXCEPT !.rec = rec])
  PROVE  GoesOn(r)
<1> DEFINE q == [rq[r] EXCEPT !.rec = rec]
<1>1. q \in Request /\ rq[r] \in Request
  BY DEF TypeOK, Request
<1>2. q.op = rq[r].op /\ q.task = rq[r].task /\ q.shared = rq[r].shared /\ q.rec = rec
  BY <1>1 DEF Request
<1>3. Checkouts(q) = Checkouts(rq[r])
  BY <1>2 DEF Checkouts, Workspace, InRepoAgent
<1>4. rq' = [rq EXCEPT ![r] = q] /\ UNCHANGED holds /\ pc' = [pc EXCEPT ![r] = label]
  BY DEF Goto, TypeOK
<1>5. QED
  BY <1>1, <1>2, <1>3, <1>4 DEF GoesOn, Moves

\* Every step of a request that has its locks either answers it or goes on with it.
LEMMA AdvanceFacts ==
  ASSUME TypeOK, RequestInv, NameInv, NEW r \in Req, Advance(r)
  PROVE  Acquire(r) \/ AcquireTask(r) \/ (Working(r) /\ (Finish(r) \/ GoesOn(r)))
<1> DEFINE rec == rq[r].rec
<1>t. /\ rq[r] \in Request /\ rec \in TaskRecord /\ RequestOK(pc[r], rq[r])
      /\ refs \in [Name -> SUBSET Nat] /\ Integration \in Name /\ Task \subseteq Name
      /\ tree \in [Name -> TreeState] /\ born + 1 \in Nat
      /\ rq[r].task \in Name
  BY DEF TypeOK, RequestInv, Request, Name, Commit
<1>1. CASE Refuse(r) \/ MergeRestore(r) \/ WriteRecord(r) \/ SyncRepo(r) \/ ExportBundle(r)
             \/ CloseSession(r)
  BY <1>1 DEF Refuse, MergeRestore, WriteRecord, SyncRepo, ExportBundle, CloseSession, AtBody,
              Working
<1>2. CASE StartTask(r)
  <2> DEFINE new == [rec EXCEPT !.base = refs[Integration]]
  <2>1. new \in TaskRecord /\ new.mode = rec.mode /\ new.status = rec.status
    BY <1>t DEF TaskRecord, Commit
  <2>2. /\ pc[r] = "body" /\ rq[r].op = "start" /\ Goto(r, "write", new)
        /\ Startable(rq[r].task, rec)
    BY <1>2, Zenon DEF StartTask, AtBody, Accepts
  <2>3. RequestOK("write", [rq[r] EXCEPT !.rec = new])
    BY <1>t, <2>1, <2>2
       DEF RequestOK, OpsAt, StatusWritten, Startable, NameInv, Initial, NoCommit, Request
  <2>4. Working(r) /\ "write" \in PC
    BY <2>2 DEF Working, PC
  <2>5. QED
    BY <2>1, <2>2, <2>3, <2>4, GotoFacts
<1>3. CASE CompleteTask(r)
  <2> DEFINE head == refs[Workspace(rq[r].task, rec)]
             new  == Completed(rec, head)
  <2>1. head \in SUBSET Nat
    BY <1>t DEF Workspace
  <2>2. new \in TaskRecord /\ new.mode = rec.mode /\ new.status = "completed"
    BY <1>t, <2>1 DEF Completed, TaskRecord, Commit
  <2>3. pc[r] = "body" /\ rq[r].op = "complete" /\ Goto(r, "write", new)
    BY <1>3 DEF CompleteTask, AtBody
  <2>4. RequestOK("write", [rq[r] EXCEPT !.rec = new])
    BY <1>t, <2>2, <2>3 DEF RequestOK, OpsAt, AllOps, StatusWritten, Workspace, InRepoAgent, Request
  <2>5. rec.status # "merged" /\ Working(r) /\ "write" \in PC
    BY <1>t, <2>3 DEF Working, PC, RequestOK
  <2>6. QED
    BY <2>2, <2>3, <2>4, <2>5, GotoFacts
<1>4. CASE MergeTask(r)
  <2> DEFINE tip    == refs[Integration]
             commit == IF rec.head \subseteq tip THEN tip ELSE tip \cup rec.head \cup {born + 1}
             new    == Merged(rec, tip, commit)
  <2>1. commit \in SUBSET Nat
    BY <1>t DEF TaskRecord, Commit
  <2>2. new \in TaskRecord /\ new.mode = rec.mode
    BY <1>t, <2>1 DEF Merged, TaskRecord, Commit
  <2>3. pc[r] = "body" /\ rq[r].op = "merge" /\ Goto(r, "merged", new)
    BY <1>4 DEF MergeTask, AtBody
  <2>4. RequestOK("merged", [rq[r] EXCEPT !.rec = new])
    BY <1>t, <2>2, <2>3 DEF RequestOK, OpsAt, Request
  <2>5. Working(r) /\ "merged" \in PC
    BY <2>3 DEF Working, PC
  <2>6. QED
    BY <2>2, <2>3, <2>4, <2>5, GotoFacts
<1>5. ASSUME NEW label \in {"conflict", "removed", "session"}, Goto(r, label, rec), Working(r),
             rq[r].op \in OpsAt(label)
      PROVE  GoesOn(r)
  <2>1. RequestOK(label, [rq[r] EXCEPT !.rec = rec])
    BY <1>t, <1>5 DEF RequestOK, OpsAt, Request, Working
  <2>2. QED
    BY <1>t, <1>5, <2>1, GotoFacts DEF PC
<1>6. CASE MergeConflict(r)
  <2>1. rq[r].op \in OpsAt("conflict") /\ Goto(r, "conflict", rec) /\ Working(r)
    BY <1>6 DEF MergeConflict, AtBody, OpsAt, Working
  <2>2. QED
    BY <1>5, <2>1
<1>7. CASE RemoveWorktree(r)
  <2>1. rq[r].op \in OpsAt("removed") /\ Goto(r, "removed", rec) /\ Working(r)
    BY <1>7, <1>t DEF RemoveWorktree, AtBody, OpsAt, Working, RequestOK
  <2>2. QED
    BY <1>5, <2>1
<1>8. CASE OpenSession(r)
  <2>1. rq[r].op \in OpsAt("session") /\ Goto(r, "session", rec) /\ Working(r)
    BY <1>8 DEF OpenSession, OpsAt, Working
  <2>2. QED
    BY <1>5, <2>1
<1>9. CASE DeleteBranch(r)
  <2> DEFINE new == [rec EXCEPT !.status = IF rq[r].op = "merge" THEN "merged" ELSE "aborted"]
  <2>1. new \in TaskRecord /\ new.mode = rec.mode
        /\ new.status = IF rq[r].op = "merge" THEN "merged" ELSE "aborted"
    BY <1>t DEF TaskRecord
  <2>2. pc[r] = "removed" /\ rq[r].op \in {"merge", "abort"} /\ Goto(r, "write", new)
    BY <1>9, <1>t DEF DeleteBranch, RequestOK, OpsAt
  <2>3. RequestOK("write", [rq[r] EXCEPT !.rec = new])
    BY <1>t, <2>1, <2>2 DEF RequestOK, OpsAt, StatusWritten, Request
  <2>4. Working(r) /\ "write" \in PC
    BY <2>2 DEF Working, PC
  <2>5. QED
    BY <2>1, <2>2, <2>3, <2>4, GotoFacts
<1>10. CASE ExportHead(r)
  <2> DEFINE q == [rq[r] EXCEPT !.seen = refs[Integration]]
  <2>1. /\ pc[r] = "body" /\ rq[r].op = "export" /\ UNCHANGED holds
        /\ Moves(r, "bundle", q)
    BY <1>10, <1>t DEF ExportHead, AtBody, Moves, TypeOK
  <2>2. /\ q \in Request /\ q.op = rq[r].op /\ q.task = rq[r].task /\ q.rec = rec
        /\ q.shared = rq[r].shared /\ q.lock = rq[r].lock
    BY <1>t DEF Request, Commit
  <2>3. RequestOK("bundle", q) /\ Checkouts(q) = Checkouts(rq[r])
    BY <1>t, <2>1, <2>2 DEF RequestOK, OpsAt, Checkouts
  <2>4. Working(r) /\ "bundle" \in PC \ {"idle", "lock", "nested"}
    BY <2>1 DEF Working, PC
  <2>5. QED
    BY <2>1, <2>2, <2>3, <2>4 DEF GoesOn
<1>11. QED
  BY <1>1, <1>2, <1>3, <1>4, <1>6, <1>7, <1>8, <1>9, <1>10 DEF Advance

(***************************************************************************)
(* Types.                                                                  *)
(***************************************************************************)
\* What a container does, that of a session or one that outlived agentd.
LEMMA ContainerStep ==
  ASSUME TypeOK, NEW c \in Container, CommitIn(c) \/ TouchIn(c)
  PROVE  /\ UNCHANGED <<meta, wt, human, pc, rq, holds, strays>>
         /\ refs' \in [Name -> Commit] /\ tree' \in [Name -> TreeState] /\ born' \in Nat
         /\ \A n \in Name : refs[n] \subseteq refs'[n]
         /\ \A n \in Name \ {c.ws} : refs'[n] = refs[n] /\ tree'[n] = tree[n]
<1>t. /\ c.ws \in Name /\ refs \in [Name -> SUBSET Nat] /\ tree \in [Name -> TreeState]
      /\ born \in Nat /\ born + 1 \in Nat
  BY DEF TypeOK, Container, Commit
<1>1. CASE CommitIn(c)
  <2>1. refs[c.ws] \cup {born + 1} \in SUBSET Nat
    BY <1>t
  <2>2. QED
    BY <1>1, <1>t, <2>1 DEF CommitIn, Commit, TreeState
<1>2. CASE TouchIn(c)
  BY <1>2, <1>t DEF TouchIn, made, Commit
<1>3. QED
  BY <1>1, <1>2

LEMMA ContainerTypes ==
  ASSUME NEW q \in Request
  PROVE  ContainerOf(q) \in Container
BY DEF ContainerOf, Container, Request, Workspace, Name

\* The same of a session.
LEMMA SessionFacts ==
  ASSUME TypeOK, NEW r \in Req, Session(r)
  PROVE  /\ Writing(r) /\ ContainerOf(rq[r]) \in Container
         /\ CommitIn(ContainerOf(rq[r])) \/ TouchIn(ContainerOf(rq[r]))
         /\ UNCHANGED <<meta, wt, human, pc, rq, holds, strays>>
<1>1. ContainerOf(rq[r]) \in Container
  BY ContainerTypes DEF TypeOK
<1>2. CommitIn(ContainerOf(rq[r])) \/ TouchIn(ContainerOf(rq[r]))
  BY DEF Session, SessionCommit, SessionTouch
<1>3. QED
  BY <1>1, <1>2, ContainerStep DEF Session, SessionCommit, SessionTouch

\* What a request does on disk keeps the types of the disk.
LEMMA DiskTypes ==
  ASSUME TypeOK, RequestInv, NEW r \in Req, Advance(r) \/ Session(r)
  PROVE  /\ meta' \in [Task -> TaskRecord] /\ refs' \in [Name -> Commit] /\ wt' \subseteq Task
         /\ tree' \in [Name -> TreeState] /\ born' \in Nat /\ human' \in Commit
         /\ strays' \subseteq Container
<1>t. /\ rq[r].rec \in TaskRecord /\ RequestOK(pc[r], rq[r]) /\ Integration \in Name
      /\ Task \subseteq Name /\ rq[r].task \in Name /\ rq[r].seen \in SUBSET Nat
      /\ Switched \in [Name -> TreeState]
      /\ meta \in [Task -> TaskRecord] /\ refs \in [Name -> SUBSET Nat] /\ wt \subseteq Task
      /\ tree \in [Name -> TreeState] /\ born \in Nat /\ human \in SUBSET Nat
      /\ strays \subseteq Container
  BY DEF TypeOK, RequestInv, Request, Name, Commit, Switched, TreeState
<1>1. CASE Acquire(r) \/ AcquireTask(r) \/ CompleteTask(r) \/ ExportHead(r) \/ ExportBundle(r)
             \/ OpenSession(r) \/ CloseSession(r)
  BY <1>1, <1>t DEF Acquire, AcquireTask, CompleteTask, ExportHead, ExportBundle, OpenSession,
                    CloseSession, disk, made, Commit
<1>2. CASE Refuse(r)
  BY <1>2, <1>t DEF Refuse, made, Commit
<1>3. CASE StartTask(r)
  <2>1. rq[r].task \in Task
    BY <1>3, <1>t DEF StartTask, AtBody, RequestOK
  <2>2. QED
    BY <1>3, <1>t, <2>1 DEF StartTask, made, Commit, TreeState
<1>4. CASE MergeTask(r)
  <2>1. rq[r].rec.head \in SUBSET Nat /\ born + 1 \in Nat
    BY <1>t DEF TaskRecord, Commit
  <2>2. QED
    BY <1>4, <1>t, <2>1 DEF MergeTask, Commit
<1>5. CASE MergeConflict(r) \/ MergeRestore(r) \/ RemoveWorktree(r)
  BY <1>5, <1>t DEF MergeConflict, MergeRestore, RemoveWorktree, made, Commit, TreeState
<1>6. CASE DeleteBranch(r)
  BY <1>6, <1>t DEF DeleteBranch, made, Commit, NoCommit
<1>7. CASE WriteRecord(r)
  BY <1>7, <1>t DEF WriteRecord, made, Commit
<1>8. CASE SyncRepo(r)
  BY <1>8, <1>t DEF SyncRepo, Synced, made, Commit
<1>9. CASE Session(r)
  <2>1. UNCHANGED <<meta, wt, human, strays>>
    BY <1>9, SessionFacts
  <2>2. QED
    BY <1>9, <1>t, <2>1, SessionFacts, ContainerStep DEF Commit
<1>10. QED
  BY <1>1, <1>2, <1>3, <1>4, <1>5, <1>6, <1>7, <1>8, <1>9 DEF Advance

\* What a request does to the integration branch.
LEMMA IntegrationStep ==
  ASSUME TypeOK, RequestInv, NameInv, NEW r \in Req, Advance(r) \/ Session(r)
  PROVE  refs[Integration] \subseteq refs'[Integration]
<1>t. /\ RequestOK(pc[r], rq[r]) /\ Integration \in Name
      /\ rq[r].task \in Name /\ refs \in [Name -> Commit]
  BY DEF TypeOK, RequestInv, Request, Name
<1>1. CASE StartTask(r)
  BY <1>1, <1>t DEF StartTask, Accepts, Startable, AtBody, NameInv, Initial, NoCommit
<1>2. CASE MergeTask(r)
  BY <1>2, <1>t DEF MergeTask
<1>3. CASE DeleteBranch(r)
  BY <1>3, <1>t DEF DeleteBranch, RequestOK, OpsAt
<1>4. CASE SyncRepo(r)
  BY <1>4, <1>t DEF SyncRepo, Synced
<1>5. CASE Session(r)
  BY <1>5, <1>t, SessionFacts, ContainerStep
<1>6. QED
  BY <1>1, <1>2, <1>3, <1>4, <1>5 DEF Advance, Acquire, AcquireTask, Refuse,
     CompleteTask, MergeConflict, MergeRestore, RemoveWorktree, WriteRecord, ExportHead,
     ExportBundle, OpenSession, CloseSession, disk, made

(***************************************************************************)
(* The locks.                                                              *)
(***************************************************************************)
\* The whole step relation, seen from one thread: used to split every step lemma.
LEMMA StepCases ==
  ASSUME TypeOK, RequestInv, NameInv, [Next]_vars
  PROVE  \/ \E r \in Req : \/ Begin(r)
                           \/ Acquire(r)
                           \/ AcquireTask(r)
                           \/ Working(r) /\ Advance(r) /\ (Finish(r) \/ GoesOn(r))
                           \/ Session(r) /\ UNCHANGED <<pc, rq, holds>>
         \/ Crash
         \/ UNCHANGED <<pc, rq, holds>>
<1>1. ASSUME NEW r \in Req, Advance(r)
      PROVE  Acquire(r) \/ AcquireTask(r) \/ (Working(r) /\ (Finish(r) \/ GoesOn(r)))
  BY <1>1, AdvanceFacts
<1>2. ASSUME NEW r \in Req, Session(r)
      PROVE  UNCHANGED <<pc, rq, holds>>
  BY <1>2, SessionFacts
<1>3. ASSUME NEW c \in strays, Stray(c) \/ StrayEnds(c)
      PROVE  UNCHANGED <<pc, rq, holds>>
  BY <1>3, ContainerStep DEF Stray, StrayEnds, TypeOK
<1>4. QED
  BY <1>1, <1>2, <1>3 DEF Next, HumanCommit, vars

\* Threads keep well-formed requests and well-typed locks.
LEMMA RequestStep ==
  ASSUME TypeOK, RequestInv, NameInv, [Next]_vars
  PROVE  /\ RequestInv' /\ pc' \in [Req -> PC] /\ rq' \in [Req -> Request]
         /\ holds' \in [Req -> SUBSET Name]
<1> DEFINE Goal == /\ RequestInv' /\ pc' \in [Req -> PC] /\ rq' \in [Req -> Request]
                   /\ holds' \in [Req -> SUBSET Name]
<1>t. /\ pc \in [Req -> PC] /\ rq \in [Req -> Request] /\ holds \in [Req -> SUBSET Name]
      /\ \A r \in Req : RequestOK(pc[r], rq[r]) /\ rq[r].task \in Name /\ rq[r].lock \in Name
  BY DEF TypeOK, RequestInv, Request
<1>1. ASSUME NEW r \in Req, NEW label \in PC, NEW q \in Request, RequestOK(label, q),
             Moves(r, label, q), holds' \in [Req -> SUBSET Name]
      PROVE  Goal
  BY <1>1, <1>t DEF Moves, RequestInv
<1>2. ASSUME NEW r \in Req, Begin(r)
      PROVE  Goal
  BY <1>2, <1>1, <1>t, BeginFacts DEF Moves, PC
<1>3. ASSUME NEW r \in Req, Acquire(r)
      PROVE  Goal
  <2> DEFINE label == IF TakesTaskLockToo(rq[r].op) THEN "nested" ELSE "body"
  <2>1. RequestOK("lock", rq[r]) /\ pc' = [pc EXCEPT ![r] = label] /\ rq' = rq
        /\ holds' \in [Req -> SUBSET Name]
    BY <1>3, <1>t DEF Acquire
  <2>2. RequestOK(label, rq[r]) /\ label \in PC
    BY <2>1 DEF RequestOK, OpsAt, TakesTaskLockToo, PC
  <2>3. QED
    BY <2>1, <2>2, <1>1, <1>t DEF Moves
<1>4. ASSUME NEW r \in Req, AcquireTask(r)
      PROVE  Goal
  <2>1. RequestOK("nested", rq[r]) /\ pc' = [pc EXCEPT ![r] = "body"] /\ rq' = rq
        /\ holds' \in [Req -> SUBSET Name]
    BY <1>4, <1>t DEF AcquireTask
  <2>2. RequestOK("body", rq[r]) /\ "body" \in PC
    BY <2>1 DEF RequestOK, OpsAt, AllOps, PC
  <2>3. QED
    BY <2>1, <2>2, <1>1, <1>t DEF Moves
<1>5. ASSUME NEW r \in Req, Finish(r)
      PROVE  Goal
  BY <1>5, <1>1, <1>t, RecordTypes DEF Finish, Moves, PC
<1>6. ASSUME NEW r \in Req, GoesOn(r)
      PROVE  Goal
  BY <1>6, <1>1, <1>t DEF GoesOn
<1>7. CASE Crash
  BY <1>7, RecordTypes DEF Crash, RequestInv, PC
<1>8. CASE UNCHANGED <<pc, rq, holds>>
  BY <1>8, <1>t DEF RequestInv
<1>9. QED
  BY StepCases, <1>2, <1>3, <1>4, <1>5, <1>6, <1>7, <1>8 DEF vars

\* No step changes the type of anything.
LEMMA TypeStep ==
  ASSUME TypeOK, RequestInv, NameInv, [Next]_vars
  PROVE  TypeOK'
<1> DEFINE DiskTyped ==
       /\ meta' \in [Task -> TaskRecord] /\ refs' \in [Name -> Commit] /\ wt' \subseteq Task
       /\ tree' \in [Name -> TreeState] /\ born' \in Nat /\ human' \in Commit
       /\ strays' \subseteq Container
<1>1. ASSUME NEW r \in Req, Advance(r) \/ Session(r)
      PROVE  DiskTyped
  BY <1>1, DiskTypes
<1>2. ASSUME UNCHANGED <<disk, made>>
      PROVE  DiskTyped
  BY <1>2 DEF disk, made, TypeOK
<1>3. ASSUME NEW r \in Req, Begin(r)
      PROVE  UNCHANGED <<disk, made>>
  BY <1>3, BeginFacts DEF disk, made
<1>4. ASSUME HumanCommit
      PROVE  DiskTyped
  <2>1. /\ human \in SUBSET Nat /\ refs[Integration] \in SUBSET Nat
        /\ born' \in Nat /\ born + 1 \in Nat
    BY <1>4 DEF HumanCommit, TypeOK, Name, Commit
  <2>2. human' \in SUBSET Nat
    BY <1>4, <2>1 DEF HumanCommit
  <2>3. QED
    BY <1>4, <2>1, <2>2 DEF HumanCommit, disk, TypeOK, Commit
<1>5. ASSUME Crash
      PROVE  DiskTyped
  <2>1. \A r \in Req : ContainerOf(rq[r]) \in Container
    BY ContainerTypes DEF TypeOK
  <2>2. strays' \subseteq Container
    BY <1>5, <2>1 DEF Crash, TypeOK
  <2>3. QED
    BY <1>5, <2>2 DEF Crash, disk, TypeOK
<1>6. ASSUME NEW c \in strays, Stray(c)
      PROVE  DiskTyped
  BY <1>6, ContainerStep DEF Stray, TypeOK
<1>7. ASSUME NEW c \in strays, StrayEnds(c)
      PROVE  DiskTyped
  BY <1>7 DEF StrayEnds, disk, TypeOK
<1>8. DiskTyped
  <2> HIDE DEF DiskTyped
  <2>1. CASE Next
    BY <2>1, <1>1, <1>2, <1>3, <1>4, <1>5, <1>6, <1>7 DEF Next
  <2>2. QED
    BY <2>1, <1>2 DEF vars, disk, made
<1>9. QED
  BY <1>8, RequestStep DEF TypeOK

\* The integration branch keeps the commit it was initialised from, and no parallel
\* task takes its name.
LEMMA NameStep ==
  ASSUME TypeOK, RequestInv, NameInv, [Next]_vars
  PROVE  NameInv'
<1>1. refs[Integration] \subseteq refs'[Integration]
  <2>1. ASSUME NEW r \in Req, Begin(r)
        PROVE  UNCHANGED refs
    BY <2>1, BeginFacts
  <2>2. ASSUME NEW c \in strays, Stray(c)
        PROVE  refs[Integration] \subseteq refs'[Integration]
    BY <2>2, ContainerStep DEF Stray, TypeOK, Name
  <2>3. QED
    BY <2>1, <2>2, IntegrationStep DEF Next, HumanCommit, Crash, StrayEnds, vars, disk
<1>2. \A t \in Task : meta'[t].mode = "parallel" => t # Integration
  <2>1. ASSUME NEW r \in Req, WriteRecord(r)
        PROVE  \A t \in Task : meta'[t].mode = "parallel" => t # Integration
    <3>1. RequestOK("write", rq[r]) /\ meta' = [meta EXCEPT ![rq[r].task] = rq[r].rec]
      BY <2>1 DEF WriteRecord, RequestInv
    <3>2. QED
      BY <3>1 DEF RequestOK, NameInv, TypeOK
  <2>2. ASSUME NEW r \in Req, Advance(r) \/ Session(r), ~WriteRecord(r)
        PROVE  UNCHANGED meta
    BY <2>2, SessionFacts DEF Advance, Acquire, AcquireTask, Refuse, StartTask, CompleteTask,
       MergeTask, MergeConflict, MergeRestore, RemoveWorktree, DeleteBranch, SyncRepo, ExportHead,
       ExportBundle, OpenSession, CloseSession, disk
  <2>3. ASSUME NEW r \in Req, Begin(r)
        PROVE  UNCHANGED meta
    BY <2>3, BeginFacts
  <2>4. ASSUME NEW c \in strays, Stray(c)
        PROVE  UNCHANGED meta
    BY <2>4, ContainerStep DEF Stray, TypeOK
  <2>5. QED
    BY <2>1, <2>2, <2>3, <2>4 DEF Next, HumanCommit, Crash, StrayEnds, vars, disk, NameInv
<1>3. QED
  BY <1>1, <1>2 DEF NameInv

\* A thread holds the locks of the checkouts it works in, and none before or after.
LEMMA HoldsStep ==
  ASSUME LockInv, [Next]_vars
  PROVE  HoldsInv'
<1>t. /\ TypeOK /\ RequestInv /\ NameInv
      /\ pc \in [Req -> PC] /\ rq \in [Req -> Request] /\ holds \in [Req -> SUBSET Name]
      /\ \A r \in Req : RequestOK(pc[r], rq[r]) /\ holds[r] = Locks(pc[r], rq[r])
  BY DEF LockInv, HoldsInv, TypeOK, RequestInv
<1>1. ASSUME NEW r \in Req, Begin(r)
      PROVE  HoldsInv'
  <2>1. Locks("lock", rq'[r]) = {} /\ Locks(pc[r], rq[r]) = {}
    BY <1>1, <1>t, BeginFacts DEF Locks
  <2>2. QED
    BY <1>1, <1>t, <2>1, BeginFacts DEF HoldsInv
<1>2. ASSUME NEW r \in Req, Acquire(r)
      PROVE  HoldsInv'
  <2>1. RequestOK("lock", rq[r])
    BY <1>2, <1>t DEF Acquire
  <2>2. Locks(IF TakesTaskLockToo(rq[r].op) THEN "nested" ELSE "body", rq[r]) = {rq[r].lock}
    BY <2>1 DEF RequestOK, OpsAt, AllOps, TakesTaskLockToo, Locks, Checkouts
  <2>3. QED
    BY <1>2, <1>t, <2>2 DEF Acquire, HoldsInv
<1>3. ASSUME NEW r \in Req, AcquireTask(r)
      PROVE  HoldsInv'
  <2>1. RequestOK("nested", rq[r]) /\ holds[r] = {Integration}
    BY <1>3, <1>t DEF AcquireTask, Locks
  <2>2. Locks("body", rq[r]) = {Integration, rq[r].task}
    BY <2>1 DEF RequestOK, OpsAt, Locks, Checkouts
  <2>3. QED
    BY <1>3, <1>t, <2>1, <2>2 DEF AcquireTask, HoldsInv
<1>4. ASSUME NEW r \in Req, Finish(r)
      PROVE  HoldsInv'
  BY <1>4, <1>t DEF Finish, HoldsInv, Locks
<1>5. ASSUME NEW r \in Req, Working(r), GoesOn(r)
      PROVE  HoldsInv'
  <2>1. PICK label \in PC \ {"idle", "lock", "nested"}, q \in Request :
          Moves(r, label, q) /\ UNCHANGED holds /\ Checkouts(q) = Checkouts(rq[r])
    BY <1>5 DEF GoesOn
  <2>2. Locks(label, q) = Locks(pc[r], rq[r])
    BY <1>5, <2>1 DEF Locks, Working
  <2>3. QED
    BY <1>t, <2>1, <2>2 DEF Moves, HoldsInv
<1>6. CASE Crash
  BY <1>6 DEF Crash, HoldsInv, Locks
<1>7. CASE UNCHANGED <<pc, rq, holds>>
  BY <1>7, <1>t DEF HoldsInv
<1>8. QED
  BY StepCases, <1>t, <1>1, <1>2, <1>3, <1>4, <1>5, <1>6, <1>7 DEF vars

\* flock excludes: a lock is given only when it shares with every holder, and a thread
\* keeps the kind of its lock.
LEMMA MutexStep ==
  ASSUME LockInv, [Next]_vars
  PROVE  MutexInv'
<1>t. /\ TypeOK /\ RequestInv /\ NameInv
      /\ pc \in [Req -> PC] /\ rq \in [Req -> Request] /\ holds \in [Req -> SUBSET Name]
      /\ \A r \in Req : RequestOK(pc[r], rq[r]) /\ holds[r] = Locks(pc[r], rq[r])
      /\ \A r, q \in Req : r # q /\ holds[r] \cap holds[q] # {} => rq[r].shared /\ rq[q].shared
  BY DEF LockInv, HoldsInv, TypeOK, RequestInv, MutexInv
<1>1. ASSUME NEW r \in Req, holds'[r] \subseteq holds[r], holds'[r] # {} => rq'[r].shared = rq[r].shared,
             \A q \in Req \ {r} : holds'[q] = holds[q] /\ rq'[q] = rq[q]
      PROVE  MutexInv'
  BY <1>1, <1>t DEF MutexInv
<1>2. ASSUME NEW r \in Req, NEW l, holds'[r] = holds[r] \cup {l}, Grantable(r, l), rq' = rq,
             \A q \in Req \ {r} : holds'[q] = holds[q]
      PROVE  MutexInv'
  BY <1>2, <1>t DEF MutexInv, Grantable
<1>3. ASSUME NEW r \in Req, Begin(r)
      PROVE  MutexInv'
  <2>1. holds[r] = {} /\ holds' = holds /\ \A q \in Req \ {r} : rq'[q] = rq[q]
    BY <1>3, <1>t, BeginFacts DEF Locks
  <2>2. QED
    BY <1>1, <2>1
<1>4. ASSUME NEW r \in Req, Acquire(r)
      PROVE  MutexInv'
  <2>1. holds[r] = {}
    BY <1>4, <1>t DEF Acquire, Locks
  <2>2. QED
    BY <1>4, <1>2, <1>t, <2>1 DEF Acquire
<1>5. ASSUME NEW r \in Req, AcquireTask(r)
      PROVE  MutexInv'
  BY <1>5, <1>2, <1>t DEF AcquireTask
<1>6. ASSUME NEW r \in Req, Finish(r)
      PROVE  MutexInv'
  <2>1. holds'[r] = {} /\ \A q \in Req \ {r} : holds'[q] = holds[q] /\ rq'[q] = rq[q]
    BY <1>6, <1>t DEF Finish
  <2>2. QED
    BY <1>1, <2>1
<1>7. ASSUME NEW r \in Req, GoesOn(r)
      PROVE  MutexInv'
  <2>1. holds' = holds /\ rq'[r].shared = rq[r].shared /\ \A q \in Req \ {r} : rq'[q] = rq[q]
    BY <1>7, <1>t DEF GoesOn, Moves
  <2>2. QED
    BY <1>1, <2>1
<1>8. CASE Crash
  BY <1>8 DEF Crash, MutexInv
<1>9. CASE UNCHANGED <<pc, rq, holds>>
  BY <1>9, <1>t DEF MutexInv
<1>10. QED
  BY StepCases, <1>t, <1>3, <1>4, <1>5, <1>6, <1>7, <1>8, <1>9 DEF vars

LEMMA LockInit == Init => LockInv
<1> SUFFICES ASSUME Init PROVE LockInv
  OBVIOUS
<1>1. TypeOK
  BY RecordTypes DEF Init, TypeOK, Name, Commit, Initial, NoCommit, TreeState, PC
<1>2. RequestInv /\ HoldsInv /\ MutexInv
  BY RecordTypes DEF Init, RequestInv, HoldsInv, MutexInv, Locks
<1>3. NameInv
  BY DEF Init, NameInv, Name, NoRecord
<1>4. QED
  BY <1>1, <1>2, <1>3 DEF LockInv

LEMMA LockStep ==
  ASSUME LockInv, [Next]_vars
  PROVE  LockInv'
BY TypeStep, RequestStep, NameStep, HoldsStep, MutexStep DEF LockInv

\* Locking is right from the first step on: the invariant of all further arguments.
THEOREM LockingCorrect == Spec => []LockInv
<1>1. LockInv /\ [Next]_vars => LockInv'
  BY LockStep
<1>2. QED
  BY LockInit, <1>1, PTL DEF Spec

\* Type correctness of the task life cycle.
THEOREM TypeCorrect == Spec => []TypeOK
<1>1. LockInv => TypeOK
  BY DEF LockInv
<1>2. QED
  BY LockingCorrect, <1>1, PTL

\* No two requests work in one checkout unless both only read it (task_lock_name and
\* run_lock_name, chosen from a record that may be out of date, are still enough).
THEOREM WorkspacesExclusive == Spec => []WorkspaceExclusive
<1>1. ASSUME LockInv, NEW r \in Req, NEW q \in Req, r # q, Working(r), Working(q),
             Touches(r) \cap Touches(q) # {}
      PROVE  rq[r].shared /\ rq[q].shared
  <2>1. holds[r] = Touches(r) /\ holds[q] = Touches(q)
    BY <1>1 DEF LockInv, HoldsInv, Locks, Working, Touches
  <2>2. QED
    BY <1>1, <2>1 DEF LockInv, MutexInv
<1>2. LockInv => WorkspaceExclusive
  BY <1>1 DEF WorkspaceExclusive
<1>3. QED
  BY LockingCorrect, <1>2, PTL

\* The lock order of merge and abort never makes threads wait for each other: a thread
\* waiting for a second lock waits for one that only working threads hold.
THEOREM NoDeadlock == Spec => []DeadlockFree
<1>1. ASSUME LockInv, NEW r \in Req, Waiting(r)
      PROVE  \E q \in Req : Working(q) \/ (Waiting(q) /\ Grantable(q, WaitsFor(q)))
  <2>1. CASE \E q \in Req : Working(q)
    BY <2>1
  <2>2. CASE (\A q \in Req : ~Working(q)) /\ \E q \in Req : pc[q] = "nested"
    <3>1. PICK q \in Req : pc[q] = "nested"
      BY <2>2
    <3>2. rq[q].task # Integration
      BY <1>1, <3>1 DEF LockInv, RequestInv, RequestOK, OpsAt
    <3>3. \A p \in Req : holds[p] \subseteq {Integration}
      BY <1>1, <2>2 DEF LockInv, HoldsInv, Locks, Working
    <3>4. Waiting(q) /\ Grantable(q, WaitsFor(q))
      BY <3>1, <3>2, <3>3 DEF Waiting, WaitsFor, Grantable
    <3>5. QED
      BY <3>4
  <2>3. CASE \A q \in Req : ~Working(q) /\ pc[q] # "nested"
    <3>1. \A p \in Req : holds[p] = {}
      BY <1>1, <2>3 DEF LockInv, HoldsInv, Locks, Working
    <3>2. QED
      BY <1>1, <3>1 DEF Grantable
  <2>4. QED
    BY <2>1, <2>2, <2>3
<1>2. LockInv => DeadlockFree
  BY <1>1 DEF DeadlockFree
<1>3. QED
  BY LockingCorrect, <1>2, PTL

\* No step takes a commit away from the integration branch.
THEOREM IntegrationOnlyGrows == Spec => IntegrationGrows
<1>1. ASSUME LockInv, Next
      PROVE  refs[Integration] \subseteq refs'[Integration]
  <2>1. ASSUME NEW r \in Req, Begin(r)
        PROVE  UNCHANGED refs
    BY <1>1, <2>1, BeginFacts DEF LockInv
  <2>2. ASSUME NEW c \in strays, Stray(c)
        PROVE  refs[Integration] \subseteq refs'[Integration]
    BY <1>1, <2>2, ContainerStep DEF LockInv, Stray, TypeOK, Name
  <2>3. QED
    BY <1>1, <2>1, <2>2, IntegrationStep DEF LockInv, Next, HumanCommit, Crash, StrayEnds, disk
<1>2. LockInv /\ [Next]_vars => [refs[Integration] \subseteq refs'[Integration]]_vars
  BY <1>1
<1>3. QED
  BY LockingCorrect, <1>2, PTL DEF Spec, IntegrationGrows

(***************************************************************************)
(* What threads can do to each other.                                      *)
(***************************************************************************)
Acts(r) == Begin(r) \/ Advance(r) \/ Session(r)

\* A container that outlived agentd works without a lock.
StrayWrites == \E c \in strays : Stray(c)

Outside == HumanCommit \/ Crash \/ (\E c \in strays : StrayEnds(c)) \/ UNCHANGED vars

LEMMA NextActs == [Next]_vars => (\E r \in Req : Acts(r)) \/ StrayWrites \/ Outside
BY DEF Next, Acts, StrayWrites, Outside

\* A thread changes its own request only.
LEMMA OthersStay ==
  ASSUME LockInv, NEW r \in Req, NEW q \in Req, r # q, Acts(q)
  PROVE  pc'[r] = pc[r] /\ rq'[r] = rq[r]
<1>t. TypeOK /\ RequestInv /\ NameInv /\ pc \in [Req -> PC] /\ rq \in [Req -> Request]
  BY DEF LockInv, TypeOK
<1>1. CASE Begin(q)
  BY <1>1, <1>t, BeginFacts
<1>2. CASE Advance(q)
  BY <1>2, <1>t, AdvanceFacts DEF Acquire, AcquireTask, Finish, GoesOn, Moves
<1>3. CASE Session(q)
  BY <1>3, <1>t, SessionFacts
<1>4. QED
  BY <1>1, <1>2, <1>3 DEF Acts

\* The step that takes a thread to each of the points the invariants speak of.
LEMMA Arrives ==
  ASSUME LockInv, NEW r \in Req, Acts(r)
  PROVE  /\ pc'[r] = "merged" => MergeTask(r)
         /\ pc'[r] = "removed" => RemoveWorktree(r)
         /\ pc'[r] = "write" => StartTask(r) \/ CompleteTask(r) \/ DeleteBranch(r)
         /\ pc'[r] = "bundle" => ExportHead(r)
<1>t. TypeOK /\ RequestInv /\ NameInv /\ pc \in [Req -> PC]
  BY DEF LockInv, TypeOK
<1>1. CASE Begin(r)
  BY <1>1, <1>t, BeginFacts
<1>2. CASE Session(r)
  BY <1>2, <1>t, SessionFacts DEF Writing
<1>3. CASE Acquire(r) \/ AcquireTask(r)
  BY <1>3, <1>t DEF Acquire, AcquireTask
<1>4. CASE Finish(r)
  BY <1>4, <1>t DEF Finish
<1>5. CASE StartTask(r) \/ CompleteTask(r) \/ MergeTask(r) \/ MergeConflict(r)
             \/ RemoveWorktree(r) \/ DeleteBranch(r) \/ OpenSession(r)
  BY <1>5, <1>t DEF StartTask, CompleteTask, MergeTask, MergeConflict, RemoveWorktree,
                    DeleteBranch, OpenSession, Goto
<1>6. CASE ExportHead(r)
  BY <1>6, <1>t DEF ExportHead
<1>7. QED
  BY <1>1, <1>2, <1>3, <1>4, <1>5, <1>6 DEF Acts, Advance, Refuse, MergeRestore, WriteRecord,
     SyncRepo, ExportBundle, CloseSession

Same(n) == refs'[n] = refs[n] /\ tree'[n] = tree[n] /\ (n \in wt' <=> n \in wt)

\* A request leaves the checkouts alone whose lock it does not hold or only shares,
\* except that a start may create the worktree of a task that has none.
LEMMA Frame ==
  ASSUME LockInv, NEW q \in Req, Acts(q), NEW n \in Name, n \notin holds[q] \/ rq[q].shared
  PROVE  Same(n) \/ (n \notin wt /\ Integration \in holds[q] /\ ~rq[q].shared)
<1>t. /\ TypeOK /\ RequestInv /\ NameInv /\ RequestOK(pc[q], rq[q]) /\ refs \in [Name -> Commit]
      /\ tree \in [Name -> TreeState] /\ wt \subseteq Task /\ holds[q] = Locks(pc[q], rq[q])
      /\ Integration \in Name /\ Task \subseteq Name
  BY DEF LockInv, RequestInv, TypeOK, HoldsInv, Name
<1>1. CASE UNCHANGED <<refs, tree, wt>>
  BY <1>1 DEF Same
<1>2. CASE StartTask(q) \/ (Refuse(q) /\ rq[q].op = "start") \/ SyncRepo(q)
  <2>1. holds[q] = {Integration} /\ ~rq[q].shared /\ n # Integration
    BY <1>2, <1>t DEF StartTask, Refuse, SyncRepo, AtBody, Locks, Checkouts, RequestOK
  <2>2. Switched[n] = tree[n]
    BY <1>t, <2>1 DEF Switched
  <2>3. CASE StartTask(q)
    <3>1. CASE n = rq[q].task /\ rq[q].rec.mode = "parallel"
      BY <2>1, <2>3, <3>1 DEF StartTask, Accepts, AtBody, Startable
    <3>2. CASE n # rq[q].task \/ rq[q].rec.mode # "parallel"
      <4>1. Same(n)
        BY <1>t, <2>1, <2>2, <2>3, <3>2 DEF StartTask, Same, Switched
      <4>2. QED
        BY <4>1
    <3>3. QED
      BY <3>1, <3>2
  <2>4. CASE Refuse(q) \/ SyncRepo(q)
    BY <1>t, <2>1, <2>2, <2>4 DEF Refuse, SyncRepo, Same
  <2>5. QED
    BY <1>2, <2>3, <2>4
<1>3. CASE MergeTask(q) \/ MergeConflict(q) \/ MergeRestore(q) \/ RemoveWorktree(q)
             \/ DeleteBranch(q)
  <2>1. holds[q] = {Integration, rq[q].task} /\ ~rq[q].shared
    BY <1>3, <1>t DEF MergeTask, MergeConflict, MergeRestore, RemoveWorktree, DeleteBranch,
       AtBody, Locks, Checkouts, RequestOK, OpsAt
  <2>2. n # Integration /\ n # rq[q].task
    BY <2>1
  <2>3. QED
    BY <1>3, <1>t, <2>2 DEF MergeTask, MergeConflict, MergeRestore, RemoveWorktree, DeleteBranch,
       Switched, Same
<1>4. CASE Session(q)
  <2>1. holds[q] = {Workspace(rq[q].task, rq[q].rec)} /\ ~rq[q].shared
    BY <1>4, <1>t, SessionFacts DEF Writing, Locks, Checkouts, RequestOK, OpsAt
  <2>2. n # ContainerOf(rq[q]).ws
    BY <2>1 DEF ContainerOf
  <2>3. QED
    BY <1>4, <1>t, <2>2, SessionFacts, ContainerStep DEF Same
<1>5. CASE Begin(q)
  BY <1>5, <1>1, <1>t, BeginFacts
<1>6. QED
  BY <1>1, <1>2, <1>3, <1>4, <1>5 DEF Acts, Advance, Acquire, AcquireTask, Refuse,
     CompleteTask, WriteRecord, ExportHead, ExportBundle, OpenSession, CloseSession, disk, made

\* Only write_json changes a record, and only to what the thread has prepared.
LEMMA RecordsStay ==
  ASSUME LockInv, NEW q \in Req, Acts(q)
  PROVE  WriteRecord(q) \/ UNCHANGED meta
<1>1. CASE Begin(q)
  BY <1>1, BeginFacts DEF LockInv
<1>2. CASE Advance(q) \/ Session(q)
  BY <1>2, SessionFacts DEF LockInv, Advance, Acquire, AcquireTask, Refuse, StartTask, CompleteTask,
     MergeTask, MergeConflict, MergeRestore, RemoveWorktree, DeleteBranch, SyncRepo, ExportHead,
     ExportBundle, OpenSession, CloseSession, disk
<1>3. QED
  BY <1>1, <1>2 DEF Acts

\* Steps of nobody in particular touch neither the records nor the checkouts.
LEMMA OutsideStep ==
  ASSUME Outside
  PROVE  /\ UNCHANGED <<meta, refs, wt, tree>>
         /\ UNCHANGED <<pc, rq>> \/ \A r \in Req : pc'[r] = "idle"
BY DEF Outside, HumanCommit, Crash, StrayEnds, vars, disk

\* Containers that outlived agentd change no record and no request, and drop no commit.
LEMMA StrayStep ==
  ASSUME LockInv, StrayWrites
  PROVE  UNCHANGED <<meta, pc, rq>> /\ refs[Integration] \subseteq refs'[Integration]
BY ContainerStep DEF LockInv, StrayWrites, Stray, TypeOK, Name

(***************************************************************************)
(* The records of starting tasks.                                          *)
(***************************************************************************)
\* A sequential start still finds no active integration task when it writes its
\* record, so there is never a second one.
LEMMA SequentialStep ==
  ASSUME LockInv, OneActiveSequential, StartInv, [Next]_vars
  PROVE  OneActiveSequential' /\ StartInv'
<1> DEFINE Starting(r) == pc[r] = "write" /\ rq[r].op = "start" /\ rq[r].rec.mode = "integration"
<1>t. /\ TypeOK /\ \A r \in Req : RequestOK(pc[r], rq[r]) /\ holds[r] = Locks(pc[r], rq[r])
      /\ pc \in [Req -> PC] /\ rq \in [Req -> Request]
  BY DEF LockInv, RequestInv, HoldsInv, TypeOK
<1>1. ASSUME NEW q \in Req, WriteRecord(q)
      PROVE  OneActiveSequential' /\ StartInv'
  <2> DEFINE t == rq[q].task  rec == rq[q].rec
  <2>1. /\ RequestOK("write", rq[q]) /\ pc[q] = "write" /\ pc' = [pc EXCEPT ![q] = "idle"]
        /\ meta' = [meta EXCEPT ![t] = rec] /\ \A r \in Req \ {q} : rq'[r] = rq[r]
    BY <1>1, <1>t DEF WriteRecord, Finish
  <2>2. t \in Task
    BY <2>1 DEF RequestOK, OpsAt
  <2>3. CASE Starting(q)
    <3>1. ActiveSequential = {}
      BY <2>3 DEF StartInv
    <3>2. \A s \in Task \ {t} : meta'[s] = meta[s]
      BY <2>1, <1>t DEF TypeOK
    <3>3. OneActiveSequential'
      BY <3>1, <3>2 DEF OneActiveSequential, ActiveSequential
    <3>4. \A r \in Req \ {q} : ~Starting(r)
      <4>1. SUFFICES ASSUME NEW r \in Req \ {q}, Starting(r) PROVE FALSE
        OBVIOUS
      <4>2. holds[r] = {Integration} /\ holds[q] = {Integration} /\ ~rq[r].shared
        BY <2>3, <4>1, <1>t DEF Locks, Checkouts, RequestOK
      <4>3. QED
        BY <4>1, <4>2 DEF LockInv, MutexInv
    <3>5. StartInv'
      BY <2>1, <3>4, <1>t DEF StartInv
    <3>6. QED
      BY <3>3, <3>5
  <2>4. CASE ~Starting(q)
    <3>1. rec.mode # "integration" \/ rec.status # "active"
      BY <2>1, <2>4 DEF RequestOK, OpsAt, StatusWritten
    <3>2. ActiveSequential' \subseteq ActiveSequential
      BY <2>1, <2>2, <3>1, <1>t DEF ActiveSequential, TypeOK
    <3>3. QED
      BY <2>1, <3>2, <1>t DEF OneActiveSequential, StartInv
  <2>5. QED
    BY <2>3, <2>4
<1>2. ASSUME NEW q \in Req, Acts(q), UNCHANGED meta
      PROVE  OneActiveSequential' /\ StartInv'
  <2>1. ActiveSequential' = ActiveSequential
    BY <1>2 DEF ActiveSequential
  <2>2. ASSUME NEW r \in Req, pc'[r] = "write", rq'[r].op = "start", rq'[r].rec.mode = "integration"
        PROVE  ActiveSequential' = {}
    <3>1. CASE r # q
      BY <1>2, <2>1, <2>2, <3>1, OthersStay DEF StartInv
    <3>2. CASE r = q
      <4>1. StartTask(q) \/ CompleteTask(q) \/ DeleteBranch(q)
        BY <1>2, <2>2, <3>2, Arrives
      <4>2. rq'[q].op = rq[q].op
        BY <4>1, <1>t DEF StartTask, CompleteTask, DeleteBranch, Goto, Request
      <4>3. StartTask(q)
        BY <4>1, <4>2, <2>2, <3>2, <1>t DEF CompleteTask, DeleteBranch, AtBody, RequestOK, OpsAt
      <4>4. Startable(rq[q].task, rq[q].rec)
        BY <4>3 DEF StartTask, Accepts, AtBody
      <4>5. QED
        BY <4>4, <2>1 DEF Startable
    <3>3. QED
      BY <3>1, <3>2
  <2>3. QED
    BY <2>1, <2>2 DEF OneActiveSequential, StartInv
<1>3. CASE Outside \/ StrayWrites
  BY <1>3, OutsideStep, StrayStep DEF OneActiveSequential, StartInv, ActiveSequential
<1>4. QED
  BY <1>1, <1>2, <1>3, RecordsStay, NextActs

(***************************************************************************)
(* Merging, completing and exporting.                                      *)
(***************************************************************************)
\* While a thread holds the locks of a merge, the clean-up stays possible.
LEMMA CleanupStep ==
  ASSUME LockInv, strays = {}, CleanupCannotFail, [Next]_vars
  PROVE  CleanupCannotFail'
<1>t. /\ TypeOK /\ RequestInv /\ NameInv
      /\ \A r \in Req : RequestOK(pc[r], rq[r]) /\ holds[r] = Locks(pc[r], rq[r])
      /\ pc \in [Req -> PC] /\ rq \in [Req -> Request] /\ refs \in [Name -> Commit]
      /\ tree \in [Name -> TreeState] /\ Integration \in Name /\ Task \subseteq Name
  BY DEF LockInv, RequestInv, HoldsInv, TypeOK, Name
<1> DEFINE Kept(r) ==
       /\ pc[r] = "merged" => rq[r].task \in wt /\ tree[rq[r].task] # "dirty"
       /\ pc[r] = "merged" \/ (pc[r] = "removed" /\ rq[r].op = "merge") =>
            refs[rq[r].task] # NoCommit /\ refs[rq[r].task] \subseteq refs[Integration]
<1>1. ASSUME NEW q \in Req, Acts(q), NEW r \in Req, r # q
      PROVE  Kept(r)'
  <2>1. pc'[r] = pc[r] /\ rq'[r] = rq[r] /\ Kept(r)
    BY <1>1, OthersStay DEF CleanupCannotFail
  <2>2. CASE pc[r] = "merged" \/ (pc[r] = "removed" /\ rq[r].op = "merge")
    <3>1. /\ holds[r] = {Integration, rq[r].task} /\ ~rq[r].shared /\ rq[r].task \in Task
      BY <2>2, <1>t DEF Locks, Checkouts, RequestOK, OpsAt
    <3>2. Integration \notin holds[q] /\ rq[r].task \notin holds[q]
      BY <1>1, <3>1 DEF LockInv, MutexInv
    <3>3. Same(Integration) /\ Same(rq[r].task)
      BY <1>1, <3>1, <3>2, <1>t, Frame
    <3>4. QED
      BY <2>1, <3>3 DEF Same
  <2>3. CASE ~(pc[r] = "merged" \/ (pc[r] = "removed" /\ rq[r].op = "merge"))
    BY <2>1, <2>3
  <2>4. QED
    BY <2>2, <2>3
<1>2. ASSUME NEW r \in Req, Acts(r)
      PROVE  Kept(r)'
  <2>1. CASE pc'[r] = "merged"
    <3>1. MergeTask(r) /\ Mergeable(rq[r].task, rq[r].rec)
      BY <1>2, <2>1, Arrives DEF MergeTask, Accepts, AtBody
    <3>2. /\ rq[r].task # Integration /\ rq[r].task \in Task /\ rq'[r].task = rq[r].task
          /\ pc[r] = "body"
      BY <3>1, <1>t DEF MergeTask, AtBody, RequestOK, Goto, Request
    <3>3. rq[r].task \in wt' /\ tree'[rq[r].task] # "dirty"
      BY <3>1, <3>2, <1>t DEF MergeTask, Mergeable, Switched
    <3>4. refs'[rq[r].task] = rq[r].rec.head /\ rq[r].rec.head # NoCommit
          /\ rq[r].rec.head \subseteq refs'[Integration]
      BY <3>1, <3>2, <1>t DEF MergeTask, Mergeable
    <3>5. QED
      BY <2>1, <3>2, <3>3, <3>4
  <2>2. CASE pc'[r] = "removed"
    <3>1. RemoveWorktree(r) /\ Kept(r)
      BY <1>2, <2>2, Arrives DEF CleanupCannotFail
    <3>2. rq'[r].task = rq[r].task /\ rq'[r].op = rq[r].op /\ refs' = refs
          /\ (pc[r] = "merged" \/ rq[r].op = "abort")
      BY <3>1, <1>t DEF RemoveWorktree, Goto, AtBody, Request
    <3>3. QED
      BY <2>2, <3>1, <3>2
  <2>3. QED
    BY <2>1, <2>2
<1>3. ASSUME Outside
      PROVE  CleanupCannotFail'
  BY <1>3, OutsideStep DEF CleanupCannotFail
<1>4. QED
  BY <1>1, <1>2, <1>3, NextActs DEF CleanupCannotFail, StrayWrites

\* A merge records the commit it made, and later steps only add to the branch.
LEMMA MergedStep ==
  ASSUME LockInv, MergeInv, MergedIsIntegrated, [Next]_vars
  PROVE  MergeInv' /\ MergedIsIntegrated'
<1>t. /\ TypeOK /\ RequestInv /\ NameInv /\ \A r \in Req : RequestOK(pc[r], rq[r])
      /\ pc \in [Req -> PC] /\ rq \in [Req -> Request] /\ refs \in [Name -> Commit]
      /\ meta \in [Task -> TaskRecord] /\ Integration \in Name
  BY DEF LockInv, RequestInv, TypeOK, Name
<1>g. ASSUME NEW q \in Req, Acts(q)
      PROVE  refs[Integration] \subseteq refs'[Integration]
  BY <1>g, <1>t, BeginFacts, IntegrationStep DEF Acts
<1> DEFINE Merging(r) == pc[r] \in {"merged", "removed", "write"} /\ rq[r].op = "merge"
           Recorded(rec, tip) == rec.head \subseteq rec.merge /\ rec.merge \subseteq tip
<1>1. ASSUME NEW q \in Req, Acts(q), NEW r \in Req, Merging(r)'
      PROVE  Recorded(rq'[r].rec, refs'[Integration])
  <2>1. CASE r # q
    BY <1>1, <1>g, <2>1, OthersStay DEF MergeInv
  <2>2. CASE r = q /\ pc'[r] = "merged"
    <3>1. MergeTask(r)
      BY <1>1, <2>2, Arrives
    <3>2. rq'[r].rec = Merged(rq[r].rec, refs[Integration], refs'[Integration])
          /\ rq[r].rec \in TaskRecord /\ rq[r].rec.head \subseteq refs'[Integration]
      BY <3>1, <1>t DEF MergeTask, Goto, Request
    <3>3. QED
      BY <3>2 DEF Merged, TaskRecord
  <2>3. CASE r = q /\ pc'[r] = "removed"
    <3>1. RemoveWorktree(r)
      BY <1>1, <2>3, Arrives
    <3>2. rq'[r].rec = rq[r].rec /\ pc[r] = "merged" /\ rq[r].op = "merge"
      BY <1>1, <2>3, <3>1, <1>t DEF RemoveWorktree, Goto, AtBody, Request, RequestOK, OpsAt
    <3>3. QED
      BY <1>1, <1>g, <2>3, <3>2 DEF MergeInv
  <2>4. CASE r = q /\ pc'[r] = "write"
    <3>1. StartTask(r) \/ CompleteTask(r) \/ DeleteBranch(r)
      BY <1>1, <2>4, Arrives
    <3>2. rq'[r].op = rq[r].op
      BY <3>1, <1>t DEF StartTask, CompleteTask, DeleteBranch, Goto, Request
    <3>3. DeleteBranch(r) /\ rq[r].op = "merge"
      BY <1>1, <3>1, <3>2 DEF StartTask, CompleteTask, AtBody
    <3>4. /\ rq'[r].rec.head = rq[r].rec.head /\ rq'[r].rec.merge = rq[r].rec.merge
          /\ pc[r] = "removed"
      BY <3>3, <1>t DEF DeleteBranch, Goto, Request, TaskRecord
    <3>5. QED
      BY <1>1, <1>g, <3>3, <3>4 DEF MergeInv
  <2>5. QED
    BY <1>1, <2>1, <2>2, <2>3, <2>4
<1>2. ASSUME NEW q \in Req, Acts(q), NEW t \in Task, meta'[t].status = "merged"
      PROVE  Recorded(meta'[t], refs'[Integration])
  <2>1. CASE meta'[t] = meta[t]
    BY <1>2, <1>g, <2>1 DEF MergedIsIntegrated
  <2>2. CASE meta'[t] # meta[t]
    <3>1. WriteRecord(q) /\ pc[q] = "write" /\ meta'[t] = rq[q].rec
      BY <1>2, <2>2, <1>t, RecordsStay DEF WriteRecord
    <3>2. rq[q].op = "merge"
      BY <1>2, <3>1, <1>t DEF RequestOK, OpsAt, StatusWritten
    <3>3. QED
      BY <1>2, <1>g, <3>1, <3>2 DEF MergeInv
  <2>3. QED
    BY <2>1, <2>2
<1>3. ASSUME Outside
      PROVE  MergeInv' /\ MergedIsIntegrated'
  BY <1>3, OutsideStep DEF MergeInv, MergedIsIntegrated
<1>4. ASSUME StrayWrites
      PROVE  MergeInv' /\ MergedIsIntegrated'
  BY <1>4, StrayStep DEF MergeInv, MergedIsIntegrated
<1>5. QED
  BY <1>1, <1>2, <1>3, <1>4, NextActs DEF MergeInv, MergedIsIntegrated

\* Nobody commits in the workspace between rev-parse HEAD and write_json.
LEMMA CompleteStep ==
  ASSUME LockInv, strays = {}, CompleteInv, RecordedHeadIsCurrent, [Next]_vars
  PROVE  CompleteInv' /\ RecordedHeadIsCurrent'
<1>t. /\ TypeOK /\ RequestInv /\ NameInv
      /\ \A r \in Req : RequestOK(pc[r], rq[r]) /\ holds[r] = Locks(pc[r], rq[r])
      /\ pc \in [Req -> PC] /\ rq \in [Req -> Request] /\ Integration \in Name
      /\ Task \subseteq Name
  BY DEF LockInv, RequestInv, HoldsInv, TypeOK, Name
<1> DEFINE ws(r) == Workspace(rq[r].task, rq[r].rec)
           Kept(r) == pc[r] = "write" /\ rq[r].op = "complete" =>
                        Present(rq[r].task, rq[r].rec) /\ rq[r].rec.head = refs[ws(r)]
<1>1. ASSUME NEW q \in Req, Acts(q), NEW r \in Req, r # q, pc'[r] = "write", rq'[r].op = "complete"
      PROVE  Kept(r)'
  <2>1. /\ pc'[r] = pc[r] /\ rq'[r] = rq[r] /\ pc[r] = "write" /\ rq[r].op = "complete"
        /\ Kept(r)
    BY <1>1, OthersStay DEF CompleteInv, RecordedHeadIsCurrent
  <2>2. holds[r] = {ws(r)} /\ ~rq[r].shared /\ rq[r].task \in Task /\ ws(r) \in Name
    BY <2>1, <1>t DEF Locks, Checkouts, RequestOK, Workspace
  <2>3. ws(r) \notin holds[q]
    BY <1>1, <2>2 DEF LockInv, MutexInv
  <2>4. Same(ws(r))
    <3>1. ws(r) \in wt \/ ws(r) = Integration
      BY <2>1 DEF Workspace, Present
    <3>2. QED
      BY <1>1, <2>2, <2>3, <3>1, Frame
  <2>5. refs'[ws(r)] = refs[ws(r)] /\ Present(rq[r].task, rq[r].rec)'
    BY <2>1, <2>4 DEF Same, Present, Workspace
  <2>6. QED
    BY <2>1, <2>5 DEF Workspace, InRepoAgent
<1>2. ASSUME NEW r \in Req, Acts(r), pc'[r] = "write", rq'[r].op = "complete"
      PROVE  Kept(r)'
  <2>1. StartTask(r) \/ CompleteTask(r) \/ DeleteBranch(r)
    BY <1>2, Arrives
  <2>2. rq'[r].op = rq[r].op /\ rq'[r].task = rq[r].task
    BY <2>1, <1>t DEF StartTask, CompleteTask, DeleteBranch, Goto, Request
  <2>3. CompleteTask(r) /\ rq[r].op = "complete"
    BY <1>2, <2>1, <2>2, <1>t DEF StartTask, DeleteBranch, AtBody, RequestOK, OpsAt
  <2>4. /\ rq'[r].rec = Completed(rq[r].rec, refs[ws(r)]) /\ rq[r].rec \in TaskRecord
        /\ Present(rq[r].task, rq[r].rec) /\ refs' = refs /\ wt' = wt
        /\ RequestOK("body", rq[r])
    BY <2>3, <1>t DEF CompleteTask, Completable, Accepts, AtBody, Goto, disk, Request
  <2>5. /\ rq'[r].rec.head = refs[ws(r)] /\ rq'[r].rec.mode = rq[r].rec.mode
        /\ rq'[r].rec.status = "completed" /\ rq[r].rec.status # "merged"
    BY <2>3, <2>4 DEF Completed, TaskRecord, RequestOK
  <2>6. QED
    BY <2>2, <2>4, <2>5 DEF Workspace, InRepoAgent, Present
<1>3. ASSUME Outside
      PROVE  CompleteInv' /\ RecordedHeadIsCurrent'
  BY <1>3, OutsideStep DEF CompleteInv, RecordedHeadIsCurrent, Present, Workspace, InRepoAgent
<1>4. QED
  BY <1>1, <1>2, <1>3, NextActs DEF CompleteInv, RecordedHeadIsCurrent, StrayWrites

\* Nobody commits on the integration branch between rev-parse and git bundle.
LEMMA ExportStep ==
  ASSUME LockInv, strays = {}, ExportConsistent, [Next]_vars
  PROVE  ExportConsistent'
<1>t. /\ \A r \in Req : RequestOK(pc[r], rq[r]) /\ holds[r] = Locks(pc[r], rq[r])
      /\ pc \in [Req -> PC] /\ rq \in [Req -> Request] /\ Integration \in Name
  BY DEF LockInv, RequestInv, HoldsInv, TypeOK, Name
<1>1. ASSUME NEW q \in Req, Acts(q), NEW r \in Req, r # q, pc'[r] = "bundle"
      PROVE  rq'[r].seen = refs'[Integration]
  <2>1. rq'[r] = rq[r] /\ pc[r] = "bundle" /\ rq[r].seen = refs[Integration]
    BY <1>1, OthersStay DEF ExportConsistent
  <2>2. Integration \in holds[r]
    BY <2>1, <1>t DEF Locks, Checkouts, RequestOK, OpsAt
  <2>3. Integration \notin holds[q] \/ rq[q].shared
    BY <1>1, <2>2 DEF LockInv, MutexInv
  <2>4. refs'[Integration] = refs[Integration]
    BY <1>1, <1>t, <2>3, Frame DEF Same
  <2>5. QED
    BY <2>1, <2>4
<1>2. ASSUME NEW r \in Req, Acts(r), pc'[r] = "bundle"
      PROVE  rq'[r].seen = refs'[Integration]
  <2>1. ExportHead(r)
    BY <1>2, Arrives
  <2>2. QED
    BY <2>1, <1>t DEF ExportHead, Request, disk
<1>3. ASSUME Outside
      PROVE  ExportConsistent'
  BY <1>3, OutsideStep DEF ExportConsistent
<1>4. QED
  BY <1>1, <1>2, <1>3, NextActs DEF ExportConsistent, StrayWrites

\* Only a crash leaves containers behind, and only where they survive it.
LEMMA StraysStep ==
  ASSUME LockInv, ContainersDie, strays = {}, [Next]_vars
  PROVE  strays' = {}
<1>t. TypeOK /\ RequestInv /\ NameInv
  BY DEF LockInv
<1>1. ASSUME NEW r \in Req, Begin(r)
      PROVE  UNCHANGED strays
  BY <1>1, <1>t, BeginFacts
<1>2. ASSUME NEW r \in Req, Advance(r) \/ Session(r)
      PROVE  UNCHANGED strays
  BY <1>2, <1>t, SessionFacts DEF Advance, Acquire, AcquireTask, Refuse, StartTask, CompleteTask,
     MergeTask, MergeConflict, MergeRestore, RemoveWorktree, DeleteBranch, WriteRecord, SyncRepo,
     ExportHead, ExportBundle, OpenSession, CloseSession, made
<1>3. QED
  BY <1>1, <1>2 DEF Next, HumanCommit, Crash, ContainersDie, vars

(***************************************************************************)
(* The inductive invariant and what follows from it.                       *)
(***************************************************************************)
LEMMA InvInit == Init => IInv
<1> SUFFICES ASSUME Init PROVE IInv
  OBVIOUS
<1>1. \A r \in Req : pc[r] = "idle"
  BY DEF Init
<1>2. StartInv /\ CleanupCannotFail /\ MergeInv /\ RecordedHeadIsCurrent /\ CompleteInv
      /\ ExportConsistent
  BY <1>1 DEF StartInv, CleanupCannotFail, MergeInv, RecordedHeadIsCurrent, CompleteInv,
              ExportConsistent
<1>3. OneActiveSequential /\ MergedIsIntegrated
  BY DEF Init, OneActiveSequential, ActiveSequential, MergedIsIntegrated, NoRecord
<1>4. QED
  BY <1>2, <1>3, LockInit DEF IInv, Guarded, Init

LEMMA InvStep == IInv /\ [Next]_vars => IInv'
<1> SUFFICES ASSUME IInv, [Next]_vars PROVE IInv'
  OBVIOUS
<1>1. LockInv' /\ OneActiveSequential' /\ StartInv' /\ MergedIsIntegrated' /\ MergeInv'
  BY LockStep, SequentialStep, MergedStep DEF IInv
<1>2. ASSUME ContainersDie
      PROVE  Guarded'
  <2>1. LockInv /\ Guarded
    BY <1>2 DEF IInv
  <2>2. strays' = {}
    BY <1>2, <2>1, StraysStep DEF Guarded
  <2>3. QED
    BY <2>1, <2>2, CleanupStep, CompleteStep, ExportStep DEF Guarded
<1>3. QED
  BY <1>1, <1>2 DEF IInv

THEOREM Invariance == Spec => []IInv
BY InvInit, InvStep, PTL DEF Spec

\* However many task-starts race, at most one integration task is active.
THEOREM OneSequentialTask == Spec => []OneActiveSequential
<1>1. IInv => OneActiveSequential
  BY DEF IInv
<1>2. QED
  BY Invariance, <1>1, PTL

\* After the merge commit, worktree remove and branch -d find what they need.
THEOREM MergeCleansUp == ASSUME ContainersDie PROVE Spec => []CleanupCannotFail
<1>1. IInv => CleanupCannotFail
  BY DEF IInv, Guarded
<1>2. QED
  BY Invariance, <1>1, PTL

\* A merged record names a commit that holds the task's head and that the integration
\* branch still has, across crashes, conflicts and stale records.
THEOREM MergedStaysIntegrated == Spec => []MergedIsIntegrated
<1>1. IInv => MergedIsIntegrated
  BY DEF IInv
<1>2. QED
  BY Invariance, <1>1, PTL

\* task-complete writes the head its workspace has when it writes.
THEOREM CompletionIsCurrent == ASSUME ContainersDie PROVE Spec => []RecordedHeadIsCurrent
<1>1. IInv => RecordedHeadIsCurrent
  BY DEF IInv, Guarded
<1>2. QED
  BY Invariance, <1>1, PTL

\* project-export answers with the head it has packed.
THEOREM ExportIsConsistent == ASSUME ContainersDie PROVE Spec => []ExportConsistent
<1>1. IInv => ExportConsistent
  BY DEF IInv, Guarded
<1>2. QED
  BY Invariance, <1>1, PTL

(***************************************************************************)
(* The worktree and branch of a start that is about to write its record.   *)
(***************************************************************************)
\* A request that loaded a record, and a container it left behind, work for a task
\* that has one: records are never removed.
LoadedInv ==
  \A r \in Req : rq[r].op \in {"complete", "merge", "abort", "run", "index"} =>
     rq[r].task \in Task /\ meta[rq[r].task].status # "absent"
StraysLoadedInv ==
  \A c \in strays : c.ws # Integration => c.ws \in Task /\ meta[c.ws].status # "absent"

\* So nothing works in the worktree of a task that is being started.
Starting(r) == /\ pc[r] = "write" /\ rq[r].op = "start" /\ rq[r].rec.mode = "parallel"
               /\ meta[rq[r].task].status = "absent"
FreshInv ==
  \A r \in Req : Starting(r) => rq[r].task \in wt /\ refs[rq[r].task] = rq[r].rec.base

\* No record is written without a status.
NoRecordInv == \A t \in Task : meta[t].status = "absent" => meta[t].mode # "parallel"

BornInv == LockInv /\ LoadedInv /\ StraysLoadedInv /\ FreshInv /\ NoRecordInv

LEMMA RecordsAreKept ==
  ASSUME LockInv, [Next]_vars, NEW t \in Task
  PROVE  meta'[t] = meta[t] \/ meta'[t].status # "absent"
<1>2. ASSUME NEW q \in Req, WriteRecord(q), meta'[t] # meta[t]
      PROVE  meta'[t].status # "absent"
  <2>1. meta'[t] = rq[q].rec /\ RequestOK("write", rq[q])
    BY <1>2 DEF WriteRecord, LockInv, TypeOK, RequestInv
  <2>2. QED
    BY <2>1 DEF RequestOK, OpsAt, StatusWritten
<1>3. QED
  BY <1>2, NextActs, RecordsStay, OutsideStep, StrayStep

LEMMA KeepsTask ==
  ASSUME TypeOK, NEW r \in Req, Advance(r)
  PROVE  \/ rq'[r] = NoRequest
         \/ rq'[r].op = rq[r].op /\ rq'[r].task = rq[r].task
<1>t. rq \in [Req -> Request]
  BY DEF TypeOK
<1>1. \A rec : (rq' = [rq EXCEPT ![r].rec = rec]) => rq'[r].op = rq[r].op /\ rq'[r].task = rq[r].task
  BY <1>t DEF Request
<1>2. ASSUME \/ StartTask(r) \/ CompleteTask(r) \/ MergeTask(r) \/ MergeConflict(r)
             \/ RemoveWorktree(r) \/ DeleteBranch(r) \/ OpenSession(r)
      PROVE  \E rec : rq' = [rq EXCEPT ![r].rec = rec]
  BY <1>2 DEF StartTask, CompleteTask, MergeTask, MergeConflict, RemoveWorktree, DeleteBranch,
              OpenSession, Goto
<1>3. ASSUME ExportHead(r)
      PROVE  rq'[r].op = rq[r].op /\ rq'[r].task = rq[r].task
  BY <1>3, <1>t DEF ExportHead, Request
<1>4. QED
  BY <1>1, <1>2, <1>3, <1>t DEF Advance, Acquire, AcquireTask, Refuse, MergeRestore, WriteRecord,
     SyncRepo, ExportBundle, CloseSession, Finish

LEMMA LoadedStep ==
  ASSUME LockInv, LoadedInv, [Next]_vars
  PROVE  LoadedInv'
<1> DEFINE Loads == {"complete", "merge", "abort", "run", "index"}
           Loaded(q) == q.op \in Loads => q.task \in Task /\ meta[q.task].status # "absent"
<1>t. /\ TypeOK /\ RequestInv /\ NameInv /\ pc \in [Req -> PC] /\ rq \in [Req -> Request]
      /\ \A r \in Req : Loaded(rq[r])
  BY DEF LockInv, TypeOK, LoadedInv
<1>1. ASSUME NEW r \in Req, Begin(r)
      PROVE  Loaded(rq'[r])
  <2>1. ASSUME NEW t \in Task,
               \/ BeginComplete(r, t) \/ BeginMerge(r, t) \/ BeginAbort(r, t) \/ BeginIndex(r, t)
               \/ \E readonly \in BOOLEAN : BeginRun(r, t, readonly)
        PROVE  rq'[r].task = t /\ meta[t].status # "absent"
    BY <1>t, <2>1 DEF BeginComplete, BeginMerge, BeginAbort, BeginIndex, BeginRun, Submit, Loadable
  <2>2. ASSUME NEW t \in Task,
               \E mode \in {"integration", "parallel"}, deps \in SUBSET Task :
                 BeginStart(r, t, mode, deps)
        PROVE  rq'[r].op = "start"
    BY <1>t, <2>2 DEF BeginStart, Submit
  <2>3. ASSUME BeginSync(r) \/ BeginExport(r)
        PROVE  rq'[r].op \in {"sync", "export"}
    BY <1>t, <2>3 DEF BeginSync, BeginExport, Submit
  <2>4. QED
    BY <1>1, <2>1, <2>2, <2>3 DEF Begin
<1>2. ASSUME NEW r \in Req, Advance(r)
      PROVE  Loaded(rq'[r])
  <2>1. CASE rq'[r] = NoRequest
    BY <2>1 DEF NoRequest
  <2>2. CASE rq'[r].op = rq[r].op /\ rq'[r].task = rq[r].task
    BY <2>2, <1>t
  <2>3. QED
    BY <1>2, <1>t, <2>1, <2>2, KeepsTask
<1>3. ASSUME NEW r \in Req
      PROVE  Loaded(rq'[r])
  <2>1. ASSUME NEW q \in Req, Acts(q)
        PROVE  Loaded(rq'[r])
    <3>1. Session(q) => UNCHANGED rq
      BY <1>t, SessionFacts
    <3>2. QED
      BY <1>1, <1>2, <1>t, <2>1, <3>1, OthersStay DEF Acts
  <2>2. UNCHANGED rq \/ rq'[r] = NoRequest => Loaded(rq'[r])
    BY <1>t DEF NoRequest
  <2>3. StrayWrites \/ Outside => UNCHANGED rq \/ rq'[r] = NoRequest
    BY StrayStep DEF Outside, HumanCommit, Crash, StrayEnds, vars
  <2>4. QED
    BY <2>1, <2>2, <2>3, NextActs
<1>4. QED
  BY <1>3, RecordsAreKept DEF LoadedInv

LEMMA StraysLoadedStep ==
  ASSUME LockInv, LoadedInv, StraysLoadedInv, [Next]_vars
  PROVE  StraysLoadedInv'
<1> DEFINE Left == {ContainerOf(rq[r]) : r \in {q \in Req : Writing(q)}}
<1>t. TypeOK /\ RequestInv /\ NameInv
  BY DEF LockInv
<1>1. \A r \in Req : Begin(r) => UNCHANGED strays
  BY <1>t, BeginFacts
<1>2. \A r \in Req : Advance(r) \/ Session(r) => UNCHANGED strays
  BY <1>t, SessionFacts DEF Advance, Acquire, AcquireTask, Refuse, StartTask, CompleteTask,
     MergeTask, MergeConflict, MergeRestore, RemoveWorktree, DeleteBranch, WriteRecord, SyncRepo,
     ExportHead, ExportBundle, OpenSession, CloseSession, made
<1>3. \A c \in strays : Stray(c) => UNCHANGED strays
  BY <1>t, ContainerStep DEF Stray, TypeOK
<1>4. strays' \subseteq strays \/ strays' = Left
  BY <1>1, <1>2, <1>3 DEF Next, HumanCommit, Crash, StrayEnds, vars
<1>5. ASSUME NEW c \in Left, c.ws # Integration
      PROVE  c.ws \in Task /\ meta[c.ws].status # "absent"
  <2>1. PICK r \in Req : Writing(r) /\ c = ContainerOf(rq[r])
    OBVIOUS
  <2>2. rq[r].op \in {"run", "index"}
    BY <2>1, <1>t DEF Writing, RequestInv, RequestOK, OpsAt
  <2>3. QED
    BY <1>5, <2>1, <2>2 DEF ContainerOf, Workspace, LoadedInv
<1>6. ASSUME NEW c \in strays', c.ws # Integration
      PROVE  c.ws \in Task /\ meta[c.ws].status # "absent"
  BY <1>4, <1>5, <1>6 DEF StraysLoadedInv
<1>7. QED
  BY <1>6, RecordsAreKept DEF StraysLoadedInv

\* While a start holds the integration lock, nothing touches what it made.
LEMMA FreshStep ==
  ASSUME BornInv, [Next]_vars
  PROVE  FreshInv'
<1>t. /\ LockInv /\ TypeOK /\ RequestInv /\ NameInv /\ LoadedInv
      /\ \A r \in Req : RequestOK(pc[r], rq[r]) /\ holds[r] = Locks(pc[r], rq[r])
      /\ pc \in [Req -> PC] /\ rq \in [Req -> Request] /\ Integration \in Name
      /\ refs \in [Name -> Commit] /\ Task \subseteq Name
  BY DEF BornInv, LockInv, RequestInv, HoldsInv, TypeOK, Name
<1> DEFINE Fresh(r) == rq[r].task \in wt /\ refs[rq[r].task] = rq[r].rec.base
<1>1. ASSUME NEW r \in Req, Starting(r)', pc'[r] = pc[r], rq'[r] = rq[r]
      PROVE  /\ Starting(r) /\ Fresh(r) /\ rq[r].task \in Task /\ rq[r].task # Integration
             /\ holds[r] = {Integration} /\ ~rq[r].shared
  <2>1. pc[r] = "write" /\ rq[r].op = "start" /\ rq[r].rec.mode = "parallel"
    BY <1>1 DEF Starting
  <2>2. rq[r].task \in Task /\ rq[r].task # Integration /\ ~rq[r].shared
    BY <2>1, <1>t DEF RequestOK
  <2>3. holds[r] = {Integration}
    BY <2>1, <1>t DEF Locks, Checkouts
  <2>4. meta[rq[r].task].status = "absent"
    BY <1>1, <1>t, <2>2, RecordsAreKept DEF Starting
  <2>5. QED
    BY <2>1, <2>2, <2>3, <2>4 DEF Starting, BornInv, FreshInv
<1>2. ASSUME NEW q \in Req, Acts(q), NEW r \in Req, r # q, Starting(r)'
      PROVE  Fresh(r)'
  <2>1. pc'[r] = pc[r] /\ rq'[r] = rq[r]
    BY <1>2, <1>t, OthersStay
  <2>2. Integration \notin holds[q]
    BY <1>1, <1>2, <1>t, <2>1 DEF LockInv, MutexInv
  <2>3. rq[r].task \notin holds[q]
    <3>1. SUFFICES ASSUME rq[r].task \in holds[q] PROVE FALSE
      OBVIOUS
    <3>2. rq[q].op \in {"complete", "run", "index"} /\ rq[r].task = Workspace(rq[q].task, rq[q].rec)
      BY <1>1, <1>2, <1>t, <2>1, <2>2, <3>1 DEF Locks, Checkouts
    <3>3. rq[r].task = rq[q].task
      BY <1>1, <1>2, <2>1, <3>2 DEF Workspace
    <3>4. QED
      BY <1>1, <1>2, <1>t, <2>1, <3>2, <3>3 DEF LoadedInv, Starting
  <2>4. Same(rq[r].task)
    BY <1>1, <1>2, <1>t, <2>1, <2>3, Frame
  <2>5. QED
    BY <1>1, <1>2, <2>1, <2>4 DEF Same
<1>3. ASSUME NEW r \in Req, Acts(r), Starting(r)'
      PROVE  Fresh(r)'
  <2>1. StartTask(r) \/ CompleteTask(r) \/ DeleteBranch(r)
    BY <1>3, <1>t, Arrives DEF Starting
  <2>2. rq'[r].op = rq[r].op
    BY <2>1, <1>t DEF StartTask, CompleteTask, DeleteBranch, Goto, Request
  <2>3. StartTask(r) /\ rq[r].task \in Task
    BY <1>3, <1>t, <2>1, <2>2 DEF Starting, CompleteTask, DeleteBranch, AtBody, RequestOK, OpsAt
  <2>4. /\ rq'[r].rec = [rq[r].rec EXCEPT !.base = refs[Integration]] /\ rq'[r].task = rq[r].task
        /\ rq[r].rec \in TaskRecord
    BY <1>t, <2>3 DEF StartTask, Goto, Request
  <2>5. rq[r].rec.mode = "parallel" /\ rq'[r].rec.base = refs[Integration]
    BY <1>3, <2>4 DEF Starting, TaskRecord
  <2>6. QED
    BY <1>t, <2>3, <2>4, <2>5 DEF StartTask
<1>4. ASSUME StrayWrites, NEW r \in Req, Starting(r)'
      PROVE  Fresh(r)'
  <2>1. pc'[r] = pc[r] /\ rq'[r] = rq[r]
    BY <1>4, <1>t, StrayStep
  <2>2. PICK c \in strays : Stray(c)
    BY <1>4 DEF StrayWrites
  <2>3. c.ws # rq[r].task
    BY <1>1, <1>4, <2>1 DEF Starting, BornInv, StraysLoadedInv
  <2>4. wt' = wt /\ refs'[rq[r].task] = refs[rq[r].task]
    BY <1>1, <1>4, <1>t, <2>1, <2>2, <2>3, ContainerStep DEF Stray, TypeOK
  <2>5. QED
    BY <1>1, <1>4, <2>1, <2>4
<1>5. ASSUME Outside, NEW r \in Req, Starting(r)'
      PROVE  Fresh(r)'
  BY <1>1, <1>5, OutsideStep DEF Starting
<1>6. QED
  BY <1>2, <1>3, <1>4, <1>5, NextActs DEF FreshInv

\* A parallel task's first record is written for the worktree and branch that its own
\* start made, whatever runs beside it and whatever an earlier start left behind.
THEOREM StartsAreFresh == Spec => StartsFresh
<1> DEFINE Fresh == \A t \in Task : meta[t].status = "absent" /\ meta'[t].mode = "parallel" =>
                                      t \in wt /\ refs[t] = meta'[t].base
<1>1. Init => BornInv
  <2>1. Init => LoadedInv /\ StraysLoadedInv /\ FreshInv
    BY DEF Init, LoadedInv, NoRequest, StraysLoadedInv, FreshInv, Starting
  <2>2. Init => NoRecordInv
    BY DEF Init, NoRecordInv, NoRecord
  <2>3. QED
    BY <2>1, <2>2, LockInit DEF BornInv
<1>2. BornInv /\ [Next]_vars => BornInv'
  <2>1. ASSUME BornInv, [Next]_vars
        PROVE  LockInv' /\ LoadedInv' /\ StraysLoadedInv' /\ FreshInv'
    BY <2>1, LockStep, LoadedStep, StraysLoadedStep, FreshStep DEF BornInv
  <2>2. ASSUME BornInv, [Next]_vars
        PROVE  NoRecordInv'
    BY <2>2, RecordsAreKept DEF BornInv, NoRecordInv
  <2>3. QED
    BY <2>1, <2>2 DEF BornInv
<1>3. ASSUME BornInv, NEW q \in Req, WriteRecord(q), NEW t \in Task,
             meta[t].status = "absent", meta'[t].mode = "parallel"
      PROVE  t \in wt /\ refs[t] = meta'[t].base
  <2>1. pc[q] = "write" /\ RequestOK(pc[q], rq[q]) /\ meta \in [Task -> TaskRecord]
        /\ meta' = [meta EXCEPT ![rq[q].task] = rq[q].rec]
    BY <1>3 DEF WriteRecord, BornInv, LockInv, RequestInv, TypeOK
  <2>2. t = rq[q].task /\ meta'[t] = rq[q].rec
    BY <1>3, <2>1 DEF BornInv, NoRecordInv
  <2>3. rq[q].op = "start"
    BY <1>3, <2>1, <2>2 DEF BornInv, LoadedInv, RequestOK, OpsAt
  <2>4. QED
    BY <1>3, <2>1, <2>2, <2>3 DEF BornInv, FreshInv, Starting
<1>4. BornInv /\ [Next]_vars => [Fresh]_vars
  <2>1. ASSUME BornInv, UNCHANGED meta
        PROVE  Fresh
    BY <2>1 DEF BornInv, NoRecordInv
  <2>2. ASSUME BornInv, [Next]_vars
        PROVE  (\E q \in Req : WriteRecord(q)) \/ UNCHANGED meta
    BY <2>2, NextActs, RecordsStay, OutsideStep, StrayStep DEF BornInv
  <2>3. QED
    BY <1>3, <2>1, <2>2
<1>5. QED
  BY <1>1, <1>2, <1>4, PTL DEF Spec, StartsFresh
=============================================================================
