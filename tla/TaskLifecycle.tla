--------------------------- MODULE TaskLifecycle ---------------------------
(***************************************************************************)
(* The task life cycle of one project as agentd runs it: every RPC is      *)
(* served by a thread of its own, loads the task record BEFORE it takes    *)
(* the flock(2) locks of the project, and writes that same record back at  *)
(* the end.  Git work (worktree add, merge, worktree remove, branch -d)    *)
(* happens in between, step by step, and the daemon may die between any    *)
(* two steps.                                                              *)
(*                                                                         *)
(* Commits are abstracted to their history: a commit is the set of commit  *)
(* numbers reachable from it (its own included), so "is an ancestor of"    *)
(* is \subseteq and a merge is a union plus the merge commit's number.     *)
(*                                                                         *)
(* A definition under a comment that begins with "Variant:" is not the     *)
(* code: it is a plausible mistake in the definition that follows it, kept *)
(* to show that the properties notice it.                                  *)
(***************************************************************************)
EXTENDS Naturals, FiniteSets

CONSTANTS Task,         \* task names
          Req,          \* broker threads serving requests
          Integration,  \* the lock/branch name "integration"
          Ops,          \* the RPC operations clients issue
          Env,          \* what the environment may do (see EnvKinds)
          MaxCommits    \* bound: agents and humans commit while fewer than this
                        \* many commits exist (merge commits are not bounded)

AllOps == {"start", "complete", "merge", "abort", "sync", "export", "run", "index"}
EnvKinds == {"crash", "survive", "conflict", "untidy", "human"}

ASSUME OpsAssumption == Ops \subseteq AllOps
ASSUME EnvAssumption == Env \subseteq EnvKinds
ASSUME BoundAssumption == MaxCommits \in Nat

(***************************************************************************)
(* Names, commits and records.                                             *)
(***************************************************************************)
Name == Task \cup {Integration}   \* valid_name allows a task called "integration"

Commit   == SUBSET Nat
Initial  == {0}     \* the commit repo/agent was initialised from
NoCommit == {}      \* JSON null / a missing ref

TaskRecord == [mode   : {"none", "integration", "parallel"},
               status : {"absent", "active", "completed", "merged", "aborted"},
               base   : Commit,  head : Commit,  merge : Commit,
               deps   : SUBSET Task]

\* No tasks/<task>.json file.
NoRecord == [mode |-> "none", status |-> "absent", base |-> NoCommit,
             head |-> NoCommit, merge |-> NoCommit, deps |-> {}]

VARIABLES
  meta,    \* tasks/<task>.json, per task
  refs,    \* refs/heads/agent/<name> in repo/agent; NoCommit when missing
  wt,      \* the tasks whose worktrees/<task> directory exists
  tree,    \* checkout state of repo/agent (Integration) and of each worktree
  born,    \* commits made so far; the next commit gets number born + 1
  human,   \* head of the human-controlled main branch
  pc,      \* where each thread is
  rq,      \* the request each thread serves, with the record it loaded
  holds,   \* the lock files each thread has locked
  strays   \* containers of sessions that outlived agentd

disk == <<meta, refs, wt, tree>>
made == <<born, human, strays>>
vars == <<meta, refs, wt, tree, born, human, pc, rq, holds, strays>>

PC == {"idle", "lock", "nested", "body", "merged", "conflict", "removed",
       "write", "bundle", "session"}

\* Clean on the recorded branch, uncommitted changes, HEAD detached at the commit of
\* that branch, or clean at another commit.
TreeState == {"clean", "dirty", "detached", "off"}

Request == [op : AllOps \cup {"none"}, task : Name, rec : TaskRecord,
            lock : Name, shared : BOOLEAN, seen : Commit]

Container == [op : AllOps \cup {"none"}, task : Name, ws : Name]

NoRequest == [op |-> "none", task |-> Integration, rec |-> NoRecord,
              lock |-> Integration, shared |-> FALSE, seen |-> NoCommit]

(***************************************************************************)
(* Reading the records and choosing workspaces and locks.                  *)
(***************************************************************************)
ActiveSequential == {t \in Task : meta[t].mode = "integration" /\ meta[t].status = "active"}
PendingParallel  == {t \in Task : meta[t].mode = "parallel"
                                    /\ meta[t].status \in {"active", "completed"}}

InRepoAgent(rec) == rec.mode = "integration" \/ rec.status = "merged"

\* The checkout a request on task t works in.
Workspace(t, rec) == IF InRepoAgent(rec) THEN Integration ELSE t
Present(t, rec)   == InRepoAgent(rec) \/ t \in wt

\* load_task succeeds: metadata exists, is not aborted, the workspace resolves.
Loadable(t) == /\ meta[t].status \notin {"absent", "aborted"}
               /\ Present(t, meta[t])

\* Variant: a task of either mode locks its own name.
TaskLockByName(t, rec) == t

TaskLock(t, rec) == IF rec.mode = "integration" THEN Integration ELSE t

RunLock(t, rec)  == IF rec.mode = "integration" \/ rec.status = "merged"
                      THEN Integration ELSE t

\* flock(2): shared locks coexist, everything else excludes.  The lock belongs
\* to the open file, so a thread that opens the file again blocks on itself.

\* Variant: a shared lock does not exclude the writers.
GrantableToReaders(r, l) == \A q \in Req : l \in holds[q] => rq[q].shared \/ rq[r].shared

Grantable(r, l) == \A q \in Req : l \in holds[q] => rq[q].shared /\ rq[r].shared

\* The commit a dependency must have put into the integration branch.
Integrated(rec) == IF rec.mode = "parallel" THEN rec.merge ELSE rec.head

\* Variant: a dependency only has to have metadata.
DependencyKnown(d, base) == meta[d].status # "absent" /\ Integrated(meta[d]) \subseteq base

DependencyMet(d, base) ==
  /\ \/ meta[d].mode = "parallel" /\ meta[d].status = "merged"
     \/ meta[d].mode = "integration" /\ meta[d].status = "completed"
  /\ Integrated(meta[d]) # NoCommit
  /\ Integrated(meta[d]) \subseteq base

(***************************************************************************)
(* The part of each operation before its lock: validate, load, snapshot.   *)
(* A request that fails here answers with an error and changes nothing.    *)
(***************************************************************************)
Submit(r, op, t, rec, lock, shared, seen) ==
  /\ pc[r] = "idle" /\ op \in Ops
  /\ pc' = [pc EXCEPT ![r] = "lock"]
  /\ rq' = [rq EXCEPT ![r] = [op |-> op, task |-> t, rec |-> rec, lock |-> lock,
                              shared |-> shared, seen |-> seen]]
  /\ UNCHANGED <<disk, made, holds>>

BeginStart(r, t, mode, deps) ==
  /\ meta[t].status = "absent"
  /\ t \notin deps
  /\ Submit(r, "start", t,
            [NoRecord EXCEPT !.mode = mode, !.status = "active", !.deps = deps],
            Integration, FALSE, NoCommit)

BeginComplete(r, t) ==
  /\ Loadable(t) /\ meta[t].status = "active"
  /\ Submit(r, "complete", t, meta[t], TaskLock(t, meta[t]), FALSE, NoCommit)

BeginMerge(r, t) ==
  /\ Loadable(t) /\ meta[t].mode = "parallel" /\ meta[t].status = "completed"
  /\ Submit(r, "merge", t, meta[t], Integration, FALSE, NoCommit)

\* Variant: task-abort looks at the mode only.
BeginAbortAnytime(r, t) ==
  /\ Loadable(t) /\ meta[t].mode = "parallel"
  /\ Submit(r, "abort", t, meta[t], Integration, FALSE, NoCommit)

BeginAbort(r, t) ==
  /\ Loadable(t) /\ t \in PendingParallel
  /\ Submit(r, "abort", t, meta[t], Integration, FALSE, NoCommit)

\* agentctl bundles the human main branch, then calls project-sync.
BeginSync(r) ==
  /\ ActiveSequential = {} /\ PendingParallel = {}
  /\ Submit(r, "sync", Integration, NoRecord, Integration, FALSE, human)

BeginExport(r) ==
  Submit(r, "export", Integration, NoRecord, Integration, TRUE, NoCommit)

BeginRun(r, t, readonly) ==
  /\ Loadable(t)
  /\ readonly \/ meta[t].status = "active"
  /\ Submit(r, "run", t, meta[t], RunLock(t, meta[t]), readonly, NoCommit)

BeginIndex(r, t) ==
  /\ Loadable(t) /\ meta[t].status \in {"active", "completed"}
  /\ Submit(r, "index", t, meta[t], TaskLock(t, meta[t]), FALSE, NoCommit)

Begin(r) ==
  \/ \E t \in Task, mode \in {"integration", "parallel"}, deps \in SUBSET Task :
       BeginStart(r, t, mode, deps)
  \/ \E t \in Task : \/ BeginComplete(r, t) \/ BeginMerge(r, t)
                     \/ BeginAbort(r, t)    \/ BeginIndex(r, t)
  \/ \E t \in Task, readonly \in BOOLEAN : BeginRun(r, t, readonly)
  \/ BeginSync(r)
  \/ BeginExport(r)

(***************************************************************************)
(* Locks.                                                                  *)
(***************************************************************************)
\* Variant: task-complete takes the task lock inside the lock it already has.
AlsoCompleteTakesTaskLock(op) == op \in {"complete", "merge", "abort"}

\* Variant: the integration lock is thought to be enough for a merge.
OnlyAbortTakesTaskLock(op) == op = "abort"

TakesTaskLockToo(op) == op \in {"merge", "abort"}

Acquire(r) ==
  /\ pc[r] = "lock" /\ Grantable(r, rq[r].lock)
  /\ holds' = [holds EXCEPT ![r] = {rq[r].lock}]
  /\ pc' = [pc EXCEPT ![r] = IF TakesTaskLockToo(rq[r].op) THEN "nested" ELSE "body"]
  /\ UNCHANGED <<disk, made, rq>>

AcquireTask(r) ==
  /\ pc[r] = "nested" /\ Grantable(r, rq[r].task)
  /\ holds' = [holds EXCEPT ![r] = @ \cup {rq[r].task}]
  /\ pc' = [pc EXCEPT ![r] = "body"]
  /\ UNCHANGED <<disk, made, rq>>

\* Leaving the with blocks closes the lock files; the request is answered.
Finish(r) ==
  /\ pc' = [pc EXCEPT ![r] = "idle"]
  /\ rq' = [rq EXCEPT ![r] = NoRequest]
  /\ holds' = [holds EXCEPT ![r] = {}]

AtBody(r, op) == pc[r] = "body" /\ rq[r].op = op

Goto(r, label, rec) ==
  /\ pc' = [pc EXCEPT ![r] = label]
  /\ rq' = [rq EXCEPT ![r].rec = rec]
  /\ UNCHANGED holds

(***************************************************************************)
(* Under the lock: what each operation insists on before it acts.          *)
(***************************************************************************)
\* git switch agent/integration, after ensure_clean
Switched == [tree EXCEPT ![Integration] = IF @ = "dirty" THEN @ ELSE "clean"]

\* Variant: only parallel tasks look for an active integration task.
StartableBesideSequential(t, rec) ==
  /\ tree[Integration] # "dirty"
  /\ \A d \in rec.deps : DependencyMet(d, refs[Integration])
  /\ IF rec.mode = "parallel"
       THEN ActiveSequential = {} /\ t \notin wt /\ refs[t] = NoCommit
       ELSE PendingParallel = {}

\* Variant: sequential work does not wait for parallel tasks.
StartableBesideParallel(t, rec) ==
  /\ tree[Integration] # "dirty"
  /\ \A d \in rec.deps : DependencyMet(d, refs[Integration])
  /\ ActiveSequential = {}
  /\ rec.mode = "parallel" => t \notin wt /\ refs[t] = NoCommit

\* Variant: worktree add -B, which takes over an existing branch.
StartableOnAnyBranch(t, rec) ==
  /\ tree[Integration] # "dirty"
  /\ \A d \in rec.deps : DependencyMet(d, refs[Integration])
  /\ ActiveSequential = {}
  /\ IF rec.mode = "parallel" THEN t \notin wt ELSE PendingParallel = {}

Startable(t, rec) ==
  /\ tree[Integration] # "dirty"
  /\ \A d \in rec.deps : DependencyMet(d, refs[Integration])
  /\ ActiveSequential = {}
  /\ IF rec.mode = "parallel"
       THEN t \notin wt /\ refs[t] = NoCommit     \* worktree add -b agent/<task>
       ELSE PendingParallel = {}

Completable(t, rec) == Present(t, rec) /\ tree[Workspace(t, rec)] = "clean"

\* Variant: no validate_recorded_head.
MergeableAtAnyHead(t, rec) ==
  t \in wt /\ tree[t] # "dirty" /\ tree[Integration] # "dirty"

Mergeable(t, rec) ==
  /\ t \in wt /\ tree[t] \in {"clean", "detached"} /\ tree[Integration] # "dirty"
  /\ rec.head # NoCommit /\ refs[t] = rec.head    \* validate_recorded_head

Accepts(r) ==
  LET t == rq[r].task  rec == rq[r].rec
  IN  CASE rq[r].op = "start"           -> Startable(t, rec)
        [] rq[r].op = "complete"        -> Completable(t, rec)
        [] rq[r].op = "merge"           -> Mergeable(t, rec)
        [] rq[r].op = "export"          -> tree[Integration] # "dirty"
        [] rq[r].op \in {"run", "index"} -> Present(t, rec)   \* podman needs the mount
        [] OTHER                        -> TRUE

\* Variant: the error path does not close the lock file.
RefuseKeepingLocks(r) ==
  /\ pc[r] = "body" /\ ~Accepts(r)
  /\ tree' = IF rq[r].op = "start" THEN Switched ELSE tree
  /\ pc' = [pc EXCEPT ![r] = "idle"]
  /\ rq' = [rq EXCEPT ![r] = NoRequest]
  /\ UNCHANGED <<meta, refs, wt, made, holds>>

Refuse(r) ==
  /\ pc[r] = "body" /\ ~Accepts(r)
  /\ tree' = IF rq[r].op = "start" THEN Switched ELSE tree
  /\ Finish(r)
  /\ UNCHANGED <<meta, refs, wt, made>>

(***************************************************************************)
(* task-start and task-complete.                                           *)
(***************************************************************************)
\* Variant: what a start that died left behind is taken over as it is.
StartTaskOnLeftovers(r) ==
  /\ AtBody(r, "start") /\ tree[Integration] # "dirty"
  /\ ActiveSequential = {} /\ rq[r].rec.mode = "parallel"
  /\ LET t == rq[r].task  tip == refs[Integration]
     IN  /\ Goto(r, "write", [rq[r].rec EXCEPT !.base = tip])
         /\ wt'   = wt \cup {t}
         /\ refs' = [refs EXCEPT ![t] = IF @ = NoCommit THEN tip ELSE @]
         /\ tree' = [Switched EXCEPT ![t] = "clean"]
  /\ UNCHANGED <<meta, made>>

StartTask(r) ==
  /\ AtBody(r, "start") /\ Accepts(r)
  /\ LET t == rq[r].task  rec == rq[r].rec  tip == refs[Integration]
     IN  /\ Goto(r, "write", [rec EXCEPT !.base = tip])
         /\ IF rec.mode = "parallel"
              THEN /\ wt'   = wt \cup {t}
                   /\ refs' = [refs EXCEPT ![t] = tip]
                   /\ tree' = [Switched EXCEPT ![t] = "clean"]
              ELSE tree' = Switched /\ UNCHANGED <<wt, refs>>
  /\ UNCHANGED <<meta, made>>

\* Variant: the status is spelt like the operation.
CompletedAs(rec, head) == [rec EXCEPT !.head = head, !.status = "complete"]

Completed(rec, head) == [rec EXCEPT !.head = head, !.status = "completed"]

CompleteTask(r) ==
  /\ AtBody(r, "complete") /\ Accepts(r)
  /\ LET ws == Workspace(rq[r].task, rq[r].rec)
     IN  Goto(r, "write", Completed(rq[r].rec, refs[ws]))
  /\ UNCHANGED <<disk, made>>

(***************************************************************************)
(* task-merge.                                                             *)
(***************************************************************************)
\* Variant: HEAD is read before git merge runs.
MergedFrom(rec, tip, commit) == [rec EXCEPT !.merge = tip]

Merged(rec, tip, commit) == [rec EXCEPT !.merge = commit]

MergeTask(r) ==
  /\ AtBody(r, "merge") /\ Accepts(r)
  /\ LET rec   == rq[r].rec
         tip   == refs[Integration]
         upToDate == rec.head \subseteq tip
         commit == IF upToDate THEN tip ELSE tip \cup rec.head \cup {born + 1}
     IN  /\ born' = IF upToDate THEN born ELSE born + 1
         /\ refs' = [refs EXCEPT ![Integration] = commit]
         /\ Goto(r, "merged", Merged(rec, tip, commit))
  /\ tree' = Switched
  /\ UNCHANGED <<meta, wt, human, strays>>

\* Both sides moved and git stops on a conflict ...
MergeConflict(r) ==
  /\ AtBody(r, "merge") /\ Accepts(r) /\ "conflict" \in Env
  /\ ~(rq[r].rec.head \subseteq refs[Integration])
  /\ ~(refs[Integration] \subseteq rq[r].rec.head)
  /\ tree' = [tree EXCEPT ![Integration] = "dirty"]
  /\ Goto(r, "conflict", rq[r].rec)
  /\ UNCHANGED <<meta, refs, wt, made>>

\* ... then git merge --abort restores the branch and the request fails.
MergeRestore(r) ==
  /\ pc[r] = "conflict"
  /\ tree' = [tree EXCEPT ![Integration] = "clean"]
  /\ Finish(r)
  /\ UNCHANGED <<meta, refs, wt, made>>

(***************************************************************************)
(* task-abort, and the clean-up it shares with task-merge.                 *)
(***************************************************************************)
RemoveWorktree(r) ==
  /\ \/ pc[r] = "merged"
     \/ AtBody(r, "abort")       \* --force; skipped when there is no directory
  /\ wt' = wt \ {rq[r].task}
  /\ tree' = [tree EXCEPT ![rq[r].task] = "clean"]     \* its checkout is gone too
  /\ Goto(r, "removed", rq[r].rec)
  /\ UNCHANGED <<meta, refs, made>>

\* git branch -d after a merge, -D after an abort.
DeleteBranch(r) ==
  /\ pc[r] = "removed"
  /\ refs' = [refs EXCEPT ![rq[r].task] = NoCommit]
  /\ Goto(r, "write", [rq[r].rec EXCEPT !.status = IF rq[r].op = "merge"
                                                     THEN "merged" ELSE "aborted"])
  /\ UNCHANGED <<meta, wt, tree, made>>

\* write_json is atomic (temporary file, os.replace); it writes the record the
\* thread loaded before it had the lock, with this operation's changes.
WriteRecord(r) ==
  /\ pc[r] = "write"
  /\ meta' = [meta EXCEPT ![rq[r].task] = rq[r].rec]
  /\ Finish(r)
  /\ UNCHANGED <<refs, wt, tree, made>>

(***************************************************************************)
(* project-sync and project-export.                                        *)
(***************************************************************************)
\* Variant: the branch is reset to the human history.
SyncedByReset(tip, main) == main

\* merge --ff-only, or nothing: already there, ahead, or diverged (an error).
Synced(tip, main) == IF tip \subseteq main THEN main ELSE tip

SyncRepo(r) ==
  /\ AtBody(r, "sync")
  /\ tree' = Switched
  /\ refs' = [refs EXCEPT ![Integration] =
                 IF tree[Integration] = "dirty" THEN @ ELSE Synced(@, rq[r].seen)]
  /\ Finish(r)
  /\ UNCHANGED <<meta, wt, made>>

ExportHead(r) ==
  /\ AtBody(r, "export") /\ Accepts(r)
  /\ pc' = [pc EXCEPT ![r] = "bundle"]
  /\ rq' = [rq EXCEPT ![r].seen = refs[Integration]]
  /\ UNCHANGED <<disk, made, holds>>

\* git bundle create packs the branch as it is now; the answer names rq[r].seen.
ExportBundle(r) ==
  /\ pc[r] = "bundle"
  /\ Finish(r)
  /\ UNCHANGED <<disk, made>>

(***************************************************************************)
(* run and index: a container works in the workspace under the lock.       *)
(***************************************************************************)
OpenSession(r) ==
  /\ pc[r] = "body" /\ rq[r].op \in {"run", "index"} /\ Accepts(r)
  /\ Goto(r, "session", rq[r].rec)
  /\ UNCHANGED <<disk, made>>

Writing(r) == pc[r] = "session" /\ ~rq[r].shared

\* The container of a session; its workspace is mounted when it starts.
ContainerOf(q) == [op |-> q.op, task |-> q.task, ws |-> Workspace(q.task, q.rec)]

Mounted(c) == c.ws \in {Integration} \cup wt

\* It commits on the branch of its workspace ...
CommitIn(c) ==
  /\ c.op = "run" /\ Mounted(c) /\ tree[c.ws] \in {"clean", "dirty"} /\ born < MaxCommits
  /\ born' = born + 1
  /\ refs' = [refs EXCEPT ![c.ws] = @ \cup {born + 1}]
  /\ tree' = [tree EXCEPT ![c.ws] = "clean"]
  /\ UNCHANGED <<meta, wt, human, pc, rq, holds, strays>>

\* ... leaves uncommitted files there, or another commit checked out.
TouchIn(c) ==
  /\ "untidy" \in Env /\ Mounted(c)
  /\ \E s \in TreeState : /\ s \in {"off", "detached"} => c.op = "run"
                          /\ tree' = [tree EXCEPT ![c.ws] = s]
  /\ UNCHANGED <<meta, refs, wt, made, pc, rq, holds>>

SessionCommit(r) == Writing(r) /\ CommitIn(ContainerOf(rq[r]))
SessionTouch(r)  == Writing(r) /\ TouchIn(ContainerOf(rq[r]))

CloseSession(r) ==
  /\ pc[r] = "session"
  /\ Finish(r)
  /\ UNCHANGED <<disk, made>>

(***************************************************************************)
(* The environment.                                                        *)
(***************************************************************************)
\* The human takes the agents' work, or not, and commits on top.
HumanCommit ==
  /\ "human" \in Env /\ born < MaxCommits
  /\ \E from \in {human} \cup {c \in {refs[Integration]} : human \subseteq c} :
       human' = from \cup {born + 1}
  /\ born' = born + 1
  /\ UNCHANGED <<disk, pc, rq, holds, strays>>

\* agentd dies and systemd restarts it: threads and flocks are gone, the disk stays.
\* Containers are in scopes of the user's systemd, not in the unit of agentd, and
\* nothing looks for them after the restart: those of sessions may live on.  Bound:
\* of one crash at a time.
Crash ==
  /\ "crash" \in Env /\ \E r \in Req : pc[r] # "idle"
  /\ strays' = IF "survive" \in Env /\ strays = {}
                 THEN {ContainerOf(rq[r]) : r \in {q \in Req : Writing(q)}} ELSE strays
  /\ pc' = [r \in Req |-> "idle"]
  /\ rq' = [r \in Req |-> NoRequest]
  /\ holds' = [r \in Req |-> {}]
  /\ UNCHANGED <<disk, born, human>>

Stray(c) == CommitIn(c) \/ TouchIn(c)

StrayEnds(c) == strays' = strays \ {c} /\ UNCHANGED <<disk, born, human, pc, rq, holds>>

(***************************************************************************)
(* The specification.                                                      *)
(***************************************************************************)
Init ==
  /\ meta = [t \in Task |-> NoRecord]
  /\ refs = [n \in Name |-> IF n = Integration THEN Initial ELSE NoCommit]
  /\ wt = {}
  /\ tree = [n \in Name |-> "clean"]
  /\ born = 0
  /\ human = Initial
  /\ pc = [r \in Req |-> "idle"]
  /\ rq = [r \in Req |-> NoRequest]
  /\ holds = [r \in Req |-> {}]
  /\ strays = {}

\* One step of a request that has been accepted by the broker.
Advance(r) ==
  \/ Acquire(r)        \/ AcquireTask(r)  \/ Refuse(r)
  \/ StartTask(r)      \/ CompleteTask(r)
  \/ MergeTask(r)      \/ MergeConflict(r) \/ MergeRestore(r)
  \/ RemoveWorktree(r) \/ DeleteBranch(r)  \/ WriteRecord(r)
  \/ SyncRepo(r)       \/ ExportHead(r)    \/ ExportBundle(r)
  \/ OpenSession(r)    \/ CloseSession(r)

Session(r) == SessionCommit(r) \/ SessionTouch(r)

Next == \/ \E r \in Req : Begin(r) \/ Advance(r) \/ Session(r)
        \/ HumanCommit
        \/ Crash
        \/ \E c \in strays : Stray(c) \/ StrayEnds(c)

Spec == Init /\ [][Next]_vars

\* A thread that can take its next step takes it: the kernel grants a lock that is
\* free, git commands return, and a container ends (its agent exits or the operator
\* cancels it).
Fairness == \A r \in Req : WF_vars(Advance(r))

FairSpec == Spec /\ Fairness
=============================================================================
