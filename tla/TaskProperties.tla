--------------------------- MODULE TaskProperties ---------------------------
(***************************************************************************)
(* What the task life cycle promises.  The first part holds whatever the   *)
(* clients do concurrently and wherever the daemon dies.  The second part  *)
(* is what the documentation says: requests that overlap break all of it,  *)
(* requests issued one at a time keep the ledger, the exclusion of the     *)
(* modes and the dependencies, and a crash breaks the rest even then.      *)
(***************************************************************************)
EXTENDS TaskLifecycle

\* Every variable has its type: records, references, threads and locks.
TypeOK ==
  /\ meta  \in [Task -> TaskRecord]
  /\ refs  \in [Name -> Commit]
  /\ wt    \subseteq Task
  /\ tree  \in [Name -> TreeState]
  /\ born  \in Nat
  /\ human \in Commit
  /\ pc    \in [Req -> PC]
  /\ rq    \in [Req -> Request]
  /\ holds \in [Req -> SUBSET Name]
  /\ strays \subseteq Container

(***************************************************************************)
(* Under concurrency and crashes.                                          *)
(***************************************************************************)
\* The thread holds all its locks and works.
Working(r) == pc[r] \notin {"idle", "lock", "nested"}

\* The checkouts a request reads or changes.
Checkouts(q) ==
  CASE q.op \in {"start", "sync", "export"}  -> {Integration}
    [] q.op \in {"merge", "abort"}           -> {Integration, q.task}
    [] q.op \in {"complete", "run", "index"} -> {Workspace(q.task, q.rec)}
    [] OTHER                                 -> {}
Touches(r) == Checkouts(rq[r])

\* Two requests work in the same checkout at once only if both just read it:
\* the lock chosen from a record loaded before locking (task_lock_name,
\* run_lock_name) still protects the workspace chosen from that record.
WorkspaceExclusive ==
  \A r, q \in Req : r # q /\ Working(r) /\ Working(q) /\ Touches(r) \cap Touches(q) # {}
                      => rq[r].shared /\ rq[q].shared

Waiting(r)  == pc[r] \in {"lock", "nested"}
WaitsFor(r) == IF pc[r] = "nested" THEN rq[r].task ELSE rq[r].lock

\* Waiting threads never wait only for each other (or for themselves, by opening
\* a lock file twice): merge and abort take integration first, then the task.
DeadlockFree ==
  (\E r \in Req : Waiting(r)) =>
     \E q \in Req : Working(q) \/ (Waiting(q) /\ Grantable(q, WaitsFor(q)))

\* However many task-starts race, at most one integration task is active:
\* start checks the records and writes its own under one integration lock.
OneActiveSequential == \A s, t \in ActiveSequential : s = t

\* A merged record names a merge commit that contains the recorded head and that
\* the integration branch still contains.
MergedIsIntegrated ==
  \A t \in Task : meta[t].status = "merged" =>
     meta[t].head \subseteq meta[t].merge /\ meta[t].merge \subseteq refs[Integration]

\* The head task-complete writes is the head of the workspace at that moment, not
\* only when it was read: nobody commits there between rev-parse and write_json.
RecordedHeadIsCurrent ==
  \A r \in Req : pc[r] = "write" /\ rq[r].op = "complete" =>
     rq[r].rec.head = refs[Workspace(rq[r].task, rq[r].rec)]

\* The head project-export reports is the one git bundle create packs: the shared
\* integration lock keeps every writer out between the two.
ExportConsistent ==
  \A r \in Req : pc[r] = "bundle" => rq[r].seen = refs[Integration]

\* The integration branch only ever gains commits: no merge, conflict, crash or
\* project-sync takes one away, diverged human histories included.
IntegrationGrows == [][refs[Integration] \subseteq refs'[Integration]]_vars

\* Once a merge has moved the integration branch, its clean-up cannot fail: the
\* worktree is still there and not dirty (git worktree remove without --force) and the
\* branch has nothing integration lacks (git branch -d).  So a merge is never left
\* half done with a commit about to be dropped, except by a crash.
CleanupCannotFail ==
  \A r \in Req : LET t == rq[r].task IN
    /\ pc[r] = "merged" => t \in wt /\ tree[t] # "dirty"
    /\ pc[r] = "merged" \/ (pc[r] = "removed" /\ rq[r].op = "merge") =>
         refs[t] # NoCommit /\ refs[t] \subseteq refs[Integration]

\* task-merge adds to the integration branch exactly the head a completed parallel
\* task's record names at that moment (and the merge commit), though it loaded its
\* record before locking and a second task-complete may have rewritten it since.
MergesRecordedHead ==
  [][\A r \in Req :
       LET rec == meta[rq[r].task]  tip == refs[Integration] IN
       pc[r] = "body" /\ pc'[r] = "merged" /\ rec.mode = "parallel" /\ rec.status = "completed"
         => refs'[Integration] = tip \cup rec.head
                                   \cup IF rec.head \subseteq tip THEN {} ELSE {born'}]_vars

\* A parallel task's record is only ever written for a worktree and branch made for it
\* from the recorded base.  A start that dies between git worktree add and write_json
\* leaves a branch without a record; no later start adopts it, when integration has
\* moved on from where it was made.
StartsFresh ==
  [][\A t \in Task : meta[t].status = "absent" /\ meta'[t].mode = "parallel" =>
        t \in wt /\ refs[t] = meta'[t].base]_vars

\* Once clients stop sending requests, every thread gets its locks and finishes.
RequestsDrain ==
  []<><<\E r \in Req : pc[r] = "idle" /\ pc'[r] = "lock">>_vars
    \/ <>[](\A r \in Req : pc[r] = "idle")

(***************************************************************************)
(* What the documentation says.                                            *)
(***************************************************************************)
\* The records as their readers see them.
Ledger == INSTANCE TaskLedger WITH status <- [t \in Task |-> meta[t].status],
                                   mode   <- [t \in Task |-> meta[t].mode],
                                   deps   <- [t \in Task |-> meta[t].deps]

\* Requests issued one at a time, whatever the daemon survives, change the records
\* only as the ledger allows.
LedgerSpec == Ledger!Spec

\* "parallel tasks must be merged/aborted before sequential work continues", and no
\* parallel task starts while an integration task is active (core/tasks.py).
ModesExclude == ActiveSequential = {} \/ PendingParallel = {}

\* "write execution is allowed only while task status is active" (op_run), said of
\* the containers that outlived agentd: nothing stops them when it comes back, and
\* their lock is free.
StraysOnlyWhileActive ==
  \A c \in strays : c.op = "run" => meta[c.task].status = "active"

\* Only active/completed parallel tasks are aborted: a merged record stays merged.
MergedIsFinal ==
  [][\A t \in Task : meta[t].status = "merged" => meta'[t] = meta[t]]_vars

\* What a task was started on stays true: its dependencies are integrated, and
\* their commits are in the history the task began from.
DependenciesInBase ==
  \A t \in Task : \A d \in meta[t].deps :
     LET commit == IF meta[d].mode = "parallel" THEN meta[d].merge ELSE meta[d].head
     IN  commit # NoCommit /\ commit \subseteq meta[t].base

\* A pending parallel task can always be discarded with task-abort.
PendingCanBeAborted ==
  \A t \in PendingParallel :
     (\A r \in Req : pc[r] = "idle") => Loadable(t)
=============================================================================
