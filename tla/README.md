# agentdev in TLA+

A specification of the broker of this repository: `agentd`, the daemon that runs coding
agents in containers on task workspaces, with its project and task records, Git hand-off and
locks, its container sessions, its execution policies, and the provider state those
containers use. Paths below are relative to `src/platform-src/agentdev/`, unless they begin
with `README.md`, `docs/` or `ansible/`.

Contents: the system, the modules, the runs, the proofs, what disagrees with the
documentation, what is left out, and what could come next.

## 1. The system

`agentctl` (the operator's command) sends one JSON request over a Unix socket to `agentd`.
`agentd` accepts it (`broker/rpc.py`), serves it in **a thread of its own** and calls an
operation of `broker/daemon.py`. Operations on one project share files and Git
repositories:

| state | where | who changes it |
|---|---|---|
| task records | `tasks/<task>.json` | task-start, -complete, -merge, -abort |
| agent repository, branch `agent/integration` | `repo/agent` | task-start (switch), task-merge, project-sync, runs of integration tasks |
| worktree and branch `agent/<task>` of a parallel task | `worktrees/<task>` | task-start, runs, task-merge, task-abort |
| human repository, `main` | `repo/main` | the human; `agentctl` bundles it |
| lock files | `runtime/*.lock` | every operation, by `flock(2)` |
| provider state volumes and the configuration in them | podman volumes | run, auth, status, build; the provider itself |
| build manifest, generated policy files | `state/runtime` | build, run |

The only synchronisation is `core/locking.py`: one lock file for the integration branch,
one per parallel task. Volumes, configuration, policy files and the manifest have
none. **Nearly every operation reads and validates the task record before
it has the lock, and writes that copy back at the end.** That is the hard part of this
system, and what most of the project is about.

### Components

| component | source | state | operations | correct when | modelled |
|---|---|---|---|---|---|
| Task life cycle | `core/tasks.py`, `core/worktrees.py`, `core/dependencies.py`, `broker/daemon.py:740-880` | records, worktrees, branches | start, complete, merge, abort | records are true of the branches; nothing is lost; modes exclude each other; the documented statuses are respected | yes |
| Locks | `core/locking.py` | lock files | lock_one, task_lock_name, run_lock_name | one writer per checkout, no deadlock | yes |
| Git hand-off | `core/git_handoff.py`, `core/projects.py` | inbound ref, bundles | init, sync, export | the integration branch never loses a commit, an export is what it says | sync and export |
| run / index | `broker/daemon.py:1101-1210` | containers | run, index | work only in a workspace the lock covers, in a status that allows it; a shared lock writes nothing | yes |
| Process control | `runtime/podman.py`, `runtime/base.py`, `broker/runtime_io.py` | process, container, cidfile, control channel | output, input, resize, cancel, timeout | every cancel, hang-up and timeout ends the container; nothing outlives the lock | yes |
| RPC server | `broker/rpc.py` | connection | decode, validate, dispatch, answer | one answer per request, errors framed | its threads, the frames of a session |
| agentctl | `broker/cli.py` | terminal, send lock | rpc loop, signal handlers, input pump | cancel reaches the broker, the terminal is restored, no self-deadlock | the session loop |
| Policy | `policy/*.py` | none (pure) | validate, resolve, match capabilities | a resolved policy is never wider than any of its sources, and no narrowing is refused | yes |
| Drivers | `agents/*.py` | none (declarations) | capabilities, compile_policy, command lines | the emitted controls allow nothing the policy denies | capabilities and both compilers |
| Plans | `execution/*.py`, `broker/daemon.py:547-700` | none | build and validate a run's plan | mounts, lock and controls agree on what is read-only | mounts, validation, capabilities; no argument lists |
| Provider state | `agents/state.py`, `broker/daemon.py:170-500` | volumes, markers, configuration | create, migrate, change owner, reconcile | migrated once and whole, usable by the agent, managed fields enforced, safe when interrupted | yes |
| Published files | `broker/daemon.py:147-151`, `:265-300` and the manifest's writer | files | write_json, write_build_lock, materialize | a reader sees a whole file, and its own | yes |
| Policy serialisation | `policy/serialization.py` | none | render a policy | - | no: text |
| Bootstrap, Ansible, images | the rest | the host | provisioning | - | only the restart of `agentd` |

### Interactions and hard behaviours

* Threads of one daemon interleave between every two Git commands and at every lock.
* What an operation validated before its lock may be false when it acts.
* The daemon may die between any two steps; `systemd` restarts it; the disk stays, locks do
  not, and containers may: podman puts them in systemd scopes of their own
  (`ansible/playbook.yml:354-366`) and nothing looks for them after the restart.
* In a session four parties block on each other: agentctl's main thread with signal handlers
  on top of it, its input pump, the broker thread, and the container behind a PTY; the socket
  buffers between them are finite.
* `git merge` can fail on a conflict and is then aborted; `git worktree remove` and
  `git branch -d` refuse when something would be lost.
* An agent may commit, leave files uncommitted, or leave another commit checked out.
* The human branch and the integration branch may diverge.
* A task may have the name of the project lock, `integration`: `core/validation.py` allows it.
* Provider state is prepared by shell scripts in helper containers, by every request and
  without a lock: two first uses interleave command by command, and any command may be the
  last before the host goes down. When `agentd` alone goes down, its helper containers may
  live on like any other and prepare beside the requests that come after.
* A policy is put together from sparse layers by field-wise comparison in four partial
  orders, two of which (security class, required sandbox) run against the others, and is then
  translated into two vocabularies of sandbox switches that can not express all of it.

Every place where one of these bites is listed in `PROJECT.json` under `hazards`, with its
line and the properties that watch it.

## 2. The modules

| module | what it is |
|---|---|
| `TaskLifecycle` | the specification of operations on a project: threads, locks, Git steps, crashes |
| `TaskProperties` | type invariant, safety, action and liveness properties, the refinement mapping |
| `TaskLedger` | the abstract specification of the records: no threads, locks, commits or crashes |
| `InteractiveSession`, `SessionProperties` | one container session: agentctl, socket, broker thread, podman, container; the refinement mapping |
| `SessionContract` | the abstract specification of a session: no frames, signals, processes or buffers |
| `ExecutionPolicy` | the schema of a policy, sparse layers, the resolver's comparisons, profiles, run flags (constant operators) |
| `AgentDrivers` | what the Codex and Cursor drivers declare and emit, and the plan of a run (constant operators) |
| `PolicyPipeline`, `PolicyProperties` | one request on its way through these operators |
| `ProviderLaunch`, `LaunchProperties` | threads that prepare provider state, publish files and start containers |
| `MCTasks`, `MCSession`, `MCPolicy`, `MCLaunch` | the modules TLC runs: symmetry sets, and the inputs of the policy run |
| `TaskProofs` | the inductive invariants of the life cycle, for any concurrency |
| `MergeProofs` | what a merge integrates and what an abort can discard, for any concurrency |
| `LedgerProofs` | with requests one at a time: the records implement the ledger |
| `ContractProofs` | a session implements its contract |
| `SessionProofs`, `PolicyProofs`, `LaunchProofs` | invariants of the other three specifications |

How they meet. An `op_run` is, in the order of the code: `ProviderLaunch` (volumes,
configuration), `PolicyPipeline` (flags, compilation, plan, capability check, lock), then a
session in `TaskLifecycle`. Each of the first two is needed by the next only through a fact
it establishes, so they are separate specifications: `StartsPrepared` is what a session finds
in its volumes, `SharedLockWritesNothing` is why `TaskLifecycle` may let read-only
runs share a lock and not touch the workspace.

`TaskLifecycle` sees a session as one interval, `OpenSession` to `CloseSession`, in which the
container changes the workspace under the lock. `InteractiveSession` opens that interval up,
and `ContainerUnderLock` is what it owes to `TaskLifecycle`: the container is gone when the
lock is released. The two exceptions are in both: a crash leaves containers behind
(`strays`), and so does the non-interactive path (section 5).

### TaskLifecycle

State and code:

| variable | code |
|---|---|
| `meta[t]` | `tasks/<t>.json`: mode, status, base, head and merge commit, dependencies |
| `refs[n]` | `agent/<n>` in `repo/agent`; `NoCommit` when the branch is missing |
| `wt` | the tasks with a directory `worktrees/<t>` |
| `tree[n]` | checkout of `repo/agent` or of a worktree: clean, dirty (`git status` not empty, or a merge in progress), detached (HEAD at the branch's commit but not on the branch), off (HEAD elsewhere) |
| `human` | head of the human `main` |
| `pc`, `rq`, `holds` | per thread: where it is, the request **with the record it loaded before locking**, the lock files it has |
| `strays` | containers of write sessions that outlived `agentd`: operation, task, workspace |

A commit is the set of commit numbers reachable from it, so `merge-base --is-ancestor` is
`\subseteq`, a merge is a union and one new number, and "the branch lost a commit" can be
said directly. Files, authors and messages are left out: no property depends on them.

A request goes through `idle -> lock -> (nested ->) body -> ... -> idle`:

* `BeginX` is the code before the lock: names, `load_task`, status checks. A request
  refused there changes nothing and is not a step.
* `Acquire` and `AcquireTask` are `lock_one`; merge and abort open a second lock file inside
  the first. A lock belongs to the open file, so a thread can block on itself.
* At `body` the operation makes the checks it makes under the lock (`Startable`,
  `Completable`, `Mergeable`, ...): `Refuse`, or the first step of the work.
* Each Git command that changes something is a step: worktree add with its branch
  (one command), merge, conflict and `merge --abort`, worktree remove, branch delete,
  `write_json` (atomic, by `os.replace`), so a crash can fall between any two.
* `ensure_clean` plus `git switch agent/integration` is part of the step that follows, as
  both run under the integration lock.
* `Mergeable` compares commits only, as `validate_recorded_head` does: a worktree whose HEAD is
  detached at the recorded commit is merged.
* `SessionCommit` and `SessionTouch` are the agent in its container: it commits on the
  branch of its workspace, leaves files behind, or moves HEAD. It touches no other
  checkout (the others are not mounted or are read-only) and rewrites no history.
* `Crash` stops all threads and drops all locks. With `"survive"` in `Env` the containers of
  write sessions go on as `strays`, which commit and touch files without a lock until they end
  (`Stray`, `StrayEnds`); without it they die with the daemon. Which of the two happens is
  decided by podman and systemd, not by this code, and the documented configuration makes
  survival the normal case for a session with a terminal.
* `HumanCommit` takes the agents' work or not and commits on top, so histories diverge.

A definition under a comment starting with "Variant:" is a plausible mistake in the
definition that follows it. Putting it in place of the original breaks the property listed
for it in `PROJECT.json` ("mutants"): a check that the property watches the code.

### TaskLedger

What a reader of the records may assume: a task starts once, on settled dependencies, when
no sequential task is active (and, to be sequential, none is outstanding); it completes, is
merged or aborted; nothing goes back. `TaskProperties!LedgerSpec` states that the life cycle
implements it; the mapping is the mode, status and dependencies of `meta`.

### InteractiveSession

| variable | code |
|---|---|
| `handlers` | SIGINT and SIGWINCH handlers on the stack of agentctl's main thread, innermost last; each is before `send_lock` or sending under it |
| `pump`, `typing`, `keys` | the input pump: frames of the last `os.read` still to send, whether it goes on, how often it has read |
| `sendLock`, `cancelSent`, `result` | `send_lock`, `cancel_sent`, and what `rpc` returned |
| `up`, `down` | frames in the socket, `Room` in each direction; a full buffer blocks `sendall` |
| `buf` | frames the broker's buffered file object has received but not returned |
| `bpc`, `cause`, `expired` | where the broker thread is in `run_interactive_argv`, why the session ends, the deadline |
| `proc`, `box`, `cid` | the podman client, the container, the cidfile that names it |
| `tty`, `produced`, `shown` | chunks in the PTY, written by the agent, displayed by agentctl |

One turn of the broker's loop is `CheckDeadline`, `SelectOutput` (`WriteOutput`), one of
`NoControl`, `ReceiveControl` and `ReceiveEnd`, and `Poll`; it leaves through `Drain`,
`Stop` (`terminate_process_group`), `Clean` (`podman rm -f` of the cidfile's container),
`Answer` and `Release`: the exit frame is sent inside `lock_one`
(`broker/daemon.py:1192-1210`), so agentctl can have returned while the lock is still held, and
`agentd` can die in between. Input goes to the PTY with a blocking `os.write`
(`runtime/podman.py:205`): at `input` the thread looks at nothing else until the agent reads
(`TakeInput`, with no fairness) or the podman client is gone (`InputFails`). A broker that closes
with frames unread resets the connection, which agentctl does not expect (`ReadEnd`). `NoControl` is the `select` in `receive_control`: it looks at `up`, not at `buf`.
A signal handler can start wherever the main thread is (`Interrupt`), inside another handler
too, as Python runs handlers between bytecodes. With `Interactive = FALSE` the broker thread
runs `run_noninteractive_argv`: only `Drain`, `DrainWrite`, `Answer`, `Release`. Base64, window sizes
and the text of output are left out. `SIGINT` tests and sets `cancel_sent` in one step; the
same two steps of the pump are apart, so two cancel frames are possible, as in the code.

### SessionContract

What whoever waits for a session may rely on: the container runs under the lock of the
workspace, output is displayed after it was written, and an exit code means that the container
will not run again, so that the lock is free or about to be: all that can follow is its release
(`End`, then `Close`). The agent's own code also means that all of its output was displayed.
That the lock is free already is not promised, as the code does not do it. `130` may come after a crash too, since agentctl answers it itself when
the connection ends after a Ctrl-C (`broker/cli.py:273`); every other end of the connection is
no exit code. `SessionProperties!ContractSpec` states that a session implements it; the
mapping is the phase of the broker thread, the container, the counts of output and `result`.

### ExecutionPolicy, AgentDrivers, PolicyPipeline

A policy is a flat record, one field for each leaf of the nested dataclasses; a sparse layer
is a function on some of the fields, which may hold `Malformed` where the code meets a wrong
type. `WellFormed` is what `ExecutionPolicy.from_dict` accepts, `Merge` is `_merge_layer` with
its rule for inherited destinations, `Candidate` is the parsed result, `NotWider` the
resolver's validation, each comparison under the name of its helper. `Rank` holds the orders.
Memory becomes bytes (`Multiplier`); the factor of `t` exceeds TLC's integers, so the run uses
`b` and `k`, and the proofs cover the others.

| variable of `PolicyPipeline` | code |
|---|---|
| `req` | the request: agent, flags, and for a policy request baseline, project and run layers and destinations |
| `stage` | where it is: flags, layers in the order of `PolicyResolver.resolve`, compile, plan, lock |
| `effective` | the policy resolved so far |
| `controls` | what the driver's `compile_policy` emits: sandbox and network switches, destinations, hidden credentials, a container prepared for a nested sandbox |
| `mounts`, `lock` | the plan's mounts with their access, and the mode of the workspace lock |

There are two kinds of request because the code has two paths. `op_run` takes the **legacy**
path today: flags, `compile_policy` of flags, plan, capability check, lock. The resolver and
`compile_policy` of an `ExecutionPolicy` are complete and tested but not called by
`op_run`, so they are a request of their own, `policy`. A rejection anywhere ends in
`rejected`, as the exceptions do.

### ProviderLaunch

| variable | code |
|---|---|
| `legacy` | volumes for which the legacy volume has a directory |
| `vol[v]` | exists; legacy files copied (`torn`: half); layout marker; owner (`part`: chown done, owner marker not) |
| `config` | the configuration that `JsonFieldReconciliation` manages: absent, empty, with the seed's managed fields or with others; and which thread's `install` has it open |
| `policy` | the directory of generated policy files, by content digest |
| `tmp`, `manifest` | `build-manifest.lock.json` and its temporary file, which is named after the process |
| `th[r]` | a thread with the container it waits for: stage, position in the volumes, jq's output, the policy it mounted, the file it has open; or a container that outlived its thread (`Orphan`) |
| `raced`, `cut` | history: two, threads or such containers, were in one script; a container died in a copy or an install |

A thread goes through `Exists`/`Create` for each volume, `Probe`, the migration script
(`TestMarker`, `FindFiles`, `CopyBegin`, `CopyEnd`, `Mark`), `OwnerProbe`/`AdjustBegin`/
`AdjustEnd`, the reconciliation (`TestConfig`, then `InstallBegin`/`InstallEnd` or `Jq`/`Mv`),
and then publishes its policy file and starts its container, or writes the manifest.
Every command of a script that others can see is a step. The scripts end at the first error
(`set -eu`), which fails the request. Two details matter. The script runs as root without
capabilities, so once another thread has given a volume to the agent it can not write there
(`MigrationDenied`). And a file descriptor follows a rename: who still writes the temporary
file when another build renames it writes the manifest from then on (`Replace`).
Only a compiled `ExecutionPolicy` has policy files, so `Publish` is for requests that have one.

`Crash` is the end of `agentd`, with the host or alone (`agentd.service.j2` restarts it). Threads
go; of the containers, any may live on (`Survivable`: the migration, the change of an owner,
the seeding, the provider), as each has a scope of its own, and any may die with the daemon, as the
podman client does. One that lives on works off its script beside whatever comes next, and
where it ends no thread goes on (`Return`). It keeps its place in `th` until then, so with two
places there is one such container beside one new request, or two in turn.

## 3. The runs

| run | instance | states | what it shows |
|---|---|---|---|
| `tasks_concurrent` | 2 tasks, 2 threads, start/complete/merge/abort/run, conflicts, crashes, 2 commits | 1.38 M | workspaces are exclusive, no deadlock, one active sequential task, recorded heads and merges are true, merge clean-up cannot fail, a start never adopts leftovers |
| `tasks_handoff` | 1 task, 2 threads, all operations, all of `Env` but survival, 2 commits, fair threads | 0.50 M | exports are consistent, integration only grows, requests drain |
| `tasks_three` | 1 task, 3 threads, crashes, 1 commit | 0.21 M | merges integrate the head recorded *now*, with two stale requests and a third thread that changes the task |
| `tasks_one_at_a_time` | 3 tasks, one called `integration`, 1 thread, task operations, run and sync, crashes, surviving containers, human commits | 1.44 M | modes exclude each other, dependencies stay in the base, the ledger refinement, and no self-deadlock; also with containers that still write after a crash |
| `session` | an interactive session with every event, buffers of 2 frames, 2 nested handlers, 1 read of the pump, 1 chunk of output, fair threads | 0.76 M | the container ends before the lock, output comes before the exit code, a hang-up and a timeout end the session but for named states, the session implements its contract |
| `policy` | 6 baselines, 4 profiles, 2 drivers, project layers with each field at each value and malformed, pairs of fields, run layers; all legacy runs | 0.29 M | resolution narrows and refuses no narrowing, profiles keep their promise, hardened fails closed, controls stay within the policy, shared locks write nothing |
| `launch` | 2 threads, the 2 volumes of the Cursor driver, a managed configuration, 2 policy contents, 1 crash with any of the containers living on, a provider that saves | 6.32 M | containers find prepared state, preparation is repeatable, policy files are not mixed up, the manifest is whole |

Bounds of the task runs (module `MCTasks`): `Task`, `Req` (threads), `Ops` (operations clients
use), `Env` (what may go wrong) and `MaxCommits`, which limits commits by agents and humans;
merge commits need no limit, each consumes an agent's commit. Two threads and two tasks give
each pair of operations, on the same and on different tasks, in each order; three threads are
needed for two stale snapshots at once. Two commits let both sides of a merge move, which a
conflict needs, and let a human history diverge. Containers that survive a crash are
bounded to those of one crash at a time (`Crash`); a later crash while one of them lives leaves no more.

In `session`, buffers of two frames are the smallest in which frames can arrive together and
stay in `buf`, two handlers are the smallest stack on which one can wait for the other, and
one chunk of output and the timeout notice fill the buffer towards agentctl.

In `policy`, the layers are single fields and the pairs that interact (mode with
destinations, sandbox with credentials): the comparisons are field by field, with destinations
as the only exception. Three limits and two destinations are enough for below, at and
above. The proofs drop all of these bounds.

In `launch`, two volumes are the smallest layout that can be half marked, two contents the
fewest that can be mixed up. One crash (`MaxCrashes`) cuts each script at each command, or lets
it go on without its thread, and what it leaves is prepared again by two threads that race, or
by one beside a container that goes on; a second
crash cuts states like those of the first. The proofs hold for any number of threads, volumes, policies and crashes.

Symmetry permutes threads, and tasks in `tasks_concurrent`. The step properties of runs with
symmetry quantify over all tasks and threads and tell none of them apart; liveness is checked
only without symmetry. `CHECK_DEADLOCK FALSE` appears where a run ends: all tasks finished
and all threads idle, a session over, a policy request answered. `tasks_handoff`,
`tasks_one_at_a_time` and `launch`, where there is always something to ask for, check for
deadlock.

`raced` and `cut` are history and never become false again, so they hold in most states of
`launch`. What remains is not little: 0.58 M states have neither, 0.97 M no `raced` (the crash
included), 4.0 M no `cut`; and each disjunct with one of them is there because of a
behaviour of the code (section 5).

**Fairness** (`FairSpec`): weak fairness of each accepted request. The kernel schedules the
threads, Git commands return, a container ends or is stopped by the operator. `flock` has no
queue, so nothing is claimed about a thread that competes forever: `RequestsDrain` says that
when requests stop arriving, all threads finish. For a session: weak fairness of agentctl's
main thread and pump, of the broker thread, and of the podman client. Nothing is assumed of the
agent, the operator and the clock: an agent may never write, end or read. The liveness
properties name the states of the code in which they fail because of that or of the
code itself, each as "for ever": `InputUnread`, the broker blocked in `os.write` on input
that the agent does not read, excepts `HangupEnds`, `TimeoutEnds` and `CancelEnds`;
`LockedByItself` and `LockedInCircle` except `TimeoutEnds`: agentctl can lock itself up in a
signal handler (a `Lock` that is not reentrant, blocking `sendall` on both sides), reached only
with full socket buffers or a signal inside a signal handler, and then no longer takes the
output the broker must write before it can stop the process. So `TimeoutEnds` does not watch those
lock-ups; `HangupEnds` does not except them, and shows that killing agentctl ends them. Which of
these exceptions are met is section 5.

The runs named `find_*` each check one statement of the documentation, of an error message
or of a test that the code does not keep (section 5).

## 4. The proofs

Seven modules, for all values of the constants. The assumptions are the named ASSUMEs of
the specifications (operations and events are known ones, bounds are numbers, a list of
volumes is not empty, policy requests have a baseline that satisfies the schema), and what the
last column says on top: *containers die* (`ContainersDie`, no container outlives `agentd`),
*no crash* (`NoCrashes`, or no `"crash"` in `Env`), *none survives* (no `"survive"` in `Env` of
`ProviderLaunch`), *no saves* (no `"save"` there), *one at a time* (`OneAtATime` and
`OneRequest`, `\A q, r \in Req : q = r`: requests are issued one at a time), *interactive*
(the session has a terminal), *managed* (the driver has a managed configuration).

| theorem | property | |
|---|---|---|
| `TaskProofs!TypeCorrect` | `TypeOK` | |
| `TaskProofs!WorkspacesExclusive` | `WorkspaceExclusive` | |
| `TaskProofs!NoDeadlock` | `DeadlockFree` | |
| `TaskProofs!IntegrationOnlyGrows` | `IntegrationGrows` | |
| `TaskProofs!OneSequentialTask` | `OneActiveSequential` | |
| `TaskProofs!MergedStaysIntegrated` | `MergedIsIntegrated` | |
| `TaskProofs!StartsAreFresh` | `StartsFresh` | |
| `TaskProofs!MergeCleansUp` | `CleanupCannotFail` | containers die |
| `TaskProofs!CompletionIsCurrent` | `RecordedHeadIsCurrent` | containers die |
| `TaskProofs!ExportIsConsistent` | `ExportConsistent` | containers die |
| `MergeProofs!HeadsAgree` | the inductive invariant `HeadsInv` | |
| `MergeProofs!MergesWhatIsRecorded` | `MergesRecordedHead` | |
| `MergeProofs!PendingStaysAbortable` | `PendingCanBeAborted` | no crash |
| `LedgerProofs!RecordsRefineLedger` | `LedgerSpec` | one at a time |
| `LedgerProofs!SequentialExcludesParallel` | `ModesExclude` | one at a time |
| `LedgerProofs!DependenciesStay` | `DependenciesInBase` | one at a time |
| `LedgerProofs!MergedStaysMerged` | `MergedIsFinal` | one at a time |
| `SessionProofs!ContainersEndFirst` | `ContainerUnderLock` | interactive |
| `SessionProofs!SessionTypes` | `SessionTypeOK` | |
| `SessionProofs!OutputComesFirst` | `OutputBeforeExit` | |
| `ContractProofs!SessionKeepsContract` | `ContractSpec` | interactive |
| `PolicyProofs!PolicyTypeCorrect` | `PolicyTypeOK` | |
| `PolicyProofs!ResolutionNarrows` | `NothingWidens` | |
| `PolicyProofs!LayersAreKept` | `LayersKept` | |
| `PolicyProofs!ProfilesKeepTheirPromise` | `ProfileIntent` | |
| `PolicyProofs!HarmlessIsAccepted` | `HarmlessAccepted` | |
| `PolicyProofs!HardenedIsRefused` | `HardenedFailsClosed` | |
| `PolicyProofs!ControlsStayWithin` | `ControlsWithinPolicy` | |
| `PolicyProofs!SharedRunsOnlyRead` | `SharedLockWritesNothing` | |
| `LaunchProofs!LaunchTypeCorrect` | `LaunchTypeOK` | |
| `LaunchProofs!ContainersFindPreparedState` | `StartsPrepared` | |
| `LaunchProofs!PreparationIsRepeatable` | `NoFalseAlarm` | |
| `LaunchProofs!PoliciesAreNotMixedUp` | `RunMountsItsOwnPolicy` | |
| `LaunchProofs!ManifestIsWhole` | `ManifestWhole` | |
| `LaunchProofs!ReconciledBesideOthers` | `ManagedAtStart`, or `raced`, or `cut` | no saves, managed |
| `LaunchProofs!ReconciledBeforeStart` | `ManagedAtStart`, or `cut` | one at a time, none survives, managed |
| `LaunchProofs!ManagedWhenAlone` | `ManagedAtStart` | one at a time, no crash, managed |

`PendingCanBeAborted`, `MergedIsFinal` and `ManagedAtStart` are statements the code does not
keep (section 5). Their theorems say when it does, and so that what the counterexamples use
(a crash, two requests that overlap) is the only way to break them.

### Tasks

Those of `TaskProofs` without a mark hold with containers that outlived a crash: these have no
lock, but they only add commits and change no record. The marked ones are about what the locks
keep others from doing, and a container without a lock can break them.

The argument. None of these is inductive by itself. `LockInv` is: besides types it says what
a request looks like at each point (`RequestInv`), that a parallel task is never called
`integration` (`NameInv`: its branch could not be created, as `agent/integration` always has
the initial commit), that a thread holds exactly the locks of the checkouts it touches
(`HoldsInv`), and that two threads with a common lock only share it (`MutexInv`).
`HoldsInv` is where the choice of the lock from a record that may be stale is justified: lock
and workspace are chosen from the *same* snapshot, and no operation changes the mode in it,
nor its status to or from merged while it works in the workspace.

`AdvanceFacts` reduces the sixteen steps of a request to three kinds: it gets a lock, it
finishes, or it goes on in the same checkouts. So the lock invariants need three cases
instead of sixteen. `Frame` then says that a step leaves alone every checkout whose lock the
thread lacks, with one exception that the code really has: task-start creates the worktree of
a new task under the integration lock only. With `Frame`, `IInv` adds what each operation
relies on between its check and its last step: a start still finds no sequential task
(`StartInv`), a merge's record is contained in the branch (`MergeInv`), a completed
workspace is still there (`CompleteInv`).

`StartsFresh` needs a second invariant, `BornInv`: a start that is about to write its record
has created its worktree and branch itself (`FreshInv`), as everyone else who could touch
them has loaded a record of that task (`LoadedInv`, `StraysLoadedInv`), and there was
none (`NoRecordInv`).

### Merges

task-merge works from the record it loaded before its locks, and what it checks under them
compares that copy with the branch, not with the record on disk. That it still integrates the
head the record names *now* is true for a roundabout reason, which `HeadsInv` follows. Three
things can name a head of one branch: the record, the merges that have loaded it, and a
completion about to replace it. While the branch is what a merge has loaded, the record of a
completed task names it as well (`HeadInv`), and so does the completion (`NewHeadInv`). Both
last because the branch can not come back to a head it has left: a new commit is in no history
known before (`NumbersInv`), and a start that was overtaken by another of the same name does
not make the branch of a completed task anew, as it finds the old one, or waits for the merge
or abort that has deleted it and has still to write its record (`RestartInv`). `BranchInv` says
that a worktree has its branch, and the one of a completion is not taken from under it. No
assumption on crashes or containers is needed, as neither writes a record.

`PendingStaysAbortable` strengthens what is to be shown by who may be away from it: the
worktree of a pending task is there, or a merge or abort has removed it and has still to
write the record (`PendingInv`). A crash is the one step that takes this request away,
which is the counterexample of `find_stuck`.

### The ledger

With one thread, the record a request loaded before its lock is still the record on disk when
it acts. `Snapshot` says so operation by operation, and also that what a start checked under
its lock still holds when it writes. With it every write of a record is a step of the ledger
(`LedgerStep`), and every other step a stutter. `DependenciesMet` strengthens
`DependenciesInBase` so that merges and aborts of *other* tasks preserve it. That the
assumption is needed, and not only convenient, is section 5: with two threads `Snapshot` fails
and so do the properties.

### Sessions

The invariant of `ContainersEndFirst` is the order the code relies on: podman writes the
cidfile before it starts the container (`Named`), the client is dead before the broker reads
the cidfile (`Dead`), and the answer comes after the removal (`Removed`). For types, the one
fact not of a type is that a sending pump has a frame (`PumpHasFrame`).

`OutputComesFirst` counts. Until the session is cut off, what the agent wrote is what was
shown, plus the PTY, plus the chunk in the broker's hand, plus the output frames in the socket
(`Accounted`). How many output frames a queue holds is not a recursive definition but a statement:
`Outputs(queue, n)` says that there is a function that counts them from the end, and that it
gives `n`. So no induction over data is needed: a step puts a frame at the end or takes one from
the front, and the function is extended or restricted. With it go that the
process was found dead with an empty PTY when the agent is the cause (`AgentIsDone`) and that the
exit frame is the last (`CodeIsLast`); then, when it is read, nothing else is left.

`SessionKeepsContract` maps each step to a step of `SessionContract` or to none. Besides these
invariants it needs who answers whom (`RInv`): a connection that ends without an exit frame
ends because agentd died, or agentctl had gone already (`AnswerIsThere`, `BrokenIsAlone`), no
exit frame was sent by an agentd that then died in the session (`Orderly`), and what is on
its way after a crash was written before it (`NotAhead`).

### Policies

The resolver compares ranks; the properties speak of what an agent may do (`Grants`, `Reach`),
defined without the ranks. So the first lemmas show that for policies that satisfy the schema
not-wider in rank means not-more in grants, destinations included, and that this composes.
The invariant `PInv` then carries along what each applied layer said.
The properties about drivers follow from the capability match: a hardened policy requires a
class no driver has, and each accepted policy is checked against the emitted controls by cases.
`HarmlessIsAccepted` is the other direction of narrowing: the checks of the resolver are taken
one by one and shown to hold of a layer that widens nothing, with the rule for inherited
destinations as the only case where one field decides about another.

### Launch

Nothing is locked, so the argument has two halves. What only ever grows (markers, owners, a
configuration once there, policy files named by their content) holds against every
interleaving and every crash: `Progress` says what each thread may rely on behind its
position. The rest (a copy is whole, a request does not fail, the manifest is whole) holds
until two meet in an unguarded script, and for that it is enough that whoever is in a
script is alone in it. A container that outlives `agentd` is in its script like a thread and
keeps its place in the invariant; a crash only takes others away (`Survivors`). So
`StartsPrepared` and `NoFalseAlarm` are proved with survivors: a new request that goes into a script
beside one is a race like any other.

The managed fields at a start are the seed's for three reasons, each a theorem. With any number
of requests and survivors, unless a race, a half-done install or the provider itself changed
them (`ReconciledBesideOthers`). With the provider's saves too, when requests come
one at a time and nothing is left over from before: then
no two threads meet (`RacesNeedTwo`), so from `publish` on the
configuration is what this request's reconciliation left, whatever was saved in it before
(`Reconciled`). A container that saves its configuration does so after it has started, which is
why this holds at the start and not later. And one that outlived `agentd` may save between a
later request's reconciliation and its start, which is why that theorem says *none survives*.
Without any crash it needs no exception at all (`ManagedWhenAlone`).

### Only model-checked

`RequestsDrain`, `HangupEnds` and `TimeoutEnds` are liveness under fairness, which this prover
does not handle, and `CancelEnds` is a liveness property that fails. `StraysOnlyWhileActive`
fails too: without surviving containers it speaks of nothing. All invariants, action
properties and refinements of the passing runs are proved, under the hypotheses above.

## 5. Where the code and its documentation disagree

Found while modelling; each is a run that TLC ends with a counterexample, and an entry under
`findings` with the quoted line.

| run | what happens |
|---|---|
| `find_abort` | an abort that waited behind a merge finds nothing to remove and writes `aborted` over `merged` |
| `find_stuck` | a crash between worktree removal and `write_json` leaves a pending task that no operation accepts, abort included |
| `find_survivor` | `agentd` dies during a write run; after the restart the task is completed while the container still writes its workspace |
| `find_cancel` | text and Ctrl-C typed together reach the broker in one segment; the cancel stays in the reader's buffer and a quiet agent runs on |
| `find_reconcile` | two first uses of a provider: one finds the configuration that the other's `install` created and has not filled, reconciles it to an empty file, and starts without the managed fields. Two threads, no crash, no saving provider (`Env = {}`) |

Others have no run of their own and show in the limits of the properties:

* *Requests that overlap* (one cause: the record is not read again under the lock).
  project-sync checks the records before it waits for the lock (`broker/daemon.py:756`) and then
  moves the branch under a task that started meanwhile, although `README.md:244` allows it only
  while nothing is active. Two starts of one name pass the existence check
  (`core/tasks.py:115`), and the second overwrites what the first became. A write run
  that waited for task-complete commits to the completed task, and the merge then asks for a
  re-completion (`core/worktrees.py:46`) that no request can do, as task-complete accepts active
  tasks only. A completed parallel task can appear beside an active sequential one. For requests
  one at a time the first three rules are just the checks the operations begin with, so they
  are not listed as properties. What is checked with overlap is what survives it (no commit is
  lost, workspaces stay exclusive, merges integrate the recorded head); `ModesExclude`,
  `DependenciesInBase` and the ledger, which take several operations on several tasks, are
  checked and proved for requests one at a time, and say nothing of overlap.
* *Index without a client.* agentctl goes away during a non-interactive index; the broker fails
  at its next write (`runtime/podman.py:89`), releases the lock and leaves the container
  running, where `docs/multi-agent-architecture-v0.2.md:1453` promises clean-up. So
  `ContainerUnderLock` is for interactive sessions.
* *A session that waits for its input to be read.* `os.write` to the PTY blocks
  (`runtime/podman.py:205`). An agent that stops reading while the operator types keeps the broker
  there: it sees no deadline, no Ctrl-C and no closed connection, and the workspace stays locked
  until the agent reads or ends. `HangupEnds` and `TimeoutEnds` hold in every other case.
* *A session that locks itself up.* The two states of `TimeoutEnds` (section 3): a signal inside a
  signal handler, or both socket buffers full, and agentctl and the broker wait for each other, or
  agentctl for itself, past the timeout, until someone kills agentctl.
* *Provider state* (`raced`, `cut`). Two first requests collide: the loser of
  `podman volume create` fails, or finds files without a marker and fails, and the migration can
  run twice at once. The same happens to one request alone when `agentd` was restarted during a
  first use: the migration container may live on, and the new request's finds its files without
  a marker and fails, or copies beside it; a container may then start on an incomplete
  copy. A copy that dies half done leaves a volume that every later request refuses until
  someone removes it. The refusal is deliberate, that it takes a human is its price; the error
  text goes to `/dev/null`.
* *Manifest.* Two builds at once share one temporary file: one may publish the
  other's half-written file, and one fails at `os.replace`.

What does *not* go wrong is as telling, and proved: no commit of the integration branch is
lost, no merge is left half recorded without a crash, no two requests meet in a checkout, no
policy widens, and no container starts on volumes that are not marked and owned.

## 6. Not modelled

* Project creation and `project-init`: one-time, before any task. `Init` is the state they
  leave. A crash in `project-init` leaves a directory that later attempts refuse
  (`core/git_handoff.py:71`), which is listed as a hazard without a property.
* Names of bundles, and two `git bundle` processes that write one file: `ExportConsistent` is
  about their content.
* `op_smoke`, a diagnostic of a new host. Two at once share a directory that each removes.
* Contents of files, commits and prompts; argument lists of podman and of the providers;
  `policy/serialization.py`; parsing in `agentctl`; replies of operations without a
  session, which are one write and one read; canonical paths in `core/validation.py`.
* Failures of the disk or of Git other than those named (conflict, refusal on a dirty
  checkout, missing directory), a failing `podman rm -f`, and frames split over two reads: the
  broker waits for the rest of a frame, which its sender is already sending.
* In `TaskLifecycle`, an index whose client disconnects. Its effect there is that of a stray
  container.
* A stray container whose worktree was removed and created again under the same name: in the
  model it writes the new one, in fact its mount is the old one. No property depends on it.
* Agents rewriting history in their workspace (`git reset`, `commit --amend`).
* In `InteractiveSession`: output the broker must write while it is blocked on input. It
  is the same thread, so this is the state `InputUnread`, and an agent that waits for its
  output to be taken before it reads is one that does not read.
* In `ProviderLaunch`: fields of the configuration other than the managed ones, as a whole;
  podman failing for reasons of its own; a policy file or volume removed by hand.
* Bootstrap, Ansible roles and images: they provision a host once. Only the restart of `agentd`
  by systemd is modelled (`Crash`).

## 7. What could come next

* `project-init` and the exchange directories with crashes between their steps.
* A contract for provider state, in the way of `TaskLedger` and `SessionContract`: a volume
  is empty, migrated or owned, and a start finds it owned.
* When `op_run` takes compiled policies: joining `PolicyPipeline` and `ProviderLaunch` in one
  module, where `Publish` and `controls` are of the same request.
