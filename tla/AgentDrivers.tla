---------------------------- MODULE AgentDrivers ----------------------------
(***************************************************************************)
(* The two registered drivers (agents/codex.py, agents/cursor.py): what    *)
(* they declare, how they translate a policy into controls of their CLI,   *)
(* the capability matching in front of it (policy/capabilities.py), and    *)
(* the execution plan op_run builds (execution/plan.py).                   *)
(*                                                                         *)
(* Controls are a record: the sandbox and network switches on the command  *)
(* line (or in the generated sandbox.json), the destinations they name,    *)
(* whether provider state is hidden from the task shell, and whether the   *)
(* container is prepared for a nested sandbox.                             *)
(***************************************************************************)
EXTENDS ExecutionPolicy

Agents == {"codex", "cursor"}

(***************************************************************************)
(* Capabilities.                                                           *)
(***************************************************************************)
CodexCapabilities ==
  [workspaceModes |-> {"readonly", "writable"}, interactiveRun |-> TRUE,
   nativeSandbox |-> TRUE, compatibilityModes |-> {"outer-only"},
   policyCapabilities |-> {"provider_state_protection", "network_deny", "network_allowlist"},
   securityClasses |-> {"compatibility"}]

CursorCapabilities ==
  [CodexCapabilities EXCEPT !.compatibilityModes = {},
                            !.policyCapabilities = {"provider_state_protection"}]

Capabilities(agent) == IF agent = "codex" THEN CodexCapabilities ELSE CursorCapabilities

\* What the matcher calls available, each a kind and a value.
Available(agent) ==
  LET c == Capabilities(agent) IN
  ({"workspace"} \X c.workspaceModes)
  \cup ({"security_class"} \X c.securityClasses)
  \cup ({"compatibility"} \X c.compatibilityModes)
  \cup ({"feature"} \X (c.policyCapabilities
                        \cup (IF c.interactiveRun THEN {"interactive-run"} ELSE {})
                        \cup (IF c.nativeSandbox THEN {"filesystem_sandbox"} ELSE {})))

\* Variant: the class is expressed by the capabilities it needs, not by a name of its own.
RequiredFeatures(p) ==
  {"feature"} \X {f \in {"filesystem_sandbox", "network_deny", "provider_state_protection"} :
                    /\ p.class = "hardened"
                    /\ f = "filesystem_sandbox" => p.sandbox
                    /\ f = "network_deny" => p.mode = "deny"
                    /\ f = "provider_state_protection" => p.auth = "deny"}

\* Only hardened execution claims a sandbox, an egress and a credential guarantee.
HardenedFeatures(p) ==
  (IF p.sandbox THEN {"filesystem_sandbox"} ELSE {})
  \cup (CASE p.mode = "deny"      -> {"network_deny"}
          [] p.mode = "allowlist" -> {"network_allowlist"}
          [] OTHER                -> {})
  \cup (IF p.auth = "deny" THEN {"provider_state_protection"} ELSE {})

Required(p) ==
  {<<"security_class", p.class>>}
  \cup (CASE p.workspace = "read"  -> {<<"workspace", "readonly">>}
          [] p.workspace = "write" -> {<<"workspace", "writable">>}
          [] OTHER                 -> {})
  \cup (IF p.class = "hardened" THEN {"feature"} \X HardenedFeatures(p) ELSE {})

(***************************************************************************)
(* compile_policy of an ExecutionPolicy: which policies a driver accepts,  *)
(* and the controls it emits for them.                                     *)
(***************************************************************************)
Controls(sandbox, network, domains, hides, nested) ==
  [sandbox |-> sandbox, network |-> network, domains |-> domains, hides |-> hides,
   nested |-> nested]

CodexSupports(p) ==
  /\ Required(p) \subseteq Available("codex")
  /\ p.workspace # "none"
  /\ p.workspace = "read" => p.mode = "deny"
  /\ p.auth = "deny" => p.sandbox

CodexControls(p) ==
  Controls(IF p.workspace = "read" THEN "read-only" ELSE "workspace-write",
           IF p.workspace = "read" THEN "default" ELSE p.mode,
           p.destinations, p.auth = "deny", p.sandbox)

\* Variant: hidden credentials are left to .cursorignore.
CursorSupportsWithoutSandbox(p) ==
  /\ Required(p) \subseteq Available("cursor")
  /\ p.workspace # "none"
  /\ IF p.mode = "allow" THEN ~p.sandbox ELSE p.sandbox

CursorSupports(p) ==
  /\ Required(p) \subseteq Available("cursor")
  /\ p.workspace # "none"
  /\ p.auth = "deny" => p.sandbox
  /\ IF p.mode = "allow" THEN ~p.sandbox ELSE p.sandbox

\* .cursorignore hides the provider state in every run, if there is a sandbox to apply it.
CursorControls(p) ==
  IF p.mode = "allow" THEN Controls("disabled", "default", {}, TRUE, FALSE)
  ELSE Controls(IF p.workspace = "read" THEN "read-only" ELSE "workspace-write",
                p.mode, p.destinations, TRUE, TRUE)

Supports(agent, p)    == IF agent = "codex" THEN CodexSupports(p) ELSE CursorSupports(p)
Compiled(agent, p) == IF agent = "codex" THEN CodexControls(p) ELSE CursorControls(p)

(***************************************************************************)
(* compile_policy of the legacy flags.                                     *)
(***************************************************************************)
LegacySupports(agent, outerOnly) == agent = "cursor" => ~outerOnly

LegacyControls(agent, readonly, outerOnly) ==
  CASE agent = "cursor" -> Controls("none", "default", {}, TRUE, FALSE)
    [] outerOnly        -> Controls("disabled", "default", {}, FALSE, FALSE)
    [] OTHER            -> Controls(IF readonly THEN "read-only" ELSE "workspace-write",
                                    "default", {}, FALSE, TRUE)

(***************************************************************************)
(* The execution plan of op_run: the mounts, and what it needs from the    *)
(* driver.  task is the record's mode and status, and whether the project  *)
(* has a reference directory.                                              *)
(***************************************************************************)
Mount(role, target, ro) == [role |-> role, target |-> target, ro |-> ro]

GitCommon(task) == task.mode = "parallel" /\ task.status # "merged"

\* Variant: git locks its directory to read it, so the mount is always writable.
GitMountsWritable(task, readonly) ==
  IF GitCommon(task) THEN {Mount("git-worktree", "worktree", readonly),
                           Mount("git-common", "repo/agent/.git", FALSE)} ELSE {}

GitMounts(task, readonly) ==
  IF GitCommon(task) THEN {Mount("git-worktree", "worktree", readonly),
                           Mount("git-common", "repo/agent/.git", readonly)} ELSE {}

PlanMounts(agent, task, readonly) ==
  {Mount("workspace", "/workspace", readonly),
   Mount("task-metadata", "/task/metadata.json", TRUE),
   Mount("provider-state", "state", FALSE),
   Mount("provider-policy", IF agent = "codex" THEN "config.toml" ELSE ".cursorignore", TRUE)}
  \cup (IF agent = "cursor" THEN {Mount("provider-state", "auth", FALSE)} ELSE {})
  \cup (IF task.reference THEN {Mount("reference", "/reference", TRUE)} ELSE {})
  \cup GitMounts(task, readonly)

PlanRequires(readonly, outerOnly, class) ==
  {IF readonly THEN <<"workspace", "readonly">> ELSE <<"workspace", "writable">>,
   <<"feature", "interactive-run">>, <<"security_class", class>>}
  \cup (IF outerOnly THEN {<<"compatibility", "outer-only">>} ELSE {})

\* ResolvedExecutionPlan.__post_init__ raises nothing.
PlanValid(mounts, readonly) ==
  /\ \A m \in mounts : m.role \in {"reference", "task-metadata"} => m.ro
  /\ \A m \in mounts : m.role = "workspace" => m.ro = readonly /\ m.target = "/workspace"
  /\ \A m, n \in mounts : m.target = n.target => m = n
=============================================================================
