-------------------------- MODULE PolicyProperties --------------------------
(***************************************************************************)
(* What policy resolution and compilation promise.  What a policy allows   *)
(* is stated as a set of grants, independently of the rank tables the      *)
(* resolver compares with.                                                 *)
(***************************************************************************)
EXTENDS PolicyPipeline

Operations(access) == CASE access = "write" -> {"read", "write"}
                        [] access = "read"  -> {"read"}
                        [] OTHER            -> {}

Reach(p) == CASE p.mode = "allow"     -> Destination
              [] p.mode = "allowlist" -> p.destinations
              [] OTHER                -> {}

\* Everything p lets an agent do, including doing without a protection.
Grants(p) ==
  ({"workspace"} \X Operations(p.workspace))
  \cup ({"reference"} \X Operations(p.reference))
  \cup ({"external"} \X Operations(p.external))
  \cup ({"network"} \X Reach(p))
  \cup ({"git"} \X {op \in Permissions : p[op]})
  \cup (IF p.auth = "allow" THEN {<<"auth", "visible">>} ELSE {})
  \cup (IF p.sandbox THEN {} ELSE {<<"without", "sandbox">>})
  \cup (IF p.class = "compatibility" THEN {<<"without", "hardening">>} ELSE {})

Within(lower, upper) == /\ Grants(lower) \subseteq Grants(upper)
                        /\ \A limit \in Limits : lower[limit] <= upper[limit]

IsPolicyRequest == req.kind = "policy"

\* Every variable has its type; the effective policy always satisfies the schema.
PolicyTypeOK ==
  /\ stage \in Stages /\ lock \in {"none", "shared", "exclusive"}
  /\ IF IsPolicyRequest THEN IsPolicy(effective) ELSE effective = Absent

\* No layer widens: whatever layers come in whatever form, each step leaves the agent at
\* most what it had before, and limits at most as high.
NothingWidens == [][IsPolicyRequest => Within(effective', effective)]_vars

Passed == CASE stage = "profile"           -> {"project"}
            [] stage = "run"               -> {"project", "profile"}
            [] stage \in {"compile", "done"} -> Layers
            [] OTHER                       -> {}

\* p is nowhere wider than a layer said.
Kept(said, p) ==
  /\ \A f \in Choices \cap DOMAIN said     : Rank[f][p[f]] <= Rank[f][said[f]]
  /\ \A f \in Permissions \cap DOMAIN said : p[f] => said[f]
  /\ "sandbox" \in DOMAIN said             => (said.sandbox => p.sandbox)
  /\ \A f \in {"cpu", "pids"} \cap DOMAIN said : p[f] <= said[f]
  /\ "memory" \in DOMAIN said => p.memory <= said.memory.n * Multiplier(said.memory.unit)
  /\ "destinations" \in DOMAIN said =>
       said.destinations = {} \/ Reach(p) \subseteq said.destinations

\* What an upper layer says holds to the end: a field a layer states is never wider
\* afterwards than it said, whatever later layers state or leave out.
LayersKept ==
  IsPolicyRequest => \A s \in {t \in Passed : Layer(t) # Absent} : Kept(Layer(s), effective)

\* A layer of legal values that says what it means about destinations and widens nothing.
Harmless(layer, p) ==
  LET Says(f) == f \in DOMAIN layer
      mode    == IF Says("mode") THEN layer.mode ELSE p.mode
      reach   == IF Says("destinations") THEN layer.destinations
                 ELSE IF mode = "allowlist" THEN p.destinations ELSE {}
      network == [p EXCEPT !.mode = mode, !.destinations = reach]
  IN /\ DOMAIN layer \subseteq Fields
     /\ \A f \in Choices : Says(f) => /\ layer[f] \in DOMAIN Rank[f]
                                      /\ Rank[f][layer[f]] <= Rank[f][p[f]]
     /\ \A f \in Permissions \cup {"sandbox"} : Says(f) => layer[f] \in BOOLEAN
     /\ \A f \in Permissions : Says(f) => (layer[f] => p[f])
     /\ Says("sandbox") => (p.sandbox => layer.sandbox)
     /\ \A f \in {"cpu", "pids"} : Says(f) => layer[f] \in 1 .. p[f]
     /\ Says("memory") => /\ layer.memory \in Quantity
                          /\ layer.memory.n * Multiplier(layer.memory.unit) <= p.memory
     /\ Says("version") => layer.version = 1
     /\ IsPolicy(network) /\ Reach(network) \subseteq Reach(p)

\* Only a malformed, contradictory or widening layer is rejected: going from an
\* allowlist to deny, for one, needs no word about destinations.
HarmlessAccepted ==
  [][(stage \in Layers /\ Layer(stage) # Absent /\ Harmless(Layer(stage), effective))
       => stage' # "rejected"]_vars

\* A profile keeps its promise in the resolved policy: review changes nothing and is
\* offline, implement never pushes and is offline, dependency reaches only the
\* destinations it was given.
ProfileIntent ==
  IsPolicyRequest /\ stage \in {"run", "compile", "done"} =>
    /\ ProfileId \in {"review", "implement"} => Reach(effective) = {}
    /\ ProfileId = "review" => /\ <<"workspace", "write">> \notin Grants(effective)
                               /\ <<"git", "gitCommit">> \notin Grants(effective)
    /\ ProfileId \in {"implement", "dependency"} => <<"git", "gitPush">> \notin Grants(effective)
    /\ ProfileId = "dependency" => Reach(effective) \subseteq req.destinations
    /\ ProfileId # "compatibility" => {<<"auth", "visible">>, <<"without", "sandbox">>}
                                        \cap Grants(effective) = {}

\* Nothing runs with less than what was asked for: once the baseline, the project or the
\* run asks for hardened execution the request is rejected, by the resolver if a layer
\* asks for compatibility and by the capability check of the driver otherwise.
HardenedFailsClosed ==
  IsPolicyRequest /\ stage = "done" =>
    /\ req.baseline.class = "compatibility"
    /\ \A s \in {t \in Layers : Layer(t) # Absent} :
         "class" \in DOMAIN Layer(s) => Layer(s)["class"] = "compatibility"

\* What the emitted controls let the task shell do: over the network, in the workspace,
\* with the provider's credentials.
Unsandboxed == controls.sandbox = "disabled"
NativeReach == CASE Unsandboxed                        -> Destination
                 [] controls.sandbox = "read-only" /\ controls.network = "default" -> {}
                 [] controls.network = "allowlist"     -> controls.domains
                 [] controls.network = "deny"          -> {}
                 [] OTHER                              -> Destination

\* The controls a driver emits allow nothing the resolved policy denies.  (A Cursor run
\* without a sandbox, for a policy that wants none, has only the mount to keep the
\* workspace read-only.)
ControlsWithinPolicy ==
  IsPolicyRequest /\ stage = "done" =>
    /\ NativeReach \subseteq Reach(effective)
    /\ effective.workspace = "read" => controls.sandbox = "read-only" \/ Unsandboxed
    /\ effective.auth = "deny" => controls.hides /\ controls.nested /\ ~Unsandboxed
    /\ effective.sandbox => controls.nested /\ ~Unsandboxed

\* Runs that share the lock of a workspace can write neither it nor its Git directories,
\* and a nested sandbox that is on agrees with the mounts.
SharedLockWritesNothing ==
  lock = "shared" =>
    /\ \A m \in mounts : m.role \in {"workspace", "git-worktree", "git-common"} => m.ro
    /\ controls.sandbox # "workspace-write"
=============================================================================
