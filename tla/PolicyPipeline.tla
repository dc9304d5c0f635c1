--------------------------- MODULE PolicyPipeline ---------------------------
(***************************************************************************)
(* How one request gets its controls.  A "policy" request goes from a      *)
(* platform baseline through the project, profile and run layers           *)
(* (PolicyResolver.resolve) to the driver's compile_policy.  A "run"       *)
(* request is what op_run handles today: flags, the driver's legacy        *)
(* translation, the execution plan, the capability check and the lock.     *)
(***************************************************************************)
EXTENDS AgentDrivers

CONSTANTS Requests  \* the requests that may arrive

\* PolicyResolver insists on an ExecutionPolicy as its baseline.
ASSUME RequestsAssumption ==
  \A r \in Requests :
    /\ r.kind \in {"policy", "run"} /\ r.agent \in Agents
    /\ r.profile \in Profiles \cup {Absent}
    /\ IF r.kind = "policy" THEN IsPolicy(r.baseline) ELSE r.baseline = Absent

\* A profile is always a layer.
ASSUME LayersAssumption ==
  \A r \in Requests, id \in Profiles : Restrictions(id, r.destinations) # Absent

VARIABLES
  req,        \* the request
  stage,      \* what happens to it next
  effective,  \* effective policy of a "policy" request, else Absent
  controls,   \* the driver's artifacts, once compiled
  mounts,     \* mounts of the plan of a "run" request
  lock        \* how the workspace is locked: "none", "shared" or "exclusive"

vars == <<req, stage, effective, controls, mounts, lock>>

Layers == {"project", "profile", "run"}
Stages == Layers \cup {"map", "compile", "plan", "lock", "done", "rejected"}
After(s) == CASE s = "project" -> "profile" [] s = "profile" -> "run" [] OTHER -> "compile"

ProfileId   == MappedProfile(req.profile, req.readonly)
Readonly    == MappedReadonly(req.profile, req.readonly)
OuterOnly   == req.outerOnly = "yes"
Layer(s)    == CASE s = "project" -> req.project
                 [] s = "profile" -> Restrictions(ProfileId, req.destinations)
                 [] s = "run"     -> req.run

Init ==
  /\ req \in Requests
  /\ stage = "map"
  /\ effective = req.baseline
  /\ controls = Absent /\ mounts = {} /\ lock = "none"

Reject == stage' = "rejected" /\ UNCHANGED <<req, effective, controls, mounts, lock>>

\* resolve_run_profile_request, and the profile's restrictions for a policy request.
MapFlags ==
  /\ stage = "map"
  /\ ~FlagsConflict(req.profile, req.readonly)
  /\ req.kind = "policy" => ProfileAccepts(ProfileId, req.destinations)
  /\ stage' = IF req.kind = "policy" THEN "project" ELSE "compile"
  /\ UNCHANGED <<req, effective, controls, mounts, lock>>

RejectFlags ==
  /\ stage = "map"
  /\ \/ FlagsConflict(req.profile, req.readonly)
     \/ req.kind = "policy" /\ ~ProfileAccepts(ProfileId, req.destinations)
  /\ Reject

SkipLayer ==
  /\ stage \in Layers /\ Layer(stage) = Absent
  /\ stage' = After(stage)
  /\ UNCHANGED <<req, effective, controls, mounts, lock>>

ApplyLayer ==
  /\ stage \in Layers /\ Layer(stage) # Absent
  /\ Accepts(effective, Layer(stage))
  /\ effective' = Candidate(effective, Layer(stage))
  /\ stage' = After(stage)
  /\ UNCHANGED <<req, controls, mounts, lock>>

RejectLayer ==
  /\ stage \in Layers /\ Layer(stage) # Absent
  /\ ~Accepts(effective, Layer(stage))
  /\ Reject

CompilePolicy ==
  /\ stage = "compile" /\ req.kind = "policy"
  /\ Supports(req.agent, effective)
  /\ controls' = Compiled(req.agent, effective)
  /\ stage' = "done"
  /\ UNCHANGED <<req, effective, mounts, lock>>

RejectPolicy ==
  /\ stage = "compile" /\ req.kind = "policy"
  /\ ~Supports(req.agent, effective)
  /\ Reject

\* op_run: a writable run wants an active task; then the legacy flags are compiled.
CompileRun ==
  /\ stage = "compile" /\ req.kind = "run"
  /\ Readonly \/ req.task.status = "active"
  /\ LegacySupports(req.agent, OuterOnly)
  /\ controls' = LegacyControls(req.agent, Readonly, OuterOnly)
  /\ stage' = "plan"
  /\ UNCHANGED <<req, effective, mounts, lock>>

RejectRun ==
  /\ stage = "compile" /\ req.kind = "run"
  /\ \/ ~Readonly /\ req.task.status # "active"
     \/ ~LegacySupports(req.agent, OuterOnly)
  /\ Reject

\* create_run_execution_plan, which validates itself, and require_capabilities.
BuildPlan ==
  LET planned == PlanMounts(req.agent, req.task, Readonly)
      wanted  == PlanRequires(Readonly, OuterOnly, MappedClass(req.profile, req.outerOnly))
  IN /\ stage = "plan"
     /\ PlanValid(planned, Readonly)
     /\ wanted \subseteq Available(req.agent)
     /\ mounts' = planned
     /\ stage' = "lock"
     /\ UNCHANGED <<req, effective, controls, lock>>

LockWorkspace ==
  /\ stage = "lock"
  /\ lock' = IF Readonly THEN "shared" ELSE "exclusive"
  /\ stage' = "done"
  /\ UNCHANGED <<req, effective, controls, mounts>>

Next == \/ MapFlags \/ RejectFlags
        \/ SkipLayer \/ ApplyLayer \/ RejectLayer
        \/ CompilePolicy \/ RejectPolicy \/ CompileRun \/ RejectRun
        \/ BuildPlan \/ LockWorkspace

Spec == Init /\ [][Next]_vars
=============================================================================
