---------------------------- MODULE PolicyProofs ----------------------------
(***************************************************************************)
(* Proofs about policy resolution and compilation, for any baselines,      *)
(* layers, destinations and requests.  The resolver compares ranks; the    *)
(* properties speak of grants.  So the first lemmas relate the two for     *)
(* policies that satisfy the schema, and the invariants then follow the    *)
(* layers through the pipeline.                                            *)
(***************************************************************************)
EXTENDS PolicyProperties, TLAPS

(***************************************************************************)
(* The schema.                                                             *)
(***************************************************************************)
\* What a policy that satisfies the schema has in its fields.
LEMMA PolicyFields ==
  ASSUME NEW p, IsPolicy(p)
  PROVE  /\ DOMAIN p = Fields
         /\ p.workspace \in {"none", "read", "write"} /\ p.reference \in {"none", "read"}
         /\ p.external \in {"deny", "read", "write"} /\ p.mode \in {"deny", "allowlist", "allow"}
         /\ p.auth \in {"deny", "allow"} /\ p.class \in {"hardened", "compatibility"}
         /\ p.destinations \subseteq Destination
         /\ p.mode = "allowlist" <=> p.destinations # {}
         /\ p.gitRead \in BOOLEAN /\ p.gitCommit \in BOOLEAN /\ p.gitPush \in BOOLEAN
         /\ p.sandbox \in BOOLEAN
         /\ p.cpu \in Nat \ {0} /\ p.memory \in Nat \ {0} /\ p.pids \in Nat \ {0}
<1> DEFINE raw == AsDict(p)
<1>1. DOMAIN p = Fields
  BY DEF IsPolicy
<1>2. \A f \in Fields \ {"memory"} : raw[f] = p[f]
  BY <1>1 DEF AsDict, Fields
<1>3. raw["memory"] = [n |-> p.memory, unit |-> "b"]
  BY <1>1 DEF AsDict, Fields, Limits
<1>4. WellFormed(raw)
  BY DEF IsPolicy
<1> HIDE DEF raw
<1>5. /\ raw["workspace"] \in {"none", "read", "write"} /\ raw["reference"] \in {"none", "read"}
      /\ raw["external"] \in {"deny", "read", "write"}
      /\ raw["mode"] \in {"deny", "allowlist", "allow"}
      /\ raw["auth"] \in {"deny", "allow"} /\ raw["class"] \in {"hardened", "compatibility"}
  BY <1>4 DEF WellFormed, LegalAccess, LegalNetwork, LegalCredentials, LegalChoice, Rank
<1>6. p.memory \in Nat \ {0}
  <2>1. raw["memory"] \in Quantity
    BY <1>4 DEF WellFormed, LegalLimits
  <2>2. [n |-> p.memory, unit |-> "b"].n \in Nat \ {0}
    BY <1>3, <2>1 DEF Quantity
  <2>3. QED
    BY <2>2
<1>7. /\ raw["destinations"] \subseteq Destination
      /\ raw["mode"] = "allowlist" <=> raw["destinations"] # {}
  BY <1>4 DEF WellFormed, LegalNetwork, LegalDestinations
<1>8. /\ raw["gitRead"] \in BOOLEAN /\ raw["gitCommit"] \in BOOLEAN /\ raw["gitPush"] \in BOOLEAN
      /\ raw["sandbox"] \in BOOLEAN
  BY <1>4 DEF WellFormed, LegalGit, LegalSandbox, Permissions
<1>9. raw["cpu"] \in Nat \ {0} /\ raw["pids"] \in Nat \ {0}
  BY <1>4 DEF WellFormed, LegalLimits
<1>10. QED
  BY <1>1, <1>2, <1>5, <1>6, <1>7, <1>8, <1>9 DEF Fields, Choices, Permissions, Limits

\* A quantity of any unit is a positive number of bytes.
LEMMA BytesPositive ==
  ASSUME NEW n \in Nat \ {0}, NEW unit \in {"b", "k", "m", "g", "t"}
  PROVE  n * Multiplier(unit) \in Nat \ {0}
<1>1. Multiplier(unit) \in Nat \ {0}
  BY DEF Multiplier
<1>2. QED
  BY <1>1

\* FromDict only normalizes memory, to a positive number of bytes.
LEMMA FromDictFields ==
  ASSUME NEW raw, WellFormed(raw)
  PROVE  /\ DOMAIN FromDict(raw) = Fields
         /\ \A f \in Fields \ {"memory"} : FromDict(raw)[f] = raw[f]
         /\ FromDict(raw)["memory"] = raw["memory"].n * Multiplier(raw["memory"].unit)
         /\ FromDict(raw)["memory"] \in Nat \ {0}
<1>1. DOMAIN raw = Fields
  BY DEF WellFormed
<1>2. /\ DOMAIN FromDict(raw) = Fields
      /\ \A f \in Fields \ {"memory"} : FromDict(raw)[f] = raw[f]
  BY <1>1 DEF FromDict
<1>3. FromDict(raw)["memory"] = raw["memory"].n * Multiplier(raw["memory"].unit)
  BY <1>1 DEF FromDict, Fields, Limits
<1>4. raw["memory"].n * Multiplier(raw["memory"].unit) \in Nat \ {0}
  BY BytesPositive DEF WellFormed, LegalLimits, Quantity
<1>5. QED
  BY <1>2, <1>3, <1>4

\* What the resolver accepts is a policy again.
LEMMA FromDictIsPolicy ==
  ASSUME NEW raw, WellFormed(raw)
  PROVE  IsPolicy(FromDict(raw))
<1> DEFINE p == FromDict(raw)  again == AsDict(p)
<1>1. DOMAIN p = Fields /\ p["memory"] \in Nat \ {0}
  BY FromDictFields
<1>2. DOMAIN again = Fields /\ again["memory"] = [n |-> p.memory, unit |-> "b"]
  BY <1>1 DEF AsDict, Fields, Limits
<1>3. \A f \in Fields \ {"memory"} : again[f] = raw[f]
  BY <1>1, FromDictFields DEF AsDict
<1> HIDE DEF p, again
<1>4. again["memory"] \in Quantity
  <2>1. [n |-> p.memory, unit |-> "b"] \in Quantity
    BY <1>1 DEF Quantity
  <2>2. QED
    BY <1>2, <2>1
<1>5. /\ LegalAccess(again) /\ LegalNetwork(again) /\ LegalCredentials(again)
      /\ LegalChoice(again, {"class"})
  BY <1>3 DEF WellFormed, LegalAccess, LegalNetwork, LegalCredentials, LegalChoice, Fields, Choices
<1>6. LegalGit(again) /\ LegalSandbox(again) /\ again["version"] = 1
  BY <1>3 DEF WellFormed, LegalGit, LegalSandbox, Fields, Permissions
<1>7. LegalLimits(again)
  BY <1>3, <1>4 DEF WellFormed, LegalLimits, Fields, Limits
<1>8. WellFormed(again)
  BY <1>2, <1>5, <1>6, <1>7 DEF WellFormed
<1>9. QED
  BY <1>1, <1>8 DEF IsPolicy, again, p

(***************************************************************************)
(* Ranks and grants.                                                       *)
(***************************************************************************)
\* A step the resolver lets pass adds no grant and raises no limit.
LEMMA NotWiderIsWithin ==
  ASSUME NEW lower, NEW upper, IsPolicy(lower), IsPolicy(upper), NotWider(lower, upper)
  PROVE  Within(lower, upper)
<1> USE PolicyFields
<1>1. Operations(lower.workspace) \subseteq Operations(upper.workspace)
  BY DEF NotWider, RankNotWider, Rank, Choices, Operations
<1>2. Operations(lower.reference) \subseteq Operations(upper.reference)
  BY DEF NotWider, RankNotWider, Rank, Choices, Operations
<1>3. Operations(lower.external) \subseteq Operations(upper.external)
  BY DEF NotWider, RankNotWider, Rank, Choices, Operations
<1>4. Reach(lower) \subseteq Reach(upper)
  BY DEF NotWider, RankNotWider, NetworkNotWider, Rank, Choices, Reach
<1>5. lower.auth = "allow" => upper.auth = "allow"
  BY DEF NotWider, RankNotWider, Rank, Choices
<1>6. lower.class = "compatibility" => upper.class = "compatibility"
  BY DEF NotWider, RankNotWider, Rank, Choices
<1>7. \A f \in Permissions : lower[f] => upper[f]
  BY DEF NotWider, PermissionNotWider
<1>8. upper.sandbox => lower.sandbox
  BY DEF NotWider, RequirementNotWeaker
<1>9. \A f \in Limits : lower[f] <= upper[f]
  BY DEF NotWider, LimitNotWider
<1>10. Grants(lower) \subseteq Grants(upper)
  BY <1>1, <1>2, <1>3, <1>4, <1>5, <1>6, <1>7, <1>8 DEF Grants
<1>11. QED
  BY <1>9, <1>10 DEF Within

(***************************************************************************)
(* Layers.                                                                 *)
(***************************************************************************)
\* Ranks are numbers.
LEMMA RanksAreNumbers ==
  ASSUME NEW f \in Choices, NEW v \in DOMAIN Rank[f]
  PROVE  Rank[f][v] \in Nat
<1>1. CASE f \in {"workspace", "reference", "external"}
  BY <1>1 DEF Rank
<1>2. CASE f \in {"mode", "auth", "class"}
  BY <1>2 DEF Rank
<1>3. QED
  BY <1>1, <1>2 DEF Choices

\* The choices of a well-formed policy have ranks.
LEMMA ChoicesHaveRanks ==
  ASSUME NEW raw, WellFormed(raw), NEW f \in Choices
  PROVE  raw[f] \in DOMAIN Rank[f]
BY DEF WellFormed, LegalAccess, LegalNetwork, LegalCredentials, LegalChoice, Choices

\* What a layer states is legal.
Stated(said) ==
  /\ \A f \in Choices \cap DOMAIN said : said[f] \in DOMAIN Rank[f]
  /\ \A f \in {"cpu", "pids"} \cap DOMAIN said : said[f] \in Nat
  /\ "memory" \in DOMAIN said => said.memory.n * Multiplier(said.memory.unit) \in Nat

\* A layer the resolver accepts is legal and says no less than the result.
LEMMA AcceptedLayerIsKept ==
  ASSUME NEW p, NEW layer, Accepts(p, layer)
  PROVE  Stated(layer) /\ Kept(layer, Candidate(p, layer))
<1> DEFINE raw == Merge(p, layer)  c == Candidate(p, layer)
<1>1. WellFormed(raw) /\ DOMAIN layer \subseteq Fields
  BY DEF Accepts
<1>2. \A f \in DOMAIN layer : raw[f] = layer[f]
  BY <1>1 DEF Merge
<1>3. c = FromDict(raw)
  BY DEF Candidate
<1> HIDE DEF raw, c
<1>4. /\ \A f \in Fields \ {"memory"} : c[f] = raw[f]
      /\ c["memory"] = raw["memory"].n * Multiplier(raw["memory"].unit)
      /\ c["memory"] \in Nat
  BY <1>1, <1>3, FromDictFields
<1>5. \A f \in DOMAIN layer \ {"memory"} : c[f] = layer[f]
  BY <1>1, <1>2, <1>4
<1>6. \A f \in Choices \cap DOMAIN layer : /\ layer[f] \in DOMAIN Rank[f]
                                           /\ Rank[f][c[f]] <= Rank[f][layer[f]]
  <2> TAKE f \in Choices \cap DOMAIN layer
  <2>1. layer[f] \in DOMAIN Rank[f]
    BY <1>1, <1>2, ChoicesHaveRanks
  <2>2. Rank[f][layer[f]] \in Nat
    BY <2>1, RanksAreNumbers
  <2>3. c[f] = layer[f]
    BY <1>5 DEF Choices
  <2>4. QED
    BY <2>1, <2>2, <2>3
<1>7. \A f \in Permissions \cap DOMAIN layer : c[f] => layer[f]
  BY <1>5 DEF Permissions
<1>8. "sandbox" \in DOMAIN layer => (layer.sandbox => c.sandbox)
  BY <1>5
<1>9. \A f \in {"cpu", "pids"} \cap DOMAIN layer : layer[f] \in Nat /\ c[f] <= layer[f]
  BY <1>1, <1>2, <1>5 DEF WellFormed, LegalLimits
<1>10. "memory" \in DOMAIN layer =>
         /\ layer.memory.n * Multiplier(layer.memory.unit) \in Nat
         /\ c.memory <= layer.memory.n * Multiplier(layer.memory.unit)
  BY <1>2, <1>4
<1>11. "destinations" \in DOMAIN layer =>
         layer.destinations = {} \/ Reach(c) \subseteq layer.destinations
  <2> HAVE "destinations" \in DOMAIN layer
  <2>1. c["destinations"] = layer["destinations"] /\ c["mode"] = raw["mode"]
        /\ raw["destinations"] = layer["destinations"]
    BY <1>2, <1>4, <1>5 DEF Fields, Choices
  <2>2. raw["mode"] = "allowlist" <=> raw["destinations"] # {}
    BY <1>1 DEF WellFormed, LegalNetwork
  <2>3. QED
    BY <2>1, <2>2 DEF Reach
<1>12. QED
  BY <1>6, <1>7, <1>8, <1>9, <1>10, <1>11 DEF Stated, Kept, c

\* What is kept stays kept when the policy narrows.
LEMMA KeptAsItNarrows ==
  ASSUME NEW said, NEW lower, NEW upper, IsPolicy(lower), IsPolicy(upper),
         NotWider(lower, upper), Stated(said), Kept(said, upper)
  PROVE  Kept(said, lower)
<1>1. \A f \in Choices \cap DOMAIN said : Rank[f][lower[f]] <= Rank[f][said[f]]
  <2> TAKE f \in Choices \cap DOMAIN said
  <2>1. WellFormed(AsDict(lower)) /\ WellFormed(AsDict(upper))
        /\ DOMAIN lower = Fields /\ DOMAIN upper = Fields
    BY DEF IsPolicy
  <2>2. AsDict(lower)[f] = lower[f] /\ AsDict(upper)[f] = upper[f]
    BY <2>1 DEF AsDict, Fields, Choices
  <2>3. /\ Rank[f][lower[f]] \in Nat /\ Rank[f][upper[f]] \in Nat
        /\ Rank[f][said[f]] \in Nat
    BY <2>1, <2>2, ChoicesHaveRanks, RanksAreNumbers DEF Stated
  <2>4. Rank[f][lower[f]] <= Rank[f][upper[f]]
    BY DEF NotWider, RankNotWider
  <2>5. Rank[f][upper[f]] <= Rank[f][said[f]]
    BY DEF Kept
  <2>6. QED
    BY <2>3, <2>4, <2>5
<1>2. \A f \in Permissions \cap DOMAIN said : lower[f] => said[f]
  BY DEF NotWider, PermissionNotWider, Kept
<1>3. "sandbox" \in DOMAIN said => (said.sandbox => lower.sandbox)
  BY DEF NotWider, RequirementNotWeaker, Kept
<1>4. /\ lower.cpu <= upper.cpu /\ lower.pids <= upper.pids /\ lower.memory <= upper.memory
      /\ {lower.cpu, lower.pids, lower.memory, upper.cpu, upper.pids, upper.memory} \subseteq Nat
  BY PolicyFields DEF NotWider, LimitNotWider, Limits
<1>5. \A f \in {"cpu", "pids"} \cap DOMAIN said : lower[f] <= said[f]
  BY <1>4 DEF Kept, Stated
<1>6. "memory" \in DOMAIN said => lower.memory <= said.memory.n * Multiplier(said.memory.unit)
  BY <1>4 DEF Kept, Stated
<1>7. Reach(lower) \subseteq Reach(upper)
  BY PolicyFields DEF NotWider, RankNotWider, NetworkNotWider, Rank, Choices, Reach
<1>8. "destinations" \in DOMAIN said =>
        said.destinations = {} \/ Reach(lower) \subseteq said.destinations
  BY <1>7 DEF Kept
<1>9. QED
  BY <1>1, <1>2, <1>3, <1>5, <1>6, <1>8 DEF Kept

(***************************************************************************)
(* The pipeline.                                                           *)
(***************************************************************************)
\* Each kind of request has its own stages.
OwnStages == /\ req.kind = "run"    => stage \notin Layers
             /\ req.kind = "policy" => stage \notin {"plan", "lock"}

\* Every layer applied so far was legal, and the policy is nowhere wider than it said.
LayersStated == \A s \in {t \in Passed : Layer(t) # Absent} : Stated(Layer(s))

\* Hardened is never lost on the way from the baseline ...
ClassKept == effective.class = "compatibility" => req.baseline.class = "compatibility"

\* ... and the destinations are the ones the profile accepted.
ProfileTaken == stage \in Layers \cup {"compile", "done"} => ProfileAccepts(ProfileId, req.destinations)

\* A compiled policy is one the driver supports.
PolicyCompiled == stage = "done" => /\ Supports(req.agent, effective)
                                    /\ controls = Compiled(req.agent, effective)

\* A run keeps its controls, its mounts and its lock mode in step.
RunBuilt ==
  /\ stage \in {"plan", "lock", "done"} => controls = LegacyControls(req.agent, Readonly, OuterOnly)
  /\ stage \in {"lock", "done"}         => mounts = PlanMounts(req.agent, req.task, Readonly)

LockFollows == lock = "shared" => req.kind = "run" /\ stage = "done" /\ Readonly

PInv == /\ req \in Requests
        /\ PolicyTypeOK /\ OwnStages /\ LayersKept /\ LockFollows
        /\ req.kind = "policy" => LayersStated /\ ClassKept /\ ProfileTaken /\ PolicyCompiled
        /\ req.kind = "run"    => RunBuilt

\* Requests are of two kinds.
LEMMA TwoKinds ==
  ASSUME NEW r \in Requests
  PROVE  /\ r.kind \in {"policy", "run"}
         /\ r.kind = "policy" => IsPolicy(r.baseline)
         /\ r.kind = "run" => r.baseline = Absent
         /\ r.agent \in Agents /\ r.profile \in Profiles \cup {Absent}
BY RequestsAssumption

LEMMA PolicyInit == Init => PInv
<1> SUFFICES ASSUME Init PROVE PInv
  OBVIOUS
<1>1. req \in Requests /\ stage = "map" /\ lock = "none" /\ effective = req.baseline
  BY DEF Init
<1>2. PolicyTypeOK
  BY <1>1, TwoKinds DEF PolicyTypeOK, IsPolicyRequest, Stages
<1>3. OwnStages /\ LockFollows
  BY <1>1 DEF OwnStages, LockFollows, Layers
<1>4. Passed = {}
  BY <1>1 DEF Passed
<1>5. LayersKept /\ LayersStated
  BY <1>4 DEF LayersKept, LayersStated
<1>6. ClassKept /\ ProfileTaken /\ PolicyCompiled /\ RunBuilt
  BY <1>1 DEF ClassKept, ProfileTaken, PolicyCompiled, RunBuilt, Layers
<1>7. QED
  BY <1>1, <1>2, <1>3, <1>5, <1>6 DEF PInv

\* A layer is applied: the policy narrows, and one more layer is kept.
LEMMA LayerStep ==
  ASSUME PInv, ApplyLayer
  PROVE  PInv' /\ Within(effective', effective)
<1> DEFINE layer == Layer(stage)
<1>1. /\ stage \in Layers /\ layer # Absent /\ Accepts(effective, layer)
      /\ effective' = Candidate(effective, layer) /\ stage' = After(stage)
      /\ req' = req /\ controls' = controls /\ mounts' = mounts /\ lock' = lock
  BY DEF ApplyLayer
<1>2. req \in Requests /\ req.kind = "policy"
  BY <1>1, TwoKinds DEF PInv, OwnStages
<1>3. IsPolicy(effective)
  BY <1>2 DEF PInv, PolicyTypeOK, IsPolicyRequest
<1>4. IsPolicy(effective') /\ NotWider(effective', effective)
  BY <1>1, FromDictIsPolicy DEF Accepts, Candidate
<1>5. Within(effective', effective)
  BY <1>3, <1>4, NotWiderIsWithin
<1>6. stage' \in {"profile", "run", "compile"}
  BY <1>1 DEF Layers, After
<1>7. /\ Passed' \subseteq Passed \cup {stage}
      /\ \A s : Layer(s)' = Layer(s)
  BY <1>1 DEF Layers, After, Passed, Layer, ProfileId
<1>8. PolicyTypeOK'
  BY <1>1, <1>2, <1>4, <1>6 DEF PInv, PolicyTypeOK, IsPolicyRequest, Stages, Layers
<1>9. OwnStages' /\ LockFollows'
  BY <1>1, <1>2, <1>6 DEF PInv, OwnStages, LockFollows, Layers
<1>10. Stated(layer) /\ Kept(layer, effective')
  BY <1>1, AcceptedLayerIsKept
<1>11. \A s \in {t \in Passed' : Layer(t)' # Absent} :
          Stated(Layer(s)) /\ Kept(Layer(s), effective')
  <2> TAKE s \in {t \in Passed' : Layer(t)' # Absent}
  <2>1. CASE s = stage
    BY <2>1, <1>10
  <2>2. CASE s \in Passed
    <3>1. Stated(Layer(s)) /\ Kept(Layer(s), effective)
      BY <2>2, <1>2, <1>7 DEF PInv, LayersKept, LayersStated, IsPolicyRequest
    <3>2. QED
      BY <3>1, <1>3, <1>4, KeptAsItNarrows
  <2>3. QED
    BY <2>1, <2>2, <1>7
<1>12. LayersKept' /\ LayersStated'
  BY <1>7, <1>11 DEF LayersKept, LayersStated
<1>13. ClassKept'
  <2>1. effective'.class = "compatibility" => effective.class = "compatibility"
    BY <1>3, <1>4, PolicyFields DEF NotWider, RankNotWider, Rank, Choices
  <2>2. QED
    BY <2>1, <1>1, <1>2 DEF PInv, ClassKept
<1>14. ProfileTaken'
  BY <1>1, <1>2 DEF PInv, ProfileTaken, ProfileId
<1>15. PolicyCompiled'
  BY <1>6 DEF PolicyCompiled
<1>16. QED
  BY <1>1, <1>2, <1>5, <1>8, <1>9, <1>12, <1>13, <1>14, <1>15 DEF PInv

\* The other steps leave the effective policy alone.
LEMMA OtherSteps ==
  ASSUME PInv, [Next]_vars, ~ApplyLayer
  PROVE  PInv' /\ effective' = effective /\ req' = req
<1>1. effective' = effective /\ req' = req
  BY DEF Next, vars, MapFlags, RejectFlags, SkipLayer, RejectLayer, CompilePolicy, RejectPolicy,
         CompileRun, RejectRun, BuildPlan, LockWorkspace, Reject
<1>2. /\ req' \in Requests /\ req.kind \in {"policy", "run"}
      /\ \A s : Layer(s)' = Layer(s)
      /\ ProfileId' = ProfileId /\ Readonly' = Readonly /\ OuterOnly' = OuterOnly
      /\ ClassKept <=> ClassKept'
  BY <1>1, TwoKinds DEF PInv, Layer, ProfileId, Readonly, OuterOnly, ClassKept
<1>3. ASSUME UNCHANGED <<controls, mounts, lock>>, stage' = "rejected", lock # "shared"
      PROVE  PInv'
  <2>1. Passed' = {}
    BY <1>3 DEF Passed
  <2>2. LayersKept' /\ LayersStated'
    BY <2>1 DEF LayersKept, LayersStated
  <2>3. PolicyTypeOK' /\ OwnStages' /\ LockFollows'
    BY <1>1, <1>3 DEF PInv, PolicyTypeOK, OwnStages, LockFollows, IsPolicyRequest, Stages, Layers
  <2>4. ProfileTaken' /\ PolicyCompiled' /\ RunBuilt'
    BY <1>3 DEF ProfileTaken, PolicyCompiled, RunBuilt, Layers
  <2>5. QED
    BY <1>1, <1>2, <2>2, <2>3, <2>4 DEF PInv
<1>4. ASSUME stage # "done" PROVE lock # "shared"
  BY <1>4 DEF PInv, LockFollows
<1>5. CASE RejectFlags \/ RejectLayer \/ RejectPolicy \/ RejectRun
  BY <1>3, <1>4, <1>5 DEF RejectFlags, RejectLayer, RejectPolicy, RejectRun, Reject, Layers
<1>6. ASSUME stage' # "rejected", Passed' \subseteq Passed
      PROVE  (req.kind = "policy" => LayersKept' /\ LayersStated')
  BY <1>1, <1>2, <1>6 DEF PInv, LayersKept, LayersStated, IsPolicyRequest
<1>7. ASSUME req.kind = "run" PROVE LayersKept'
  BY <1>1, <1>7 DEF LayersKept, IsPolicyRequest
<1>8. CASE MapFlags
  <2>1. /\ stage = "map" /\ lock' = lock /\ controls' = controls
        /\ stage' = IF req.kind = "policy" THEN "project" ELSE "compile"
        /\ req.kind = "policy" => ProfileAccepts(ProfileId, req.destinations)
    BY <1>8 DEF MapFlags
  <2>2. req.kind = "policy" => Passed' = {}
    BY <2>1 DEF Passed
  <2>3. PolicyTypeOK' /\ OwnStages' /\ LockFollows'
    BY <1>1, <1>2, <2>1 DEF PInv, PolicyTypeOK, OwnStages, LockFollows, IsPolicyRequest, Stages, Layers
  <2>4. req.kind = "policy" => ProfileTaken' /\ PolicyCompiled' /\ LayersKept' /\ LayersStated'
    BY <1>1, <1>2, <2>1, <2>2 DEF ProfileTaken, PolicyCompiled, LayersKept, LayersStated
  <2>5. req.kind = "run" => RunBuilt'
    BY <2>1 DEF RunBuilt
  <2>6. QED
    BY <1>1, <1>2, <1>7, <2>3, <2>4, <2>5 DEF PInv
<1>9. CASE SkipLayer
  <2>1. /\ stage \in Layers /\ Layer(stage) = Absent /\ stage' = After(stage)
        /\ lock' = lock
    BY <1>9 DEF SkipLayer
  <2>2. req.kind = "policy" /\ stage' \in {"profile", "run", "compile"}
    BY <2>1, <1>2 DEF PInv, OwnStages, After, Layers
  <2>3. Passed' \subseteq Passed \cup {stage}
    BY <2>1 DEF Passed, After, Layers
  <2>4. LayersKept' /\ LayersStated'
    BY <1>1, <1>2, <2>1, <2>2, <2>3 DEF PInv, LayersKept, LayersStated, IsPolicyRequest
  <2>5. PolicyTypeOK' /\ OwnStages' /\ LockFollows'
    BY <1>1, <2>1, <2>2 DEF PInv, PolicyTypeOK, OwnStages, LockFollows, IsPolicyRequest, Stages, Layers
  <2>6. ProfileTaken' /\ PolicyCompiled'
    BY <1>1, <1>2, <2>1, <2>2 DEF PInv, ProfileTaken, PolicyCompiled
  <2>7. QED
    BY <1>1, <1>2, <2>2, <2>4, <2>5, <2>6 DEF PInv
<1>10. CASE CompilePolicy
  <2>1. /\ stage = "compile" /\ req.kind = "policy" /\ stage' = "done" /\ lock' = lock
        /\ Supports(req.agent, effective) /\ controls' = Compiled(req.agent, effective)
    BY <1>10 DEF CompilePolicy
  <2>2. Passed' = Passed
    BY <2>1 DEF Passed
  <2>3. PolicyTypeOK' /\ OwnStages' /\ LockFollows'
    BY <1>1, <2>1 DEF PInv, PolicyTypeOK, OwnStages, LockFollows, IsPolicyRequest, Stages, Layers
  <2>4. ProfileTaken' /\ PolicyCompiled'
    BY <1>1, <1>2, <2>1 DEF PInv, ProfileTaken, PolicyCompiled
  <2>5. QED
    BY <1>1, <1>2, <1>6, <2>1, <2>2, <2>3, <2>4 DEF PInv
<1>11. CASE CompileRun \/ BuildPlan \/ LockWorkspace
  <2>1. req.kind = "run" /\ stage \in {"compile", "plan", "lock"}
    BY <1>2, <1>11 DEF PInv, OwnStages, CompileRun, BuildPlan, LockWorkspace
  <2>2. PolicyTypeOK'
    BY <1>1, <1>11, <2>1 DEF PInv, PolicyTypeOK, IsPolicyRequest, Stages, CompileRun, BuildPlan,
                             LockWorkspace
  <2>3. OwnStages' /\ LockFollows'
    BY <1>1, <1>2, <1>4, <1>11, <2>1
       DEF OwnStages, LockFollows, Layers, CompileRun, BuildPlan, LockWorkspace
  <2>4. RunBuilt'
    BY <1>1, <1>2, <1>11, <2>1 DEF PInv, RunBuilt, CompileRun, BuildPlan, LockWorkspace
  <2>5. QED
    BY <1>1, <1>2, <1>7, <2>1, <2>2, <2>3, <2>4 DEF PInv
<1>12. CASE UNCHANGED vars
  <2>1. UNCHANGED <<req, stage, effective, controls, mounts, lock>>
    BY <1>12 DEF vars
  <2>2. req' = req /\ Passed' = Passed
    BY <2>1 DEF Passed
  <2>3. PolicyTypeOK'
    BY <1>1, <2>1 DEF PInv, PolicyTypeOK, IsPolicyRequest
  <2>4. OwnStages' /\ LockFollows'
    BY <1>1, <2>1 DEF PInv, OwnStages, LockFollows, Readonly
  <2>5. LayersKept'
    BY <1>1, <2>1, <2>2 DEF PInv, LayersKept, Layer, ProfileId, IsPolicyRequest
  <2>6. LayersStated => LayersStated'
    BY <2>1, <2>2 DEF LayersStated, Layer, ProfileId
  <2>7. (ClassKept => ClassKept') /\ (ProfileTaken => ProfileTaken')
    BY <2>1 DEF ClassKept, ProfileTaken, ProfileId
  <2>8. PolicyCompiled => PolicyCompiled'
    BY <2>1 DEF PolicyCompiled
  <2>9. RunBuilt => RunBuilt'
    BY <2>1 DEF RunBuilt, Readonly, OuterOnly
  <2>10. QED
    BY <1>1, <2>2, <2>3, <2>4, <2>5, <2>6, <2>7, <2>8, <2>9 DEF PInv
<1>13. QED
  BY <1>1, <1>5, <1>8, <1>9, <1>10, <1>11, <1>12 DEF Next

\* The inductive invariant of the pipeline.
LEMMA PolicyInvariant == Spec => []PInv
<1>1. PInv /\ [Next]_vars => PInv'
  BY LayerStep, OtherSteps
<1>2. QED
  BY <1>1, PolicyInit, PTL DEF Spec

(***************************************************************************)
(* The results.                                                            *)
(***************************************************************************)
\* Whatever layers come, the effective policy satisfies the schema (ExecutionPolicy.from_dict).
THEOREM PolicyTypeCorrect == Spec => []PolicyTypeOK
<1>1. PInv => PolicyTypeOK
  BY DEF PInv
<1>2. QED
  BY <1>1, PolicyInvariant, PTL

\* No step of PolicyResolver.resolve gives an agent a grant or a limit it had not.
THEOREM ResolutionNarrows == Spec => NothingWidens
<1>1. PInv /\ [Next]_vars => [IsPolicyRequest => Within(effective', effective)]_vars
  <2> SUFFICES ASSUME PInv, [Next]_vars, IsPolicyRequest
               PROVE  Within(effective', effective)
    OBVIOUS
  <2>1. CASE ApplyLayer
    BY <2>1, LayerStep
  <2>2. CASE ~ApplyLayer
    <3>1. effective' = effective
      BY <2>2, OtherSteps
    <3>2. \A limit \in Limits : effective[limit] <= effective[limit]
      BY PolicyFields DEF PInv, PolicyTypeOK, IsPolicyRequest, Limits
    <3>3. QED
      BY <3>1, <3>2 DEF Within
  <2>3. QED
    BY <2>1, <2>2
<1>2. QED
  BY <1>1, PolicyInvariant, PTL DEF Spec, NothingWidens

\* What any layer stated bounds the policy that is finally compiled.
THEOREM LayersAreKept == Spec => []LayersKept
<1>1. PInv => LayersKept
  BY DEF PInv
<1>2. QED
  BY <1>1, PolicyInvariant, PTL

\* The built-in profiles keep their promises for any baseline and any other layers.
THEOREM ProfilesKeepTheirPromise == Spec => []ProfileIntent
<1>1. PInv => ProfileIntent
  <2> SUFFICES ASSUME PInv, IsPolicyRequest, stage \in {"run", "compile", "done"}
               PROVE  /\ ProfileId \in {"review", "implement"} => Reach(effective) = {}
                      /\ ProfileId = "review" => /\ <<"workspace", "write">> \notin Grants(effective)
                                                 /\ <<"git", "gitCommit">> \notin Grants(effective)
                      /\ ProfileId \in {"implement", "dependency"} =>
                           <<"git", "gitPush">> \notin Grants(effective)
                      /\ ProfileId = "dependency" => Reach(effective) \subseteq req.destinations
                      /\ ProfileId # "compatibility" =>
                           {<<"auth", "visible">>, <<"without", "sandbox">>}
                             \cap Grants(effective) = {}
    BY DEF ProfileIntent
  <2> DEFINE layer == Restrictions(ProfileId, req.destinations)
  <2>1. ProfileId \in Profiles
    BY TwoKinds DEF PInv, ProfileId, MappedProfile, Profiles
  <2>2. "profile" \in Passed /\ Layer("profile") = layer /\ layer # Absent
    BY <2>1, LayersAssumption DEF Passed, Layers, Layer, PInv
  <2>3. Kept(layer, effective) /\ Stated(layer)
    BY <2>2 DEF PInv, LayersKept, LayersStated, IsPolicyRequest
  <2>4. IsPolicy(effective) /\ ProfileAccepts(ProfileId, req.destinations)
    BY DEF PInv, PolicyTypeOK, IsPolicyRequest, ProfileTaken, Layers
  <2>5. CASE ProfileId = "review"
    <3>1. layer = [workspace |-> "read", reference |-> "read", mode |-> "deny", auth |-> "deny",
                   gitCommit |-> FALSE, sandbox |-> TRUE]
      BY <2>5 DEF Restrictions
    <3> HIDE DEF layer
    <3>2. /\ Rank["workspace"][effective.workspace] <= Rank["workspace"]["read"]
          /\ Rank["mode"][effective.mode] <= Rank["mode"]["deny"]
          /\ Rank["auth"][effective.auth] <= Rank["auth"]["deny"]
          /\ ~effective.gitCommit /\ effective.sandbox
      BY <2>3, <2>4, <3>1, PolicyFields DEF Kept, Choices, Permissions
    <3>3. effective.workspace # "write" /\ effective.mode = "deny" /\ effective.auth = "deny"
      BY <2>4, <3>2, PolicyFields DEF Rank
    <3>4. QED
      BY <2>5, <3>2, <3>3 DEF Grants, Reach, Operations
  <2>6. CASE ProfileId = "implement"
    <3>1. layer = [workspace |-> "write", reference |-> "read", mode |-> "deny", auth |-> "deny",
                   gitRead |-> TRUE, gitCommit |-> TRUE, gitPush |-> FALSE, sandbox |-> TRUE]
      BY <2>6 DEF Restrictions
    <3> HIDE DEF layer
    <3>2. /\ Rank["mode"][effective.mode] <= Rank["mode"]["deny"]
          /\ Rank["auth"][effective.auth] <= Rank["auth"]["deny"]
          /\ ~effective.gitPush /\ effective.sandbox
      BY <2>3, <2>4, <3>1, PolicyFields DEF Kept, Choices, Permissions
    <3>3. effective.mode = "deny" /\ effective.auth = "deny"
      BY <2>4, <3>2, PolicyFields DEF Rank
    <3>4. QED
      BY <2>6, <3>2, <3>3 DEF Grants, Reach, Operations
  <2>7. CASE ProfileId = "dependency"
    <3>1. layer = [workspace |-> "write", mode |-> "allowlist", destinations |-> req.destinations,
                   auth |-> "deny", gitCommit |-> TRUE, gitPush |-> FALSE, sandbox |-> TRUE]
      BY <2>7 DEF Restrictions
    <3>2. req.destinations # {}
      BY <2>4, <2>7 DEF ProfileAccepts
    <3> HIDE DEF layer
    <3>3. /\ Rank["auth"][effective.auth] <= Rank["auth"]["deny"]
          /\ ~effective.gitPush /\ effective.sandbox
          /\ Reach(effective) \subseteq req.destinations
      BY <2>3, <2>4, <3>1, <3>2, PolicyFields DEF Kept, Choices, Permissions
    <3>4. effective.auth = "deny"
      BY <2>4, <3>3, PolicyFields DEF Rank
    <3>5. QED
      BY <2>7, <3>3, <3>4 DEF Grants, Operations
  <2>8. CASE ProfileId = "compatibility"
    BY <2>8
  <2>9. QED
    BY <2>1, <2>5, <2>6, <2>7, <2>8 DEF Profiles
<1>2. QED
  BY <1>1, PolicyInvariant, PTL

\* A request for hardened execution is never served by a driver that offers compatibility
\* only, wherever in the hierarchy it was made.
THEOREM HardenedIsRefused == Spec => []HardenedFailsClosed
<1>1. \A agent \in Agents : \A p : Supports(agent, p) => p.class = "compatibility"
  <2> SUFFICES ASSUME NEW agent \in Agents, NEW p, Supports(agent, p)
               PROVE  p.class = "compatibility"
    OBVIOUS
  <2>1. <<"security_class", p.class>> \in Required(p)
    BY DEF Required
  <2>2. <<"security_class", p.class>> \in Available(agent)
    BY <2>1 DEF Agents, Supports, CodexSupports, CursorSupports
  <2>3. Capabilities(agent).securityClasses = {"compatibility"}
    BY DEF Capabilities, CodexCapabilities, CursorCapabilities
  <2>4. QED
    BY <2>2, <2>3 DEF Available
<1>2. PInv => HardenedFailsClosed
  <2> SUFFICES ASSUME PInv, IsPolicyRequest, stage = "done"
               PROVE  /\ req.baseline.class = "compatibility"
                      /\ \A s \in {t \in Layers : Layer(t) # Absent} :
                           "class" \in DOMAIN Layer(s) => Layer(s)["class"] = "compatibility"
    BY DEF HardenedFailsClosed
  <2>1. effective.class = "compatibility"
    BY <1>1, TwoKinds DEF PInv, PolicyCompiled, IsPolicyRequest
  <2>2. req.baseline.class = "compatibility"
    BY <2>1 DEF PInv, ClassKept, IsPolicyRequest
  <2>3. ASSUME NEW s \in Layers, Layer(s) # Absent, "class" \in DOMAIN Layer(s)
        PROVE  Layer(s)["class"] = "compatibility"
    <3>1. Kept(Layer(s), effective) /\ Stated(Layer(s))
      BY <2>3 DEF PInv, LayersKept, LayersStated, IsPolicyRequest, Passed
    <3>2. /\ Rank["class"]["compatibility"] <= Rank["class"][Layer(s)["class"]]
          /\ Layer(s)["class"] \in DOMAIN Rank["class"]
      BY <2>1, <2>3, <3>1 DEF Kept, Stated, Choices
    <3>3. QED
      BY <3>2 DEF Rank
  <2>4. QED
    BY <2>2, <2>3
<1>3. QED
  BY <1>2, PolicyInvariant, PTL

\* The controls of both drivers stay within every policy they accept.
THEOREM ControlsStayWithin == Spec => []ControlsWithinPolicy
<1>1. PInv => ControlsWithinPolicy
  <2> SUFFICES ASSUME PInv, IsPolicyRequest, stage = "done"
               PROVE  /\ NativeReach \subseteq Reach(effective)
                      /\ effective.workspace = "read" => controls.sandbox = "read-only" \/ Unsandboxed
                      /\ effective.auth = "deny" => controls.hides /\ controls.nested /\ ~Unsandboxed
                      /\ effective.sandbox => controls.nested /\ ~Unsandboxed
    BY DEF ControlsWithinPolicy
  <2>1. /\ IsPolicy(effective) /\ req.agent \in Agents
        /\ Supports(req.agent, effective) /\ controls = Compiled(req.agent, effective)
    BY TwoKinds DEF PInv, PolicyTypeOK, PolicyCompiled, IsPolicyRequest
  <2>2. CASE req.agent = "codex"
    BY <2>1, <2>2, PolicyFields
       DEF Supports, CodexSupports, Compiled, CodexControls, Controls, NativeReach, Unsandboxed, Reach
  <2>3. CASE req.agent = "cursor"
    <3>1. CursorSupports(effective) /\ controls = CursorControls(effective)
      BY <2>1, <2>3 DEF Supports, Compiled
    <3>2. CASE effective.mode = "allow"
      BY <2>1, <3>1, <3>2, PolicyFields
         DEF CursorSupports, CursorControls, Controls, NativeReach, Unsandboxed, Reach
    <3>3. CASE effective.mode # "allow"
      BY <2>1, <3>1, <3>3, PolicyFields
         DEF CursorSupports, CursorControls, Controls, NativeReach, Unsandboxed, Reach
    <3>4. QED
      BY <3>2, <3>3
  <2>4. QED
    BY <2>1, <2>2, <2>3 DEF Agents
<1>2. QED
  BY <1>1, PolicyInvariant, PTL

\* Runs under a shared workspace lock mount the workspace and its Git directories
\* read-only, for every driver, task and flag (create_run_execution_plan).
THEOREM SharedRunsOnlyRead == Spec => []SharedLockWritesNothing
<1>1. PInv => SharedLockWritesNothing
  <2> SUFFICES ASSUME PInv, lock = "shared"
               PROVE  /\ \A m \in mounts : m.role \in {"workspace", "git-worktree", "git-common"} => m.ro
                      /\ controls.sandbox # "workspace-write"
    BY DEF SharedLockWritesNothing
  <2>1. /\ Readonly /\ req.agent \in Agents
        /\ mounts = PlanMounts(req.agent, req.task, Readonly)
        /\ controls = LegacyControls(req.agent, Readonly, OuterOnly)
    BY TwoKinds DEF PInv, LockFollows, RunBuilt
  <2>2. \A m \in mounts : m.role \in {"workspace", "git-worktree", "git-common"} => m.ro
    BY <2>1 DEF PlanMounts, GitMounts, Mount
  <2>3. controls.sandbox # "workspace-write"
    BY <2>1 DEF LegacyControls, Controls
  <2>4. QED
    BY <2>2, <2>3
<1>2. QED
  BY <1>1, PolicyInvariant, PTL

(***************************************************************************)
(* What is rejected.  The other direction of the resolver: a layer that    *)
(* is legal, field by field, and widens nothing, field by field, makes a   *)
(* merged document that satisfies the schema and passes every comparison.  *)
(***************************************************************************)
\* The merged document, field by field.
LEMMA MergedFields ==
  ASSUME NEW p, IsPolicy(p), NEW layer
  PROVE  /\ DOMAIN Merge(p, layer) = Fields
         /\ \A f \in Fields \cap DOMAIN layer : Merge(p, layer)[f] = layer[f]
         /\ \A f \in Fields \ (DOMAIN layer \cup {"memory", "destinations"}) : Merge(p, layer)[f] = p[f]
         /\ "memory" \notin DOMAIN layer => Merge(p, layer)["memory"] = [n |-> p.memory, unit |-> "b"]
         /\ "destinations" \notin DOMAIN layer =>
              Merge(p, layer)["destinations"] =
                IF "mode" \in DOMAIN layer /\ layer["mode"] # "allowlist" THEN {} ELSE p.destinations
<1>1. DOMAIN p = Fields
  BY DEF IsPolicy
<1>2. \A f \in Fields \ {"memory"} : AsDict(p)[f] = p[f]
  BY <1>1 DEF AsDict, Fields
<1>3. AsDict(p)["memory"] = [n |-> p.memory, unit |-> "b"]
  BY <1>1 DEF AsDict, Fields, Limits
<1>4. "memory" \in Fields /\ "destinations" \in Fields
  BY DEF Fields, Limits
<1>5. QED
  BY <1>2, <1>3, <1>4 DEF Merge

\* Its mode and its destinations are the ones Harmless speaks of.
LEMMA MergedNetwork ==
  ASSUME NEW p, IsPolicy(p), NEW layer, Harmless(layer, p)
  PROVE  /\ LegalNetwork(Merge(p, layer))
         /\ NetworkNotWider(Merge(p, layer), p)
<1> DEFINE raw == Merge(p, layer)
<1>0. /\ DOMAIN raw = Fields
      /\ \A f \in Fields \cap DOMAIN layer : raw[f] = layer[f]
      /\ \A f \in Fields \ (DOMAIN layer \cup {"memory", "destinations"}) : raw[f] = p[f]
      /\ "memory" \notin DOMAIN layer => raw["memory"] = [n |-> p.memory, unit |-> "b"]
  BY MergedFields
<1>b. ASSUME "destinations" \notin DOMAIN layer
      PROVE  raw["destinations"] = IF "mode" \in DOMAIN layer /\ layer["mode"] # "allowlist" THEN {}
                                   ELSE p.destinations
  BY <1>b, MergedFields
<1> HIDE DEF raw
<1> DEFINE mode    == IF "mode" \in DOMAIN layer THEN layer.mode ELSE p.mode
           reach   == IF "destinations" \in DOMAIN layer THEN layer.destinations
                      ELSE IF mode = "allowlist" THEN p.destinations ELSE {}
           network == [p EXCEPT !.mode = mode, !.destinations = reach]
<1>1. DOMAIN p = Fields /\ {"mode", "destinations"} \subseteq Fields
  BY DEF IsPolicy, Fields, Choices
<1>2. IsPolicy(network) /\ Reach(network) \subseteq Reach(p)
  BY DEF Harmless
<1>3. network["mode"] = mode /\ network["destinations"] = reach
  BY <1>1
<1>4. raw["mode"] = mode
  <2>1. CASE "mode" \in DOMAIN layer
    BY <1>0, <1>1, <2>1
  <2>2. CASE "mode" \notin DOMAIN layer
    BY <1>0, <1>1, <2>2
  <2>3. QED
    BY <2>1, <2>2
<1>5. raw["destinations"] = reach
  <2>1. CASE "destinations" \in DOMAIN layer
    <3>1. raw["destinations"] = layer["destinations"]
      BY <1>0, <1>1, <2>1
    <3>2. QED
      BY <2>1, <3>1
  <2>2. CASE "destinations" \notin DOMAIN layer /\ "mode" \in DOMAIN layer
    BY <1>b, <2>2
  <2>3. CASE "destinations" \notin DOMAIN layer /\ "mode" \notin DOMAIN layer
    <3>1. raw["destinations"] = p.destinations
      BY <1>b, <2>3
    <3>2. mode # "allowlist" => p.destinations = {}
      BY <2>3, PolicyFields
    <3>3. QED
      BY <2>3, <3>1, <3>2
  <2>4. QED
    BY <2>1, <2>2, <2>3
<1> HIDE DEF mode, reach, network
<1>6. LegalNetwork(AsDict(network))
  BY <1>2 DEF IsPolicy, WellFormed
<1>7. AsDict(network)["mode"] = mode /\ AsDict(network)["destinations"] = reach
  BY <1>2, <1>3 DEF AsDict, IsPolicy, Fields
<1>8. LegalNetwork(raw)
  BY <1>4, <1>5, <1>6, <1>7 DEF LegalNetwork, LegalChoice
<1>9. mode = "allowlist" /\ p.mode = "allowlist" => reach \subseteq p.destinations
  BY <1>2, <1>3 DEF Reach
<1>10. NetworkNotWider(raw, p)
  BY <1>4, <1>5, <1>9 DEF NetworkNotWider
<1>11. QED
  BY <1>8, <1>10 DEF raw

LEMMA MergedIsWellFormed ==
  ASSUME NEW p, IsPolicy(p), NEW layer, Harmless(layer, p)
  PROVE  WellFormed(Merge(p, layer))
<1> DEFINE raw == Merge(p, layer)
<1>1. /\ DOMAIN raw = Fields
      /\ \A f \in Fields \cap DOMAIN layer : raw[f] = layer[f]
      /\ \A f \in Fields \ (DOMAIN layer \cup {"memory", "destinations"}) : raw[f] = p[f]
      /\ "memory" \notin DOMAIN layer => raw["memory"] = [n |-> p.memory, unit |-> "b"]
  BY MergedFields
<1>2. LegalNetwork(raw)
  BY MergedNetwork
<1> HIDE DEF raw
<1>3. WellFormed(AsDict(p)) /\ DOMAIN p = Fields
  BY DEF IsPolicy
<1>4. \A f \in Fields \ {"memory"} : AsDict(p)[f] = p[f]
  BY <1>3 DEF AsDict, Fields
<1>5. ASSUME NEW f \in Choices
      PROVE  raw[f] \in DOMAIN Rank[f]
  <2>1. f \in Fields \ {"memory", "destinations"}
    BY DEF Fields, Choices
  <2>2. CASE f \in DOMAIN layer
    BY <1>1, <2>1, <2>2 DEF Harmless
  <2>3. CASE f \notin DOMAIN layer
    <3>1. AsDict(p)[f] \in DOMAIN Rank[f]
      BY <1>3, ChoicesHaveRanks
    <3>2. QED
      BY <1>1, <1>4, <2>1, <2>3, <3>1
  <2>4. QED
    BY <2>2, <2>3
<1>6. LegalAccess(raw) /\ LegalCredentials(raw) /\ LegalChoice(raw, {"class"})
  BY <1>5 DEF LegalAccess, LegalCredentials, LegalChoice, Choices
<1>7. LegalGit(raw) /\ LegalSandbox(raw)
  <2>1. ASSUME NEW f \in Permissions \cup {"sandbox"}
        PROVE  raw[f] \in BOOLEAN
    <3>1. f \in Fields \ {"memory", "destinations"}
      BY DEF Fields, Permissions
    <3>2. p[f] \in BOOLEAN
      BY PolicyFields DEF Permissions
    <3>3. CASE f \in DOMAIN layer
      BY <1>1, <3>1, <3>3 DEF Harmless
    <3>4. CASE f \notin DOMAIN layer
      BY <1>1, <3>1, <3>2, <3>4
    <3>5. QED
      BY <3>3, <3>4
  <2>2. QED
    BY <2>1 DEF LegalGit, LegalSandbox
<1>8. LegalLimits(raw)
  <2>1. ASSUME NEW f \in {"cpu", "pids"}
        PROVE  raw[f] \in Nat \ {0}
    <3>1. f \in Fields \ {"memory", "destinations"} /\ p[f] \in Nat \ {0}
      BY PolicyFields DEF Fields, Limits
    <3>2. CASE f \in DOMAIN layer
      <4>1. layer[f] \in 1 .. p[f]
        BY <3>2 DEF Harmless
      <4>2. QED
        BY <1>1, <3>1, <3>2, <4>1
    <3>3. CASE f \notin DOMAIN layer
      BY <1>1, <3>1, <3>3
    <3>4. QED
      BY <3>2, <3>3
  <2>2. raw["memory"] \in Quantity
    <3>1. CASE "memory" \in DOMAIN layer
      BY <1>1, <3>1 DEF Harmless, Fields, Limits
    <3>2. CASE "memory" \notin DOMAIN layer
      <4>1. p.memory \in Nat \ {0}
        BY PolicyFields
      <4>2. [n |-> p.memory, unit |-> "b"] \in Quantity
        BY <4>1 DEF Quantity
      <4>3. QED
        BY <1>1, <3>2, <4>2
    <3>3. QED
      BY <3>1, <3>2
  <2>3. QED
    BY <2>1, <2>2 DEF LegalLimits
<1>9. raw["version"] = 1
  <2>1. "version" \in Fields \ {"memory", "destinations"}
    BY DEF Fields
  <2>2. p["version"] = 1
    BY <1>3, <1>4, <2>1 DEF WellFormed
  <2>3. "version" \in DOMAIN layer => layer["version"] = 1
    BY DEF Harmless
  <2>4. QED
    BY <1>1, <2>1, <2>2, <2>3
<1>10. WellFormed(raw)
  BY <1>1, <1>2, <1>6, <1>7, <1>8, <1>9 DEF WellFormed
<1>11. QED
  BY <1>10 DEF raw

LEMMA MergedIsNotWider ==
  ASSUME NEW p, IsPolicy(p), NEW layer, Harmless(layer, p)
  PROVE  NotWider(Candidate(p, layer), p)
<1> DEFINE raw == Merge(p, layer)  c == Candidate(p, layer)
<1>1. /\ \A f \in Fields \cap DOMAIN layer : raw[f] = layer[f]
      /\ \A f \in Fields \ (DOMAIN layer \cup {"memory", "destinations"}) : raw[f] = p[f]
      /\ "memory" \notin DOMAIN layer => raw["memory"] = [n |-> p.memory, unit |-> "b"]
  BY MergedFields
<1>2. WellFormed(raw) /\ c = FromDict(raw)
  BY MergedIsWellFormed DEF Candidate
<1>3. NetworkNotWider(raw, p)
  BY MergedNetwork
<1> HIDE DEF raw, c
<1>4. /\ \A f \in Fields \ {"memory"} : c[f] = raw[f]
      /\ c["memory"] = raw["memory"].n * Multiplier(raw["memory"].unit)
  BY <1>2, FromDictFields
<1>5. ASSUME NEW f \in Fields \ {"memory", "destinations"}
      PROVE  c[f] = IF f \in DOMAIN layer THEN layer[f] ELSE p[f]
  BY <1>1, <1>4, <1>5
<1>6. ASSUME NEW f \in Choices
      PROVE  RankNotWider(c, p, f)
  <2>1. f \in Fields \ {"memory", "destinations"}
    BY DEF Fields, Choices
  <2>2. CASE f \in DOMAIN layer
    <3>1. Rank[f][layer[f]] <= Rank[f][p[f]]
      BY <2>2 DEF Harmless
    <3>2. QED
      BY <1>5, <2>1, <2>2, <3>1 DEF RankNotWider
  <2>3. CASE f \notin DOMAIN layer
    <3>1. c[f] = p[f] /\ c[f] = raw[f]
      BY <1>4, <1>5, <2>1, <2>3
    <3>2. Rank[f][raw[f]] \in Nat
      BY <1>2, ChoicesHaveRanks, RanksAreNumbers
    <3>3. QED
      BY <3>1, <3>2 DEF RankNotWider
  <2>4. QED
    BY <2>2, <2>3
<1>7. ASSUME NEW f \in Permissions
      PROVE  PermissionNotWider(c, p, f)
  <2>1. f \in Fields \ {"memory", "destinations"}
    BY DEF Fields, Permissions
  <2>2. QED
    BY <1>5, <2>1 DEF PermissionNotWider, Harmless
<1>8. RequirementNotWeaker(c, p)
  <2>1. "sandbox" \in Fields \ {"memory", "destinations"}
    BY DEF Fields
  <2>2. QED
    BY <1>5, <2>1 DEF RequirementNotWeaker, Harmless
<1>9. NetworkNotWider(c, p)
  <2>1. c["mode"] = raw["mode"] /\ c["destinations"] = raw["destinations"]
    BY <1>4 DEF Fields, Choices
  <2>2. QED
    BY <1>3, <2>1 DEF NetworkNotWider
<1>10. ASSUME NEW f \in {"cpu", "pids"}
       PROVE  LimitNotWider(c, p, f)
  <2>1. f \in Fields \ {"memory", "destinations"} /\ p[f] \in Nat
    BY PolicyFields DEF Fields, Limits
  <2>2. f \in DOMAIN layer => layer[f] \in 1 .. p[f]
    BY DEF Harmless
  <2>3. CASE f \in DOMAIN layer
    BY <1>5, <2>1, <2>2, <2>3 DEF LimitNotWider
  <2>4. CASE f \notin DOMAIN layer
    BY <1>5, <2>1, <2>4 DEF LimitNotWider
  <2>5. QED
    BY <2>3, <2>4
<1>11. LimitNotWider(c, p, "memory")
  <2>1. p.memory \in Nat
    BY PolicyFields
  <2>2. CASE "memory" \in DOMAIN layer
    <3>1. layer.memory.n * Multiplier(layer.memory.unit) <= p.memory
      BY <2>2 DEF Harmless
    <3>2. raw["memory"] = layer["memory"]
      BY <1>1, <2>2 DEF Fields, Limits
    <3>3. QED
      BY <1>4, <3>1, <3>2 DEF LimitNotWider
  <2>3. CASE "memory" \notin DOMAIN layer
    <3>1. raw["memory"].n = p.memory /\ raw["memory"].unit = "b"
      BY <1>1, <2>3
    <3>2. c["memory"] = p.memory * 1
      BY <1>4, <3>1 DEF Multiplier
    <3>3. QED
      BY <2>1, <3>2 DEF LimitNotWider
  <2>4. QED
    BY <2>2, <2>3
<1>12. NotWider(c, p)
  BY <1>6, <1>7, <1>8, <1>9, <1>10, <1>11 DEF NotWider, Limits
<1>13. QED
  BY <1>12 DEF c

\* A legal layer that widens nothing is never rejected (PolicyResolver.resolve raises only for
\* a malformed, contradictory or widening layer).
THEOREM HarmlessIsAccepted == Spec => HarmlessAccepted
<1>1. PInv /\ [Next]_vars =>
        [(stage \in Layers /\ Layer(stage) # Absent /\ Harmless(Layer(stage), effective))
           => stage' # "rejected"]_vars
  <2> SUFFICES ASSUME PInv, [Next]_vars, stage \in Layers, Layer(stage) # Absent,
                      Harmless(Layer(stage), effective)
               PROVE  stage' # "rejected"
    OBVIOUS
  <2>1. IsPolicy(effective)
    BY TwoKinds DEF PInv, OwnStages, PolicyTypeOK, IsPolicyRequest
  <2>2. Accepts(effective, Layer(stage))
    BY <2>1, MergedIsWellFormed, MergedIsNotWider DEF Accepts, Harmless
  <2>3. ~RejectLayer /\ ~SkipLayer
    BY <2>2 DEF RejectLayer, SkipLayer
  <2>4. stage' = After(stage) \/ stage' = stage
    BY <2>3 DEF Next, vars, ApplyLayer, MapFlags, RejectFlags, CompilePolicy, RejectPolicy, CompileRun,
                RejectRun, BuildPlan, LockWorkspace, Layers
  <2>5. QED
    BY <2>4 DEF After, Layers
<1>2. QED
  BY <1>1, PolicyInvariant, PTL DEF Spec, HarmlessAccepted
=============================================================================
