-------------------------- MODULE ExecutionPolicy --------------------------
(***************************************************************************)
(* Execution policies (policy/schema.py), the built-in profiles            *)
(* (profiles.py), the mapping of run flags to them (legacy.py) and one     *)
(* step of PolicyResolver (resolver.py).  Everything here is a constant    *)
(* operator; PolicyPipeline applies them in the order of the code.         *)
(*                                                                         *)
(* The nested objects of a policy are flattened to one field each.  A      *)
(* sparse layer is a function on some fields; Malformed stands for every   *)
(* value of a wrong type or form, a list of destinations with duplicates   *)
(* included.  cpu is counted in hundredths, memory in bytes.               *)
(***************************************************************************)
EXTENDS Integers

CONSTANTS Destination,  \* what a task shell can reach over the network
          Malformed,    \* a value no field accepts
          Absent        \* None: not supplied

\* Variant: the security classes are ranked like the access modes, the stronger one higher.
RankClassUpwards ==
  [workspace |-> [none |-> 0, read |-> 1, write |-> 2],
   reference |-> [none |-> 0, read |-> 1],
   external  |-> [deny |-> 0, read |-> 1, write |-> 2],
   mode      |-> [deny |-> 0, allowlist |-> 1, allow |-> 2],
   auth      |-> [deny |-> 0, allow |-> 1],
   class     |-> [hardened |-> 1, compatibility |-> 0]]

\* The values of the choice fields, each with its rank: 0 is the most restrictive.
Rank == [workspace |-> [none |-> 0, read |-> 1, write |-> 2],
         reference |-> [none |-> 0, read |-> 1],
         external  |-> [deny |-> 0, read |-> 1, write |-> 2],
         mode      |-> [deny |-> 0, allowlist |-> 1, allow |-> 2],
         auth      |-> [deny |-> 0, allow |-> 1],
         class     |-> [hardened |-> 0, compatibility |-> 1]]

Choices     == {"workspace", "reference", "external", "mode", "auth", "class"}
Permissions == {"gitRead", "gitCommit", "gitPush"}
Limits      == {"cpu", "memory", "pids"}
Fields      == Choices \cup Permissions \cup Limits \cup {"sandbox", "destinations", "version"}

(***************************************************************************)
(* The schema.                                                             *)
(***************************************************************************)
\* "b" is a quantity without a suffix.
Multiplier(unit) == CASE unit = "b"  -> 1
                      [] unit = "k" -> 1024
                      [] unit = "m" -> 1024 * 1024
                      [] unit = "g" -> 1024 * 1024 * 1024
                      [] unit = "t" -> 1024 * 1024 * 1024 * 1024

Quantity == [n : Nat \ {0}, unit : {"b", "k", "m", "g", "t"}]

LegalChoice(raw, fields) == \A f \in fields : raw[f] \in DOMAIN Rank[f]

LegalAccess(raw)      == LegalChoice(raw, {"workspace", "reference", "external"})
LegalCredentials(raw) == LegalChoice(raw, {"auth"})
LegalDestinations(ds) == ds # Malformed /\ ds \subseteq Destination

\* Destinations belong to the allowlist mode, and it needs some.
LegalNetwork(raw) == /\ LegalChoice(raw, {"mode"})
                     /\ LegalDestinations(raw.destinations)
                     /\ raw.mode = "allowlist" <=> raw.destinations # {}

LegalGit(raw)     == \A f \in Permissions : raw[f] \in BOOLEAN
LegalSandbox(raw) == raw.sandbox \in BOOLEAN
LegalLimits(raw)  == raw.cpu \in Nat \ {0} /\ raw.pids \in Nat \ {0} /\ raw.memory \in Quantity

\* ExecutionPolicy.from_dict raises nothing for raw.
WellFormed(raw) ==
  /\ DOMAIN raw = Fields
  /\ raw.version = 1
  /\ LegalAccess(raw) /\ LegalNetwork(raw) /\ LegalCredentials(raw)
  /\ LegalGit(raw) /\ LegalSandbox(raw) /\ LegalLimits(raw)
  /\ LegalChoice(raw, {"class"})

FromDict(raw) == [raw EXCEPT !.memory = raw.memory.n * Multiplier(raw.memory.unit)]
AsDict(p)     == [p EXCEPT !.memory = [n |-> p.memory, unit |-> "b"]]

IsPolicy(p) == DOMAIN p = Fields /\ WellFormed(AsDict(p))

(***************************************************************************)
(* One layer of the resolver.                                              *)
(***************************************************************************)
\* Variant: a plain overlay.
MergeOverlay(p, layer) ==
  [f \in Fields |-> IF f \in DOMAIN layer THEN layer[f] ELSE AsDict(p)[f]]

\* A layer that states another mode than allowlist drops inherited destinations.
Merge(p, layer) ==
  [f \in Fields |->
     IF f \in DOMAIN layer THEN layer[f]
     ELSE IF f = "destinations" /\ "mode" \in DOMAIN layer /\ layer["mode"] # "allowlist" THEN {}
     ELSE AsDict(p)[f]]

\* Variant: destinations are compared only when the mode changes.
NetworkModeNotWider(lower, upper) ==
  lower.mode # upper.mode /\ lower.mode = "allowlist" /\ upper.mode = "allowlist"
    => lower.destinations \subseteq upper.destinations

NetworkNotWider(lower, upper) ==
  lower.mode = "allowlist" /\ upper.mode = "allowlist"
    => lower.destinations \subseteq upper.destinations

RankNotWider(lower, upper, f)       == Rank[f][lower[f]] <= Rank[f][upper[f]]
PermissionNotWider(lower, upper, f) == lower[f] => upper[f]
RequirementNotWeaker(lower, upper)  == upper.sandbox => lower.sandbox
LimitNotWider(lower, upper, f)      == lower[f] <= upper[f]

NotWider(lower, upper) ==
  /\ \A f \in Choices : RankNotWider(lower, upper, f)
  /\ NetworkNotWider(lower, upper)
  /\ \A f \in Permissions : PermissionNotWider(lower, upper, f)
  /\ RequirementNotWeaker(lower, upper)
  /\ \A f \in Limits : LimitNotWider(lower, upper, f)

\* Variant: inherited destinations are dropped for the validation only.
CandidateOverlay(p, layer) == FromDict(MergeOverlay(p, layer))

Candidate(p, layer) == FromDict(Merge(p, layer))

Accepts(p, layer) == /\ DOMAIN layer \subseteq Fields
                     /\ WellFormed(Merge(p, layer))
                     /\ NotWider(Candidate(p, layer), p)

(***************************************************************************)
(* Built-in profiles.                                                      *)
(***************************************************************************)
Profiles == {"review", "implement", "dependency", "compatibility"}

ASSUME AbsentAssumption == Absent \notin Profiles \cup {"yes", "no"}

\* Only the dependency profile takes destinations, and it needs some.
ProfileAccepts(id, destinations) ==
  IF id = "dependency" THEN destinations \notin {Absent, {}} ELSE destinations = Absent

\* Variant: the implement profile inherits push, like the fields it does not mention.
RestrictionsWithPush(id, destinations) ==
  CASE id = "review" ->
         [workspace |-> "read", reference |-> "read", mode |-> "deny", auth |-> "deny",
          gitCommit |-> FALSE, sandbox |-> TRUE]
    [] id = "implement" ->
         [workspace |-> "write", reference |-> "read", mode |-> "deny", auth |-> "deny",
          gitRead |-> TRUE, gitCommit |-> TRUE, sandbox |-> TRUE]
    [] id = "dependency" ->
         [workspace |-> "write", mode |-> "allowlist", destinations |-> destinations,
          auth |-> "deny", gitCommit |-> TRUE, gitPush |-> FALSE, sandbox |-> TRUE]
    [] id = "compatibility" -> [class |-> "compatibility"]

Restrictions(id, destinations) ==
  CASE id = "review" ->
         [workspace |-> "read", reference |-> "read", mode |-> "deny", auth |-> "deny",
          gitCommit |-> FALSE, sandbox |-> TRUE]
    [] id = "implement" ->
         [workspace |-> "write", reference |-> "read", mode |-> "deny", auth |-> "deny",
          gitRead |-> TRUE, gitCommit |-> TRUE, gitPush |-> FALSE, sandbox |-> TRUE]
    [] id = "dependency" ->
         [workspace |-> "write", mode |-> "allowlist", destinations |-> destinations,
          auth |-> "deny", gitCommit |-> TRUE, gitPush |-> FALSE, sandbox |-> TRUE]
    [] id = "compatibility" -> [class |-> "compatibility"]

(***************************************************************************)
(* Run flags: "yes", "no" or Absent, with or without a profile.            *)
(***************************************************************************)
FlagsConflict(profile, readonly) ==
  \/ profile = "review" /\ readonly = "no"
  \/ profile \in {"implement", "dependency"} /\ readonly = "yes"

MappedProfile(profile, readonly) ==
  CASE profile # Absent -> profile
    [] readonly = "yes" -> "review"
    [] OTHER            -> "implement"

MappedReadonly(profile, readonly) ==
  \/ profile = "review"
  \/ profile \in {Absent, "compatibility"} /\ readonly = "yes"

\* None (Absent) leaves the class to the policy.
MappedClass(profile, outerOnly) ==
  IF profile \in {Absent, "compatibility"} \/ outerOnly = "yes" THEN "compatibility" ELSE Absent
=============================================================================
