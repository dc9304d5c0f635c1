------------------------------ MODULE MCPolicy ------------------------------
(***************************************************************************)
(* TLC instance of policy resolution: baselines at both ends and in the    *)
(* middle of the order, layers that state every field with every value a   *)
(* class of inputs has, malformed ones included, and layers of two fields. *)
(***************************************************************************)
EXTENDS PolicyProperties, TLC

CONSTANTS github, pypi

Network == {github, pypi}

Size(n, unit) == [n |-> n, unit |-> unit]

Widest ==
  [version |-> 1, workspace |-> "write", reference |-> "read", external |-> "write",
   mode |-> "allow", destinations |-> {}, auth |-> "allow", gitRead |-> TRUE,
   gitCommit |-> TRUE, gitPush |-> TRUE, sandbox |-> FALSE, cpu |-> 200,
   memory |-> 2048, pids |-> 2, class |-> "compatibility"]
Listed   == [Widest EXCEPT !.mode = "allowlist", !.destinations = {github, pypi},
                           !.external = "read", !.sandbox = TRUE]
Offline  == [Widest EXCEPT !.mode = "deny", !.auth = "deny", !.sandbox = TRUE,
                           !.gitPush = FALSE]
ReadOnly == [Offline EXCEPT !.workspace = "read", !.gitCommit = FALSE, !.reference = "none"]
Hardened == [Listed EXCEPT !.class = "hardened"]
NoAccess == [ReadOnly EXCEPT !.workspace = "none", !.external = "deny"]

Baselines == {Widest, Listed, Offline, ReadOnly, Hardened, NoAccess}

\* One stated field: every value of its type, one above the baseline's limit, and Malformed.
Values == [workspace    |-> {"none", "read", "write", Malformed},
           reference    |-> {"none", "read"},
           external     |-> {"deny", "read", "write"},
           mode         |-> {"deny", "allowlist", "allow", Malformed},
           destinations |-> {{}, {github}, {github, pypi}, Malformed},
           auth         |-> {"deny", "allow"},
           gitRead      |-> BOOLEAN,
           gitCommit    |-> BOOLEAN,
           gitPush      |-> {TRUE, FALSE, Malformed},
           sandbox      |-> BOOLEAN,
           cpu          |-> {0, 150, 200, 250},
           memory       |-> {Size(1, "k"), Size(2, "k"), Size(3, "k"), Size(2048, "b"), Malformed},
           pids         |-> {1, 2, 3},
           class        |-> {"compatibility", "hardened"},
           version      |-> {1, 2},
           unknown      |-> {TRUE}]

OneField   == UNION {{f :> v : v \in Values[f]} : f \in DOMAIN Values}
Allowlists == {[mode |-> m, destinations |-> d] :
                 m \in {"deny", "allowlist", "allow"}, d \in {{}, {github}, {github, pypi}}}
TwoFields  == Allowlists \cup {[sandbox |-> FALSE, auth |-> "deny"],
                               [workspace |-> "read", mode |-> "allowlist"]}

PolicyRequests ==
  [kind : {"policy"}, agent : Agents, profile : Profiles \cup {Absent},
   readonly : {Absent}, outerOnly : {Absent}, destinations : {Absent, {github}},
   baseline : Baselines, project : {Absent} \cup OneField \cup TwoFields,
   run : {Absent} \cup Allowlists \cup {"gitCommit" :> FALSE, "workspace" :> "read",
                                        "class" :> "hardened", "gitPush" :> TRUE}]

RunRequests ==
  [kind : {"run"}, agent : Agents, profile : {Absent}, readonly : {"yes", "no"},
   outerOnly : {"yes", "no"}, destinations : {Absent}, baseline : {Absent},
   task : [mode : {"integration", "parallel"},
           status : {"active", "completed", "merged"}, reference : BOOLEAN]]

FlagRequests ==
  [kind : {"policy"}, agent : {"codex"}, profile : Profiles \cup {Absent},
   readonly : {"yes", "no", Absent}, outerOnly : {"yes", Absent}, destinations : {Absent},
   baseline : {Widest}, project : {Absent}, run : {Absent}]

AllRequests == PolicyRequests \cup RunRequests \cup FlagRequests

ASSUME BaselinesAssumption == \A p \in Baselines : IsPolicy(p)
=============================================================================
