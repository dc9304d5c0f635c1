-------------------------- MODULE LaunchProperties --------------------------
(***************************************************************************)
(* What preparing and starting a provider container promises.              *)
(***************************************************************************)
EXTENDS ProviderLaunch

\* Every variable has its type.
LaunchTypeOK ==
  /\ legacy \subseteq Volume
  /\ vol \in [Volume -> VolumeState]
  /\ config \in [data : Content, by : Req \cup {None}]
  /\ policy \in [Policies -> Policies \cup {None}]
  /\ tmp \in File /\ manifest \in File
  /\ th \in [Req -> Thread]
  /\ crashes \in 0 .. MaxCrashes /\ raced \in BOOLEAN /\ cut \in BOOLEAN

Running(r) == th[r].pc = "running"

\* A provider container only ever runs on prepared state: each volume marked, with all of
\* the legacy files, and owned by the runtime user, wherever an earlier preparation was
\* cut short, and whatever containers of a dead agentd go on preparing beside it.  Its
\* configuration is there too.  What two first uses at once, or a first use beside such a
\* container, can break is the completeness of the copy; that and the end of an install
\* half done, the configuration.
StartsPrepared ==
  \A r \in Req : Running(r) =>
    /\ \A v \in Volume : /\ vol[v].marker /\ vol[v].owner = "agent"
                         /\ v \in legacy => vol[v].copied = "all" \/ raced
    /\ Managed => /\ config.data # "absent"
                  /\ config.data = "empty" => raced \/ cut

\* Preparing is idempotent: a request fails only if its first use of the volumes overlapped
\* with another request's or with a migration that had outlived agentd, or if a copy died
\* half done.
NoFalseAlarm == \A r \in Req : th[r].pc = "failed" => raced \/ cut

\* Each run is given the policy compiled for it, whatever other runs of the same task
\* publish between its plan and its start.
RunMountsItsOwnPolicy == \A r \in Req : Running(r) => th[r].sees = th[r].policy

\* The manifest is never seen half written after a crash or during one build.  Two builds
\* at once can publish each other's half-written file, which the slower one then completes
\* unless the host goes down first.
ManifestWhole ==
  manifest = "torn" => raced /\ (crashes > 0 \/ \E r \in Req : th[r].fd = "manifest")

\* "Before Cursor provider operations, the broker reconciles the platform-managed
\* `permissions` object and `sandbox.networkAccess` value from the deployed seed into the
\* active config": a container starts with the seed's managed fields.
ManagedAtStart ==
  [][\A r \in Req : th[r].pc = "start" /\ th'[r].pc = "running" => config.data = "seed"]_vars
=============================================================================
