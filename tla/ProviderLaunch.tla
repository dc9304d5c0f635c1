--------------------------- MODULE ProviderLaunch ---------------------------
(***************************************************************************)
(* How a request of agentd gets a provider container: the driver's state   *)
(* volumes are created, migrated from the legacy volume and handed to the  *)
(* runtime user (prepare_provider_state), the platform-managed fields of   *)
(* the provider's configuration are reconciled (seed_provider_home), the   *)
(* run's own policy file is published, and the container starts.  A build  *)
(* does the first two and then publishes the build manifest.               *)
(*                                                                         *)
(* Every request has a thread, and none of this happens under a lock.  The *)
(* helper containers work through shell scripts, modelled command by       *)
(* command; between any two the host may go down, or agentd alone, whose   *)
(* containers then run on beside the requests that come after.             *)
(*                                                                         *)
(* A definition under a comment that begins with "Variant:" is not the     *)
(* code: it is a plausible mistake in the definition that follows it.      *)
(***************************************************************************)
EXTENDS Naturals, Sequences

CONSTANTS Req,       \* broker threads, with the container each one waits for
          Volumes,   \* keys of the state volumes, in the driver's order; the first is primary
          Managed,   \* whether the driver has a JsonFieldReconciliation
          Policies,  \* contents a generated policy file may have
          None,      \* no policy file, no thread
          Env,       \* what happens besides: "crash", "survive", "save"
          MaxCrashes \* bound on the number of crashes

ASSUME VolumesAssumption == Volumes \in Seq(STRING) /\ Len(Volumes) > 0
ASSUME LaunchAssumption  == Managed \in BOOLEAN /\ MaxCrashes \in Nat /\ None \notin Req \cup Policies

Volume  == {Volumes[i] : i \in 1 .. Len(Volumes)}
Primary == Volumes[1]

VARIABLES
  legacy,   \* volumes the legacy volume has a directory for
  vol,      \* the state volumes
  config,   \* the provider's configuration file in the primary volume, and the
            \* thread whose install created it and has not filled it yet
  policy,   \* host directory of generated policy files, by name
  tmp,      \* the manifest's temporary file
  manifest, \* build-manifest.lock.json
  th,       \* the threads; a container that outlived its thread keeps its place
  crashes,  \* crashes so far
  raced,    \* two were in the same unguarded script at once
  cut       \* a crash hit a copy or an install half done

files == <<vol, config, policy, tmp, manifest>>
vars  == <<legacy, vol, config, policy, tmp, manifest, th, crashes, raced, cut>>

VolumeState == [exists : BOOLEAN,
                copied : {"none", "torn", "all"},   \* the legacy files
                marker : BOOLEAN,                   \* layout marker
                owner  : {"root", "part", "agent"}] \* part: chown without owner marker
Content == {"absent", "empty", "seed", "other"}     \* other: managed fields are not the seed's
File    == {"absent", "torn", "whole"}

Stage == {"idle", "exists", "create", "probe", "marker", "find", "copy", "copying", "mark",
          "owner", "adjust", "adjusting", "config", "install", "installing", "jq", "mv",
          "publish", "start", "running", "open", "write", "replace", "failed"}

\* at: position in Volumes; jq: what jq wrote; sees: the policy mounted; fd: the file open
Thread == [pc : Stage, op : {"none", "run", "auth", "build"}, at : 1 .. Len(Volumes),
           policy : Policies \cup {None}, jq : Content, sees : Policies \cup {None},
           fd : {"none", "tmp", "manifest"}]

Idle == [pc |-> "idle", op |-> "none", at |-> 1, policy |-> None, jq |-> "absent",
         sees |-> None, fd |-> "none"]

Fresh == [exists |-> FALSE, copied |-> "none", marker |-> FALSE, owner |-> "root"]

Init ==
  /\ legacy \in SUBSET Volume
  /\ vol = [v \in Volume |-> Fresh]
  /\ config = [data |-> "absent", by |-> None]
  /\ policy = [p \in Policies |-> None]
  /\ tmp = "absent" /\ manifest = "absent"
  /\ th = [r \in Req |-> Idle]
  /\ crashes = 0 /\ raced = FALSE /\ cut = FALSE

(***************************************************************************)
(* Moving a thread on.                                                     *)
(***************************************************************************)
At(r)   == Volumes[th[r].at]

\* Variant: off by one.
PastLast(r) == th[r].at > Len(Volumes)

Last(r) == th[r].at = Len(Volumes)

Go(r, stage) == th' = [th EXCEPT ![r].pc = stage]

\* The next volume, or else the next stage with the first volume.
Advance(r, loop, after) ==
  th' = [th EXCEPT ![r].pc = IF Last(r) THEN after ELSE loop,
                   ![r].at = IF Last(r) THEN 1 ELSE @ + 1]

\* A container that outlived agentd: it works off its script, and nobody waits for it.
Orphan(r) == th[r].op = "none" /\ th[r].pc # "idle"

Return(r, stage) == IF Orphan(r) THEN "idle" ELSE stage

\* Entering a script; the history notices when another thread, or a container that
\* outlived one, is in it.
Enter(r, script) == raced' = (raced \/ \E q \in Req \ {r} : th[q].pc \in script)

Keep(fs) == UNCHANGED fs /\ UNCHANGED <<legacy, crashes, cut>>

Migration == {"marker", "find", "copy", "copying", "mark"}
Seeding   == {"config", "install", "installing", "jq", "mv"}

\* What comes after seed_provider_home.
AfterSeeding(r) == CASE th[r].op = "build"     -> "open"
                     [] th[r].policy # None -> "publish"
                     [] OTHER               -> "start"

AfterOwners(r) == IF Managed THEN "config" ELSE AfterSeeding(r)

Request(r) ==
  /\ th[r].pc = "idle"
  /\ \E op \in {"run", "auth", "build"}, p \in Policies \cup {None} :
       /\ op # "run" => p = None
       /\ th' = [th EXCEPT ![r] = [Idle EXCEPT !.pc = "exists", !.op = op, !.policy = p]]
  /\ Keep(<<files, raced>>)

(***************************************************************************)
(* prepare_provider_state.                                                 *)
(***************************************************************************)
\* Variant: every request creates its volumes.
ExistsUnchecked(r) ==
  /\ th[r].pc = "exists"
  /\ Go(r, "create")
  /\ Keep(<<files, raced>>)

Exists(r) ==
  /\ th[r].pc = "exists"
  /\ IF vol[At(r)].exists THEN Advance(r, "exists", "probe") ELSE Go(r, "create")
  /\ Keep(<<files, raced>>)

\* podman volume create fails if another thread has created it since.
Create(r) ==
  /\ th[r].pc = "create"
  /\ IF vol[At(r)].exists
       THEN Go(r, "failed") /\ UNCHANGED vol
       ELSE Advance(r, "exists", "probe") /\ vol' = [vol EXCEPT ![At(r)].exists = TRUE]
  /\ Enter(r, {"create"})
  /\ Keep(<<config, policy, tmp, manifest>>)

\* Variant: only the primary volume is probed.
ProbePrimary(r) ==
  /\ th[r].pc = "probe"
  /\ th' = [th EXCEPT ![r].pc = IF vol[Primary].marker THEN "owner" ELSE "marker", ![r].at = 1]
  /\ IF vol[Primary].marker THEN UNCHANGED raced ELSE Enter(r, Migration)
  /\ Keep(files)

\* One probe container per volume, until one has no marker.
Probe(r) ==
  /\ th[r].pc = "probe"
  /\ IF vol[At(r)].marker
       THEN Advance(r, "probe", "owner")
       ELSE th' = [th EXCEPT ![r].pc = "marker", ![r].at = 1]
  /\ IF vol[At(r)].marker THEN UNCHANGED raced ELSE Enter(r, Migration)
  /\ Keep(files)

TestMarker(r) ==
  /\ th[r].pc = "marker"
  /\ IF vol[At(r)].marker THEN Advance(r, "marker", Return(r, "owner")) ELSE Go(r, "find")
  /\ Keep(<<files, raced>>)

Nonempty(v) == vol[v].copied # "none" \/ vol[v].marker \/ vol[v].owner = "agent"

\* A volume with files and no marker is refused, in this and every later request.
FindFiles(r) ==
  /\ th[r].pc = "find"
  /\ Go(r, IF Nonempty(At(r)) THEN Return(r, "failed")
           ELSE IF At(r) \in legacy THEN "copy" ELSE "mark")
  /\ Keep(<<files, raced>>)

\* The script runs as root without capabilities: it can not write to the agent's files.
Writable(v) == vol[v].owner = "root"

CopyBegin(r) ==
  /\ th[r].pc = "copy" /\ Writable(At(r))
  /\ Go(r, "copying")
  /\ vol' = [vol EXCEPT ![At(r)].copied = "torn"]
  /\ Keep(<<config, policy, tmp, manifest, raced>>)

CopyEnd(r) ==
  /\ th[r].pc = "copying" /\ Writable(At(r))
  /\ Go(r, "mark")
  /\ vol' = [vol EXCEPT ![At(r)].copied = "all"]
  /\ Keep(<<config, policy, tmp, manifest, raced>>)

Mark(r) ==
  /\ th[r].pc = "mark" /\ Writable(At(r))
  /\ Advance(r, "marker", Return(r, "owner"))
  /\ vol' = [vol EXCEPT ![At(r)].marker = TRUE]
  /\ Keep(<<config, policy, tmp, manifest, raced>>)

MigrationDenied(r) ==
  /\ th[r].pc \in {"copy", "copying", "mark"} /\ ~Writable(At(r))
  /\ Go(r, Return(r, "failed"))
  /\ Keep(<<files, raced>>)

OwnerProbe(r) ==
  /\ th[r].pc = "owner"
  /\ IF vol[At(r)].owner = "agent"
       THEN Advance(r, "owner", AfterOwners(r))
       ELSE Go(r, "adjust")
  /\ Keep(<<files, raced>>)

\* podman changes the owner file by file, then the container writes the owner marker.
\* Each volume has a container of its own: one that outlived agentd does no other volume.
AdjustBegin(r) ==
  /\ th[r].pc = "adjust"
  /\ Go(r, "adjusting")
  /\ vol' = [vol EXCEPT ![At(r)].owner = IF @ = "root" THEN "part" ELSE @]
  /\ Keep(<<config, policy, tmp, manifest, raced>>)

AdjustEnd(r) ==
  /\ th[r].pc = "adjusting"
  /\ Advance(r, Return(r, "owner"), Return(r, AfterOwners(r)))
  /\ vol' = [vol EXCEPT ![At(r)].owner = "agent"]
  /\ Keep(<<config, policy, tmp, manifest, raced>>)

(***************************************************************************)
(* seed_provider_home: install the seed, or let jq replace the managed     *)
(* fields in a copy and move that into place.                              *)
(***************************************************************************)
TestConfig(r) ==
  /\ th[r].pc = "config"
  /\ Go(r, IF config.data = "absent" THEN "install" ELSE "jq")
  /\ IF config.data \in {"absent", "empty"} THEN Enter(r, Seeding \ {"config"})
                                          ELSE UNCHANGED raced
  /\ Keep(files)

InstallBegin(r) ==
  /\ th[r].pc = "install"
  /\ Go(r, "installing")
  /\ config' = [data |-> "empty", by |-> r]
  /\ Keep(<<vol, policy, tmp, manifest, raced>>)

\* If another thread has replaced the file, what is written is lost with the old one.
InstallEnd(r) ==
  /\ th[r].pc = "installing"
  /\ Go(r, Return(r, AfterSeeding(r)))
  /\ config' = IF config.by = r THEN [data |-> "seed", by |-> None] ELSE config
  /\ Keep(<<vol, policy, tmp, manifest, raced>>)

\* jq writes nothing for an empty input, and succeeds.
Jq(r) ==
  /\ th[r].pc = "jq"
  /\ th' = [th EXCEPT ![r].pc = "mv", ![r].jq = IF config.data = "empty" THEN "empty" ELSE "seed"]
  /\ Keep(<<files, raced>>)

Mv(r) ==
  /\ th[r].pc = "mv"
  /\ Go(r, Return(r, AfterSeeding(r)))
  /\ config' = [data |-> th[r].jq, by |-> None]
  /\ Keep(<<vol, policy, tmp, manifest, raced>>)

(***************************************************************************)
(* The container of a run or a login.                                      *)
(***************************************************************************)
\* Variant: one file name per provider.
FixedName(r) == CHOOSE p \in Policies : TRUE

PolicyName(r) == th[r].policy  \* the digest of the content

\* Written to a private temporary file, then moved: never seen half written.
Publish(r) ==
  /\ th[r].pc = "publish"
  /\ Go(r, "start")
  /\ policy' = [policy EXCEPT ![PolicyName(r)] = th[r].policy]
  /\ Keep(<<vol, config, tmp, manifest, raced>>)

\* Mounts keep showing the file that was there when the container started.
Start(r) ==
  /\ th[r].pc = "start"
  /\ th' = [th EXCEPT ![r].pc = "running",
                      ![r].sees = IF th[r].policy = None THEN None ELSE policy[PolicyName(r)]]
  /\ Keep(<<files, raced>>)

\* Cursor rewrites its configuration, managed fields included.
Save(r) ==
  /\ th[r].pc = "running" /\ Managed /\ "save" \in Env
  /\ config' = [data |-> "other", by |-> None]
  /\ UNCHANGED th
  /\ Keep(<<vol, policy, tmp, manifest, raced>>)

\* The container ends, or the client reads the error.
Finish(r) ==
  /\ th[r].pc \in {"running", "failed"}
  /\ th' = [th EXCEPT ![r] = Idle]
  /\ Keep(<<files, raced>>)

(***************************************************************************)
(* The build manifest: write_json, whose temporary file is named after the *)
(* process and so is shared by the threads.                                *)
(***************************************************************************)
\* Variant: the manifest is written in place.
OpenInPlace(r) ==
  /\ th[r].pc = "open"
  /\ th' = [th EXCEPT ![r].pc = "write", ![r].fd = "manifest"]
  /\ manifest' = "torn" /\ tmp' = "whole"
  /\ Enter(r, {"write", "replace"})
  /\ Keep(<<vol, config, policy>>)

OpenTmp(r) ==
  /\ th[r].pc = "open"
  /\ th' = [th EXCEPT ![r].pc = "write", ![r].fd = "tmp"]
  /\ tmp' = "torn"
  /\ Enter(r, {"write", "replace"})
  /\ Keep(<<vol, config, policy, manifest>>)

WriteTmp(r) ==
  /\ th[r].pc = "write"
  /\ th' = [th EXCEPT ![r].pc = "replace", ![r].fd = "none"]
  /\ tmp' = IF th[r].fd = "tmp" THEN "whole" ELSE tmp
  /\ manifest' = IF th[r].fd = "manifest" THEN "whole" ELSE manifest
  /\ Keep(<<vol, config, policy, raced>>)

\* Whoever still writes the renamed file writes the manifest from now on.
Replace(r) ==
  /\ th[r].pc = "replace" /\ tmp # "absent"
  /\ th' = [q \in Req |-> IF q = r THEN Idle
                         ELSE [th[q] EXCEPT !.fd = IF @ = "tmp" THEN "manifest" ELSE "none"]]
  /\ manifest' = tmp /\ tmp' = "absent"
  /\ Keep(<<vol, config, policy, raced>>)

ReplaceFails(r) ==
  /\ th[r].pc = "replace" /\ tmp = "absent"
  /\ Go(r, "failed")
  /\ Keep(<<files, raced>>)

(***************************************************************************)
(* agentd dies and comes back with another process id.  systemd restarts   *)
(* it alone: a container has a scope of its own and may live on, whether   *)
(* it migrates, adjusts or seeds a volume, or is the provider's.  When the *)
(* host goes down none does, and any of them may end with agentd as well.  *)
(***************************************************************************)
Survivable == Migration \cup {"adjusting"} \cup Seeding \cup {"running"}

HalfDone(r) == \/ th[r].pc \in {"copying", "installing"}
               \/ (th[r].pc = "mark" /\ vol[At(r)].copied # "none")

Crash ==
  /\ "crash" \in Env /\ crashes < MaxCrashes
  /\ crashes' = crashes + 1
  /\ \E alive \in SUBSET {r \in Req : "survive" \in Env /\ th[r].pc \in Survivable} :
       /\ th' = [r \in Req |-> IF r \in alive THEN [th[r] EXCEPT !.op = "none"] ELSE Idle]
       /\ cut' = (cut \/ \E r \in Req \ alive : HalfDone(r))
       /\ config' = [config EXCEPT !.by = IF @ \in alive THEN @ ELSE None]
  /\ tmp' = "absent"
  /\ UNCHANGED <<legacy, vol, policy, manifest, raced>>

Prepare(r) == \/ Exists(r) \/ Create(r) \/ Probe(r)
              \/ TestMarker(r) \/ FindFiles(r) \/ CopyBegin(r) \/ CopyEnd(r) \/ Mark(r)
              \/ MigrationDenied(r)
              \/ OwnerProbe(r) \/ AdjustBegin(r) \/ AdjustEnd(r)
Seed(r)    == TestConfig(r) \/ InstallBegin(r) \/ InstallEnd(r) \/ Jq(r) \/ Mv(r)
Contain(r) == Publish(r) \/ Start(r) \/ Save(r) \/ Finish(r)
Build(r)   == OpenTmp(r) \/ WriteTmp(r) \/ Replace(r) \/ ReplaceFails(r)

Next == \/ \E r \in Req : Request(r) \/ Prepare(r) \/ Seed(r) \/ Contain(r) \/ Build(r)
        \/ Crash

Spec == Init /\ [][Next]_vars
=============================================================================
