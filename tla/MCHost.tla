------------------------------- MODULE MCHost -------------------------------
(***************************************************************************)
(* What the runs on one host share, for TLC: the labelled Docker resources *)
(* of Codex runs, the caches of seeds, OCI assets, Task snapshots and      *)
(* Codex packages, the private homes and the locks.  They share no state   *)
(* with each other, so a behaviour is one of `focus`, from all its initial *)
(* states, while the others stay in one.                                   *)
(***************************************************************************)
EXTENDS MCCodexRun, SeedCache, AssetCache, TaskSnapshot, PackageCache, PackageTree, PrivateHomes, Locks

VARIABLE focus   \* the part that runs

sharedVars == <<focus, vars, seedVars, assetVars, snapVars, pkgVars, treeVars, homeVars, lockVars>>

(* The first version of an asset is a Candidate that runs by itself; the   *)
(* second is a tool, or has an entrypoint that safe_entrypoint_file lets   *)
(* pass and validate_package_path does not.  The tag names the second, and *)
(* may be moved to the first at any time.                                  *)
NativeAsset == [schema |-> TRUE, entry |-> "normal", definition |-> "normal", protocol |-> "codex-exec"]
MCManifests ==
  {("v1" :> NativeAsset) @@ ("v2" :> other) : other \in
     {[NativeAsset EXCEPT !.definition = "none", !.protocol = "agent-tool"],
      [NativeAsset EXCEPT !.entry = "odd"]}}

(* What is locked: a plain Task for every kind of Candidate and options,   *)
(* and every kind of Task and Runtime for a plain Candidate; and a Codex   *)
(* Candidate on each platform, locked before or within the run.            *)
PlainCase ==
  [task |-> [schema |-> "v1", judge |-> "asset", seed |-> FALSE, platform |-> NoLock,
             resources |-> "r", imports |-> "i", hosts |-> {}],
   agent |-> [protocol |-> "tool", instructions |-> TRUE],
   model |-> NoLock, effort |-> NoLock, codexDefault |-> NoLock, judgeModel |-> NoLock,
   provider |-> "docker", runtime |-> "docker", locked |-> TRUE]
MCLockCases ==
  {[PlainCase EXCEPT !.agent = agent, !.model = model, !.effort = effort, !.codexDefault = default] :
     agent \in [protocol : {"tool", "a3s", "codex"}, instructions : BOOLEAN],
     model \in {NoLock, "plain", "spark", "malformed"}, effort \in {NoLock, "none", "low", "unknown"},
     default \in {NoLock, "low"}}
  \cup
  {[PlainCase EXCEPT !.task.schema = schema[1], !.task.hosts = schema[2], !.task.judge = judge,
                     !.task.seed = seed, !.judgeModel = model,
                     !.provider = runtimes[1], !.runtime = runtimes[2]] :
     schema \in {<<"v1", {}>>, <<"v2", {}>>, <<"v2", {"host"}>>},
     judge \in {"asset", "legacy", "gateway"}, seed \in BOOLEAN, model \in {NoLock, "plain"}, runtimes \in {"docker", "os"} \X {"docker", "os"}}
  \cup
  {[PlainCase EXCEPT !.agent.protocol = "codex", !.task.platform = platform, !.locked = locked] :
     platform \in {NoLock, "x86", "arm"}, locked \in BOOLEAN}

Focus(part) == focus = part

(* The parts that are not in focus.                                         *)
HostRests ==
  /\ ~Focus("seed") => seedTree = [f \in SeedFiles |-> "file"] /\ seedCache = NoDir
  /\ assetTag = "v2"
  /\ ~Focus("asset") => /\ manifestOf = CHOOSE m \in Manifests : TRUE
                        /\ assetCache = [d \in AssetDigests |-> NoAsset]
  /\ ~Focus("snapshot") => snapSource = [f \in SnapFiles |-> 1]
  /\ ~Focus("cache") => pkgSource = CHOOSE v \in PkgVersions : TRUE
  /\ ~Focus("tree") => treeSource = GoodTree /\ treePlatform = <<>>
  /\ ~Focus("locks") => lockAsk = PlainCase

HostInit ==
  /\ focus \in {"sweep", "seed", "asset", "snapshot", "cache", "tree", "homes", "locks"}
  /\ HostRests
  /\ Init /\ SeedInit /\ AssetInit /\ SnapInit /\ PkgInit /\ TreeInit /\ HomeInit /\ LocksInit

SweepMoves == Focus("sweep") /\ Next
  /\ UNCHANGED <<seedVars, assetVars, snapVars, pkgVars, treeVars, homeVars, lockVars>>
SeedMoves == Focus("seed") /\ SeedNext
  /\ UNCHANGED <<vars, assetVars, snapVars, pkgVars, treeVars, homeVars, lockVars>>
AssetMoves == Focus("asset") /\ AssetNext
  /\ UNCHANGED <<vars, seedVars, snapVars, pkgVars, treeVars, homeVars, lockVars>>
SnapshotMoves == Focus("snapshot") /\ SnapNext
  /\ UNCHANGED <<vars, seedVars, assetVars, pkgVars, treeVars, homeVars, lockVars>>
CacheMoves == Focus("cache") /\ PkgNext
  /\ UNCHANGED <<vars, seedVars, assetVars, snapVars, treeVars, homeVars, lockVars>>
TreeMoves == Focus("tree") /\ TreeNext
  /\ UNCHANGED <<vars, seedVars, assetVars, snapVars, pkgVars, homeVars, lockVars>>
HomeMoves == Focus("homes") /\ HomeNext
  /\ UNCHANGED <<vars, seedVars, assetVars, snapVars, pkgVars, treeVars, lockVars>>
LockMoves == Focus("locks") /\ LocksNext
  /\ UNCHANGED <<vars, seedVars, assetVars, snapVars, pkgVars, treeVars, homeVars>>
(* Every process of the part has come to an end: nothing else may stop.    *)
Rests ==
  /\ CASE Focus("sweep") -> FALSE
       [] Focus("seed") -> \A p \in SeedRuns : seedRun[p].at \in SeedEnded
       [] Focus("asset") -> \A p \in AssetRuns : assetRun[p].at \in AssetEnded
       [] Focus("snapshot") -> \A p \in SnapRuns : snapRun[p].at \in {"done", "failed"}
       [] Focus("cache") -> \A p \in PkgRuns : pkgRun[p].at \in PkgEnded
       [] Focus("tree") -> treeAt \in {"failed", "refused", "corrupt", "mounted"}
       [] Focus("homes") -> \A r \in HomeRuns : homeRun[r].at \in HomeEnded
       [] Focus("locks") -> lockPc \in {"failed", "refused", "running"}
  /\ UNCHANGED sharedVars

HostNext ==
  /\ UNCHANGED focus
  /\ \/ SweepMoves \/ SeedMoves \/ AssetMoves \/ SnapshotMoves \/ CacheMoves \/ TreeMoves
     \/ HomeMoves \/ LockMoves \/ Rests

HostSpec == HostInit /\ [][HostNext]_sharedVars
=============================================================================
