---------------------------- MODULE PackageCache ----------------------------
(***************************************************************************)
(* The cache of Codex packages (src/src/codex_package.rs): prepare verifies*)
(* an installed package, publishes a sealed copy under its digest and then *)
(* its metadata in another directory; load_cached takes both from there    *)
(* for a CandidateLock.  Several commands prepare and load at once, the    *)
(* installation is upgraded, modes of the cached tree are changed from     *)
(* outside, processes die and the power fails.  The metadata directory is  *)
(* synced, the directory of the packages is not.                           *)
(***************************************************************************)
EXTENDS Naturals, FiniteSets

CONSTANTS
  PkgRuns,     \* commands that prepare a package or load a locked one
  PkgVersions  \* installations of Codex, each with its digest

VARIABLES
  pkgSource,  \* the installed version
  pkgTree,    \* under each digest: "absent", or the modes of a whole copy
  pkgMeta,    \* the digests that have metadata
  pkgLocked,  \* the digests a CandidateLock was made for
  pkgRun,     \* the state of each command
  pkgPast     \* history: "upgraded", "drifted", "lost" have happened

pkgVars == <<pkgSource, pkgTree, pkgMeta, pkgLocked, pkgRun, pkgPast>>

NewPkgRun == [at |-> "start", digest |-> CHOOSE v \in PkgVersions : TRUE, loads |-> FALSE]

PkgInit ==
  /\ pkgSource \in PkgVersions
  /\ pkgTree = [v \in PkgVersions |-> "absent"]
  /\ pkgMeta = {}
  /\ pkgLocked = {}
  /\ pkgRun = [p \in PkgRuns |-> NewPkgRun]
  /\ pkgPast = {}

PkgAt(p, where) == pkgRun[p].at = where
PkgGoes(p, where) == pkgRun' = [pkgRun EXCEPT ![p].at = where]
PkgDigest(p) == pkgRun[p].digest

(* How a command ends; a failure is an I/O error or a change under it.     *)
PkgEnded == {"mounted", "done", "failed", "refused", "unsealed", "unavailable"}

-----------------------------------------------------------------------------
(* read_manifest, validate_manifest and verify_package_tree of the source: *)
(* the layout is the official one, required_files are there, executable    *)
(* and within the limits; the digest covers all of it.                     *)
PrepareVerify(p) ==
  /\ PkgAt(p, "start")
  /\ \/ pkgRun' = [pkgRun EXCEPT ![p].at = "look", ![p].digest = pkgSource]
     \/ PkgGoes(p, "failed")
  /\ UNCHANGED <<pkgSource, pkgTree, pkgMeta, pkgLocked, pkgPast>>

(* real_directory_if_present(destination).                                 *)
PrepareLook(p) ==
  /\ PkgAt(p, "look")
  /\ PkgGoes(p, IF pkgTree[PkgDigest(p)] = "absent" THEN "absent" ELSE "verify")
  /\ UNCHANGED <<pkgSource, pkgTree, pkgMeta, pkgLocked, pkgPast>>

(* No package was there a moment ago, so there must be no metadata.        *)
PrepareEnsure(p) ==
  /\ PkgAt(p, "absent")
  /\ PkgGoes(p, IF PkgDigest(p) \in pkgMeta THEN "refused" ELSE "stage")
  /\ UNCHANGED <<pkgSource, pkgTree, pkgMeta, pkgLocked, pkgPast>>

(* copy_package_tree compares every file with the digest taken before; the *)
(* source and the staged copy are verified again, the copy is synced and   *)
(* sealed.                                                                 *)
PrepareStage(p) ==
  /\ PkgAt(p, "stage")
  /\ \/ pkgSource = PkgDigest(p) /\ PkgGoes(p, "publish")
     \/ PkgGoes(p, "failed")
  /\ UNCHANGED <<pkgSource, pkgTree, pkgMeta, pkgLocked, pkgPast>>

(* The rename, or a directory that is there by now.                        *)
PreparePublish(p) ==
  /\ PkgAt(p, "publish")
  /\ PkgGoes(p, "verify")
  /\ pkgTree' = [pkgTree EXCEPT ![PkgDigest(p)] = IF @ = "absent" THEN "sealed" ELSE @]
  /\ UNCHANGED <<pkgSource, pkgMeta, pkgLocked, pkgPast>>

(* verify_cached_root reads contents, whatever the modes.                  *)
VerifyRoot(p) ==
  /\ PkgAt(p, "verify")
  /\ PkgGoes(p, IF pkgTree[PkgDigest(p)] = "absent" THEN "failed" ELSE "reseal")
  /\ UNCHANGED <<pkgSource, pkgTree, pkgMeta, pkgLocked, pkgPast>>

(* Mutated form: modes 0500 in a first pass, 0555 in a second.             *)
ResealTwice(p) ==
  /\ \/ /\ PkgAt(p, "reseal") /\ PkgGoes(p, "second")
        /\ pkgTree' = [pkgTree EXCEPT ![PkgDigest(p)] = "0500"]
     \/ /\ PkgAt(p, "second") /\ PkgGoes(p, "sealed")
        /\ pkgTree' = [pkgTree EXCEPT ![PkgDigest(p)] = "sealed"]
  /\ UNCHANGED <<pkgSource, pkgMeta, pkgLocked, pkgPast>>

(* reseal_cached_tree sets the final modes directly.                       *)
ResealTree(p) ==
  /\ PkgAt(p, "reseal")
  /\ pkgTree' = [pkgTree EXCEPT ![PkgDigest(p)] = "sealed"]
  /\ PkgGoes(p, "sealed")
  /\ UNCHANGED <<pkgSource, pkgMeta, pkgLocked, pkgPast>>

(* verify_cached_root_sealed.  load_cached has no more to do.              *)
VerifySealed(p) ==
  /\ PkgAt(p, "sealed")
  /\ PkgGoes(p, IF pkgTree[PkgDigest(p)] # "sealed" THEN "unsealed"
                ELSE IF pkgRun[p].loads THEN "done" ELSE "metadata")
  /\ UNCHANGED <<pkgSource, pkgTree, pkgMeta, pkgLocked, pkgPast>>

(* Mutated form: an error of the write is dropped.                         *)
MetadataAssumed(p) ==
  /\ PkgAt(p, "metadata")
  /\ PkgGoes(p, "done")
  /\ pkgLocked' = pkgLocked \cup {PkgDigest(p)}
  /\ \E wrote \in {{}, {PkgDigest(p)}} : pkgMeta' = pkgMeta \cup wrote
  /\ UNCHANGED <<pkgSource, pkgTree, pkgPast>>

(* write_metadata_if_absent: an equal file will do, else a synced          *)
(* temporary file is linked into place and the directory synced.  The      *)
(* caller locks the digest it is given.                                    *)
WriteMetadata(p) ==
  /\ PkgAt(p, "metadata")
  /\ \/ /\ pkgMeta' = pkgMeta \cup {PkgDigest(p)}
        /\ \/ PkgGoes(p, "done") /\ pkgLocked' = pkgLocked \cup {PkgDigest(p)}
           \/ PkgGoes(p, "failed") /\ UNCHANGED pkgLocked
     \/ PkgGoes(p, "failed") /\ UNCHANGED <<pkgMeta, pkgLocked>>
  /\ UNCHANGED <<pkgSource, pkgTree, pkgPast>>

(* load_cached for a lock: the package, then the metadata with its digest, *)
(* target and version.                                                     *)
LoadCached(p) ==
  /\ PkgAt(p, "start")
  /\ \E v \in pkgLocked :
       pkgRun' = [pkgRun EXCEPT ![p] =
         [at |-> IF pkgTree[v] # "absent" /\ v \in pkgMeta THEN "verify" ELSE "unavailable",
          digest |-> v, loads |-> TRUE]]
  /\ UNCHANGED <<pkgSource, pkgTree, pkgMeta, pkgLocked, pkgPast>>

(* verify_for_mount, before the container mounts the tree.                 *)
MountPackage(p) ==
  /\ PkgAt(p, "done") /\ pkgRun[p].loads
  /\ PkgGoes(p, IF pkgTree[PkgDigest(p)] = "sealed" THEN "mounted"
                ELSE IF pkgTree[PkgDigest(p)] = "absent" THEN "failed" ELSE "unsealed")
  /\ UNCHANGED <<pkgSource, pkgTree, pkgMeta, pkgLocked, pkgPast>>

(* A killed command, which is started once more.                           *)
KillPackage(p) ==
  /\ pkgRun[p].at \notin PkgEnded \cup {"start"}
  /\ pkgRun' = [pkgRun EXCEPT ![p] = NewPkgRun]
  /\ UNCHANGED <<pkgSource, pkgTree, pkgMeta, pkgLocked, pkgPast>>

UpgradeCodex ==
  /\ "upgraded" \notin pkgPast
  /\ pkgPast' = pkgPast \cup {"upgraded"}
  /\ pkgSource' \in PkgVersions \ {pkgSource}
  /\ UNCHANGED <<pkgTree, pkgMeta, pkgLocked, pkgRun>>

(* Somebody changes modes in the cache.                                    *)
DriftModes(v) ==
  /\ "drifted" \notin pkgPast /\ pkgTree[v] # "absent"
  /\ pkgPast' = pkgPast \cup {"drifted"}
  /\ pkgTree' = [pkgTree EXCEPT ![v] = "drifted"]
  /\ UNCHANGED <<pkgSource, pkgMeta, pkgLocked, pkgRun>>

(* Every command ends and a package, the metadata of which is safe, may be *)
(* gone.                                                                   *)
PackagePowerLoss ==
  /\ "lost" \notin pkgPast
  /\ pkgPast' = pkgPast \cup {"lost"}
  /\ \E gone \in SUBSET {v \in PkgVersions : pkgTree[v] # "absent"} :
       pkgTree' = [v \in PkgVersions |-> IF v \in gone THEN "absent" ELSE pkgTree[v]]
  /\ pkgRun' = [p \in PkgRuns |-> NewPkgRun]
  /\ UNCHANGED <<pkgSource, pkgMeta, pkgLocked>>

PkgStep(p) ==
  \/ PrepareVerify(p) \/ PrepareLook(p) \/ PrepareEnsure(p) \/ PrepareStage(p)
  \/ PreparePublish(p) \/ VerifyRoot(p) \/ ResealTree(p) \/ VerifySealed(p)
  \/ WriteMetadata(p) \/ LoadCached(p) \/ MountPackage(p) \/ KillPackage(p)

PkgNext ==
  \/ \E p \in PkgRuns : PkgStep(p)
  \/ UpgradeCodex \/ PackagePowerLoss
  \/ \E v \in PkgVersions : DriftModes(v)

-----------------------------------------------------------------------------
(* Whoever is killed between the two publications, and whatever else is    *)
(* prepared, resealed or upgraded: unless the power was lost, metadata     *)
(* always has its package and a package a lock was made for can be loaded; *)
(* and no command finds a package unsealed because others reseal it (the   *)
(* comment in reseal_cached_tree), but only when modes changed from        *)
(* outside.                                                                *)
LockedIsLoadable ==
  /\ "lost" \notin pkgPast =>
       /\ \A v \in pkgMeta : pkgTree[v] # "absent"
       /\ \A p \in PkgRuns : ~PkgAt(p, "unavailable")
  /\ "drifted" \notin pkgPast => \A p \in PkgRuns : ~PkgAt(p, "unsealed")
=============================================================================
