----------------------------- MODULE AssetCache -----------------------------
(***************************************************************************)
(* Candidate packages from a registry (src/src/oci_asset.rs, asset.rs): a  *)
(* reference is resolved to a digest, first as a Docker image and, after   *)
(* any error, as an ORAS artifact; what is fetched is kept under the       *)
(* digest and used from there.  The tag of the reference may be moved to   *)
(* another version at any time.  Staged trees are synced before they are   *)
(* published; a cache that looks invalid is removed without a second look. *)
(***************************************************************************)
EXTENDS Naturals, FiniteSets

CONSTANTS
  AssetRuns,  \* processes that resolve the reference
  Versions,   \* what the tag of the reference can name
  Manifests,  \* functions from Versions: what their manifests may say
  NoAsset     \* a path that leads to nothing

VARIABLES
  manifestOf, \* the manifest of each version
  assetTag,   \* the version the tag names
  assetCache, \* what is kept under each digest: NoAsset or a directory
  assetRun,   \* the state of each process
  assetTorn,  \* history: a marked cache was removed
  assetMoved  \* history: the tag moved

assetVars == <<manifestOf, assetTag, assetCache, assetRun, assetTorn, assetMoved>>

(* The image ID and the digest of the artifact are different identities.   *)
Vias == {"docker", "oras"}
AssetDigests == Vias \X Versions

(* .a3s/asset.acl, the entrypoint and the definition it names.             *)
PackageFiles == {"manifest", "entry", "definition"}

(* A manifest: whether it has the schema (known blocks and attributes, each*)
(* once, the version and the category), how its two paths are spelled, and *)
(* the protocol.  An "odd" path is relative, but not normalized.           *)
ManifestKinds == [schema : BOOLEAN, entry : {"normal", "odd", "unsafe"},
                  definition : {"none", "normal", "odd", "unsafe"},
                  protocol : {"agent-tool", "a3s-code-exec", "codex-exec", "other"}]

ASSUME ManifestsAssumption == Manifests \subseteq [Versions -> ManifestKinds]

(* load_manifest_entrypoint and safe_entrypoint_file, at the download.     *)
EntrypointUsable(m) == m.schema /\ m.entry # "unsafe"

(* validate_package_path.                                                  *)
NormalPath(path) == path = "normal"

(* load_directory: the protocol is known and a native one comes with a     *)
(* definition; both paths are normalized.                                  *)
ManifestAccepted(m) ==
  /\ m.schema /\ NormalPath(m.entry)
  /\ m.protocol \in {"agent-tool", "a3s-code-exec", "codex-exec"}
  /\ m.definition # "none" => NormalPath(m.definition)
  /\ m.protocol = "agent-tool" \/ m.definition # "none"

NamedFiles(m) == {"manifest", "entry"} \cup (IF m.definition = "none" THEN {} ELSE {"definition"})

AssetDir == [files : SUBSET PackageFiles, of : Versions, marker : BOOLEAN,
             synced : BOOLEAN, by : AssetRuns \cup {NoAsset}]

(* What a run sees of a package.                                           *)
AssetContents == [files : SUBSET PackageFiles, of : Versions]

ASSUME NoAssetIsNone == NoAsset \notin AssetRuns \cup AssetDir \cup AssetContents

NewAssetRun == [at |-> "docker", digest |-> NoAsset, staging |-> NoAsset,
                target |-> NoAsset, got |-> NoAsset]

(* A removal that was interrupted left the first cache without its marker. *)
AssetInit ==
  /\ manifestOf \in Manifests
  /\ assetTag \in Versions
  /\ \E left \in {NoAsset} \cup {d \in AssetDir : ~d.marker /\ d.by = NoAsset /\ d.synced
                                            /\ d.of = assetTag /\ d.files = {"manifest"}} :
       assetCache = [d \in AssetDigests |-> IF d = <<"docker", assetTag>> THEN left ELSE NoAsset]
  /\ assetRun = [p \in AssetRuns |-> NewAssetRun]
  /\ assetTorn = FALSE
  /\ assetMoved = FALSE

AssetAt(p, where) == assetRun[p].at = where
AssetEnded == {"used", "failed", "killed"}

AssetBecomes(p, new) ==
  assetRun' = [assetRun EXCEPT ![p] = [f \in DOMAIN NewAssetRun |->
                 IF f \in DOMAIN new THEN new[f] ELSE assetRun[p][f]]]

AssetCacheAt(p) == assetCache[assetRun[p].digest]
AssetVia(p) == IF AssetAt(p, "docker") THEN "docker" ELSE
               IF AssetAt(p, "oras") THEN "oras" ELSE assetRun[p].digest[1]

(* resolve: any error of the first way leads to the second; cleanup_error  *)
(* has removed the staging directory.                                      *)
AssetFails(p) ==
  AssetBecomes(p, [NewAssetRun EXCEPT !.at = IF AssetVia(p) = "docker" THEN "oras" ELSE "failed"])

-----------------------------------------------------------------------------
(* docker image inspect (with one pull if there is none), oras resolve:    *)
(* the digest of what the tag names now.                                   *)
ResolveAsset(p) ==
  /\ assetRun[p].at \in Vias
  /\ \/ AssetBecomes(p, [at |-> "load", digest |-> <<AssetVia(p), assetTag>>])
     \/ AssetFails(p)
  /\ UNCHANGED <<manifestOf, assetTag, assetCache, assetTorn, assetMoved>>

AssetOthers(p) == {q \in AssetRuns \ {p} : AssetAt(q, "removing") /\ assetRun[q].digest = assetRun[p].digest}

(* valid_cache: a real directory with the marker of this digest.           *)
ValidAssetCache(dir) == dir # NoAsset /\ dir.marker

(* load_cache, the check: a tree that is being removed may also make it    *)
(* fail.                                                                   *)
LoadAssetCache(p) ==
  /\ AssetAt(p, "load")
  /\ \/ AssetBecomes(p, [at |-> IF ValidAssetCache(AssetCacheAt(p)) THEN "open" ELSE "invalid"])
     \/ AssetOthers(p) # {} /\ AssetFails(p)
  /\ UNCHANGED <<manifestOf, assetTag, assetCache, assetTorn, assetMoved>>

(* load_cache, the removal of whatever is there by now.                    *)
DiscardAssetCache(p) ==
  /\ AssetAt(p, "invalid")
  /\ IF AssetCacheAt(p) = NoAsset
       THEN AssetBecomes(p, [at |-> "stage"]) /\ UNCHANGED assetTorn
       ELSE /\ AssetBecomes(p, [at |-> "removing", target |-> AssetCacheAt(p).by])
            /\ assetTorn' = (assetTorn \/ AssetCacheAt(p).marker)
  /\ UNCHANGED <<manifestOf, assetTag, assetCache, assetMoved>>

RemoveAssetCache(p) ==
  /\ AssetAt(p, "removing")
  /\ LET dir == AssetCacheAt(p) IN
     IF dir # NoAsset /\ dir.by = assetRun[p].target
       THEN \/ /\ \/ \E f \in dir.files : assetCache' = [assetCache EXCEPT ![assetRun[p].digest].files = @ \ {f}]
                  \/ dir.marker /\ assetCache' = [assetCache EXCEPT ![assetRun[p].digest].marker = FALSE]
               /\ UNCHANGED assetRun
            \/ /\ dir.files = {} /\ ~dir.marker
               /\ assetCache' = [assetCache EXCEPT ![assetRun[p].digest] = NoAsset]
               /\ AssetBecomes(p, [at |-> "stage"])
       ELSE /\ AssetBecomes(p, [at |-> "stage"]) \/ AssetFails(p)
            /\ UNCHANGED assetCache
  /\ UNCHANGED <<manifestOf, assetTag, assetTorn, assetMoved>>

Staged(p, files) == [files |-> files, of |-> assetTag, marker |-> FALSE, synced |-> FALSE, by |-> p]

(* docker create, and docker cp of the manifest and of the entrypoint it   *)
(* names, all of the reference and not of the digest; the copy of agent.md *)
(* may fail unnoticed.                                                     *)
StageImage(p) ==
  /\ AssetAt(p, "stage") /\ AssetVia(p) = "docker"
  /\ \/ /\ EntrypointUsable(manifestOf[assetTag])
        /\ \E files \in {PackageFiles, PackageFiles \ {"definition"}} :
             AssetBecomes(p, [at |-> "mark", staging |-> Staged(p, files)])
     \/ AssetFails(p)
  /\ UNCHANGED <<manifestOf, assetTag, assetCache, assetTorn, assetMoved>>

(* oras pull of the reference, validate_tree, and the manifest and the     *)
(* entrypoint looked for.                                                  *)
StageArtifact(p) ==
  /\ AssetAt(p, "stage") /\ AssetVia(p) = "oras"
  /\ \/ /\ EntrypointUsable(manifestOf[assetTag])
        /\ AssetBecomes(p, [at |-> "mark", staging |-> Staged(p, NamedFiles(manifestOf[assetTag]))])
     \/ AssetFails(p)
  /\ UNCHANGED <<manifestOf, assetTag, assetCache, assetTorn, assetMoved>>

(* Mutated form: only the marker is synced.                                *)
MarkUnsynced(p) ==
  /\ AssetAt(p, "mark")
  /\ AssetBecomes(p, [at |-> "publish", staging |-> [assetRun[p].staging EXCEPT !.marker = TRUE]])
  /\ UNCHANGED <<manifestOf, assetTag, assetCache, assetTorn, assetMoved>>

(* publish_cache: the marker, then sync_tree.                              *)
MarkAsset(p) ==
  /\ AssetAt(p, "mark")
  /\ \/ AssetBecomes(p, [at |-> "publish",
          staging |-> [assetRun[p].staging EXCEPT !.marker = TRUE, !.synced = TRUE]])
     \/ AssetFails(p)
  /\ UNCHANGED <<manifestOf, assetTag, assetCache, assetTorn, assetMoved>>

(* rename(2), or the cache another process put there; then the sync of     *)
(* assets/, which may fail.                                                *)
PublishAsset(p) ==
  /\ AssetAt(p, "publish")
  /\ LET dir == AssetCacheAt(p) IN
     IF dir = NoAsset \/ (dir.files = {} /\ ~dir.marker)
       THEN /\ assetCache' = [assetCache EXCEPT ![assetRun[p].digest] = assetRun[p].staging]
            /\ AssetBecomes(p, [at |-> "open", staging |-> NoAsset]) \/ AssetFails(p)
       ELSE /\ \/ ValidAssetCache(dir) /\ AssetBecomes(p, [at |-> "open", staging |-> NoAsset])
               \/ AssetFails(p)
            /\ UNCHANGED assetCache
  /\ UNCHANGED <<manifestOf, assetTag, assetTorn, assetMoved>>

(* Mutated form: the files the manifest names are not looked for.          *)
PackageNamed(dir) == dir # NoAsset

(* load_directory: the manifest parses, and what it names is there.        *)
PackageComplete(dir) ==
  IF dir = NoAsset THEN FALSE
  ELSE ManifestAccepted(manifestOf[dir.of]) /\ NamedFiles(manifestOf[dir.of]) \subseteq dir.files

OpenAsset(p) ==
  /\ AssetAt(p, "open")
  /\ IF PackageComplete(AssetCacheAt(p)) THEN AssetBecomes(p, [at |-> "opened"]) ELSE AssetFails(p)
  /\ UNCHANGED <<manifestOf, assetTag, assetCache, assetTorn, assetMoved>>

AssetContent(dir) == IF dir = NoAsset THEN NoAsset ELSE [files |-> dir.files, of |-> dir.of]

(* The run reads the package where the cache has it.                       *)
UseAsset(p) ==
  /\ AssetAt(p, "opened")
  /\ AssetBecomes(p, [at |-> "used", got |-> AssetContent(AssetCacheAt(p))])
  /\ UNCHANGED <<manifestOf, assetTag, assetCache, assetTorn, assetMoved>>

KillAsset(p) ==
  /\ assetRun[p].at \notin AssetEnded
  /\ AssetBecomes(p, [NewAssetRun EXCEPT !.at = "killed"])
  /\ UNCHANGED <<manifestOf, assetTag, assetCache, assetTorn, assetMoved>>

(* A publisher moves the tag.                                              *)
MoveTag ==
  /\ ~assetMoved
  /\ assetMoved' = TRUE
  /\ assetTag' \in Versions \ {assetTag}
  /\ UNCHANGED <<manifestOf, assetCache, assetRun, assetTorn>>

(* The power fails: a rename may be undone, and what was not synced is     *)
(* empty.  Processes end; new ones find what is left.              *)
AssetPowerLoss ==
  /\ \A p \in AssetRuns : assetRun[p].at \notin {"used", "killed"}
  /\ \E q \in AssetRuns :
       assetRun' = [p \in AssetRuns |-> [NewAssetRun EXCEPT !.at = IF p = q THEN "docker" ELSE "killed"]]
  /\ \E lost \in SUBSET {d \in AssetDigests : assetCache[d] # NoAsset} :
       assetCache' = [d \in AssetDigests |->
         IF assetCache[d] = NoAsset \/ d \in lost THEN NoAsset
         ELSE IF assetCache[d].synced THEN assetCache[d]
         ELSE [assetCache[d] EXCEPT !.files = {}]]
  /\ UNCHANGED <<manifestOf, assetTag, assetTorn, assetMoved>>

AssetStep(p) ==
  \/ ResolveAsset(p) \/ LoadAssetCache(p) \/ DiscardAssetCache(p) \/ RemoveAssetCache(p)
  \/ StageImage(p) \/ StageArtifact(p) \/ MarkAsset(p) \/ PublishAsset(p) \/ OpenAsset(p) \/ UseAsset(p) \/ KillAsset(p)

AssetNext == (\E p \in AssetRuns : AssetStep(p)) \/ MoveTag \/ AssetPowerLoss

-----------------------------------------------------------------------------
(* Whatever was killed or lost, a package that is used is one its manifest *)
(* allows and has every file the manifest names, and a marked cache has    *)
(* what it was published with, unless a marked cache was removed by a      *)
(* process that had found the path without one.                            *)
AssetIsWhole == ~assetTorn =>
  /\ \A p \in AssetRuns : AssetAt(p, "used") =>
       /\ assetRun[p].got # NoAsset
       /\ LET m == manifestOf[assetRun[p].got.of] IN
          /\ ManifestAccepted(m) /\ NamedFiles(m) \subseteq assetRun[p].got.files
  /\ \A d \in AssetDigests :
       ValidAssetCache(assetCache[d]) => {"manifest", "entry"} \subseteq assetCache[d].files
=============================================================================
