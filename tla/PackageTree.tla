---------------------------- MODULE PackageTree -----------------------------
(***************************************************************************)
(* What the functions of src/src/codex_package.rs make of a package tree:  *)
(* verification, copy, seal and the checks before a mount.  A tree is a    *)
(* function from paths to entries; a file is its content (which stands for *)
(* the hash), size, links, execute bit and mode, and the content of the    *)
(* manifest is the record it is parsed to.  Directories are left out: the  *)
(* files below one that cannot be searched are "unreadable".               *)
(***************************************************************************)
EXTENDS Integers, FiniteSets, FiniteSetsExt

CONSTANTS
  MaxFileBytes,    \* MAX_PACKAGE_FILE_BYTES
  MaxPackageBytes, \* MAX_PACKAGE_BYTES
  Rejected         \* the error of a verification or a copy

ASSUME PackageLimits == MaxFileBytes \in Nat \ {0} /\ MaxPackageBytes \in Nat

ManifestPath == "codex-package.json"

(* CodexPackageManifest; "official" stands for the three paths of the      *)
(* standalone layout.                                                      *)
GoodManifest == [layout |-> 1, version |-> "v1", os |-> "linux", arch |-> "x86_64",
                 variant |-> "codex", official |-> TRUE]

OtherManifests ==
  {[GoodManifest EXCEPT !.layout = 2], [GoodManifest EXCEPT !.version = ""],
   [GoodManifest EXCEPT !.version = "v2"], [GoodManifest EXCEPT !.os = "darwin"],
   [GoodManifest EXCEPT !.arch = "arm64"], [GoodManifest EXCEPT !.variant = "other"],
   [GoodManifest EXCEPT !.official = FALSE]}

validate_manifest(m) ==
  m.layout = 1 /\ m.version # "" /\ m.os = "linux" /\ m.variant = "codex" /\ m.official

(* canonical_platform; a platform is <<os, architecture>>, <<>> is none.   *)
CanonicalArch(arch) == CASE arch \in {"x86_64", "amd64"} -> "amd64"
                         [] arch \in {"aarch64", "arm64"} -> "arm64"

validate_platform(m, platform) ==
  /\ m.os = "linux"
  /\ platform # <<>> => platform[1] = "linux" /\ CanonicalArch(m.arch) = CanonicalArch(platform[2])

ConvenienceLink == "codex"

(* required_files: the entrypoint, its code-mode host, ripgrep and bwrap.  *)
RequiredFiles == {"bin/codex", "bin/codex-code-mode-host", "codex-path/rg", "codex-resources/bwrap"}

AllowedFiles == RequiredFiles \cup {"codex-resources/zsh/bin/zsh"}

PlainFile(content, exec) == [kind |-> "file", content |-> content, size |-> 1, links |-> 1, exec |-> exec, mode |-> "any"]

PathsOf(tree, kind) == {f \in DOMAIN tree : tree[f].kind = kind}

(* collect_files: symlinks but the one convenience link of a source, hard  *)
(* links and special files are errors.                                     *)
Collectable(tree, allowLink) ==
  /\ PathsOf(tree, "special") = {}
  /\ PathsOf(tree, "symlink") \subseteq (IF allowLink THEN {ConvenienceLink} ELSE {})
  /\ \A f \in PathsOf(tree, "file") : tree[f].links = 1
  /\ PathsOf(tree, "file") \subseteq AllowedFiles \cup {ManifestPath}

(* checked_path_metadata: a regular file with one name.                    *)
CheckedFile(tree, f) == f \in PathsOf(tree, "file") /\ tree[f].links = 1

(* open_regular_file: the owner may read the file and reach it.            *)
Openable(file) == file.mode # "unreadable"

(* read_manifest, and validate_manifest of what it returns.                *)
ManifestReadable(tree) ==
  /\ CheckedFile(tree, ManifestPath) /\ Openable(tree[ManifestPath])
  /\ validate_manifest(tree[ManifestPath].content)

(* stream_artifact_file: one file and the running total.                   *)
Streamable(file, needsExec) ==
  file.size <= MaxFileBytes /\ (needsExec => file.exec) /\ Openable(file)

ArtifactFile(file) == [mode |-> "0555", size |-> file.size, content |-> file.content]

TotalSize(tree) == MapThenSumSet(LAMBDA f : tree[f].size, PathsOf(tree, "file"))

(* validate_file_metadata.                                                 *)
ValidMetadata(files) ==
  /\ DOMAIN files \subseteq AllowedFiles
  /\ RequiredFiles \subseteq DOMAIN files

(* verify_package_tree_inner with no expectation.                          *)
MetadataOfTree(tree, allowLink, allowDrift) ==
  LET present == PathsOf(tree, "file") \cap AllowedFiles
      files == [f \in present |-> ArtifactFile(tree[f])]
  IN IF /\ ManifestReadable(tree)
        /\ Collectable(tree, allowLink)
        /\ \A f \in present : Streamable(tree[f], ~allowDrift)
        /\ TotalSize(tree) <= MaxPackageBytes
        /\ ValidMetadata(files)
        /\ ~allowDrift => ~tree[ManifestPath].exec
     THEN [manifest |-> tree[ManifestPath].content, files |-> files]
     ELSE Rejected

(* copy_package_file: size, mode and content of the source file are those  *)
(* that were verified.                                                     *)
Copyable(tree, f, file) ==
  /\ CheckedFile(tree, f) /\ tree[f].exec /\ Openable(tree[f])
  /\ tree[f].size = file.size /\ tree[f].content = file.content

AllCopyable(tree, meta) == \A f \in DOMAIN meta.files : Copyable(tree, f, meta.files[f])

(* copy_package_tree writes the manifest anew and copies the artifacts.    *)
CopyPackageTree(meta) ==
  [f \in DOMAIN meta.files \cup {ManifestPath} |->
     IF f = ManifestPath THEN PlainFile(meta.manifest, FALSE)
     ELSE [kind |-> "file", content |-> meta.files[f].content, size |-> meta.files[f].size,
           links |-> 1, exec |-> TRUE, mode |-> "any"]]

(* validate_cache_metadata; the digest is that of the manifest and files.  *)
validate_cache_metadata(meta) == validate_manifest(meta.manifest) /\ ValidMetadata(meta.files)

(* What a CandidateLock says of the package: the target, the digest and    *)
(* the version; a legacy lock has neither of the first two.                *)
LockOf(meta) == [legacy |-> FALSE, arch |-> meta.manifest.arch, digest |-> meta,
                 version |-> meta.manifest.version]

LockFits(lock, meta, platform) ==
  /\ ~lock.legacy
  /\ lock.arch = meta.manifest.arch /\ lock.digest = meta /\ lock.version = meta.manifest.version
  /\ validate_platform(meta.manifest, platform)

(* Mutated form: every file is made executable.                            *)
SealExecutable(tree) ==
  [f \in DOMAIN tree |-> [tree[f] EXCEPT !.mode = "0555", !.exec = TRUE]]

(* set_sealed_unix_modes.                                                  *)
SealModes(tree) ==
  [f \in DOMAIN tree |-> [tree[f] EXCEPT !.mode = IF f = ManifestPath THEN "0444" ELSE "0555",
                                         !.exec = f # ManifestPath]]

(* verify_sealed_tree.                                                     *)
SealedTree(tree) ==
  \A f \in DOMAIN tree :
    /\ tree[f].kind = "file"
    /\ tree[f].mode = IF f = ManifestPath THEN "0444" ELSE "0555"

-----------------------------------------------------------------------------
VARIABLES
  treeSource,  \* the installed package
  treeCached,  \* its copy in the cache, or Rejected before there is one
  treeMeta,    \* what the verification of the source returned
  treePlatform,\* the work platform of the Task
  treeAt,      \* the next step
  treeChanged  \* history: the source was changed after its verification

treeVars == <<treeSource, treeCached, treeMeta, treePlatform, treeAt, treeChanged>>

GoodTree == [f \in AllowedFiles \cup {ManifestPath, ConvenienceLink} |->
  IF f = ConvenienceLink THEN [PlainFile(0, TRUE) EXCEPT !.kind = "symlink"]
  ELSE IF f = ManifestPath THEN PlainFile(GoodManifest, FALSE) ELSE PlainFile(0, TRUE)]

(* What may be wrong with an entry.                                        *)
Deviations(f) ==
  {[GoodTree[f] EXCEPT !.exec = ~@], [GoodTree[f] EXCEPT !.links = 2],
   [GoodTree[f] EXCEPT !.size = MaxFileBytes],
   [GoodTree[f] EXCEPT !.size = MaxFileBytes + 1],
   [GoodTree[f] EXCEPT !.mode = "unreadable"],
   [GoodTree[f] EXCEPT !.kind = "symlink"], [GoodTree[f] EXCEPT !.kind = "special"]}
  \cup {[GoodTree[f] EXCEPT !.content = c] : c \in IF f = ManifestPath THEN OtherManifests ELSE {1}}

Changed(tree) ==
  (UNION {{[tree EXCEPT ![f] = entry] : entry \in Deviations(f)} : f \in DOMAIN tree \cap DOMAIN GoodTree})
  \cup {[g \in DOMAIN tree \ {f} |-> tree[g]] : f \in DOMAIN tree}
  \cup {[g \in DOMAIN tree \cup {"extra"} |-> IF g = "extra" THEN PlainFile(0, TRUE) ELSE tree[g]]}

TreeSources == {GoodTree} \cup Changed(GoodTree)

TreeInit ==
  /\ treeSource \in TreeSources
  /\ treeCached = Rejected
  /\ treeMeta = Rejected
  /\ treePlatform \in {<<>>, <<"linux", "amd64">>, <<"linux", "aarch64">>, <<"windows", "amd64">>}
  /\ treeAt = "verify"
  /\ treeChanged = FALSE

TreeGoes(ok, where) == treeAt' = IF ok THEN where ELSE "failed"

(* prepare_from_path verifies the source.                                  *)
TreeVerifySource ==
  /\ treeAt = "verify"
  /\ treeMeta' = MetadataOfTree(treeSource, TRUE, FALSE)
  /\ TreeGoes(IF treeMeta' = Rejected THEN FALSE
              ELSE validate_platform(treeMeta'.manifest, treePlatform), "copy")
  /\ UNCHANGED <<treeSource, treeCached, treePlatform, treeChanged>>

ChangeSource ==
  /\ treeAt = "copy" /\ ~treeChanged
  /\ treeSource' \in Changed(treeSource)
  /\ treeChanged' = TRUE
  /\ UNCHANGED <<treeCached, treeMeta, treePlatform, treeAt>>

(* Copy, second verification of the source, verification of the copy.      *)
TreeStage ==
  /\ treeAt = "copy"
  /\ treeCached' = IF AllCopyable(treeSource, treeMeta) THEN CopyPackageTree(treeMeta) ELSE Rejected
  /\ TreeGoes(/\ AllCopyable(treeSource, treeMeta)
              /\ MetadataOfTree(treeSource, TRUE, FALSE) = treeMeta
              /\ MetadataOfTree(treeCached', FALSE, FALSE) = treeMeta, "seal")
  /\ UNCHANGED <<treeSource, treeMeta, treePlatform, treeChanged>>

(* reseal_cached_tree and the verification of the sealed copy.             *)
TreeSeal ==
  /\ treeAt = "seal"
  /\ treeCached' = SealModes(treeCached)
  /\ treeAt' = IF MetadataOfTree(treeCached', FALSE, FALSE) = treeMeta THEN "published" ELSE "spoilt"
  /\ UNCHANGED <<treeSource, treeMeta, treePlatform, treeChanged>>

(* What one chmod may close: a file, or all that is below a directory.     *)
Closable ==
  {{f} : f \in AllowedFiles \cup {ManifestPath}}
  \cup {{"bin/codex", "bin/codex-code-mode-host"},
        {"codex-resources/bwrap", "codex-resources/zsh/bin/zsh"}, AllowedFiles \cup {ManifestPath}}

(* Somebody changes a mode of the published copy: a file's, which stays    *)
(* readable, or one without which the owner cannot read the files.         *)
TreeDrift ==
  /\ treeAt = "published"
  /\ \/ \E f \in DOMAIN treeCached :
          treeCached' = [treeCached EXCEPT ![f].mode = "any", ![f].exec = ~@]
     \/ \E closed \in Closable :
          treeCached' = [f \in DOMAIN treeCached |->
                           IF f \in closed THEN [treeCached[f] EXCEPT !.mode = "unreadable"]
                           ELSE treeCached[f]]
  /\ treeAt' = "drifted"
  /\ UNCHANGED <<treeSource, treeMeta, treePlatform, treeChanged>>

(* load_cached: the lock and the metadata first, then verify_cached_root,  *)
(* which reads every file as it lies; nothing is touched when these fail.  *)
(* Then the reseal, the sealed verification, and later verify_for_mount.   *)
TreeLoad(lock) ==
  LET sealed == SealModes(treeCached)
      fits   == validate_cache_metadata(treeMeta) /\ LockFits(lock, treeMeta, treePlatform)
      whole  == MetadataOfTree(treeCached, FALSE, TRUE) = treeMeta IN
  /\ treeAt \in {"published", "drifted"}
  /\ \/ /\ ~fits
        /\ treeAt' = IF lock = LockOf(treeMeta) THEN "spoilt" ELSE "refused"
        /\ UNCHANGED treeCached
     \/ /\ fits /\ ~whole
        /\ treeAt' = "corrupt"
        /\ UNCHANGED treeCached
     \/ /\ fits /\ whole
        /\ treeCached' = sealed
        /\ treeAt' = IF MetadataOfTree(sealed, FALSE, TRUE) = treeMeta /\ SealedTree(sealed)
                    THEN "mounted" ELSE "spoilt"
  /\ UNCHANGED <<treeSource, treeMeta, treePlatform, treeChanged>>

LocksAbout(meta) ==
  {LockOf(meta), [LockOf(meta) EXCEPT !.legacy = TRUE], [LockOf(meta) EXCEPT !.arch = "arm64"],
   [LockOf(meta) EXCEPT !.version = "v0"]}

TreeNext ==
  \/ TreeVerifySource \/ ChangeSource \/ TreeStage \/ TreeSeal \/ TreeDrift
  \/ treeAt \in {"published", "drifted"} /\ \E lock \in LocksAbout(treeMeta) : TreeLoad(lock)

-----------------------------------------------------------------------------
(* A package that was verified and not changed while it was copied is      *)
(* always prepared.  Modes that drift do not keep it from being mounted    *)
(* later, unless the owner can no longer read some file: the copy is read  *)
(* before it is resealed (codex_package.rs:247), so it is then corrupt for *)
(* good.  What is mounted has every required file, within the limits and   *)
(* with the contents verified, even if the source changed meanwhile.       *)
PackageSurvives ==
  /\ treeAt # "spoilt"
  /\ treeAt = "corrupt" => \E f \in DOMAIN treeCached : ~Openable(treeCached[f])
  /\ treeAt = "failed" /\ treeMeta # Rejected =>
       treeChanged \/ ~validate_platform(treeMeta.manifest, treePlatform)
  /\ treeAt = "mounted" =>
       /\ RequiredFiles \subseteq DOMAIN treeCached
       /\ TotalSize(treeCached) <= MaxPackageBytes
       /\ \A f \in DOMAIN treeMeta.files : treeCached[f].content = treeMeta.files[f].content
=============================================================================
