------------------------------ MODULE SeedCache -----------------------------
(***************************************************************************)
(* How a run gets its workspace (src/src/workspace.rs, create): a copy of  *)
(* the Task's public/workspace, or a clone of the seed cache.  The tree of *)
(* an image is extracted once into a private staging directory, published  *)
(* under its key by a rename and cloned from there for every run           *)
(* (materialize_seed).  The runs here use one seed at the same time.       *)
(*                                                                         *)
(* remove_dir_all and cp -a work entry by entry while others go on;        *)
(* processes are killed and the power may fail.  Nothing of the tree is    *)
(* synced, so a power loss keeps any part of it.                           *)
(***************************************************************************)
EXTENDS Naturals, FiniteSets

CONSTANTS
  SeedRuns,   \* processes that materialize the seed
  SeedFiles,  \* the files of its tree
  NoDir       \* a path that leads to nothing

ASSUME SeedFilesThere == SeedFiles # {}

VARIABLES
  seedTree,  \* the kind of each entry of the tree
  seedCache, \* what is at the cache path: NoDir or a directory
  seedRun,   \* the state of each process
  seedTorn   \* history: who made the published trees that then lost something

seedVars == <<seedTree, seedCache, seedRun, seedTorn>>

(* A directory of the cache: the files of tree/, whether .complete is      *)
(* there, and who made it.                                                 *)
SeedDir == [files : SUBSET SeedFiles, marker : BOOLEAN, by : SeedRuns \cup {NoDir}]

ASSUME NoDirIsNone == NoDir \notin SeedRuns \cup SeedDir

EntryKinds == {"file", "inner link", "outer link", "special"}

NewSeedRun == [at |-> "create", pulls |-> 0, staging |-> NoDir, target |-> NoDir,
               torn |-> FALSE, todo |-> {}, workspace |-> {}]

(* A cache that an earlier, interrupted removal left has no marker.        *)
SeedInit ==
  /\ seedTree \in [SeedFiles -> EntryKinds]
  /\ seedCache \in {NoDir} \cup {d \in SeedDir : ~d.marker /\ d.by = NoDir}
  /\ seedRun = [p \in SeedRuns |-> NewSeedRun]
  /\ seedTorn = {}

SeedAt(p, where) == seedRun[p].at = where
SeedEnded == {"done", "failed", "killed"}

SeedBecomes(p, new) ==
  seedRun' = [seedRun EXCEPT ![p] = [f \in DOMAIN NewSeedRun |->
                IF f \in DOMAIN new THEN new[f] ELSE seedRun[p][f]]]

(* Somebody else is removing what is at the path.                          *)
BeingRemoved(p) == seedCache # NoDir /\
  \E q \in SeedRuns \ {p} : SeedAt(q, "removing") /\ seedRun[q].target = seedCache.by

-----------------------------------------------------------------------------
(* create: a fresh directory of the run's own, and where its tree comes    *)
(* from; a Task with neither source is an error.                           *)
SeedCreate(p) ==
  /\ SeedAt(p, "create")
  /\ \E from \in {"public", "inspect", "failed"} : SeedBecomes(p, [at |-> from])
  /\ UNCHANGED <<seedTree, seedCache, seedTorn>>

(* copy_tree takes regular files only.                                     *)
CopyPublic(p) ==
  /\ SeedAt(p, "public")
  /\ IF \A f \in SeedFiles : seedTree[f] = "file"
       THEN SeedBecomes(p, [at |-> "done", workspace |-> SeedFiles])
       ELSE SeedBecomes(p, [at |-> "failed"])
  /\ UNCHANGED <<seedTree, seedCache, seedTorn>>

SeedPullAttempts == 3

(* docker image inspect, and retry_image_pull when there is no image.      *)
SeedInspect(p) ==
  /\ SeedAt(p, "inspect")
  /\ \/ SeedBecomes(p, [at |-> "check", pulls |-> 0])
     \/ /\ seedRun[p].pulls < SeedPullAttempts
        /\ SeedBecomes(p, [pulls |-> seedRun[p].pulls + 1])
     \/ SeedBecomes(p, [at |-> "failed"])
  /\ UNCHANGED <<seedTree, seedCache, seedTorn>>

(* is_real_directory; that the path is no link is taken for granted.       *)
RealDirectory == seedCache # NoDir

(* Mutated form: a directory with a tree is good enough.                   *)
TreeIsThere == RealDirectory

(* valid_seed_cache: the marker of this seed beside a tree.                *)
ValidSeedCache == RealDirectory /\ seedCache.marker

(* Its answer when nobody interferes; a marker that vanishes between the   *)
(* look and the read is an error.                                          *)
SeedCheck(p) ==
  /\ SeedAt(p, "check")
  /\ \/ SeedBecomes(p, [at |-> IF ValidSeedCache THEN "clone" ELSE "invalid"])
     \/ BeingRemoved(p) /\ SeedBecomes(p, [at |-> "failed"])
  /\ UNCHANGED <<seedTree, seedCache, seedTorn>>

(* The trees torn once the one at the path loses an entry.                 *)
TornNow == seedTorn \cup ({seedCache.by} \ {NoDir})

(* is_real_directory, then remove_dir_all of whatever is there by now:     *)
(* another run may have published a whole tree since the check.            *)
SeedDiscard(p) ==
  /\ SeedAt(p, "invalid")
  /\ IF seedCache = NoDir
       THEN SeedBecomes(p, [at |-> "stage"]) /\ UNCHANGED seedTorn
       ELSE /\ SeedBecomes(p, [at |-> "removing", target |-> seedCache.by])
            /\ seedTorn' = TornNow
  /\ UNCHANGED <<seedTree, seedCache>>

(* One entry goes; the directory goes when it is empty.  A directory that  *)
(* is gone, or is another one by now, may or may not be an error.          *)
SeedRemove(p) ==
  /\ SeedAt(p, "removing")
  /\ IF seedCache # NoDir /\ seedCache.by = seedRun[p].target
       THEN \/ \E f \in seedCache.files :
                 /\ seedCache' = [seedCache EXCEPT !.files = @ \ {f}]
                 /\ UNCHANGED seedRun
            \/ /\ seedCache.marker
               /\ seedCache' = [seedCache EXCEPT !.marker = FALSE]
               /\ UNCHANGED seedRun
            \/ /\ seedCache.files = {} /\ ~seedCache.marker
               /\ seedCache' = NoDir
               /\ SeedBecomes(p, [at |-> "stage"])
       ELSE /\ \E next \in {"stage", "failed"} : SeedBecomes(p, [at |-> next])
            /\ UNCHANGED seedCache
  /\ UNCHANGED <<seedTree, seedTorn>>

SeedWhole(p) == [files |-> SeedFiles, marker |-> TRUE, by |-> p]

SeedStages(p, next, new) ==
  SeedBecomes(p, [at |-> next, staging |-> new])

(* After an error of populate_seed_staging the staging directory goes.     *)
SeedUnstage(p) == SeedStages(p, "failed", NoDir)

(* create_unique_staging_directory and docker create.                      *)
SeedStage(p) ==
  /\ SeedAt(p, "stage")
  /\ SeedStages(p, "extract", [SeedWhole(p) EXCEPT !.files = {}, !.marker = FALSE]) \/ SeedUnstage(p)
  /\ UNCHANGED <<seedTree, seedCache, seedTorn>>

(* Mutated form: the error of the archive pipeline is dropped.             *)
ExtractAnyway(p) ==
  /\ SeedAt(p, "extract")
  /\ \E got \in SUBSET SeedFiles :
       SeedStages(p, "harden", [seedRun[p].staging EXCEPT !.files = got])
  /\ UNCHANGED <<seedTree, seedCache, seedTorn>>

(* extract_seed_tree: all of the tree or an error (module WorkspaceExport  *)
(* has the pipeline); the container is removed either way.                 *)
SeedExtract(p) ==
  /\ SeedAt(p, "extract")
  /\ SeedStages(p, "harden", [seedRun[p].staging EXCEPT !.files = SeedFiles]) \/ SeedUnstage(p)
  /\ UNCHANGED <<seedTree, seedCache, seedTorn>>

(* validate_seed_symlink: relative, resolvable, and within the tree.       *)
LinkStaysInside(f) == seedTree[f] # "outer link"

(* set_tree_owner_only refuses special files and links that lead out.      *)
SeedHarden(p) ==
  /\ SeedAt(p, "harden")
  /\ IF \A f \in seedRun[p].staging.files : LinkStaysInside(f) /\ seedTree[f] # "special"
       THEN SeedStages(p, "mark", seedRun[p].staging)
       ELSE SeedUnstage(p)
  /\ UNCHANGED <<seedTree, seedCache, seedTorn>>

(* secure_atomic_write of .complete.                                       *)
SeedMark(p) ==
  /\ SeedAt(p, "mark")
  /\ SeedStages(p, "publish", [seedRun[p].staging EXCEPT !.marker = TRUE]) \/ SeedUnstage(p)
  /\ UNCHANGED <<seedTree, seedCache, seedTorn>>

(* rename(2) replaces nothing, or an empty directory.                      *)
SeedPublish(p) ==
  /\ SeedAt(p, "publish")
  /\ IF seedCache = NoDir \/ (seedCache.files = {} /\ ~seedCache.marker)
       THEN /\ seedCache' = seedRun[p].staging
            /\ SeedBecomes(p, [at |-> "clone", staging |-> NoDir])
       ELSE SeedBecomes(p, [at |-> "recheck"]) /\ UNCHANGED seedCache
  /\ UNCHANGED <<seedTree, seedTorn>>

(* The rename failed: another run's cache will do.  The error of this      *)
(* check returns at once and leaves the staging directory behind.          *)
SeedRecheck(p) ==
  /\ SeedAt(p, "recheck")
  /\ \/ SeedBecomes(p, [at |-> IF ValidSeedCache THEN "clone" ELSE "failed", staging |-> NoDir])
     \/ BeingRemoved(p) /\ SeedBecomes(p, [at |-> "failed"])
  /\ UNCHANGED <<seedTree, seedCache, seedTorn>>

(* clone_tree: cp -a lists the directory and copies what it listed; `torn` *)
(* is history: what it lists has lost something by then.                   *)
SeedList(p) ==
  /\ SeedAt(p, "clone")
  /\ IF seedCache = NoDir THEN SeedBecomes(p, [at |-> "failed"])
     ELSE SeedBecomes(p, [at |-> "copy", torn |-> seedCache.by \in seedTorn, todo |-> seedCache.files])
  /\ UNCHANGED <<seedTree, seedCache, seedTorn>>

SeedCopy(p) ==
  /\ SeedAt(p, "copy")
  /\ IF seedRun[p].todo = {} THEN SeedBecomes(p, [at |-> "done"])
     ELSE \E f \in seedRun[p].todo :
            IF seedCache # NoDir /\ f \in seedCache.files
            THEN SeedBecomes(p, [todo |-> seedRun[p].todo \ {f},
                                 workspace |-> seedRun[p].workspace \cup {f}])
            ELSE SeedBecomes(p, [at |-> "failed"])
  /\ UNCHANGED <<seedTree, seedCache, seedTorn>>

(* A killed process leaves its staging directory; its name is never used   *)
(* again.                                                                  *)
SeedKill(p) ==
  /\ seedRun[p].at \notin SeedEnded
  /\ SeedBecomes(p, [at |-> "killed", staging |-> NoDir, todo |-> {}])
  /\ UNCHANGED <<seedTree, seedCache, seedTorn>>

(* The marker was synced, the tree and the rename were not.  The runs die, *)
(* those that have not begun come after the reboot.                        *)
SeedPowerLoss ==
  /\ \/ seedCache' = NoDir /\ UNCHANGED seedTorn
     \/ /\ seedCache # NoDir
        /\ \E kept \in SUBSET seedCache.files :
             /\ seedCache' = [seedCache EXCEPT !.files = kept]
             /\ seedTorn' = IF kept = seedCache.files THEN seedTorn ELSE TornNow
  /\ seedRun' = [p \in SeedRuns |->
       IF seedRun[p].at \in SeedEnded \cup {"create"} THEN seedRun[p] ELSE [NewSeedRun EXCEPT !.at = "killed"]]
  /\ UNCHANGED seedTree

SeedStep(p) ==
  \/ SeedCreate(p) \/ CopyPublic(p) \/ SeedInspect(p) \/ SeedCheck(p) \/ SeedDiscard(p) \/ SeedRemove(p)
  \/ SeedStage(p) \/ SeedExtract(p) \/ SeedHarden(p) \/ SeedMark(p)
  \/ SeedPublish(p) \/ SeedRecheck(p) \/ SeedList(p) \/ SeedCopy(p) \/ SeedKill(p)

SeedNext == (\E p \in SeedRuns : SeedStep(p)) \/ SeedPowerLoss

-----------------------------------------------------------------------------
(* A run that succeeds has the whole tree in its workspace, unless the     *)
(* tree had been torn before it was listed: another run had begun to       *)
(* remove it, taking it for the invalid one that was there before, or a    *)
(* power loss had taken files from beside its synced marker.  A tree torn  *)
(* while it is copied makes the run fail.  A marked cache is whole under   *)
(* the same condition, so what is published after that is as good as ever, *)
(* whoever was killed at whatever point.  A run that fails leaves no       *)
(* staging directory as long as no tree was torn.  Nothing that leads out  *)
(* of the tree or is no plain entry ever gets into a workspace.            *)
SeedIsWhole ==
  /\ \A p \in SeedRuns :
       /\ \A f \in seedRun[p].workspace : seedTree[f] \notin {"outer link", "special"}
       /\ SeedAt(p, "done") => seedRun[p].workspace = SeedFiles \/ seedRun[p].torn
       /\ SeedAt(p, "failed") => seedRun[p].staging = NoDir \/ seedTorn # {}
  /\ seedCache # NoDir =>
       (seedCache.marker => seedCache.files = SeedFiles \/ seedCache.by \in seedTorn)
=============================================================================
