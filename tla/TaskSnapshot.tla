---------------------------- MODULE TaskSnapshot ----------------------------
(***************************************************************************)
(* The capture of a Task's source directory (src/src/task_snapshot.rs): it *)
(* is listed and digested file by file, copied file by file, listed and    *)
(* digested again, and published under its digest.  An editor creates,     *)
(* changes and removes files meanwhile; a content does not come back.      *)
(* One listing of a directory is one step.                                 *)
(***************************************************************************)
EXTENDS Naturals, FiniteSets

CONSTANTS
  SnapRuns,   \* processes that capture the Task
  SnapFiles,  \* names in its source directory
  Contents,   \* a file is in turn: not there (0), 1 .. Contents, removed
  MaxTrees    \* trees the source directory is at most edited through

ASSUME SnapBounds == Contents \in Nat \ {0} /\ MaxTrees \in Nat

VARIABLES
  snapSource, \* the state of each name in the source directory
  snapPast,   \* history: the trees the source directory has been
  snapStore,  \* the published snapshots
  snapSafe,   \* those a power loss cannot undo
  snapRun     \* the state of each process

snapVars == <<snapSource, snapPast, snapStore, snapSafe, snapRun>>

There(v) == v \in 1 .. Contents

(* collect: the names that are there, all regular files.                   *)
CollectedFiles(source) == {f \in SnapFiles : There(source[f])}

(* A tree is its names with their contents; its digest is the tree.        *)
TreeOf(source) == [f \in CollectedFiles(source) |-> source[f]]

NoTree == [f \in {} |-> 0]
NewSnapRun == [at |-> "list", files |-> {}, todo |-> {}, digest |-> NoTree, copy |-> NoTree,
               synced |-> FALSE]

SnapInit ==
  /\ snapSource \in [SnapFiles -> {0, 1}]
  /\ CollectedFiles(snapSource) # {}
  /\ snapPast = {TreeOf(snapSource)}
  /\ snapStore = {}
  /\ snapSafe = {}
  /\ snapRun = [p \in SnapRuns |-> NewSnapRun]

SnapAt(p, where) == snapRun[p].at = where
SnapBecomes(p, new) ==
  snapRun' = [snapRun EXCEPT ![p] = [f \in DOMAIN NewSnapRun |->
                IF f \in DOMAIN new THEN new[f] ELSE snapRun[p][f]]]
SnapFails(p) == SnapBecomes(p, [NewSnapRun EXCEPT !.at = "failed"])

With(tree, f, v) == [g \in DOMAIN tree \cup {f} |-> IF g = f THEN v ELSE tree[g]]

-----------------------------------------------------------------------------
EditSource(f) ==
  /\ snapSource[f] <= Contents /\ Cardinality(snapPast) < MaxTrees
  /\ snapSource' = [snapSource EXCEPT ![f] = @ + 1]
  /\ snapPast' = snapPast \cup {TreeOf(snapSource')}
  /\ UNCHANGED <<snapStore, snapSafe, snapRun>>

SnapList(p) ==
  /\ SnapAt(p, "list")
  /\ SnapBecomes(p, [at |-> "digest", files |-> CollectedFiles(snapSource),
                     todo |-> CollectedFiles(snapSource)])
  /\ UNCHANGED <<snapSource, snapPast, snapStore, snapSafe>>

(* tree_digest reads one file after the other; one that is gone is an      *)
(* error.                                                                  *)
SnapDigest(p) ==
  /\ SnapAt(p, "digest")
  /\ IF snapRun[p].todo = {} THEN SnapBecomes(p, [at |-> "look"])
     ELSE \E f \in snapRun[p].todo :
            IF There(snapSource[f])
            THEN SnapBecomes(p, [todo |-> snapRun[p].todo \ {f},
                                 digest |-> With(snapRun[p].digest, f, snapSource[f])])
            ELSE SnapFails(p)
  /\ UNCHANGED <<snapSource, snapPast, snapStore, snapSafe>>

(* A snapshot that is already there is verified, sealed and returned.      *)
SnapLook(p) ==
  /\ SnapAt(p, "look")
  /\ IF snapRun[p].digest \in snapStore THEN SnapBecomes(p, [at |-> "done"])
     ELSE \/ SnapBecomes(p, [at |-> "copy", todo |-> snapRun[p].files])
          \/ SnapFails(p)
  /\ UNCHANGED <<snapSource, snapPast, snapStore, snapSafe>>

SnapCopy(p) ==
  /\ SnapAt(p, "copy")
  /\ IF snapRun[p].todo = {} THEN SnapBecomes(p, [at |-> "compare"])
     ELSE \E f \in snapRun[p].todo :
            IF There(snapSource[f])
            THEN SnapBecomes(p, [todo |-> snapRun[p].todo \ {f},
                                 copy |-> With(snapRun[p].copy, f, snapSource[f])])
            ELSE SnapFails(p)
  /\ UNCHANGED <<snapSource, snapPast, snapStore, snapSafe>>

(* Mutated form: only the copy is compared with the first digest.          *)
CompareCopyOnly(p) ==
  /\ SnapAt(p, "compare")
  /\ IF snapRun[p].copy = snapRun[p].digest THEN SnapBecomes(p, [at |-> "publish"]) ELSE SnapFails(p)
  /\ UNCHANGED <<snapSource, snapPast, snapStore, snapSafe>>

(* ensure_stable_generation, first half: the digest of the staged copy and *)
(* the second listing of the source.                                       *)
SnapCompare(p) ==
  /\ SnapAt(p, "compare")
  /\ IF snapRun[p].copy = snapRun[p].digest /\ snapRun[p].files = CollectedFiles(snapSource)
     THEN SnapBecomes(p, [at |-> "again", todo |-> snapRun[p].files])
     ELSE SnapFails(p)
  /\ UNCHANGED <<snapSource, snapPast, snapStore, snapSafe>>

(* Second half: the second digest of the source, file by file.             *)
SnapAgain(p) ==
  /\ SnapAt(p, "again")
  /\ IF snapRun[p].todo = {} THEN SnapBecomes(p, [at |-> "publish"])
     ELSE \E f \in snapRun[p].todo :
            IF snapSource[f] = snapRun[p].digest[f]
            THEN SnapBecomes(p, [todo |-> snapRun[p].todo \ {f}])
            ELSE SnapFails(p)
  /\ UNCHANGED <<snapSource, snapPast, snapStore, snapSafe>>

(* sync_tree and rename, or the snapshot another process put there.        *)
SnapPublish(p) ==
  /\ SnapAt(p, "publish")
  /\ \/ /\ snapStore' = snapStore \cup {snapRun[p].copy}
        /\ SnapBecomes(p, [at |-> "seal"])
     \/ SnapFails(p) /\ UNCHANGED snapStore
  /\ UNCHANGED <<snapSource, snapPast, snapSafe>>

(* Mutated form: the artifact root is not synced.                          *)
SealUnsynced(p) ==
  /\ SnapAt(p, "seal")
  /\ SnapBecomes(p, [at |-> "done", synced |-> TRUE])
  /\ UNCHANGED <<snapSource, snapPast, snapStore, snapSafe>>

(* verify, seal_tree_read_only, sync of the artifact root: every snapshot  *)
(* in it is safe from now on.                                              *)
SnapSeal(p) ==
  /\ SnapAt(p, "seal")
  /\ \/ /\ snapRun[p].digest \in snapStore
        /\ SnapBecomes(p, [at |-> "done", synced |-> TRUE])
        /\ snapSafe' = snapStore
     \/ SnapFails(p) /\ UNCHANGED snapSafe
  /\ UNCHANGED <<snapSource, snapPast, snapStore>>

SnapKill(p) ==
  /\ snapRun[p].at \notin {"done", "failed"}
  /\ SnapFails(p)
  /\ UNCHANGED <<snapSource, snapPast, snapStore, snapSafe>>

(* Every process ends; what no sync of the root has covered may be gone.   *)
SnapPowerLoss ==
  /\ snapStore # snapSafe
  /\ \E kept \in SUBSET snapStore : snapSafe \subseteq kept /\ snapStore' = kept /\ snapSafe' = kept
  /\ snapRun' = [p \in SnapRuns |->
       IF SnapAt(p, "done") THEN snapRun[p] ELSE [NewSnapRun EXCEPT !.at = "failed"]]
  /\ UNCHANGED <<snapSource, snapPast>>

SnapStep(p) ==
  \/ SnapList(p) \/ SnapDigest(p) \/ SnapLook(p) \/ SnapCopy(p) \/ SnapCompare(p)
  \/ SnapAgain(p) \/ SnapPublish(p) \/ SnapSeal(p) \/ SnapKill(p)

SnapNext ==
  \/ \E p \in SnapRuns : SnapStep(p)
  \/ \E f \in SnapFiles : EditSource(f)
  \/ SnapPowerLoss

SnapSpec == SnapInit /\ [][SnapNext]_snapVars

-----------------------------------------------------------------------------
(* Whatever is edited between the reads of a capture, a published snapshot *)
(* is a tree the source directory was as a whole at some instant; and a    *)
(* capture that returned after the sync of the artifact root has its       *)
(* snapshot for ever, power losses included.  (The early return for a      *)
(* snapshot that is already there does not sync and promises less.)        *)
SnapshotIsTrue ==
  /\ snapStore \subseteq snapPast
  /\ \A p \in SnapRuns : SnapAt(p, "done") /\ snapRun[p].synced => snapRun[p].digest \in snapStore
=============================================================================
