----------------------------- MODULE HostProofs -----------------------------
(***************************************************************************)
(* Proofs about what the runs of one host share, for every number of       *)
(* processes, files, versions and homes: the cache of Codex packages, the  *)
(* private homes, the seed cache, the cache of OCI assets, the locks that  *)
(* the runs are given, the snapshots of Task sources, and the copies that  *)
(* are made of package trees.                                              *)
(***************************************************************************)
EXTENDS PackageCache, PrivateHomes, SeedCache, AssetCache, TaskSnapshot, PackageTree,
        Locks, Loops

-----------------------------------------------------------------------------
(* The cache of Codex packages.                                            *)
PkgSpec == PkgInit /\ [][PkgNext]_pkgVars

PkgAts == {"start", "look", "absent", "stage", "publish", "verify", "reseal", "sealed", "metadata",
           "mounted", "done", "failed", "refused", "unsealed", "unavailable"}

PkgRunStates == [at : PkgAts, digest : PkgVersions, loads : BOOLEAN]

PkgTypes ==
  /\ pkgSource \in PkgVersions
  /\ pkgTree \in [PkgVersions -> {"absent", "sealed", "drifted"}]
  /\ pkgMeta \subseteq PkgVersions
  /\ pkgLocked \subseteq pkgMeta
  /\ pkgRun \in [PkgRuns -> PkgRunStates]

(* From its verification on, a command's package stays until the power     *)
(* fails, which ends the command.                                          *)
PkgHolding == {"verify", "reseal", "sealed", "metadata", "done", "mounted"}

PkgInv ==
  /\ PkgTypes
  /\ \A p \in PkgRuns : pkgRun[p].at \in PkgHolding => pkgTree[pkgRun[p].digest] # "absent"
  /\ "lost" \notin pkgPast => \A v \in pkgMeta : pkgTree[v] # "absent"
  /\ "lost" \notin pkgPast => \A p \in PkgRuns : pkgRun[p].at # "unavailable"
  /\ "drifted" \notin pkgPast => \A v \in PkgVersions : pkgTree[v] # "drifted"
  /\ "drifted" \notin pkgPast => \A p \in PkgRuns : pkgRun[p].at # "unsealed"

(* A step of one command that leaves every package in its place.           *)
LEMMA PkgStepKeeps ==
  ASSUME PkgInv, NEW p \in PkgRuns, NEW new, pkgRun' = [pkgRun EXCEPT ![p] = new],
         new \in PkgRunStates,
         UNCHANGED <<pkgSource, pkgPast>>,
         pkgTree' \in [PkgVersions -> {"absent", "sealed", "drifted"}],
         \A v \in PkgVersions : pkgTree[v] # "absent" => pkgTree'[v] # "absent",
         \A v \in PkgVersions : pkgTree'[v] = "drifted" => pkgTree[v] = "drifted",
         pkgMeta' \subseteq pkgMeta \cup {v \in PkgVersions : pkgTree[v] # "absent"},
         pkgMeta \subseteq pkgMeta', pkgLocked' \subseteq pkgMeta',
         new.at \in PkgHolding => pkgTree'[new.digest] # "absent",
         new.at = "unavailable" => "lost" \in pkgPast,
         new.at = "unsealed" => "drifted" \in pkgPast
  PROVE  PkgInv'
<1>1. pkgRun'[p] = new /\ \A q \in PkgRuns : q # p => pkgRun'[q] = pkgRun[q]
  BY DEF PkgInv, PkgTypes
<1>2. PkgTypes'
  BY DEF PkgInv, PkgTypes
<1>3. \A q \in PkgRuns : pkgRun'[q].at \in PkgHolding => pkgTree'[pkgRun'[q].digest] # "absent"
  BY <1>1 DEF PkgInv, PkgTypes, PkgRunStates
<1>4. "lost" \notin pkgPast' => \A v \in pkgMeta' : pkgTree'[v] # "absent"
  BY DEF PkgInv, PkgTypes
<1> QED
  BY <1>1, <1>2, <1>3, <1>4 DEF PkgInv

LEMMA PkgStepInv == ASSUME PkgInv, NEW p \in PkgRuns, PkgStep(p) PROVE PkgInv'
<1> DEFINE digest == pkgRun[p].digest
           goes(where) == [pkgRun[p] EXCEPT !.at = where]
<1>1. /\ digest \in PkgVersions /\ PkgTypes
      /\ pkgRun[p] \in PkgRunStates
      /\ \A where \in PkgAts :
           /\ goes(where) \in PkgRunStates
           /\ goes(where).at = where /\ goes(where).digest = digest
      /\ pkgRun[p].at \in PkgHolding => pkgTree[digest] # "absent"
      /\ pkgTree[digest] \in {"absent", "sealed", "drifted"}
      /\ "drifted" \notin pkgPast => pkgTree[digest] # "drifted"
  BY DEF PkgInv, PkgTypes, PkgRunStates
<1>2. ASSUME NEW where \in PkgAts, PkgGoes(p, where),
             UNCHANGED <<pkgSource, pkgTree, pkgMeta, pkgLocked, pkgPast>>,
             where \in PkgHolding => pkgTree[digest] # "absent",
             where = "unavailable" => "lost" \in pkgPast,
             where = "unsealed" => "drifted" \in pkgPast
      PROVE  PkgInv'
  <2>1. pkgRun' = [pkgRun EXCEPT ![p] = goes(where)]
    BY <1>2 DEF PkgGoes
  <2> HIDE DEF goes, digest
  <2> QED
    BY <1>1, <1>2, <2>1, PkgStepKeeps DEF PkgTypes
<1>3. CASE PrepareVerify(p)
  <2>1. CASE PkgGoes(p, "failed")
    BY <1>2, <1>3, <2>1 DEF PrepareVerify, PkgHolding, PkgAts
  <2>2. CASE pkgRun' = [pkgRun EXCEPT ![p].at = "look", ![p].digest = pkgSource]
    <3> DEFINE new == [pkgRun[p] EXCEPT !.at = "look", !.digest = pkgSource]
    <3>1. /\ new \in PkgRunStates
          /\ new.at = "look" /\ pkgRun' = [pkgRun EXCEPT ![p] = new]
      <4>1. pkgRun' = [pkgRun EXCEPT ![p] = new]
        BY <1>1, <2>2, Zenon DEF PkgTypes
      <4>2. new \in PkgRunStates /\ new.at = "look"
        BY <1>1 DEF PkgTypes, PkgRunStates, PkgAts
      <4> QED
        BY ONLY <4>1, <4>2
    <3> HIDE DEF new, digest, goes
    <3> QED
      BY <1>1, <1>3, <3>1, PkgStepKeeps DEF PrepareVerify, PkgHolding, PkgTypes
  <2> QED
    BY <1>3, <2>1, <2>2 DEF PrepareVerify
<1>4. CASE PrepareLook(p) \/ PrepareEnsure(p) \/ PrepareStage(p) \/ VerifyRoot(p)
  <2>1. PICK where \in PkgAts :
          /\ PkgGoes(p, where) /\ UNCHANGED <<pkgSource, pkgTree, pkgMeta, pkgLocked, pkgPast>>
          /\ where \in PkgHolding => pkgTree[digest] # "absent"
          /\ where \notin {"unavailable", "unsealed"}
    BY <1>4 DEF PkgAts, PrepareLook, PrepareEnsure, PrepareStage, VerifyRoot, PkgDigest, PkgHolding
  <2> QED
    BY <1>2, <2>1
<1>5. CASE PreparePublish(p) \/ ResealTree(p)
  <2> DEFINE tree == IF PkgAt(p, "publish") /\ pkgTree[digest] # "absent" THEN pkgTree[digest] ELSE "sealed"
  <2>1. PICK where \in {"verify", "sealed"} :
          /\ pkgRun' = [pkgRun EXCEPT ![p] = goes(where)]
          /\ pkgTree' = [pkgTree EXCEPT ![digest] = tree]
          /\ UNCHANGED <<pkgSource, pkgMeta, pkgLocked, pkgPast>>
    BY <1>1, <1>5 DEF PreparePublish, ResealTree, PkgGoes, PkgDigest, PkgAt
  <2>2. tree \in {"sealed", pkgTree[digest]} /\ tree # "absent"
    OBVIOUS
  <2> HIDE DEF tree
  <2>3. /\ pkgTree' \in [PkgVersions -> {"absent", "sealed", "drifted"}] /\ pkgTree'[digest] # "absent"
        /\ \A v \in PkgVersions : pkgTree[v] # "absent" => pkgTree'[v] # "absent"
        /\ \A v \in PkgVersions : pkgTree'[v] = "drifted" => pkgTree[v] = "drifted"
    BY <1>1, <2>1, <2>2 DEF PkgTypes
  <2>4. goes(where) \in PkgRunStates
        /\ goes(where).at = where /\ goes(where).digest = digest
    BY <1>1, <2>1 DEF PkgAts
  <2> HIDE DEF digest, goes
  <2> QED
    BY <1>1, <2>1, <2>3, <2>4, PkgStepKeeps DEF PkgTypes
<1>6. CASE VerifySealed(p) \/ MountPackage(p)
  <2>1. PICK where \in PkgAts :
          /\ PkgGoes(p, where) /\ UNCHANGED <<pkgSource, pkgTree, pkgMeta, pkgLocked, pkgPast>>
          /\ where \in PkgHolding => pkgTree[digest] # "absent"
          /\ where # "unavailable"
          /\ where = "unsealed" => "drifted" \in pkgPast
    BY <1>1, <1>6 DEF PkgAts, VerifySealed, MountPackage, PkgDigest, PkgHolding, PkgAt
  <2> QED
    BY <1>2, <2>1
<1>7. CASE WriteMetadata(p)
  <2>1. PICK where \in {"done", "failed"} :
          /\ pkgRun' = [pkgRun EXCEPT ![p] = goes(where)]
          /\ UNCHANGED <<pkgSource, pkgTree, pkgPast>>
          /\ \/ /\ pkgMeta' = pkgMeta \cup {digest}
                /\ pkgLocked' \in {pkgLocked, pkgLocked \cup {digest}}
             \/ UNCHANGED <<pkgMeta, pkgLocked>>
    BY <1>7 DEF WriteMetadata, PkgGoes, PkgDigest
  <2>2. pkgTree[digest] # "absent"
    BY <1>1, <1>7 DEF WriteMetadata, PkgAt, PkgHolding
  <2>3. goes(where) \in PkgRunStates
        /\ goes(where).at = where /\ goes(where).digest = digest
    BY <1>1, <2>1 DEF PkgAts
  <2>4. /\ pkgMeta' \subseteq pkgMeta \cup {v \in PkgVersions : pkgTree[v] # "absent"}
        /\ pkgMeta \subseteq pkgMeta' /\ pkgLocked' \subseteq pkgMeta'
    BY <1>1, <2>1, <2>2 DEF PkgTypes
  <2> HIDE DEF digest, goes
  <2> QED
    BY <1>1, <2>1, <2>2, <2>3, <2>4, PkgStepKeeps DEF PkgTypes
<1>8. CASE LoadCached(p)
  <2>1. PICK v \in pkgLocked : pkgRun' = [pkgRun EXCEPT ![p] =
           [at |-> IF pkgTree[v] # "absent" /\ v \in pkgMeta THEN "verify" ELSE "unavailable",
            digest |-> v, loads |-> TRUE]]
    BY <1>8 DEF LoadCached
  <2> DEFINE new == [at |-> IF pkgTree[v] # "absent" /\ v \in pkgMeta THEN "verify" ELSE "unavailable",
                     digest |-> v, loads |-> TRUE]
  <2>2. v \in pkgMeta /\ v \in PkgVersions /\ ("lost" \notin pkgPast => pkgTree[v] # "absent")
    BY <2>1 DEF PkgInv, PkgTypes
  <2>3. /\ new \in PkgRunStates
        /\ new.at \in PkgHolding => pkgTree[new.digest] # "absent"
        /\ new.at = "unavailable" => "lost" \in pkgPast
        /\ new.at # "unsealed" /\ pkgRun' = [pkgRun EXCEPT ![p] = new]
    BY <2>1, <2>2 DEF PkgHolding, PkgRunStates, PkgAts
  <2> HIDE DEF new, digest, goes
  <2> QED
    BY <1>1, <1>8, <2>3, PkgStepKeeps DEF LoadCached, PkgTypes
<1>9. CASE KillPackage(p)
  <2>1. NewPkgRun \in PkgRunStates /\ NewPkgRun.at = "start"
    BY <1>1 DEF NewPkgRun, PkgRunStates, PkgAts
  <2> HIDE DEF digest, goes
  <2> QED
    BY <1>1, <1>9, <2>1, PkgStepKeeps DEF KillPackage, PkgHolding, PkgTypes
<1> HIDE DEF goes, digest
<1> QED
  BY <1>3, <1>4, <1>5, <1>6, <1>7, <1>8, <1>9 DEF PkgStep

LEMMA PkgIsInv == PkgSpec => []PkgInv
<1>1. ASSUME pkgSource \in PkgVersions
      PROVE  /\ NewPkgRun \in PkgRunStates
             /\ NewPkgRun.at = "start"
  BY <1>1 DEF NewPkgRun, PkgRunStates, PkgAts
<1>2. PkgInit => PkgInv
  BY <1>1 DEF PkgInit, PkgInv, PkgTypes, PkgHolding
<1>3. ASSUME PkgInv, [PkgNext]_pkgVars PROVE PkgInv'
  <2>1. ASSUME NEW p \in PkgRuns, PkgStep(p) PROVE PkgInv'
    BY <1>3, <2>1, PkgStepInv
  <2>2. CASE UpgradeCodex
    BY <1>3, <2>2 DEF UpgradeCodex, PkgInv, PkgTypes
  <2>3. CASE PackagePowerLoss
    <3>1. pkgSource \in PkgVersions
      BY <1>3 DEF PkgInv, PkgTypes
    <3>2. /\ "lost" \in pkgPast'
          /\ "drifted" \in pkgPast' <=> "drifted" \in pkgPast
          /\ pkgRun' = [p \in PkgRuns |-> NewPkgRun]
          /\ pkgTree' \in [PkgVersions -> {"absent", "sealed", "drifted"}]
          /\ \A v \in PkgVersions : pkgTree'[v] = "drifted" => pkgTree[v] = "drifted"
          /\ UNCHANGED <<pkgSource, pkgMeta, pkgLocked>>
      BY <1>3, <2>3 DEF PackagePowerLoss, PkgInv, PkgTypes
    <3> QED
      BY <1>1, <1>3, <3>1, <3>2 DEF PkgInv, PkgTypes, PkgHolding
  <2>4. ASSUME NEW v \in PkgVersions, DriftModes(v) PROVE PkgInv'
    BY <1>3, <2>4 DEF DriftModes, PkgInv, PkgTypes
  <2>5. CASE UNCHANGED pkgVars
    BY <1>3, <2>5 DEF pkgVars, PkgInv, PkgTypes
  <2> QED
    BY <1>3, <2>1, <2>2, <2>3, <2>4, <2>5 DEF PkgNext
<1> QED
  BY <1>2, <1>3, PTL DEF PkgSpec

(* Unless the power fails, metadata always has its package and what a lock *)
(* was made for can be loaded; and a package is found unsealed only after  *)
(* its modes were changed from outside, never because of another reseal.   *)
THEOREM LockedPackagesLoad == PkgSpec => []LockedIsLoadable
<1>1. PkgInv => LockedIsLoadable
  BY DEF PkgInv, LockedIsLoadable, PkgAt
<1> QED
  BY <1>1, PkgIsInv, PTL

-----------------------------------------------------------------------------
(* The private homes.                                                      *)
HomeSpec == HomeInit /\ [][HomeNext]_homeVars

HomeAts == {"scan", "sweep", "owned", "remove", "read", "create", "mark", "auth", "use", "undo",
            "clean", "done", "failed", "killed"}

HomeRunStates == [at : HomeAts, todo : SUBSET AllHomes, home : AllHomes \cup {NoHome}]

HomeTypes ==
  /\ homeEntries \in [AllHomes -> (SUBSET {"marker", "auth"}) \cup {NoHome}]
  /\ homeOld \subseteq AllHomes /\ homeHalf \subseteq AllHomes
  /\ homeRun \in [HomeRuns -> HomeRunStates]

(* This run is removing the home.                                          *)
Removing(q, h) == homeRun[q].at \in {"remove", "clean", "undo"} /\ homeRun[q].home = h

(* The credentials get into no home without a marker, and a marker leaves  *)
(* none but by a removal.                                                  *)
MarkedHome(h) ==
  /\ homeEntries[h] # NoHome /\ "marker" \notin homeEntries[h]
  /\ "auth" \in homeEntries[h] \/ (h \in HomeRuns /\ homeRun[h].at = "auth")
  => h \in homeHalf \/ \E q \in HomeRuns : Removing(q, h)

(* A run's own home: nobody else has a hand in it before it has its marker *)
(* and has been left alone for a day.                                      *)
OwnHome(r) ==
  /\ homeRun[r].at \in {"owned", "remove"} => homeRun[r].home \in AllHomes
  /\ homeRun[r].at = "remove" => homeRun[r].home \in homeOld
  /\ homeRun[r].at \in {"mark", "auth", "use", "undo", "clean"} => homeRun[r].home = r
  /\ homeRun[r].at \in {"scan", "sweep", "owned", "remove", "read", "create"} => homeEntries[r] = NoHome
  /\ homeRun[r].at = "mark" => homeEntries[r] = {}
  /\ homeRun[r].at \in {"scan", "sweep", "owned", "remove", "read", "create", "mark"} =>
       \A q \in HomeRuns : ~Removing(q, r)
  /\ homeRun[r].at = "auth" /\ r \notin homeOld => homeEntries[r] = {"marker"}
  /\ homeRun[r].at = "use" /\ r \notin homeOld => homeEntries[r] = {"marker", "auth"}

HomeInv ==
  /\ HomeTypes
  /\ \A h \in AllHomes : MarkedHome(h)
  /\ \A r \in HomeRuns : OwnHome(r)

(* A step that leaves the homes alone and begins or ends no removal.       *)
LEMMA HomeStill ==
  ASSUME HomeInv, NEW r \in HomeRuns, NEW new \in HomeRunStates,
         homeRun' = [homeRun EXCEPT ![r] = new], UNCHANGED <<homeEntries, homeOld, homeHalf>>,
         homeRun[r].at \notin {"remove", "clean", "undo"},
         new.at = "owned" => new.home \in AllHomes,
         new.at \notin {"remove", "mark", "auth", "use", "undo", "clean"},
         new.at \in {"scan", "sweep", "owned", "read", "create"} =>
           homeRun[r].at \in {"scan", "sweep", "owned", "read", "create"}
  PROVE  HomeInv'
<1>1. /\ homeRun'[r] = new /\ r \in AllHomes
      /\ \A q \in HomeRuns : q # r => homeRun'[q] = homeRun[q]
  BY DEF HomeInv, HomeTypes, AllHomes
<1>2. HomeTypes'
  BY DEF HomeInv, HomeTypes
<1>3. \A q \in HomeRuns, h \in AllHomes : Removing(q, h)' <=> Removing(q, h)
  BY <1>1 DEF Removing
<1>4. ASSUME NEW h \in AllHomes PROVE MarkedHome(h)'
  <2>1. homeRun'[h].at = "auth" /\ h \in HomeRuns => homeRun[h].at = "auth"
    BY <1>1
  <2> QED
    BY <1>3, <2>1 DEF HomeInv, MarkedHome
<1>5. ASSUME NEW q \in HomeRuns PROVE OwnHome(q)'
  BY <1>1, <1>3 DEF HomeInv, OwnHome, AllHomes
<1> QED
  BY <1>2, <1>4, <1>5 DEF HomeInv

LEMMA HomeStepInv == ASSUME HomeInv, NEW r \in HomeRuns, HomeStep(r) PROVE HomeInv'
<1> DEFINE goes(where) == [homeRun[r] EXCEPT !.at = where]
<1>1. /\ homeRun[r] \in HomeRunStates /\ r \in AllHomes /\ OwnHome(r) /\ HomeTypes
      /\ \A where \in HomeAts : /\ goes(where) \in HomeRunStates
                                /\ goes(where).at = where /\ goes(where).home = homeRun[r].home
  BY DEF HomeInv, HomeTypes, HomeRunStates, AllHomes
<1>2. \A where : HomeGoes(r, where) => homeRun' = [homeRun EXCEPT ![r] = goes(where)]
  BY DEF HomeGoes
<1> HIDE DEF goes
<1>3. CASE HomeScan(r)
  <2> DEFINE new == [homeRun[r] EXCEPT !.at = "sweep", !.todo = HomesThere]
  <2>1. new \in HomeRunStates /\ new.at = "sweep" /\ homeRun' = [homeRun EXCEPT ![r] = new]
    <3>1. homeRun' = [homeRun EXCEPT ![r] = new]
      BY <1>3, Zenon DEF HomeScan
    <3> DEFINE there == HomesThere
    <3>2. there \in SUBSET AllHomes
      BY DEF HomesThere
    <3> HIDE DEF there
    <3>3. new.at = "sweep" /\ new \in HomeRunStates
      BY ONLY <1>1, <3>2 DEF HomeRunStates, HomeAts, there
    <3> QED
      BY <3>1, <3>3
  <2> HIDE DEF new
  <2> QED
    BY <1>3, <2>1, HomeStill DEF HomeScan, HomeAt
<1>4. CASE HomeLook(r)
  <2>1. CASE homeRun[r].todo = {}
    BY <1>1, <1>2, <1>4, <2>1, HomeStill DEF HomeLook, HomeAt, HomeAts
  <2>2. CASE homeRun[r].todo # {}
    <3>1. PICK h \in homeRun[r].todo :
            homeRun' = [homeRun EXCEPT ![r].todo = @ \ {h}, ![r].home = h,
                          ![r].at = IF homeEntries[h] = NoHome THEN "sweep" ELSE "owned"]
      BY <1>4, <2>2 DEF HomeLook
    <3> DEFINE new == [homeRun[r] EXCEPT !.todo = @ \ {h}, !.home = h,
                          !.at = IF homeEntries[h] = NoHome THEN "sweep" ELSE "owned"]
    <3>2. /\ new \in HomeRunStates /\ new.at \in {"sweep", "owned"} /\ new.home \in AllHomes
          /\ homeRun' = [homeRun EXCEPT ![r] = new]
      <4>1. homeRun' = [homeRun EXCEPT ![r] = new]
        BY <1>1, <3>1, Zenon DEF HomeTypes
      <4>2. h \in AllHomes
        BY ONLY <1>1, h \in homeRun[r].todo DEF HomeRunStates
      <4> DEFINE where == IF homeEntries[h] = NoHome THEN "sweep" ELSE "owned"
      <4>3. where \in {"sweep", "owned"}
        OBVIOUS
      <4> HIDE DEF where
      <4>4. new.at = where /\ new.home = h /\ new \in HomeRunStates
        BY ONLY <1>1, <4>2, <4>3 DEF HomeRunStates, HomeAts, where
      <4> QED
        BY ONLY <4>1, <4>2, <4>3, <4>4
    <3> HIDE DEF new
    <3> QED
      BY <1>4, <3>2, HomeStill DEF HomeLook, HomeAt
  <2> QED
    BY <2>1, <2>2
<1>5. CASE HomeRead(r)
  BY <1>1, <1>2, <1>5, HomeStill DEF HomeRead, HomeAt, HomeAts
<1>6. CASE HomeOwned(r)
  <2> DEFINE h == homeRun[r].home
  <2>1. /\ homeRun[r].at = "owned" /\ h \in AllHomes
        /\ UNCHANGED <<homeEntries, homeOld, homeHalf>>
        /\ \/ HomeGoes(r, "failed") \/ HomeGoes(r, "sweep")
           \/ HomeGoes(r, "remove") /\ "marker" \in homeEntries[h] /\ h \in homeOld
              /\ homeEntries[h] # NoHome
    BY <1>1, <1>6 DEF HomeOwned, HomeAt, OwnHome
  <2>2. CASE HomeGoes(r, "failed") \/ HomeGoes(r, "sweep")
    BY <1>1, <1>2, <2>1, <2>2, HomeStill DEF HomeAts
  <2>3. CASE HomeGoes(r, "remove") /\ "marker" \in homeEntries[h] /\ h \in homeOld
             /\ homeEntries[h] # NoHome
    <3>1. /\ homeRun'[r].at = "remove" /\ homeRun'[r].home = h
          /\ \A q \in HomeRuns : q # r => homeRun'[q] = homeRun[q]
          /\ homeRun' \in [HomeRuns -> HomeRunStates]
      BY <1>1, <1>2, <2>3 DEF HomeTypes, HomeAts
    <3>2. \A q \in HomeRuns, g \in AllHomes :
            Removing(q, g)' <=> Removing(q, g) \/ (q = r /\ g = h)
      BY <2>1, <3>1 DEF Removing
    <3>3. HomeTypes'
      BY <1>1, <2>1, <3>1 DEF HomeTypes
    <3>4. ASSUME NEW g \in AllHomes PROVE MarkedHome(g)'
      BY <2>1, <3>1, <3>2 DEF HomeInv, MarkedHome
    <3>5. ASSUME NEW q \in HomeRuns PROVE OwnHome(q)'
      <4>1. OwnHome(q) /\ q \in AllHomes
        BY DEF HomeInv, AllHomes
      <4>2. q = h => homeRun[q].at \notin {"scan", "sweep", "owned", "remove", "read", "create", "mark"}
        BY <2>3, <4>1 DEF OwnHome
      <4> HIDE DEF h
      <4>3. CASE q = r
        BY <1>1, <2>1, <2>3, <3>1, <3>2, <4>1, <4>2, <4>3 DEF OwnHome
      <4>4. CASE q # r
        BY <2>1, <3>1, <3>2, <4>1, <4>2, <4>4 DEF OwnHome
      <4> QED
        BY <4>3, <4>4
    <3> QED
      BY <3>3, <3>4, <3>5 DEF HomeInv
  <2> QED
    BY <2>1, <2>2, <2>3
<1>7. CASE HomeRemove(r) \/ HomeUndo(r)
  <2> DEFINE h == homeRun[r].home
  <2>1. /\ Removing(r, h) /\ UNCHANGED <<homeOld, homeHalf>>
        /\ \/ /\ homeEntries' = [homeEntries EXCEPT ![h] = NoHome]
              /\ \E where \in {"sweep", "done", "failed"} :
                   /\ where = "sweep" => homeRun[r].at = "remove"
                   /\ HomeGoes(r, where)
           \/ /\ homeEntries[h] # NoHome
              /\ \E e \in homeEntries[h] : homeEntries' = [homeEntries EXCEPT ![h] = @ \ {e}]
              /\ UNCHANGED homeRun
    BY <1>1, <1>7 DEF HomeRemove, HomeUndo, HomeAt, Removing, OwnHome
  <2>2. /\ h # r \/ homeRun[r].at \in {"clean", "undo"}
        /\ h \in homeOld \/ h = r
        /\ homeEntries[h] # NoHome => homeEntries[h] \subseteq {"marker", "auth"}
    BY <1>1, <2>1 DEF OwnHome, Removing, HomeTypes
  <2>3. h \in AllHomes
    BY <1>1, <2>1 DEF OwnHome, Removing, HomeTypes
  <2> HIDE DEF h
  <2>4. PICK left \in (SUBSET {"marker", "auth"}) \cup {NoHome} :
          /\ homeEntries' = [homeEntries EXCEPT ![h] = left]
          /\ \/ /\ left = NoHome
                /\ \E where \in {"sweep", "done", "failed"} :
                     /\ where = "sweep" => homeRun[r].at = "remove"
                     /\ homeRun' = [homeRun EXCEPT ![r] = goes(where)]
             \/ left # NoHome /\ UNCHANGED homeRun
    <3>1. CASE UNCHANGED homeRun /\ homeEntries[h] # NoHome
               /\ \E e \in homeEntries[h] : homeEntries' = [homeEntries EXCEPT ![h] = @ \ {e}]
      <4>1. PICK e \in homeEntries[h] : homeEntries' = [homeEntries EXCEPT ![h] = @ \ {e}]
        BY <3>1
      <4>2. homeEntries[h] \ {e} \in SUBSET {"marker", "auth"}
        BY <2>2, <3>1
      <4>3. homeEntries[h] \ {e} # NoHome
        BY <4>2, HomesDiffer
      <4> QED
        BY <3>1, <4>1, <4>2, <4>3
    <3> QED
      BY <1>2, <2>1, <3>1
  <2>5. /\ homeEntries'[h] = left /\ \A g \in AllHomes : g # h => homeEntries'[g] = homeEntries[g]
        /\ homeEntries' \in [AllHomes -> (SUBSET {"marker", "auth"}) \cup {NoHome}]
    BY <1>1, <2>3, <2>4 DEF HomeTypes
  <2>6. /\ \A q \in HomeRuns : q # r => homeRun'[q] = homeRun[q]
        /\ homeRun' \in [HomeRuns -> HomeRunStates]
        /\ left # NoHome => homeRun' = homeRun
        /\ left = NoHome => homeRun'[r].at \in {"sweep", "done", "failed"}
        /\ homeRun'[r].at = "sweep" => homeRun[r].at = "remove"
    BY <1>1, <2>1, <2>4 DEF HomeTypes, HomeAts, Removing
  <2>7. /\ \A q \in HomeRuns, g \in AllHomes : q # r => (Removing(q, g)' <=> Removing(q, g))
        /\ \A g \in AllHomes : Removing(r, g)' => Removing(r, g)
        /\ \A g \in AllHomes : g # h => ~Removing(r, g)
        /\ left # NoHome => Removing(r, h)'
    BY <2>1, <2>6 DEF Removing, h
  <2>8. HomeTypes'
    BY <1>1, <2>1, <2>5, <2>6 DEF HomeTypes
  <2>9. ASSUME NEW g \in AllHomes PROVE MarkedHome(g)'
    <3>1. CASE g = h
      <4>1. CASE left = NoHome
        BY <2>5, <3>1, <4>1 DEF MarkedHome
      <4>2. CASE left # NoHome
        <5>1. Removing(r, g)'
          BY <2>1, <2>6, <3>1, <4>2 DEF Removing
        <5> QED
          BY <5>1 DEF MarkedHome
      <4> QED
        BY <4>1, <4>2
    <3>2. CASE g # h
      <4>1. g \in HomeRuns /\ homeRun'[g].at = "auth" => homeRun[g].at = "auth"
        BY <2>6
      <4> QED
        BY <2>1, <2>5, <2>7, <3>2, <4>1 DEF HomeInv, MarkedHome
    <3> QED
      BY <3>1, <3>2
  <2>10. ASSUME NEW q \in HomeRuns PROVE OwnHome(q)'
    <3>1. OwnHome(q) /\ q \in AllHomes
      BY DEF HomeInv, AllHomes
    <3>2. CASE q # r
      <4>1. q = h => /\ h \in homeOld
                     /\ homeRun[q].at \notin {"scan", "sweep", "owned", "remove", "read", "create", "mark"}
        BY <2>1, <2>2, <3>1, <3>2 DEF OwnHome
      <4> QED
        BY <2>1, <2>5, <2>6, <2>7, <3>1, <3>2, <4>1 DEF OwnHome
    <3>3. CASE q = r
      <4>1. homeRun[r].at = "remove" => h # r
        BY <2>1, <2>2
      <4>2. CASE left = NoHome
        BY <1>1, <2>1, <2>5, <2>6, <2>7, <3>3, <4>1, <4>2 DEF OwnHome
      <4>3. CASE left # NoHome
        BY <1>1, <2>1, <2>5, <2>6, <2>7, <3>3, <4>1, <4>3 DEF OwnHome, Removing
      <4> QED
        BY <4>2, <4>3
    <3> QED
      BY <3>2, <3>3
  <2> QED
    BY <2>8, <2>9, <2>10 DEF HomeInv
<1>8. CASE HomeCreate(r)
  <2>1. /\ homeRun[r].at = "create" /\ UNCHANGED <<homeOld, homeHalf>>
        /\ homeEntries' = [homeEntries EXCEPT ![r] = {}]
        /\ homeRun' = [homeRun EXCEPT ![r].at = "mark", ![r].home = r]
    BY <1>8 DEF HomeCreate, HomeAt
  <2> DEFINE new == [homeRun[r] EXCEPT !.at = "mark", !.home = r]
  <2>2. /\ new \in HomeRunStates /\ new.at = "mark" /\ new.home = r
        /\ homeRun' = [homeRun EXCEPT ![r] = new]
    <3>1. homeRun' = [homeRun EXCEPT ![r] = new]
      BY <1>1, <2>1, Zenon DEF HomeTypes
    <3>2. new \in HomeRunStates /\ new.at = "mark" /\ new.home = r
      BY ONLY <1>1 DEF HomeRunStates, HomeAts
    <3> QED
      BY ONLY <3>1, <3>2
  <2> HIDE DEF new
  <2>3. /\ homeRun'[r] = new /\ \A q \in HomeRuns : q # r => homeRun'[q] = homeRun[q]
        /\ homeRun' \in [HomeRuns -> HomeRunStates]
        /\ homeEntries'[r] = {} /\ \A h \in AllHomes : h # r => homeEntries'[h] = homeEntries[h]
        /\ homeEntries' \in [AllHomes -> (SUBSET {"marker", "auth"}) \cup {NoHome}]
    <3>1. /\ homeRun \in [HomeRuns -> HomeRunStates] /\ r \in AllHomes
          /\ homeEntries \in [AllHomes -> (SUBSET {"marker", "auth"}) \cup {NoHome}]
      BY <1>1 DEF HomeTypes
    <3>2. /\ homeRun'[r] = new /\ \A q \in HomeRuns : q # r => homeRun'[q] = homeRun[q]
          /\ homeRun' \in [HomeRuns -> HomeRunStates]
      BY <2>2, <3>1
    <3>3. /\ homeEntries'[r] = {} /\ \A h \in AllHomes : h # r => homeEntries'[h] = homeEntries[h]
          /\ homeEntries' \in [AllHomes -> (SUBSET {"marker", "auth"}) \cup {NoHome}]
      BY <2>1, <3>1
    <3> QED
      BY <3>2, <3>3
  <2>4. \A q \in HomeRuns, h \in AllHomes : Removing(q, h)' <=> Removing(q, h)
    BY <2>1, <2>2, <2>3 DEF Removing
  <2>5. HomeTypes'
    BY <1>1, <2>1, <2>3 DEF HomeTypes
  <2>6. ASSUME NEW h \in AllHomes PROVE MarkedHome(h)'
    <3>1. CASE h = r
      BY <2>2, <2>3, <3>1 DEF MarkedHome
    <3>2. CASE h # r
      BY <2>1, <2>3, <2>4, <3>2 DEF HomeInv, MarkedHome
    <3> QED
      BY <3>1, <3>2
  <2>7. ASSUME NEW q \in HomeRuns PROVE OwnHome(q)'
    <3>1. OwnHome(q) /\ q \in AllHomes
      BY DEF HomeInv, AllHomes
    <3>2. CASE q = r
      BY <1>1, <2>1, <2>2, <2>3, <2>4, <3>1, <3>2 DEF OwnHome
    <3>3. CASE q # r
      BY <2>1, <2>3, <2>4, <3>1, <3>3 DEF OwnHome
    <3> QED
      BY <3>2, <3>3
  <2> QED
    BY <2>5, <2>6, <2>7 DEF HomeInv
<1>9. CASE HomeMark(r) \/ HomeAuth(r) \/ HomeCleanup(r)
  <2>1. PICK where \in {"auth", "use", "undo", "done", "clean"},
             held \in (SUBSET {"marker", "auth"}) \cup {NoHome} :
          /\ homeEntries' = [homeEntries EXCEPT ![r] = held]
          /\ homeRun' = [homeRun EXCEPT ![r] = goes(where)]
          /\ UNCHANGED <<homeOld, homeHalf>>
          /\ homeRun[r].at \in {"mark", "auth", "use"}
          /\ homeEntries[r] # NoHome /\ "marker" \in homeEntries[r] => "marker" \in held
          /\ homeEntries[r] = NoHome => held = NoHome
          /\ where = "auth" => homeRun[r].at = "mark" /\ held = {"marker"}
          /\ homeRun[r].at = "mark" => held = {"marker"} \/ where = "undo"
          /\ homeRun[r].at # "auth" /\ held # NoHome /\ "auth" \in held =>
               homeEntries[r] # NoHome /\ "auth" \in homeEntries[r]
          /\ where = "use" => /\ homeRun[r].at = "auth"
                              /\ homeEntries[r] = {"marker"} => held = {"marker", "auth"}
    <3>1. homeEntries[r] \in (SUBSET {"marker", "auth"}) \cup {NoHome}
      BY <1>1 DEF HomeTypes
    <3>2. homeEntries = [homeEntries EXCEPT ![r] = homeEntries[r]]
      BY <1>1 DEF HomeTypes
    <3>3. CASE HomeMark(r)
      <4>1. homeRun[r].at = "mark" /\ homeEntries[r] = {} /\ UNCHANGED <<homeOld, homeHalf>>
        BY <1>1, <3>3 DEF HomeMark, HomeAt, OwnHome
      <4>2. \/ /\ homeEntries' = [homeEntries EXCEPT ![r] = {"marker"}]
               /\ homeRun' = [homeRun EXCEPT ![r] = goes("auth")]
            \/ /\ homeEntries' = [homeEntries EXCEPT ![r] = homeEntries[r]]
               /\ homeRun' = [homeRun EXCEPT ![r] = goes("undo")]
        BY <1>2, <3>2, <3>3, <4>1 DEF HomeMark
      <4>3. /\ "marker" \notin homeEntries[r] /\ "auth" \notin homeEntries[r]
            /\ homeEntries[r] # NoHome /\ "auth" \notin {"marker"} /\ {"marker"} # NoHome
        BY <4>1, HomesDiffer
      <4>4. CASE /\ homeEntries' = [homeEntries EXCEPT ![r] = {"marker"}]
                 /\ homeRun' = [homeRun EXCEPT ![r] = goes("auth")]
        BY <4>1, <4>3, <4>4
      <4>5. CASE /\ homeEntries' = [homeEntries EXCEPT ![r] = homeEntries[r]]
                 /\ homeRun' = [homeRun EXCEPT ![r] = goes("undo")]
        BY <3>1, <4>1, <4>3, <4>5
      <4> QED
        BY <4>2, <4>4, <4>5
    <3>4. CASE HomeAuth(r)
      <4>1. homeRun[r].at = "auth" /\ UNCHANGED <<homeOld, homeHalf>>
        BY <3>4 DEF HomeAuth, HomeAt
      <4>2. CASE /\ homeEntries[r] # NoHome
                 /\ homeEntries' = [homeEntries EXCEPT ![r] = homeEntries[r] \cup {"auth"}]
                 /\ \/ homeRun' = [homeRun EXCEPT ![r] = goes("use")]
                    \/ homeRun' = [homeRun EXCEPT ![r] = goes("undo")]
        <5> DEFINE held == homeEntries[r] \cup {"auth"}
        <5>1. held \in SUBSET {"marker", "auth"} /\ held # NoHome
          BY <3>1, <4>2, HomesDiffer
        <5>2. /\ homeEntries[r] = {"marker"} => held = {"marker", "auth"}
              /\ "marker" \in homeEntries[r] => "marker" \in held
          OBVIOUS
        <5>3. homeEntries' = [homeEntries EXCEPT ![r] = held]
          BY <4>2
        <5> HIDE DEF held
        <5> QED
          BY <4>1, <4>2, <5>1, <5>2, <5>3
      <4>3. CASE /\ homeEntries' = [homeEntries EXCEPT ![r] = homeEntries[r]]
                 /\ homeRun' = [homeRun EXCEPT ![r] = goes("undo")]
        BY <3>1, <4>1, <4>3
      <4> QED
        BY <1>2, <3>2, <3>4, <4>2, <4>3 DEF HomeAuth
    <3>5. CASE HomeCleanup(r)
      <4>1. homeRun[r].at = "use" /\ UNCHANGED <<homeEntries, homeOld, homeHalf>>
        BY <3>5 DEF HomeCleanup, HomeAt
      <4>2. \/ homeRun' = [homeRun EXCEPT ![r] = goes("done")]
            \/ homeRun' = [homeRun EXCEPT ![r] = goes("clean")]
        BY <1>2, <3>5 DEF HomeCleanup
      <4> QED
        BY <3>1, <3>2, <4>1, <4>2
    <3> QED
      BY <1>9, <3>3, <3>4, <3>5
  <2>2. /\ homeEntries'[r] = held /\ \A h \in AllHomes : h # r => homeEntries'[h] = homeEntries[h]
        /\ homeEntries' \in [AllHomes -> (SUBSET {"marker", "auth"}) \cup {NoHome}]
    BY <1>1, <2>1 DEF HomeTypes
  <2>3. /\ homeRun'[r].at = where /\ homeRun'[r].home = r
        /\ \A q \in HomeRuns : q # r => homeRun'[q] = homeRun[q]
        /\ homeRun' \in [HomeRuns -> HomeRunStates]
    <3>1. goes(where) \in HomeRunStates /\ goes(where).at = where /\ goes(where).home = r
      BY <1>1, <2>1 DEF OwnHome, HomeAts
    <3> QED
      BY <1>1, <2>1, <3>1 DEF HomeTypes
  <2>4. \A q \in HomeRuns, h \in AllHomes :
          Removing(q, h)' <=> Removing(q, h) \/ (q = r /\ h = r /\ where \in {"undo", "clean"})
    BY <2>1, <2>3 DEF Removing
  <2>5. HomeTypes'
    BY <1>1, <2>1, <2>2, <2>3 DEF HomeTypes
  <2>6. ASSUME NEW h \in AllHomes PROVE MarkedHome(h)'
    <3>1. CASE h = r
      <4>1. MarkedHome(r)
        BY <1>1 DEF HomeInv
      <4> QED
        BY <2>1, <2>2, <2>3, <2>4, <3>1, <4>1 DEF MarkedHome
    <3>2. CASE h # r
      BY <2>1, <2>2, <2>3, <2>4, <3>2 DEF HomeInv, MarkedHome
    <3> QED
      BY <3>1, <3>2
  <2>7. ASSUME NEW q \in HomeRuns PROVE OwnHome(q)'
    <3>1. OwnHome(q) /\ q \in AllHomes
      BY DEF HomeInv, AllHomes
    <3>2. CASE q = r
      BY <1>1, <2>1, <2>2, <2>3, <2>4, <3>1, <3>2 DEF OwnHome
    <3>3. CASE q # r
      BY <2>1, <2>2, <2>3, <2>4, <3>1, <3>3 DEF OwnHome
    <3> QED
      BY <3>2, <3>3
  <2> QED
    BY <2>5, <2>6, <2>7 DEF HomeInv
<1>10. CASE HomeKill(r)
  <2>1. /\ UNCHANGED <<homeEntries, homeOld>> /\ homeRun' = [homeRun EXCEPT ![r] = goes("killed")]
        /\ homeHalf' = IF homeRun[r].at \in {"remove", "clean", "undo"}
                         THEN homeHalf \cup {homeRun[r].home} ELSE homeHalf
        /\ homeRun[r].at \in {"remove", "clean", "undo"} => homeRun[r].home \in AllHomes
    BY <1>1, <1>2, <1>10 DEF HomeKill, OwnHome
  <2>2. /\ homeRun'[r].at = "killed"
        /\ \A q \in HomeRuns : q # r => homeRun'[q] = homeRun[q]
        /\ homeRun' \in [HomeRuns -> HomeRunStates]
    BY <1>1, <2>1 DEF HomeTypes, HomeAts
  <2>3. /\ \A h \in AllHomes : h \in homeHalf \/ Removing(r, h) => h \in homeHalf'
        /\ \A q \in HomeRuns, h \in AllHomes : Removing(q, h)' <=> Removing(q, h) /\ q # r
    BY <2>1, <2>2 DEF Removing
  <2>4. HomeTypes'
    BY <1>1, <2>1, <2>2 DEF HomeTypes
  <2>5. ASSUME NEW h \in AllHomes PROVE MarkedHome(h)'
    <3>1. h \in HomeRuns /\ homeRun'[h].at = "auth" => homeRun[h].at = "auth"
      BY <2>2
    <3> QED
      BY <2>1, <2>3, <3>1 DEF HomeInv, MarkedHome
  <2>6. ASSUME NEW q \in HomeRuns PROVE OwnHome(q)'
    <3>1. OwnHome(q) /\ q \in AllHomes
      BY DEF HomeInv, AllHomes
    <3> QED
      BY <2>1, <2>2, <2>3, <3>1 DEF OwnHome
  <2> QED
    BY <2>4, <2>5, <2>6 DEF HomeInv
<1> QED
  BY <1>3, <1>4, <1>5, <1>6, <1>7, <1>8, <1>9, <1>10 DEF HomeStep

LEMMA HomeIsInv == HomeSpec => []HomeInv
<1>1. HomeInit => HomeInv
  <2> SUFFICES ASSUME HomeInit PROVE HomeInv
    OBVIOUS
  <2>1. NewHomeRun \in HomeRunStates /\ NewHomeRun.at = "scan"
    BY DEF NewHomeRun, HomeRunStates, HomeAts
  <2>2. \A r \in HomeRuns : homeRun[r].at = "scan" /\ homeEntries[r] = NoHome
    BY <2>1, HomesDiffer DEF HomeInit, AllHomes
  <2>3. \A h \in AllHomes : homeEntries[h] \in {NoHome, {"marker", "auth"}}
    BY DEF HomeInit
  <2>4. HomeTypes
    <3>1. homeEntries \in [AllHomes -> (SUBSET {"marker", "auth"}) \cup {NoHome}]
      BY <2>3 DEF HomeInit
    <3> QED
      BY <2>1, <3>1 DEF HomeInit, HomeTypes, AllHomes
  <2>5. \A h \in AllHomes : MarkedHome(h)
    BY <2>3 DEF MarkedHome
  <2>6. \A r \in HomeRuns : OwnHome(r)
    BY <2>2 DEF OwnHome, Removing
  <2> QED
    BY <2>4, <2>5, <2>6 DEF HomeInv
<1>2. HomeInv /\ [HomeNext]_homeVars => HomeInv'
  <2> SUFFICES ASSUME HomeInv, [HomeNext]_homeVars PROVE HomeInv'
    OBVIOUS
  <2>1. CASE HomeDayPasses
    <3>1. UNCHANGED <<homeEntries, homeRun, homeHalf>> /\ homeOld \subseteq homeOld'
          /\ homeOld' \subseteq AllHomes
      BY <2>1 DEF HomeDayPasses, HomesThere, HomeInv, HomeTypes
    <3>2. \A q, h : Removing(q, h)' <=> Removing(q, h)
      BY <3>1 DEF Removing
    <3> QED
      BY <3>1, <3>2 DEF HomeInv, HomeTypes, MarkedHome, OwnHome
  <2>2. CASE UNCHANGED homeVars
    BY <2>2 DEF homeVars, HomeInv, HomeTypes, MarkedHome, OwnHome, Removing
  <2> QED
    BY <2>1, <2>2, HomeStepInv DEF HomeNext
<1> QED
  BY <1>1, <1>2, PTL DEF HomeSpec

(* Credentials are in a home that later sweeps recognise, but while it is  *)
(* being removed or when its removal was interrupted; and no sweep touches *)
(* the home of a living run within a day.                                  *)
THEOREM CredentialsStayOwned == HomeSpec => []CredentialsAreOwned
<1>1. HomeInv => CredentialsAreOwned
  BY DEF HomeInv, CredentialsAreOwned, MarkedHome, OwnHome, Removing, HomesThere, HomeAt
<1> QED
  BY <1>1, HomeIsInv, PTL

-----------------------------------------------------------------------------
(* The cache of seeds.                                                     *)
SeedSpec == SeedInit /\ [][SeedNext]_seedVars

SeedAts == {"create", "public", "inspect", "check", "invalid", "removing", "stage", "extract",
            "harden", "mark", "publish", "recheck", "clone", "copy", "done", "failed", "killed"}

SeedRunStates ==
  [at : SeedAts, pulls : Nat, staging : SeedDir \cup {NoDir}, target : SeedRuns \cup {NoDir},
   torn : BOOLEAN, todo : SUBSET SeedFiles, workspace : SUBSET SeedFiles]

SeedTypes ==
  /\ seedTree \in [SeedFiles -> EntryKinds]
  /\ seedCache \in SeedDir \cup {NoDir}
  /\ seedRun \in [SeedRuns -> SeedRunStates]
  /\ seedTorn \subseteq SeedRuns

PlainEntries(files) == \A f \in files : seedTree[f] \notin {"outer link", "special"}

(* The cache is not the one that was left from before.                     *)
Replaced == seedCache = NoDir \/ seedCache.by # NoDir

(* What the runs here have published is plain and, unless it has lost      *)
(* something, whole; what was there before has no marker.                  *)
CacheInv == seedCache # NoDir =>
  IF seedCache.by = NoDir THEN ~seedCache.marker
  ELSE /\ PlainEntries(seedCache.files)
       /\ seedCache.by \notin seedTorn => seedCache.marker /\ seedCache.files = SeedFiles

Staging == {"extract", "harden", "mark", "publish", "recheck"}

(* A run that finds no valid cache is past the one from before when it     *)
(* stages its own, which nobody else touches; and it removes a published   *)
(* one only when that is torn thereby.                                     *)
SeedRunInv(p) ==
  /\ seedRun[p].at \in Staging => seedRun[p].staging # NoDir /\ seedRun[p].staging.by = p
  /\ seedRun[p].at \in {"mark", "publish", "recheck"} => PlainEntries(seedRun[p].staging.files)
  /\ seedRun[p].at \in Staging \ {"extract"} => seedRun[p].staging.files = SeedFiles
  /\ seedRun[p].at \in {"publish", "recheck"} => seedRun[p].staging.marker
  /\ seedRun[p].at \notin Staging => seedRun[p].staging = NoDir \/ seedTorn # {}
  /\ seedRun[p].at \in Staging \cup {"stage", "clone", "copy"} => Replaced
  /\ seedRun[p].at = "removing" /\ seedRun[p].target # NoDir => Replaced /\ seedRun[p].target \in seedTorn
  /\ PlainEntries(seedRun[p].workspace)
  /\ seedRun[p].at = "copy" => seedRun[p].todo \cup seedRun[p].workspace = SeedFiles \/ seedRun[p].torn
  /\ seedRun[p].at = "done" => seedRun[p].workspace = SeedFiles \/ seedRun[p].torn

SeedInv == SeedTypes /\ CacheInv /\ \A p \in SeedRuns : SeedRunInv(p)

SeedFields == {"at", "pulls", "staging", "target", "torn", "todo", "workspace"}

(* What SeedBecomes does.                                                  *)
LEMMA SeedBecomesIs ==
  ASSUME SeedTypes, NEW p \in SeedRuns, NEW new, SeedBecomes(p, new)
  PROVE  /\ seedRun' = [seedRun EXCEPT ![p] = seedRun'[p]]
         /\ \A q \in SeedRuns : q # p => seedRun'[q] = seedRun[q]
         /\ seedRun'[p] = [f \in SeedFields |-> IF f \in DOMAIN new THEN new[f] ELSE seedRun[p][f]]
<1>1. seedRun' = [seedRun EXCEPT ![p] = [f \in SeedFields |-> IF f \in DOMAIN new THEN new[f] ELSE seedRun[p][f]]]
  <2>1. DOMAIN NewSeedRun = SeedFields
    BY DEF NewSeedRun, SeedFields
  <2> QED
    BY <2>1 DEF SeedBecomes
<1> QED
  BY <1>1 DEF SeedTypes

(* A record of the fields is a state when every field has its type.        *)
LEMMA SeedStateIs ==
  ASSUME NEW g, g = [f \in SeedFields |-> g[f]],
         g.at \in SeedAts, g.pulls \in Nat, g.staging \in SeedDir \cup {NoDir},
         g.target \in SeedRuns \cup {NoDir}, g.torn \in BOOLEAN,
         g.todo \in SUBSET SeedFiles, g.workspace \in SUBSET SeedFiles
  PROVE  g \in SeedRunStates
BY DEF SeedFields, SeedRunStates

LEMMA SeedStateHas ==
  ASSUME NEW g \in SeedRunStates
  PROVE  /\ g.at \in SeedAts /\ g.pulls \in Nat /\ g.staging \in SeedDir \cup {NoDir}
         /\ g.target \in SeedRuns \cup {NoDir} /\ g.torn \in BOOLEAN /\ g.todo \in SUBSET SeedFiles
         /\ g.workspace \in SUBSET SeedFiles
BY DEF SeedRunStates

(* A step of one run that leaves the cache alone.                          *)
LEMMA SeedStill ==
  ASSUME SeedInv, NEW p \in SeedRuns, seedRun'[p] \in SeedRunStates,
         seedRun' = [seedRun EXCEPT ![p] = seedRun'[p]],
         UNCHANGED <<seedTree, seedCache>>, seedTorn' \subseteq SeedRuns, seedTorn \subseteq seedTorn',
         SeedRunInv(p)'
  PROVE  SeedInv'
<1>1. SeedTypes'
  BY DEF SeedInv, SeedTypes
<1>2. CacheInv'
  <2>1. CacheInv
    BY DEF SeedInv
  <2> QED
    BY <2>1 DEF CacheInv, PlainEntries
<1>3. ASSUME NEW q \in SeedRuns, q # p PROVE SeedRunInv(q)'
  <2>1. seedRun'[q] = seedRun[q] /\ SeedRunInv(q)
    BY <1>3 DEF SeedInv, SeedTypes
  <2> DEFINE x == seedRun[q]
  <2>2. x' = x /\ Replaced' = Replaced /\ (seedTorn # {} => seedTorn' # {})
    BY <2>1 DEF Replaced
  <2> HIDE DEF x
  <2> QED
    BY ONLY <2>1, <2>2, UNCHANGED seedTree, seedTorn \subseteq seedTorn' DEF SeedRunInv, PlainEntries, x
<1> QED
  BY <1>1, <1>2, <1>3 DEF SeedInv

(* A step of one run that changes the cache.                               *)
LEMMA SeedChange ==
  ASSUME SeedInv, NEW p \in SeedRuns, seedRun'[p] \in SeedRunStates,
         seedRun' = [seedRun EXCEPT ![p] = seedRun'[p]],
         UNCHANGED <<seedTree, seedTorn>>, seedCache' \in SeedDir \cup {NoDir},
         CacheInv', SeedRunInv(p)', Replaced => Replaced'
  PROVE  SeedInv'
<1>1. SeedTypes'
  BY DEF SeedInv, SeedTypes
<1>2. ASSUME NEW q \in SeedRuns, q # p PROVE SeedRunInv(q)'
  <2>1. seedRun'[q] = seedRun[q] /\ SeedRunInv(q)
    BY <1>2 DEF SeedInv, SeedTypes
  <2> DEFINE x == seedRun[q]
  <2>2. x' = x
    BY <2>1
  <2> HIDE DEF x
  <2> QED
    BY ONLY <2>1, <2>2, UNCHANGED <<seedTree, seedTorn>>, Replaced => Replaced' DEF SeedRunInv, PlainEntries, x
<1> QED
  BY <1>1, <1>2 DEF SeedInv

(* Each step keeps the invariant.                                          *)
LEMMA SeedStepInv == ASSUME SeedInv, NEW p \in SeedRuns, SeedStep(p) PROVE SeedInv'
<1> DEFINE s == seedRun[p]
           t == seedRun'[p]
<1>1. /\ SeedTypes /\ CacheInv /\ SeedRunInv(p) /\ s \in SeedRunStates
      /\ s.at \in SeedAts /\ s.pulls \in Nat /\ s.staging \in SeedDir \cup {NoDir}
      /\ s.target \in SeedRuns \cup {NoDir} /\ s.torn \in BOOLEAN /\ s.todo \in SUBSET SeedFiles
      /\ s.workspace \in SUBSET SeedFiles
  BY SeedStateHas DEF SeedInv, SeedTypes
<1>2. ASSUME NEW new, SeedBecomes(p, new)
      PROVE  /\ seedRun' = [seedRun EXCEPT ![p] = t]
             /\ \A q \in SeedRuns : q # p => seedRun'[q] = seedRun[q]
             /\ t = [f \in SeedFields |-> t[f]]
             /\ t.at = IF "at" \in DOMAIN new THEN new.at ELSE s.at
             /\ t.pulls = IF "pulls" \in DOMAIN new THEN new.pulls ELSE s.pulls
             /\ t.staging = IF "staging" \in DOMAIN new THEN new.staging ELSE s.staging
             /\ t.target = IF "target" \in DOMAIN new THEN new.target ELSE s.target
             /\ t.torn = IF "torn" \in DOMAIN new THEN new.torn ELSE s.torn
             /\ t.todo = IF "todo" \in DOMAIN new THEN new.todo ELSE s.todo
             /\ t.workspace = IF "workspace" \in DOMAIN new THEN new.workspace ELSE s.workspace
  <2>1. /\ seedRun' = [seedRun EXCEPT ![p] = t]
        /\ \A q \in SeedRuns : q # p => seedRun'[q] = seedRun[q]
        /\ t = [f \in SeedFields |-> IF f \in DOMAIN new THEN new[f] ELSE s[f]]
    BY <1>1, <1>2, SeedBecomesIs
  <2> HIDE DEF s, t
  <2>2. \A f \in SeedFields : t[f] = IF f \in DOMAIN new THEN new[f] ELSE s[f]
    BY <2>1
  <2>3. t = [f \in SeedFields |-> t[f]]
    BY <2>1
  <2> QED
    BY <2>1, <2>2, <2>3 DEF SeedFields
<1> HIDE DEF s, t
<1>3. CASE SeedCreate(p) \/ SeedInspect(p) \/ SeedCheck(p)
  <2>1. /\ UNCHANGED <<seedTree, seedCache, seedTorn>> /\ s.at \in {"create", "inspect", "check"}
        /\ t.at \in {"public", "inspect", "check", "clone", "invalid", "failed"}
        /\ t.at = "clone" => seedCache # NoDir /\ seedCache.marker
        /\ t.pulls \in Nat /\ t.staging = s.staging /\ t.target = s.target /\ t.torn = s.torn /\ t.todo = s.todo
        /\ t.workspace = s.workspace
        /\ seedRun' = [seedRun EXCEPT ![p] = t] /\ t = [f \in SeedFields |-> t[f]]
    <3>1. CASE SeedCreate(p)
      <4>1. PICK from \in {"public", "inspect", "failed"} : SeedBecomes(p, [at |-> from])
        BY <3>1 DEF SeedCreate
      <4> QED
        BY <1>1, <3>1, <4>1, <1>2 DEF SeedCreate, SeedAt, s
    <3>2. CASE SeedInspect(p)
      <4>1. \/ SeedBecomes(p, [at |-> "check", pulls |-> 0])
            \/ SeedBecomes(p, [pulls |-> s.pulls + 1])
            \/ SeedBecomes(p, [at |-> "failed"])
        BY <3>2 DEF SeedInspect, s
      <4> QED
        BY <1>1, <3>2, <4>1, <1>2 DEF SeedInspect, SeedAt, s
    <3>3. CASE SeedCheck(p)
      <4>1. \/ SeedBecomes(p, [at |-> "clone"]) /\ ValidSeedCache
            \/ SeedBecomes(p, [at |-> "invalid"])
            \/ SeedBecomes(p, [at |-> "failed"])
        BY <3>3 DEF SeedCheck
      <4> QED
        BY <1>1, <3>3, <4>1, <1>2 DEF SeedCheck, SeedAt, s, ValidSeedCache, RealDirectory
    <3> QED
      BY <1>3, <3>1, <3>2, <3>3
  <2>2. t \in SeedRunStates
    BY <1>1, <2>1, SeedStateIs DEF SeedAts
  <2>3. SeedRunInv(p)'
    BY <1>1, <2>1 DEF SeedRunInv, PlainEntries, Replaced, CacheInv, Staging, s, t
  <2> QED
    BY <2>1, <2>2, <2>3, SeedStill DEF SeedTypes, SeedInv, t
<1>4. CASE CopyPublic(p)
  <2>1. /\ UNCHANGED <<seedTree, seedCache, seedTorn>> /\ s.at = "public"
        /\ \/ t.at = "failed" /\ t.workspace = s.workspace
           \/ t.at = "done" /\ t.workspace = SeedFiles /\ \A f \in SeedFiles : seedTree[f] = "file"
        /\ t.pulls \in Nat /\ t.staging = s.staging /\ t.target = s.target /\ t.torn = s.torn /\ t.todo = s.todo
        /\ seedRun' = [seedRun EXCEPT ![p] = t] /\ t = [f \in SeedFields |-> t[f]]
    <3>1. \/ SeedBecomes(p, [at |-> "failed"])
          \/ /\ SeedBecomes(p, [at |-> "done", workspace |-> SeedFiles])
             /\ \A f \in SeedFiles : seedTree[f] = "file"
      BY <1>4 DEF CopyPublic
    <3> QED
      BY <1>1, <1>2, <1>4, <3>1 DEF CopyPublic, SeedAt, s
  <2>2. t \in SeedRunStates
    BY <1>1, <2>1, SeedStateIs DEF SeedAts
  <2>3. SeedRunInv(p)'
    BY <1>1, <2>1 DEF SeedRunInv, PlainEntries, Replaced, Staging, s, t
  <2> QED
    BY <2>1, <2>2, <2>3, SeedStill DEF SeedTypes, SeedInv, t
<1>5. CASE SeedDiscard(p)
  <2>1. /\ UNCHANGED <<seedTree, seedCache>> /\ s.at = "invalid"
        /\ \/ t.at = "stage" /\ t.target = s.target /\ t.torn = s.torn /\ seedCache = NoDir /\ seedTorn' = seedTorn
           \/ /\ t.at = "removing" /\ t.target = seedCache.by /\ seedCache # NoDir
              /\ seedTorn' = TornNow
        /\ t.pulls \in Nat /\ t.staging = s.staging /\ t.torn = s.torn /\ t.todo = s.todo
        /\ t.workspace = s.workspace /\ seedRun' = [seedRun EXCEPT ![p] = t] /\ t = [f \in SeedFields |-> t[f]]
    <3>1. \/ SeedBecomes(p, [at |-> "stage"]) /\ seedCache = NoDir /\ UNCHANGED seedTorn
          \/ /\ SeedBecomes(p, [at |-> "removing", target |-> seedCache.by]) /\ seedCache # NoDir
             /\ seedTorn' = TornNow
      BY <1>5 DEF SeedDiscard
    <3> QED
      BY <1>1, <1>2, <1>5, <3>1 DEF SeedDiscard, SeedAt, s
  <2>2. /\ seedCache # NoDir => seedCache.by \in SeedRuns \cup {NoDir}
        /\ seedTorn' \subseteq SeedRuns /\ seedTorn \subseteq seedTorn'
    BY <1>1, <2>1 DEF SeedTypes, SeedDir, TornNow
  <2>3. t \in SeedRunStates
    BY <1>1, <2>1, <2>2, SeedStateIs DEF SeedAts
  <2>4. /\ t.at = "removing" /\ t.target # NoDir => Replaced
        /\ t.at = "removing" /\ t.target # NoDir => t.target \in seedTorn'
    BY <1>1, <2>1, <2>2 DEF CacheInv, Replaced, TornNow
  <2>5. SeedRunInv(p)'
    BY <1>1, <2>1, <2>2, <2>4 DEF SeedRunInv, PlainEntries, Replaced, Staging, s, t
  <2> QED
    BY <2>1, <2>2, <2>3, <2>5, SeedStill DEF t
<1>6. CASE SeedStage(p) \/ SeedExtract(p) \/ SeedHarden(p) \/ SeedMark(p)
  <2>1. PICK next \in {"extract", "harden", "mark", "publish", "failed"}, staging \in SeedDir \cup {NoDir} :
          /\ UNCHANGED <<seedTree, seedCache, seedTorn>>
          /\ SeedBecomes(p, [at |-> next, staging |-> staging])
          /\ s.at \in {"stage", "extract", "harden", "mark"}
          /\ next = "failed" <=> staging = NoDir
          /\ next # "failed" => staging.by = p
          /\ next \in {"harden", "mark", "publish"} => staging.files = SeedFiles
          /\ next \in {"mark", "publish"} => PlainEntries(staging.files)
          /\ next = "publish" => staging.marker
    <3>1. s.at \in Staging => s.staging \in SeedDir /\ s.staging.by = p
      BY <1>1 DEF SeedRunInv, s
    <3>2. CASE SeedStage(p)
      <4> DEFINE new == [SeedWhole(p) EXCEPT !.files = {}, !.marker = FALSE]
      <4>1. new \in SeedDir /\ new.by = p /\ new # NoDir
        BY NoDirIsNone DEF SeedWhole, SeedDir
      <4>2. SeedBecomes(p, [at |-> "extract", staging |-> new]) \/ SeedBecomes(p, [at |-> "failed", staging |-> NoDir])
        BY <3>2 DEF SeedStage, SeedStages, SeedUnstage
      <4> HIDE DEF new
      <4> QED
        BY <3>2, <4>1, <4>2 DEF SeedStage, SeedAt, s
    <3>3. CASE SeedExtract(p)
      <4> DEFINE new == [s.staging EXCEPT !.files = SeedFiles]
      <4>1. new \in SeedDir /\ new.by = p /\ new # NoDir /\ new.files = SeedFiles
        BY <3>1, <3>3, NoDirIsNone DEF SeedExtract, SeedAt, SeedDir, Staging, s
      <4>2. SeedBecomes(p, [at |-> "harden", staging |-> new]) \/ SeedBecomes(p, [at |-> "failed", staging |-> NoDir])
        BY <3>3 DEF SeedExtract, SeedStages, SeedUnstage, s
      <4> HIDE DEF new
      <4> QED
        BY <3>3, <4>1, <4>2 DEF SeedExtract, SeedAt, s
    <3>4. CASE SeedHarden(p)
      <4>1. /\ s.at = "harden" /\ s.staging \in SeedDir /\ s.staging.by = p /\ s.staging # NoDir
            /\ s.staging.files = SeedFiles
        BY <1>1, <3>1, <3>4, NoDirIsNone DEF SeedHarden, SeedAt, Staging, SeedRunInv, s
      <4>2. \/ SeedBecomes(p, [at |-> "mark", staging |-> s.staging]) /\ PlainEntries(s.staging.files)
            \/ SeedBecomes(p, [at |-> "failed", staging |-> NoDir])
        BY <3>4 DEF SeedHarden, SeedStages, SeedUnstage, LinkStaysInside, PlainEntries, s
      <4>3. UNCHANGED <<seedTree, seedCache, seedTorn>>
        BY <3>4 DEF SeedHarden
      <4>4. CASE SeedBecomes(p, [at |-> "mark", staging |-> s.staging]) /\ PlainEntries(s.staging.files)
        BY <4>1, <4>3, <4>4
      <4>5. CASE SeedBecomes(p, [at |-> "failed", staging |-> NoDir])
        BY <4>1, <4>3, <4>5
      <4> QED
        BY <4>2, <4>4, <4>5
    <3>5. CASE SeedMark(p)
      <4> DEFINE new == [s.staging EXCEPT !.marker = TRUE]
      <4>1. s.at = "mark" /\ PlainEntries(s.staging.files) /\ s.staging.files = SeedFiles
        BY <1>1, <3>5 DEF SeedMark, SeedAt, Staging, SeedRunInv, s
      <4>2. /\ new \in SeedDir /\ new.by = p /\ new # NoDir /\ new.marker
            /\ new.files = s.staging.files
        BY <3>1, <4>1, NoDirIsNone DEF SeedDir, Staging
      <4>3. SeedBecomes(p, [at |-> "publish", staging |-> new]) \/ SeedBecomes(p, [at |-> "failed", staging |-> NoDir])
        BY <3>5 DEF SeedMark, SeedStages, SeedUnstage, s
      <4> HIDE DEF new
      <4> QED
        BY <3>5, <4>1, <4>2, <4>3 DEF SeedMark
    <3> QED
      BY <1>6, <3>2, <3>3, <3>4, <3>5
  <2>2. /\ t.at = next /\ t.staging = staging
        /\ t.pulls = s.pulls /\ t.target = s.target /\ t.torn = s.torn /\ t.todo = s.todo /\ t.workspace = s.workspace
        /\ seedRun' = [seedRun EXCEPT ![p] = t] /\ t = [f \in SeedFields |-> t[f]]
    BY <1>2, <2>1
  <2>3. t \in SeedRunStates
    BY <1>1, <2>1, <2>2, SeedStateIs DEF SeedAts
  <2>4. SeedRunInv(p)'
    BY <1>1, <2>1, <2>2 DEF SeedRunInv, PlainEntries, Replaced, Staging, s, t
  <2> QED
    BY <1>1, <2>1, <2>2, <2>3, <2>4, SeedStill DEF SeedTypes, t
<1>7. CASE SeedList(p) \/ SeedCopy(p)
  <2>1. /\ UNCHANGED <<seedTree, seedCache, seedTorn>> /\ s.at \in {"clone", "copy"} /\ Replaced
        /\ seedCache # NoDir => seedCache.files = SeedFiles \/ seedCache.by \in seedTorn
        /\ s.at = "copy" => s.todo \cup s.workspace = SeedFiles \/ s.torn
        /\ s.staging = NoDir \/ seedTorn # {}
        /\ seedCache # NoDir => PlainEntries(seedCache.files) /\ seedCache.files \in SUBSET SeedFiles
        /\ PlainEntries(s.workspace)
    BY <1>1, <1>7 DEF SeedList, SeedCopy, SeedAt, SeedRunInv, Staging, CacheInv, Replaced, SeedTypes, SeedDir, s
  <2>2. /\ t.at \in {"copy", "done", "failed"} /\ t.pulls = s.pulls /\ t.staging = s.staging
        /\ t.target = s.target /\ t.todo \in SUBSET SeedFiles /\ t.workspace \in SUBSET SeedFiles
        /\ PlainEntries(t.workspace)
        /\ t.at = "copy" => t.todo \cup t.workspace = SeedFiles \/ t.torn
        /\ t.at = "done" => t.workspace = SeedFiles \/ t.torn
        /\ t.torn \in BOOLEAN
        /\ seedRun' = [seedRun EXCEPT ![p] = t] /\ t = [f \in SeedFields |-> t[f]]
    <3>1. CASE SeedList(p)
      <4>1. \/ SeedBecomes(p, [at |-> "failed"])
            \/ /\ SeedBecomes(p, [at |-> "copy", torn |-> seedCache.by \in seedTorn, todo |-> seedCache.files])
               /\ seedCache # NoDir
        BY <3>1 DEF SeedList
      <4>2. CASE SeedBecomes(p, [at |-> "failed"])
        BY <1>1, <1>2, <2>1, <4>2
      <4>3. CASE /\ SeedBecomes(p, [at |-> "copy", torn |-> seedCache.by \in seedTorn, todo |-> seedCache.files])
                 /\ seedCache # NoDir
        <5>1. /\ t.at = "copy" /\ t.torn = (seedCache.by \in seedTorn) /\ t.todo = seedCache.files
              /\ t.pulls = s.pulls /\ t.staging = s.staging /\ t.target = s.target /\ t.workspace = s.workspace
              /\ seedRun' = [seedRun EXCEPT ![p] = t] /\ t = [f \in SeedFields |-> t[f]]
          BY <1>2, <4>3
        <5>2. t.todo = SeedFiles \/ t.torn
          BY <2>1, <4>3, <5>1
        <5> QED
          BY <1>1, <2>1, <4>3, <5>1, <5>2
      <4> QED
        BY <4>1, <4>2, <4>3
    <3>2. CASE SeedCopy(p)
      <4>1. CASE s.todo = {}
        <5>1. SeedBecomes(p, [at |-> "done"]) /\ s.at = "copy"
          BY <3>2, <4>1 DEF SeedCopy, SeedAt, s
        <5> QED
          BY <1>1, <1>2, <2>1, <4>1, <5>1
      <4>2. CASE s.todo # {}
        <5>1. s.at = "copy"
          BY <3>2 DEF SeedCopy, SeedAt, s
        <5>2. PICK f \in s.todo :
                \/ /\ SeedBecomes(p, [todo |-> s.todo \ {f}, workspace |-> s.workspace \cup {f}])
                   /\ seedCache # NoDir /\ f \in seedCache.files
                \/ SeedBecomes(p, [at |-> "failed"])
          BY <3>2, <4>2 DEF SeedCopy, s
        <5>3. CASE /\ SeedBecomes(p, [todo |-> s.todo \ {f}, workspace |-> s.workspace \cup {f}])
                   /\ seedCache # NoDir /\ f \in seedCache.files
          <6>1. /\ t.at = s.at /\ t.pulls = s.pulls /\ t.staging = s.staging /\ t.target = s.target /\ t.torn = s.torn
                /\ t.todo = s.todo \ {f} /\ t.workspace = s.workspace \cup {f}
                /\ seedRun' = [seedRun EXCEPT ![p] = t] /\ t = [g \in SeedFields |-> t[g]]
            BY <1>2, <5>3
          <6>2. PlainEntries(t.workspace)
            BY <2>1, <5>3, <6>1 DEF PlainEntries
          <6> QED
            BY <1>1, <2>1, <5>1, <6>1, <6>2
        <5>4. CASE SeedBecomes(p, [at |-> "failed"])
          BY <1>1, <1>2, <2>1, <5>4
        <5> QED
          BY <5>2, <5>3, <5>4
      <4> QED
        BY <4>1, <4>2
    <3> QED
      BY <1>7, <3>1, <3>2
  <2>3. t \in SeedRunStates
    BY <1>1, <2>2, SeedStateIs DEF SeedAts
  <2>4. SeedRunInv(p)'
    BY <1>1, <2>1, <2>2 DEF SeedRunInv, PlainEntries, Replaced, Staging, s, t
  <2> QED
    BY <1>1, <2>1, <2>2, <2>3, <2>4, SeedStill DEF SeedTypes, t
<1>8. CASE SeedRecheck(p)
  <2>1. /\ UNCHANGED <<seedTree, seedCache, seedTorn>> /\ s.at = "recheck"
        /\ t.at \in {"clone", "failed"} /\ t.pulls = s.pulls /\ t.staging \in {NoDir, s.staging}
        /\ t.staging = NoDir \/ seedTorn # {}
        /\ t.target = s.target /\ t.torn = s.torn /\ t.todo = s.todo /\ t.workspace = s.workspace
        /\ seedRun' = [seedRun EXCEPT ![p] = t] /\ t = [f \in SeedFields |-> t[f]]
    <3>1. /\ UNCHANGED <<seedTree, seedCache, seedTorn>> /\ s.at = "recheck" /\ Replaced
      BY <1>1, <1>8 DEF SeedRecheck, SeedAt, SeedRunInv, Staging, s
    <3>2. \/ SeedBecomes(p, [at |-> "clone", staging |-> NoDir])
          \/ SeedBecomes(p, [at |-> "failed", staging |-> NoDir])
          \/ SeedBecomes(p, [at |-> "failed"]) /\ BeingRemoved(p)
      BY <1>8 DEF SeedRecheck
    <3>3. BeingRemoved(p) => seedTorn # {}
      <4> SUFFICES ASSUME BeingRemoved(p) PROVE seedTorn # {}
        OBVIOUS
      <4>1. PICK q \in SeedRuns : seedRun[q].at = "removing" /\ seedRun[q].target = seedCache.by
        BY DEF BeingRemoved, SeedAt
      <4>2. SeedRunInv(q) /\ seedCache # NoDir
        BY DEF SeedInv, BeingRemoved
      <4> QED
        BY <3>1, <4>1, <4>2 DEF SeedRunInv, Replaced
    <3> QED
      BY <1>2, <3>1, <3>2, <3>3
  <2>2. t \in SeedRunStates
    BY <1>1, <2>1, SeedStateIs DEF SeedAts
  <2>3. SeedRunInv(p)'
    BY <1>1, <2>1 DEF SeedRunInv, PlainEntries, Replaced, Staging, s, t
  <2> QED
    BY <1>1, <2>1, <2>2, <2>3, SeedStill DEF SeedTypes, t
<1>9. CASE SeedKill(p)
  <2>1. /\ UNCHANGED <<seedTree, seedCache, seedTorn>>
        /\ t.at = "killed" /\ t.pulls = s.pulls /\ t.staging = NoDir /\ t.target = s.target /\ t.torn = s.torn
        /\ t.todo = {} /\ t.workspace = s.workspace
        /\ seedRun' = [seedRun EXCEPT ![p] = t] /\ t = [f \in SeedFields |-> t[f]]
    BY <1>2, <1>9 DEF SeedKill
  <2>2. t \in SeedRunStates
    BY <1>1, <2>1, SeedStateIs DEF SeedAts
  <2>3. SeedRunInv(p)'
    BY <1>1, <2>1 DEF SeedRunInv, PlainEntries, Replaced, Staging, s, t
  <2> QED
    BY <1>1, <2>1, <2>2, <2>3, SeedStill DEF SeedTypes, t
<1>10. CASE SeedRemove(p)
  <2>1. /\ UNCHANGED <<seedTree, seedTorn>> /\ s.at = "removing"
        /\ s.target # NoDir => Replaced /\ s.target \in seedTorn
        /\ PlainEntries(s.workspace) /\ (s.staging = NoDir \/ seedTorn # {})
    BY <1>1, <1>10 DEF SeedRemove, SeedAt, SeedRunInv, Staging, SeedTypes, s
  <2>2. CASE seedCache # NoDir /\ seedCache.by = s.target
    <3>1. seedCache \in SeedDir
      BY <1>1, <2>2 DEF SeedTypes
    <3>2. ASSUME NEW d \in SeedDir, d.by = seedCache.by, d.files \subseteq seedCache.files,
                 d.marker => seedCache.marker, seedCache' = d, UNCHANGED seedRun
          PROVE  SeedInv'
      <4>1. d # NoDir
        BY NoDirIsNone
      <4>2. CacheInv'
        BY <1>1, <2>1, <2>2, <3>2, <4>1 DEF CacheInv, PlainEntries
      <4>3. Replaced <=> Replaced'
        BY <2>2, <3>2, <4>1 DEF Replaced
      <4>4. /\ s' = s /\ SeedRunInv(p)'
        BY <1>1, <2>1, <2>2, <3>2, <4>1, <4>3 DEF SeedRunInv, PlainEntries, s
      <4>5. seedRun' = [seedRun EXCEPT ![p] = seedRun'[p]] /\ seedRun'[p] \in SeedRunStates
        BY <1>1, <3>2 DEF SeedTypes, s
      <4> QED
        BY <2>1, <3>2, <4>1, <4>2, <4>3, <4>4, <4>5, SeedChange
    <3>3. CASE \E f \in seedCache.files : seedCache' = [seedCache EXCEPT !.files = @ \ {f}] /\ UNCHANGED seedRun
      <4>1. PICK f \in seedCache.files : seedCache' = [seedCache EXCEPT !.files = @ \ {f}] /\ UNCHANGED seedRun
        BY <3>3
      <4> DEFINE d == [seedCache EXCEPT !.files = @ \ {f}]
      <4>2. /\ d \in SeedDir /\ d.by = seedCache.by /\ d.files \subseteq seedCache.files
            /\ d.marker = seedCache.marker /\ seedCache' = d
        BY <3>1, <4>1 DEF SeedDir
      <4> HIDE DEF d
      <4> QED
        BY <3>2, <4>1, <4>2
    <3>4. CASE seedCache' = [seedCache EXCEPT !.marker = FALSE] /\ UNCHANGED seedRun
      <4> DEFINE d == [seedCache EXCEPT !.marker = FALSE]
      <4>2. /\ d \in SeedDir /\ d.by = seedCache.by /\ d.files \subseteq seedCache.files
            /\ ~d.marker /\ seedCache' = d
        BY <3>1, <3>4 DEF SeedDir
      <4> HIDE DEF d
      <4> QED
        BY <3>2, <3>4, <4>2
    <3>5. CASE seedCache' = NoDir /\ SeedBecomes(p, [at |-> "stage"])
      <4>1. /\ t.at = "stage" /\ t.pulls = s.pulls /\ t.staging = s.staging /\ t.target = s.target /\ t.torn = s.torn
            /\ t.todo = s.todo /\ t.workspace = s.workspace
            /\ seedRun' = [seedRun EXCEPT ![p] = t] /\ t = [f \in SeedFields |-> t[f]]
        BY <1>2, <3>5
      <4>2. t \in SeedRunStates
        BY <1>1, <4>1, SeedStateIs DEF SeedAts
      <4>3. CacheInv' /\ Replaced'
        BY <2>1, <2>2, <3>5 DEF CacheInv, Replaced
      <4>4. SeedRunInv(p)'
        BY <1>1, <2>1, <4>1, <4>3 DEF SeedRunInv, PlainEntries, Staging, s, t
      <4> QED
        BY <2>1, <3>5, <4>1, <4>2, <4>3, <4>4, SeedChange DEF t
    <3> QED
      BY <1>10, <2>2, <3>3, <3>4, <3>5 DEF SeedRemove, s
  <2>3. CASE ~(seedCache # NoDir /\ seedCache.by = s.target)
    <3>1. /\ UNCHANGED seedCache
          /\ SeedBecomes(p, [at |-> "stage"]) \/ SeedBecomes(p, [at |-> "failed"])
      BY <1>10, <2>3 DEF SeedRemove, s
    <3>2. /\ t.at \in {"stage", "failed"} /\ t.pulls = s.pulls /\ t.staging = s.staging
          /\ t.target = s.target /\ t.torn = s.torn /\ t.todo = s.todo /\ t.workspace = s.workspace
          /\ seedRun' = [seedRun EXCEPT ![p] = t] /\ t = [f \in SeedFields |-> t[f]]
      BY <1>2, <3>1
    <3>3. t \in SeedRunStates
      BY <1>1, <3>2, SeedStateIs DEF SeedAts
    <3>4. Replaced
      BY <2>1, <2>3 DEF Replaced
    <3>5. SeedRunInv(p)'
      BY <1>1, <2>1, <3>1, <3>2, <3>4 DEF SeedRunInv, PlainEntries, Replaced, Staging, s, t
    <3> QED
      BY <1>1, <2>1, <3>1, <3>2, <3>3, <3>5, SeedStill DEF SeedTypes, t
  <2> QED
    BY <2>2, <2>3
<1>11. CASE SeedPublish(p)
  <2>1. /\ UNCHANGED <<seedTree, seedTorn>> /\ s.at = "publish" /\ Replaced
        /\ s.staging \in SeedDir /\ s.staging # NoDir /\ s.staging.by = p
        /\ PlainEntries(s.staging.files) /\ PlainEntries(s.workspace)
        /\ s.staging.marker /\ s.staging.files = SeedFiles
        /\ p # NoDir
    BY <1>1, <1>11, NoDirIsNone DEF SeedPublish, SeedAt, SeedRunInv, Staging, s
  <2>2. CASE seedCache' = s.staging /\ SeedBecomes(p, [at |-> "clone", staging |-> NoDir])
    <3>1. /\ t.at = "clone" /\ t.pulls = s.pulls /\ t.staging = NoDir /\ t.target = s.target /\ t.torn = s.torn
          /\ t.todo = s.todo /\ t.workspace = s.workspace
          /\ seedRun' = [seedRun EXCEPT ![p] = t] /\ t = [f \in SeedFields |-> t[f]]
      BY <1>2, <2>2
    <3>2. t \in SeedRunStates
      BY <1>1, <3>1, SeedStateIs DEF SeedAts
    <3>3. CacheInv' /\ Replaced' /\ seedCache' # NoDir
      BY <2>1, <2>2 DEF CacheInv, Replaced, PlainEntries
    <3>4. SeedRunInv(p)'
      BY <1>1, <2>1, <3>1, <3>3 DEF SeedRunInv, PlainEntries, Staging, s, t
    <3> QED
      BY <2>1, <2>2, <3>1, <3>2, <3>3, <3>4, SeedChange DEF t
  <2>3. CASE /\ seedCache # NoDir /\ UNCHANGED seedCache
             /\ SeedBecomes(p, [at |-> "recheck"])
    <3>1. /\ t.at = "recheck" /\ t.pulls = s.pulls /\ t.staging = s.staging /\ t.target = s.target /\ t.torn = s.torn
          /\ t.todo = s.todo /\ t.workspace = s.workspace
          /\ seedRun' = [seedRun EXCEPT ![p] = t] /\ t = [f \in SeedFields |-> t[f]]
      BY <1>2, <2>3
    <3>2. t \in SeedRunStates
      BY <1>1, <3>1, SeedStateIs DEF SeedAts
    <3>3. SeedRunInv(p)'
      BY <1>1, <2>1, <2>3, <3>1 DEF SeedRunInv, PlainEntries, Replaced, Staging, s, t
    <3> QED
      BY <1>1, <2>1, <2>3, <3>1, <3>2, <3>3, SeedStill DEF SeedTypes, t
  <2> QED
    BY <1>11, <2>2, <2>3 DEF SeedPublish, s
<1> QED
  BY <1>3, <1>4, <1>5, <1>6, <1>7, <1>8, <1>9, <1>10, <1>11 DEF SeedStep

LEMMA SeedIsInv == SeedSpec => []SeedInv
<1>1. SeedInit => SeedInv
  <2> SUFFICES ASSUME SeedInit PROVE SeedInv
    OBVIOUS
  <2>1. NewSeedRun \in SeedRunStates
    BY DEF NewSeedRun, SeedRunStates, SeedAts
  <2>2. \A p \in SeedRuns : /\ seedRun[p].at = "create" /\ seedRun[p].staging = NoDir
                             /\ seedRun[p].workspace = {}
    BY DEF SeedInit, NewSeedRun
  <2>3. SeedTypes
    BY <2>1 DEF SeedInit, SeedTypes
  <2>4. CacheInv
    BY DEF SeedInit, CacheInv
  <2>5. \A p \in SeedRuns : SeedRunInv(p)
    BY <2>2 DEF SeedRunInv, PlainEntries, Staging
  <2> QED
    BY <2>3, <2>4, <2>5 DEF SeedInv
<1>2. ASSUME SeedInv, SeedPowerLoss PROVE SeedInv'
  <2> DEFINE new == [NewSeedRun EXCEPT !.at = "killed"]
  <2>1. /\ new \in SeedRunStates /\ new.at = "killed" /\ new.workspace = {} /\ new.staging = NoDir
    BY DEF NewSeedRun, SeedRunStates, SeedAts
  <2>2. /\ UNCHANGED seedTree
        /\ seedRun' = [p \in SeedRuns |-> IF seedRun[p].at \in SeedEnded \cup {"create"} THEN seedRun[p] ELSE new]
    BY <1>2 DEF SeedPowerLoss
  <2> HIDE DEF new
  <2>3. /\ seedCache' \in SeedDir \cup {NoDir} /\ seedTorn' \subseteq SeedRuns /\ seedTorn \subseteq seedTorn'
        /\ seedCache' # NoDir =>
             /\ seedCache # NoDir /\ seedCache'.by = seedCache.by
             /\ seedCache'.marker = seedCache.marker /\ seedCache'.files \subseteq seedCache.files
             /\ seedCache'.files = seedCache.files \/ seedCache.by \in seedTorn' \cup {NoDir}
    <3>1. CASE seedCache' = NoDir /\ UNCHANGED seedTorn
      BY <1>2, <3>1 DEF SeedInv, SeedTypes
    <3>2. CASE /\ seedCache # NoDir
               /\ \E kept \in SUBSET seedCache.files :
                    /\ seedCache' = [seedCache EXCEPT !.files = kept]
                    /\ seedTorn' = IF kept = seedCache.files THEN seedTorn ELSE TornNow
      <4>1. seedCache \in SeedDir /\ seedTorn \subseteq SeedRuns
        BY <1>2, <3>2 DEF SeedInv, SeedTypes
      <4>2. PICK kept \in SUBSET seedCache.files :
              /\ seedCache' = [seedCache EXCEPT !.files = kept]
              /\ seedTorn' = IF kept = seedCache.files THEN seedTorn ELSE TornNow
        BY <3>2
      <4>3. /\ seedCache' \in SeedDir /\ seedCache'.by = seedCache.by
            /\ seedCache'.marker = seedCache.marker /\ seedCache'.files = kept
            /\ seedCache.by \in SeedRuns \cup {NoDir}
        BY <4>1, <4>2 DEF SeedDir
      <4> QED
        BY <3>2, <4>1, <4>2, <4>3 DEF TornNow
    <3> QED
      BY <1>2, <3>1, <3>2 DEF SeedPowerLoss
  <2>4. SeedTypes'
    BY <1>2, <2>1, <2>2, <2>3 DEF SeedInv, SeedTypes
  <2>5. CacheInv'
    BY <1>2, <2>2, <2>3 DEF SeedInv, CacheInv, PlainEntries
  <2>6. ASSUME NEW p \in SeedRuns PROVE SeedRunInv(p)'
    <3>1. /\ seedRun'[p].at \in SeedEnded \cup {"create"}
          /\ seedRun'[p] = seedRun[p] \/ seedRun'[p] = new
          /\ SeedRunInv(p)
      BY <1>2, <2>1, <2>2 DEF SeedInv, SeedEnded
    <3>2. CASE seedRun'[p] = seedRun[p]
      BY <2>2, <2>3, <3>1, <3>2 DEF SeedRunInv, PlainEntries, Staging, SeedEnded
    <3>3. CASE seedRun'[p] = new
      BY <2>1, <3>3 DEF SeedRunInv, PlainEntries, Staging
    <3> QED
      BY <3>1, <3>2, <3>3
  <2> QED
    BY <2>4, <2>5, <2>6 DEF SeedInv
<1>3. ASSUME SeedInv, UNCHANGED seedVars PROVE SeedInv'
  BY <1>3 DEF seedVars, SeedInv, SeedTypes, CacheInv, SeedRunInv, PlainEntries, Replaced
<1> QED
  <2>1. SeedInv /\ [SeedNext]_seedVars => SeedInv'
    BY <1>2, <1>3, SeedStepInv DEF SeedNext
  <2> QED
    BY <1>1, <2>1, PTL DEF SeedSpec

(* A run that succeeds has the whole seed unless what it listed had lost   *)
(* something already, a marked cache is whole unless a removal or a power  *)
(* loss has taken something from that very tree, and no link that leads    *)
(* out of the tree ever gets into a workspace, whoever is killed when.     *)
THEOREM SeedsAreWhole == SeedSpec => []SeedIsWhole
<1>1. SeedInv => SeedIsWhole
  BY DEF SeedInv, SeedIsWhole, SeedRunInv, CacheInv, PlainEntries, SeedAt, Staging, SeedTypes
<1> QED
  BY <1>1, SeedIsInv, PTL

-----------------------------------------------------------------------------
(* The cache of OCI assets.                                                *)
AssetSpec == AssetInit /\ [][AssetNext]_assetVars

AssetAts == {"docker", "oras", "load", "invalid", "removing", "stage", "mark", "publish", "open",
             "opened", "used", "failed", "killed"}

AssetRunStates ==
  [at : AssetAts, digest : AssetDigests \cup {NoAsset}, staging : AssetDir \cup {NoAsset},
   target : AssetRuns \cup {NoAsset}, got : AssetContents \cup {NoAsset}]

AssetTypes ==
  /\ manifestOf \in Manifests /\ assetTag \in Versions
  /\ assetCache \in [AssetDigests -> AssetDir \cup {NoAsset}]
  /\ assetRun \in [AssetRuns -> AssetRunStates]

(* What is under the digest is not the cache that was left from before.    *)
AssetReplaced(d) == assetCache[d] = NoAsset \/ assetCache[d].by # NoAsset

Needed == {"manifest", "entry"}

(* What is there is on the disk; a marker, and the files every package     *)
(* needs, are in every cache but the one from before.                      *)
AssetCacheInv(d) == assetCache[d] # NoAsset =>
  /\ assetCache[d].synced
  /\ IF assetCache[d].by = NoAsset THEN ~assetCache[d].marker
     ELSE assetCache[d].marker /\ Needed \subseteq assetCache[d].files

HasDigest == {"load", "invalid", "removing", "stage", "mark", "publish", "open", "opened"}

(* The digest a run stages for is past the cache from before, which is the *)
(* only one ever removed; and what it has opened stays there.              *)
AssetRunInv(p) ==
  /\ assetRun[p].at \in HasDigest => assetRun[p].digest \in AssetDigests
  /\ assetRun[p].at = "removing" => assetRun[p].target = NoAsset
  /\ assetRun[p].at \in {"stage", "mark", "publish", "open", "opened"} => AssetReplaced(assetRun[p].digest)
  /\ assetRun[p].at \in {"mark", "publish"} =>
       /\ assetRun[p].staging # NoAsset /\ assetRun[p].staging.by = p
       /\ Needed \subseteq assetRun[p].staging.files
  /\ assetRun[p].at = "publish" => assetRun[p].staging.marker /\ assetRun[p].staging.synced
  /\ assetRun[p].at \in {"open", "opened"} => assetCache[assetRun[p].digest] # NoAsset
  /\ assetRun[p].at = "opened" => PackageComplete(assetCache[assetRun[p].digest])
  /\ assetRun[p].at = "used" =>
       /\ assetRun[p].got # NoAsset
       /\ ManifestAccepted(manifestOf[assetRun[p].got.of])
       /\ NamedFiles(manifestOf[assetRun[p].got.of]) \subseteq assetRun[p].got.files

AssetSound ==
  /\ AssetTypes
  /\ \A d \in AssetDigests : AssetCacheInv(d)
  /\ \A p \in AssetRuns : AssetRunInv(p)

AssetInv == assetTorn \/ AssetSound

AssetFields == {"at", "digest", "staging", "target", "got"}

LEMMA AssetBecomesIs ==
  ASSUME AssetTypes, NEW p \in AssetRuns, NEW new, AssetBecomes(p, new)
  PROVE  /\ assetRun' = [assetRun EXCEPT ![p] = assetRun'[p]]
         /\ assetRun'[p] = [f \in AssetFields |-> assetRun'[p][f]]
         /\ assetRun'[p].at = IF "at" \in DOMAIN new THEN new.at ELSE assetRun[p].at
         /\ assetRun'[p].digest = IF "digest" \in DOMAIN new THEN new.digest ELSE assetRun[p].digest
         /\ assetRun'[p].staging = IF "staging" \in DOMAIN new THEN new.staging ELSE assetRun[p].staging
         /\ assetRun'[p].target = IF "target" \in DOMAIN new THEN new.target ELSE assetRun[p].target
         /\ assetRun'[p].got = IF "got" \in DOMAIN new THEN new.got ELSE assetRun[p].got
<1> DEFINE s == assetRun[p]
           t == assetRun'[p]
<1>1. /\ assetRun' = [assetRun EXCEPT ![p] = t]
      /\ t = [f \in AssetFields |-> IF f \in DOMAIN new THEN new[f] ELSE s[f]]
  <2>1. DOMAIN NewAssetRun = AssetFields
    BY DEF NewAssetRun, AssetFields
  <2>2. assetRun' = [assetRun EXCEPT ![p] = [f \in AssetFields |-> IF f \in DOMAIN new THEN new[f] ELSE s[f]]]
    BY <2>1 DEF AssetBecomes
  <2> QED
    BY <2>2 DEF AssetTypes
<1> HIDE DEF s, t
<1>2. /\ \A f \in AssetFields : t[f] = IF f \in DOMAIN new THEN new[f] ELSE s[f]
      /\ t = [f \in AssetFields |-> t[f]]
  BY <1>1
<1>3. /\ t.at = IF "at" \in DOMAIN new THEN new.at ELSE s.at
      /\ t.digest = IF "digest" \in DOMAIN new THEN new.digest ELSE s.digest
      /\ t.staging = IF "staging" \in DOMAIN new THEN new.staging ELSE s.staging
      /\ t.target = IF "target" \in DOMAIN new THEN new.target ELSE s.target
      /\ t.got = IF "got" \in DOMAIN new THEN new.got ELSE s.got
  BY <1>2 DEF AssetFields
<1> QED
  BY <1>1, <1>2, <1>3 DEF s, t

LEMMA AssetStateIs ==
  ASSUME NEW g, g = [f \in AssetFields |-> g[f]],
         g.at \in AssetAts, g.digest \in AssetDigests \cup {NoAsset},
         g.staging \in AssetDir \cup {NoAsset}, g.target \in AssetRuns \cup {NoAsset},
         g.got \in AssetContents \cup {NoAsset}
  PROVE  g \in AssetRunStates
BY DEF AssetFields, AssetRunStates

LEMMA AssetStateHas ==
  ASSUME NEW g \in AssetRunStates
  PROVE  /\ g.at \in AssetAts /\ g.digest \in AssetDigests \cup {NoAsset}
         /\ g.staging \in AssetDir \cup {NoAsset} /\ g.target \in AssetRuns \cup {NoAsset}
         /\ g.got \in AssetContents \cup {NoAsset}
BY DEF AssetRunStates

(* A step of one run that leaves the cache alone.                          *)
LEMMA AssetStill ==
  ASSUME AssetSound, NEW p \in AssetRuns, assetRun'[p] \in AssetRunStates,
         assetRun' = [assetRun EXCEPT ![p] = assetRun'[p]],
         UNCHANGED <<manifestOf, assetTag, assetCache>>, AssetRunInv(p)'
  PROVE  AssetSound'
<1>1. AssetTypes'
  BY DEF AssetSound, AssetTypes
<1>2. \A d \in AssetDigests : AssetCacheInv(d)'
  BY DEF AssetSound, AssetCacheInv
<1>3. ASSUME NEW q \in AssetRuns, q # p PROVE AssetRunInv(q)'
  <2>1. assetRun'[q] = assetRun[q] /\ AssetRunInv(q)
    BY <1>3 DEF AssetSound, AssetTypes
  <2> QED
    BY <2>1 DEF AssetRunInv, AssetReplaced, PackageComplete
<1> QED
  BY <1>1, <1>2, <1>3 DEF AssetSound

(* A step of one run that changes what is under its digest: what was left  *)
(* from before, or nothing.                                                *)
LEMMA AssetChange ==
  ASSUME AssetSound, NEW p \in AssetRuns, assetRun'[p] \in AssetRunStates,
         assetRun' = [assetRun EXCEPT ![p] = assetRun'[p]],
         UNCHANGED <<manifestOf, assetTag>>,
         NEW d \in AssetDigests, NEW dir \in AssetDir \cup {NoAsset},
         assetCache' = [assetCache EXCEPT ![d] = dir],
         assetCache[d] = NoAsset \/ ~AssetReplaced(d),
         assetCache[d] = NoAsset => AssetReplaced(d)',
         AssetCacheInv(d)', AssetRunInv(p)'
  PROVE  AssetSound'
<1>1. /\ assetCache'[d] = dir /\ \A e \in AssetDigests : e # d => assetCache'[e] = assetCache[e]
      /\ AssetTypes'
  BY DEF AssetSound, AssetTypes
<1>2. ASSUME NEW e \in AssetDigests PROVE AssetCacheInv(e)'
  BY <1>1, <1>2 DEF AssetSound, AssetCacheInv
<1>3. ASSUME NEW q \in AssetRuns, q # p PROVE AssetRunInv(q)'
  <2>1. assetRun'[q] = assetRun[q] /\ AssetRunInv(q)
    BY <1>3 DEF AssetSound, AssetTypes
  <2>2. CASE assetRun[q].at \in HasDigest /\ assetRun[q].digest = d
    BY <1>1, <2>1, <2>2 DEF AssetRunInv, AssetReplaced, HasDigest
  <2>3. CASE assetRun[q].at \in HasDigest /\ assetRun[q].digest # d
    <3>1. assetCache'[assetRun[q].digest] = assetCache[assetRun[q].digest]
      BY <1>1, <2>1, <2>3 DEF AssetRunInv
    <3> QED
      BY ONLY <2>1, <3>1, UNCHANGED <<manifestOf, assetTag>>, Zenon
         DEF AssetRunInv, AssetReplaced, PackageComplete
  <2>4. CASE assetRun[q].at \notin HasDigest
    BY <2>1, <2>4 DEF AssetRunInv, HasDigest
  <2> QED
    BY <2>2, <2>3, <2>4
<1> QED
  BY <1>1, <1>2, <1>3 DEF AssetSound

(* An error on either way starts the other one, or ends the run.           *)
LEMMA AssetFailsIs ==
  ASSUME AssetSound, NEW p \in AssetRuns, AssetFails(p)
  PROVE  /\ assetRun'[p] \in AssetRunStates /\ AssetRunInv(p)'
         /\ assetRun' = [assetRun EXCEPT ![p] = assetRun'[p]]
<1> DEFINE t == assetRun'[p]
           new(where) == [NewAssetRun EXCEPT !.at = where]
<1>1. PICK where \in {"oras", "failed"} : AssetBecomes(p, new(where))
  BY DEF AssetFails
<1>2. /\ DOMAIN new(where) = AssetFields /\ new(where).at = where
      /\ new(where).digest = NoAsset /\ new(where).staging = NoAsset
      /\ new(where).target = NoAsset /\ new(where).got = NoAsset
  BY <1>1 DEF NewAssetRun, AssetFields
<1> HIDE DEF new
<1>3. /\ assetRun' = [assetRun EXCEPT ![p] = t] /\ t = [f \in AssetFields |-> t[f]]
      /\ t.at = where /\ t.digest = NoAsset /\ t.staging = NoAsset /\ t.target = NoAsset /\ t.got = NoAsset
  BY <1>1, <1>2, AssetBecomesIs DEF AssetSound, AssetFields
<1> HIDE DEF t
<1>4. t \in AssetRunStates
  BY <1>1, <1>3, AssetStateIs DEF AssetAts
<1>5. AssetRunInv(p)'
  BY <1>1, <1>3 DEF AssetRunInv, HasDigest, t
<1> QED
  BY <1>3, <1>4, <1>5 DEF t

LEMMA AssetFailsInv ==
  ASSUME AssetSound, NEW p \in AssetRuns, AssetFails(p),
         UNCHANGED <<manifestOf, assetTag, assetCache>>
  PROVE  AssetSound'
BY AssetFailsIs, AssetStill

LEMMA AssetStepInv ==
  ASSUME AssetSound, NEW p \in AssetRuns, AssetStep(p), ~assetTorn, ~assetTorn' PROVE AssetSound'
<1> DEFINE s == assetRun[p]
           t == assetRun'[p]
<1>1. /\ AssetTypes /\ s \in AssetRunStates
      /\ s.at \in AssetAts /\ s.digest \in AssetDigests \cup {NoAsset}
      /\ s.staging \in AssetDir \cup {NoAsset} /\ s.target \in AssetRuns \cup {NoAsset}
      /\ s.got \in AssetContents \cup {NoAsset}
      /\ AssetRunInv(p) /\ \A d \in AssetDigests : AssetCacheInv(d)
      /\ s.at \in HasDigest => /\ s.digest \in AssetDigests /\ AssetCacheAt(p) = assetCache[s.digest]
                               /\ assetCache[s.digest] \in AssetDir \cup {NoAsset}
  BY AssetStateHas DEF AssetSound, AssetTypes, AssetRunInv, AssetCacheAt
<1>2. ASSUME NEW new, AssetBecomes(p, new)
      PROVE  /\ assetRun' = [assetRun EXCEPT ![p] = t]
             /\ t = [f \in AssetFields |-> t[f]]
             /\ t.at = IF "at" \in DOMAIN new THEN new.at ELSE s.at
             /\ t.digest = IF "digest" \in DOMAIN new THEN new.digest ELSE s.digest
             /\ t.staging = IF "staging" \in DOMAIN new THEN new.staging ELSE s.staging
             /\ t.target = IF "target" \in DOMAIN new THEN new.target ELSE s.target
             /\ t.got = IF "got" \in DOMAIN new THEN new.got ELSE s.got
  BY <1>1, <1>2, AssetBecomesIs
<1> HIDE DEF s, t
<1>3. CASE ResolveAsset(p)
  <2>1. UNCHANGED <<manifestOf, assetTag, assetCache, assetTorn, assetMoved>>
    BY <1>3 DEF ResolveAsset
  <2>2. CASE AssetFails(p)
    BY <2>1, <2>2, AssetFailsInv
  <2>3. CASE AssetBecomes(p, [at |-> "load", digest |-> <<AssetVia(p), assetTag>>])
    <3>1. <<AssetVia(p), assetTag>> \in AssetDigests
      BY <1>1, <1>3 DEF ResolveAsset, AssetVia, AssetAt, Vias, AssetDigests, AssetTypes
    <3>2. /\ t.at = "load" /\ t.digest \in AssetDigests /\ t.staging = s.staging
          /\ t.target = s.target /\ t.got = s.got
          /\ assetRun' = [assetRun EXCEPT ![p] = t] /\ t = [f \in AssetFields |-> t[f]]
      BY <1>2, <2>3, <3>1
    <3>3. t \in AssetRunStates
      BY <1>1, <3>2, AssetStateIs DEF AssetAts
    <3>4. AssetRunInv(p)'
      BY <3>2 DEF AssetRunInv, t
    <3> QED
      BY <1>1, <2>1, <3>2, <3>3, <3>4, AssetStill DEF t
  <2> QED
    BY <1>3, <2>2, <2>3 DEF ResolveAsset
<1>4. CASE LoadAssetCache(p)
  <2>1. UNCHANGED <<manifestOf, assetTag, assetCache, assetTorn, assetMoved>> /\ s.at = "load"
    BY <1>4 DEF LoadAssetCache, AssetAt, s
  <2>2. CASE AssetFails(p)
    BY <2>1, <2>2, AssetFailsInv
  <2>3. CASE AssetBecomes(p, [at |-> IF ValidAssetCache(AssetCacheAt(p)) THEN "open" ELSE "invalid"])
    <3>1. /\ t.at = IF ValidAssetCache(AssetCacheAt(p)) THEN "open" ELSE "invalid"
          /\ t.digest = s.digest /\ t.staging = s.staging
          /\ t.target = s.target /\ t.got = s.got
          /\ assetRun' = [assetRun EXCEPT ![p] = t] /\ t = [f \in AssetFields |-> t[f]]
      BY <1>2, <2>3
    <3>2. t \in AssetRunStates
      BY <1>1, <3>1, AssetStateIs DEF AssetAts
    <3>3. AssetRunInv(p)'
      <4>1. AssetCacheAt(p) = assetCache[s.digest] /\ s.digest \in AssetDigests /\ AssetCacheInv(s.digest)
        BY <1>1, <2>1 DEF HasDigest
      <4>2. t.at = "open" => assetCache[s.digest] # NoAsset /\ AssetReplaced(s.digest)
        BY <3>1, <4>1 DEF ValidAssetCache, AssetReplaced, AssetCacheInv
      <4> QED
        BY <2>1, <3>1, <4>1, <4>2 DEF AssetRunInv, AssetReplaced, t
    <3> QED
      BY <1>1, <2>1, <3>1, <3>2, <3>3, AssetStill DEF t
  <2> QED
    BY <1>4, <2>2, <2>3 DEF LoadAssetCache
<1>5. CASE DiscardAssetCache(p)
  <2> DEFINE dir == assetCache[s.digest]
  <2>1. /\ UNCHANGED <<manifestOf, assetTag, assetCache>> /\ s.at = "invalid"
        /\ dir \in AssetDir \cup {NoAsset} /\ s.digest \in AssetDigests /\ AssetCacheInv(s.digest)
        /\ AssetCacheAt(p) = dir
    BY <1>1, <1>5 DEF DiscardAssetCache, AssetAt, HasDigest, s
  <2>2. CASE dir = NoAsset
    <3>1. AssetBecomes(p, [at |-> "stage"])
      BY <1>5, <2>1, <2>2 DEF DiscardAssetCache
    <3>2. /\ t.at = "stage" /\ t.digest = s.digest /\ t.staging = s.staging
          /\ t.target = s.target /\ t.got = s.got
          /\ assetRun' = [assetRun EXCEPT ![p] = t] /\ t = [f \in AssetFields |-> t[f]]
      BY <1>2, <3>1
    <3>3. t \in AssetRunStates
      BY <1>1, <3>2, AssetStateIs DEF AssetAts
    <3>4. AssetRunInv(p)'
      BY <2>1, <2>2, <3>2 DEF AssetRunInv, AssetReplaced, t
    <3> QED
      BY <1>1, <2>1, <3>2, <3>3, <3>4, AssetStill DEF t
  <2>3. CASE dir # NoAsset
    <3>1. /\ AssetBecomes(p, [at |-> "removing", target |-> dir.by]) /\ ~dir.marker
      BY <1>5, <2>1, <2>3 DEF DiscardAssetCache
    <3>2. dir.by = NoAsset
      BY <2>1, <2>3, <3>1 DEF AssetCacheInv
    <3>3. /\ t.at = "removing" /\ t.digest = s.digest /\ t.staging = s.staging
          /\ t.target = NoAsset /\ t.got = s.got
          /\ assetRun' = [assetRun EXCEPT ![p] = t] /\ t = [f \in AssetFields |-> t[f]]
      BY <1>2, <3>1, <3>2
    <3>4. t \in AssetRunStates
      BY <1>1, <3>3, AssetStateIs DEF AssetAts
    <3>5. AssetRunInv(p)'
      BY <2>1, <3>3 DEF AssetRunInv, t
    <3> QED
      BY <1>1, <2>1, <3>3, <3>4, <3>5, AssetStill DEF t
  <2> QED
    BY <2>2, <2>3
<1>6. CASE RemoveAssetCache(p)
  <2> DEFINE dir == assetCache[s.digest]
  <2>1. /\ UNCHANGED <<manifestOf, assetTag>> /\ s.at = "removing" /\ s.target = NoAsset
        /\ dir \in AssetDir \cup {NoAsset} /\ s.digest \in AssetDigests /\ AssetCacheInv(s.digest)
        /\ AssetCacheAt(p) = dir
    BY <1>1, <1>6 DEF RemoveAssetCache, AssetAt, HasDigest, AssetRunInv, s
  <2>2. CASE dir # NoAsset /\ dir.by = NoAsset
    <3>1. dir \in AssetDir /\ dir.synced /\ ~dir.marker /\ ~AssetReplaced(s.digest)
      BY <2>1, <2>2 DEF AssetCacheInv, AssetReplaced
    <3>2. CASE \E f \in dir.files : assetCache' = [assetCache EXCEPT ![s.digest].files = @ \ {f}] /\ UNCHANGED assetRun
      <4>1. PICK f \in dir.files : assetCache' = [assetCache EXCEPT ![s.digest].files = @ \ {f}] /\ UNCHANGED assetRun
        BY <3>2
      <4> DEFINE new == [dir EXCEPT !.files = @ \ {f}]
      <4>2. /\ new \in AssetDir /\ new.by = NoAsset /\ new.synced /\ ~new.marker
            /\ assetCache' = [assetCache EXCEPT ![s.digest] = new]
        BY <1>1, <2>1, <2>2, <3>1, <4>1 DEF AssetDir
      <4> HIDE DEF new
      <4>3. assetCache'[s.digest] = new
        BY <1>1, <2>1, <4>2 DEF AssetTypes
      <4>4. AssetCacheInv(s.digest)'
        BY <4>1, <4>2, <4>3 DEF AssetCacheInv, s
      <4>5. /\ assetRun'[p] \in AssetRunStates /\ assetRun' = [assetRun EXCEPT ![p] = assetRun'[p]]
            /\ AssetRunInv(p)'
        BY <1>1, <2>1, <4>1 DEF AssetRunInv, AssetTypes, s
      <4>6. s' = s
        BY <4>1 DEF s
      <4> QED
        BY <2>1, <2>2, <3>1, <4>2, <4>4, <4>5, <4>6, AssetChange
    <3>3. CASE dir.files = {} /\ assetCache' = [assetCache EXCEPT ![s.digest] = NoAsset] /\ AssetBecomes(p, [at |-> "stage"])
      <4>1. /\ t.at = "stage" /\ t.digest = s.digest /\ t.staging = s.staging
            /\ t.target = s.target /\ t.got = s.got
            /\ assetRun' = [assetRun EXCEPT ![p] = t] /\ t = [f \in AssetFields |-> t[f]]
        BY <1>2, <3>3
      <4>2. t \in AssetRunStates
        BY <1>1, <4>1, AssetStateIs DEF AssetAts
      <4>3. assetCache'[s.digest] = NoAsset
        BY <1>1, <2>1, <3>3 DEF AssetTypes
      <4>4. AssetRunInv(p)'
        BY <2>1, <4>1, <4>3 DEF AssetRunInv, AssetReplaced, t
      <4>5. \A d \in AssetDigests : d = s.digest => AssetCacheInv(d)'
        BY <4>3 DEF AssetCacheInv
      <4> QED
        BY <2>1, <2>2, <3>1, <3>3, <4>1, <4>2, <4>4, <4>5, AssetChange DEF t
    <3> QED
      BY <1>6, <2>1, <2>2, <3>1, <3>2, <3>3 DEF RemoveAssetCache, s
  <2>3. CASE ~(dir # NoAsset /\ dir.by = NoAsset)
    <3>1. UNCHANGED assetCache /\ (AssetBecomes(p, [at |-> "stage"]) \/ AssetFails(p))
      BY <1>6, <2>1, <2>3 DEF RemoveAssetCache, s
    <3>2. CASE AssetBecomes(p, [at |-> "stage"])
      <4>1. /\ t.at = "stage" /\ t.digest = s.digest /\ t.staging = s.staging
            /\ t.target = s.target /\ t.got = s.got
            /\ assetRun' = [assetRun EXCEPT ![p] = t] /\ t = [f \in AssetFields |-> t[f]]
        BY <1>2, <3>2
      <4>2. t \in AssetRunStates
        BY <1>1, <4>1, AssetStateIs DEF AssetAts
      <4>3. AssetRunInv(p)'
        BY <2>1, <2>3, <3>1, <4>1 DEF AssetRunInv, AssetReplaced, t
      <4> QED
        BY <2>1, <3>1, <4>1, <4>2, <4>3, AssetStill DEF t
    <3>3. CASE AssetFails(p)
      BY <2>1, <3>1, <3>3, AssetFailsInv
    <3> QED
      BY <3>1, <3>2, <3>3
  <2> QED
    BY <2>2, <2>3
<1>7. CASE StageImage(p) \/ StageArtifact(p) \/ MarkAsset(p)
  <2>1. UNCHANGED <<manifestOf, assetTag, assetCache>>
    BY <1>7 DEF StageImage, StageArtifact, MarkAsset
  <2>2. CASE AssetFails(p)
    BY <2>1, <2>2, AssetFailsInv
  <2>3. ASSUME ~AssetFails(p)
        PROVE  \E next \in {"mark", "publish"}, new \in AssetDir :
                 /\ AssetBecomes(p, [at |-> next, staging |-> new])
                 /\ new.by = p /\ Needed \subseteq new.files
                 /\ next = "publish" => new.marker /\ new.synced
                 /\ s.at \in {"stage", "mark"}
    <3>1. ASSUME NEW files \in SUBSET PackageFiles
          PROVE  /\ Staged(p, files) \in AssetDir /\ Staged(p, files).by = p
                 /\ Staged(p, files).files = files
      BY <1>1 DEF Staged, AssetDir, AssetTypes
    <3>2. CASE StageImage(p)
      <4>1. PICK files \in {PackageFiles, PackageFiles \ {"definition"}} :
              AssetBecomes(p, [at |-> "mark", staging |-> Staged(p, files)])
        BY <2>3, <3>2 DEF StageImage
      <4>2. Needed \subseteq files /\ files \in SUBSET PackageFiles
        BY <4>1 DEF Needed, PackageFiles
      <4> QED
        BY <3>1, <3>2, <4>1, <4>2 DEF StageImage, AssetAt, s
    <3>3. CASE StageArtifact(p)
      <4> DEFINE files == NamedFiles(manifestOf[assetTag])
      <4>1. AssetBecomes(p, [at |-> "mark", staging |-> Staged(p, files)])
        BY <2>3, <3>3 DEF StageArtifact
      <4>2. Needed \subseteq files /\ files \in SUBSET PackageFiles
        BY DEF Needed, PackageFiles, NamedFiles
      <4> HIDE DEF files
      <4> QED
        BY <3>1, <3>3, <4>1, <4>2 DEF StageArtifact, AssetAt, s
    <3>4. CASE MarkAsset(p)
      <4> DEFINE new == [s.staging EXCEPT !.marker = TRUE, !.synced = TRUE]
      <4>1. /\ s.at = "mark" /\ s.staging \in AssetDir /\ s.staging.by = p
            /\ Needed \subseteq s.staging.files
        BY <1>1, <3>4 DEF MarkAsset, AssetAt, AssetRunInv, s
      <4>2. /\ new \in AssetDir /\ new.by = p /\ Needed \subseteq new.files
            /\ new.marker /\ new.synced
        BY <4>1 DEF AssetDir
      <4>3. AssetBecomes(p, [at |-> "publish", staging |-> new])
        BY <2>3, <3>4 DEF MarkAsset, s
      <4> HIDE DEF new
      <4> QED
        BY <4>1, <4>2, <4>3
    <3> QED
      BY <1>7, <3>2, <3>3, <3>4
  <2>4. CASE ~AssetFails(p)
    <3>1. PICK next \in {"mark", "publish"}, new \in AssetDir :
                 /\ AssetBecomes(p, [at |-> next, staging |-> new])
                 /\ new.by = p /\ Needed \subseteq new.files
                 /\ next = "publish" => new.marker /\ new.synced
                 /\ s.at \in {"stage", "mark"}
      BY <2>3, <2>4
    <3>2. /\ t.at = next /\ t.digest = s.digest /\ t.staging = new
          /\ t.target = s.target /\ t.got = s.got
          /\ assetRun' = [assetRun EXCEPT ![p] = t] /\ t = [f \in AssetFields |-> t[f]]
      BY <1>2, <3>1
    <3>3. t \in AssetRunStates
      BY <1>1, <3>1, <3>2, AssetStateIs DEF AssetAts
    <3>4. s.digest \in AssetDigests /\ AssetReplaced(s.digest) /\ new # NoAsset
      BY <1>1, <3>1, NoAssetIsNone DEF HasDigest, AssetRunInv, s
    <3>5. AssetRunInv(p)'
      BY <2>1, <3>1, <3>2, <3>4 DEF AssetRunInv, AssetReplaced, t
    <3> QED
      BY <2>1, <3>2, <3>3, <3>5, AssetStill DEF t
  <2> QED
    BY <2>2, <2>4
<1>8. CASE PublishAsset(p)
  <2> DEFINE dir == assetCache[s.digest]
  <2>1. /\ UNCHANGED <<manifestOf, assetTag>> /\ s.at = "publish"
        /\ dir \in AssetDir \cup {NoAsset} /\ s.digest \in AssetDigests /\ AssetCacheInv(s.digest)
        /\ AssetCacheAt(p) = dir /\ AssetReplaced(s.digest) /\ s.staging \in AssetDir
        /\ s.staging # NoAsset /\ s.staging.by = p /\ Needed \subseteq s.staging.files
        /\ s.staging.marker /\ s.staging.synced /\ p # NoAsset
    BY <1>1, <1>8, NoAssetIsNone DEF PublishAsset, AssetAt, HasDigest, AssetRunInv, s
  <2>2. CASE assetCache' = [assetCache EXCEPT ![s.digest] = s.staging]
    <3>1. CASE dir = NoAsset
      <4>1. assetCache'[s.digest] = s.staging
        BY <1>1, <2>1, <2>2 DEF AssetTypes
      <4>2. \A d \in AssetDigests : d = s.digest => AssetCacheInv(d)' /\ AssetReplaced(d)'
        BY <2>1, <4>1 DEF AssetCacheInv, AssetReplaced
      <4>3. AssetBecomes(p, [at |-> "open", staging |-> NoAsset]) \/ AssetFails(p)
        BY <1>8, <2>1, <3>1 DEF PublishAsset
      <4>4. CASE AssetBecomes(p, [at |-> "open", staging |-> NoAsset])
        <5>1. /\ t.at = "open" /\ t.digest = s.digest /\ t.staging = NoAsset
              /\ t.target = s.target /\ t.got = s.got
              /\ assetRun' = [assetRun EXCEPT ![p] = t] /\ t = [f \in AssetFields |-> t[f]]
          BY <1>2, <4>4
        <5>2. t \in AssetRunStates
          BY <1>1, <5>1, AssetStateIs DEF AssetAts
        <5>3. AssetRunInv(p)'
          BY <2>1, <4>1, <5>1 DEF AssetRunInv, AssetReplaced, t
        <5> QED
          BY <2>1, <2>2, <3>1, <4>2, <5>1, <5>2, <5>3, AssetChange DEF t
      <4>5. CASE AssetFails(p)
        BY <2>1, <2>2, <3>1, <4>2, <4>5, AssetFailsIs, AssetChange
      <4> QED
        BY <4>3, <4>4, <4>5
    <3>2. CASE dir # NoAsset
      <4>1. dir.marker
        BY <2>1, <3>2 DEF AssetCacheInv, AssetReplaced
      <4>2. UNCHANGED assetCache
        BY <1>8, <2>1, <3>2, <4>1 DEF PublishAsset, s
      <4>3. AssetFails(p) \/ AssetBecomes(p, [at |-> "open", staging |-> NoAsset])
        BY <1>8, <2>1, <3>2, <4>1 DEF PublishAsset
      <4>4. CASE AssetFails(p)
        BY <2>1, <4>2, <4>4, AssetFailsInv
      <4>5. CASE AssetBecomes(p, [at |-> "open", staging |-> NoAsset])
        <5>1. /\ t.at = "open" /\ t.digest = s.digest /\ t.staging = NoAsset
              /\ t.target = s.target /\ t.got = s.got
              /\ assetRun' = [assetRun EXCEPT ![p] = t] /\ t = [f \in AssetFields |-> t[f]]
          BY <1>2, <4>5
        <5>2. t \in AssetRunStates
          BY <1>1, <5>1, AssetStateIs DEF AssetAts
        <5>3. AssetRunInv(p)'
          BY <2>1, <3>2, <4>2, <5>1 DEF AssetRunInv, AssetReplaced, t
        <5> QED
          BY <2>1, <4>2, <5>1, <5>2, <5>3, AssetStill DEF t
      <4> QED
        BY <4>3, <4>4, <4>5
    <3> QED
      BY <3>1, <3>2
  <2>3. CASE UNCHANGED assetCache /\ dir # NoAsset
    <3>1. CASE AssetFails(p)
      BY <2>1, <2>3, <3>1, AssetFailsInv
    <3>2. CASE AssetBecomes(p, [at |-> "open", staging |-> NoAsset])
      <4>1. /\ t.at = "open" /\ t.digest = s.digest /\ t.staging = NoAsset
            /\ t.target = s.target /\ t.got = s.got
            /\ assetRun' = [assetRun EXCEPT ![p] = t] /\ t = [f \in AssetFields |-> t[f]]
        BY <1>2, <3>2
      <4>2. t \in AssetRunStates
        BY <1>1, <4>1, AssetStateIs DEF AssetAts
      <4>3. AssetRunInv(p)'
        BY <2>1, <2>3, <4>1 DEF AssetRunInv, AssetReplaced, t
      <4> QED
        BY <2>1, <2>3, <4>1, <4>2, <4>3, AssetStill DEF t
    <3> QED
      BY <1>8, <2>3, <3>1, <3>2 DEF PublishAsset
  <2> QED
    BY <1>8, <2>1, <2>2, <2>3 DEF PublishAsset, s
<1>9. CASE OpenAsset(p) \/ UseAsset(p) \/ KillAsset(p)
  <2>1. UNCHANGED <<manifestOf, assetTag, assetCache>>
    BY <1>9 DEF OpenAsset, UseAsset, KillAsset
  <2>2. CASE AssetFails(p)
    BY <2>1, <2>2, AssetFailsInv
  <2>3. CASE OpenAsset(p) /\ AssetBecomes(p, [at |-> "opened"])
    <3>1. /\ s.at = "open" /\ AssetCacheAt(p) = assetCache[s.digest] /\ s.digest \in AssetDigests
          /\ AssetReplaced(s.digest) /\ assetCache[s.digest] # NoAsset
          /\ PackageComplete(assetCache[s.digest]) \/ AssetFails(p)
      BY <1>1, <2>3 DEF OpenAsset, AssetAt, HasDigest, AssetRunInv, s
    <3>2. /\ t.at = "opened" /\ t.digest = s.digest /\ t.staging = s.staging
          /\ t.target = s.target /\ t.got = s.got
          /\ assetRun' = [assetRun EXCEPT ![p] = t] /\ t = [f \in AssetFields |-> t[f]]
      BY <1>2, <2>3
    <3>3. t \in AssetRunStates
      BY <1>1, <3>2, AssetStateIs DEF AssetAts
    <3>4. CASE PackageComplete(assetCache[s.digest])
      <4>1. AssetRunInv(p)'
        BY <2>1, <3>1, <3>2, <3>4 DEF AssetRunInv, AssetReplaced, PackageComplete, t
      <4> QED
        BY <2>1, <3>2, <3>3, <4>1, AssetStill DEF t
    <3> QED
      BY <2>2, <3>1, <3>4
  <2>4. CASE UseAsset(p)
    <3>1. /\ s.at = "opened" /\ AssetCacheAt(p) = assetCache[s.digest] /\ s.digest \in AssetDigests
          /\ assetCache[s.digest] # NoAsset /\ assetCache[s.digest] \in AssetDir
          /\ PackageComplete(assetCache[s.digest])
      BY <1>1, <2>4 DEF UseAsset, AssetAt, HasDigest, AssetRunInv, s
    <3> DEFINE got == [files |-> assetCache[s.digest].files, of |-> assetCache[s.digest].of]
    <3>2. /\ AssetBecomes(p, [at |-> "used", got |-> got])
          /\ got \in AssetContents /\ got # NoAsset
          /\ ManifestAccepted(manifestOf[got.of]) /\ NamedFiles(manifestOf[got.of]) \subseteq got.files
      BY <2>4, <3>1, NoAssetIsNone DEF UseAsset, AssetContent, AssetContents, AssetDir, PackageComplete
    <3> HIDE DEF got
    <3>3. /\ t.at = "used" /\ t.digest = s.digest /\ t.staging = s.staging
          /\ t.target = s.target /\ t.got = got
          /\ assetRun' = [assetRun EXCEPT ![p] = t] /\ t = [f \in AssetFields |-> t[f]]
      BY <1>2, <3>2
    <3>4. t \in AssetRunStates
      BY <1>1, <3>2, <3>3, AssetStateIs DEF AssetAts
    <3>5. AssetRunInv(p)'
      BY <2>1, <3>2, <3>3 DEF AssetRunInv, HasDigest, t
    <3> QED
      BY <2>1, <3>3, <3>4, <3>5, AssetStill DEF t
  <2>5. CASE KillAsset(p)
    <3> DEFINE new == [NewAssetRun EXCEPT !.at = "killed"]
    <3>1. /\ DOMAIN new = AssetFields /\ new.at = "killed"
          /\ new.digest = NoAsset /\ new.staging = NoAsset
          /\ new.target = NoAsset /\ new.got = NoAsset /\ AssetBecomes(p, new)
      BY <2>5 DEF KillAsset, NewAssetRun, AssetFields
    <3> HIDE DEF new
    <3>2. /\ assetRun' = [assetRun EXCEPT ![p] = t] /\ t = [f \in AssetFields |-> t[f]]
          /\ t.at = "killed" /\ t.digest = NoAsset /\ t.staging = NoAsset
          /\ t.target = NoAsset /\ t.got = NoAsset
      BY <1>2, <3>1 DEF AssetFields
    <3>3. t \in AssetRunStates
      BY <3>2, AssetStateIs DEF AssetAts
    <3>4. AssetRunInv(p)'
      BY <3>2 DEF AssetRunInv, HasDigest, t
    <3> QED
      BY <2>1, <3>2, <3>3, <3>4, AssetStill DEF t
  <2> QED
    BY <1>9, <2>2, <2>3, <2>4, <2>5 DEF OpenAsset
<1> QED
  BY <1>3, <1>4, <1>5, <1>6, <1>7, <1>8, <1>9 DEF AssetStep

LEMMA AssetIsInv == AssetSpec => []AssetInv
<1>1. \A where \in AssetAts :
        /\ [NewAssetRun EXCEPT !.at = where] \in AssetRunStates
        /\ [NewAssetRun EXCEPT !.at = where].at = where
  BY DEF NewAssetRun, AssetRunStates
<1>2. AssetInit => AssetInv
  <2> SUFFICES ASSUME AssetInit PROVE AssetSound
    BY DEF AssetInv
  <2>1. NewAssetRun \in AssetRunStates
    BY DEF NewAssetRun, AssetRunStates, AssetAts
  <2>2. PICK left \in {NoAsset} \cup {d \in AssetDir : ~d.marker /\ d.by = NoAsset /\ d.synced} :
          assetCache = [d \in AssetDigests |-> IF d = <<"docker", assetTag>> THEN left ELSE NoAsset]
    BY DEF AssetInit
  <2>3. AssetTypes
    BY <2>1, <2>2 DEF AssetInit, AssetTypes
  <2>4. \A d \in AssetDigests : AssetCacheInv(d)
    BY <2>2 DEF AssetCacheInv
  <2>5. \A p \in AssetRuns : assetRun[p].at = "docker"
    BY DEF AssetInit, NewAssetRun
  <2> QED
    BY <2>3, <2>4, <2>5 DEF AssetSound, AssetRunInv, HasDigest
<1>3. ASSUME AssetSound, AssetPowerLoss PROVE AssetSound'
  <2>1. PICK q \in AssetRuns :
          assetRun' = [p \in AssetRuns |-> [NewAssetRun EXCEPT !.at = IF p = q THEN "docker" ELSE "killed"]]
    BY <1>3 DEF AssetPowerLoss
  <2>2. /\ assetRun' \in [AssetRuns -> AssetRunStates]
        /\ \A p \in AssetRuns : assetRun'[p].at \in {"docker", "killed"}
    BY <1>1, <2>1 DEF AssetAts
  <2>3. /\ assetCache' \in [AssetDigests -> AssetDir \cup {NoAsset}]
        /\ \A d \in AssetDigests : assetCache'[d] \in {NoAsset, assetCache[d]}
    <3>1. \A d \in AssetDigests : assetCache[d] # NoAsset => assetCache[d].synced
      BY <1>3 DEF AssetSound, AssetCacheInv
    <3>2. PICK lost \in SUBSET {d \in AssetDigests : assetCache[d] # NoAsset} :
            assetCache' = [d \in AssetDigests |->
              IF assetCache[d] = NoAsset \/ d \in lost THEN NoAsset
              ELSE IF assetCache[d].synced THEN assetCache[d]
              ELSE [assetCache[d] EXCEPT !.files = {}]]
      BY <1>3 DEF AssetPowerLoss
    <3>3. assetCache' = [d \in AssetDigests |->
              IF assetCache[d] = NoAsset \/ d \in lost THEN NoAsset ELSE assetCache[d]]
      BY <3>1, <3>2
    <3> QED
      BY <1>3, <3>3 DEF AssetSound, AssetTypes
  <2>4. AssetTypes'
    BY <1>3, <2>2, <2>3 DEF AssetPowerLoss, AssetSound, AssetTypes
  <2>5. \A d \in AssetDigests : AssetCacheInv(d)'
    BY <1>3, <2>3 DEF AssetSound, AssetCacheInv
  <2>6. \A p \in AssetRuns : AssetRunInv(p)'
    BY <2>2 DEF AssetRunInv, HasDigest
  <2> QED
    BY <2>4, <2>5, <2>6 DEF AssetSound
<1>4. ASSUME AssetSound, assetTag' \in Versions, UNCHANGED <<manifestOf, assetCache, assetRun>>
      PROVE  AssetSound'
  BY <1>4 DEF AssetSound, AssetTypes, AssetCacheInv, AssetRunInv, AssetReplaced, PackageComplete
<1>5. AssetInv /\ [AssetNext]_assetVars => AssetInv'
  <2> SUFFICES ASSUME AssetInv, [AssetNext]_assetVars, ~assetTorn' PROVE AssetSound'
    BY DEF AssetInv
  <2>1. ~assetTorn
    <3>1. CASE \E p \in AssetRuns : AssetStep(p)
      BY <3>1 DEF AssetStep, ResolveAsset, LoadAssetCache, DiscardAssetCache, RemoveAssetCache, StageImage,
                  StageArtifact, MarkAsset, PublishAsset, OpenAsset, UseAsset, KillAsset
    <3> QED
      BY <3>1 DEF AssetNext, MoveTag, AssetPowerLoss, assetVars
  <2>2. AssetSound
    BY <2>1 DEF AssetInv
  <2>3. CASE \E p \in AssetRuns : AssetStep(p)
    BY <2>1, <2>2, <2>3, AssetStepInv
  <2>4. CASE MoveTag \/ UNCHANGED assetVars
    <3>1. assetTag' \in Versions /\ UNCHANGED <<manifestOf, assetCache, assetRun>>
      BY <2>2, <2>4 DEF MoveTag, assetVars, AssetSound, AssetTypes
    <3> QED
      BY <1>4, <2>2, <3>1
  <2> QED
    BY <1>3, <2>2, <2>3, <2>4 DEF AssetNext
<1> QED
  BY <1>2, <1>5, PTL DEF AssetSpec

(* Unless a marked cache was torn, a package that is used is complete and   *)
(* accepted, and what is marked has the files every package needs, whoever  *)
(* is killed, wherever the tag moves and whatever a power loss takes.       *)
THEOREM AssetsAreWhole == AssetSpec => []AssetIsWhole
<1>1. AssetInv => AssetIsWhole
  <2> SUFFICES ASSUME AssetSound PROVE AssetIsWhole
    BY DEF AssetInv, AssetIsWhole
  <2> QED
    BY DEF AssetSound, AssetIsWhole, AssetRunInv, AssetCacheInv, AssetAt, ValidAssetCache, Needed
<1> QED
  BY <1>1, AssetIsInv, PTL

-----------------------------------------------------------------------------
(* The locks.                                                              *)
LocksSpec == LocksInit /\ [][LocksNext]_lockVars

FirstWorld == [cli |-> "1", store |-> LockArtifacts, package |-> "p1"]

LockWorlds == [cli : {"1", "2"}, store : SUBSET LockArtifacts, package : {"p1", NoLock}]

(* What creation writes: nothing has changed while a lock is created.      *)
TaskBody == TaskLockOf(lockAsk.task, lockAsk.judgeModel, lockAsk.provider)

CandidateBody ==
  [schema |-> CASE lockAsk.agent.protocol = "tool" -> "candidate.v1"
                [] lockAsk.agent.protocol = "a3s" -> "candidate.v2"
                [] lockAsk.agent.protocol = "codex" -> "candidate.v3",
   candidate_revision |-> "agent", artifact_digest |-> "agent",
   model |-> lockAsk.model, reasoning_effort |-> CandidateEffort,
   product |-> CASE lockAsk.agent.protocol = "tool" -> NoProduct
                 [] lockAsk.agent.protocol = "a3s" -> [NoProduct EXCEPT !.name = "a3s-cli", !.version = "1"]
                 [] lockAsk.agent.protocol = "codex" -> [name |-> "codex-cli", version |-> "codex 1",
                                                         target |-> "x86", digest |-> "p1"]]

Asked(k) == IF k = "task" THEN Sealed(TaskBody, task_identity(TaskBody))
            ELSE Sealed(CandidateBody, candidate_identity(CandidateBody))

Lockable(k) == IF k = "task" THEN TaskLockable ELSE CandidateLockable

(* What edits without a new digest leave as it was.                        *)
Unsealed(k) ==
  /\ lockFile[k] = [f \in DOMAIN lockMade[k] |-> lockFile[k][f]]
  /\ lockFile[k].lock_digest = lockMade[k].lock_digest

Settled(k) ==
  \/ lockMade[k] = NoLock /\ lockFile[k] \in {NoLock, PartialLock}
  \/ /\ lockMade[k] = Asked(k) /\ Lockable(k)
     /\ lockChanges = 0 => lockFile[k] = lockMade[k]
     /\ ~lockResealed => Unsealed(k)

LockTypes ==
  /\ lockAsk \in LockCases /\ lockWorld \in LockWorlds
  /\ lockChanges \in Nat /\ lockResealed \in BOOLEAN
  /\ lockFile = [k \in Kinds |-> lockFile[k]] /\ lockMade = [k \in Kinds |-> lockMade[k]]

LockCreation ==
  /\ lockPc \in {"task", "candidate", "write task", "write candidate", "failed"} => lockChanges = 0
  /\ lockChanges = 0 => lockWorld = FirstWorld /\ ~lockResealed
  /\ lockPc = "write task" => TaskLockable
  /\ lockPc = "write candidate" => CandidateLockable

LockLoading ==
  /\ lockPc \in {"load candidate", "load package", "resolve", "running"} =>
       WholeFile("task") /\ TaskLockLoads(lockFile["task"])
  /\ lockPc \in {"load package", "resolve", "running"} =>
       WholeFile("candidate") /\ CandidateLockLoads(lockFile["candidate"])
  /\ lockPc = "running" => ImagesNeeded \subseteq lockFile["task"].resolved_images
  /\ lockPc = "refused" => ~NothingInTheWay

LocksInv == LockTypes /\ LockCreation /\ LockLoading /\ \A k \in Kinds : Settled(k)

TaskFields == TaskFieldsV1 \cup TaskFieldsV2
LockFields(k) == IF k = "task" THEN TaskFields ELSE CandidateFields \cup {"reasoning_effort"}

(* The digest of a lock as it is sealed is the digest of its fields.       *)
LEMMA SealedIs ==
  ASSUME NEW lock, NEW id, "lock_digest" \notin DOMAIN lock
  PROVE  /\ DOMAIN Sealed(lock, id) = DOMAIN lock \cup {"lock_digest"}
         /\ Sealed(lock, id).lock_digest = id
         /\ \A f \in DOMAIN lock : Sealed(lock, id)[f] = lock[f]
  BY DEF Sealed

LEMMA BodyFields ==
  /\ DOMAIN TaskBody = TaskFields
  /\ DOMAIN CandidateBody = LockFields("candidate")
  <1>1. DOMAIN TaskBody = TaskFields
    BY DEF TaskBody, TaskLockOf, TaskFields, TaskFieldsV1, TaskFieldsV2
  <1>2. DOMAIN CandidateBody = LockFields("candidate")
    BY DEF CandidateBody, LockFields, CandidateFields
  <1> QED
    BY <1>1, <1>2

(* What creation writes, field by field.                                   *)
LEMMA TaskAsked ==
  /\ DOMAIN Asked("task") = TaskFields \cup {"lock_digest"}
  /\ \A f \in TaskFields : Asked("task")[f] = TaskBody[f]
  /\ Asked("task").lock_digest = task_identity(Asked("task"))
  <1>1. "lock_digest" \notin DOMAIN TaskBody
    BY BodyFields DEF TaskFields, TaskFieldsV1, TaskFieldsV2
  <1>2. Asked("task") = Sealed(TaskBody, task_identity(TaskBody))
    BY DEF Asked
  <1>3. /\ DOMAIN Asked("task") = TaskFields \cup {"lock_digest"}
        /\ \A f \in TaskFields : Asked("task")[f] = TaskBody[f]
        /\ Asked("task").lock_digest = task_identity(TaskBody)
    BY <1>1, <1>2, BodyFields, SealedIs
  <1>4. "schema" \in TaskFields /\ TaskFieldsV1 \subseteq TaskFields /\ TaskFieldsV2 \subseteq TaskFields
    BY DEF TaskFields, TaskFieldsV1
  <1>5. task_identity(Asked("task")) = task_identity(TaskBody)
    BY <1>3, <1>4 DEF task_identity
  <1> QED
    BY <1>3, <1>5

LEMMA CandidateAsked ==
  /\ DOMAIN Asked("candidate") = LockFields("candidate") \cup {"lock_digest"}
  /\ \A f \in LockFields("candidate") : Asked("candidate")[f] = CandidateBody[f]
  /\ Asked("candidate").lock_digest = candidate_identity(Asked("candidate"))
  <1>1. "lock_digest" \notin DOMAIN CandidateBody
    BY BodyFields DEF LockFields, CandidateFields
  <1>2. Asked("candidate") = Sealed(CandidateBody, candidate_identity(CandidateBody))
    BY DEF Asked
  <1>3. /\ DOMAIN Asked("candidate") = LockFields("candidate") \cup {"lock_digest"}
        /\ \A f \in LockFields("candidate") : Asked("candidate")[f] = CandidateBody[f]
        /\ Asked("candidate").lock_digest = candidate_identity(CandidateBody)
    BY <1>1, <1>2, BodyFields, SealedIs
  <1>4. /\ "schema" \in LockFields("candidate") /\ "reasoning_effort" \in LockFields("candidate")
        /\ CandidateFields \subseteq LockFields("candidate")
    BY DEF LockFields, CandidateFields
  <1>5. candidate_identity(Asked("candidate")) = candidate_identity(CandidateBody)
    BY <1>3, <1>4 DEF candidate_identity
  <1> QED
    BY <1>3, <1>5

(* A lock that an edit changed without a new digest does not load: the     *)
(* fields that the digest of an old schema leaves out must be absent, and  *)
(* creation left them absent.                                              *)
LEMMA TaskBinds ==
  ASSUME LocksInv, ~lockResealed, lockMade["task"] = Asked("task"), Unsealed("task"),
         TaskLockLoads(lockFile["task"])
  PROVE  lockFile["task"] = lockMade["task"]
  <1> DEFINE file == lockFile["task"]
             made == Asked("task")
  <1>1. /\ DOMAIN made = TaskFields \cup {"lock_digest"} /\ made.lock_digest = task_identity(made)
        /\ file = [f \in DOMAIN made |-> file[f]] /\ file.lock_digest = made.lock_digest
    BY TaskAsked DEF Unsealed
  <1>2. task_identity(file) = task_identity(made) /\ file.schema \in {"task.v1", "task.v2"}
    BY <1>1 DEF TaskLockLoads
  <1>3. /\ lockAsk.task.schema = "v1" => file.schema = "task.v1" /\ \A f \in TaskFieldsV2 : file[f] = NoLock
        /\ lockAsk.task.schema = "v2" => file.schema = "task.v2"
        /\ lockAsk.task.schema \in {"v1", "v2"}
    BY DEF TaskLockLoads
  <1>4. lockAsk.task.schema = "v1" => \A f \in TaskFieldsV2 : made[f] = NoLock
    BY TaskAsked DEF TaskFields, TaskFieldsV2, TaskBody, TaskLockOf
  <1> HIDE DEF file, made
  <1> DEFINE covered(lock) == TaskFieldsV1 \cup (IF lock.schema = "task.v2" THEN TaskFieldsV2 ELSE {})
  <1>5. [f \in covered(file) |-> file[f]] = [f \in covered(made) |-> made[f]]
    BY <1>2 DEF task_identity
  <1>6. covered(file) = covered(made) /\ \A f \in covered(file) : file[f] = made[f]
    <2>1. DOMAIN [f \in covered(file) |-> file[f]] = DOMAIN [f \in covered(made) |-> made[f]]
      BY <1>5
    <2>2. covered(file) = covered(made)
      BY <2>1
    <2> HIDE DEF covered
    <2>3. ASSUME NEW f \in covered(file) PROVE file[f] = made[f]
      <3>1. [g \in covered(file) |-> file[g]][f] = [g \in covered(made) |-> made[g]][f]
        BY <1>5
      <3> QED
        BY <2>2, <3>1
    <2> QED
      BY <2>2, <2>3
  <1>7. \A f \in TaskFieldsV1 : file[f] = made[f]
    BY <1>6
  <1>8. \A f \in TaskFieldsV2 : file[f] = made[f]
    <2>1. CASE lockAsk.task.schema = "v1"
      BY <1>3, <1>4, <2>1
    <2>2. CASE lockAsk.task.schema = "v2"
      BY <1>3, <1>6, <2>2
    <2> QED
      BY <1>3, <2>1, <2>2
  <1>9. \A f \in DOMAIN made : file[f] = made[f]
    BY <1>1, <1>7, <1>8 DEF TaskFields
  <1>10. made = [f \in DOMAIN made |-> made[f]]
    BY DEF made, Asked, Sealed
  <1>11. file = made
    BY <1>1, <1>9, <1>10
  <1> QED
    BY <1>11 DEF file, made

LEMMA CandidateBinds ==
  ASSUME LocksInv, ~lockResealed, lockMade["candidate"] = Asked("candidate"), CandidateLockable,
         Unsealed("candidate"), CandidateLockLoads(lockFile["candidate"])
  PROVE  lockFile["candidate"] = lockMade["candidate"]
  <1> DEFINE file == lockFile["candidate"]
             made == Asked("candidate")
             protocol == lockAsk.agent.protocol
  <1>1. /\ DOMAIN made = LockFields("candidate") \cup {"lock_digest"}
        /\ made.lock_digest = candidate_identity(made)
        /\ file = [f \in DOMAIN made |-> file[f]] /\ file.lock_digest = made.lock_digest
    BY CandidateAsked DEF Unsealed
  <1>2. candidate_identity(file) = candidate_identity(made)
    BY <1>1 DEF CandidateLockLoads
  <1>3. protocol \in {"tool", "a3s", "codex"}
    BY LockCasesAre DEF LocksInv, LockTypes
  <1>4. /\ protocol = "codex" => file.schema = "candidate.v3"
        /\ protocol # "codex" => file.reasoning_effort = NoLock
    BY <1>3 DEF CandidateLockLoads, ProductFits, WithoutEffort
  <1>5. protocol # "codex" => made.reasoning_effort = NoLock
    BY CandidateAsked DEF LockFields, CandidateFields, CandidateBody, CandidateEffort, CandidateLockable
  <1> HIDE DEF file, made, protocol
  <1> DEFINE covered(lock) ==
               CandidateFields \cup (IF lock.schema = "candidate.v3" THEN {"reasoning_effort"} ELSE {})
  <1>6. [f \in covered(file) |-> file[f]] = [f \in covered(made) |-> made[f]]
    BY <1>2 DEF candidate_identity
  <1>7. covered(file) = covered(made) /\ \A f \in covered(file) : file[f] = made[f]
    <2>1. DOMAIN [f \in covered(file) |-> file[f]] = DOMAIN [f \in covered(made) |-> made[f]]
      BY <1>6
    <2>2. covered(file) = covered(made)
      BY <2>1
    <2> HIDE DEF covered
    <2>3. ASSUME NEW f \in covered(file) PROVE file[f] = made[f]
      <3>1. [g \in covered(file) |-> file[g]][f] = [g \in covered(made) |-> made[g]][f]
        BY <1>6
      <3> QED
        BY <2>2, <3>1
    <2> QED
      BY <2>2, <2>3
  <1>8. \A f \in CandidateFields : file[f] = made[f]
    BY <1>7
  <1>9. file.reasoning_effort = made.reasoning_effort
    BY <1>4, <1>5, <1>7
  <1>10. \A f \in DOMAIN made : file[f] = made[f]
    BY <1>1, <1>8, <1>9 DEF LockFields
  <1>11. made = [f \in DOMAIN made |-> made[f]]
    BY DEF made, Asked, Sealed
  <1>12. file = made
    BY <1>1, <1>10, <1>11
  <1> QED
    BY <1>12 DEF file, made

(* Every lock that creation accepts is one that a run accepts, when        *)
(* nothing has changed since.                                              *)
LEMMA MadeLoads ==
  ASSUME LocksInv, NothingInTheWay
  PROVE  /\ TaskLockLoads(lockFile["task"]) /\ CandidateLockLoads(lockFile["candidate"])
         /\ LET product == lockFile["candidate"].product IN
              product = NoProduct \/ LoadsCached(product, lockAsk.task.platform)
         /\ lockAsk.runtime = "os" => OsAccepts
         /\ ImagesNeeded \subseteq lockFile["task"].resolved_images
  <1> DEFINE task == lockFile["task"]
             candidate == lockFile["candidate"]
             protocol == lockAsk.agent.protocol
  <1>1. /\ lockWorld = FirstWorld /\ lockAsk \in LockCases
        /\ task = Asked("task") /\ candidate = Asked("candidate") /\ TaskLockable /\ CandidateLockable
    BY DEF LocksInv, LockTypes, LockCreation, NothingInTheWay, Settled, WholeFile, Kinds, Lockable
  <1>2. /\ protocol \in {"tool", "codex"} /\ lockAsk.task.schema \in {"v1", "v2"}
        /\ protocol = "codex" => lockAsk.task.platform \in {NoLock, "x86"}
        /\ lockAsk.runtime = "os" => OsAccepts
        /\ lockAsk.runtime = lockAsk.provider
    BY <1>1, LockCasesAre DEF NothingInTheWay
  <1>3. /\ task.schema = TaskBody.schema /\ task.task_revision = "task" /\ task.artifact_digest = "task"
        /\ task.judge_revision = "judge" /\ task.judge_artifact_digest = "judge"
        /\ task.judge_model = TaskBody.judge_model /\ task.resolved_images = TaskBody.resolved_images
        /\ task.resources = TaskBody.resources /\ task.workspace_imports = TaskBody.workspace_imports
        /\ task.network_allow_hosts = TaskBody.network_allow_hosts
        /\ task.lock_digest = task_identity(task)
    BY <1>1, TaskAsked DEF TaskFields, TaskFieldsV1, TaskFieldsV2, TaskBody, TaskLockOf
  <1>4. /\ candidate.schema = CandidateBody.schema /\ candidate.candidate_revision = "agent"
        /\ candidate.artifact_digest = "agent" /\ candidate.model = lockAsk.model
        /\ candidate.reasoning_effort = CandidateEffort /\ candidate.product = CandidateBody.product
        /\ candidate.lock_digest = candidate_identity(candidate)
    BY <1>1, CandidateAsked DEF LockFields, CandidateFields, CandidateBody
  <1> HIDE DEF task, candidate, protocol
  <1>5. TaskLockLoads(task)
    <2>1. lockWorld.store = LockArtifacts
      BY <1>1 DEF FirstWorld
    <2>2. /\ TaskBody.schema = IF lockAsk.task.schema = "v1" THEN "task.v1" ELSE "task.v2"
          /\ TaskBody.judge_model = IF RequiresModel(lockAsk.task) THEN lockAsk.judgeModel ELSE NoLock
          /\ TaskBody.resources = IF lockAsk.task.schema = "v1" THEN NoLock ELSE lockAsk.task.resources
          /\ TaskBody.workspace_imports = IF lockAsk.task.schema = "v1" THEN NoLock ELSE lockAsk.task.imports
          /\ TaskBody.network_allow_hosts =
               IF lockAsk.task.schema = "v1" \/ lockAsk.task.hosts = {} THEN NoLock ELSE lockAsk.task.hosts
      BY DEF TaskBody, TaskLockOf
    <2>3. RequiresModel(lockAsk.task) => lockAsk.judgeModel # NoLock /\ lockAsk.judgeModel # "malformed"
      BY <1>1 DEF TaskLockable, ModelOk
    <2>4. /\ RequiresModel(lockAsk.task) = (task.judge_model # NoLock) /\ ModelOk(task.judge_model)
      <3>1. RequiresModel(lockAsk.task) \in BOOLEAN
        BY DEF RequiresModel
      <3> QED
        BY <1>3, <2>2, <2>3, <3>1, NoLockIsNone DEF ModelOk
    <2>5. <<task.schema, lockAsk.task.schema>> \in {<<"task.v1", "v1">>, <<"task.v2", "v2">>}
      BY <1>2, <1>3, <2>2
    <2>6. lockAsk.task.schema = "v1" => \A f \in TaskFieldsV2 : task[f] = NoLock
      BY <1>3, <2>2 DEF TaskFieldsV2
    <2> QED
      BY <1>2, <1>3, <2>1, <2>2, <2>4, <2>5, <2>6, NoLockIsNone DEF TaskLockLoads, LockArtifacts
  <1> DEFINE made == [name |-> "codex-cli", version |-> "codex 1", target |-> "x86", digest |-> "p1"]
  <1>6. /\ protocol = "tool" => CandidateBody.schema = "candidate.v1" /\ CandidateBody.product = NoProduct
        /\ protocol = "codex" => CandidateBody.schema = "candidate.v3" /\ CandidateBody.product = made
    BY DEF CandidateBody, protocol
  <1>7. made.name = "codex-cli" /\ made.version = "codex 1" /\ made.target = "x86" /\ made.digest = "p1"
    OBVIOUS
  <1> HIDE DEF made
  <1>8. /\ protocol = "tool" => CandidateEffort = NoLock
        /\ protocol = "codex" => ModelOk(lockAsk.model) /\ EffortOk(CandidateEffort)
                                 /\ validate_model_reasoning_compatibility(lockAsk.model, CandidateEffort)
    BY <1>1 DEF CandidateLockable, CandidateEffort, EffortOk, protocol
  <1>9. lockWorld.store = LockArtifacts /\ lockWorld.package = "p1"
    BY <1>1 DEF FirstWorld
  <1>10. ASSUME protocol = "codex", NEW platform \in {NoLock, "x86"}
        PROVE  LoadsCached(CandidateBody.product, platform)
    <2>1. /\ CandidateBody.product.target = "x86" /\ CandidateBody.product.digest = "p1"
          /\ CandidateBody.product.version = "codex 1"
      BY <1>6, <1>10, <1>7, Zenon
    <2>2. "x86" # NoLock /\ "p1" # NoLock
      BY NoLockIsNone
    <2> QED
      BY <1>9, <1>10, <2>1, <2>2 DEF LoadsCached
  <1>11. ProductFits(candidate)
    <2>1. CASE protocol = "tool"
      BY <1>4, <1>6, <1>8, <2>1 DEF ProductFits, WithoutEffort, protocol
    <2>2. CASE protocol = "codex"
      <3>1. candidate.product.name = "codex-cli" /\ candidate.schema = "candidate.v3"
        BY <1>4, <1>6, <1>7, <2>2, Zenon
      <3>2. LoadsCached(candidate.product, NoLock)
        BY <1>4, <1>10, <2>2
      <3> HIDE DEF NoProduct
      <3> QED
        BY <2>2, <3>1, <3>2 DEF ProductFits, protocol
    <2> QED
      BY <1>2, <2>1, <2>2
  <1>12. CandidateLockLoads(candidate)
    BY <1>2, <1>4, <1>6, <1>8, <1>9, <1>11 DEF CandidateLockLoads, LockArtifacts
  <1>13. candidate.product = NoProduct \/ LoadsCached(candidate.product, lockAsk.task.platform)
    BY <1>2, <1>4, <1>6, <1>10
  <1>14. ImagesNeeded \subseteq task.resolved_images
    <2>1. TaskBody.resolved_images =
            IF lockAsk.provider = "os" THEN Runners ELSE task_image_references(lockAsk.task)
      BY DEF TaskBody, TaskLockOf
    <2>2. CASE lockAsk.provider = "os"
      BY <1>2, <1>3, <2>1, <2>2 DEF ImagesNeeded
    <2>3. CASE lockAsk.provider # "os"
      <3>1. ImagesNeeded \subseteq task_image_references(lockAsk.task)
        BY <1>2, <2>3 DEF ImagesNeeded, task_image_references, Image
      <3> QED
        BY <1>3, <2>1, <2>3, <3>1
    <2> QED
      BY <2>2, <2>3
  <1> QED
    BY <1>2, <1>5, <1>12, <1>13, <1>14 DEF task, candidate

LEMMA LocksInvInit == LocksInit => LocksInv
  <1> SUFFICES ASSUME LocksInit PROVE LocksInv
    OBVIOUS
  <1>1. LockTypes
    BY DEF LocksInit, LockTypes, LockWorlds
  <1>2. LockCreation
    BY DEF LocksInit, LockCreation, FirstWorld
  <1>3. LockLoading
    BY DEF LocksInit, LockLoading
  <1>4. \A k \in Kinds : Settled(k)
    BY DEF LocksInit, Settled
  <1> QED
    BY <1>1, <1>2, <1>3, <1>4 DEF LocksInv

(* What the command's next step says of the files, it says in the next     *)
(* state when only the command goes on.                                    *)
LEMMA OnlyGoes ==
  ASSUME UNCHANGED <<lockAsk, lockMade, lockWorld, lockChanges, lockResealed, lockFile>>
  PROVE  /\ \A k \in Kinds : Settled(k)' <=> Settled(k)
         /\ TaskLockable' <=> TaskLockable
         /\ CandidateLockable' <=> CandidateLockable
         /\ \A k \in Kinds : WholeFile(k)' <=> WholeFile(k)
         /\ TaskLockLoads(lockFile["task"])' <=> TaskLockLoads(lockFile["task"])
         /\ CandidateLockLoads(lockFile["candidate"])' <=> CandidateLockLoads(lockFile["candidate"])
         /\ ImagesNeeded' = ImagesNeeded
         /\ NothingInTheWay' <=> NothingInTheWay
  <1>1. TaskLockable' <=> TaskLockable
    BY DEF TaskLockable
  <1>2. CandidateEffort' = CandidateEffort
    BY DEF CandidateEffort
  <1>3. CandidateLockable' <=> CandidateLockable
    BY <1>2 DEF CandidateLockable
  <1>4. TaskBody' = TaskBody /\ CandidateBody' = CandidateBody
    BY <1>2 DEF TaskBody, CandidateBody
  <1>5. ASSUME NEW k \in Kinds PROVE Asked(k)' = Asked(k)
    BY <1>4 DEF Asked
  <1>6. ASSUME NEW k \in Kinds PROVE Settled(k)' <=> Settled(k)
    BY <1>1, <1>3, <1>5 DEF Settled, Lockable, Unsealed
  <1>7. \A k \in Kinds : WholeFile(k)' <=> WholeFile(k)
    BY DEF WholeFile
  <1>8. TaskLockLoads(lockFile["task"])' <=> TaskLockLoads(lockFile["task"])
    BY DEF TaskLockLoads
  <1>9. CandidateLockLoads(lockFile["candidate"])' <=> CandidateLockLoads(lockFile["candidate"])
    BY DEF CandidateLockLoads, ProductFits, LoadsCached
  <1>10. ImagesNeeded' = ImagesNeeded
    BY DEF ImagesNeeded
  <1>11. OsAccepts' <=> OsAccepts
    BY DEF OsAccepts
  <1>12. NothingInTheWay' <=> NothingInTheWay
    BY <1>7, <1>11 DEF NothingInTheWay
  <1> QED
    BY <1>1, <1>3, <1>6, <1>7, <1>8, <1>9, <1>10, <1>12

(* The steps of a command that writes no file.                             *)
LEMMA GoingKeeps ==
  ASSUME LocksInv,
         CreateLockFails \/ WriteLockFails \/ LockAgain \/ RunLocked
           \/ LoadTask \/ LoadCandidate \/ LoadPackage \/ ResolveInputs
  PROVE  LocksInv'
  <1>1. UNCHANGED <<lockAsk, lockMade, lockWorld, lockChanges, lockResealed, lockFile>>
    BY DEF CreateLockFails, WriteLockFails, LockAgain, RunLocked, LoadTask, LoadCandidate, LoadPackage,
           ResolveInputs, LoadStep, LockGoes
  <1>2. LockTypes' /\ \A k \in Kinds : Settled(k)'
    BY <1>1, OnlyGoes DEF LocksInv, LockTypes
  <1>3. LockCreation'
    <2>1. lockPc' \in {"task", "candidate", "write task", "write candidate", "failed"} => lockChanges = 0
      BY DEF LocksInv, LockCreation, CreateLockFails, WriteLockFails, LockAgain, RunLocked, LoadTask, LoadCandidate,
             LoadPackage, ResolveInputs, LoadStep, LockGoes, Kinds
    <2>2. lockPc' \notin {"write task", "write candidate"}
      BY DEF CreateLockFails, WriteLockFails, LockAgain, RunLocked, LoadTask, LoadCandidate,
             LoadPackage, ResolveInputs, LoadStep, LockGoes, Kinds
    <2> QED
      BY <1>1, <2>1, <2>2 DEF LocksInv, LockCreation
  <1>4. LockLoading'
    <2>1. CASE CreateLockFails \/ WriteLockFails \/ LockAgain \/ RunLocked
      <3>1. lockPc' \in {"task", "candidate", "failed", "load task"}
        BY <2>1 DEF CreateLockFails, WriteLockFails, LockAgain, RunLocked, LockGoes, Kinds
      <3> QED
        BY <3>1 DEF LockLoading
    <2>2. CASE LoadTask
      <3>1. \/ lockPc' = "load candidate" /\ WholeFile("task") /\ TaskLockLoads(lockFile["task"])
            \/ lockPc' = "refused" /\ ~(WholeFile("task") /\ TaskLockLoads(lockFile["task"]))
        BY <2>2 DEF LoadTask, LoadStep, LockGoes
      <3>2. lockPc' = "refused" => ~NothingInTheWay
        BY <3>1, MadeLoads DEF NothingInTheWay, Kinds
      <3> QED
        BY <1>1, <3>1, <3>2, OnlyGoes DEF LockLoading, Kinds
    <2>3. CASE LoadCandidate
      <3>1. /\ lockPc = "load candidate"
            /\ \/ lockPc' = "load package" /\ WholeFile("candidate") /\ CandidateLockLoads(lockFile["candidate"])
               \/ lockPc' = "refused" /\ ~(WholeFile("candidate") /\ CandidateLockLoads(lockFile["candidate"]))
        BY <2>3 DEF LoadCandidate, LoadStep, LockGoes
      <3>2. lockPc' = "refused" => ~NothingInTheWay
        BY <3>1, MadeLoads DEF NothingInTheWay, Kinds
      <3> QED
        BY <1>1, <3>1, <3>2, OnlyGoes DEF LocksInv, LockLoading, Kinds
    <2>4. CASE LoadPackage
      <3>1. /\ lockPc = "load package" /\ lockPc' \in {"resolve", "refused"}
            /\ lockPc' = "refused" =>
                 ~LET product == lockFile["candidate"].product IN
                    product = NoProduct \/ LoadsCached(product, lockAsk.task.platform)
        BY <2>4 DEF LoadPackage, LoadStep, LockGoes
      <3>2. lockPc' = "refused" => ~NothingInTheWay
        BY <3>1, MadeLoads
      <3> QED
        BY <1>1, <3>1, <3>2, OnlyGoes DEF LocksInv, LockLoading, Kinds
    <2>5. CASE ResolveInputs
      <3>1. /\ lockPc = "resolve"
            /\ \/ lockPc' = "running" /\ ImagesNeeded \subseteq lockFile["task"].resolved_images
               \/ /\ lockPc' = "refused"
                  /\ ~((lockAsk.runtime = "os" => OsAccepts) /\ ImagesNeeded \subseteq lockFile["task"].resolved_images)
        BY <2>5 DEF ResolveInputs, LoadStep, LockGoes
      <3>2. lockPc' = "refused" => ~NothingInTheWay
        BY <3>1, MadeLoads
      <3> QED
        BY <1>1, <3>1, <3>2, OnlyGoes DEF LocksInv, LockLoading, Kinds
    <2> QED
      BY <2>1, <2>2, <2>3, <2>4, <2>5
  <1> QED
    BY <1>2, <1>3, <1>4 DEF LocksInv

LEMMA AskedStays ==
  ASSUME lockAsk' = lockAsk, NEW k \in Kinds
  PROVE  Asked(k)' = Asked(k) /\ (Lockable(k)' <=> Lockable(k))
  <1>1. CandidateEffort' = CandidateEffort
    BY DEF CandidateEffort
  <1>2. TaskBody' = TaskBody /\ CandidateBody' = CandidateBody
    BY <1>1 DEF TaskBody, CandidateBody
  <1>3. (TaskLockable' <=> TaskLockable) /\ (CandidateLockable' <=> CandidateLockable)
    BY <1>1 DEF TaskLockable, CandidateLockable
  <1> QED
    BY <1>2, <1>3 DEF Asked, Lockable

(* A file appears, before it is filled.                                    *)
LEMMA CreatingKeeps ==
  ASSUME LocksInv, CreateTask \/ CreateCandidate
  PROVE  LocksInv'
  <1>1. PICK k \in Kinds :
          /\ lockPc = k /\ lockPc' = (IF k = "task" THEN "write task" ELSE "write candidate") /\ Lockable(k)
          /\ lockFile[k] = NoLock /\ lockFile' = [lockFile EXCEPT ![k] = PartialLock]
          /\ UNCHANGED <<lockAsk, lockMade, lockWorld, lockChanges, lockResealed>>
    BY DEF CreateTask, CreateCandidate, CreateExclusive, LockGoes, Kinds, Lockable
  <1>2. lockFile'[k] = PartialLock /\ \A other \in Kinds \ {k} : lockFile'[other] = lockFile[other]
    BY <1>1 DEF LocksInv, LockTypes
  <1>3. LockTypes'
    BY <1>1 DEF LocksInv, LockTypes
  <1>4. LockCreation' /\ LockLoading'
    BY <1>1, AskedStays DEF LocksInv, LockCreation, LockLoading, Kinds, Lockable
  <1>5. ASSUME NEW other \in Kinds PROVE Settled(other)'
    <2>1. Settled(other) /\ lockChanges = 0 /\ ~lockResealed
      BY <1>1 DEF LocksInv, LockCreation, Kinds
    <2>2. CASE other # k
      BY <1>1, <1>2, <2>1, <2>2, AskedStays DEF Settled, Unsealed
    <2>3. CASE other = k
      <3>1. CASE lockMade[k] = NoLock
        BY <1>1, <1>2, <2>3, <3>1 DEF Settled
      <3>2. CASE lockMade[k] = Asked(k) /\ lockFile[k] = lockMade[k]
        BY <1>1, <1>2, <2>3, <3>2 DEF Settled
      <3> QED
        BY <2>1, <2>3, <3>1, <3>2 DEF Settled
    <2> QED
      BY <2>2, <2>3
  <1> QED
    BY <1>3, <1>4, <1>5 DEF LocksInv

(* A file is filled with what was asked for.                               *)
LEMMA WritingKeeps ==
  ASSUME LocksInv, WriteTask \/ WriteCandidate
  PROVE  LocksInv'
  <1>1. lockWorld = FirstWorld /\ lockChanges = 0 /\ ~lockResealed
    BY DEF LocksInv, LockCreation, WriteTask, WriteCandidate
  <1>2. CandidateLockOf(lockAsk.agent, lockAsk.model, CandidateEffort) = CandidateBody
    BY <1>1 DEF CandidateLockOf, CandidateBody, FirstWorld
  <1>3. PICK k \in Kinds :
          /\ Lockable(k) /\ lockPc' \in {"candidate", "kept", "load task"}
          /\ lockFile' = [lockFile EXCEPT ![k] = Asked(k)] /\ lockMade' = [lockMade EXCEPT ![k] = Asked(k)]
          /\ UNCHANGED <<lockAsk, lockWorld, lockChanges, lockResealed>>
    <2>1. CASE WriteTask
      <3>1. Written("task", Asked("task"), "candidate") /\ TaskLockable
        BY <2>1 DEF WriteTask, Asked, TaskBody, LocksInv, LockCreation
      <3> QED
        BY <3>1 DEF Written, Lockable, Kinds
    <2>2. CASE WriteCandidate
      <3>1. /\ Written("candidate", Asked("candidate"), IF lockAsk.locked THEN "kept" ELSE "load task")
            /\ CandidateLockable
        BY <1>2, <2>2 DEF WriteCandidate, Asked, LocksInv, LockCreation
      <3> QED
        BY <3>1 DEF Written, Lockable, Kinds
    <2> QED
      BY <2>1, <2>2
  <1>4. /\ lockFile'[k] = Asked(k) /\ lockMade'[k] = Asked(k)
        /\ \A other \in Kinds \ {k} : lockFile'[other] = lockFile[other] /\ lockMade'[other] = lockMade[other]
    BY <1>3 DEF LocksInv, LockTypes
  <1>5. LockTypes'
    BY <1>3 DEF LocksInv, LockTypes
  <1>6. LockCreation' /\ LockLoading'
    BY <1>1, <1>3 DEF LockCreation, LockLoading, FirstWorld
  <1>7. ASSUME NEW other \in Kinds PROVE Settled(other)'
    <2>1. CASE other # k
      BY <1>3, <1>4, <2>1, AskedStays DEF LocksInv, Settled, Unsealed
    <2>2. CASE other = k
      <3>1. Asked(k) = [f \in DOMAIN Asked(k) |-> Asked(k)[f]]
        BY DEF Asked, Sealed
      <3>2. lockMade'[k] = Asked(k)' /\ Lockable(k)'
        BY <1>3, <1>4, AskedStays
      <3> QED
        BY <1>4, <2>2, <3>1, <3>2 DEF Settled, Unsealed
    <2> QED
      BY <2>1, <2>2
  <1> QED
    BY <1>5, <1>6, <1>7 DEF LocksInv

(* What happens between the lock commands and the run.                     *)
LEMMA ChangingKeeps ==
  ASSUME LocksInv, EditLock \/ WorldChanges
  PROVE  LocksInv'
  <1>1. /\ lockPc' = "kept" /\ lockAsk' = lockAsk /\ lockMade' = lockMade /\ lockChanges' = lockChanges + 1
        /\ lockChanges \in Nat /\ lockChanges' \in Nat /\ lockChanges' # 0
    BY DEF LocksInv, LockTypes, EditLock, WorldChanges
  <1>2. LockCreation' /\ LockLoading'
    BY <1>1 DEF LockCreation, LockLoading
  <1>3. CASE WorldChanges
    <2>1. lockFile' = lockFile /\ lockResealed' = lockResealed
      BY <1>3 DEF WorldChanges
    <2>2. lockWorld' \in LockWorlds
      BY <1>3 DEF WorldChanges, LocksInv, LockTypes, LockWorlds
    <2>3. LockTypes'
      BY <1>1, <2>1, <2>2 DEF LocksInv, LockTypes
    <2>4. \A k \in Kinds : Settled(k)'
      BY <1>1, <2>1, AskedStays DEF LocksInv, Settled, Unsealed
    <2> QED
      BY <1>2, <2>3, <2>4 DEF LocksInv
  <1>4. CASE EditLock
    <2>0. PICK k \in Kinds : WholeFile(k) /\ \E f \in DOMAIN lockFile[k] \ {"lock_digest"} :
            \E v \in OtherValues(k, f), reseal \in BOOLEAN :
              LET new == [lockFile[k] EXCEPT ![f] = v] IN
              /\ lockFile' = [lockFile EXCEPT ![k] = IF reseal THEN Sealed(new, identity(k, new)) ELSE new]
              /\ lockResealed' = (lockResealed \/ reseal)
      BY <1>4 DEF EditLock
    <2>1. PICK f \in DOMAIN lockFile[k] \ {"lock_digest"} :
            \E v \in OtherValues(k, f), reseal \in BOOLEAN :
              LET new == [lockFile[k] EXCEPT ![f] = v] IN
              /\ lockFile' = [lockFile EXCEPT ![k] = IF reseal THEN Sealed(new, identity(k, new)) ELSE new]
              /\ lockResealed' = (lockResealed \/ reseal)
      BY <2>0
    <2>2. PICK v \in OtherValues(k, f), reseal \in BOOLEAN :
            LET new == [lockFile[k] EXCEPT ![f] = v] IN
            /\ lockFile' = [lockFile EXCEPT ![k] = IF reseal THEN Sealed(new, identity(k, new)) ELSE new]
            /\ lockResealed' = (lockResealed \/ reseal)
      BY <2>1
    <2>3. LockTypes'
      BY <1>1, <1>4, <2>2 DEF LocksInv, LockTypes, EditLock
    <2>4. lockMade[k] = Asked(k) /\ Lockable(k) /\ (~lockResealed => Unsealed(k))
      BY <2>0 DEF LocksInv, Settled, WholeFile
    <2>5. ASSUME ~lockResealed' PROVE Unsealed(k)'
      <3> DEFINE new == [lockFile[k] EXCEPT ![f] = v]
      <3>1. lockFile'[k] = new /\ ~lockResealed
        BY <2>2, <2>5 DEF LocksInv, LockTypes
      <3>2. lockFile[k] = [g \in DOMAIN lockMade[k] |-> lockFile[k][g]]
        BY <2>4, <3>1 DEF Unsealed
      <3>3. DOMAIN new = DOMAIN lockMade[k] /\ new = [g \in DOMAIN new |-> new[g]]
        BY <3>2
      <3>4. "lock_digest" \in DOMAIN lockMade[k]
        BY <2>4, TaskAsked, CandidateAsked DEF Kinds
      <3>5. new.lock_digest = lockFile[k].lock_digest
        BY <2>1, <3>2, <3>4
      <3> HIDE DEF new
      <3> QED
        BY <1>1, <2>4, <3>1, <3>3, <3>5 DEF Unsealed
    <2>6. ASSUME NEW other \in Kinds, other # k PROVE lockFile'[other] = lockFile[other]
      BY <2>2, <2>6 DEF LocksInv, LockTypes
    <2>7. lockResealed \in BOOLEAN /\ (~lockResealed' => ~lockResealed)
      BY <2>2 DEF LocksInv, LockTypes
    <2>8. ASSUME NEW other \in Kinds PROVE Settled(other)'
      <3>1. CASE other = k
        BY <1>1, <2>4, <2>5, <3>1, AskedStays DEF Settled
      <3>2. CASE other # k
        BY <1>1, <2>6, <2>7, <3>2, AskedStays DEF LocksInv, Settled, Unsealed
      <3> QED
        BY <3>1, <3>2
    <2> QED
      BY <1>2, <2>3, <2>8 DEF LocksInv
  <1> QED
    BY <1>3, <1>4

LEMMA LocksInvNext == LocksInv /\ [LocksNext]_lockVars => LocksInv'
  <1> SUFFICES ASSUME LocksInv, [LocksNext]_lockVars PROVE LocksInv'
    OBVIOUS
  <1>1. CASE LocksNext
    BY <1>1, GoingKeeps, CreatingKeeps, WritingKeeps, ChangingKeeps DEF LocksNext
  <1>2. CASE UNCHANGED lockVars
    <2>1. /\ UNCHANGED <<lockAsk, lockMade, lockWorld, lockChanges, lockResealed, lockFile>>
          /\ lockPc' = lockPc
      BY <1>2 DEF lockVars
    <2> QED
      BY <2>1, OnlyGoes DEF LocksInv, LockTypes, LockCreation, LockLoading, Kinds
  <1> QED
    BY <1>1, <1>2

(* lock.rs, run_input.rs: whatever is locked, however many fields are      *)
(* edited and whatever changes on the host, a run goes on only with the    *)
(* locks as they were created unless a digest was computed anew, and locks *)
(* that creation accepted are refused only for a reason.                   *)
THEOREM LocksBind == LocksSpec => []LockIsBinding
  <1>1. LocksInv => LockIsBinding
    <2> SUFFICES ASSUME LocksInv, lockPc = "running" PROVE LockIsBinding
      BY DEF LocksInv, LockLoading, LockIsBinding
    <2>1. /\ WholeFile("task") /\ TaskLockLoads(lockFile["task"])
          /\ WholeFile("candidate") /\ CandidateLockLoads(lockFile["candidate"])
          /\ ImagesNeeded \subseteq lockFile["task"].resolved_images
      BY DEF LocksInv, LockLoading
    <2>2. lockResealed \/ lockFile = lockMade
      <3> SUFFICES ASSUME ~lockResealed PROVE lockFile = lockMade
        OBVIOUS
      <3>1. \A k \in Kinds : lockMade[k] = Asked(k) /\ Lockable(k) /\ Unsealed(k)
        BY <2>1 DEF LocksInv, Settled, WholeFile, Kinds
      <3>2. \A k \in Kinds : lockFile[k] = lockMade[k]
        BY <2>1, <3>1, TaskBinds, CandidateBinds DEF Kinds, Lockable
      <3> QED
        BY <3>2 DEF LocksInv, LockTypes
    <2>3. lockWorld.store = LockArtifacts
      BY <2>1 DEF LocksInv, LockTypes, LockWorlds, LockArtifacts, TaskLockLoads, CandidateLockLoads
    <2>4. LET t == lockFile["task"] IN
          /\ t.resources = IF lockAsk.task.schema = "v1" THEN NoLock ELSE lockAsk.task.resources
          /\ t.network_allow_hosts # NoLock => t.network_allow_hosts = lockAsk.task.hosts
          /\ lockAsk.task.hosts # {} => t.network_allow_hosts # NoLock
          /\ (t.judge_model # NoLock) = RequiresModel(lockAsk.task)
      BY <2>1, LockCasesAre DEF LocksInv, LockTypes, TaskLockLoads, TaskFieldsV2
    <2>5. lockAsk.agent.protocol \in {"tool", "a3s", "codex"}
      BY LockCasesAre DEF LocksInv, LockTypes
    <2>6. LET c == lockFile["candidate"] IN
          /\ c.reasoning_effort # NoLock => lockAsk.agent.protocol = "codex"
          /\ lockAsk.agent.protocol = "codex" => c.schema = "candidate.v3"
      BY <2>1, <2>5 DEF CandidateLockLoads, ProductFits, WithoutEffort
    <2>7. lockAsk.agent.protocol = "codex" /\ lockFile["candidate"].model = "spark" =>
            lockFile["candidate"].reasoning_effort \in Efforts \ {"none", "minimal"}
      BY <2>1, <2>6 DEF CandidateLockLoads, validate_model_reasoning_compatibility, Efforts
    <2> QED
      BY <2>1, <2>2, <2>3, <2>4, <2>6, <2>7 DEF LockIsBinding
  <1> QED
    BY <1>1, LocksInvInit, LocksInvNext, PTL DEF LocksSpec

-----------------------------------------------------------------------------
(***************************************************************************)
(* Snapshots of Task sources.                                              *)
(*                                                                         *)
(* The argument is that of a double collect.  A content does not come back,*)
(* so a file that the second digest finds as the first one did has not     *)
(* changed between them, and therefore not at the instant in between when  *)
(* the source was listed again.  That instant is the tree in WasWhole.     *)
(***************************************************************************)
IsTree(t) ==
  /\ DOMAIN t \subseteq SnapFiles
  /\ t = [f \in DOMAIN t |-> t[f]]
  /\ \A f \in DOMAIN t : t[f] \in Nat

(* The tree that was there when p listed the source for the second time:   *)
(* no older than the first digest, no newer than the source is now, and    *)
(* equal to the first digest wherever the second has looked.               *)
WasWhole(r) ==
  \E t \in snapPast :
    /\ IsTree(t) /\ DOMAIN t = r.files
    /\ \A f \in r.files :
         /\ r.digest[f] <= t[f] /\ t[f] <= snapSource[f]
         /\ f \notin r.todo => t[f] = r.digest[f]

SnapCaptureOK(r) ==
  /\ IsTree(r.digest) /\ r.files \subseteq SnapFiles
  /\ \A f \in DOMAIN r.digest : r.digest[f] <= snapSource[f]
  /\ r.at = "list" => DOMAIN r.digest = {}
  /\ r.at = "digest" => r.todo \subseteq r.files /\ DOMAIN r.digest = r.files \ r.todo
  /\ r.at \in {"look", "copy", "compare", "again"} => DOMAIN r.digest = r.files
  /\ r.at = "again" => r.copy = r.digest /\ WasWhole(r)
  /\ r.at = "publish" => r.copy \in snapPast
  /\ r.synced => r.at = "done" /\ r.digest \in snapSafe

SnapStoreOK ==
  /\ snapSource \in [SnapFiles -> Nat]
  /\ snapSafe \subseteq snapStore /\ snapStore \subseteq snapPast

SnapInv ==
  /\ SnapStoreOK
  /\ DOMAIN snapRun = SnapRuns
  /\ \A p \in SnapRuns : SnapCaptureOK(snapRun[p])

-----------------------------------------------------------------------------
SnapFields == {"at", "files", "todo", "digest", "copy", "synced"}

LEMMA SnapNewFields ==
  /\ DOMAIN NewSnapRun = SnapFields
  /\ NewSnapRun.at = "list" /\ NewSnapRun.files = {} /\ NewSnapRun.todo = {}
  /\ NewSnapRun.digest = NoTree /\ NewSnapRun.copy = NoTree /\ NewSnapRun.synced = FALSE
  BY DEF NewSnapRun, SnapFields

(* SnapBecomes changes the fields it is given, of one process.             *)
LEMMA SnapStepIs ==
  ASSUME DOMAIN snapRun = SnapRuns, NEW p \in SnapRuns, NEW new, SnapBecomes(p, new)
  PROVE  /\ DOMAIN snapRun' = SnapRuns
         /\ \A q \in SnapRuns \ {p} : snapRun'[q] = snapRun[q]
         /\ \A k \in SnapFields : snapRun'[p][k] = IF k \in DOMAIN new THEN new[k] ELSE snapRun[p][k]
  BY SnapNewFields DEF SnapBecomes

LEMMA SnapEmptyTree == IsTree(NoTree) /\ DOMAIN NoTree = {}
  BY DEF IsTree, NoTree

LEMMA SnapTreeOfSource ==
  ASSUME snapSource \in [SnapFiles -> Nat]
  PROVE  /\ IsTree(TreeOf(snapSource))
         /\ DOMAIN TreeOf(snapSource) = CollectedFiles(snapSource)
         /\ \A f \in CollectedFiles(snapSource) : TreeOf(snapSource)[f] = snapSource[f]
  BY DEF IsTree, TreeOf, CollectedFiles

(* A process that has failed promises nothing.                            *)
LEMMA SnapFailsIsOK ==
  ASSUME DOMAIN snapRun = SnapRuns, NEW p \in SnapRuns, SnapFails(p)
  PROVE  /\ SnapCaptureOK(snapRun[p])'
         /\ DOMAIN snapRun' = SnapRuns
         /\ \A q \in SnapRuns \ {p} : snapRun'[q] = snapRun[q]
  <1> DEFINE new == [NewSnapRun EXCEPT !.at = "failed"]
  <1>1. /\ DOMAIN new = SnapFields
        /\ new.at = "failed" /\ new.files = {} /\ new.digest = NoTree /\ new.synced = FALSE
    BY SnapNewFields DEF SnapFields
  <1>2. SnapBecomes(p, new)
    BY DEF SnapFails
  <1> HIDE DEF new
  <1>3. /\ DOMAIN snapRun' = SnapRuns
        /\ \A q \in SnapRuns \ {p} : snapRun'[q] = snapRun[q]
        /\ \A k \in SnapFields : snapRun'[p][k] = new[k]
    BY <1>1, <1>2, SnapStepIs
  <1>4. /\ snapRun'[p].at = "failed" /\ snapRun'[p].files = {}
        /\ snapRun'[p].digest = NoTree /\ snapRun'[p].synced = FALSE
    BY <1>1, <1>3 DEF SnapFields
  <1> QED
    BY <1>3, <1>4, SnapEmptyTree DEF SnapCaptureOK

-----------------------------------------------------------------------------
LEMMA SnapInvInit == SnapInit => SnapInv
  <1> SUFFICES ASSUME SnapInit PROVE SnapInv
    OBVIOUS
  <1>1. SnapStoreOK
    BY DEF SnapInit, SnapStoreOK
  <1>2. \A p \in SnapRuns : snapRun[p] = NewSnapRun
    BY DEF SnapInit
  <1>3. SnapCaptureOK(NewSnapRun)
    BY SnapNewFields, SnapEmptyTree DEF SnapCaptureOK
  <1> QED
    BY <1>1, <1>2, <1>3 DEF SnapInv, SnapInit

(* What an edit does not disturb: contents only grow, trees only add up.   *)
LEMMA SnapEditKeeps ==
  ASSUME SnapInv, NEW e \in SnapFiles, EditSource(e)
  PROVE  SnapInv'
  <1>1. /\ snapSource' \in [SnapFiles -> Nat]
        /\ \A f \in SnapFiles : snapSource[f] <= snapSource'[f]
    BY DEF SnapInv, SnapStoreOK, EditSource
  <1>2. snapPast \subseteq snapPast'
    BY DEF EditSource
  <1>3. SnapStoreOK'
    BY <1>1, <1>2 DEF SnapInv, SnapStoreOK, EditSource
  <1>4. ASSUME NEW p \in SnapRuns PROVE SnapCaptureOK(snapRun[p])'
    <2> DEFINE r == snapRun[p]
    <2>1. snapRun'[p] = r /\ SnapCaptureOK(r) /\ snapSafe' = snapSafe
      BY DEF SnapInv, EditSource
    <2>2. \A f \in SnapFiles : snapSource[f] \in Nat /\ snapSource'[f] \in Nat
      BY <1>1 DEF SnapInv, SnapStoreOK
    <2> HIDE DEF r
    <2>3. ASSUME WasWhole(r) PROVE WasWhole(snapRun[p])'
      <3>1. PICK t \in snapPast :
              /\ IsTree(t) /\ DOMAIN t = r.files
              /\ \A f \in r.files :
                   /\ r.digest[f] <= t[f] /\ t[f] <= snapSource[f]
                   /\ f \notin r.todo => t[f] = r.digest[f]
        BY <2>3 DEF WasWhole
      <3>2. \A f \in r.files : t[f] <= snapSource'[f]
        BY <1>1, <2>2, <3>1 DEF IsTree
      <3> QED
        BY <1>2, <2>1, <3>1, <3>2 DEF WasWhole
    <2>4. \A f \in DOMAIN r.digest : r.digest[f] <= snapSource'[f]
      BY <1>1, <2>1, <2>2 DEF SnapCaptureOK, IsTree
    <2> QED
      BY <1>2, <2>1, <2>3, <2>4 DEF SnapCaptureOK
  <1> QED
    BY <1>3, <1>4 DEF SnapInv, EditSource

(* A step of p preserves the invariant if it does so for p.                *)
LEMMA SnapStepOfOne ==
  ASSUME SnapInv, NEW p \in SnapRuns, SnapStoreOK', DOMAIN snapRun' = SnapRuns,
         \A q \in SnapRuns \ {p} : snapRun'[q] = snapRun[q],
         snapSource' = snapSource, snapPast' = snapPast, snapSafe \subseteq snapSafe',
         SnapCaptureOK(snapRun[p])'
  PROVE  SnapInv'
  <1>1. ASSUME NEW q \in SnapRuns \ {p} PROVE SnapCaptureOK(snapRun[q])'
    <2>1. SnapCaptureOK(snapRun[q]) /\ snapRun'[q] = snapRun[q]
      BY DEF SnapInv
    <2>2. WasWhole(snapRun[q])' = WasWhole(snapRun[q])
      BY <2>1 DEF WasWhole
    <2> QED
      BY <2>1, <2>2 DEF SnapCaptureOK
  <1> QED
    BY <1>1 DEF SnapInv

-----------------------------------------------------------------------------
(* The steps of a capture.                                                 *)
LEMMA SnapFailKeeps ==
  ASSUME SnapInv, NEW p \in SnapRuns, SnapFails(p),
         UNCHANGED <<snapSource, snapPast, snapStore, snapSafe>>
  PROVE  SnapInv'
  <1>1. SnapStoreOK'
    BY DEF SnapInv, SnapStoreOK
  <1> QED
    BY <1>1, SnapFailsIsOK, SnapStepOfOne DEF SnapInv

LEMMA SnapListKeeps ==
  ASSUME SnapInv, NEW p \in SnapRuns, SnapList(p)
  PROVE  SnapInv'
  <1> DEFINE r == snapRun[p]
             listed == CollectedFiles(snapSource)
             new == [at |-> "digest", files |-> listed, todo |-> listed]
  <1>1. SnapCaptureOK(r) /\ r.at = "list" /\ listed \subseteq SnapFiles
    BY DEF SnapInv, SnapList, SnapAt, CollectedFiles
  <1>2. /\ DOMAIN snapRun' = SnapRuns
        /\ \A q \in SnapRuns \ {p} : snapRun'[q] = snapRun[q]
        /\ \A k \in SnapFields : snapRun'[p][k] = IF k \in DOMAIN new THEN new[k] ELSE snapRun[p][k]
    <2>1. SnapBecomes(p, new)
      BY DEF SnapList
    <2> HIDE DEF new
    <2> QED
      BY <2>1, SnapStepIs DEF SnapInv
  <1>3. /\ snapRun'[p].at = "digest" /\ snapRun'[p].files = listed /\ snapRun'[p].todo = listed
        /\ snapRun'[p].digest = r.digest /\ snapRun'[p].synced = r.synced
    BY <1>2 DEF SnapFields
  <1> HIDE DEF r, listed, new
  <1>4. SnapCaptureOK(snapRun[p])' /\ SnapStoreOK'
    BY <1>1, <1>3 DEF SnapCaptureOK, SnapInv, SnapStoreOK, SnapList
  <1> QED
    BY <1>2, <1>4, SnapStepOfOne DEF SnapList

(* A file is read while it is there, and contents only grow.               *)
LEMMA SnapDigestKeeps ==
  ASSUME SnapInv, NEW p \in SnapRuns, SnapDigest(p)
  PROVE  SnapInv'
  <1> DEFINE r == snapRun[p]
  <1>1. SnapCaptureOK(r) /\ r.at = "digest" /\ SnapStoreOK'
    BY DEF SnapInv, SnapDigest, SnapAt, SnapStoreOK
  <1>2. CASE SnapFails(p)
    BY <1>2, SnapFailKeeps DEF SnapDigest
  <1>3. CASE r.todo = {} /\ SnapBecomes(p, [at |-> "look"])
    <2>1. /\ DOMAIN snapRun' = SnapRuns
          /\ \A q \in SnapRuns \ {p} : snapRun'[q] = snapRun[q]
          /\ snapRun'[p].at = "look" /\ snapRun'[p].files = r.files
          /\ snapRun'[p].digest = r.digest /\ snapRun'[p].synced = r.synced
      BY <1>3, SnapStepIs DEF SnapInv, SnapFields
    <2>2. SnapCaptureOK(snapRun[p])'
      BY <1>1, <1>3, <2>1 DEF SnapCaptureOK, SnapDigest
    <2> QED
      BY <1>1, <2>1, <2>2, SnapStepOfOne DEF SnapDigest
  <1>4. CASE \E f \in r.todo : /\ There(snapSource[f])
                               /\ SnapBecomes(p, [todo |-> r.todo \ {f},
                                                  digest |-> With(r.digest, f, snapSource[f])])
    <2>1. PICK f \in r.todo : SnapBecomes(p, [todo |-> r.todo \ {f},
                                             digest |-> With(r.digest, f, snapSource[f])])
      BY <1>4
    <2>2. /\ DOMAIN snapRun' = SnapRuns
          /\ \A q \in SnapRuns \ {p} : snapRun'[q] = snapRun[q]
          /\ snapRun'[p].at = r.at /\ snapRun'[p].files = r.files
          /\ snapRun'[p].todo = r.todo \ {f}
          /\ snapRun'[p].digest = With(r.digest, f, snapSource[f])
          /\ snapRun'[p].synced = r.synced
      BY <2>1, SnapStepIs DEF SnapInv, SnapFields
    <2> HIDE DEF r
    <2>3. f \in r.files /\ f \in SnapFiles /\ snapSource[f] \in Nat
      BY <1>1 DEF SnapCaptureOK, SnapInv, SnapStoreOK
    <2> DEFINE d == With(r.digest, f, snapSource[f])
    <2>4. /\ IsTree(d) /\ DOMAIN d = DOMAIN r.digest \cup {f}
          /\ \A g \in DOMAIN d : d[g] = IF g = f THEN snapSource[f] ELSE r.digest[g]
      <3>1. IsTree(r.digest)
        BY <1>1 DEF SnapCaptureOK
      <3> QED
        BY <2>3, <3>1 DEF IsTree, With
    <2>5. snapRun'[p].digest = d
      BY <2>2
    <2> HIDE DEF d
    <2>6. DOMAIN d = r.files \ (r.todo \ {f})
      BY <1>1, <2>3, <2>4 DEF SnapCaptureOK
    <2>7. \A g \in DOMAIN d : d[g] <= snapSource'[g]
      BY <1>1, <2>3, <2>4 DEF SnapCaptureOK, SnapDigest
    <2>8. SnapCaptureOK(snapRun[p])'
      BY <1>1, <2>2, <2>4, <2>5, <2>6, <2>7 DEF SnapCaptureOK
    <2> QED
      BY <1>1, <2>2, <2>8, SnapStepOfOne DEF SnapDigest
  <1> QED
    BY <1>2, <1>3, <1>4 DEF SnapDigest

LEMMA SnapLookKeeps ==
  ASSUME SnapInv, NEW p \in SnapRuns, SnapLook(p)
  PROVE  SnapInv'
  <1> DEFINE r == snapRun[p]
  <1>1. SnapCaptureOK(r) /\ r.at = "look" /\ SnapStoreOK'
    BY DEF SnapInv, SnapLook, SnapAt, SnapStoreOK
  <1>2. CASE SnapFails(p)
    BY <1>2, SnapFailKeeps DEF SnapLook
  <1>3. CASE SnapBecomes(p, [at |-> "done"]) \/ SnapBecomes(p, [at |-> "copy", todo |-> r.files])
    <2>1. /\ DOMAIN snapRun' = SnapRuns
          /\ \A q \in SnapRuns \ {p} : snapRun'[q] = snapRun[q]
          /\ snapRun'[p].at \in {"done", "copy"} /\ snapRun'[p].files = r.files
          /\ snapRun'[p].digest = r.digest /\ snapRun'[p].synced = r.synced
      <3>1. CASE SnapBecomes(p, [at |-> "done"])
        BY <3>1, SnapStepIs DEF SnapInv, SnapFields
      <3>2. CASE SnapBecomes(p, [at |-> "copy", todo |-> r.files])
        BY <3>2, SnapStepIs DEF SnapInv, SnapFields
      <3> QED
        BY <1>3, <3>1, <3>2
    <2>2. SnapCaptureOK(snapRun[p])'
      BY <1>1, <2>1 DEF SnapCaptureOK, SnapLook
    <2> QED
      BY <1>1, <2>1, <2>2, SnapStepOfOne DEF SnapLook
  <1> QED
    BY <1>2, <1>3 DEF SnapLook

LEMMA SnapCopyKeeps ==
  ASSUME SnapInv, NEW p \in SnapRuns, SnapCopy(p)
  PROVE  SnapInv'
  <1> DEFINE r == snapRun[p]
  <1>1. SnapCaptureOK(r) /\ r.at = "copy" /\ SnapStoreOK'
    BY DEF SnapInv, SnapCopy, SnapAt, SnapStoreOK
  <1>2. CASE SnapFails(p)
    BY <1>2, SnapFailKeeps DEF SnapCopy
  <1>3. CASE \/ SnapBecomes(p, [at |-> "compare"])
             \/ \E f \in r.todo : SnapBecomes(p, [todo |-> r.todo \ {f},
                                                  copy |-> With(r.copy, f, snapSource[f])])
    <2>1. /\ DOMAIN snapRun' = SnapRuns
          /\ \A q \in SnapRuns \ {p} : snapRun'[q] = snapRun[q]
          /\ snapRun'[p].at \in {"copy", "compare"} /\ snapRun'[p].files = r.files
          /\ snapRun'[p].digest = r.digest /\ snapRun'[p].synced = r.synced
      <3>1. CASE SnapBecomes(p, [at |-> "compare"])
        BY <1>1, <3>1, SnapStepIs DEF SnapInv, SnapFields
      <3>2. ASSUME NEW f, SnapBecomes(p, [todo |-> r.todo \ {f},
                                         copy |-> With(r.copy, f, snapSource[f])])
            PROVE  /\ DOMAIN snapRun' = SnapRuns
                   /\ \A q \in SnapRuns \ {p} : snapRun'[q] = snapRun[q]
                   /\ snapRun'[p].at = "copy" /\ snapRun'[p].files = r.files
                   /\ snapRun'[p].digest = r.digest /\ snapRun'[p].synced = r.synced
        BY <1>1, <3>2, SnapStepIs DEF SnapInv, SnapFields
      <3> QED
        BY <1>3, <3>1, <3>2
    <2>2. SnapCaptureOK(snapRun[p])'
      BY <1>1, <2>1 DEF SnapCaptureOK, SnapCopy
    <2> QED
      BY <1>1, <2>1, <2>2, SnapStepOfOne DEF SnapCopy
  <1> QED
    BY <1>2, <1>3 DEF SnapCopy

(* The second listing: the source as it is now is the tree of WasWhole.    *)
LEMMA SnapCompareKeeps ==
  ASSUME SnapInv, NEW p \in SnapRuns, SnapCompare(p), TreeOf(snapSource) \in snapPast
  PROVE  SnapInv'
  <1> DEFINE r == snapRun[p]
             t == TreeOf(snapSource)
  <1>1. SnapCaptureOK(r) /\ r.at = "compare" /\ SnapStoreOK'
    BY DEF SnapInv, SnapCompare, SnapAt, SnapStoreOK
  <1>2. CASE SnapFails(p)
    BY <1>2, SnapFailKeeps DEF SnapCompare
  <1>3. CASE /\ r.copy = r.digest /\ r.files = CollectedFiles(snapSource)
             /\ SnapBecomes(p, [at |-> "again", todo |-> r.files])
    <2>1. /\ DOMAIN snapRun' = SnapRuns
          /\ \A q \in SnapRuns \ {p} : snapRun'[q] = snapRun[q]
          /\ snapRun'[p].at = "again" /\ snapRun'[p].files = r.files
          /\ snapRun'[p].todo = r.files /\ snapRun'[p].copy = r.copy
          /\ snapRun'[p].digest = r.digest /\ snapRun'[p].synced = r.synced
      BY <1>3, SnapStepIs DEF SnapInv, SnapFields
    <2>2. /\ IsTree(t) /\ DOMAIN t = r.files
          /\ \A f \in r.files : t[f] = snapSource[f] /\ snapSource[f] \in Nat
      BY <1>1, <1>3, SnapTreeOfSource DEF SnapInv, SnapStoreOK, SnapCaptureOK
    <2>3. \A f \in r.files : r.digest[f] <= t[f] /\ t[f] <= snapSource[f]
      BY <1>1, <2>2 DEF SnapCaptureOK
    <2> HIDE DEF r, t
    <2>4. t \in snapPast' /\ snapSource' = snapSource
      BY DEF SnapCompare, t
    <2>5. WasWhole(snapRun[p])'
      BY <2>1, <2>2, <2>3, <2>4 DEF WasWhole
    <2>6. SnapCaptureOK(snapRun[p])'
      BY <1>1, <1>3, <2>1, <2>4, <2>5 DEF SnapCaptureOK
    <2> QED
      BY <1>1, <2>1, <2>6, SnapStepOfOne DEF SnapCompare
  <1> QED
    BY <1>2, <1>3 DEF SnapCompare

(* The second digest: a file found as at first was the same in between.    *)
LEMMA SnapAgainKeeps ==
  ASSUME SnapInv, NEW p \in SnapRuns, SnapAgain(p)
  PROVE  SnapInv'
  <1> DEFINE r == snapRun[p]
  <1>1. SnapCaptureOK(r) /\ r.at = "again" /\ SnapStoreOK'
    BY DEF SnapInv, SnapAgain, SnapAt, SnapStoreOK
  <1>2. PICK t \in snapPast :
          /\ IsTree(t) /\ DOMAIN t = r.files
          /\ \A f \in r.files :
               /\ r.digest[f] <= t[f] /\ t[f] <= snapSource[f]
               /\ f \notin r.todo => t[f] = r.digest[f]
    BY <1>1 DEF SnapCaptureOK, WasWhole
  <1>3. CASE SnapFails(p)
    BY <1>3, SnapFailKeeps DEF SnapAgain
  <1>4. CASE r.todo = {} /\ SnapBecomes(p, [at |-> "publish"])
    <2>1. /\ DOMAIN snapRun' = SnapRuns
          /\ \A q \in SnapRuns \ {p} : snapRun'[q] = snapRun[q]
          /\ snapRun'[p].at = "publish" /\ snapRun'[p].files = r.files
          /\ snapRun'[p].copy = r.copy
          /\ snapRun'[p].digest = r.digest /\ snapRun'[p].synced = r.synced
      BY <1>4, SnapStepIs DEF SnapInv, SnapFields
    <2>2. r.digest = t
      <3>1. IsTree(r.digest) /\ DOMAIN r.digest = DOMAIN t
        BY <1>1, <1>2 DEF SnapCaptureOK
      <3>2. \A f \in DOMAIN t : r.digest[f] = t[f]
        BY <1>2, <1>4
      <3> HIDE DEF r
      <3> QED
        BY <1>2, <3>1, <3>2 DEF IsTree
    <2>3. SnapCaptureOK(snapRun[p])'
      BY <1>1, <2>1, <2>2 DEF SnapCaptureOK, SnapAgain
    <2> QED
      BY <1>1, <2>1, <2>3, SnapStepOfOne DEF SnapAgain
  <1>5. CASE \E f \in r.todo : /\ snapSource[f] = r.digest[f]
                               /\ SnapBecomes(p, [todo |-> r.todo \ {f}])
    <2>1. PICK f \in r.todo : /\ snapSource[f] = r.digest[f]
                              /\ SnapBecomes(p, [todo |-> r.todo \ {f}])
      BY <1>5
    <2>2. /\ DOMAIN snapRun' = SnapRuns
          /\ \A q \in SnapRuns \ {p} : snapRun'[q] = snapRun[q]
          /\ snapRun'[p].at = "again" /\ snapRun'[p].files = r.files
          /\ snapRun'[p].todo = r.todo \ {f} /\ snapRun'[p].copy = r.copy
          /\ snapRun'[p].digest = r.digest /\ snapRun'[p].synced = r.synced
      BY <1>1, <2>1, SnapStepIs DEF SnapInv, SnapFields
    <2>3. f \in r.files => t[f] = r.digest[f]
      BY <1>1, <1>2, <2>1 DEF SnapCaptureOK, IsTree
    <2> HIDE DEF r
    <2>4. WasWhole(snapRun[p])'
      BY <1>2, <2>2, <2>3 DEF WasWhole, SnapAgain
    <2>5. SnapCaptureOK(snapRun[p])'
      BY <1>1, <2>2, <2>4 DEF SnapCaptureOK, SnapAgain
    <2> QED
      BY <1>1, <2>2, <2>5, SnapStepOfOne DEF SnapAgain
  <1> QED
    BY <1>3, <1>4, <1>5 DEF SnapAgain

LEMMA SnapPublishKeeps ==
  ASSUME SnapInv, NEW p \in SnapRuns, SnapPublish(p)
  PROVE  SnapInv'
  <1> DEFINE r == snapRun[p]
  <1>1. SnapCaptureOK(r) /\ r.at = "publish"
    BY DEF SnapInv, SnapPublish, SnapAt
  <1>2. CASE SnapFails(p) /\ UNCHANGED snapStore
    BY <1>2, SnapFailKeeps DEF SnapPublish
  <1>3. CASE snapStore' = snapStore \cup {r.copy} /\ SnapBecomes(p, [at |-> "seal"])
    <2>1. /\ DOMAIN snapRun' = SnapRuns
          /\ \A q \in SnapRuns \ {p} : snapRun'[q] = snapRun[q]
          /\ snapRun'[p].at = "seal" /\ snapRun'[p].files = r.files
          /\ snapRun'[p].digest = r.digest /\ snapRun'[p].synced = r.synced
      BY <1>3, SnapStepIs DEF SnapInv, SnapFields
    <2> HIDE DEF r
    <2>2. SnapStoreOK'
      BY <1>1, <1>3 DEF SnapInv, SnapStoreOK, SnapCaptureOK, SnapPublish
    <2>3. SnapCaptureOK(snapRun[p])'
      BY <1>1, <2>1 DEF SnapCaptureOK, SnapPublish
    <2> QED
      BY <2>1, <2>2, <2>3, SnapStepOfOne DEF SnapPublish
  <1> QED
    BY <1>2, <1>3 DEF SnapPublish

LEMMA SnapSealKeeps ==
  ASSUME SnapInv, NEW p \in SnapRuns, SnapSeal(p)
  PROVE  SnapInv'
  <1> DEFINE r == snapRun[p]
  <1>1. SnapCaptureOK(r) /\ r.at = "seal"
    BY DEF SnapInv, SnapSeal, SnapAt
  <1>2. CASE SnapFails(p) /\ UNCHANGED snapSafe
    BY <1>2, SnapFailKeeps DEF SnapSeal
  <1>3. CASE /\ r.digest \in snapStore /\ SnapBecomes(p, [at |-> "done", synced |-> TRUE])
             /\ snapSafe' = snapStore
    <2>1. /\ DOMAIN snapRun' = SnapRuns
          /\ \A q \in SnapRuns \ {p} : snapRun'[q] = snapRun[q]
          /\ snapRun'[p].at = "done" /\ snapRun'[p].files = r.files
          /\ snapRun'[p].digest = r.digest
      BY <1>3, SnapStepIs DEF SnapInv, SnapFields
    <2> HIDE DEF r
    <2>2. SnapStoreOK' /\ snapSafe \subseteq snapSafe'
      BY <1>3 DEF SnapInv, SnapStoreOK, SnapSeal
    <2>3. SnapCaptureOK(snapRun[p])'
      BY <1>1, <1>3, <2>1 DEF SnapCaptureOK, SnapSeal
    <2> QED
      BY <2>1, <2>2, <2>3, SnapStepOfOne DEF SnapSeal
  <1> QED
    BY <1>2, <1>3 DEF SnapSeal

(* What a capture has synced is safe, so it is in what is kept.            *)
LEMMA SnapPowerLossKeeps ==
  ASSUME SnapInv, SnapPowerLoss
  PROVE  SnapInv'
  <1>1. PICK kept \in SUBSET snapStore :
          snapSafe \subseteq kept /\ snapStore' = kept /\ snapSafe' = kept
    BY DEF SnapPowerLoss
  <1>2. SnapStoreOK'
    BY <1>1 DEF SnapInv, SnapStoreOK, SnapPowerLoss
  <1>3. ASSUME NEW p \in SnapRuns PROVE SnapCaptureOK(snapRun[p])'
    <2>1. SnapCaptureOK(snapRun[p])
      BY DEF SnapInv
    <2>2. CASE SnapAt(p, "done")
      <3>1. snapRun'[p] = snapRun[p] /\ snapRun[p].at = "done"
        BY <2>2 DEF SnapPowerLoss, SnapAt
      <3> QED
        BY <1>1, <2>1, <3>1 DEF SnapCaptureOK, SnapPowerLoss
    <2>3. CASE ~SnapAt(p, "done")
      <3> DEFINE new == [NewSnapRun EXCEPT !.at = "failed"]
      <3>1. /\ new.at = "failed" /\ new.files = {} /\ new.digest = NoTree /\ new.synced = FALSE
        BY DEF NewSnapRun
      <3>2. snapRun'[p] = new
        BY <2>3 DEF SnapPowerLoss
      <3> HIDE DEF new
      <3> QED
        BY <3>1, <3>2, SnapEmptyTree DEF SnapCaptureOK
    <2> QED
      BY <2>2, <2>3
  <1>4. DOMAIN snapRun' = SnapRuns
    BY DEF SnapPowerLoss
  <1> QED
    BY <1>2, <1>3, <1>4 DEF SnapInv

-----------------------------------------------------------------------------
(* snapPast holds the source as it is.                                     *)
LEMMA SnapPastInit == SnapInit => TreeOf(snapSource) \in snapPast
  BY DEF SnapInit

LEMMA SnapPastNext ==
  ASSUME TreeOf(snapSource) \in snapPast, [SnapNext]_snapVars
  PROVE  (TreeOf(snapSource) \in snapPast)'
  <1>1. CASE \E f \in SnapFiles : EditSource(f)
    BY <1>1 DEF EditSource
  <1>2. CASE UNCHANGED <<snapSource, snapPast>>
    BY <1>2 DEF TreeOf, CollectedFiles
  <1>3. ASSUME NEW p \in SnapRuns, SnapStep(p) PROVE UNCHANGED <<snapSource, snapPast>>
    BY <1>3 DEF SnapStep, SnapList, SnapDigest, SnapLook, SnapCopy, SnapCompare, SnapAgain,
                SnapPublish, SnapSeal, SnapKill
  <1> QED
    BY <1>1, <1>2, <1>3 DEF SnapNext, SnapPowerLoss, snapVars

LEMMA SnapInvNext ==
  ASSUME SnapInv, TreeOf(snapSource) \in snapPast, [SnapNext]_snapVars
  PROVE  SnapInv'
  <1>1. CASE UNCHANGED snapVars
    BY <1>1 DEF SnapInv, SnapStoreOK, SnapCaptureOK, WasWhole, snapVars
  <1>2. ASSUME NEW p \in SnapRuns, SnapStep(p) PROVE SnapInv'
    <2>1. CASE SnapKill(p)
      BY <2>1, SnapFailKeeps DEF SnapKill
    <2> QED
      BY <1>2, <2>1, SnapListKeeps, SnapDigestKeeps, SnapLookKeeps, SnapCopyKeeps, SnapCompareKeeps, SnapAgainKeeps,
         SnapPublishKeeps, SnapSealKeeps DEF SnapStep
  <1>3. ASSUME NEW f \in SnapFiles, EditSource(f) PROVE SnapInv'
    BY <1>3, SnapEditKeeps
  <1>4. CASE SnapPowerLoss
    BY <1>4, SnapPowerLossKeeps
  <1> QED
    BY <1>1, <1>2, <1>3, <1>4 DEF SnapNext

(* Whatever an editor does between the reads of a capture, and however     *)
(* many captures, kills and power losses there are: every published        *)
(* snapshot is a tree the source was at one instant, and a capture that    *)
(* synced the artifact root keeps its snapshot.                            *)
THEOREM SnapshotsAreTrue == SnapSpec => []SnapshotIsTrue
  <1> DEFINE I == SnapInv /\ TreeOf(snapSource) \in snapPast
  <1>1. SnapInit => I
    BY SnapInvInit, SnapPastInit
  <1>2. I /\ [SnapNext]_snapVars => I'
    BY SnapInvNext, SnapPastNext
  <1>3. I => SnapshotIsTrue
    BY DEF SnapInv, SnapStoreOK, SnapCaptureOK, SnapshotIsTrue
  <1> QED
    BY <1>1, <1>2, <1>3, PTL DEF SnapSpec

-----------------------------------------------------------------------------
(* One package tree, from the installed Codex to a mount.                  *)
TreeSpec == TreeInit /\ [][TreeNext]_treeVars

(* The sizes of a copy: its manifest is written anew.                      *)
CopySizes(files) ==
  [f \in DOMAIN files \cup {ManifestPath} |-> IF f = ManifestPath THEN 1 ELSE files[f].size]

(* A copy of these files is within the limit of a package.                 *)
CopyFits(files) ==
  \A sum : IsSum(sum, CopySizes(files), DOMAIN files \cup {ManifestPath}) =>
    sum[DOMAIN files \cup {ManifestPath}] <= MaxPackageBytes

(* What a verification of a package returns.                               *)
IsMeta(meta) ==
  /\ meta = [manifest |-> meta.manifest, files |-> meta.files]
  /\ meta.files = [f \in DOMAIN meta.files |-> ArtifactFile(meta.files[f])]
  /\ validate_manifest(meta.manifest)
  /\ ValidMetadata(meta.files)
  /\ \A f \in DOMAIN meta.files : meta.files[f].size \in Nat /\ meta.files[f].size <= MaxFileBytes
  /\ IsFiniteSet(DOMAIN meta.files)
  /\ CopyFits(meta.files)

(* An entry is a record: a change of its mode is one of a field it has.    *)
IsEntry(file) == DOMAIN file = {"kind", "content", "size", "links", "exec", "mode"}

(* A tree with exactly the verified files and the manifest, whatever modes. *)
IsCopy(tree, meta) ==
  /\ DOMAIN tree = DOMAIN meta.files \cup {ManifestPath}
  /\ \A f \in DOMAIN tree : IsEntry(tree[f]) /\ tree[f].kind = "file" /\ tree[f].links = 1
  /\ tree[ManifestPath].content = meta.manifest /\ tree[ManifestPath].size = 1
  /\ \A f \in DOMAIN meta.files :
       tree[f].content = meta.files[f].content /\ tree[f].size = meta.files[f].size

(* The execute bits of a package.                                          *)
RightModes(tree) == \A f \in DOMAIN tree : tree[f].exec = (f # ManifestPath)

(* Every file can be read.                                                 *)
AllOpen(tree) == \A f \in DOMAIN tree : Openable(tree[f])

LEMMA TotalIs ==
  ASSUME NEW tree, NEW P, P = PathsOf(tree, "file"), IsFiniteSet(P),
         NEW g \in [P -> Nat], \A f \in P : g[f] = tree[f].size
  PROVE  \E sum : IsSum(sum, g, P) /\ TotalSize(tree) = sum[P]
  <1> DEFINE Sums(iter) == iter = [s \in SUBSET P |-> IF s = {} THEN 0 ELSE tree[Pick(s)].size + iter[s \ {Pick(s)}]]
             total == CHOOSE iter : Sums(iter)
  <1>1. TotalSize(tree) = total[P]
    BY Zenon DEF TotalSize, MapThenSumSet, MapThenFoldSet, Pick
  <1>2. \A s \in SUBSET P : s # {} => g[Pick(s)] = tree[Pick(s)].size
    BY PickIsIn
  <1>3. ASSUME NEW iter PROVE Sums(iter) <=> IsSum(iter, g, P)
    <2>1. [s \in SUBSET P |-> IF s = {} THEN 0 ELSE tree[Pick(s)].size + iter[s \ {Pick(s)}]]
          = [s \in SUBSET P |-> IF s = {} THEN 0 ELSE g[Pick(s)] + iter[s \ {Pick(s)}]]
      BY <1>2
    <2> QED
      BY ONLY <2>1 DEF IsSum
  <1> HIDE DEF Sums
  <1>4. \E iter : Sums(iter)
    BY <1>3, SumExists
  <1>5. Sums(total)
    BY <1>4
  <1> QED
    BY <1>1, <1>3, <1>5

LEMMA CopyTotal ==
  ASSUME NEW meta, NEW tree, IsMeta(meta), IsCopy(tree, meta)
  PROVE  TotalSize(tree) <= MaxPackageBytes
  <1> DEFINE P == DOMAIN meta.files \cup {ManifestPath}
  <1>1. P = PathsOf(tree, "file")
    BY DEF IsCopy, PathsOf
  <1>2. IsFiniteSet(P)
    BY FS_AddElement DEF IsMeta
  <1>3. ManifestPath \notin DOMAIN meta.files
    BY DEF IsMeta, ValidMetadata, AllowedFiles, RequiredFiles, ManifestPath
  <1>4. CopySizes(meta.files) \in [P -> Nat] /\ \A f \in P : CopySizes(meta.files)[f] = tree[f].size
    BY <1>3 DEF CopySizes, IsMeta, IsCopy
  <1>5. PICK sum : IsSum(sum, CopySizes(meta.files), P) /\ TotalSize(tree) = sum[P]
    BY ONLY <1>1, <1>2, <1>4, TotalIs
  <1> QED
    BY <1>5 DEF IsMeta, CopyFits

(* A copy that can be read verifies as what it was copied from; with the   *)
(* right execute bits, or where drift is allowed.                          *)
LEMMA CopyVerifies ==
  ASSUME NEW meta, NEW tree, NEW drift \in BOOLEAN, IsMeta(meta), IsCopy(tree, meta),
         AllOpen(tree), drift \/ RightModes(tree)
  PROVE  MetadataOfTree(tree, FALSE, drift) = meta
  <1> DEFINE P == DOMAIN meta.files \cup {ManifestPath}
             present == PathsOf(tree, "file") \cap AllowedFiles
             files == [f \in present |-> ArtifactFile(tree[f])]
  <1>1. P = PathsOf(tree, "file") /\ DOMAIN tree = P
    BY DEF IsCopy, PathsOf
  <1>2. ManifestPath \notin AllowedFiles /\ DOMAIN meta.files \subseteq AllowedFiles
    BY DEF IsMeta, ValidMetadata, AllowedFiles, RequiredFiles, ManifestPath
  <1>3. present = DOMAIN meta.files
    BY <1>1, <1>2
  <1>4. files = meta.files
    <2>1. \A f \in DOMAIN meta.files : ArtifactFile(tree[f]) = ArtifactFile(meta.files[f])
      BY DEF IsCopy, ArtifactFile
    <2> HIDE DEF present
    <2>2. files = [f \in DOMAIN meta.files |-> ArtifactFile(meta.files[f])]
      BY <1>3, <2>1
    <2> QED
      BY <2>2 DEF IsMeta
  <1>5. ManifestReadable(tree)
    BY <1>1 DEF ManifestReadable, CheckedFile, IsCopy, IsMeta, AllOpen
  <1>6. Collectable(tree, FALSE)
    <2>1. PathsOf(tree, "special") = {} /\ PathsOf(tree, "symlink") = {}
      BY DEF PathsOf, IsCopy
    <2> QED
      BY <1>1, <1>2, <2>1 DEF Collectable, IsCopy
  <1>7. \A f \in present : Streamable(tree[f], ~drift)
    BY <1>1, <1>2, <1>3 DEF Streamable, IsCopy, IsMeta, RightModes, AllOpen
  <1>8. TotalSize(tree) <= MaxPackageBytes
    BY CopyTotal
  <1>9. ValidMetadata(files)
    BY <1>4 DEF IsMeta
  <1>10. ~drift => ~tree[ManifestPath].exec
    BY <1>1 DEF RightModes
  <1>11. [manifest |-> tree[ManifestPath].content, files |-> files] = meta
    BY <1>4 DEF IsCopy, IsMeta
  <1> HIDE DEF files
  <1>12. MetadataOfTree(tree, FALSE, drift) = [manifest |-> tree[ManifestPath].content, files |-> files]
    BY <1>5, <1>6, <1>7, <1>8, <1>9, <1>10 DEF MetadataOfTree, files
  <1> QED
    BY <1>11, <1>12

(* What a verification of an installed package returns.                    *)
LEMMA VerifiedIsMeta ==
  ASSUME NEW tree, NEW meta, meta = MetadataOfTree(tree, TRUE, FALSE), meta # Rejected,
         IsFiniteSet(DOMAIN tree), \A f \in DOMAIN tree : tree[f].size \in Nat \ {0}
  PROVE  IsMeta(meta)
  <1> DEFINE P == PathsOf(tree, "file")
             present == P \cap AllowedFiles
             files == [f \in present |-> ArtifactFile(tree[f])]
             Verified == /\ ManifestReadable(tree) /\ Collectable(tree, TRUE)
                         /\ \A f \in present : Streamable(tree[f], TRUE)
                         /\ TotalSize(tree) <= MaxPackageBytes
                         /\ ValidMetadata(files)
  <1>1. Verified /\ meta = [manifest |-> tree[ManifestPath].content, files |-> files]
    BY Zenon DEF MetadataOfTree
  <1>2. meta.manifest = tree[ManifestPath].content /\ meta.files = files /\ DOMAIN files = present
    <2>1. DOMAIN files = present
      OBVIOUS
    <2> HIDE DEF files
    <2>2. meta = [manifest |-> tree[ManifestPath].content, files |-> files]
      BY <1>1
    <2>3. meta.manifest = tree[ManifestPath].content /\ meta.files = files
      BY ONLY <2>2
    <2> QED
      BY <2>1, <2>3
  <1>3. \A f \in present : files[f] = ArtifactFile(tree[f]) /\ files[f].size = tree[f].size
    BY DEF ArtifactFile
  <1>4. present \cup {ManifestPath} = P /\ ManifestPath \notin present
    <2>1. ManifestPath \notin AllowedFiles
      BY DEF AllowedFiles, RequiredFiles, ManifestPath
    <2> QED
      BY <1>1, <2>1 DEF ManifestReadable, CheckedFile, Collectable
  <1>5. P \subseteq DOMAIN tree /\ IsFiniteSet(P) /\ IsFiniteSet(present)
    BY FS_Subset DEF PathsOf
  <1>6. ASSUME NEW sum, IsSum(sum, CopySizes(files), P) PROVE sum[P] <= MaxPackageBytes
    <2> DEFINE sizes == [f \in P |-> tree[f].size]
    <2>1. sizes \in [P -> Nat] /\ \A f \in P : sizes[f] = tree[f].size
      BY <1>5
    <2> HIDE DEF sizes
    <2>2. PICK all : IsSum(all, sizes, P) /\ TotalSize(tree) = all[P]
      BY ONLY <1>5, <2>1, TotalIs
    <2>3. /\ CopySizes(files) \in [P -> Nat]
          /\ \A f \in P : CopySizes(files)[f] <= sizes[f]
      <3>1. \A f \in P : CopySizes(files)[f] = IF f = ManifestPath THEN 1 ELSE sizes[f]
        BY <1>2, <1>3, <1>4, <2>1 DEF CopySizes
      <3>2. \A f \in P : sizes[f] \in Nat \ {0}
        BY <1>5, <2>1
      <3>3. CopySizes(files) = [f \in P |-> CopySizes(files)[f]]
        BY <1>2, <1>4 DEF CopySizes
      <3>4. \A f \in P : CopySizes(files)[f] \in Nat /\ CopySizes(files)[f] <= sizes[f]
        <4> SUFFICES ASSUME NEW f \in P PROVE CopySizes(files)[f] \in Nat /\ CopySizes(files)[f] <= sizes[f]
          OBVIOUS
        <4>1. CopySizes(files)[f] \in {1, sizes[f]} /\ sizes[f] \in Nat \ {0}
          BY <3>1, <3>2, Zenon
        <4> QED
          BY ONLY <4>1
      <3> QED
        BY <3>3, <3>4, Zenon
    <2>4. \A s \in SUBSET P : sum[s] <= all[s]
      BY ONLY <1>5, <1>6, <2>1, <2>2, <2>3, SumMonotone
    <2>5. sum[P] \in Nat /\ all[P] \in Nat
      <3>1. \A s \in SUBSET P : sum[s] \in Nat
        BY ONLY <1>5, <1>6, <2>3, SumTakesOut
      <3>2. \A s \in SUBSET P : all[s] \in Nat
        BY ONLY <1>5, <2>1, <2>2, SumTakesOut
      <3> QED
        BY <3>1, <3>2
    <2> QED
      BY <1>1, <2>2, <2>4, <2>5, PackageLimits
  <1>7. CopyFits(files)
    BY <1>2, <1>4, <1>6 DEF CopyFits
  <1>8. \A f \in present : files[f].size \in Nat /\ files[f].size <= MaxFileBytes
    BY <1>1, <1>3, <1>5 DEF Streamable
  <1>9. files = [f \in DOMAIN files |-> ArtifactFile(files[f])]
    <2>1. \A f \in present : ArtifactFile(files[f]) = files[f]
      BY <1>3 DEF ArtifactFile
    <2> HIDE DEF present
    <2> QED
      BY <2>1
  <1>10. validate_manifest(meta.manifest)
    BY <1>1, <1>2 DEF ManifestReadable
  <1>11. meta = [manifest |-> meta.manifest, files |-> meta.files]
    BY <1>1, <1>2
  <1> HIDE DEF files, present
  <1> QED
    BY <1>1, <1>2, <1>5, <1>7, <1>8, <1>9, <1>10, <1>11 DEF IsMeta

(* The seal changes modes only, and makes them what they should be.        *)
LEMMA SealKeeps ==
  ASSUME NEW tree, NEW meta, IsMeta(meta), IsCopy(tree, meta)
  PROVE  /\ IsCopy(SealModes(tree), meta) /\ RightModes(SealModes(tree))
         /\ SealedTree(SealModes(tree)) /\ AllOpen(SealModes(tree))
  <1>1. DOMAIN SealModes(tree) = DOMAIN tree
    BY DEF SealModes
  <1>2. ASSUME NEW f \in DOMAIN tree
        PROVE  /\ IsEntry(SealModes(tree)[f])
               /\ SealModes(tree)[f].kind = tree[f].kind /\ SealModes(tree)[f].links = tree[f].links
               /\ SealModes(tree)[f].content = tree[f].content /\ SealModes(tree)[f].size = tree[f].size
               /\ SealModes(tree)[f].exec = (f # ManifestPath)
               /\ SealModes(tree)[f].mode = IF f = ManifestPath THEN "0444" ELSE "0555"
    <2> DEFINE file == tree[f]
               new == SealModes(tree)[f]
               mode == IF f = ManifestPath THEN "0444" ELSE "0555"
               exec == f # ManifestPath
    <2>1. new = [file EXCEPT !.mode = mode, !.exec = exec]
      BY Zenon DEF SealModes
    <2>2. IsEntry(file)
      BY DEF IsCopy
    <2> HIDE DEF file, new, mode, exec
    <2>3. /\ IsEntry(new) /\ new.mode = mode /\ new.exec = exec
          /\ new.kind = file.kind /\ new.links = file.links
          /\ new.content = file.content /\ new.size = file.size
      BY ONLY <2>1, <2>2 DEF IsEntry
    <2> QED
      BY <2>3 DEF file, new, mode, exec
  <1> QED
    BY <1>1, <1>2 DEF IsCopy, RightModes, SealedTree, AllOpen, Openable

(* A drift changes modes only.                                             *)
LEMMA DriftKeeps ==
  ASSUME NEW tree, NEW meta, IsCopy(tree, meta), NEW drifted, DOMAIN drifted = DOMAIN tree,
         \A f \in DOMAIN tree :
           \/ drifted[f] = tree[f] \/ drifted[f] = [tree[f] EXCEPT !.mode = "unreadable"]
           \/ \E exec : drifted[f] = [tree[f] EXCEPT !.mode = "any", !.exec = exec]
  PROVE  IsCopy(drifted, meta)
  <1>1. ASSUME NEW f \in DOMAIN tree
        PROVE  /\ drifted[f].kind = tree[f].kind /\ drifted[f].links = tree[f].links
               /\ drifted[f].content = tree[f].content
               /\ drifted[f].size = tree[f].size /\ IsEntry(drifted[f])
    <2> DEFINE file == tree[f]
               new == drifted[f]
    <2>1. IsEntry(file)
      BY DEF IsCopy
    <2>2. \/ new = file \/ new = [file EXCEPT !.mode = "unreadable"]
          \/ \E exec : new = [file EXCEPT !.mode = "any", !.exec = exec]
      OBVIOUS
    <2> HIDE DEF file, new
    <2>3. /\ new.kind = file.kind /\ new.links = file.links /\ new.content = file.content
          /\ new.size = file.size /\ IsEntry(new)
      BY ONLY <2>1, <2>2 DEF IsEntry
    <2> QED
      BY <2>3 DEF file, new
  <1>2. IsCopy(tree, meta) /\ DOMAIN drifted = DOMAIN tree
    OBVIOUS
  <1> QED
    BY ONLY <1>1, <1>2 DEF IsCopy

(* What is copied of a source that is what was verified.                   *)
LEMMA CopyIsCopy ==
  ASSUME NEW meta, IsMeta(meta)
  PROVE  /\ IsCopy(CopyPackageTree(meta), meta) /\ RightModes(CopyPackageTree(meta))
         /\ AllOpen(CopyPackageTree(meta))
  <1> DEFINE tree == CopyPackageTree(meta)
  <1>1. ManifestPath \notin DOMAIN meta.files
    BY DEF IsMeta, ValidMetadata, AllowedFiles, RequiredFiles, ManifestPath
  <1>2. DOMAIN tree = DOMAIN meta.files \cup {ManifestPath}
    BY DEF CopyPackageTree
  <1>3. tree[ManifestPath] = PlainFile(meta.manifest, FALSE)
    BY DEF CopyPackageTree
  <1>4. ASSUME NEW f \in DOMAIN meta.files
        PROVE  tree[f] = [kind |-> "file", content |-> meta.files[f].content, size |-> meta.files[f].size,
                          links |-> 1, exec |-> TRUE, mode |-> "any"]
    BY <1>1, Zenon DEF CopyPackageTree
  <1> HIDE DEF tree
  <1>5. /\ tree[ManifestPath].kind = "file" /\ tree[ManifestPath].links = 1 /\ tree[ManifestPath].size = 1
        /\ tree[ManifestPath].content = meta.manifest /\ tree[ManifestPath].exec = FALSE
        /\ IsEntry(tree[ManifestPath]) /\ Openable(tree[ManifestPath])
    BY <1>3 DEF PlainFile, IsEntry, Openable
  <1>6. ASSUME NEW f \in DOMAIN meta.files
        PROVE  /\ tree[f].kind = "file" /\ tree[f].links = 1 /\ tree[f].size = meta.files[f].size
               /\ tree[f].content = meta.files[f].content /\ tree[f].exec = TRUE
               /\ IsEntry(tree[f]) /\ Openable(tree[f])
    <2> DEFINE file == meta.files[f]
    <2>1. tree[f] = [kind |-> "file", content |-> file.content, size |-> file.size,
                     links |-> 1, exec |-> TRUE, mode |-> "any"]
      BY <1>4
    <2> HIDE DEF file
    <2>2. /\ tree[f].kind = "file" /\ tree[f].links = 1 /\ tree[f].size = file.size
          /\ tree[f].content = file.content /\ tree[f].exec = TRUE
          /\ IsEntry(tree[f]) /\ Openable(tree[f])
      BY ONLY <2>1 DEF IsEntry, Openable
    <2> QED
      BY <2>2 DEF file
  <1>7. IsCopy(tree, meta) /\ RightModes(tree) /\ AllOpen(tree)
    BY <1>1, <1>2, <1>5, <1>6 DEF IsCopy, RightModes, AllOpen
  <1> QED
    BY <1>7 DEF tree

LEMMA VerifiedIsCopyable ==
  ASSUME NEW tree, NEW meta, meta = MetadataOfTree(tree, TRUE, FALSE), meta # Rejected
  PROVE  AllCopyable(tree, meta)
  <1> DEFINE present == PathsOf(tree, "file") \cap AllowedFiles
             files == [f \in present |-> ArtifactFile(tree[f])]
  <1>1. /\ Collectable(tree, TRUE) /\ \A f \in present : Streamable(tree[f], TRUE)
        /\ meta = [manifest |-> tree[ManifestPath].content, files |-> files]
    BY Zenon DEF MetadataOfTree
  <1>2. \A f \in present : files[f].size = tree[f].size /\ files[f].content = tree[f].content
    BY DEF ArtifactFile
  <1>3. DOMAIN files = present
    OBVIOUS
  <1> HIDE DEF files
  <1>4. meta = [manifest |-> tree[ManifestPath].content, files |-> files]
    BY <1>1
  <1>5. meta.files = files
    BY ONLY <1>4
  <1> QED
    BY <1>1, <1>2, <1>3, <1>5 DEF AllCopyable, Copyable, CheckedFile, Collectable, Streamable, Openable

(* An installation, whatever is wrong with it, has files with some content. *)
LEMMA SourcesHaveSizes ==
  ASSUME NEW tree \in TreeSources
  PROVE  IsFiniteSet(DOMAIN tree) /\ \A f \in DOMAIN tree : tree[f].size \in Nat \ {0}
  <1> DEFINE Paths == AllowedFiles \cup {ManifestPath, ConvenienceLink}
  <1>1. IsFiniteSet(Paths) /\ IsFiniteSet(Paths \cup {"extra"})
    <2>1. IsFiniteSet(RequiredFiles)
      <3>1. IsFiniteSet({"bin/codex"})
        BY FS_Singleton
      <3>2. RequiredFiles = {"bin/codex"} \cup {"bin/codex-code-mode-host"} \cup {"codex-path/rg"}
                            \cup {"codex-resources/bwrap"}
        BY DEF RequiredFiles
      <3> QED
        BY <3>1, <3>2, FS_AddElement
    <2>2. IsFiniteSet(AllowedFiles)
      BY <2>1, FS_AddElement DEF AllowedFiles
    <2>3. IsFiniteSet(Paths)
      <3>1. Paths = (AllowedFiles \cup {ManifestPath}) \cup {ConvenienceLink}
        OBVIOUS
      <3> QED
        BY <2>2, <3>1, FS_AddElement
    <2> QED
      BY <2>3, FS_AddElement
  <1>2. DOMAIN GoodTree = Paths
    BY DEF GoodTree
  <1>3. ASSUME NEW f \in Paths
        PROVE  GoodTree[f].size = 1 /\ IsEntry(GoodTree[f])
    <2>1. CASE f = ConvenienceLink
      <3> DEFINE file == PlainFile(0, TRUE)
                 link == [file EXCEPT !.kind = "symlink"]
      <3>1. GoodTree[f] = link
        BY <2>1, Zenon DEF GoodTree
      <3>2. IsEntry(file) /\ file.size = 1
        BY DEF PlainFile, IsEntry
      <3> HIDE DEF file
      <3>3. IsEntry(link) /\ link.size = file.size
        BY ONLY <3>2 DEF IsEntry
      <3> HIDE DEF link
      <3> QED
        BY <3>1, <3>2, <3>3
    <2>2. CASE f # ConvenienceLink
      <3>1. PICK content, exec : GoodTree[f] = PlainFile(content, exec)
        BY <2>2, Zenon DEF GoodTree
      <3>2. IsEntry(PlainFile(content, exec)) /\ PlainFile(content, exec).size = 1
        BY DEF PlainFile, IsEntry
      <3> QED
        BY <3>1, <3>2
    <2> QED
      BY <2>1, <2>2
  <1>4. ASSUME NEW f \in Paths, NEW entry \in Deviations(f) PROVE entry.size \in Nat \ {0}
    <2> DEFINE good == GoodTree[f]
    <2>1. IsEntry(good) /\ good.size = 1
      BY <1>3
    <2>2. \/ entry = [good EXCEPT !.exec = ~@] \/ entry = [good EXCEPT !.links = 2]
          \/ entry = [good EXCEPT !.size = MaxFileBytes]
          \/ entry = [good EXCEPT !.size = MaxFileBytes + 1]
          \/ entry = [good EXCEPT !.mode = "unreadable"]
          \/ entry = [good EXCEPT !.kind = "symlink"] \/ entry = [good EXCEPT !.kind = "special"]
          \/ \E c : entry = [good EXCEPT !.content = c]
      BY <1>4, Zenon DEF Deviations
    <2> HIDE DEF good
    <2>3. entry.size \in {1, MaxFileBytes, MaxFileBytes + 1}
      BY ONLY <2>1, <2>2 DEF IsEntry
    <2> QED
      BY <2>3, PackageLimits
  <1>5. CASE tree = GoodTree
    BY <1>1, <1>2, <1>3, <1>5
  <1>6. ASSUME NEW f \in Paths, NEW entry \in Deviations(f), tree = [GoodTree EXCEPT ![f] = entry]
        PROVE  IsFiniteSet(DOMAIN tree) /\ \A g \in DOMAIN tree : tree[g].size \in Nat \ {0}
    <2>1. DOMAIN tree = Paths /\ \A g \in Paths : tree[g] = IF g = f THEN entry ELSE GoodTree[g]
      BY <1>2, <1>6
    <2> QED
      BY <1>1, <1>3, <1>4, <1>6, <2>1
  <1>7. ASSUME NEW f, tree = [g \in DOMAIN GoodTree \ {f} |-> GoodTree[g]]
        PROVE  IsFiniteSet(DOMAIN tree) /\ \A g \in DOMAIN tree : tree[g].size \in Nat \ {0}
    <2>1. DOMAIN tree = Paths \ {f} /\ \A g \in Paths \ {f} : tree[g] = GoodTree[g]
      BY <1>2, <1>7
    <2>2. IsFiniteSet(Paths \ {f})
      BY <1>1, FS_Subset
    <2> QED
      BY <1>3, <2>1, <2>2
  <1>8. CASE tree = [g \in DOMAIN GoodTree \cup {"extra"} |-> IF g = "extra" THEN PlainFile(0, TRUE) ELSE GoodTree[g]]
    <2>1. DOMAIN tree = Paths \cup {"extra"}
          /\ \A g \in DOMAIN tree : tree[g] = IF g = "extra" THEN PlainFile(0, TRUE) ELSE GoodTree[g]
      BY <1>2, <1>8
    <2>2. PlainFile(0, TRUE).size = 1
      BY DEF PlainFile
    <2>3. ASSUME NEW g \in DOMAIN tree PROVE tree[g].size = 1
      <3>1. CASE g = "extra"
        BY <2>1, <2>2, <3>1
      <3>2. CASE g # "extra"
        <4>1. g \in Paths /\ tree[g] = GoodTree[g]
          BY <2>1, <3>2
        <4> QED
          BY <1>3, <4>1
      <3> QED
        BY <3>1, <3>2
    <2> QED
      BY <1>1, <2>1, <2>3
  <1>9. \/ tree = GoodTree
        \/ \E f \in Paths : \E entry \in Deviations(f) : tree = [GoodTree EXCEPT ![f] = entry]
        \/ \E f : tree = [g \in DOMAIN GoodTree \ {f} |-> GoodTree[g]]
        \/ tree = [g \in DOMAIN GoodTree \cup {"extra"} |-> IF g = "extra" THEN PlainFile(0, TRUE) ELSE GoodTree[g]]
    <2>1. tree = GoodTree \/ tree \in Changed(GoodTree)
      BY DEF TreeSources
    <2>2. CASE tree \in UNION {{[GoodTree EXCEPT ![f] = entry] : entry \in Deviations(f)} : f \in DOMAIN GoodTree \cap DOMAIN GoodTree}
      BY <1>2, <2>2
    <2>3. CASE tree \in {[g \in DOMAIN GoodTree \ {f} |-> GoodTree[g]] : f \in DOMAIN GoodTree}
      BY <2>3
    <2>4. CASE tree \in {[g \in DOMAIN GoodTree \cup {"extra"} |-> IF g = "extra" THEN PlainFile(0, TRUE) ELSE GoodTree[g]]}
      BY <2>4
    <2> QED
      BY <2>1, <2>2, <2>3, <2>4 DEF Changed
  <1> QED
    BY <1>5, <1>6, <1>7, <1>8, <1>9

-----------------------------------------------------------------------------
(* The package was verified; it is in the cache.                           *)
TreeVerified == {"copy", "seal", "published", "drifted", "mounted", "refused", "corrupt"}
TreeInCache == TreeVerified \ {"copy"}

TreeInv ==
  /\ treeAt \in TreeVerified \cup {"verify", "failed"}
  /\ treeAt = "verify" => treeSource \in TreeSources
  /\ treeAt = "failed" =>
       treeMeta = Rejected \/ treeChanged \/ ~validate_platform(treeMeta.manifest, treePlatform)
  /\ treeAt \in TreeVerified => IsMeta(treeMeta) /\ validate_platform(treeMeta.manifest, treePlatform)
  /\ treeAt = "copy" => treeMeta # Rejected /\ (treeChanged \/ treeMeta = MetadataOfTree(treeSource, TRUE, FALSE))
  /\ treeAt \in TreeInCache => IsCopy(treeCached, treeMeta)
  /\ treeAt = "corrupt" => ~AllOpen(treeCached)

LEMMA TreeStepSafe == TreeInv /\ [TreeNext]_treeVars => TreeInv'
  <1> SUFFICES ASSUME TreeInv, [TreeNext]_treeVars PROVE TreeInv'
    OBVIOUS
  <1> USE DEF TreeVerified, TreeInCache
  <1>1. CASE TreeVerifySource
    <2>1. /\ treeAt = "verify" /\ treeSource \in TreeSources
          /\ treeMeta' = MetadataOfTree(treeSource, TRUE, FALSE)
          /\ UNCHANGED <<treeSource, treeCached, treePlatform, treeChanged>>
      BY <1>1 DEF TreeVerifySource, TreeInv
    <2>2. CASE treeMeta' = Rejected
      <3>1. treeAt' = "failed"
        BY <1>1, <2>2 DEF TreeVerifySource, TreeGoes
      <3> QED
        BY <2>2, <3>1 DEF TreeInv
    <2>3. CASE treeMeta' # Rejected /\ ~validate_platform(treeMeta'.manifest, treePlatform)
      <3>1. treeAt' = "failed"
        BY <1>1, <2>3 DEF TreeVerifySource, TreeGoes
      <3>2. treePlatform' = treePlatform
        BY <2>1
      <3> QED
        BY <2>3, <3>1, <3>2 DEF TreeInv
    <2>4. CASE treeMeta' # Rejected /\ validate_platform(treeMeta'.manifest, treePlatform)
      <3>1. treeAt' = "copy"
        BY <1>1, <2>4 DEF TreeVerifySource, TreeGoes
      <3>2. IsMeta(treeMeta')
        BY <2>1, <2>4, SourcesHaveSizes, VerifiedIsMeta
      <3>3. treePlatform' = treePlatform /\ treeSource' = treeSource
        BY <2>1
      <3> QED
        BY <2>1, <2>4, <3>1, <3>2, <3>3 DEF TreeInv
    <2> QED
      BY <2>2, <2>3, <2>4
  <1>2. CASE ChangeSource
    BY <1>2 DEF ChangeSource, TreeInv
  <1>3. CASE TreeStage
    <2> DEFINE cached == CopyPackageTree(treeMeta)
               Good == /\ AllCopyable(treeSource, treeMeta)
                       /\ MetadataOfTree(treeSource, TRUE, FALSE) = treeMeta
                       /\ MetadataOfTree(treeCached', FALSE, FALSE) = treeMeta
    <2>1. /\ treeAt = "copy" /\ IsMeta(treeMeta) /\ validate_platform(treeMeta.manifest, treePlatform)
          /\ treeChanged \/ treeMeta = MetadataOfTree(treeSource, TRUE, FALSE)
          /\ treeMeta # Rejected
          /\ treeCached' = IF AllCopyable(treeSource, treeMeta) THEN cached ELSE Rejected
          /\ treeAt' = IF Good THEN "seal" ELSE "failed"
          /\ UNCHANGED <<treeSource, treeMeta, treePlatform, treeChanged>>
      BY <1>3 DEF TreeStage, TreeGoes, TreeInv
    <2>2. IsCopy(cached, treeMeta) /\ RightModes(cached) /\ AllOpen(cached)
      BY <2>1, CopyIsCopy
    <2>3. MetadataOfTree(cached, FALSE, FALSE) = treeMeta
      BY <2>1, <2>2, CopyVerifies
    <2>4. ~treeChanged => Good
      BY <2>1, <2>3, VerifiedIsCopyable
    <2>5. Good => treeCached' = cached
      BY <2>1
    <2> HIDE DEF cached, Good
    <2>6. treeAt' = "seal" => IsCopy(treeCached', treeMeta')
      BY <2>1, <2>2, <2>5
    <2>7. /\ treeAt' \in {"seal", "failed"} /\ (treeAt' = "failed" => treeChanged')
          /\ IsMeta(treeMeta') /\ validate_platform(treeMeta'.manifest, treePlatform')
      BY <2>1, <2>4
    <2> QED
      BY <2>6, <2>7 DEF TreeInv
  <1>4. CASE TreeSeal
    <2>1. /\ treeAt = "seal" /\ IsMeta(treeMeta) /\ IsCopy(treeCached, treeMeta)
          /\ treeCached' = SealModes(treeCached)
          /\ treeAt' = IF MetadataOfTree(treeCached', FALSE, FALSE) = treeMeta THEN "published" ELSE "spoilt"
          /\ UNCHANGED <<treeSource, treeMeta, treePlatform, treeChanged>>
      BY <1>4 DEF TreeSeal, TreeInv
    <2>2. IsCopy(treeCached', treeMeta) /\ RightModes(treeCached') /\ AllOpen(treeCached')
      BY <2>1, SealKeeps
    <2>3. treeAt' = "published"
      BY <2>1, <2>2, CopyVerifies
    <2> QED
      BY <2>1, <2>2, <2>3 DEF TreeInv
  <1>5. CASE TreeDrift
    <2>1. /\ treeAt = "published" /\ IsMeta(treeMeta) /\ IsCopy(treeCached, treeMeta)
          /\ validate_platform(treeMeta.manifest, treePlatform)
          /\ treeAt' = "drifted"
          /\ UNCHANGED <<treeSource, treeMeta, treePlatform, treeChanged>>
      BY <1>5 DEF TreeDrift, TreeInv
    <2>2. ASSUME \E f \in DOMAIN treeCached :
                   treeCached' = [treeCached EXCEPT ![f].mode = "any", ![f].exec = ~@]
          PROVE  IsCopy(treeCached', treeMeta)
      <3>1. PICK f \in DOMAIN treeCached :
              \E exec : treeCached' = [treeCached EXCEPT ![f] = [treeCached[f] EXCEPT !.mode = "any", !.exec = exec]]
        <4>1. PICK f \in DOMAIN treeCached :
                treeCached' = [treeCached EXCEPT ![f].mode = "any", ![f].exec = ~@]
          BY <2>2
        <4>2. [treeCached EXCEPT ![f].mode = "any", ![f].exec = ~@]
              = [treeCached EXCEPT ![f].mode = "any", ![f].exec = ~treeCached[f].exec]
          BY <2>1
        <4>3. \A exec : [treeCached EXCEPT ![f].mode = "any", ![f].exec = exec]
                        = [treeCached EXCEPT ![f] = [treeCached[f] EXCEPT !.mode = "any", !.exec = exec]]
          BY Zenon
        <4> QED
          BY <4>1, <4>2, <4>3, Zenon
      <3>2. /\ DOMAIN treeCached' = DOMAIN treeCached
            /\ \E exec : treeCached'[f] = [treeCached[f] EXCEPT !.mode = "any", !.exec = exec]
            /\ \A g \in DOMAIN treeCached \ {f} : treeCached'[g] = treeCached[g]
        BY <3>1, Zenon
      <3>3. \A g \in DOMAIN treeCached :
              \/ treeCached'[g] = treeCached[g]
              \/ \E exec : treeCached'[g] = [treeCached[g] EXCEPT !.mode = "any", !.exec = exec]
        BY <3>2, Zenon
      <3> QED
        BY <2>1, <3>2, <3>3, DriftKeeps, Zenon
    <2>3. ASSUME \E closed \in Closable :
                   treeCached' = [f \in DOMAIN treeCached |->
                                    IF f \in closed THEN [treeCached[f] EXCEPT !.mode = "unreadable"]
                                    ELSE treeCached[f]]
          PROVE  IsCopy(treeCached', treeMeta)
      <3>1. /\ DOMAIN treeCached' = DOMAIN treeCached
            /\ \A g \in DOMAIN treeCached :
                 \/ treeCached'[g] = treeCached[g]
                 \/ treeCached'[g] = [treeCached[g] EXCEPT !.mode = "unreadable"]
        BY <2>3, Zenon
      <3> QED
        BY <2>1, <3>1, DriftKeeps
    <2>4. IsCopy(treeCached', treeMeta)
      BY <1>5, <2>2, <2>3 DEF TreeDrift
    <2> QED
      BY <2>1, <2>4 DEF TreeInv
  <1>6. ASSUME NEW lock, TreeLoad(lock) PROVE TreeInv'
    <2> DEFINE sealed == SealModes(treeCached)
               Fits == validate_cache_metadata(treeMeta) /\ LockFits(lock, treeMeta, treePlatform)
               Whole == MetadataOfTree(treeCached, FALSE, TRUE) = treeMeta
               Sound == MetadataOfTree(sealed, FALSE, TRUE) = treeMeta /\ SealedTree(sealed)
    <2>1. /\ treeAt \in {"published", "drifted"} /\ IsMeta(treeMeta) /\ IsCopy(treeCached, treeMeta)
          /\ validate_platform(treeMeta.manifest, treePlatform)
          /\ UNCHANGED <<treeSource, treeMeta, treePlatform, treeChanged>>
          /\ \/ /\ ~Fits /\ treeAt' = IF lock = LockOf(treeMeta) THEN "spoilt" ELSE "refused"
                /\ UNCHANGED treeCached
             \/ /\ ~Whole /\ treeAt' = "corrupt" /\ UNCHANGED treeCached
             \/ /\ Fits /\ treeCached' = sealed /\ treeAt' = IF Sound THEN "mounted" ELSE "spoilt"
      BY <1>6 DEF TreeLoad, TreeInv
    <2>2. IsCopy(sealed, treeMeta) /\ RightModes(sealed) /\ SealedTree(sealed) /\ AllOpen(sealed)
      BY <2>1, SealKeeps
    <2>3. Sound /\ (AllOpen(treeCached) => Whole)
      BY <2>1, <2>2, CopyVerifies
    <2>4. lock = LockOf(treeMeta) => Fits
      <3>1. validate_cache_metadata(treeMeta)
        BY <2>1 DEF IsMeta, validate_cache_metadata
      <3>2. LockFits(LockOf(treeMeta), treeMeta, treePlatform)
        BY <2>1 DEF LockFits, LockOf
      <3> QED
        BY <3>1, <3>2
    <2> HIDE DEF sealed, Fits, Whole, Sound
    <2>5. \/ treeAt' \in {"refused", "mounted"} /\ (treeCached' = treeCached \/ treeCached' = sealed)
          \/ treeAt' = "corrupt" /\ treeCached' = treeCached /\ ~AllOpen(treeCached)
      BY <2>1, <2>3, <2>4
    <2> QED
      BY <2>1, <2>2, <2>5 DEF TreeInv
  <1>7. CASE UNCHANGED treeVars
    BY <1>7 DEF treeVars, TreeInv
  <1> QED
    BY <1>1, <1>2, <1>3, <1>4, <1>5, <1>6, <1>7 DEF TreeNext

(* A package that was verified and not changed while it was copied is      *)
(* prepared, and mounted later unless a mode or a directory closed some    *)
(* file to its owner; what is mounted is whole, within the limits and what *)
(* was verified.                                                           *)
THEOREM PackagesSurvive == TreeSpec => []PackageSurvives
  <1>1. TreeInit => TreeInv
    BY DEF TreeInit, TreeInv, TreeVerified, TreeInCache
  <1>2. TreeInv /\ [TreeNext]_treeVars => TreeInv'
    BY TreeStepSafe
  <1>3. TreeInv => PackageSurvives
    <2> SUFFICES ASSUME TreeInv PROVE PackageSurvives
      OBVIOUS
    <2>1. treeAt # "spoilt"
      BY DEF TreeInv, TreeVerified
    <2>2. treeAt = "failed" /\ treeMeta # Rejected =>
            treeChanged \/ ~validate_platform(treeMeta.manifest, treePlatform)
      BY DEF TreeInv
    <2>3. ASSUME treeAt = "mounted"
          PROVE  /\ RequiredFiles \subseteq DOMAIN treeCached
                 /\ TotalSize(treeCached) <= MaxPackageBytes
                 /\ \A f \in DOMAIN treeMeta.files : treeCached[f].content = treeMeta.files[f].content
      <3>1. IsMeta(treeMeta) /\ IsCopy(treeCached, treeMeta)
        BY <2>3 DEF TreeInv, TreeVerified, TreeInCache
      <3>2. TotalSize(treeCached) <= MaxPackageBytes
        BY <3>1, CopyTotal
      <3> QED
        BY <3>1, <3>2 DEF IsMeta, IsCopy, ValidMetadata
    <2>4. treeAt = "corrupt" => \E f \in DOMAIN treeCached : ~Openable(treeCached[f])
      BY DEF TreeInv, AllOpen
    <2> QED
      BY <2>1, <2>2, <2>3, <2>4 DEF PackageSurvives
  <1> QED
    BY <1>1, <1>2, <1>3, PTL DEF TreeSpec
=============================================================================
