SPECIFICATION HostSpec
CONSTANTS
  Nil = Nil
  Runs = {r1, r2}
  Restricted = {}
  Volumes <- MCVolumes
  Pids = {p1, p2}
  MaxStart = 2
  MaxBoots = 2
  LateBy = 0
  Window = 1
  Patience = 0
  NoDir = NoDir
  SeedRuns = {r1, r2}
  SeedFiles = {f1, f2}
  NoAsset = NoAsset
  AssetRuns = {r1, r2}
  Versions = {"v1", "v2"}
  Manifests <- MCManifests
  SnapRuns = {r1, r2}
  SnapFiles = {g1, g2}
  Contents = 2
  MaxTrees = 3
  PkgRuns = {r1, r2}
  PkgVersions = {w1, w2}
  MaxFileBytes = 2
  MaxPackageBytes = 7
  Rejected = Rejected
  NoHome = NoHome
  HomeRuns = {r1, r2}
  OldHomes = {o1}
  LockCases <- MCLockCases
  NoLock = NoLock
  PartialLock = PartialLock
  MaxLockChanges = 1
SYMMETRY Symmetric
INVARIANTS
  
  AssetIsWhole
  SnapshotIsTrue
  LockedIsLoadable
  PackageSurvives
  CredentialsAreOwned
  LockIsBinding
PROPERTIES
  SweepClears
  SweepSparesTheLiving
