SPECIFICATION CandidateSpec
CONSTANTS
  Nil = Nil
  Runs = {r1}
  Restricted = {r1}
  Volumes <- MCVolumes
  Pids = {p1}
  MaxStart = 1
  MaxBoots = 2
  LateBy = 2
  Window = 3
  Patience = 4
  BufferBytes = 2
  TunnelBytes = 5
  ChunkBytes = 2
  PrefaceBytes = 1
  MaxSent = 3
  Conns = {c1, c2}
  MaxConnections = 1
  MaxDns = 1
  MaxAddresses = 2
  MaxHello = 4
  Refused = Refused
  Limit = 3
  MaxResumes = 2
  MaxStops = 6
  Imports <- MCImports
  PullAttempts = 2
  Paths = {"f", "g"}
  MaxEnvelope = 1
  StepTicks = 2
  TokenTicks = 3
  Skew = 1
  MaxSizes = 3
  MaxCandidates = 3
  PolicyFiles = 2
  PolicyFileBytes = 1
  PolicyTotalBytes = 1
  TarOverhead = 2
  TransferLimit = 9
  PipeBlocks = 1
INVARIANTS
  RemovedIsGone
  SuccessIsClean
  RelayIsFaithful
  ProxyIsSound
  ReviewIsEarned
  RunLeavesNothing
  StepYieldsWorkspace
  ExportIsProjection
PROPERTIES
  RunsEnd
  PartsEnd
