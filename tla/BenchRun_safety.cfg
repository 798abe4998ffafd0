SPECIFICATION Spec
CONSTANTS
  Runs = {1, 2}
  LockPairs = {l1, l2}
  Digests = {d1}
  Logs = {e1}
  Nil = Nil
  Readers = {}
  MaxClock = 0
  MaxLosses = 1
INVARIANTS
  TypeOK
  CompletedIsBacked
  JournalsReadable
  SuccessIsDurable
  LatestIsShowable
PROPERTIES
  JournalsMoveForward
  SyncedIsFinal
