SPECIFICATION Spec
CONSTANTS
  Runs = {1, 2}
  LockPairs = {l1}
  Digests = {d1}
  Logs = {}
  Nil = Nil
  Readers = {reader}
  MaxClock = 1
  MaxLosses = 0
INVARIANTS
  LatestIsRecent
