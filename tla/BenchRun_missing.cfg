SPECIFICATION Spec
CONSTANTS
  Runs = {1}
  LockPairs = {l1}
  Digests = {d1}
  Logs = {}
  Nil = Nil
  Readers = {reader}
  MaxClock = 0
  MaxLosses = 0
INVARIANTS
  MissingIsMissing
