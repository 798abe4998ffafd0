SPECIFICATION HistorySpec
CONSTANTS
  Runs = {1, 2}
  LockPairs = {l1}
  Digests = {d1}
  Logs = {}
  Nil = Nil
  Readers = {}
  MaxClock = 0
  MaxLosses = 0
PROPERTIES
  OlderRunDoesNotStealLatest
