SPECIFICATION Spec
SYMMETRY Symmetric
CONSTANTS
  Nil = Nil
  w1 = w1
  w2 = w2
  c1 = c1
  c2 = c2
  c3 = c3
  Whos = {w1, w2}
  Modelled = {w1}
  TaskLocks = {t1, t2}
  CandLocks = {c1, c3}
  WhoOf <- MCWhoOf
  Outcomes <- PlainOutcome
  MaxTokens = 3
  Members = 2
  Specs = {spec1}
  RunIds = {1, 2, 3, 4, 5}
  Sessions = {s1, s2}
  MaxAlive = 2
  MaxReplaced = 1
  MaxLosses = 1
INVARIANTS
  RecordedIsOwn
  ReportIsFair
