SPECIFICATION FairSpec
CONSTANTS
  Nil = Nil
  w1 = w1
  w2 = w2
  c1 = c1
  c2 = c2
  c3 = c3
  Whos = {w1, w2}
  Modelled = {w1}
  TaskLocks = {t1}
  CandLocks = {c1}
  WhoOf <- MCWhoOf
  Outcomes <- MixedOutcomes
  MaxTokens = 3
  Members = 2
  Specs = {spec1, spec2}
  RunIds = {1, 2, 3, 4, 5}
  Sessions = {s1, s2}
  MaxAlive = 1
  MaxReplaced = 0
  MaxLosses = 0
INVARIANTS
  ReportIsOfItsSource
  ReportAddsUp
PROPERTIES
  ImplementsLedger
  SessionsEnd
