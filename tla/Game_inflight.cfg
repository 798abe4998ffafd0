SPECIFICATION Spec
CONSTANTS
  Nil = Nil
  Threads = {t1, t2}
  MaxActive = 1
  Lingers = FALSE
  Scores = {0, 1}
  MaxGames = 2
  MaxMoves = 2
INVARIANTS
  BestScoreCounts
