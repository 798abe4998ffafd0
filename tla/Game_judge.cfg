SPECIFICATION JudgesSpec
CONSTANTS
  Nil = Nil
  Threads = {t1, t2}
  MaxActive = 2
  Lingers = TRUE
  Scores <- BelowZero
  MaxGames = 3
  MaxMoves = 1
  NoScore = NoScore
  MaxTimeout = 40
  ReadyLooks = 2
INVARIANTS
  TypeOK
  EveryGameOnce
  CapacityKept
  BestOfArchived
  JudgeIsSound
PROPERTIES
  ImplementsArchive
  Answered
