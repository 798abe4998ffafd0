-------------------------- MODULE GameServerProofs --------------------------
(***************************************************************************)
(* What is proved of GameServer for every set of threads, every session    *)
(* limit, every set of scores and every bound on games and moves, and of   *)
(* LegacyJudge for every timeout and every number of looks.                *)
(***************************************************************************)
EXTENDS GameServer, LegacyJudge, Loops

(* Whoever is about a game is about one that was started.                  *)
Known ==
  /\ \A t \in Threads :
       thread[t].at \in {"play", "retire", "archive", "append"} => thread[t].on \in Games
  /\ \A i \in DOMAIN history : history[i].game \in Games

(* finish() has games to archive exactly while it archives.                *)
JudgeInStep ==
  /\ judge.at \in {"idle", "read", "done"} => judge.games = {}
  /\ judge.at = "archive" => judge.games # {}
  /\ judge.at = "append" => judge.entry \in Entries /\ judge.entry.game \in judge.games

(* An entry that was made is what its game ends with, for the game is shut. *)
Final(e) == e = Entry(e.game) /\ ~game[e.game].open

EntriesFinal ==
  /\ \A t \in Threads : thread[t].at = "append" =>
       thread[t].entry \in Entries /\ thread[t].entry.game = thread[t].on /\ Final(thread[t].entry)
  /\ judge.at = "append" => Final(judge.entry)
  /\ \A i \in DOMAIN history : Final(history[i])

(* The thread that holds new_lock has room for the game it will create.    *)
Room ==
  /\ IsFiniteSet(sessions)
  /\ Cardinality(sessions) <= MaxActive
  /\ newLock # Nil => Cardinality(sessions) < MaxActive
  /\ \A t \in Threads : thread[t].at = "create" => newLock = t

IInv == TypeOK /\ Known /\ JudgeInStep /\ EntriesFinal /\ EveryGameOnce /\ Room

USE ActiveAssumption, LingersAssumption, NilIsNoThread, ScoreAssumption

-----------------------------------------------------------------------------
LEMMA InitIInv == Init => IInv
<1> SUFFICES ASSUME Init PROVE IInv
  OBVIOUS
<1> USE DEF Init, Idle, Unasked, Games
<1>1. TypeOK
  BY DEF TypeOK, Steps, ThreadStates, JudgeStates
<1>2. Known /\ JudgeInStep /\ EntriesFinal /\ EveryGameOnce
  BY DEF Known, JudgeInStep, EntriesFinal, EveryGameOnce
<1>3. Room
  BY FS_EmptySet DEF Room
<1> QED
  BY <1>1, <1>2, <1>3 DEF IInv

LEMMA GamesAreNumbered == ASSUME TypeOK PROVE Games = 1..Len(game) /\ Len(game) \in Nat
  BY DEF TypeOK, Games

LEMMA GameTyped == ASSUME TypeOK, NEW g \in Games PROVE game[g] \in GameStates /\ g \in Nat \ {0}
  BY GamesAreNumbered DEF TypeOK

LEMMA EntryTyped == ASSUME TypeOK, NEW g \in Games PROVE Entry(g) \in Entries
  BY GameTyped DEF GameStates, Entry, Entries

LEMMA ServingTyped ==
  ASSUME NEW a \in Steps, NEW g \in Nat PROVE [Idle EXCEPT !.at = a, !.on = g] \in ThreadStates
  BY DEF Idle, ThreadStates

LEMMA FreshTyped == Idle \in ThreadStates /\ [Idle EXCEPT !.at = "create"] \in ThreadStates
  BY DEF Idle, ThreadStates, Steps

-----------------------------------------------------------------------------
(* A thread goes on without archiving, and no closed game is touched.      *)
LEMMA MovesKeeps ==
  ASSUME IInv, NEW t \in Threads, NEW r \in ThreadStates,
         thread[t].at \notin {"archive", "append"},
         r.at \notin {"create", "archive", "append"},
         r.at \in {"play", "retire"} => r.on \in Games,
         thread' = [thread EXCEPT ![t] = r],
         game' \in Seq(GameStates), DOMAIN game' = Games,
         \A g \in Games : ~game[g].open => game'[g] = game[g],
         UNCHANGED <<sessions, history, newLock, judge, result>>
  PROVE  IInv'
<1> USE DEF IInv
<1>1. TypeOK'
  BY DEF TypeOK, Games, JudgeStates
<1> USE DEF ThreadStates
<1>2. Known' /\ JudgeInStep'
  BY DEF TypeOK, Known, JudgeInStep, Games
<1>3. EntriesFinal'
  <2>1. \A e : e.game \in Games /\ Final(e) => Final(e)'
    BY DEF Final, Entry
  <2> QED
    BY <2>1 DEF EntriesFinal, Known, JudgeInStep, TypeOK, JudgeStates
<1>4. EveryGameOnce'
  <2>1. \A h : Archivers(h)' = Archivers(h) /\ Archived(h)' = Archived(h)
    BY DEF TypeOK, Archivers, Archived
  <2> QED
    BY <2>1 DEF EveryGameOnce, Games
<1>5. Room'
  BY DEF TypeOK, Room
<1> QED
  BY <1>1, <1>2, <1>3, <1>4, <1>5

(* Taking a game out of the registry: eviction, the last move, /close.     *)
LEMMA TakenKeeps ==
  ASSUME IInv, NEW t \in Threads, NEW g \in sessions,
         NEW r \in ThreadStates, r.at = "archive", r.on = g,
         thread[t].at \notin {"create", "archive", "append"},
         thread' = [thread EXCEPT ![t] = r],
         sessions' = sessions \ {g},
         newLock' \in {newLock, t}, newLock' # newLock => newLock = Nil,
         UNCHANGED <<game, history, judge, result>>
  PROVE  IInv'
<1> USE DEF IInv
<1>1. TypeOK'
  BY DEF TypeOK, Games, JudgeStates
<1> USE DEF ThreadStates
<1>2. Known' /\ JudgeInStep'
  BY DEF TypeOK, Known, JudgeInStep, Games
<1>3. EntriesFinal'
  BY DEF TypeOK, EntriesFinal, Final, Entry
<1>4. EveryGameOnce'
  <2>1. \A h : h # g => Archivers(h)' = Archivers(h)
    BY DEF TypeOK, Archivers
  <2>2. Archivers(g)' = Archivers(g) \cup {t}
    BY DEF TypeOK, Archivers
  <2>3. \A h : Archived(h)' = Archived(h)
    BY DEF Archived
  <2>4. Games' = Games /\ Archivers(g) = {} /\ Archived(g) = {}
    BY DEF EveryGameOnce, Games, TypeOK
  <2> SUFFICES ASSUME NEW h \in Games
               PROVE  /\ h \in sessions' \/ Archivers(h)' # {} \/ Archived(h)' # {}
                      /\ h \in sessions' => Archivers(h)' = {} /\ Archived(h)' = {}
                      /\ Archivers(h)' # {} => Archived(h)' = {}
                      /\ \A x, y \in Archivers(h)' : x = y
                      /\ \A i, j \in Archived(h)' : i = j
    BY <2>4 DEF EveryGameOnce
  <2>5. CASE h = g
    BY <2>2, <2>3, <2>4, <2>5
  <2>6. CASE h # g
    BY <2>1, <2>3, <2>6 DEF EveryGameOnce
  <2> QED
    BY <2>5, <2>6
<1>5. Room'
  <2>1. IsFiniteSet(sessions') /\ Cardinality(sessions') = Cardinality(sessions) - 1
    BY FS_RemoveElement DEF Room
  <2>2. Cardinality(sessions) \in Nat
    BY FS_CardinalityType DEF Room
  <2> QED
    BY <2>1, <2>2 DEF TypeOK, Room
<1> QED
  BY <1>1, <1>2, <1>3, <1>4, <1>5

LEMMA StartStepKeeps == ASSUME IInv, NEW t \in Threads, StartStep(t) PROVE IInv'
<1>1. PICK g \in sessions : thread' = [thread EXCEPT ![t] = [Idle EXCEPT !.at = "play", !.on = g]]
  BY DEF StartStep, Goes
<1>2. [Idle EXCEPT !.at = "play", !.on = g] \in ThreadStates
  BY GameTyped, ServingTyped DEF IInv, TypeOK, Steps
<1> QED
  BY <1>1, <1>2, MovesKeeps DEF IInv, TypeOK, StartStep, At, Idle, Games

LEMMA StartNewKeeps == ASSUME IInv, NEW t \in Threads, StartNew(t) PROVE IInv'
<1> USE DEF IInv
<1>1. CASE Cardinality(sessions) >= MaxActive
  <2>1. Cardinality(sessions) \in Nat
    BY FS_CardinalityType DEF Room
  <2>2. PICK g \in sessions :
          /\ sessions' = sessions \ {g}
          /\ thread' = [thread EXCEPT ![t] = [Idle EXCEPT !.at = "archive", !.on = g]]
    <3>1. ~(Cardinality(sessions) < MaxActive)
      BY <1>1, <2>1
    <3>2. PICK g \in Oldest(sessions) :
            /\ sessions' = sessions \ {g}
            /\ Goes(t, [Idle EXCEPT !.at = "archive", !.on = g])
      BY <3>1, Zenon DEF StartNew
    <3>3. g \in sessions
      BY DEF Oldest
    <3> QED
      BY <3>2, <3>3, Zenon DEF Goes
  <2>3. [Idle EXCEPT !.at = "archive", !.on = g] \in ThreadStates
    BY GameTyped, ServingTyped DEF TypeOK, Steps
  <2> QED
    BY <2>2, <2>3, TakenKeeps DEF StartNew, At, Idle
<1>2. CASE ~(Cardinality(sessions) >= MaxActive)
  <2>1. Cardinality(sessions) \in Nat
    BY FS_CardinalityType DEF Room
  <2>2. /\ thread' = [thread EXCEPT ![t] = [Idle EXCEPT !.at = "create"]]
        /\ thread[t].at = "idle" /\ newLock = Nil /\ newLock' = t
        /\ UNCHANGED <<game, sessions, history, judge, result>>
    BY <1>2, <2>1 DEF StartNew, Goes, At
  <2>3. TypeOK'
    BY <2>2, FreshTyped DEF TypeOK, Games, JudgeStates
  <2> USE DEF Idle, ThreadStates
  <2>4. Known' /\ JudgeInStep'
    BY <2>2 DEF TypeOK, Known, JudgeInStep, Games
  <2>5. EntriesFinal'
    BY <2>2 DEF TypeOK, EntriesFinal, Final, Entry
  <2>6. EveryGameOnce'
    <3>1. \A h : Archivers(h)' = Archivers(h) /\ Archived(h)' = Archived(h)
      BY <2>2 DEF TypeOK, Archivers, Archived
    <3> QED
      BY <2>2, <3>1 DEF EveryGameOnce, Games
  <2>7. Room'
    BY <1>2, <2>1, <2>2 DEF TypeOK, Room
  <2> QED
    BY <2>3, <2>4, <2>5, <2>6, <2>7
<1> QED
  BY <1>1, <1>2

LEMMA CloseKeeps == ASSUME IInv, NEW t \in Threads, Close(t) PROVE IInv'
<1>1. PICK g \in sessions :
        /\ sessions' = sessions \ {g}
        /\ thread' = [thread EXCEPT ![t] = [Idle EXCEPT !.at = "archive", !.on = g]]
  BY DEF Close, Goes
<1>2. [Idle EXCEPT !.at = "archive", !.on = g] \in ThreadStates
  BY GameTyped, ServingTyped DEF IInv, TypeOK, Steps
<1> QED
  BY <1>1, <1>2, TakenKeeps DEF Close, At, Idle

LEMMA RetireKeeps == ASSUME IInv, NEW t \in Threads, Retire(t) PROVE IInv'
<1> USE DEF IInv
<1>1. CASE thread[t].on \in sessions
  <2> DEFINE r == [thread[t] EXCEPT !.at = "archive"]
  <2>1. r \in ThreadStates /\ r.at = "archive" /\ r.on = thread[t].on
    BY DEF TypeOK, ThreadStates, Steps
  <2>2. thread' = [thread EXCEPT ![t] = r] /\ sessions' = sessions \ {thread[t].on}
    BY <1>1 DEF Retire, Goes
  <2> HIDE DEF r
  <2> QED
    BY <1>1, <2>1, <2>2, TakenKeeps DEF Retire, At
<1>2. CASE thread[t].on \notin sessions
  BY <1>2, MovesKeeps, FreshTyped DEF Retire, At, Goes, Idle, TypeOK, Games
<1> QED
  BY <1>1, <1>2

LEMMA MovedTyped ==
  ASSUME NEW x \in GameStates, NEW score \in Scores, NEW done \in BOOLEAN
  PROVE  /\ [x EXCEPT !.moves = @ + 1, !.done = done] \in GameStates
         /\ [x EXCEPT !.score = score, !.moves = @ + 1, !.done = done,
                      !.peak = IF score > @ THEN score ELSE @] \in GameStates
<1> DEFINE n == x.moves + 1
           p == IF score > x.peak THEN score ELSE x.peak
<1>1. n \in Nat /\ p \in Scores
  BY SMT DEF GameStates
<1> HIDE DEF n, p
<1>2. [x EXCEPT !.moves = n, !.done = done] \in GameStates
  BY <1>1, Zenon DEF GameStates
<1>3. [x EXCEPT !.score = score, !.moves = n, !.done = done, !.peak = p] \in GameStates
  BY <1>1, Zenon DEF GameStates
<1> QED
  BY <1>2, <1>3, Zenon DEF n, p

LEMMA PlayKeeps == ASSUME IInv, NEW t \in Threads, Play(t) PROVE IInv'
<1> DEFINE g == thread[t].on
           r == [thread[t] EXCEPT !.at = "retire"]
<1> USE DEF IInv
<1>1. thread[t].at = "play" /\ g \in Games /\ game[g] \in GameStates
  BY GameTyped DEF Play, At, Known
<1>2. r \in ThreadStates /\ r.at = "retire" /\ r.on = g
  BY DEF TypeOK, ThreadStates, Steps
<1>3. thread' = [thread EXCEPT ![t] = r] \/ thread' = [thread EXCEPT ![t] = Idle]
  BY DEF Play, Goes
<1>4. /\ game' \in Seq(GameStates) /\ DOMAIN game' = Games
      /\ \A h \in Games : ~game[h].open => game'[h] = game[h]
  <2>1. ASSUME NEW s \in GameStates, game' = [game EXCEPT ![g] = s], game[g].open PROVE <1>4
    BY <1>1, <2>1 DEF TypeOK, Games
  <2>2. CASE UNCHANGED game
    BY <2>2 DEF TypeOK, Games
  <2>3. ASSUME game[g].open, NEW score \in Scores, NEW done \in BOOLEAN,
               game' = [game EXCEPT ![g].score = score, ![g].moves = @ + 1, ![g].done = done,
                                    ![g].peak = IF score > @ THEN score ELSE @]
        PROVE  <1>4
    <3> DEFINE s == [game[g] EXCEPT !.score = score, !.moves = @ + 1, !.done = done,
                                    !.peak = IF score > @ THEN score ELSE @]
    <3>1. s \in GameStates
      BY <1>1, MovedTyped
    <3>2. game' = [game EXCEPT ![g] = s]
      BY <2>3, Zenon
    <3> HIDE DEF s
    <3> QED
      BY <2>1, <2>3, <3>1, <3>2
  <2>4. ASSUME game[g].open, NEW done \in BOOLEAN,
               game' = [game EXCEPT ![g].moves = @ + 1, ![g].done = done]
        PROVE  <1>4
    <3> DEFINE s == [game[g] EXCEPT !.moves = @ + 1, !.done = done]
    <3>1. s \in GameStates
      BY <1>1, MovedTyped
    <3>2. game' = [game EXCEPT ![g] = s]
      BY <2>4, Zenon
    <3> HIDE DEF s
    <3> QED
      BY <2>1, <2>4, <3>1, <3>2
  <2> QED
    BY <2>2, <2>3, <2>4, Zenon DEF Play
<1> HIDE DEF g, r
<1> QED
  BY <1>1, <1>2, <1>3, <1>4, MovesKeeps, FreshTyped DEF Play, Idle

LEMMA NewGameTyped == NewGame \in GameStates
  BY DEF NewGame, GameStates

LEMMA CreateGameKeeps == ASSUME IInv, NEW t \in Threads, CreateGame(t) PROVE IInv'
<1> USE DEF IInv
<1>1. /\ thread[t].at = "create" /\ newLock = t /\ newLock' = Nil
      /\ thread' = [thread EXCEPT ![t] = Idle]
      /\ UNCHANGED <<history, judge, result>>
  BY DEF CreateGame, At, Goes, Room
<1> DEFINE n == Len(game) + 1
<1>2. Games = 1..Len(game) /\ Len(game) \in Nat /\ n \notin Games
  BY GamesAreNumbered
<1>3. CASE UNCHANGED <<game, sessions>>
  <2>1. TypeOK'
    BY <1>1, <1>3, FreshTyped DEF TypeOK, Games, JudgeStates
  <2> USE DEF Idle, ThreadStates
  <2>2. Known' /\ JudgeInStep'
    BY <1>1, <1>3 DEF TypeOK, Known, JudgeInStep, Games
  <2>3. EntriesFinal'
    BY <1>1, <1>3 DEF TypeOK, EntriesFinal, Final, Entry
  <2>4. EveryGameOnce'
    <3>1. \A h : Archivers(h)' = Archivers(h) /\ Archived(h)' = Archived(h)
      BY <1>1, <1>3 DEF TypeOK, Archivers, Archived
    <3> QED
      BY <1>3, <3>1 DEF EveryGameOnce, Games
  <2>5. Room'
    BY <1>1, <1>3 DEF TypeOK, Room
  <2> QED
    BY <2>1, <2>2, <2>3, <2>4, <2>5
<1>4. CASE game' = Append(game, NewGame) /\ sessions' = sessions \cup {n}
  <2>1. /\ Games' = Games \cup {n} /\ game' \in Seq(GameStates)
        /\ \A g \in Games : game'[g] = game[g]
    BY <1>2, <1>4, NewGameTyped DEF TypeOK, Games
  <2>2. TypeOK'
    BY <1>1, <1>4, <2>1, FreshTyped DEF TypeOK, JudgeStates
  <2> USE DEF Idle, ThreadStates
  <2>3. Known' /\ JudgeInStep'
    BY <1>1, <2>1 DEF TypeOK, Known, JudgeInStep
  <2>4. EntriesFinal'
    <3>1. \A e : e.game \in Games /\ Final(e) => Final(e)'
      BY <2>1 DEF Final, Entry
    <3> QED
      BY <1>1, <3>1 DEF EntriesFinal, Known, JudgeInStep, TypeOK, JudgeStates
  <2>5. EveryGameOnce'
    <3>1. \A h : Archivers(h)' = Archivers(h) /\ Archived(h)' = Archived(h)
      BY <1>1 DEF TypeOK, Archivers, Archived
    <3>2. Archivers(n) = {} /\ Archived(n) = {}
      BY <1>2 DEF Archivers, Archived, Known, TypeOK, JudgeStates
    <3>3. n \in sessions' /\ \A h \in Games : h \in sessions' <=> h \in sessions
      BY <1>2, <1>4
    <3> QED
      BY <2>1, <3>1, <3>2, <3>3 DEF EveryGameOnce
  <2>6. Room'
    <3>1. IsFiniteSet(sessions') /\ Cardinality(sessions') = Cardinality(sessions) + 1
      BY <1>2, <1>4, FS_AddElement DEF Room, TypeOK
    <3>2. Cardinality(sessions) \in Nat /\ Cardinality(sessions) < MaxActive
      BY <1>1, FS_CardinalityType DEF Room
    <3> QED
      BY <1>1, <3>1, <3>2 DEF TypeOK, Room
  <2> QED
    BY <2>2, <2>3, <2>4, <2>5, <2>6
<1> QED
  BY <1>3, <1>4 DEF CreateGame

-----------------------------------------------------------------------------
(* To shut a game changes nothing an entry holds.                          *)
LEMMA ShutFacts ==
  ASSUME TypeOK, NEW g \in Games, Shut(g)
  PROVE  /\ game' \in Seq(GameStates) /\ Games' = Games
         /\ \A h \in Games : Entry(h)' = Entry(h) /\ (~game[h].open => ~game'[h].open)
         /\ ~game'[g].open
<1> DEFINE s == [game[g] EXCEPT !.open = FALSE]
<1>1. game[g] \in GameStates
  BY GameTyped
<1>2. s \in GameStates
  BY <1>1, Zenon DEF GameStates
<1>3. game' = [game EXCEPT ![g] = s]
  BY Zenon DEF Shut
<1>4. /\ ~s.open /\ s.score = game[g].score /\ s.peak = game[g].peak /\ s.moves = game[g].moves
  BY <1>1 DEF GameStates
<1> HIDE DEF s
<1>5. game' \in Seq(GameStates) /\ Games' = Games /\ game'[g] = s
  BY <1>2, <1>3 DEF TypeOK, Games
<1>6. \A h \in Games : h # g => game'[h] = game[h]
  BY <1>3 DEF TypeOK, Games
<1> QED
  BY <1>4, <1>5, <1>6 DEF Entry

LEMMA SealKeeps == ASSUME IInv, NEW t \in Threads, Seal(t) PROVE IInv'
<1> USE DEF IInv
<1>0. PICK g, r : g = thread[t].on /\ r = [thread[t] EXCEPT !.at = "append", !.entry = Entry(g)]
  OBVIOUS
<1>1. thread[t].at = "archive" /\ thread[t].on = g /\ g \in Games
  BY <1>0 DEF Seal, At, Known
<1>2. r \in ThreadStates /\ r.at = "append" /\ r.on = g /\ r.entry = Entry(g) /\ Entry(g) \in Entries
  BY <1>0, <1>1, EntryTyped DEF TypeOK, ThreadStates, Steps
<1>3. thread' = [thread EXCEPT ![t] = r] /\ UNCHANGED <<sessions, history, newLock, judge, result>>
  BY <1>0 DEF Seal, Goes
<1>4. /\ game' \in Seq(GameStates) /\ Games' = Games
      /\ \A h \in Games : Entry(h)' = Entry(h) /\ (~game[h].open => ~game'[h].open)
      /\ ~game'[g].open
  BY <1>1, ShutFacts DEF Seal
<1>5. TypeOK'
  BY <1>2, <1>3, <1>4 DEF TypeOK, JudgeStates
<1>6. Known' /\ JudgeInStep'
  BY <1>1, <1>2, <1>3, <1>4 DEF TypeOK, Known, JudgeInStep
<1>7. EntriesFinal'
  <2>1. \A e : e.game \in Games /\ Final(e) => Final(e)'
    BY <1>4 DEF Final
  <2>2. r.entry.game = g /\ Final(r.entry)'
    BY <1>1, <1>2, <1>4 DEF Final, Entry
  <2> QED
    BY <1>2, <1>3, <2>1, <2>2 DEF EntriesFinal, Known, JudgeInStep, TypeOK, JudgeStates
<1>8. EveryGameOnce'
  <2>1. \A h : Archivers(h)' = Archivers(h) /\ Archived(h)' = Archived(h)
    BY <1>1, <1>2, <1>3 DEF TypeOK, Archivers, Archived
  <2> QED
    BY <1>3, <1>4, <2>1 DEF EveryGameOnce
<1>9. Room'
  BY <1>2, <1>3 DEF TypeOK, Room
<1> QED
  BY <1>5, <1>6, <1>7, <1>8, <1>9

LEMMA AppendFacts ==
  ASSUME TypeOK, NEW e \in Entries, history' = Append(history, e)
  PROVE  /\ \E n : /\ DOMAIN history' = DOMAIN history \cup {n} /\ n \notin DOMAIN history
                   /\ history'[n] = e /\ \A i \in DOMAIN history : history'[i] = history[i]
         /\ \A i \in DOMAIN history' :
              history'[i] = e \/ (i \in DOMAIN history /\ history'[i] = history[i])
<1>1. DOMAIN history = 1..Len(history) /\ Len(history) \in Nat
  BY DEF TypeOK
<1>2. /\ DOMAIN history' = DOMAIN history \cup {Len(history) + 1}
      /\ Len(history) + 1 \notin DOMAIN history
      /\ history'[Len(history) + 1] = e /\ \A i \in DOMAIN history : history'[i] = history[i]
  BY <1>1 DEF TypeOK
<1>3. \A i \in DOMAIN history' :
        history'[i] = e \/ (i \in DOMAIN history /\ history'[i] = history[i])
  BY <1>2, Zenon
<1> QED
  BY <1>2, <1>3, Zenon

(* An entry joins the history, and whoever brought it has done with the    *)
(* game.                                                                   *)
LEMMA JoinedOnce ==
  ASSUME IInv, NEW e \in Entries, NEW x \in Archivers(e.game), e.game \in Games,
         history' = Append(history, e), UNCHANGED <<game, sessions>>,
         Archivers(e.game)' = Archivers(e.game) \ {x},
         \A h \in Games : h # e.game => Archivers(h)' = Archivers(h)
  PROVE  EveryGameOnce'
<1> USE DEF IInv
<1> DEFINE g == e.game
<1>2. PICK n : /\ DOMAIN history' = DOMAIN history \cup {n} /\ n \notin DOMAIN history
               /\ history'[n] = e /\ \A i \in DOMAIN history : history'[i] = history[i]
  BY AppendFacts
<1>3. Archived(g)' = Archived(g) \cup {n} /\ \A h : h # g => Archived(h)' = Archived(h)
  BY <1>2 DEF Archived
<1>4. g \notin sessions /\ Archived(g) = {} /\ Archivers(g) = {x}
  BY DEF EveryGameOnce
<1> SUFFICES ASSUME NEW h \in Games
             PROVE  /\ h \in sessions \/ Archivers(h)' # {} \/ Archived(h)' # {}
                    /\ h \in sessions => Archivers(h)' = {} /\ Archived(h)' = {}
                    /\ Archivers(h)' # {} => Archived(h)' = {}
                    /\ \A v, w \in Archivers(h)' : v = w
                    /\ \A i, j \in Archived(h)' : i = j
  BY DEF EveryGameOnce, Games
<1>5. CASE h = g
  BY <1>3, <1>4, <1>5
<1>6. CASE h # g
  BY <1>3, <1>6 DEF EveryGameOnce
<1> QED
  BY <1>5, <1>6

LEMMA JoinKeeps == ASSUME IInv, NEW t \in Threads, Join(t) PROVE IInv'
<1> USE DEF IInv
<1>0. PICK e, r : /\ e = thread[t].entry
                  /\ r = IF newLock = t THEN [Idle EXCEPT !.at = "create"] ELSE Idle
  OBVIOUS
<1>1. thread[t].at = "append" /\ e \in Entries /\ e.game = thread[t].on /\ e.game \in Games /\ Final(e)
  BY <1>0 DEF Join, At, EntriesFinal, Known
<1>2. r \in ThreadStates /\ r.at \in {"idle", "create"} /\ (r.at = "create" => newLock = t)
  BY <1>0, FreshTyped DEF Idle
<1>3. /\ thread' = [thread EXCEPT ![t] = r] /\ history' = Append(history, e)
      /\ UNCHANGED <<game, sessions, newLock, judge, result>>
  BY <1>0 DEF Join, Goes
<1>4. TypeOK'
  BY <1>1, <1>2, <1>3 DEF TypeOK, Games, JudgeStates
<1>5. Known' /\ JudgeInStep'
  BY <1>1, <1>2, <1>3 DEF TypeOK, Known, JudgeInStep, Games
<1>6. EntriesFinal'
  <2>1. \A d : Final(d)' <=> Final(d)
    BY <1>3 DEF Final, Entry
  <2>2. \A t2 \in Threads : thread'[t2].at = "append" => thread'[t2] = thread[t2] /\ thread[t2].at = "append"
    BY <1>2, <1>3 DEF TypeOK
  <2>3. \A i \in DOMAIN history' : history'[i] = e \/ (i \in DOMAIN history /\ history'[i] = history[i])
    BY <1>1, <1>3, AppendFacts, Zenon
  <2> QED
    BY <1>1, <1>3, <2>1, <2>2, <2>3 DEF EntriesFinal
<1>7. EveryGameOnce'
  <2>1. t \in Archivers(e.game) /\ Archivers(e.game)' = Archivers(e.game) \ {t}
    BY <1>1, <1>2, <1>3 DEF Archivers, TypeOK
  <2>2. \A h \in Games : h # e.game => Archivers(h)' = Archivers(h)
    BY <1>1, <1>2, <1>3 DEF Archivers, TypeOK
  <2> QED
    BY <1>1, <1>3, <2>1, <2>2, JoinedOnce
<1>8. Room'
  BY <1>2, <1>3 DEF TypeOK, Room
<1> QED
  BY <1>4, <1>5, <1>6, <1>7, <1>8

-----------------------------------------------------------------------------
LEMMA RemainingFacts ==
  ASSUME NEW gs \in SUBSET Games
  PROVE  /\ Remaining(gs) \in JudgeStates /\ Remaining(gs).games = gs
         /\ Remaining(gs).at = IF gs = {} THEN "read" ELSE "archive"
  BY DEF Remaining, Unasked, JudgeStates

LEMMA CloseAllKeeps == ASSUME IInv, CloseAll PROVE IInv'
<1> USE DEF IInv
<1>0. PICK gs, r : gs = sessions /\ r = Remaining(sessions)
  OBVIOUS
<1>1. judge.at = "idle" /\ judge.games = {} /\ gs \in SUBSET Games
  BY <1>0 DEF CloseAll, JudgeAt, JudgeInStep, TypeOK
<1>2. r \in JudgeStates /\ r.games = gs /\ r.at = IF gs = {} THEN "read" ELSE "archive"
  BY <1>0, <1>1, RemainingFacts
<1>3. judge' = r /\ sessions' = {} /\ UNCHANGED <<game, history, newLock, thread, result>>
  BY <1>0 DEF CloseAll
<1>4. TypeOK'
  BY <1>2, <1>3 DEF TypeOK, Games, JudgeStates
<1>5. Known' /\ JudgeInStep'
  BY <1>2, <1>3 DEF Known, JudgeInStep, Games
<1>6. EntriesFinal'
  BY <1>2, <1>3 DEF EntriesFinal, Final, Entry
<1>7. EveryGameOnce'
  <2>1. \A h : Archived(h)' = Archived(h) /\ (h \notin gs => Archivers(h)' = Archivers(h))
    BY <1>1, <1>2, <1>3 DEF Archived, Archivers
  <2>2. \A h \in gs : Archivers(h)' = Archivers(h) \cup {Nil}
    BY <1>1, <1>2, <1>3 DEF Archivers
  <2>3. \A h \in gs : Archivers(h) = {} /\ Archived(h) = {}
    BY <1>0, <1>1 DEF EveryGameOnce
  <2> SUFFICES ASSUME NEW h \in Games
               PROVE  /\ Archivers(h)' # {} \/ Archived(h)' # {}
                      /\ Archivers(h)' # {} => Archived(h)' = {}
                      /\ \A x, y \in Archivers(h)' : x = y
                      /\ \A i, j \in Archived(h)' : i = j
    BY <1>3 DEF EveryGameOnce, Games
  <2>4. CASE h \in gs
    BY <2>1, <2>2, <2>3, <2>4
  <2>5. CASE h \notin gs
    BY <1>0, <2>1, <2>5 DEF EveryGameOnce
  <2> QED
    BY <2>4, <2>5
<1>8. Room'
  BY <1>3, FS_EmptySet DEF Room
<1> QED
  BY <1>4, <1>5, <1>6, <1>7, <1>8

LEMMA SealAllKeeps == ASSUME IInv, SealAll PROVE IInv'
<1> USE DEF IInv
<1>0. PICK g \in judge.games : judge' = [judge EXCEPT !.at = "append", !.entry = Entry(g)] /\ Shut(g)
  BY DEF SealAll, Oldest
<1>1. judge.at = "archive" /\ g \in Games
  BY DEF SealAll, JudgeAt, TypeOK, JudgeStates
<1>2. PICK e : e = Entry(g) /\ e \in Entries
  BY <1>1, EntryTyped
<1>3. /\ game' \in Seq(GameStates) /\ Games' = Games
      /\ \A h \in Games : Entry(h)' = Entry(h) /\ (~game[h].open => ~game'[h].open)
      /\ ~game'[g].open
  BY <1>0, <1>1, ShutFacts
<1>4. /\ judge' \in JudgeStates
      /\ judge'.at = "append" /\ judge'.games = judge.games /\ judge'.entry = e
  BY <1>0, <1>2 DEF TypeOK, JudgeStates
<1>5. UNCHANGED <<sessions, history, newLock, thread, result>>
  BY DEF SealAll
<1>6. TypeOK'
  BY <1>3, <1>4, <1>5 DEF TypeOK, JudgeStates
<1>7. Known' /\ JudgeInStep'
  BY <1>2, <1>3, <1>4, <1>5 DEF Known, JudgeInStep, Entry
<1>8. EntriesFinal'
  <2>1. \A d : d.game \in Games /\ Final(d) => Final(d)'
    BY <1>3 DEF Final
  <2>2. Final(e)'
    BY <1>1, <1>2, <1>3 DEF Final, Entry
  <2> QED
    BY <1>4, <1>5, <2>1, <2>2 DEF EntriesFinal, Known
<1>9. EveryGameOnce'
  <2>1. \A h : Archivers(h)' = Archivers(h) /\ Archived(h)' = Archived(h)
    BY <1>4, <1>5 DEF Archivers, Archived
  <2> QED
    BY <1>3, <1>5, <2>1 DEF EveryGameOnce
<1>10. Room'
  BY <1>5 DEF Room
<1> QED
  BY <1>6, <1>7, <1>8, <1>9, <1>10

LEMMA JoinAllKeeps == ASSUME IInv, JoinAll PROVE IInv'
<1> USE DEF IInv
<1>0. PICK e, gs, r : e = judge.entry /\ gs = judge.games \ {e.game} /\ r = Remaining(gs)
  OBVIOUS
<1>1. /\ judge.at = "append" /\ e \in Entries /\ e.game \in judge.games
      /\ judge.games \subseteq Games /\ Final(e)
  BY <1>0 DEF JoinAll, JudgeAt, JudgeInStep, EntriesFinal, TypeOK, JudgeStates
<1>2. r \in JudgeStates /\ r.games = gs /\ r.at = IF gs = {} THEN "read" ELSE "archive"
  BY <1>0, <1>1, RemainingFacts
<1>3. /\ judge' = r /\ history' = Append(history, e)
      /\ UNCHANGED <<game, sessions, newLock, thread, result>>
  BY <1>0 DEF JoinAll
<1>4. TypeOK'
  BY <1>1, <1>2, <1>3 DEF TypeOK, Games, JudgeStates
<1>5. \A i \in DOMAIN history' : history'[i] = e \/ (i \in DOMAIN history /\ history'[i] = history[i])
  BY <1>1, <1>3, AppendFacts, Zenon
<1>6. Known' /\ JudgeInStep'
  BY <1>1, <1>2, <1>3, <1>5 DEF Known, JudgeInStep, Games
<1>7. EntriesFinal'
  <2>1. \A d : Final(d)' <=> Final(d)
    BY <1>3 DEF Final, Entry
  <2> QED
    BY <1>1, <1>2, <1>3, <1>5, <2>1 DEF EntriesFinal
<1>8. EveryGameOnce'
  <2>1. Nil \in Archivers(e.game) /\ Archivers(e.game)' = Archivers(e.game) \ {Nil}
    BY <1>0, <1>1, <1>2, <1>3 DEF Archivers
  <2>2. \A h \in Games : h # e.game => Archivers(h)' = Archivers(h)
    BY <1>0, <1>1, <1>2, <1>3 DEF Archivers
  <2> QED
    BY <1>1, <1>3, <2>1, <2>2, JoinedOnce
<1>9. Room'
  BY <1>3 DEF Room
<1> QED
  BY <1>4, <1>6, <1>7, <1>8, <1>9

LEMMA ReadHistoryKeeps == ASSUME IInv, ReadHistory PROVE IInv'
<1> USE DEF IInv
<1>1. /\ judge.at = "read" /\ judge.games = {}
      /\ judge'.at = "done" /\ judge'.games = {} /\ judge' \in JudgeStates
      /\ result' = history /\ UNCHANGED <<game, sessions, history, newLock, thread>>
  BY DEF ReadHistory, JudgeAt, JudgeInStep, Unasked, JudgeStates
<1>2. TypeOK'
  BY <1>1 DEF TypeOK, Games, JudgeStates
<1>3. Known' /\ JudgeInStep'
  BY <1>1 DEF Known, JudgeInStep, Games
<1>4. EntriesFinal'
  BY <1>1 DEF EntriesFinal, Final, Entry
<1>5. EveryGameOnce'
  <2>1. \A h : Archivers(h)' = Archivers(h) /\ Archived(h)' = Archived(h)
    BY <1>1 DEF Archivers, Archived
  <2> QED
    BY <1>1, <2>1 DEF EveryGameOnce, Games
<1>6. Room'
  BY <1>1 DEF Room
<1> QED
  BY <1>2, <1>3, <1>4, <1>5, <1>6

LEMMA StutterKeeps == ASSUME IInv, UNCHANGED vars PROVE IInv'
<1> USE DEF IInv, vars
<1>1. TypeOK'
  BY DEF TypeOK, Games, JudgeStates
<1>2. Known' /\ JudgeInStep'
  BY DEF Known, JudgeInStep, Games
<1>3. EntriesFinal'
  BY DEF EntriesFinal, Final, Entry
<1>4. EveryGameOnce'
  <2>1. \A h : Archivers(h)' = Archivers(h) /\ Archived(h)' = Archived(h)
    BY DEF Archivers, Archived
  <2> QED
    BY <2>1 DEF EveryGameOnce, Games
<1>5. Room'
  BY DEF Room
<1> QED
  BY <1>1, <1>2, <1>3, <1>4, <1>5

-----------------------------------------------------------------------------
(* No step leaves the invariant.                                           *)
LEMMA NextKeeps == IInv /\ [Next]_vars => IInv'
<1> SUFFICES ASSUME IInv, [Next]_vars PROVE IInv'
  OBVIOUS
<1>1. ASSUME NEW t \in Threads, Request(t) PROVE IInv'
  BY <1>1, StartNewKeeps, StartStepKeeps, CloseKeeps DEF Request
<1>2. ASSUME NEW t \in Threads, Serve(t) PROVE IInv'
  BY <1>2, CreateGameKeeps, PlayKeeps, RetireKeeps, SealKeeps, JoinKeeps DEF Serve
<1>3. CASE CloseAll \/ Finish
  BY <1>3, CloseAllKeeps, SealAllKeeps, JoinAllKeeps, ReadHistoryKeeps DEF Finish
<1>4. CASE Finished \/ UNCHANGED vars
  BY <1>4, StutterKeeps DEF Finished
<1> QED
  BY <1>1, <1>2, <1>3, <1>4 DEF Next

LEMMA Inductive == Spec => []IInv
  BY InitIInv, NextKeeps, PTL DEF Spec

(* Whatever the requests, every variable of the server keeps its type.     *)
THEOREM TypeCorrect == Spec => []TypeOK
  BY Inductive, PTL DEF IInv

(* No game is lost or archived twice, whichever of eviction, last move,    *)
(* /close and /close-all takes it out of the registry first.               *)
THEOREM GamesAccountedFor == Spec => []EveryGameOnce
  BY Inductive, PTL DEF IInv

(* What archive_session wrote is what the game ended with, though requests *)
(* that looked the session up before are still under way.                  *)
THEOREM ArchiveFinal == Spec => []ArchiveIsFinal
<1>1. IInv => ArchiveIsFinal
  BY DEF IInv, EntriesFinal, Final, ArchiveIsFinal
<1> QED
  BY <1>1, Inductive, PTL

(* The session limit holds although /new counts the sessions before it     *)
(* creates the environment and registers it after.                         *)
THEOREM LimitHolds == Spec => []CapacityKept
<1>1. IInv => CapacityKept
  BY DEF IInv, Room, CapacityKept
<1> QED
  BY <1>1, Inductive, PTL

-----------------------------------------------------------------------------
(* parse_game_history returns a score that no entry exceeds: the least      *)
(* prefix of the entries without a best one cannot be.                      *)
LEMMA RawIsBest ==
  ASSUME NEW entries \in Seq(Entries)
  PROVE  /\ \A i \in DOMAIN entries : entries[i].score <= Raw(entries)
         /\ entries = <<>> => Raw(entries) = 0
         /\ entries # <<>> => \E i \in DOMAIN entries : Raw(entries) = entries[i].score
<1>0. /\ DOMAIN entries = 1..Len(entries) /\ Len(entries) \in Nat
      /\ \A i \in DOMAIN entries : entries[i].score \in Int
  <2>1. \A e \in Entries : e.score \in Int
    BY DEF Entries
  <2> QED
    BY <2>1
<1> DEFINE IsBest(n, s) == \A i \in 1..n : entries[i].score <= s
           Scored(n) == {entries[i].score : i \in 1..n}
           Bad == {n \in 1..Len(entries) : \A s \in Scored(n) : ~IsBest(n, s)}
<1>1. Bad = {}
  <2> SUFFICES ASSUME Bad # {} PROVE FALSE
    OBVIOUS
  <2>0. Bad \in SUBSET Nat /\ Bad \subseteq 1..Len(entries)
    BY <1>0
  <2>1. PICK n \in Bad : \A m \in Bad : n <= m
    <3> HIDE DEF Bad
    <3> QED
      BY <2>0, LeastNumber
  <2>2. CASE n = 1
    <3>1. 1 \in 1..n /\ 1 \in DOMAIN entries /\ \A i \in 1..n : i = 1
      BY <1>0, <2>0, <2>1, <2>2
    <3>2. entries[1].score \in Scored(n) /\ IsBest(n, entries[1].score)
      BY <1>0, <3>1
    <3> QED
      BY <2>1, <3>2
  <2>3. CASE n # 1
    <3>1. n - 1 \in 1..Len(entries) /\ n - 1 \notin Bad /\ n \in 1..Len(entries)
      <4> HIDE DEF Bad
      <4>1. n \in 1..Len(entries)
        BY <2>0, <2>1
      <4>2. n - 1 \in 1..Len(entries) /\ ~(n <= n - 1)
        BY <1>0, <2>3, <4>1
      <4> QED
        BY <2>1, <4>1, <4>2
    <3>2. PICK s \in Scored(n - 1) : IsBest(n - 1, s)
      BY <3>1
    <3>3. PICK k \in 1..(n - 1) : s = entries[k].score
      BY <3>2
    <3>4. s \in Int /\ entries[n].score \in Int /\ k \in 1..n /\ n \in 1..n
      BY <1>0, <3>1, <3>3
    <3>5. n \in Nat /\ \A i \in 1..n : i = n \/ i \in 1..(n-1)
      BY <1>0, <3>1
    <3>6. CASE entries[n].score <= s
      <4>1. s \in Scored(n) /\ IsBest(n, s)
        BY <3>2, <3>3, <3>4, <3>5, <3>6
      <4> QED
        BY <2>1, <4>1
    <3>7. CASE ~(entries[n].score <= s)
      <4>1. entries[n].score \in Scored(n)
        BY <3>4
      <4>2. ASSUME NEW i \in 1..n PROVE entries[i].score <= entries[n].score
        <5>1. CASE i = n
          BY <3>4, <5>1
        <5>2. CASE i \in 1..(n - 1)
          <6>1. entries[i].score <= s /\ entries[i].score \in Int
            BY <1>0, <3>1, <3>2, <5>2
          <6> QED
            BY ONLY <3>4, <3>7, <6>1
        <5> QED
          BY <3>5, <5>1, <5>2
      <4> QED
        BY <2>1, <4>1, <4>2
    <3> QED
      BY <3>6, <3>7
  <2> QED
    BY <2>2, <2>3
<1>2. CASE entries = <<>>
  BY <1>0, <1>2 DEF Raw
<1>3. CASE entries # <<>>
  <2>1. Len(entries) \in 1..Len(entries)
    BY <1>0, <1>3
  <2>2. PICK s \in {entries[i].score : i \in DOMAIN entries} :
         \A i \in DOMAIN entries : entries[i].score <= s
    BY <1>0, <1>1, <2>1
  <2> QED
    BY <1>3, <2>2 DEF Raw
<1> QED
  BY <1>2, <1>3

(* What finish() has read is the history, for nobody writes it any more.   *)
ReadIsHistory == judge.at = "done" => result = history

LEMMA ReadIsInv == Spec => []ReadIsHistory
<1>1. Init => ReadIsHistory
  BY DEF Init, Unasked, ReadIsHistory
<1>2. IInv /\ ReadIsHistory /\ [Next]_vars => ReadIsHistory'
  <2> SUFFICES ASSUME IInv, ReadIsHistory, [Next]_vars PROVE ReadIsHistory'
    OBVIOUS
  <2>1. CASE judge.at = "done"
    BY <2>1 DEF Next, Serving, CloseAll, Finish, SealAll, JoinAll, ReadHistory, JudgeAt, Finished, vars, ReadIsHistory
  <2>2. CASE judge.at # "done"
    <3>1. CASE ReadHistory
      BY <3>1 DEF ReadHistory, ReadIsHistory
    <3>2. CASE CloseAll
      BY <3>2 DEF CloseAll, Remaining, Unasked, ReadIsHistory
    <3>3. CASE SealAll
      <4>1. judge'.at = "append"
        BY <3>3 DEF SealAll, IInv, TypeOK, JudgeStates
      <4> QED
        BY <4>1 DEF ReadIsHistory
    <3>4. CASE JoinAll
      BY <3>4 DEF JoinAll, Remaining, Unasked, ReadIsHistory
    <3>5. CASE UNCHANGED judge
      BY <2>2, <3>5 DEF ReadIsHistory
    <3>6. ASSUME NEW t \in Threads, Request(t) \/ Serve(t) PROVE UNCHANGED judge
      BY <3>6 DEF Request, Serve, StartNew, StartStep, Close, CreateGame, Play, Retire, Seal, Join
    <3> QED
      BY <3>1, <3>2, <3>3, <3>4, <3>5, <3>6 DEF Next, Finish, Finished, vars
  <2> QED
    BY <2>1, <2>2
<1> QED
  BY <1>1, <1>2, Inductive, PTL DEF Spec

(* The Judge's score is at least that of every game that is archived when  *)
(* finish() ends, however the requests of a lingering Candidate go on.     *)
THEOREM BestIsArchived == Spec => []BestOfArchived
<1>1. IInv /\ ReadIsHistory => BestOfArchived
  <2> SUFFICES ASSUME IInv, ReadIsHistory, judge.at = "done", NEW g \in Games,
                      Archivers(g) = {}, g \notin sessions
               PROVE  game[g].score <= Raw(result)
    BY DEF BestOfArchived
  <2>1. PICK i \in DOMAIN history : history[i].game = g
    BY DEF IInv, EveryGameOnce, Archived
  <2>2. history[i].score = game[g].score
    BY <2>1 DEF IInv, EntriesFinal, Final, Entry
  <2>3. result = history /\ history \in Seq(Entries)
    BY DEF ReadIsHistory, IInv, TypeOK
  <2> QED
    BY <2>1, <2>2, <2>3, RawIsBest
<1> QED
  BY <1>1, Inductive, ReadIsInv, PTL

-----------------------------------------------------------------------------
(* The server keeps the promise of GameArchive, step by step.              *)
ArchiveStep == [Archive!ArchiveNext]_(Archive!archiveVars)

LEMMA ArchiveStutters ==
  ASSUME Games' = Games, \A g \in Games : Entry(g)' = Entry(g), UNCHANGED <<history, result>>
  PROVE  ArchiveStep
<1>1. \A g \in Games : game'[g].score = game[g].score /\ game'[g].peak = game[g].peak /\ game'[g].moves = game[g].moves
  BY DEF Entry
<1>2. PlayedGames' = PlayedGames
  BY <1>1 DEF PlayedGames
<1>3. RawReported' = RawReported
  BY DEF RawReported
<1> QED
  BY <1>2, <1>3 DEF ArchiveStep, Archive!archiveVars

LEMMA CreateArchives == ASSUME IInv, NEW t \in Threads, CreateGame(t) PROVE ArchiveStep
<1>1. UNCHANGED <<history, result>> /\ RawReported' = RawReported
  BY DEF CreateGame, RawReported
<1>2. CASE UNCHANGED game
  BY <1>1, <1>2, ArchiveStutters DEF Games, Entry
<1>3. CASE game' = Append(game, NewGame)
  <2>1. game \in Seq(GameStates) /\ NewGame \in GameStates
    BY NewGameTyped DEF IInv, TypeOK
  <2>2. /\ DOMAIN game = 1..Len(game) /\ Len(game) \in Nat
        /\ DOMAIN game' = 1..(Len(game) + 1)
        /\ game'[Len(game) + 1] = NewGame /\ \A g \in 1..Len(game) : game'[g] = game[g]
    BY ONLY <1>3, <2>1
  <2> DEFINE of(x) == [score |-> x.score, peak |-> x.peak, moves |-> x.moves]
  <2>3. of(NewGame) = Archive!Unplayed
    BY DEF NewGame, Archive!Unplayed
  <2>4. PlayedGames = [g \in 1..Len(game) |-> of(game[g])] /\ PlayedGames' = [g \in 1..(Len(game) + 1) |-> of(game'[g])]
    BY <2>2, Zenon DEF PlayedGames, Games
  <2> HIDE DEF of
  <2>5. Append(PlayedGames, Archive!Unplayed) = [g \in 1..(Len(game) + 1) |-> IF g = Len(game) + 1 THEN Archive!Unplayed ELSE of(game[g])]
    BY <2>2, <2>4
  <2>6. PlayedGames' = Append(PlayedGames, Archive!Unplayed)
    BY <2>2, <2>3, <2>4, <2>5
  <2> QED
    BY <1>1, <2>6 DEF ArchiveStep, Archive!ArchiveNext, Archive!StartOne
<1> QED
  BY <1>2, <1>3 DEF CreateGame

(* A move is made of a game whose environment is open, so of none that is  *)
(* archived.                                                               *)
LEMMA MoveArchives ==
  ASSUME IInv, NEW g \in Games, game[g].open, UNCHANGED <<history, result>>,
         game' \in Seq(GameStates), DOMAIN game' = Games, \A h \in Games \ {g} : game'[h] = game[h],
         game'[g].moves = game[g].moves + 1, game'[g].peak >= game[g].peak
  PROVE  ArchiveStep
<1>1. RawReported' = RawReported
  BY DEF RawReported
<1>2. g \notin Archive!ArchivedGames
  BY DEF Archive!ArchivedGames, IInv, EntriesFinal, Final
<1> DEFINE of(x) == [score |-> x.score, peak |-> x.peak, moves |-> x.moves]
           new == [score |-> game'[g].score, peak |-> game'[g].peak, moves |-> game[g].moves + 1]
<1>3. PlayedGames = [h \in Games |-> of(game[h])] /\ PlayedGames' = [h \in Games |-> of(game'[h])]
  BY Zenon DEF PlayedGames, Games
<1>4. of(game'[g]) = new
  OBVIOUS
<1>5. game'[g] \in GameStates
  BY DEF Games
<1>6. game'[g].score \in Scores /\ game'[g].peak \in Scores
  BY <1>5 DEF GameStates
<1>7. PlayedGames[g] = of(game[g])
  BY <1>3
<1>8. PlayedGames[g].moves = game[g].moves /\ PlayedGames[g].peak = game[g].peak
  BY ONLY <1>7
<1>9. PlayedGames' = [PlayedGames EXCEPT ![g] = new]
  <2> HIDE DEF of, new
  <2> QED
    BY <1>3, <1>4
<1>10. PlayedGames' = [PlayedGames EXCEPT ![g] = [score |-> game'[g].score, peak |-> game'[g].peak, moves |-> @.moves + 1]]
  BY <1>8, <1>9, Zenon
<1>11. g \in DOMAIN PlayedGames
  BY <1>3
<1>12. Archive!PlayOne(g)
  BY <1>1, <1>2, <1>6, <1>8, <1>10, Zenon DEF Archive!PlayOne
<1> QED
  BY <1>11, <1>12 DEF ArchiveStep, Archive!ArchiveNext

LEMMA PlayArchives == ASSUME IInv, NEW t \in Threads, Play(t) PROVE ArchiveStep
<1> DEFINE g == thread[t].on
<1> USE DEF IInv
<1>1. g \in Games /\ game[g] \in GameStates
  BY GameTyped DEF Play, At, Known
<1>2. UNCHANGED <<history, result>>
  BY DEF Play
<1>3. ASSUME NEW s \in GameStates, game' = [game EXCEPT ![g] = s], game[g].open,
             s.moves = game[g].moves + 1, s.peak >= game[g].peak
      PROVE  ArchiveStep
  <2> HIDE DEF g
  <2>1. /\ game' \in Seq(GameStates) /\ DOMAIN game' = Games
        /\ \A h \in Games \ {g} : game'[h] = game[h]
        /\ game'[g] = s
    BY <1>1, <1>3 DEF TypeOK, Games
  <2> QED
    BY <1>1, <1>2, <1>3, <2>1, MoveArchives
<1>4. CASE UNCHANGED game
  BY <1>2, <1>4, ArchiveStutters DEF Games, Entry
<1>5. ASSUME game[g].open, NEW score \in Scores, NEW done \in BOOLEAN,
             game' = [game EXCEPT ![g].score = score, ![g].moves = @ + 1, ![g].done = done,
                                  ![g].peak = IF score > @ THEN score ELSE @]
      PROVE  ArchiveStep
  <2> DEFINE p == IF score > game[g].peak THEN score ELSE game[g].peak
             s == [game[g] EXCEPT !.score = score, !.moves = @ + 1, !.done = done,
                                  !.peak = IF score > @ THEN score ELSE @]
  <2>1. s \in GameStates
    BY <1>1, <1>5, MovedTyped
  <2>2. game' = [game EXCEPT ![g] = s]
    BY <1>5, Zenon
  <2>3. p >= game[g].peak
    <3>1. score \in Int /\ game[g].peak \in Int
      BY <1>1, <1>5 DEF GameStates
    <3> QED
      BY <3>1
  <2>4. s.moves = game[g].moves + 1 /\ s.peak = p
    <3> DEFINE n == game[g].moves + 1
    <3>1. s = [game[g] EXCEPT !.score = score, !.moves = n, !.done = done, !.peak = p]
      BY Zenon
    <3> HIDE DEF s, p, n
    <3>2. s.moves = n /\ s.peak = p
      BY <1>1, <3>1 DEF GameStates
    <3> QED
      BY <3>2 DEF n
  <2> HIDE DEF s, p, g
  <2> QED
    BY <1>3, <1>5, <2>1, <2>2, <2>3, <2>4
<1>6. ASSUME game[g].open, NEW done \in BOOLEAN,
             game' = [game EXCEPT ![g].moves = @ + 1, ![g].done = done]
      PROVE  ArchiveStep
  <2> DEFINE s == [game[g] EXCEPT !.moves = @ + 1, !.done = done]
  <2>1. s \in GameStates
    BY <1>1, <1>6, MovedTyped
  <2>2. game' = [game EXCEPT ![g] = s]
    BY <1>6, Zenon
  <2>3. game[g].peak >= game[g].peak
    <3>1. game[g].peak \in Int
      BY <1>1 DEF GameStates
    <3> QED
      BY <3>1
  <2>4. s.moves = game[g].moves + 1 /\ s.peak = game[g].peak
    BY <1>1 DEF GameStates
  <2> HIDE DEF s, g
  <2> QED
    BY <1>3, <1>6, <2>1, <2>2, <2>3, <2>4
<1> QED
  BY <1>4, <1>5, <1>6, Zenon DEF Play

(* What joins the history is the game's entry, and the game has no other.  *)
LEMMA JoinArchives ==
  ASSUME IInv, NEW e \in Entries, e.game \in Games, Final(e), Archivers(e.game) # {},
         history' = Append(history, e), UNCHANGED <<game, result>>
  PROVE  ArchiveStep
<1>1. UNCHANGED PlayedGames /\ UNCHANGED RawReported
  BY DEF PlayedGames, RawReported, Games
<1>2. e.game \in DOMAIN PlayedGames
  BY DEF PlayedGames
<1>3. e = Archive!Kept(e.game)
  <2>1. e = Entry(e.game)
    BY DEF Final
  <2>2. PlayedGames[e.game] = [score |-> game[e.game].score, peak |-> game[e.game].peak, moves |-> game[e.game].moves]
    BY DEF PlayedGames
  <2>3. /\ PlayedGames[e.game].score = game[e.game].score
        /\ PlayedGames[e.game].peak = game[e.game].peak
        /\ PlayedGames[e.game].moves = game[e.game].moves
    BY ONLY <2>2
  <2> QED
    BY <2>1, <2>3, Zenon DEF Entry, Archive!Kept
<1>4. e.game \notin Archive!ArchivedGames
  BY DEF Archive!ArchivedGames, Archived, EveryGameOnce, IInv
<1>5. history' = Append(history, Archive!Kept(e.game))
  BY <1>3
<1>6. Archive!ArchiveOne(e.game)
  BY <1>1, <1>4, <1>5, Zenon DEF Archive!ArchiveOne
<1> QED
  BY <1>2, <1>6 DEF ArchiveStep, Archive!ArchiveNext

LEMMA ArchivistArchives == ASSUME IInv, NEW t \in Threads, Seal(t) \/ Join(t) PROVE ArchiveStep
<1> USE DEF IInv
<1>1. CASE Seal(t)
  <2>1. thread[t].on \in Games
    BY <1>1 DEF Seal, At, Known
  <2>2. Games' = Games /\ \A h \in Games : Entry(h)' = Entry(h)
    BY <1>1, <2>1, ShutFacts DEF Seal
  <2> QED
    BY <1>1, <2>2, ArchiveStutters DEF Seal
<1>2. CASE Join(t)
  <2>0. PICK e : e = thread[t].entry
    OBVIOUS
  <2>1. /\ thread[t].at = "append" /\ e \in Entries /\ e.game = thread[t].on
        /\ e.game \in Games /\ Final(e)
    BY <1>2, <2>0 DEF Join, At, EntriesFinal, Known
  <2>2. t \in Archivers(e.game)
    BY <2>1 DEF Archivers
  <2>3. history' = Append(history, e) /\ UNCHANGED <<game, result>>
    BY <1>2, <2>0 DEF Join
  <2> QED
    BY <2>1, <2>2, <2>3, JoinArchives
<1> QED
  BY <1>1, <1>2

(* Nothing is reported before /history is read.                            *)
UnreadYet == judge.at # "done" => result = Nil

LEMMA FinishArchives == ASSUME IInv, UnreadYet, CloseAll \/ Finish PROVE ArchiveStep
<1> USE DEF IInv
<1>1. CASE CloseAll
  BY <1>1, ArchiveStutters DEF CloseAll, Games, Entry
<1>2. CASE SealAll
  <2>0. PICK g \in judge.games : Shut(g)
    BY <1>2 DEF SealAll, Oldest
  <2>1. g \in Games
    BY DEF TypeOK, JudgeStates
  <2>2. Games' = Games /\ \A h \in Games : Entry(h)' = Entry(h)
    BY <2>0, <2>1, ShutFacts
  <2> QED
    BY <1>2, <2>2, ArchiveStutters DEF SealAll
<1>3. CASE JoinAll
  <2>0. PICK e : e = judge.entry
    OBVIOUS
  <2>1. /\ e \in Entries /\ e.game \in judge.games /\ judge.games \subseteq Games /\ Final(e)
    BY <1>3, <2>0 DEF JoinAll, JudgeAt, JudgeInStep, EntriesFinal, TypeOK, JudgeStates
  <2>2. Nil \in Archivers(e.game)
    BY <2>1 DEF Archivers
  <2>3. history' = Append(history, e) /\ UNCHANGED <<game, result>>
    BY <1>3, <2>0 DEF JoinAll
  <2> QED
    BY <2>1, <2>2, <2>3, JoinArchives
<1>4. CASE ReadHistory
  <2>1. result = Nil /\ result' = history /\ UNCHANGED <<game, history>>
    BY <1>4 DEF ReadHistory, JudgeAt, UnreadYet
  <2>2. UNCHANGED PlayedGames /\ RawReported = Nil
    BY <2>1 DEF PlayedGames, Games, RawReported
  <2>3. CASE history = Nil
    BY <2>1, <2>2, <2>3 DEF ArchiveStep, Archive!archiveVars, RawReported
  <2>4. CASE history # Nil
    <3>1. RawReported' = Raw(history)
      BY <2>1, <2>4 DEF RawReported, Raw
    <3>2. \/ history = <<>> /\ Raw(history) = 0
          \/ \E best \in DOMAIN history :
               /\ \A i \in DOMAIN history : history[i].score <= history[best].score
               /\ Raw(history) = history[best].score
      <4>1. history \in Seq(Entries)
        BY DEF TypeOK
      <4>2. /\ \A i \in DOMAIN history : history[i].score <= Raw(history)
            /\ history = <<>> => Raw(history) = 0
            /\ history # <<>> => \E i \in DOMAIN history : Raw(history) = history[i].score
        BY ONLY <4>1, RawIsBest
      <4> QED
        BY ONLY <4>2
    <3>3. Archive!ReportBest
      BY <2>1, <2>2, <3>1, <3>2, Zenon DEF Archive!ReportBest
    <3> QED
      BY <3>3 DEF ArchiveStep, Archive!ArchiveNext
  <2> QED
    BY <2>3, <2>4
<1> QED
  BY <1>1, <1>2, <1>3, <1>4 DEF Finish

LEMMA ServerStepArchives == IInv /\ UnreadYet /\ [Next]_vars => ArchiveStep
<1> SUFFICES ASSUME IInv, UnreadYet, [Next]_vars PROVE ArchiveStep
  OBVIOUS
<1>1. ASSUME NEW t \in Threads, Request(t) \/ Retire(t) PROVE ArchiveStep
  <2>1. UNCHANGED <<game, history, result>>
    BY <1>1 DEF Request, StartNew, StartStep, Close, Retire
  <2> QED
    BY <2>1, ArchiveStutters DEF Games, Entry
<1>2. ASSUME NEW t \in Threads, Serve(t) PROVE ArchiveStep
  BY <1>1, <1>2, CreateArchives, PlayArchives, ArchivistArchives DEF Serve
<1>3. CASE CloseAll \/ Finish
  BY <1>3, FinishArchives
<1>4. CASE Finished \/ UNCHANGED vars
  BY <1>4, ArchiveStutters DEF Finished, vars, Games, Entry
<1> QED
  BY <1>1, <1>2, <1>3, <1>4 DEF Next

LEMMA UnreadIsInv == Spec => []UnreadYet
<1>1. Init => UnreadYet
  BY DEF Init, UnreadYet
<1>2. IInv /\ UnreadYet /\ [Next]_vars => UnreadYet'
  <2> SUFFICES ASSUME IInv, UnreadYet, [Next]_vars, judge'.at # "done" PROVE UNCHANGED result /\ judge.at # "done"
    BY DEF UnreadYet
  <2>1. ~ReadHistory
    BY DEF ReadHistory, Unasked
  <2>2. ASSUME NEW t \in Threads, Request(t) \/ Serve(t) PROVE UNCHANGED <<judge, result>>
    BY <2>2 DEF Request, Serve, StartNew, StartStep, Close, CreateGame, Play, Retire, Seal, Join
  <2>3. CASE CloseAll \/ SealAll \/ JoinAll
    BY <2>3 DEF CloseAll, SealAll, JoinAll, JudgeAt
  <2> QED
    BY <2>1, <2>2, <2>3 DEF Next, Finish, Finished, vars
<1> QED
  BY <1>1, <1>2, Inductive, PTL DEF Spec

(* The server is the archive the Judge relies on: however many requests    *)
(* race, a game is played until it is archived, archived once with what it *)
(* ended with, and the score taken is the best that is archived when       *)
(* /history is read.                                                       *)
THEOREM ServerKeepsArchive == Spec => ImplementsArchive
<1>1. Init => Archive!ArchiveInit
  BY DEF Init, Archive!ArchiveInit, PlayedGames, RawReported, Games
<1>2. IInv /\ UnreadYet /\ [Next]_vars => [Archive!ArchiveNext]_(Archive!archiveVars)
  BY ServerStepArchives DEF ArchiveStep
<1> QED
  BY <1>1, <1>2, Inductive, UnreadIsInv, PTL DEF Spec, ImplementsArchive, Archive!ArchiveSpec

-----------------------------------------------------------------------------
(***************************************************************************)
(* The Judges imported with a Task (LegacyJudge): scores are compared as   *)
(* fractions.                                                              *)
(***************************************************************************)
Fractions == Int \X (Nat \ {0})

LEMMA FractionIs ==
  ASSUME NEW n \in Int, NEW d \in Int, d # 0
  PROVE  Fraction(n, d) \in Fractions
  BY DEF Fraction, Fractions

LEMMA AtMostIsTransitive ==
  ASSUME NEW p \in Fractions, NEW q \in Fractions, NEW r \in Fractions, AtMost(p, q), AtMost(q, r)
  PROVE  AtMost(p, r)
<1> DEFINE a == p[1]
           b == q[1]
           c == r[1]
           x == p[2]
           y == q[2]
           z == r[2]
<1>1. /\ a \in Int /\ b \in Int /\ c \in Int
      /\ x \in Nat \ {0} /\ y \in Nat \ {0} /\ z \in Nat \ {0}
  BY DEF Fractions
<1>2. a * y <= b * x /\ b * z <= c * y
  BY DEF AtMost
<1> HIDE DEF a, b, c, x, y, z
<1>3. \A m, n \in Int, k \in Nat \ {0} : m <= n => m * k <= n * k
  OBVIOUS
<1>4. \A m, n \in Int, k \in Nat \ {0} : m * k <= n * k => m <= n
  OBVIOUS
<1>5. \A m, n, k \in Int : (m * n) * k = (m * k) * n
  OBVIOUS
<1>6. /\ a * y \in Int /\ b * x \in Int /\ b * z \in Int /\ c * y \in Int
      /\ a * z \in Int /\ c * x \in Int
  BY <1>1
<1>7. (a * y) * z <= (b * x) * z
  BY <1>1, <1>2, <1>3, <1>6
<1>8. (b * z) * x <= (c * y) * x
  BY <1>1, <1>2, <1>3, <1>6
<1>9. /\ (a * y) * z = (a * z) * y
      /\ (b * x) * z = (b * z) * x
      /\ (c * y) * x = (c * x) * y
  BY <1>1, <1>5
<1>10. /\ (a * z) * y \in Int /\ (b * z) * x \in Int /\ (c * x) * y \in Int
  BY <1>1
<1>11. \A m, n, k \in Int : m <= n /\ n <= k => m <= k
  OBVIOUS
<1>12. (a * z) * y <= (c * x) * y
  BY <1>7, <1>8, <1>9, <1>10, <1>11
<1>13. a * z <= c * x
  BY <1>1, <1>4, <1>6, <1>12
<1> QED
  BY <1>13 DEF AtMost, a, c, x, z

LEMMA AtMostIsTotal ==
  ASSUME NEW p \in Fractions, NEW q \in Fractions
  PROVE  /\ AtMost(p, q) \/ AtMost(q, p)
         /\ AtMost(p, p)
<1>1. /\ p[1] \in Int /\ q[1] \in Int
      /\ p[2] \in Nat \ {0} /\ q[2] \in Nat \ {0}
  BY DEF Fractions
<1>2. \A m, n \in Int : m <= n \/ n <= m
  OBVIOUS
<1>3. p[1] * q[2] \in Int /\ q[1] * p[2] \in Int /\ p[1] * p[2] \in Int
  BY <1>1
<1> QED
  BY <1>2, <1>3 DEF AtMost

LEMMA ClampIsWithin ==
  ASSUME NEW q \in Fractions, NEW low \in Int, NEW high \in Int, low <= high
  PROVE  /\ Clamp(q, low, high) \in Fractions
         /\ AtMost(<<low, 1>>, Clamp(q, low, high))
         /\ AtMost(Clamp(q, low, high), <<high, 1>>)
<1>1. <<low, 1>> \in Fractions /\ <<high, 1>> \in Fractions
  BY DEF Fractions
<1>2. AtMost(<<low, 1>>, <<high, 1>>)
  BY DEF AtMost
<1>3. AtMost(<<low, 1>>, <<low, 1>>) /\ AtMost(<<high, 1>>, <<high, 1>>)
  BY <1>1, AtMostIsTotal
<1>4. /\ AtMost(q, <<low, 1>>) \/ AtMost(<<low, 1>>, q)
      /\ AtMost(q, <<high, 1>>) \/ AtMost(<<high, 1>>, q)
  BY <1>1, AtMostIsTotal
<1> QED
  BY <1>1, <1>2, <1>3, <1>4, Zenon DEF Clamp

LEMMA ClampIsFair ==
  ASSUME NEW p \in Fractions, NEW q \in Fractions, NEW low \in Int, NEW high \in Int, low <= high,
         AtMost(p, q)
  PROVE  AtMost(Clamp(p, low, high), Clamp(q, low, high))
<1> DEFINE below == <<low, 1>>
           above == <<high, 1>>
<1>1. below \in Fractions /\ above \in Fractions
  BY DEF Fractions
<1>2. /\ AtMost(below, Clamp(q, low, high))
      /\ AtMost(Clamp(p, low, high), above)
  BY ClampIsWithin
<1>3. AtMost(above, q) => AtMost(p, above) \/ AtMost(above, p)
  BY <1>1, AtMostIsTotal
<1>4. AtMost(above, p) => AtMost(above, q)
  BY <1>1, AtMostIsTransitive
<1>5. AtMost(q, below) => AtMost(p, below)
  BY <1>1, AtMostIsTransitive
<1>6. AtMost(below, above)
  BY DEF AtMost
<1> HIDE DEF below, above
<1>7. /\ Clamp(p, low, high) = IF AtMost(p, below) THEN below ELSE IF AtMost(above, p) THEN above ELSE p
      /\ Clamp(q, low, high) = IF AtMost(q, below) THEN below ELSE IF AtMost(above, q) THEN above ELSE q
  BY DEF Clamp, below, above
<1>8. AtMost(below, below) /\ AtMost(above, above)
  BY <1>1, AtMostIsTotal
<1>9. CASE AtMost(p, below)
  BY <1>9, <1>2, <1>7, Zenon
<1>10. CASE ~AtMost(p, below) /\ AtMost(above, p)
  BY <1>10, <1>4, <1>5, <1>7, <1>8, Zenon
<1>11. CASE ~AtMost(p, below) /\ ~AtMost(above, p) /\ AtMost(above, q)
  <2>1. Clamp(p, low, high) = p /\ Clamp(q, low, high) = above
    BY <1>11, <1>5, <1>7, Zenon
  <2> QED
    BY <2>1, <1>11, <1>3, Zenon
<1>12. CASE ~AtMost(p, below) /\ ~AtMost(above, p) /\ ~AtMost(above, q)
  <2>1. Clamp(p, low, high) = p /\ Clamp(q, low, high) = q
    BY <1>12, <1>5, <1>7, Zenon
  <2> QED
    BY <2>1, Zenon
<1> QED
  BY <1>9, <1>10, <1>11, <1>12, Zenon

(* What a raw score comes to before it is bounded and made a ratio.        *)
PercentOf(hint, raw) == IF hint.kind = "none" THEN <<raw, 1>> ELSE Percent(hint, raw)

LEMMA NormalizedIs ==
  ASSUME NEW hint, NEW raw, PercentOf(hint, raw) \in Fractions
  PROVE  LET percent == Clamp(PercentOf(hint, raw), 0, 100)
         IN  /\ percent \in Fractions
             /\ normalize_raw(hint, TotalLine(TRUE, raw)) = <<percent[1], 100 * percent[2]>>
             /\ normalize_raw(hint, TotalLine(TRUE, raw)) \in Fractions
             /\ AtMost(ZeroScore, normalize_raw(hint, TotalLine(TRUE, raw)))
             /\ AtMost(normalize_raw(hint, TotalLine(TRUE, raw)), <<1, 1>>)
<1> DEFINE q == PercentOf(hint, raw)
           percent == Clamp(q, 0, 100)
<1>1. normalize_raw(hint, TotalLine(TRUE, raw)) = <<percent[1], 100 * percent[2]>>
  BY DEF normalize_raw, TotalLine, PercentOf
<1> HIDE DEF q
<1>2. percent \in Fractions /\ AtMost(<<0, 1>>, percent) /\ AtMost(percent, <<100, 1>>)
  <2>1. q \in Fractions
    BY DEF q
  <2>2. 0 \in Int /\ 100 \in Int /\ 0 <= 100
    OBVIOUS
  <2> QED
    BY ONLY <2>1, <2>2, ClampIsWithin, Zenon
<1> HIDE DEF percent
<1>3. percent[1] \in Int /\ percent[2] \in Nat \ {0} /\ 0 <= percent[1] /\ percent[1] <= 100 * percent[2]
  BY <1>2 DEF Fractions, AtMost
<1>4. <<percent[1], 100 * percent[2]>> \in Fractions
  BY <1>3 DEF Fractions
<1>5. AtMost(ZeroScore, <<percent[1], 100 * percent[2]>>) /\ AtMost(<<percent[1], 100 * percent[2]>>, <<1, 1>>)
  BY <1>3 DEF AtMost, ZeroScore
<1> QED
  BY <1>1, <1>2, <1>4, <1>5 DEF percent, q

(* The order of two percentages is that of their ratios.                   *)
LEMMA NormalizedIsFair ==
  ASSUME NEW hint, NEW raw, NEW than,
         PercentOf(hint, raw) \in Fractions, PercentOf(hint, than) \in Fractions,
         AtMost(PercentOf(hint, than), PercentOf(hint, raw))
  PROVE  AtMost(normalize_raw(hint, TotalLine(TRUE, than)), normalize_raw(hint, TotalLine(TRUE, raw)))
<1> DEFINE p == Clamp(PercentOf(hint, than), 0, 100)
           q == Clamp(PercentOf(hint, raw), 0, 100)
<1>1. AtMost(p, q)
  BY ClampIsFair
<1>2. /\ p \in Fractions /\ normalize_raw(hint, TotalLine(TRUE, than)) = <<p[1], 100 * p[2]>>
      /\ q \in Fractions /\ normalize_raw(hint, TotalLine(TRUE, raw)) = <<q[1], 100 * q[2]>>
  <2>1. p \in Fractions /\ normalize_raw(hint, TotalLine(TRUE, than)) = <<p[1], 100 * p[2]>>
    BY ONLY PercentOf(hint, than) \in Fractions, NormalizedIs, Zenon
  <2>2. q \in Fractions /\ normalize_raw(hint, TotalLine(TRUE, raw)) = <<q[1], 100 * q[2]>>
    BY ONLY PercentOf(hint, raw) \in Fractions, NormalizedIs, Zenon
  <2> QED
    BY ONLY <2>1, <2>2
<1> HIDE DEF p, q
<1>3. p[1] \in Int /\ p[2] \in Int /\ q[1] \in Int /\ q[2] \in Int /\ p[1] * q[2] <= q[1] * p[2]
  BY <1>1, <1>2 DEF Fractions, AtMost
<1>4. \A a, b, c, d \in Int : a * d <= c * b => a * (100 * d) <= c * (100 * b)
  OBVIOUS
<1>5. p[1] * (100 * q[2]) <= q[1] * (100 * p[2])
  BY <1>3, <1>4
<1>6. AtMost(<<p[1], 100 * p[2]>>, <<q[1], 100 * q[2]>>)
  BY ONLY <1>5 DEF AtMost
<1> QED
  BY ONLY <1>2, <1>6

(* The raw scores whose logarithm a rule takes are powers of two.          *)
LEMMA LogOf ==
  /\ Log2(1) = 0 /\ Log2(2) = 1 /\ Log2(4) = 2 /\ Log2(8) = 3 /\ Log2(16) = 4
<1>1. \A k \in 0 .. 4 : Powers[k + 1] = IF k = 0 THEN 1 ELSE IF k = 1 THEN 2 ELSE IF k = 2 THEN 4 ELSE IF k = 3 THEN 8 ELSE 16
  BY DEF Powers
<1>2. ASSUME NEW n \in 0 .. 4 PROVE Log2(Powers[n + 1]) = n
  <2>1. \A k \in 0 .. 4 : Powers[k + 1] = Powers[n + 1] => k = n
    BY <1>1
  <2> QED
    BY <2>1 DEF Log2
<1>3. Powers[0 + 1] = 1 /\ Powers[1 + 1] = 2 /\ Powers[2 + 1] = 4 /\ Powers[3 + 1] = 8 /\ Powers[4 + 1] = 16
  BY <1>1
<1>4. Log2(Powers[0 + 1]) = 0 /\ Log2(Powers[1 + 1]) = 1 /\ Log2(Powers[2 + 1]) = 2 /\ Log2(Powers[3 + 1]) = 3 /\ Log2(Powers[4 + 1]) = 4
  BY <1>2
<1> QED
  BY <1>3, <1>4

LEMMA ScaledIsFair ==
  ASSUME NEW n \in Int, NEW m \in Int, NEW d \in Int, 0 <= d, n <= m
  PROVE  /\ scale(n, d) \in Fractions /\ scale(m, d) \in Fractions
         /\ AtMost(scale(n, d), scale(m, d))
<1>1. CASE d = 0
  BY <1>1 DEF scale, ZeroScore, Fractions, AtMost
<1>2. CASE d > 0
  <2>1. scale(n, d) = <<n, d>> /\ scale(m, d) = <<m, d>>
    BY <1>2 DEF scale, Fraction
  <2>2. n * d <= m * d
    BY <1>2
  <2> QED
    BY <1>2, <2>1, <2>2 DEF Fractions, AtMost
<1> QED
  BY <1>1, <1>2

(* A failure is not above a score.                                         *)
LEMMA ZeroIsLeast ==
  ASSUME NEW n \in Int, NEW d \in Int, 0 <= d, 0 <= n
  PROVE  /\ ZeroScore \in Fractions /\ scale(n, d) \in Fractions
         /\ AtMost(ZeroScore, ZeroScore) /\ AtMost(ZeroScore, scale(n, d))
  BY DEF scale, ZeroScore, Fraction, Fractions, AtMost

-----------------------------------------------------------------------------
(* The rules, each for every value of its parameters for which it promises *)
(* an order.  A raw score that log_max refuses comes to zero, and one below *)
(* its baseline to less, until it is bounded.                              *)
Fair(hint, raw, than) ==
  /\ PercentOf(hint, raw) \in Fractions /\ PercentOf(hint, than) \in Fractions
  /\ NotWorse(hint, raw, than) =>
       PercentOf(hint, than) = ZeroScore \/ AtMost(PercentOf(hint, than), PercentOf(hint, raw))

LEMMA FairIsFair ==
  ASSUME NEW hint, NEW raw, NEW than, Fair(hint, raw, than), NotWorse(hint, raw, than)
  PROVE  AtMost(normalize_raw(hint, TotalLine(TRUE, than)), normalize_raw(hint, TotalLine(TRUE, raw)))
<1>1. /\ PercentOf(hint, raw) \in Fractions /\ PercentOf(hint, than) \in Fractions
      /\ PercentOf(hint, than) = ZeroScore \/ AtMost(PercentOf(hint, than), PercentOf(hint, raw))
  BY Zenon DEF Fair
<1>2. CASE AtMost(PercentOf(hint, than), PercentOf(hint, raw))
  BY <1>1, <1>2, NormalizedIsFair, Zenon
<1>3. CASE PercentOf(hint, than) = ZeroScore
  <2> DEFINE worse == Clamp(PercentOf(hint, than), 0, 100)
             better == normalize_raw(hint, TotalLine(TRUE, raw))
  <2>1. worse = <<0, 1>>
    BY <1>3 DEF Clamp, AtMost, ZeroScore
  <2>2. normalize_raw(hint, TotalLine(TRUE, than)) = <<worse[1], 100 * worse[2]>>
    BY <1>1, NormalizedIs, Zenon
  <2>3. better \in Fractions /\ AtMost(ZeroScore, better)
    BY <1>1, NormalizedIs, Zenon
  <2> HIDE DEF worse, better
  <2>4. normalize_raw(hint, TotalLine(TRUE, than)) = <<0, 100>>
    <3>1. worse[1] = 0 /\ 100 * worse[2] = 100
      BY ONLY <2>1
    <3> QED
      BY ONLY <2>2, <3>1
  <2>5. AtMost(<<0, 100>>, better)
    BY <2>3 DEF AtMost, ZeroScore, Fractions
  <2> QED
    BY <2>4, <2>5 DEF better
<1> QED
  BY <1>1, <1>2, <1>3

LEMMA NoRuleIsFair ==
  ASSUME NEW hint, hint.kind = "none", NEW raw \in Int, NEW than \in Int
  PROVE  Fair(hint, raw, than)
<1>1. PercentOf(hint, raw) = <<raw, 1>> /\ PercentOf(hint, than) = <<than, 1>>
  BY DEF PercentOf
<1>2. NotWorse(hint, raw, than) => raw >= than
  BY DEF NotWorse, Minimizing
<1> QED
  BY <1>1, <1>2 DEF Fair, Fractions, AtMost

LEMMA LinearIsFair ==
  ASSUME NEW hint, hint.kind = "linear", NEW raw \in Int, NEW than \in Int,
         hint.at[1] \in Int, hint.at[2] \in Int, hint.at[1] <= hint.at[2]
  PROVE  Fair(hint, raw, than)
<1> DEFINE a == hint.at[1]
           b == hint.at[2]
<1>1. /\ PercentOf(hint, raw) = scale(100 * (raw - a), b - a)
      /\ PercentOf(hint, than) = scale(100 * (than - a), b - a)
  BY DEF PercentOf, Percent
<1>2. NotWorse(hint, raw, than) => raw >= than
  BY DEF NotWorse, Minimizing
<1> HIDE DEF a, b
<1>3. a \in Int /\ b \in Int /\ 0 <= b - a /\ b - a \in Int
  BY DEF a, b
<1>4. \A x, y \in Int : x <= y =>
        /\ scale(100 * (x - a), b - a) \in Fractions /\ scale(100 * (y - a), b - a) \in Fractions
        /\ AtMost(scale(100 * (x - a), b - a), scale(100 * (y - a), b - a))
  <2>1. \A x, y \in Int : x <= y =>
          100 * (x - a) \in Int /\ 100 * (y - a) \in Int /\ 100 * (x - a) <= 100 * (y - a)
    BY <1>3
  <2> QED
    BY ONLY <1>3, <2>1, ScaledIsFair
<1> QED
  BY <1>1, <1>2, <1>4 DEF Fair

(* The three rules for which less is better.                               *)
LEMMA MinLinearIsFair ==
  ASSUME NEW hint, NEW raw \in Int, NEW than \in Int,
         hint.kind \in {"min_linear", "min_linear_positive", "compression_ratio_cropped_guarded"},
         hint.at[1] \in Int, hint.at[2] \in Int, hint.at[2] <= hint.at[1]
  PROVE  Fair(hint, raw, than)
<1> DEFINE a == hint.at[1]
           b == hint.at[2]
           Value(x) == scale(100 * (a - x), a - b)
<1>1. \A x \in Int :
        /\ x < 1 => PercentOf(hint, x) \in {ZeroScore, Value(x)}
        /\ x >= 1 => PercentOf(hint, x) = Value(x)
  <2> SUFFICES ASSUME NEW x \in Int
               PROVE  /\ x < 1 => PercentOf(hint, x) \in {ZeroScore, Value(x)}
                      /\ x >= 1 => PercentOf(hint, x) = Value(x)
    OBVIOUS
  <2> HIDE DEF Value
  <2>1. CASE hint.kind = "min_linear"
    BY <2>1 DEF PercentOf, Percent, Value
  <2>2. CASE hint.kind = "min_linear_positive"
    BY <2>2 DEF PercentOf, Percent, Value
  <2>3. CASE hint.kind = "compression_ratio_cropped_guarded"
    BY <2>3 DEF PercentOf, Percent, Value
  <2> QED
    BY <2>1, <2>2, <2>3
<1>2. NotWorse(hint, raw, than) => 1 <= raw /\ raw <= than
  BY DEF NotWorse, Minimizing
<1> HIDE DEF a, b
<1>3. a \in Int /\ b \in Int /\ 0 <= a - b /\ a - b \in Int
  BY DEF a, b
<1>4. \A x, y \in Int : x <= y => Value(x) \in Fractions /\ Value(y) \in Fractions /\ AtMost(Value(y), Value(x))
  <2>1. \A x, y \in Int : x <= y =>
          100 * (a - x) \in Int /\ 100 * (a - y) \in Int /\ 100 * (a - y) <= 100 * (a - x)
    BY <1>3
  <2> QED
    BY ONLY <1>3, <2>1, ScaledIsFair
<1>5. ZeroScore \in Fractions
  BY DEF ZeroScore, Fractions
<1> HIDE DEF Value
<1> QED
  BY <1>1, <1>2, <1>4, <1>5 DEF Fair

LEMMA InverseIsFair ==
  ASSUME NEW hint, hint.kind = "min_inverse_anchor", NEW raw \in Int, NEW than \in Int,
         hint.at[1] \in Int, hint.at[2] \in Nat
  PROVE  Fair(hint, raw, than)
<1> DEFINE a == hint.at[1]
           b == hint.at[2]
<1>1. \A x \in Int : PercentOf(hint, x) = IF x <= 0 \/ a <= 0 THEN ZeroScore ELSE Fraction(b * a, x)
  BY DEF PercentOf, Percent
<1>2. NotWorse(hint, raw, than) => 1 <= raw /\ raw <= than
  BY DEF NotWorse, Minimizing
<1> HIDE DEF a, b
<1>3. a \in Int /\ b \in Nat
  BY DEF a, b
<1>4. CASE a <= 0
  BY <1>1, <1>4 DEF Fair, ZeroScore, Fractions, AtMost
<1>5. CASE a > 0
  <2> DEFINE n == b * a
  <2>1. n \in Nat
    BY <1>3, <1>5
  <2>2. \A x \in Int : x > 0 => PercentOf(hint, x) = <<n, x>>
    <3>1. ASSUME NEW x \in Int, x > 0 PROVE PercentOf(hint, x) = Fraction(n, x)
      <4>1. ~(x <= 0 \/ a <= 0)
        BY <1>3, <1>5, <3>1
      <4> QED
        BY <1>1, <4>1, Zenon
    <3> HIDE DEF n
    <3> QED
      BY <3>1 DEF Fraction
  <2> HIDE DEF n
  <2>3. \A m \in Nat, x, y \in Int : x <= y => m * x <= m * y
    OBVIOUS
  <2> QED
    BY <1>1, <1>2, <2>1, <2>2, <2>3 DEF Fair, ZeroScore, Fractions, AtMost
<1> QED
  BY <1>3, <1>4, <1>5

Logged == {1, 2, 4, 8, 16}

LEMMA LogIsMonotone ==
  \A x, y \in Logged : Log2(x) \in Nat /\ (x <= y => Log2(x) <= Log2(y)) /\ (x < y => Log2(x) < Log2(y))
  BY LogOf DEF Logged

LEMMA LogAnchorIsFair ==
  ASSUME NEW hint, hint.kind = "log_anchor", NEW raw \in {-1, 0} \cup Logged, NEW than \in {-1, 0} \cup Logged,
         hint.at[1] \in Logged, hint.at[2] \in Nat
  PROVE  Fair(hint, raw, than)
<1> DEFINE a == hint.at[1]
           b == hint.at[2]
           Value(x) == scale(b * Log2(x), Log2(a))
<1>1. \A x \in {-1, 0} \cup Logged : PercentOf(hint, x) = IF x <= 1 \/ a <= 1 THEN ZeroScore ELSE Value(x)
  BY DEF PercentOf, Percent
<1>2. NotWorse(hint, raw, than) => raw >= than
  BY DEF NotWorse, Minimizing
<1>3. a \in Logged /\ b \in Nat
  OBVIOUS
<1> HIDE DEF a, b
<1>4. \A x, y \in Logged : x <= y => Value(x) \in Fractions /\ Value(y) \in Fractions /\ AtMost(Value(x), Value(y))
  <2> SUFFICES ASSUME NEW x \in Logged, NEW y \in Logged, x <= y
               PROVE  Value(x) \in Fractions /\ Value(y) \in Fractions /\ AtMost(Value(x), Value(y))
    OBVIOUS
  <2>1. Log2(a) \in Nat /\ Log2(x) \in Nat /\ Log2(y) \in Nat /\ Log2(x) <= Log2(y)
    BY <1>3, LogIsMonotone
  <2>2. \A m, n, k \in Nat : m <= n => k * m \in Int /\ k * n \in Int /\ k * m <= k * n
    OBVIOUS
  <2>3. b * Log2(x) \in Int /\ b * Log2(y) \in Int /\ b * Log2(x) <= b * Log2(y)
    BY <1>3, <2>1, <2>2
  <2> QED
    BY <2>1, <2>3, ScaledIsFair
<1>5. ZeroScore \in Fractions
  BY DEF ZeroScore, Fractions
<1>6. \A x \in {-1, 0} \cup Logged : x > 1 => x \in Logged
  OBVIOUS
<1>7. raw \in Int /\ than \in Int /\ a \in Int
  BY <1>3 DEF Logged
<1> HIDE DEF Value
<1>8. CASE than <= 1 \/ a <= 1
  BY <1>1, <1>4, <1>5, <1>6, <1>7, <1>8 DEF Fair
<1>9. CASE ~(than <= 1 \/ a <= 1)
  BY <1>1, <1>2, <1>4, <1>5, <1>6, <1>7, <1>9 DEF Fair
<1> QED
  BY <1>8, <1>9

LEMMA LogMaxIsFair ==
  ASSUME NEW hint, hint.kind = "log_max", NEW raw \in {-1, 0} \cup Logged, NEW than \in {-1, 0} \cup Logged,
         hint.at[1] \in Logged, hint.at[2] \in Logged, hint.at[1] <= hint.at[2]
  PROVE  Fair(hint, raw, than)
<1> DEFINE a == hint.at[1]
           b == hint.at[2]
           Value(x) == scale(100 * (Log2(x) - Log2(a)), Log2(b) - Log2(a))
<1>1. \A x \in {-1, 0} \cup Logged :
        PercentOf(hint, x) = IF ~(x > 0 /\ a > 0 /\ b > 0) \/ a = b THEN ZeroScore ELSE Value(x)
  BY DEF PercentOf, Percent
<1>2. NotWorse(hint, raw, than) => raw >= than
  BY DEF NotWorse, Minimizing
<1>3. a \in Logged /\ b \in Logged /\ a <= b
  OBVIOUS
<1> HIDE DEF a, b
<1>4. \A x, y \in Logged : x <= y => Value(x) \in Fractions /\ Value(y) \in Fractions /\ AtMost(Value(x), Value(y))
  <2> SUFFICES ASSUME NEW x \in Logged, NEW y \in Logged, x <= y
               PROVE  Value(x) \in Fractions /\ Value(y) \in Fractions /\ AtMost(Value(x), Value(y))
    OBVIOUS
  <2>1. /\ Log2(a) \in Nat /\ Log2(b) \in Nat /\ Log2(a) <= Log2(b)
        /\ Log2(x) \in Nat /\ Log2(y) \in Nat /\ Log2(x) <= Log2(y)
    BY <1>3, LogIsMonotone
  <2>2. /\ 100 * (Log2(x) - Log2(a)) \in Int /\ 100 * (Log2(y) - Log2(a)) \in Int
        /\ 100 * (Log2(x) - Log2(a)) <= 100 * (Log2(y) - Log2(a))
        /\ Log2(b) - Log2(a) \in Int /\ 0 <= Log2(b) - Log2(a)
    BY <2>1
  <2> QED
    BY <2>2, ScaledIsFair
<1>5. ZeroScore \in Fractions
  BY DEF ZeroScore, Fractions
<1>6. /\ \A x \in {-1, 0} \cup Logged : x > 0 => x \in Logged
      /\ raw \in Int /\ than \in Int /\ a \in Nat \ {0} /\ b \in Nat \ {0}
  BY <1>3 DEF Logged
<1> HIDE DEF Value
<1>7. CASE ~(than > 0) \/ a = b
  BY <1>1, <1>4, <1>5, <1>6, <1>7 DEF Fair
<1>8. CASE than > 0 /\ a # b
  BY <1>1, <1>2, <1>4, <1>5, <1>6, <1>8 DEF Fair
<1> QED
  BY <1>7, <1>8

LEMMA LogMinIsFair ==
  ASSUME NEW hint, hint.kind = "log_min", NEW raw \in {-1, 0} \cup Logged, NEW than \in {-1, 0} \cup Logged,
         hint.at[1] \in Logged, hint.at[2] \in Logged, hint.at[2] <= hint.at[1]
  PROVE  Fair(hint, raw, than)
<1> DEFINE a == hint.at[1]
           b == hint.at[2]
           Value(x) == scale(100 * (Log2(a) - Log2(x)), Log2(a) - Log2(b))
<1>1. \A x \in {-1, 0} \cup Logged :
        PercentOf(hint, x) = IF ~(x > 0 /\ a > 0 /\ b > 0) \/ a = b THEN ZeroScore ELSE Value(x)
  BY DEF PercentOf, Percent
<1>2. NotWorse(hint, raw, than) => 1 <= raw /\ raw <= than
  BY DEF NotWorse, Minimizing
<1>3. a \in Logged /\ b \in Logged /\ b <= a
  OBVIOUS
<1> HIDE DEF a, b
<1>4. \A x, y \in Logged : x <= y => Value(x) \in Fractions /\ Value(y) \in Fractions /\ AtMost(Value(y), Value(x))
  <2> SUFFICES ASSUME NEW x \in Logged, NEW y \in Logged, x <= y
               PROVE  Value(x) \in Fractions /\ Value(y) \in Fractions /\ AtMost(Value(y), Value(x))
    OBVIOUS
  <2>1. /\ Log2(a) \in Nat /\ Log2(b) \in Nat /\ Log2(b) <= Log2(a)
        /\ Log2(x) \in Nat /\ Log2(y) \in Nat /\ Log2(x) <= Log2(y)
    BY <1>3, LogIsMonotone
  <2>2. /\ 100 * (Log2(a) - Log2(x)) \in Int /\ 100 * (Log2(a) - Log2(y)) \in Int
        /\ 100 * (Log2(a) - Log2(y)) <= 100 * (Log2(a) - Log2(x))
        /\ Log2(a) - Log2(b) \in Int /\ 0 <= Log2(a) - Log2(b)
    BY <2>1
  <2> QED
    BY <2>2, ScaledIsFair
<1>5. ZeroScore \in Fractions /\ AtMost(ZeroScore, ZeroScore)
  BY DEF ZeroScore, Fractions, AtMost
<1>6. /\ \A x \in {-1, 0} \cup Logged : x > 0 => x \in Logged
      /\ raw \in Int /\ than \in Int /\ a \in Nat \ {0} /\ b \in Nat \ {0}
  BY <1>3 DEF Logged
<1> HIDE DEF Value
<1>7. CASE ~(than > 0) \/ a = b
  BY <1>1, <1>4, <1>5, <1>6, <1>7 DEF Fair
<1>8. CASE than > 0 /\ a # b
  BY <1>1, <1>2, <1>4, <1>5, <1>6, <1>8 DEF Fair
<1> QED
  BY <1>7, <1>8

(* The logarithms of one and the ratio to the baseline a, which is the     *)
(* logarithm of a and the score less that of a.                            *)
LEMMA LogOneIsFair ==
  ASSUME NEW hint, hint.kind = "log1p_max", NEW raw \in Int, NEW than \in Int,
         hint.at[1] \in Logged, hint.at[2] \in Nat \ {0}, hint.at[1] + hint.at[2] \in Logged,
         raw > 0 => hint.at[1] + raw \in Logged, than > 0 => hint.at[1] + than \in Logged
  PROVE  Fair(hint, raw, than)
<1> DEFINE a == hint.at[1]
           b == hint.at[2]
           Value(x) == scale(100 * (Log2(a + x) - Log2(a)), Log2(a + b) - Log2(a))
<1>1. \A x \in Int : PercentOf(hint, x) = IF ~(x > 0 /\ a > 0 /\ b > 0) THEN ZeroScore ELSE Value(x)
  BY DEF PercentOf, Percent
<1>2. NotWorse(hint, raw, than) => raw >= than
  BY DEF NotWorse, Minimizing
<1>3. /\ a \in Logged /\ b \in Nat \ {0} /\ a + b \in Logged /\ a \in Nat \ {0}
      /\ raw > 0 => a + raw \in Logged
      /\ than > 0 => a + than \in Logged
  BY DEF Logged
<1> HIDE DEF a, b
<1>4. \A x, y \in Int : x <= y /\ a + x \in Logged /\ a + y \in Logged =>
        Value(x) \in Fractions /\ Value(y) \in Fractions /\ AtMost(Value(x), Value(y))
  <2> SUFFICES ASSUME NEW x \in Int, NEW y \in Int, x <= y, a + x \in Logged, a + y \in Logged
               PROVE  Value(x) \in Fractions /\ Value(y) \in Fractions /\ AtMost(Value(x), Value(y))
    OBVIOUS
  <2>1. a + x <= a + y /\ a <= a + b
    BY <1>3
  <2>2. /\ Log2(a) \in Nat /\ Log2(a + b) \in Nat /\ Log2(a) <= Log2(a + b)
        /\ Log2(a + x) \in Nat /\ Log2(a + y) \in Nat /\ Log2(a + x) <= Log2(a + y)
    BY <1>3, <2>1, LogIsMonotone
  <2>3. /\ 100 * (Log2(a + x) - Log2(a)) \in Int /\ 100 * (Log2(a + y) - Log2(a)) \in Int
        /\ 100 * (Log2(a + x) - Log2(a)) <= 100 * (Log2(a + y) - Log2(a))
        /\ Log2(a + b) - Log2(a) \in Int /\ 0 <= Log2(a + b) - Log2(a)
    BY <2>2
  <2> QED
    BY <2>3, ScaledIsFair
<1>5. ZeroScore \in Fractions
  BY DEF ZeroScore, Fractions
<1> HIDE DEF Value
<1>6. raw > 0 => Value(raw) \in Fractions
  BY <1>3, <1>4
<1>7. than > 0 => Value(than) \in Fractions
  BY <1>3, <1>4
<1>8. raw > 0 /\ than > 0 /\ raw >= than => AtMost(Value(than), Value(raw))
  BY <1>3, <1>4
<1>9. CASE ~(than > 0)
  BY <1>1, <1>3, <1>5, <1>6, <1>9 DEF Fair
<1>10. CASE than > 0
  BY <1>1, <1>2, <1>3, <1>5, <1>6, <1>7, <1>8, <1>10 DEF Fair
<1> QED
  BY <1>9, <1>10

-----------------------------------------------------------------------------
(* The piecewise rules, for every four ordered points and every rise of    *)
(* what a score is transformed to.                                         *)
Rising(S, logarithmic) ==
  /\ S \subseteq Int
  /\ \A x \in S : Transformed(x, logarithmic) \in Int
  /\ \A x, y \in S : x < y => Transformed(x, logarithmic) < Transformed(y, logarithmic)

NoBetter(x, y, minimize) == IF minimize THEN y <= x ELSE x <= y

LEMMA SlopeIsFair ==
  ASSUME NEW s \in Nat, NEW g \in Nat, NEW d \in Int, d # 0, NEW u \in Int, NEW v \in Int,
         d > 0 => u <= v, d < 0 => v <= u
  PROVE  /\ Fraction(s * d + u * g, d) \in Fractions
         /\ Fraction(s * d + v * g, d) \in Fractions
         /\ AtMost(Fraction(s * d + u * g, d), Fraction(s * d + v * g, d))
<1>1. s * d + u * g \in Int /\ s * d + v * g \in Int
  OBVIOUS
<1>2. \A m, n, k \in Int : m <= n /\ 0 <= k => m * k <= n * k
  OBVIOUS
<1> DEFINE p == s * d + u * g
           q == s * d + v * g
<1>3. CASE d > 0
  <2>1. u * g <= v * g
    BY <1>2, <1>3
  <2>2. p <= q
    BY <2>1
  <2> HIDE DEF p, q
  <2>3. Fraction(p, d) = <<p, d>> /\ Fraction(q, d) = <<q, d>>
    BY <1>3 DEF Fraction
  <2>4. p \in Int /\ q \in Int /\ p * d <= q * d
    BY <1>1, <1>2, <1>3, <2>2 DEF p, q
  <2>5. <<p, d>> \in Fractions /\ <<q, d>> \in Fractions /\ AtMost(<<p, d>>, <<q, d>>)
    BY <1>3, <2>4 DEF Fractions, AtMost
  <2> QED
    BY <2>3, <2>5 DEF p, q
<1>4. CASE d < 0
  <2>1. v * g <= u * g
    BY <1>2, <1>4
  <2>2. q <= p
    BY <2>1
  <2> HIDE DEF p, q
  <2>3. Fraction(p, d) = <<-p, -d>> /\ Fraction(q, d) = <<-q, -d>>
    BY <1>4 DEF Fraction
  <2>4. p \in Int /\ q \in Int
    BY <1>1 DEF p, q
  <2>5. (-p) * (-d) <= (-q) * (-d)
    <3>1. -p \in Int /\ -q \in Int /\ -d \in Int /\ -p <= -q /\ 0 <= -d
      BY <1>4, <2>2, <2>4
    <3> QED
      BY <1>2, <3>1
  <2>6. <<-p, -d>> \in Fractions /\ <<-q, -d>> \in Fractions /\ AtMost(<<-p, -d>>, <<-q, -d>>)
    BY <1>4, <2>4, <2>5 DEF Fractions, AtMost
  <2> QED
    BY <2>3, <2>6 DEF p, q
<1> QED
  BY <1>3, <1>4

LEMMA BandScoresRise ==
  /\ BandScores[1] = 0 /\ BandScores[2] = 20 /\ BandScores[3] = 80 /\ BandScores[4] = 100
  /\ \A i \in 1 .. 4 : BandScores[i] \in Nat
  /\ \A i, j \in 1 .. 4 : i <= j => BandScores[i] <= BandScores[j]
  BY DEF BandScores

(* Within a band the score is between those of its two points, and rises.  *)
LEMMA BandIsFair ==
  ASSUME NEW S, NEW at, NEW minimize \in BOOLEAN, NEW logarithmic \in BOOLEAN, Rising(S, logarithmic),
         \A i \in 1 .. 4 : at[i] \in S, Ordered(at, minimize),
         NEW i \in 1 .. 3, NEW x \in S, NEW y \in S, NoBetter(x, y, minimize)
  PROVE  /\ ScoreInBand(x, at, i, logarithmic) \in Fractions
         /\ AtMost(<<BandScores[i], 1>>, ScoreInBand(x, at, i, logarithmic))
         /\ AtMost(ScoreInBand(x, at, i, logarithmic), <<BandScores[i + 1], 1>>)
         /\ AtMost(ScoreInBand(x, at, i, logarithmic), ScoreInBand(y, at, i, logarithmic))
<1> DEFINE t(n) == Transformed(n, logarithmic)
           d == t(at[i + 1]) - t(at[i])
           low == BandScores[i]
           high == BandScores[i + 1]
           g == high - low
           p == Fraction(low * d + (t(x) - t(at[i])) * g, d)
           q == Fraction(low * d + (t(y) - t(at[i])) * g, d)
<1>1. /\ ScoreInBand(x, at, i, logarithmic) = Clamp(p, low, high)
      /\ ScoreInBand(y, at, i, logarithmic) = Clamp(q, low, high)
  BY DEF ScoreInBand
<1>2. low \in Nat /\ high \in Nat /\ low <= high /\ low \in Int /\ high \in Int /\ g \in Nat
  BY BandScoresRise
<1>3. at[i] \in S /\ at[i + 1] \in S /\ IF minimize THEN at[i] > at[i + 1] ELSE at[i] < at[i + 1]
  BY DEF Ordered
<1>4. /\ t(x) \in Int /\ t(y) \in Int /\ t(at[i]) \in Int /\ t(at[i + 1]) \in Int
      /\ minimize => t(at[i + 1]) < t(at[i]) /\ t(y) <= t(x)
      /\ ~minimize => t(at[i]) < t(at[i + 1]) /\ t(x) <= t(y)
  <2>1. /\ S \subseteq Int
        /\ \A m \in S : t(m) \in Int
        /\ \A m, n \in S : m < n => t(m) < t(n)
    BY Zenon DEF Rising
  <2> HIDE DEF t
  <2>2. \A m, n \in S : m <= n => t(m) <= t(n)
    BY <2>1
  <2> QED
    BY <1>3, <2>1, <2>2 DEF NoBetter
<1> HIDE DEF t, low, high
<1>5. /\ d \in Int /\ d # 0
      /\ d > 0 => t(x) - t(at[i]) <= t(y) - t(at[i])
      /\ d < 0 => t(y) - t(at[i]) <= t(x) - t(at[i])
      /\ t(x) - t(at[i]) \in Int /\ t(y) - t(at[i]) \in Int
  BY <1>4
<1> HIDE DEF d, g
<1>6. p \in Fractions /\ q \in Fractions /\ AtMost(p, q)
  BY <1>2, <1>5, SlopeIsFair
<1> HIDE DEF p, q
<1>7. /\ Clamp(p, low, high) \in Fractions
      /\ AtMost(<<low, 1>>, Clamp(p, low, high)) /\ AtMost(Clamp(p, low, high), <<high, 1>>)
      /\ AtMost(Clamp(p, low, high), Clamp(q, low, high))
  BY <1>2, <1>6, ClampIsWithin, ClampIsFair
<1> QED
  BY <1>1, <1>7, Zenon DEF low, high

Inside(x, at, minimize) == IF minimize THEN at[4] < x /\ x < at[1] ELSE at[1] < x /\ x < at[4]

BandOf(x, at) == Min(BandsOf(x, at))

LEMMA BandOfIs ==
  ASSUME NEW at, NEW minimize \in BOOLEAN, \A i \in 1 .. 4 : at[i] \in Int, Ordered(at, minimize),
         NEW x \in Int, Inside(x, at, minimize)
  PROVE  /\ BandsOf(x, at) # {} /\ BandOf(x, at) \in 1 .. 3
         /\ Within(x, at[BandOf(x, at)], at[BandOf(x, at) + 1])
         /\ \A j \in 1 .. 3 : Within(x, at[j], at[j + 1]) => BandOf(x, at) <= j
<1>1. at[1] \in Int /\ at[2] \in Int /\ at[3] \in Int /\ at[4] \in Int
  OBVIOUS
<1>2. \/ Within(x, at[1], at[1 + 1]) \/ Within(x, at[2], at[2 + 1]) \/ Within(x, at[3], at[3 + 1])
  BY <1>1 DEF Inside, Ordered, Within
<1>3. \A j \in 1 .. 3 : j \in BandsOf(x, at) <=> Within(x, at[j], at[j + 1])
  BY DEF BandsOf, BandHolds
<1>4. BandsOf(x, at) \subseteq 1 .. 3
  BY DEF BandsOf
<1>5. 1 \in BandsOf(x, at) \/ 2 \in BandsOf(x, at) \/ 3 \in BandsOf(x, at)
  BY <1>2, <1>3
<1>6. \E i \in BandsOf(x, at) : \A j \in BandsOf(x, at) : i <= j
  <2>1. CASE 1 \in BandsOf(x, at)
    BY <1>4, <2>1
  <2>2. CASE 1 \notin BandsOf(x, at) /\ 2 \in BandsOf(x, at)
    BY <1>4, <2>2
  <2>3. CASE 1 \notin BandsOf(x, at) /\ 2 \notin BandsOf(x, at)
    BY <1>4, <1>5, <2>3
  <2> QED
    BY <2>1, <2>2, <2>3
<1>7. BandOf(x, at) \in BandsOf(x, at) /\ \A j \in BandsOf(x, at) : BandOf(x, at) <= j
  BY <1>6 DEF BandOf, Min
<1> QED
  BY <1>3, <1>4, <1>5, <1>7

LEMMA BandsRise ==
  ASSUME NEW at, NEW minimize \in BOOLEAN, \A i \in 1 .. 4 : at[i] \in Int, Ordered(at, minimize),
         NEW x \in Int, Inside(x, at, minimize), NEW y \in Int, Inside(y, at, minimize),
         NoBetter(x, y, minimize)
  PROVE  BandOf(x, at) <= BandOf(y, at)
<1> DEFINE i == BandOf(x, at)
           j == BandOf(y, at)
<1>1. /\ i \in 1 .. 3 /\ j \in 1 .. 3 /\ Within(x, at[i], at[i + 1]) /\ Within(y, at[j], at[j + 1])
      /\ \A k \in 1 .. 3 : Within(x, at[k], at[k + 1]) => i <= k
  BY BandOfIs
<1> HIDE DEF i, j
<1>2. at[1] \in Int /\ at[2] \in Int /\ at[3] \in Int /\ at[4] \in Int
  OBVIOUS
<1>3. ~minimize => at[1] < at[2] /\ at[2] < at[3] /\ at[3] < at[4]
  BY <1>2 DEF Ordered
<1>4. minimize => at[1] > at[2] /\ at[2] > at[3] /\ at[3] > at[4]
  BY <1>2 DEF Ordered
<1>5. ASSUME j < i PROVE FALSE
  <2>1. ~Within(x, at[j], at[j + 1])
    BY <1>1, <1>5
  <2>2. (i = 2 /\ j = 1) \/ (i = 3 /\ j = 1) \/ (i = 3 /\ j = 2)
    BY <1>1, <1>5
  <2>3. CASE i = 2 /\ j = 1
    BY <1>1, <1>2, <1>3, <1>4, <2>1, <2>3 DEF Within, NoBetter
  <2>4. CASE i = 3 /\ j = 1
    BY <1>1, <1>2, <1>3, <1>4, <2>1, <2>4 DEF Within, NoBetter
  <2>5. CASE i = 3 /\ j = 2
    BY <1>1, <1>2, <1>3, <1>4, <2>1, <2>5 DEF Within, NoBetter
  <2> QED
    BY <2>2, <2>3, <2>4, <2>5
<1> QED
  BY <1>1, <1>5 DEF i, j

(* Between the outer points.                                               *)
LEMMA InsideIsFair ==
  ASSUME NEW S, NEW at, NEW minimize \in BOOLEAN, NEW logarithmic \in BOOLEAN, Rising(S, logarithmic),
         \A i \in 1 .. 4 : at[i] \in S, Ordered(at, minimize),
         NEW x \in S, NEW y \in S, Inside(x, at, minimize), Inside(y, at, minimize), NoBetter(x, y, minimize)
  PROVE  AtMost(ScoreInBand(x, at, BandOf(x, at), logarithmic), ScoreInBand(y, at, BandOf(y, at), logarithmic))
<1> DEFINE i == BandOf(x, at)
           j == BandOf(y, at)
           scoreX == ScoreInBand(x, at, i, logarithmic)
           scoreY == ScoreInBand(y, at, j, logarithmic)
<1>1. S \subseteq Int /\ \A k \in 1 .. 4 : at[k] \in Int
  BY DEF Rising
<1>2. i \in 1 .. 3 /\ j \in 1 .. 3 /\ i <= j
  BY <1>1, BandOfIs, BandsRise
<1> HIDE DEF i, j
<1>3. CASE i = j
  <2>1. AtMost(ScoreInBand(x, at, i, logarithmic), ScoreInBand(y, at, i, logarithmic))
    BY <1>2, BandIsFair
  <2> QED
    BY <1>3, <2>1, Zenon DEF i, j
<1>4. CASE i < j
  <2>1. NoBetter(y, y, minimize)
    BY <1>1 DEF NoBetter
  <2>2. scoreX \in Fractions /\ AtMost(scoreX, <<BandScores[i + 1], 1>>)
    BY <1>2, BandIsFair
  <2>3. scoreY \in Fractions /\ AtMost(<<BandScores[j], 1>>, scoreY)
    BY <1>2, <2>1, BandIsFair
  <2> HIDE DEF scoreX, scoreY
  <2>4. /\ i + 1 \in 1 .. 4 /\ j \in 1 .. 4 /\ i + 1 <= j
    BY <1>2, <1>4
  <2>5. BandScores[i + 1] \in Nat /\ BandScores[j] \in Nat /\ BandScores[i + 1] <= BandScores[j]
    BY <2>4, BandScoresRise
  <2>6. /\ <<BandScores[i + 1], 1>> \in Fractions /\ <<BandScores[j], 1>> \in Fractions
        /\ AtMost(<<BandScores[i + 1], 1>>, <<BandScores[j], 1>>)
    BY <2>5 DEF Fractions, AtMost
  <2>7. AtMost(scoreX, <<BandScores[j], 1>>)
    BY <2>2, <2>6, AtMostIsTransitive
  <2>8. AtMost(scoreX, scoreY)
    BY <2>2, <2>3, <2>6, <2>7, AtMostIsTransitive
  <2> QED
    BY <2>8 DEF scoreX, scoreY, i, j
<1> QED
  BY <1>2, <1>3, <1>4 DEF i, j

(* For any four points, ordered or not, and any two raw scores of them: the *)
(* better raw score never gets the lower percentage.  Bands meet at the     *)
(* points, so the loop of piecewise() may take either of two.               *)
THEOREM PiecewiseIsFair ==
  ASSUME NEW S, NEW at, NEW minimize \in BOOLEAN, NEW logarithmic \in BOOLEAN, Rising(S, logarithmic),
         \A i \in 1 .. 4 : at[i] \in S,
         NEW x \in S, NEW y \in S, NoBetter(x, y, minimize), minimize \/ logarithmic => y > 0
  PROVE  /\ piecewise(x, at, minimize, logarithmic) \in Fractions
         /\ piecewise(y, at, minimize, logarithmic) \in Fractions
         /\ AtMost(piecewise(x, at, minimize, logarithmic), piecewise(y, at, minimize, logarithmic))
<1> DEFINE P(z) == piecewise(z, at, minimize, logarithmic)
           Good == Ordered(at, minimize) /\ ~(logarithmic /\ \E i \in 1 .. 4 : at[i] <= 0)
           Early(z) == \/ (minimize \/ logarithmic) /\ z <= 0
                       \/ IF minimize THEN z >= at[1] ELSE z <= at[1]
           Late(z) == IF minimize THEN z <= at[4] ELSE z >= at[4]
           InBand(z) == ScoreInBand(z, at, BandOf(z, at), logarithmic)
<1>1. S \subseteq Int /\ \A i \in 1 .. 4 : at[i] \in Int
  BY DEF Rising
<1>2. ZeroScore \in Fractions /\ <<100, 1>> \in Fractions /\ AtMost(ZeroScore, ZeroScore)
      /\ AtMost(<<100, 1>>, <<100, 1>>) /\ AtMost(ZeroScore, <<100, 1>>)
  BY DEF ZeroScore, Fractions, AtMost
<1>3. CASE ~Good
  <2>1. P(x) = ZeroScore /\ P(y) = ZeroScore
    BY <1>3, Zenon DEF piecewise
  <2> HIDE DEF P
  <2>2. P(x) \in Fractions /\ P(y) \in Fractions /\ AtMost(P(x), P(y))
    BY ONLY <1>2, <2>1
  <2> QED
    BY <2>2 DEF P
<1>4. CASE Good
  <2>1. ASSUME NEW z \in S, ~Early(z), ~Late(z) PROVE Inside(z, at, minimize)
    BY <1>1, <2>1 DEF Inside
  <2>2. ASSUME NEW z \in S
        PROVE  P(z) = IF Early(z) THEN ZeroScore ELSE IF Late(z) THEN <<100, 1>> ELSE InBand(z)
    <3>1. P(z) = IF Early(z) THEN ZeroScore ELSE IF Late(z) THEN <<100, 1>>
                 ELSE IF BandsOf(z, at) = {} THEN ZeroScore ELSE InBand(z)
      BY <1>4, Zenon DEF piecewise, BandOf
    <3>2. ~Early(z) /\ ~Late(z) => BandsOf(z, at) # {}
      <4>1. Ordered(at, minimize)
        BY <1>4
      <4>2. ASSUME Inside(z, at, minimize) PROVE BandsOf(z, at) # {}
        BY <1>1, <4>1, <4>2, BandOfIs
      <4> HIDE DEF Early, Late
      <4> QED
        BY <2>1, <4>2
    <3> HIDE DEF P, Early, Late, InBand
    <3> QED
      BY <3>1, <3>2
  <2>3. ASSUME NEW z \in S, Inside(z, at, minimize)
        PROVE  InBand(z) \in Fractions /\ AtMost(ZeroScore, InBand(z)) /\ AtMost(InBand(z), <<100, 1>>)
    <3> DEFINE i == BandOf(z, at)
    <3>1. NoBetter(z, z, minimize)
      BY <1>1 DEF NoBetter
    <3>2. i \in 1 .. 3
      BY <1>1, <1>4, <2>3, BandOfIs
    <3> HIDE DEF i
    <3>3. /\ ScoreInBand(z, at, i, logarithmic) \in Fractions
          /\ AtMost(<<BandScores[i], 1>>, ScoreInBand(z, at, i, logarithmic))
          /\ AtMost(ScoreInBand(z, at, i, logarithmic), <<BandScores[i + 1], 1>>)
      BY <1>4, <3>1, <3>2, BandIsFair
    <3>4. i \in 1 .. 4 /\ i + 1 \in 1 .. 4
      BY <3>2
    <3>5. BandScores[i] \in Nat /\ BandScores[i + 1] \in Nat /\ BandScores[i + 1] <= 100
      BY <3>4, BandScoresRise
    <3>6. /\ <<BandScores[i], 1>> \in Fractions /\ <<BandScores[i + 1], 1>> \in Fractions
          /\ AtMost(ZeroScore, <<BandScores[i], 1>>) /\ AtMost(<<BandScores[i + 1], 1>>, <<100, 1>>)
      BY <3>5 DEF ZeroScore, Fractions, AtMost
    <3>7. AtMost(ZeroScore, ScoreInBand(z, at, i, logarithmic)) /\ AtMost(ScoreInBand(z, at, i, logarithmic), <<100, 1>>)
      BY <1>2, <3>3, <3>6, AtMostIsTransitive
    <3> QED
      BY <3>3, <3>7 DEF i
  <2>4. ASSUME NEW z \in S
        PROVE  P(z) \in Fractions /\ AtMost(ZeroScore, P(z)) /\ AtMost(P(z), <<100, 1>>)
    <3> HIDE DEF P, Early, Late, InBand
    <3> QED
      BY <1>2, <2>1, <2>2, <2>3
  <2>5. ~Early(x) => ~Early(y)
    BY <1>1 DEF NoBetter
  <2>6. Late(x) => Late(y)
    BY <1>1 DEF NoBetter
  <2>7. Inside(x, at, minimize) /\ Inside(y, at, minimize) => AtMost(InBand(x), InBand(y))
    BY <1>4, InsideIsFair
  <2> HIDE DEF P, Early, Late, InBand
  <2>8. AtMost(P(x), P(y))
    <3>1. CASE Early(x)
      BY <2>2, <2>4, <3>1
    <3>2. CASE ~Early(x) /\ Late(y)
      BY <2>2, <2>4, <2>5, <3>2
    <3>3. CASE ~Early(x) /\ ~Late(y)
      BY <2>1, <2>2, <2>5, <2>6, <2>7, <3>3
    <3> QED
      BY <3>1, <3>2, <3>3
  <2> QED
    BY <2>4, <2>8 DEF P
<1> QED
  BY <1>3, <1>4

LEMMA PiecewiseMaxIsFair ==
  ASSUME NEW hint, hint.kind = "piecewise_max", NEW raw \in Int, NEW than \in Int,
         \A i \in 1 .. 4 : hint.at[i] \in Int
  PROVE  Fair(hint, raw, than)
<1> DEFINE P(x) == piecewise(x, hint.at, FALSE, FALSE)
<1>1. PercentOf(hint, raw) = P(raw) /\ PercentOf(hint, than) = P(than)
  BY DEF PercentOf, Percent
<1>2. NotWorse(hint, raw, than) => than <= raw
  BY DEF NotWorse, Minimizing
<1>3. Rising(Int, FALSE)
  BY DEF Rising, Transformed
<1>4. \A x, y \in Int : x <= y => P(x) \in Fractions /\ P(y) \in Fractions /\ AtMost(P(x), P(y))
  <2> SUFFICES ASSUME NEW x \in Int, NEW y \in Int, x <= y
               PROVE  P(x) \in Fractions /\ P(y) \in Fractions /\ AtMost(P(x), P(y))
    OBVIOUS
  <2>1. NoBetter(x, y, FALSE)
    BY DEF NoBetter
  <2> QED
    BY <1>3, <2>1, PiecewiseIsFair
<1> HIDE DEF P
<1> QED
  BY <1>1, <1>2, <1>4 DEF Fair

(* The two rules for which less is better.                                 *)
LEMMA PiecewiseMinIsFair ==
  ASSUME NEW hint, NEW logarithmic \in BOOLEAN, NEW S, Rising(S, logarithmic),
         hint.kind = IF logarithmic THEN "piecewise_log_min" ELSE "piecewise_min",
         NEW raw \in Int, NEW than \in Int, raw > 0 => raw \in S, than > 0 => than \in S,
         \A i \in 1 .. 4 : hint.at[i] \in S
  PROVE  Fair(hint, raw, than)
<1> DEFINE P(x) == piecewise(x, hint.at, TRUE, logarithmic)
<1>1. PercentOf(hint, raw) = P(raw) /\ PercentOf(hint, than) = P(than)
  <2>1. CASE logarithmic
    BY <2>1 DEF PercentOf, Percent
  <2>2. CASE ~logarithmic
    BY <2>2 DEF PercentOf, Percent
  <2> QED
    BY <2>1, <2>2
<1>2. NotWorse(hint, raw, than) => 1 <= raw /\ raw <= than
  BY DEF NotWorse, Minimizing
<1>3. \A x \in Int : x <= 0 => P(x) = ZeroScore
  BY DEF piecewise
<1>4. \A x, y \in S : x <= y /\ x > 0 => P(x) \in Fractions /\ P(y) \in Fractions /\ AtMost(P(y), P(x))
  <2> SUFFICES ASSUME NEW x \in S, NEW y \in S, x <= y, x > 0
               PROVE  P(x) \in Fractions /\ P(y) \in Fractions /\ AtMost(P(y), P(x))
    OBVIOUS
  <2>1. NoBetter(y, x, TRUE)
    BY DEF NoBetter
  <2>2. TRUE \in BOOLEAN
    OBVIOUS
  <2> QED
    BY <2>1, <2>2, PiecewiseIsFair
<1>5. ZeroScore \in Fractions
  BY DEF ZeroScore, Fractions
<1> HIDE DEF P
<1>6. P(raw) \in Fractions /\ P(than) \in Fractions
  BY <1>3, <1>4, <1>5
<1>7. 1 <= raw /\ raw <= than => AtMost(P(than), P(raw))
  BY <1>4
<1> QED
  BY <1>1, <1>2, <1>6, <1>7 DEF Fair

LEMMA HintIs ==
  ASSUME NEW hint \in RescaleHints
  PROVE  \/ hint.kind = "none"
         \/ hint.kind = "linear" /\ (hint.at = <<1, 4>> \/ hint.at = <<2, 2>>)
         \/ hint.kind \in {"min_linear", "min_linear_positive"} /\ hint.at = <<4, 1>>
         \/ hint.kind = "min_inverse_anchor" /\ hint.at = <<2, 50>>
         \/ hint.kind = "compression_ratio_cropped_guarded" /\ hint.at = <<4, 2>>
         \/ hint.kind = "log_anchor" /\ hint.at = <<4, 50>>
         \/ hint.kind = "log_max" /\ (hint.at = <<2, 8>> \/ hint.at = <<2, 2>>)
         \/ hint.kind = "log_min" /\ hint.at = <<8, 2>>
         \/ hint.kind = "log1p_max" /\ hint.at = <<1, 3>>
         \/ hint.kind = "piecewise_max" /\ hint.at = <<0, 2, 4, 8>>
         \/ hint.kind = "piecewise_min" /\ (hint.at = <<8, 4, 2, 1>> \/ hint.at = <<1, 2, 4, 8>>)
         \/ hint.kind = "piecewise_log_min" /\ hint.at = <<8, 4, 2, 1>>
  BY DEF RescaleHints

LEMMA RawsAre ==
  ASSUME NEW hint, NEW raw \in RawsOf(hint)
  PROVE  /\ raw \in Int
         /\ hint.kind \in {"log_anchor", "log_max", "log_min", "piecewise_log_min"} => raw \in {-1, 0} \cup Logged
         /\ hint.kind = "log1p_max" => raw \in {-1, 0, 1, 3, 7}
<1>1. CASE hint.kind \in {"log_anchor", "log_max", "log_min", "piecewise_log_min"}
  <2>1. RawsOf(hint) = {-1, 0, 1, 2, 4, 8, 16}
    BY <1>1 DEF RawsOf
  <2> QED
    BY <1>1, <2>1 DEF Logged
<1>2. CASE hint.kind = "log1p_max"
  <2>1. RawsOf(hint) = {-1, 0, 1, 3, 7}
    BY <1>2 DEF RawsOf
  <2> QED
    BY <1>2, <2>1
<1>3. CASE hint.kind = "none"
  <2>1. RawsOf(hint) = {-1, 0, 1, 50, 100, 101}
    BY <1>3 DEF RawsOf
  <2> QED
    BY <1>3, <2>1
<1>4. CASE hint.kind \notin {"log_anchor", "log_max", "log_min", "piecewise_log_min", "log1p_max", "none"}
  <2>1. RawsOf(hint) = -1 .. 9
    BY <1>4 DEF RawsOf
  <2> QED
    BY <1>4, <2>1
<1> QED
  BY <1>1, <1>2, <1>3, <1>4

(* Every rule a Judge may come with.                                       *)
LEMMA RulesAreFair ==
  ASSUME NEW hint \in RescaleHints, NEW raw \in RawsOf(hint), NEW than \in RawsOf(hint)
  PROVE  Fair(hint, raw, than)
<1>1. raw \in Int /\ than \in Int
  BY RawsAre
<1>2. Rising(Int, FALSE) /\ Rising(Logged, TRUE)
  <2>1. Logged \subseteq Int
    BY DEF Logged
  <2> QED
    BY <2>1, LogIsMonotone DEF Rising, Transformed
<1>3. CASE hint.kind = "none"
  BY <1>1, <1>3, NoRuleIsFair
<1>4. CASE hint.kind = "linear"
  <2>1. hint.at[1] \in Int /\ hint.at[2] \in Int /\ hint.at[1] <= hint.at[2]
    BY <1>4, HintIs
  <2> QED
    BY <1>1, <1>4, <2>1, LinearIsFair
<1>5. CASE hint.kind \in {"min_linear", "min_linear_positive", "compression_ratio_cropped_guarded"}
  <2>1. hint.at[1] \in Int /\ hint.at[2] \in Int /\ hint.at[2] <= hint.at[1]
    BY <1>5, HintIs
  <2> QED
    BY <1>1, <1>5, <2>1, MinLinearIsFair
<1>6. CASE hint.kind = "min_inverse_anchor"
  <2>1. hint.at[1] \in Int /\ hint.at[2] \in Nat
    BY <1>6, HintIs
  <2> QED
    BY <1>1, <1>6, <2>1, InverseIsFair
<1>7. CASE hint.kind = "log_anchor"
  <2>1. hint.at[1] \in Logged /\ hint.at[2] \in Nat
    BY <1>7, HintIs DEF Logged
  <2>2. raw \in {-1, 0} \cup Logged /\ than \in {-1, 0} \cup Logged
    BY <1>7, RawsAre
  <2> QED
    BY <1>7, <2>1, <2>2, LogAnchorIsFair
<1>8. CASE hint.kind = "log_max"
  <2>1. hint.at[1] \in Logged /\ hint.at[2] \in Logged /\ hint.at[1] <= hint.at[2]
    BY <1>8, HintIs DEF Logged
  <2>2. raw \in {-1, 0} \cup Logged /\ than \in {-1, 0} \cup Logged
    BY <1>8, RawsAre
  <2> QED
    BY <1>8, <2>1, <2>2, LogMaxIsFair
<1>9. CASE hint.kind = "log_min"
  <2>1. hint.at[1] \in Logged /\ hint.at[2] \in Logged /\ hint.at[2] <= hint.at[1]
    BY <1>9, HintIs DEF Logged
  <2>2. raw \in {-1, 0} \cup Logged /\ than \in {-1, 0} \cup Logged
    BY <1>9, RawsAre
  <2> QED
    BY <1>9, <2>1, <2>2, LogMinIsFair
<1>10. CASE hint.kind = "log1p_max"
  <2>1. hint.at[1] = 1 /\ hint.at[2] = 3
    BY <1>10, HintIs
  <2>2. hint.at[1] \in Logged /\ hint.at[2] \in Nat \ {0} /\ hint.at[1] + hint.at[2] \in Logged
    BY <2>1 DEF Logged
  <2>3. raw \in {-1, 0, 1, 3, 7} /\ than \in {-1, 0, 1, 3, 7}
    BY <1>10, RawsAre
  <2>4. (raw > 0 => hint.at[1] + raw \in Logged) /\ (than > 0 => hint.at[1] + than \in Logged)
    BY <2>1, <2>3 DEF Logged
  <2> QED
    BY <1>1, <1>10, <2>2, <2>4, LogOneIsFair
<1>11. CASE hint.kind = "piecewise_max"
  <2>1. \A i \in 1 .. 4 : hint.at[i] \in Int
    BY <1>11, HintIs
  <2> QED
    BY <1>1, <1>11, <2>1, PiecewiseMaxIsFair
<1>12. CASE hint.kind = "piecewise_min"
  <2>1. \A i \in 1 .. 4 : hint.at[i] \in Int
    BY <1>12, HintIs
  <2>2. hint.kind = IF FALSE THEN "piecewise_log_min" ELSE "piecewise_min"
    BY <1>12
  <2> QED
    BY <1>1, <1>2, <2>1, <2>2, PiecewiseMinIsFair
<1>13. CASE hint.kind = "piecewise_log_min"
  <2>1. \A i \in 1 .. 4 : hint.at[i] \in Logged
    BY <1>13, HintIs DEF Logged
  <2>2. hint.kind = IF TRUE THEN "piecewise_log_min" ELSE "piecewise_min"
    BY <1>13
  <2>3. (raw > 0 => raw \in Logged) /\ (than > 0 => than \in Logged)
    BY <1>1, <1>13, RawsAre
  <2> QED
    BY <1>1, <1>2, <2>1, <2>2, <2>3, PiecewiseMinIsFair
<1> QED
  BY <1>3, <1>4, <1>5, <1>6, <1>7, <1>8, <1>9, <1>10, <1>11, <1>12, <1>13, HintIs

-----------------------------------------------------------------------------
(* What is made of the output of a Judge.                                  *)
Ratio(score) == AtMost(ZeroScore, score) /\ AtMost(score, <<1, 1>>)

LEMMA ZeroIsRatio == Ratio(ZeroScore)
  BY DEF Ratio, ZeroScore, AtMost

LEMMA NormalizedIsRatio ==
  ASSUME NEW hint \in RescaleHints, NEW raw \in RawsOf(hint)
  PROVE  Ratio(normalize_raw(hint, TotalLine(TRUE, raw)))
<1>1. PercentOf(hint, raw) \in Fractions
  BY RulesAreFair DEF Fair
<1> QED
  BY <1>1, NormalizedIs, Zenon DEF Ratio

IsTotal(s, line) == line = TotalLine(FALSE, 0) \/ \E raw \in RawsOf(s.rescale) : line = TotalLine(TRUE, raw)
IsJson(s, line) == s.rescale.kind = "none" /\ line.score \in {<<50>>, <<>>} /\ line.passRate \in {<<2>>, <<>>}
IsSummary(line) == line.passed \in Nat /\ line.failed \in Nat

LEMMA LineIs ==
  ASSUME NEW s, NEW line \in OutputLines(s) \cup {MarkerLine("start"), MarkerLine("end")}
  PROVE  /\ line.kind = "total" => IsTotal(s, line)
         /\ line.kind = "json" => IsJson(s, line)
         /\ line.kind = "summary" => IsSummary(line)
<1>1. CASE line \in {TotalLine(TRUE, raw) : raw \in RawsOf(s.rescale) \ {-1}} \cup {TotalLine(FALSE, 0)}
  BY <1>1 DEF TotalLine, IsTotal
<1>2. CASE line \in {MarkerLine("start"), MarkerLine("end")}
  BY <1>2 DEF MarkerLine
<1>3. CASE s.rescale.kind = "none" /\ line \in {[kind |-> "summary", passed |-> 1, failed |-> 2], [kind |-> "summary", passed |-> 0, failed |-> 0]}
  BY <1>3 DEF IsSummary
<1>4. CASE s.rescale.kind = "none" /\ line \in {JsonLine("absent", <<50>>, <<>>), JsonLine("false", <<50>>, <<>>), JsonLine("true", <<>>, <<2>>), JsonLine("true", <<>>, <<>>)}
  BY <1>4 DEF IsJson, JsonLine
<1> QED
  BY <1>1, <1>2, <1>3, <1>4 DEF OutputLines

IsOutput(s, output) ==
  \E n \in 0 .. 3 :
    /\ DOMAIN output = 1 .. n
    /\ \A i \in 1 .. n : output[i] \in OutputLines(s) \cup {MarkerLine("start"), MarkerLine("end")}

LEMMA OutputIs ==
  ASSUME NEW s, NEW output \in Outputs(s)
  PROVE  IsOutput(s, output)
<1> DEFINE lines == OutputLines(s) \cup {MarkerLine("start"), MarkerLine("end")}
<1>1. CASE output = <<>>
  <2>1. DOMAIN output = 1 .. 0
    BY <1>1
  <2> QED
    BY <2>1 DEF IsOutput
<1>2. CASE \E l \in OutputLines(s) : output = <<l>>
  <2>1. DOMAIN output = 1 .. 1 /\ output[1] \in lines
    BY <1>2
  <2> HIDE DEF lines
  <2>2. \A i \in 1 .. 1 : output[i] \in lines
    BY <2>1
  <2> QED
    BY <2>1, <2>2 DEF IsOutput, lines
<1>3. CASE \E l, k \in OutputLines(s) : output = <<l, k>>
  <2>1. DOMAIN output = 1 .. 2 /\ output[1] \in lines /\ output[2] \in lines
    BY <1>3
  <2> HIDE DEF lines
  <2>2. \A i \in 1 .. 2 : output[i] \in lines
    BY <2>1
  <2> QED
    BY <2>1, <2>2 DEF IsOutput, lines
<1>4. CASE \E l \in OutputLines(s) : output = <<MarkerLine("start"), l, MarkerLine("end")>>
  <2>1. DOMAIN output = 1 .. 3 /\ output[1] \in lines /\ output[2] \in lines /\ output[3] \in lines
    BY <1>4
  <2> HIDE DEF lines
  <2>2. \A i \in 1 .. 3 : output[i] \in lines
    BY <2>1
  <2> QED
    BY <2>1, <2>2 DEF IsOutput, lines
<1> QED
  BY <1>1, <1>2, <1>3, <1>4 DEF Outputs

(* The first and the last of some lines are among them.                    *)
LEMMA EndsAreIn ==
  ASSUME NEW s, NEW output, IsOutput(s, output), NEW some \in SUBSET DOMAIN output, some # {}
  PROVE  Min(some) \in some /\ Max(some) \in some
<1>1. some \subseteq 1 .. 3
  BY DEF IsOutput
<1>2. \E i \in some : \A j \in some : i <= j
  <2>1. CASE 1 \in some
    BY <1>1, <2>1
  <2>2. CASE 1 \notin some /\ 2 \in some
    BY <1>1, <2>2
  <2>3. CASE 1 \notin some /\ 2 \notin some
    BY <1>1, <2>3
  <2> QED
    BY <2>1, <2>2, <2>3
<1>3. \E i \in some : \A j \in some : i >= j
  <2>1. CASE 3 \in some
    BY <1>1, <2>1
  <2>2. CASE 3 \notin some /\ 2 \in some
    BY <1>1, <2>2
  <2>3. CASE 3 \notin some /\ 2 \notin some
    BY <1>1, <2>3
  <2> QED
    BY <2>1, <2>2, <2>3
<1> QED
  BY <1>2, <1>3 DEF Min, Max

LEMMA LinesAre ==
  ASSUME NEW s, NEW output, IsOutput(s, output), NEW kind, LinesOf(output, kind) # {},
         NEW i \in {Min(LinesOf(output, kind)), Max(LinesOf(output, kind))}
  PROVE  /\ i \in DOMAIN output /\ output[i].kind = kind
         /\ output[i] \in OutputLines(s) \cup {MarkerLine("start"), MarkerLine("end")}
<1>1. LinesOf(output, kind) \in SUBSET DOMAIN output /\ \A j \in LinesOf(output, kind) : output[j].kind = kind
  BY DEF LinesOf
<1>2. i \in LinesOf(output, kind)
  BY <1>1, EndsAreIn
<1> QED
  BY <1>1, <1>2 DEF IsOutput

LEMMA TotalIsRatio ==
  ASSUME NEW s, s.rescale \in RescaleHints, NEW output, IsOutput(s, output), LinesOf(output, "total") # {}
  PROVE  Ratio(normalize_raw(s.rescale, extract_total_score(output)[1]))
<1> DEFINE line == output[Min(LinesOf(output, "total"))]
<1>1. extract_total_score(output)[1] = line
  BY DEF extract_total_score
<1>2. line.kind = "total" /\ line \in OutputLines(s) \cup {MarkerLine("start"), MarkerLine("end")}
  BY LinesAre
<1> HIDE DEF line
<1>3. IsTotal(s, line)
  BY <1>2, LineIs
<1>4. CASE line = TotalLine(FALSE, 0)
  <2>1. normalize_raw(s.rescale, line) = ZeroScore
    BY <1>4 DEF normalize_raw, TotalLine
  <2> QED
    BY <1>1, <2>1, ZeroIsRatio
<1>5. CASE \E raw \in RawsOf(s.rescale) : line = TotalLine(TRUE, raw)
  BY <1>1, <1>5, NormalizedIsRatio
<1> QED
  BY <1>3, <1>4, <1>5 DEF IsTotal

LEMMA PassedIsRatio ==
  ASSUME NEW s, NEW output, IsOutput(s, output)
  PROVE  Ratio(pytest_ratio(output))
<1> DEFINE summary == output[Max(LinesOf(output, "summary"))]
<1>1. CASE LinesOf(output, "summary") = {}
  BY <1>1, ZeroIsRatio DEF pytest_ratio
<1>2. CASE LinesOf(output, "summary") # {}
  <2>1. pytest_ratio(output) = scale(summary.passed, summary.passed + summary.failed)
    BY <1>2 DEF pytest_ratio
  <2>2. summary.kind = "summary" /\ summary \in OutputLines(s) \cup {MarkerLine("start"), MarkerLine("end")}
    BY <1>2, LinesAre
  <2> HIDE DEF summary
  <2>3. summary.passed \in Nat /\ summary.failed \in Nat
    BY <2>2, LineIs DEF IsSummary
  <2>4. \A p, f \in Nat : Ratio(scale(p, p + f))
    BY DEF Ratio, scale, Fraction, ZeroScore, AtMost
  <2> QED
    BY <2>1, <2>3, <2>4
<1> QED
  BY <1>1, <1>2

(* What is found of a structured result is one of the output's.            *)
LEMMA StructuredIs ==
  ASSUME NEW s, NEW output, IsOutput(s, output),
         extract_structured(output) # NoScore, extract_structured(output) # <<>>
  PROVE  /\ LinesOf(output, "json") # {}
         /\ IsJson(s, extract_structured(output)[1])
<1> DEFINE objects == {i \in LinesOf(output, "json") : output[i].score # <<>> \/ output[i].passRate # <<>>}
           found == extract_structured(output)
<1>1. ASSUME NEW i \in DOMAIN output, output[i].kind = "json", found = <<output[i]>>
      PROVE  LinesOf(output, "json") # {} /\ IsJson(s, found[1])
  <2>1. i \in LinesOf(output, "json")
    BY <1>1 DEF LinesOf
  <2>2. output[i] \in OutputLines(s) \cup {MarkerLine("start"), MarkerLine("end")}
    BY DEF IsOutput
  <2>3. IsJson(s, output[i])
    BY <1>1, <2>2, LineIs
  <2>4. found[1] = output[i]
    BY <1>1
  <2> QED
    BY <2>1, <2>3, <2>4, Zenon
<1>2. CASE LinesOf(output, "start") # {} /\ LinesOf(output, "end") # {}
  <2> DEFINE start == Min(LinesOf(output, "start"))
             end == Min(LinesOf(output, "end"))
  <2>1. end = start + 2 /\ output[start + 1].kind = "json" /\ found = <<output[start + 1]>>
    BY <1>2 DEF extract_structured
  <2>2. start \in DOMAIN output /\ end \in DOMAIN output
    BY <1>2, LinesAre
  <2>3. start + 1 \in DOMAIN output
    <3> HIDE DEF start, end
    <3> QED
      BY <2>1, <2>2 DEF IsOutput
  <2> QED
    BY <1>1, <2>1, <2>3
<1>3. CASE ~(LinesOf(output, "start") # {} /\ LinesOf(output, "end") # {})
  <2>1. objects # {} /\ found = <<output[Min(objects)]>>
    BY <1>3, Zenon DEF extract_structured
  <2>2. objects \in SUBSET DOMAIN output /\ \A i \in objects : output[i].kind = "json"
    BY DEF LinesOf
  <2> HIDE DEF objects
  <2>3. Min(objects) \in objects
    BY <2>1, <2>2, EndsAreIn
  <2> QED
    BY <1>1, <2>1, <2>2, <2>3
<1> QED
  BY <1>2, <1>3

LEMMA DescriptorIs ==
  ASSUME NEW s \in Descriptors
  PROVE  /\ s \in [mode : {"batch", "game_server", "other"}, command : BOOLEAN, timeout : {0, 1, MaxTimeout},
                   parser : {"structured_json", "score_sum", "pytest_v", "other"},
                   selection : {"score_first", "pass_rate_first", "other"},
                   gateway : BOOLEAN, rescale : RescaleHints]
         /\ s.rescale \in RescaleHints
         /\ s.parser \in {"structured_json", "score_sum", "pytest_v", "other"}
<1>1. s \in [mode : {"batch", "game_server", "other"}, command : BOOLEAN, timeout : {0, 1, MaxTimeout},
             parser : {"structured_json", "score_sum", "pytest_v", "other"},
             selection : {"score_first", "pass_rate_first", "other"},
             gateway : BOOLEAN, rescale : RescaleHints]
  BY Zenon DEF Descriptors
<1> QED
  BY <1>1

LEMMA StructuredIsRatio ==
  ASSUME NEW s \in Descriptors, NEW output \in Outputs(s), StructuredScore(s, output) # NoScore
  PROVE  /\ Ratio(StructuredScore(s, output))
         /\ s.gateway => LinesOf(output, "json") # {}
<1> DEFINE found == extract_structured(output)
<1>1. IsOutput(s, output) /\ s.rescale \in RescaleHints
  BY OutputIs, DescriptorIs
<1>2. found # NoScore
  BY Zenon DEF StructuredScore
<1>3. CASE found = <<>>
  <2>1. ~s.gateway /\ StructuredScore(s, output) = ZeroScore
    BY <1>2, <1>3, Zenon DEF StructuredScore
  <2> QED
    BY <2>1, ZeroIsRatio, Zenon
<1>4. CASE found # <<>>
  <2>1. LinesOf(output, "json") # {} /\ IsJson(s, found[1])
    BY <1>1, <1>2, <1>4, StructuredIs
  <2>2. \/ /\ found[1].score # <<>>
           /\ StructuredScore(s, output) = normalize_raw(s.rescale, TotalLine(TRUE, found[1].score[1]))
        \/ /\ found[1].passRate # <<>>
           /\ StructuredScore(s, output) = Clamp(<<found[1].passRate[1], 1>>, 0, 1)
        \/ StructuredScore(s, output) = ZeroScore
    BY <1>2, <1>4, Zenon DEF StructuredScore
  <2> HIDE DEF found
  <2>3. ASSUME found[1].score # <<>>
        PROVE  Ratio(normalize_raw(s.rescale, TotalLine(TRUE, found[1].score[1])))
    <3>1. found[1].score[1] = 50
      BY <2>1, <2>3 DEF IsJson
    <3>2. 50 \in RawsOf(s.rescale)
      BY <2>1 DEF IsJson, RawsOf
    <3> QED
      BY <1>1, <3>1, <3>2, NormalizedIsRatio
  <2>4. ASSUME found[1].passRate # <<>>
        PROVE  Ratio(Clamp(<<found[1].passRate[1], 1>>, 0, 1))
    <3>1. found[1].passRate[1] = 2
      BY <2>1, <2>4 DEF IsJson
    <3>2. <<2, 1>> \in Fractions
      BY DEF Fractions
    <3>3. AtMost(<<0, 1>>, Clamp(<<2, 1>>, 0, 1)) /\ AtMost(Clamp(<<2, 1>>, 0, 1), <<1, 1>>)
      BY <3>2, ClampIsWithin
    <3> QED
      BY <3>1, <3>3, Zenon DEF Ratio, ZeroScore
  <2> QED
    BY <2>1, <2>2, <2>3, <2>4, ZeroIsRatio, Zenon
<1> QED
  BY <1>3, <1>4

LEMMA ParseIsRatio ==
  ASSUME NEW s \in Descriptors, NEW output \in Outputs(s), parse_score(s, output) # NoScore
  PROVE  /\ Ratio(parse_score(s, output))
         /\ s.gateway /\ s.parser = "structured_json" => LinesOf(output, "json") # {}
         /\ s.parser = "pytest_v" /\ LinesOf(output, "total") # {} =>
              parse_score(s, output) = parse_score([s EXCEPT !.selection = "score_first"], output)
<1> DEFINE total == extract_total_score(output)
<1>1. IsOutput(s, output) /\ s.rescale \in RescaleHints
  BY OutputIs, DescriptorIs
<1>2. LinesOf(output, "total") # {} <=> total # <<>>
  BY DEF extract_total_score
<1>3. total # <<>> => Ratio(normalize_raw(s.rescale, total[1]))
  BY <1>1, <1>2, TotalIsRatio
<1> HIDE DEF total
<1>4. CASE s.parser = "structured_json"
  <2>1. parse_score(s, output) = StructuredScore(s, output)
    BY <1>4 DEF parse_score
  <2> QED
    BY <1>4, <2>1, StructuredIsRatio
<1>5. CASE s.parser = "score_sum"
  <2>1. parse_score(s, output) = IF total = <<>> THEN normalize_raw(s.rescale, TotalLine(TRUE, 0))
                                 ELSE normalize_raw(s.rescale, total[1])
    BY <1>5 DEF parse_score, total
  <2>2. 0 \in RawsOf(s.rescale)
    BY DEF RawsOf
  <2>3. Ratio(normalize_raw(s.rescale, TotalLine(TRUE, 0)))
    BY <1>1, <2>2, NormalizedIsRatio
  <2> QED
    BY <1>3, <1>5, <2>1, <2>3
<1>6. CASE s.parser = "pytest_v"
  <2> DEFINE first == [s EXCEPT !.selection = "score_first"]
  <2>1. first.parser = "pytest_v" /\ first.rescale = s.rescale
    BY <1>6, DescriptorIs
  <2>2. ASSUME total = <<>> PROVE Ratio(parse_score(s, output))
    <3>1. parse_score(s, output) \in {pytest_ratio(output), ZeroScore}
      BY <1>6, <2>2 DEF parse_score, total
    <3> QED
      BY <1>1, <3>1, PassedIsRatio, ZeroIsRatio
  <2> HIDE DEF first
  <2>3. ASSUME total # <<>>
        PROVE  /\ parse_score(s, output) = normalize_raw(s.rescale, total[1])
               /\ parse_score(first, output) = normalize_raw(s.rescale, total[1])
    BY <1>6, <2>1, <2>3 DEF parse_score, total
  <2> QED
    BY <1>2, <1>3, <1>6, <2>2, <2>3 DEF first
<1>7. CASE s.parser = "other"
  BY <1>7 DEF parse_score
<1> QED
  BY <1>4, <1>5, <1>6, <1>7, DescriptorIs

(* A sum of 0 is worth nothing but under the rule that takes the smaller   *)
(* sum for the better one without a bound.                                 *)
LEMMA ZeroIsWorthNothing ==
  ASSUME NEW hint \in RescaleHints, hint.kind # "min_linear"
  PROVE  normalize_raw(hint, TotalLine(TRUE, 0))[1] = 0
<1> DEFINE q == PercentOf(hint, 0)
<1>1. q \in {ZeroScore, <<-100, 3>>}
  <2>1. CASE hint.kind = "none"
    BY <2>1 DEF PercentOf, ZeroScore
  <2>2. CASE hint.kind = "linear"
    <3>1. q = scale(100 * (0 - hint.at[1]), hint.at[2] - hint.at[1])
      BY <2>2 DEF PercentOf, Percent
    <3>2. hint.at = <<1, 4>> \/ hint.at = <<2, 2>>
      BY <2>2, HintIs
    <3>3. scale(100 * (0 - 1), 4 - 1) = <<-100, 3>> /\ scale(100 * (0 - 2), 2 - 2) = ZeroScore
      BY DEF scale, Fraction
    <3> HIDE DEF q
    <3> QED
      BY <3>1, <3>2, <3>3
  <2>3. CASE hint.kind \in {"min_linear_positive", "min_inverse_anchor", "compression_ratio_cropped_guarded",
                            "log_anchor", "log_max", "log_min", "log1p_max"}
    <3>1. \A a : (0 <= 0 \/ a) /\ ~(0 > 0) /\ 0 < 1 /\ 0 <= 1
      OBVIOUS
    <3>2. CASE hint.kind \in {"min_linear_positive", "min_inverse_anchor"}
      BY <3>1, <3>2 DEF PercentOf, Percent
    <3>3. CASE hint.kind \in {"compression_ratio_cropped_guarded", "log_anchor"}
      BY <3>1, <3>3 DEF PercentOf, Percent
    <3>4. CASE hint.kind \in {"log_max", "log_min", "log1p_max"}
      BY <3>1, <3>4 DEF PercentOf, Percent
    <3> QED
      BY <2>3, <3>2, <3>3, <3>4
  <2>4. CASE hint.kind \in {"piecewise_min", "piecewise_log_min"}
    <3>1. q = piecewise(0, hint.at, TRUE, hint.kind = "piecewise_log_min")
      BY <2>4 DEF PercentOf, Percent
    <3>2. piecewise(0, hint.at, TRUE, hint.kind = "piecewise_log_min") = ZeroScore
      <4>1. 0 <= 0
        OBVIOUS
      <4> QED
        BY <4>1, Zenon DEF piecewise
    <3> QED
      BY <3>1, <3>2
  <2>5. CASE hint.kind = "piecewise_max"
    <3>1. q = piecewise(0, hint.at, FALSE, FALSE) /\ hint.at = <<0, 2, 4, 8>>
      BY <2>5, HintIs DEF PercentOf, Percent
    <3>2. hint.at[1] = 0
      BY <3>1
    <3>3. piecewise(0, hint.at, FALSE, FALSE) = ZeroScore
      BY ONLY <3>2 DEF piecewise
    <3> QED
      BY <3>1, <3>3
  <2> QED
    BY <2>1, <2>2, <2>3, <2>4, <2>5, HintIs
<1>2. ASSUME NEW p \in {ZeroScore, <<-100, 3>>} PROVE Clamp(p, 0, 100) = <<0, 1>>
  <2>1. AtMost(<<0, 1>>, <<0, 1>>) /\ AtMost(<<-100, 3>>, <<0, 1>>)
    BY DEF AtMost
  <2>2. AtMost(p, <<0, 1>>)
    BY <2>1 DEF ZeroScore
  <2> QED
    BY <2>2, Zenon DEF Clamp
<1>3. q \in Fractions
  BY <1>1 DEF Fractions, ZeroScore
<1>4. Clamp(q, 0, 100) = <<0, 1>>
  BY <1>1, <1>2
<1> HIDE DEF q
<1>5. normalize_raw(hint, TotalLine(TRUE, 0)) = <<Clamp(q, 0, 100)[1], 100 * Clamp(q, 0, 100)[2]>>
  BY <1>3, NormalizedIs, Zenon DEF q
<1>6. <<0, 1>>[1] = 0
  OBVIOUS
<1>7. Clamp(q, 0, 100)[1] = 0
  BY <1>4, <1>6, Zenon
<1> DEFINE score == normalize_raw(hint, TotalLine(TRUE, 0))
           x == Clamp(q, 0, 100)[1]
           y == 100 * Clamp(q, 0, 100)[2]
<1>8. score = <<x, y>> /\ x = 0
  BY <1>5, <1>7, Zenon
<1> HIDE DEF score, x, y
<1>9. score[1] = 0
  BY ONLY <1>8
<1> QED
  BY <1>9 DEF score

(* A Judge that was not reached has printed nothing.                       *)
LEMMA NothingEarnsNothing ==
  ASSUME NEW s \in Descriptors, parse_score(s, <<>>) # NoScore
  PROVE  parse_score(s, <<>>)[1] = 0 \/ (s.parser = "score_sum" /\ s.rescale.kind = "min_linear")
<1>1. \A kind : LinesOf(<<>>, kind) = {}
  BY DEF LinesOf
<1>2. ZeroScore[1] = 0
  BY DEF ZeroScore
<1>3. extract_total_score(<<>>) = <<>>
  BY <1>1 DEF extract_total_score
<1>4. CASE s.parser = "structured_json"
  <2>1. parse_score(s, <<>>) = StructuredScore(s, <<>>)
    BY <1>4 DEF parse_score
  <2>2. extract_structured(<<>>) = <<>>
    BY <1>1 DEF extract_structured
  <2>3. StructuredScore(s, <<>>) \in {NoScore, ZeroScore}
    BY <2>2 DEF StructuredScore
  <2> QED
    BY <1>2, <2>1, <2>3
<1>5. CASE s.parser = "score_sum"
  <2>1. parse_score(s, <<>>) = normalize_raw(s.rescale, TotalLine(TRUE, 0))
    BY <1>3, <1>5 DEF parse_score
  <2> QED
    BY <1>5, <2>1, DescriptorIs, ZeroIsWorthNothing
<1>6. CASE s.parser = "pytest_v"
  <2>1. pytest_ratio(<<>>) = ZeroScore
    BY <1>1 DEF pytest_ratio
  <2>2. parse_score(s, <<>>) = ZeroScore
    BY <1>3, <1>6, <2>1 DEF parse_score
  <2> QED
    BY <1>2, <2>2
<1>7. CASE s.parser = "other"
  BY <1>7 DEF parse_score
<1> QED
  BY <1>4, <1>5, <1>6, <1>7, DescriptorIs

-----------------------------------------------------------------------------
(* A run with a legacy Judge, by itself.                                   *)
JudgeSpec == JudgeInit /\ [][JudgeNext]_judgeVars

Over == {"done", "failed"}

(* A batch Judge that has not run has no score, and one that runs with a   *)
(* model has been given an address it can reach.                           *)
BatchInStep ==
  /\ judgePc \in {"network", "server", "ready", "finish"} => judgeSource.mode # "batch"
  /\ judgeSource.mode = "batch" /\ judgePc \notin Over => judgeVerdict = NoScore
  /\ judgePc = "run" /\ judgeSource.gateway => judgeUrl.host # "local"

(* What of the game server there may be in Docker by now.                  *)
Undone == gameBox = "none" /\ ~gameNet

BoxGone == gameBox # "none" => "container" \in gameLost
NetGone == gameNet => "network" \in gameLost

GameInStep ==
  /\ judgePc \in {"load", "network", "gateway", "run"} => Undone
  /\ judgePc = "candidate" /\ judgeSource.mode = "batch" => Undone
  /\ judgePc = "server" => gameBox = "none"
  /\ judgePc = "drop network" => BoxGone
  /\ judgePc \in Over => BoxGone /\ NetGone

JudgeInv ==
  /\ judgeSource \in Descriptors
  /\ judgeVerdict # NoScore => Ratio(judgeVerdict)
  /\ ScoreIsEarned
  /\ BatchInStep
  /\ GameInStep

LEMMA JudgeInvStarts == JudgeInit => JudgeInv
  BY DEF JudgeInit, JudgeInv, ScoreIsEarned, BatchInStep, GameInStep, Undone, BoxGone, NetGone, Over

LEMMA ReachableUrl ==
  ASSUME NEW url \in Urls, container_base_url(url) # NoScore
  PROVE  container_base_url(url).host # "local"
<1>1. container_base_url(url) = [host |-> IF url.host = "local" THEN "host.docker.internal" ELSE url.host,
                                 path |-> IF url.root THEN "/v1" ELSE "own"]
  BY Zenon DEF container_base_url
<1>2. container_base_url(url).host = IF url.host = "local" THEN "host.docker.internal" ELSE url.host
  BY ONLY <1>1
<1> QED
  BY <1>2

(* A batch Judge has run: its score is a ratio and was earned.             *)
LEMMA BatchKeeps == ASSUME JudgeInv, RunBatchJudge PROVE JudgeInv'
<1> DEFINE class == classify_judge_exit(judgeSource, judgeExit')
           score == parse_score(judgeSource, judgeOutput')
<1>0. /\ judgeExit' \in ExitCodes /\ judgeOutput' \in Outputs(judgeSource)
      /\ ~judgeReached' => judgeExit' \in UnreachedCodes /\ judgeOutput' = <<>>
  <2>1. <<>> \in Outputs(judgeSource)
    BY DEF Outputs
  <2>2. UnreachedCodes \subseteq ExitCodes
    BY DEF UnreachedCodes, ExitCodes
  <2> QED
    BY <2>1, <2>2 DEF RunBatchJudge
<1>1. /\ judgePc = "run" /\ judgeExit' \in ExitCodes /\ judgeOutput' \in Outputs(judgeSource)
      /\ UNCHANGED <<judgeSource, judgeUrl, gameNet, gameBox, gameLost>>
      /\ judgePc' \in Over /\ judgeSource \in Descriptors
  BY <1>0 DEF RunBatchJudge, JudgeGoes, gameVars, JudgeInv, Over
<1>2. \/ class = "Completed" /\ judgeVerdict' = score
      \/ class = "CandidateTimeout" /\ judgeVerdict' = ZeroScore
      \/ judgeVerdict' = NoScore
  <2>1. judgeVerdict' = CASE class = "Completed" -> score
                          [] class = "CandidateTimeout" -> ZeroScore
                          [] OTHER -> NoScore
    BY DEF RunBatchJudge
  <2> HIDE DEF class, score
  <2> QED
    BY ONLY <2>1
<1>3. /\ class = "Completed" => judgeExit' \in {0, 1, 2, 139}
      /\ class = "CandidateTimeout" => judgeExit' = 124 /\ ~judgeSource.gateway
  BY <1>1 DEF classify_judge_exit, ExitCodes
<1>4. class = "Completed" /\ score # NoScore =>
        /\ Ratio(score)
        /\ judgeSource.gateway /\ judgeSource.parser = "structured_json" => LinesOf(judgeOutput', "json") # {}
        /\ judgeSource.parser = "pytest_v" /\ LinesOf(judgeOutput', "total") # {} =>
             score = parse_score([judgeSource EXCEPT !.selection = "score_first"], judgeOutput')
  BY <1>1, ParseIsRatio
<1>5. judgeSource.gateway => judgeUrl.host # "local"
  BY <1>1 DEF JudgeInv, BatchInStep
<1>9. ~judgeReached' /\ class \in {"Completed", "CandidateTimeout"} /\ score # NoScore =>
        /\ class = "Completed"
        /\ score[1] = 0 \/ (judgeSource.parser = "score_sum" /\ judgeSource.rescale.kind = "min_linear")
  <2> SUFFICES ASSUME ~judgeReached', class \in {"Completed", "CandidateTimeout"}, score # NoScore
               PROVE  /\ class = "Completed"
                      /\ score[1] = 0 \/ (judgeSource.parser = "score_sum" /\ judgeSource.rescale.kind = "min_linear")
    OBVIOUS
  <2>1. judgeExit' # 124 /\ judgeOutput' = <<>>
    BY <1>0 DEF UnreachedCodes
  <2>2. class = "Completed"
    BY <1>3, <2>1
  <2>3. score = parse_score(judgeSource, <<>>)
    BY <2>1
  <2> HIDE DEF score, class
  <2> QED
    BY <1>1, <2>2, <2>3, NothingEarnsNothing
<1>10. ~judgeReached' => class # "CandidateTimeout"
  BY <1>0, <1>3 DEF UnreachedCodes
<1> HIDE DEF class
<1>6. judgeVerdict' # NoScore => Ratio(judgeVerdict')
  <2> HIDE DEF score
  <2> QED
    BY <1>2, <1>4, ZeroIsRatio
<1>7. ScoreIsEarned'
  <2> SUFFICES ASSUME judgeVerdict' # NoScore
               PROVE  /\ judgeExit' \in {0, 1, 2, 124, 139}
                      /\ judgeSource.gateway =>
                           /\ judgeExit' # 124 /\ judgeUrl.host # "local"
                           /\ judgeSource.parser = "structured_json" => LinesOf(judgeOutput', "json") # {}
                      /\ ~judgeReached' =>
                           \/ judgeVerdict'[1] = 0
                           \/ judgeSource.parser = "score_sum" /\ judgeSource.rescale.kind = "min_linear"
                      /\ judgeExit' # 124 /\ judgeSource.parser = "pytest_v" /\ LinesOf(judgeOutput', "total") # {} =>
                           judgeVerdict' = parse_score([judgeSource EXCEPT !.selection = "score_first"], judgeOutput')
    BY <1>1 DEF ScoreIsEarned, LinesOf
  <2> HIDE DEF score
  <2> QED
    BY <1>2, <1>3, <1>4, <1>5, <1>9, <1>10
<1>8. BatchInStep' /\ GameInStep'
  BY <1>1 DEF BatchInStep, GameInStep, JudgeInv, Undone, BoxGone, NetGone, Over
<1> QED
  BY <1>1, <1>6, <1>7, <1>8 DEF JudgeInv

LEMMA FinishKeeps == ASSUME JudgeInv, FinishGame PROVE JudgeInv'
<1>1. /\ judgePc = "finish" /\ judgePc' = "drop" /\ judgeSource \in Descriptors
      /\ UNCHANGED <<judgeSource, judgeUrl, judgeReached, judgeOutput, judgeExit, gameNet, gameBox, gameLost>>
      /\ judgeSource.mode # "batch" /\ judgeSource.rescale \in RescaleHints
  BY DescriptorIs DEF FinishGame, JudgeGoes, batchVars, gameVars, JudgeInv, BatchInStep
<1>2. judgeVerdict' # NoScore => Ratio(judgeVerdict')
  <2>1. CASE UNCHANGED judgeVerdict
    BY <2>1 DEF JudgeInv
  <2>2. ASSUME NEW h \in Histories(judgeSource),
               judgeVerdict' = IF parse_game_history(h) = NoScore THEN NoScore
                               ELSE normalize_raw(judgeSource.rescale, TotalLine(TRUE, h.best))
        PROVE  <1>2
    <3>1. h.best \in RawsOf(judgeSource.rescale)
      BY DEF Histories
    <3>2. Ratio(normalize_raw(judgeSource.rescale, TotalLine(TRUE, h.best)))
      BY <1>1, <3>1, NormalizedIsRatio
    <3> QED
      BY <2>2, <3>2, Zenon
  <2> QED
    BY <2>1, <2>2, Zenon DEF FinishGame
<1>3. ScoreIsEarned' /\ BatchInStep' /\ GameInStep'
  BY <1>1 DEF ScoreIsEarned, BatchInStep, GameInStep, Over
<1> QED
  BY <1>1, <1>2, <1>3 DEF JudgeInv

(* The other steps neither run the Judge nor score.                        *)
LEMMA UnscoredKeeps ==
  ASSUME JudgeInv, judgePc \notin Over,
         UNCHANGED <<judgeSource, judgeVerdict, judgeReached, judgeOutput, judgeExit>>,
         BatchInStep', GameInStep'
  PROVE  JudgeInv'
<1>1. judgeSource.mode = "batch" => judgeVerdict = NoScore
  BY DEF JudgeInv, BatchInStep
<1> QED
  BY <1>1 DEF JudgeInv, ScoreIsEarned

LEMMA JudgeInvStays == JudgeInv /\ [JudgeNext]_judgeVars => JudgeInv'
<1> SUFFICES ASSUME JudgeInv, [JudgeNext]_judgeVars PROVE JudgeInv'
  OBVIOUS
<1>1. CASE RunBatchJudge
  BY <1>1, BatchKeeps
<1>2. CASE FinishGame
  BY <1>2, FinishKeeps
<1> USE DEF JudgeGoes, batchVars, gameVars
<1>3. CASE LoadSource \/ CreateGameNetwork \/ StartGameServer \/ WaitReady \/ DropContainer \/ DropNetwork
  <2>1. judgePc \notin Over /\ UNCHANGED <<judgeSource, judgeVerdict, judgeReached, judgeOutput, judgeExit>>
    BY <1>3 DEF LoadSource, CreateGameNetwork, StartGameServer, WaitReady, DropContainer, DropNetwork, Over
  <2>2. BatchInStep /\ GameInStep
    BY DEF JudgeInv
  <2>3. CASE LoadSource
    <3>1. \/ judgePc' = "failed"
          \/ judgePc' = "network" /\ judgeSource.mode # "batch"
          \/ judgePc' = "candidate"
      BY <2>3 DEF LoadSource
    <3>2. judgePc = "load" /\ UNCHANGED <<gameNet, gameBox, gameLost>>
      BY <2>3 DEF LoadSource
    <3> QED
      BY <2>1, <2>2, <3>1, <3>2, UnscoredKeeps DEF BatchInStep, GameInStep, Undone, BoxGone, NetGone, Over
  <2>4. CASE CreateGameNetwork
    <3>1. BatchInStep' /\ GameInStep'
      BY <2>1, <2>2, <2>4 DEF CreateGameNetwork, BatchInStep, GameInStep, Undone, BoxGone, NetGone, Over
    <3> QED
      BY <2>1, <3>1, UnscoredKeeps
  <2>5. CASE StartGameServer
    <3>1. BatchInStep' /\ GameInStep'
      BY <2>1, <2>2, <2>5 DEF StartGameServer, BatchInStep, GameInStep, Undone, BoxGone, NetGone, Over
    <3> QED
      BY <2>1, <3>1, UnscoredKeeps
  <2>6. CASE WaitReady
    <3>1. judgePc = "ready" /\ judgePc' \in {"candidate", "drop", "ready"} /\ UNCHANGED <<gameNet, gameBox, gameLost>>
      BY <2>6 DEF WaitReady
    <3>2. BatchInStep' /\ GameInStep'
      BY <2>1, <2>2, <3>1 DEF BatchInStep, GameInStep, Undone, BoxGone, NetGone, Over
    <3> QED
      BY <2>1, <3>2, UnscoredKeeps
  <2>7. CASE DropContainer
    <3>1. BatchInStep' /\ GameInStep'
      BY <2>1, <2>2, <2>7 DEF DropContainer, BatchInStep, GameInStep, Undone, BoxGone, NetGone, Over
    <3> QED
      BY <2>1, <3>1, UnscoredKeeps
  <2>8. CASE DropNetwork
    <3>1. judgePc = "drop network" /\ judgePc' \in Over
      BY <2>8 DEF DropNetwork, Over
    <3>2. BoxGone' /\ NetGone'
      BY <2>2, <2>8, <3>1 DEF DropNetwork, GameInStep, BoxGone, NetGone
    <3>3. BatchInStep' /\ GameInStep'
      BY <2>1, <2>2, <3>1, <3>2 DEF BatchInStep, GameInStep, Undone, BoxGone, NetGone, Over
    <3> QED
      BY <2>1, <3>3, UnscoredKeeps
  <2> QED
    BY <1>3, <2>3, <2>4, <2>5, <2>6, <2>7, <2>8
<1>4. CASE CandidateEnds
  <2>1. judgePc = "candidate" /\ judgePc \notin Over /\ UNCHANGED <<judgeSource, judgeVerdict, judgeReached, judgeOutput, judgeExit, gameNet, gameBox, gameLost>>
    BY <1>4 DEF CandidateEnds, Over
  <2>2. BatchInStep /\ GameInStep
    BY DEF JudgeInv
  <2>0. \/ judgePc' = "gateway" /\ judgeSource.mode = "batch"
        \/ judgePc' = "finish" /\ judgeSource.mode # "batch"
        \/ judgePc' = "drop"
    BY <1>4 DEF CandidateEnds
  <2>3. BatchInStep' /\ GameInStep'
    BY <2>0, <2>1, <2>2 DEF BatchInStep, GameInStep, Undone, BoxGone, NetGone, Over
  <2> QED
    BY <2>1, <2>3, UnscoredKeeps
<1>5. CASE ConfigureGateway
  <2>1. /\ judgePc = "gateway" /\ judgePc \notin Over
        /\ UNCHANGED <<judgeSource, judgeVerdict, judgeReached, judgeOutput, judgeExit, gameNet, gameBox, gameLost>>
    BY <1>5 DEF ConfigureGateway, Over
  <2>2. \/ judgePc' = "drop"
        \/ judgePc' = "run" /\ (judgeSource.gateway => judgeUrl'.host # "local")
    <3>1. CASE judgeSource.gateway
      <4>1. PICK url \in Urls :
              IF container_base_url(url) = NoScore \/ judgeSource.timeout + Grace > MaxTimeout
              THEN judgePc' = "drop" /\ UNCHANGED judgeUrl
              ELSE judgePc' = "run" /\ judgeUrl' = container_base_url(url)
        BY <1>5, <3>1, Zenon DEF ConfigureGateway
      <4>2. judgePc' = "drop" \/ (judgePc' = "run" /\ judgeUrl' = container_base_url(url) /\ container_base_url(url) # NoScore)
        BY <4>1, Zenon
      <4> QED
        BY <4>2, ReachableUrl, Zenon
    <3>2. CASE ~judgeSource.gateway
      BY <1>5, <3>2, Zenon DEF ConfigureGateway
    <3> QED
      BY <3>1, <3>2
  <2>3. BatchInStep /\ GameInStep
    BY DEF JudgeInv
  <2>4. BatchInStep' /\ GameInStep'
    BY <2>1, <2>2, <2>3 DEF BatchInStep, GameInStep, Undone, BoxGone, NetGone, Over
  <2> QED
    BY <2>1, <2>4, UnscoredKeeps
<1>6. CASE UNCHANGED judgeVars
  <2>1. UNCHANGED <<judgeSource, judgePc, judgeUrl, judgeReached, judgeOutput, judgeExit, judgeVerdict,
                    gameNet, gameBox, gameLost>>
    BY <1>6, Zenon DEF judgeVars
  <2>2. BatchInStep' /\ GameInStep'
    BY <2>1 DEF JudgeInv, BatchInStep, GameInStep, Undone, BoxGone, NetGone, Over
  <2>3. ScoreIsEarned'
    BY <2>1 DEF JudgeInv, ScoreIsEarned, LinesOf
  <2> QED
    BY <2>1, <2>2, <2>3 DEF JudgeInv
<1> QED
  BY <1>1, <1>2, <1>3, <1>4, <1>5, <1>6 DEF JudgeNext

(* Whichever step of a run with a legacy Judge fails, its score is within  *)
(* bounds, fair by every rule and earned, a copy that failed being worth   *)
(* nothing but under one rule; container and network of a game are gone    *)
(* unless the removal of that one failed or a failed create made it.       *)
THEOREM JudgesAreSound == JudgeSpec => []JudgeIsSound
<1>1. JudgeInv => JudgeIsSound
  <2> SUFFICES ASSUME JudgeInv PROVE JudgeIsSound
    OBVIOUS
  <2>1. judgeSource.rescale \in RescaleHints
    BY DescriptorIs DEF JudgeInv
  <2>2. ASSUME NEW raw \in RawsOf(judgeSource.rescale), NEW than \in RawsOf(judgeSource.rescale),
               NotWorse(judgeSource.rescale, raw, than)
        PROVE  AtMost(normalize_raw(judgeSource.rescale, TotalLine(TRUE, than)),
                      normalize_raw(judgeSource.rescale, TotalLine(TRUE, raw)))
    BY <2>1, <2>2, RulesAreFair, FairIsFair
  <2>3. judgeVerdict # NoScore => AtMost(ZeroScore, judgeVerdict) /\ AtMost(judgeVerdict, <<1, 1>>)
    BY DEF JudgeInv, Ratio
  <2>4. ScoringIsFair
    BY <2>2, <2>3, Zenon DEF ScoringIsFair
  <2> QED
    BY <2>4 DEF JudgeInv, JudgeIsSound, GameInStep, Undone, BoxGone, NetGone, Over
<1> QED
  BY <1>1, JudgeInvStarts, JudgeInvStays, PTL DEF JudgeSpec
=============================================================================
