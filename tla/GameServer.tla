----------------------------- MODULE GameServer -----------------------------
(***************************************************************************)
(* The game server of a protected game Judge                               *)
(* (runtime_assets/game_server_app.py) and the end of its use,             *)
(* GameSession::finish (src/game_judge.rs).  Requests are served by        *)
(* threads; state.lock guards the registry of sessions and the history,    *)
(* session.lock one game, and new_lock is held over a whole /new.  What    *)
(* happens under state.lock or session.lock is one step here.              *)
(*                                                                         *)
(* A game is known by its number; session ids are taken to be unique.  The *)
(* game engine is outside the repository: it scores as it likes and may    *)
(* raise an exception.                                                     *)
(***************************************************************************)
EXTENDS Integers, FiniteSets, Sequences

CONSTANTS
  Threads,
  MaxActive,  \* --max-active-sessions
  Lingers,    \* may requests still come in when the Candidate's time is over?
  Scores,     \* what the engine may report, below 0 too
  MaxGames,   \* bound: games started
  MaxMoves,   \* bound: moves of one game
  Nil

ASSUME ActiveAssumption == MaxActive \in Nat \ {0}
ASSUME LingersAssumption == Lingers \in BOOLEAN
ASSUME NilIsNoThread == Nil \notin Threads
ASSUME ScoreAssumption == Scores \subseteq Int /\ 0 \in Scores

VARIABLES
  game,     \* the GameSessionState objects, by game number
  sessions, \* state.sessions: the games, inserted in the order of their numbers
  history,  \* state.history
  newLock,  \* the thread that holds new_lock, or Nil
  thread,   \* what each thread is serving
  judge,    \* GameSession::finish, the caller of /close-all and /history
  result    \* the history it read, or Nil

vars == <<game, sessions, history, newLock, thread, judge, result>>

Games == DOMAIN game

(* Mutated form: a game has no score before its first move.                *)
NewGameUnscored == [score |-> Nil, peak |-> Nil, moves |-> 0, done |-> FALSE, open |-> TRUE]

NewGame == [score |-> 0, peak |-> 0, moves |-> 0, done |-> FALSE, open |-> TRUE]
Entry(g) == [game |-> g, score |-> game[g].score, peak |-> game[g].peak, moves |-> game[g].moves]

(* A thread serves nothing, or has come to a step of a handler, about one  *)
(* game if `on` is not 0; finish() has taken some games out of the registry *)
(* and has yet to archive them.                                            *)
Idle == [at |-> "idle", on |-> 0, entry |-> Nil]
Unasked == [at |-> "idle", games |-> {}, entry |-> Nil]

Oldest(games) == {g \in games : \A h \in games : g <= h}

Init ==
  /\ game = <<>>
  /\ sessions = {}
  /\ history = <<>>
  /\ newLock = Nil
  /\ thread = [t \in Threads |-> Idle]
  /\ judge = Unasked
  /\ result = Nil

-----------------------------------------------------------------------------
At(t, here) == thread[t].at = here
Goes(t, there) == thread' = [thread EXCEPT ![t] = there]

(* Mutated form: /new does not wait for new_lock.                          *)
StartNewUnlocked(t) ==
  /\ At(t, "idle")
  /\ Len(game) < MaxGames
  /\ newLock' = t
  /\ \/ /\ Cardinality(sessions) >= MaxActive
        /\ \E g \in Oldest(sessions) :
             /\ sessions' = sessions \ {g}
             /\ Goes(t, [Idle EXCEPT !.at = "archive", !.on = g])
     \/ /\ Cardinality(sessions) < MaxActive
        /\ UNCHANGED sessions
        /\ Goes(t, [Idle EXCEPT !.at = "create"])
  /\ UNCHANGED <<game, history, judge, result>>

(* /new takes new_lock; a full registry gives up its oldest session.       *)
StartNew(t) ==
  /\ At(t, "idle")
  /\ newLock = Nil
  /\ Len(game) < MaxGames
  /\ newLock' = t
  /\ \/ /\ Cardinality(sessions) >= MaxActive
        /\ \E g \in Oldest(sessions) :
             /\ sessions' = sessions \ {g}
             /\ Goes(t, [Idle EXCEPT !.at = "archive", !.on = g])
     \/ /\ Cardinality(sessions) < MaxActive
        /\ UNCHANGED sessions
        /\ Goes(t, [Idle EXCEPT !.at = "create"])
  /\ UNCHANGED <<game, history, judge, result>>

(* The environment starts, or raises and is closed.                        *)
CreateGame(t) ==
  /\ At(t, "create")
  /\ Goes(t, Idle)
  /\ newLock' = Nil
  /\ \/ /\ game' = Append(game, NewGame)
        /\ sessions' = sessions \cup {Len(game) + 1}
     \/ UNCHANGED <<game, sessions>>
  /\ UNCHANGED <<history, judge, result>>

(* /step looks its session up ...                                          *)
StartStep(t) == \E g \in sessions :
  /\ At(t, "idle")
  /\ Goes(t, [Idle EXCEPT !.at = "play", !.on = g])
  /\ UNCHANGED <<game, sessions, history, newLock, judge, result>>

(* Mutated form: the handler does not ask whether the game is over.        *)
PlayOn(t) ==
  LET g == thread[t].on
  IN  /\ At(t, "play")
      /\ game[g].moves < MaxMoves
      /\ \E score \in Scores, done \in BOOLEAN :
           /\ game' = [game EXCEPT ![g].score = score, ![g].moves = @ + 1, ![g].done = done,
                                   ![g].peak = IF score > @ THEN score ELSE @]
           /\ Goes(t, IF done THEN [thread[t] EXCEPT !.at = "retire"] ELSE Idle)
      /\ UNCHANGED <<sessions, history, newLock, judge, result>>

(* ... and plays under the session's lock: the game may be over by now,    *)
(* and the engine may raise before or after the move is counted.           *)
Play(t) ==
  LET g == thread[t].on
  IN  /\ At(t, "play")
      /\ \/ /\ game[g].done \/ ~game[g].open
            /\ Goes(t, Idle)
            /\ UNCHANGED game
         \/ /\ ~game[g].done /\ game[g].open /\ game[g].moves < MaxMoves
            /\ \E score \in Scores, done \in BOOLEAN :
                 /\ game' = [game EXCEPT ![g].score = score, ![g].moves = @ + 1, ![g].done = done,
                                         ![g].peak = IF score > @ THEN score ELSE @]
                 /\ Goes(t, IF done THEN [thread[t] EXCEPT !.at = "retire"] ELSE Idle)
         \/ /\ ~game[g].done /\ game[g].open
            /\ Goes(t, Idle)
            /\ \/ UNCHANGED game
               \/ /\ game[g].moves < MaxMoves
                  /\ \E done \in BOOLEAN :
                       game' = [game EXCEPT ![g].moves = @ + 1, ![g].done = done]
      /\ UNCHANGED <<sessions, history, newLock, judge, result>>

(* Mutated form: whoever ended the game archives it.                       *)
RetireAlways(t) ==
  LET g == thread[t].on
  IN  /\ At(t, "retire")
      /\ sessions' = sessions \ {g}
      /\ Goes(t, [thread[t] EXCEPT !.at = "archive"])
      /\ UNCHANGED <<game, history, newLock, judge, result>>

(* Mutated form: the handler insists on taking the game out itself.        *)
RetireInsists(t) ==
  /\ At(t, "retire")
  /\ thread[t].on \in sessions
  /\ sessions' = sessions \ {thread[t].on}
  /\ Goes(t, [thread[t] EXCEPT !.at = "archive"])
  /\ UNCHANGED <<game, history, newLock, judge, result>>

(* A game that is over leaves the registry, unless someone else took it.   *)
Retire(t) ==
  LET g == thread[t].on
  IN  /\ At(t, "retire")
      /\ IF g \in sessions
           THEN /\ sessions' = sessions \ {g}
                /\ Goes(t, [thread[t] EXCEPT !.at = "archive"])
           ELSE /\ UNCHANGED sessions
                /\ Goes(t, Idle)
      /\ UNCHANGED <<game, history, newLock, judge, result>>

(* /close.                                                                 *)
Close(t) == \E g \in sessions :
  /\ At(t, "idle")
  /\ sessions' = sessions \ {g}
  /\ Goes(t, [Idle EXCEPT !.at = "archive", !.on = g])
  /\ UNCHANGED <<game, history, newLock, judge, result>>

-----------------------------------------------------------------------------
(* archive_session: the entry is made and the environment closed under     *)
(* session.lock ...                                                        *)
Shut(g) == game' = [game EXCEPT ![g].open = FALSE]

Seal(t) ==
  /\ At(t, "archive")
  /\ Goes(t, [thread[t] EXCEPT !.at = "append", !.entry = Entry(thread[t].on)])
  /\ Shut(thread[t].on)
  /\ UNCHANGED <<sessions, history, newLock, judge, result>>

(* ... and joins the history under state.lock.  A /new goes on to create   *)
(* its game.                                                               *)
Join(t) ==
  /\ At(t, "append")
  /\ Goes(t, IF newLock = t THEN [Idle EXCEPT !.at = "create"] ELSE Idle)
  /\ history' = Append(history, thread[t].entry)
  /\ UNCHANGED <<game, sessions, newLock, judge, result>>

-----------------------------------------------------------------------------
(* GameSession::finish: /close-all, one session after the other ...        *)
JudgeAt(here) == judge.at = here

(* Where /close-all goes with these games left.                            *)
Remaining(games) ==
  [Unasked EXCEPT !.at = IF games = {} THEN "read" ELSE "archive", !.games = games]

CloseAll ==
  /\ JudgeAt("idle")
  /\ judge' = Remaining(sessions)
  /\ sessions' = {}
  /\ UNCHANGED <<game, history, newLock, thread, result>>

SealAll ==
  /\ JudgeAt("archive")
  /\ \E g \in Oldest(judge.games) :
       /\ judge' = [judge EXCEPT !.at = "append", !.entry = Entry(g)]
       /\ Shut(g)
  /\ UNCHANGED <<sessions, history, newLock, thread, result>>

JoinAll ==
  /\ JudgeAt("append")
  /\ judge' = Remaining(judge.games \ {judge.entry.game})
  /\ history' = Append(history, judge.entry)
  /\ UNCHANGED <<game, sessions, newLock, thread, result>>

(* ... then /history.  The server is removed once it is read.              *)
ReadHistory ==
  /\ JudgeAt("read")
  /\ judge' = [Unasked EXCEPT !.at = "done"]
  /\ result' = history
  /\ UNCHANGED <<game, sessions, history, newLock, thread>>

(* Mutated form: the last game counts.                                     *)
RawOfLast(entries) == IF entries = <<>> THEN 0 ELSE entries[Len(entries)].score

(* parse_game_history: the first entry with the best final score.          *)
Raw(entries) ==
  IF entries = <<>> THEN 0
  ELSE CHOOSE s \in {entries[i].score : i \in DOMAIN entries} :
         \A i \in DOMAIN entries : entries[i].score <= s

-----------------------------------------------------------------------------
(* A Candidate's container is removed before finish() begins, and with it  *)
(* the sender of requests; the sandbox of a model Candidate that ran out   *)
(* of time is not.                                                         *)
Request(t) ==
  /\ Lingers \/ JudgeAt("idle")
  /\ StartNew(t) \/ StartStep(t) \/ Close(t)
Serve(t) == CreateGame(t) \/ Play(t) \/ Retire(t) \/ Seal(t) \/ Join(t)
Finish == SealAll \/ JoinAll \/ ReadHistory

Serving == judge.at # "done"
Finished == ~Serving /\ UNCHANGED vars

Next ==
  \/ Serving /\ \E t \in Threads : Request(t) \/ Serve(t)
  \/ CloseAll \/ Finish \/ Finished

Spec == Init /\ [][Next]_vars

(* A thread goes on with its handler, and finish() with its two requests.  *)
FairSpec == Spec /\ (\A t \in Threads : WF_vars(Serving /\ Serve(t))) /\ WF_vars(Finish)

-----------------------------------------------------------------------------
(* Properties.                                                             *)
GameStates == [score : Scores, peak : Scores, moves : Nat, done : BOOLEAN, open : BOOLEAN]
Entries == [game : Nat \ {0}, score : Scores, peak : Scores, moves : Nat]
Steps == {"idle", "create", "play", "retire", "archive", "append"}
ThreadStates == [at : Steps, on : Nat, entry : Entries \cup {Nil}]
JudgeStates ==
  [at : {"idle", "archive", "append", "read", "done"},
   games : SUBSET Games, entry : Entries \cup {Nil}]

(* Every variable keeps its type.                                          *)
TypeOK ==
  /\ game \in Seq(GameStates)
  /\ sessions \subseteq Games
  /\ history \in Seq(Entries)
  /\ newLock \in Threads \cup {Nil}
  /\ thread \in [Threads -> ThreadStates]
  /\ judge \in JudgeStates
  /\ result \in Seq(Entries) \cup {Nil}

(* Those that took game g out of the registry and will archive it; Nil     *)
(* stands for finish().                                                    *)
Archivers(g) ==
  {t \in Threads : thread[t].at \in {"archive", "append"} /\ thread[t].on = g}
  \cup (IF g \in judge.games THEN {Nil} ELSE {})

Archived(g) == {i \in DOMAIN history : history[i].game = g}

(* A game that was started is in the registry, or one handler is about to  *)
(* archive it, or it is archived: always one of these, never two, and once *)
(* only, whichever of eviction, the last move, /close and /close-all comes *)
(* first.                                                                  *)
EveryGameOnce == \A g \in Games :
  /\ g \in sessions \/ Archivers(g) # {} \/ Archived(g) # {}
  /\ g \in sessions => Archivers(g) = {} /\ Archived(g) = {}
  /\ Archivers(g) # {} => Archived(g) = {}
  /\ \A x, y \in Archivers(g) : x = y
  /\ \A i, j \in Archived(g) : i = j

(* An archived entry is what the game ended with: no move a slow request   *)
(* makes afterwards changes the game behind it.                            *)
ArchiveIsFinal == \A i \in DOMAIN history : history[i] = Entry(history[i].game)

(* Never are more sessions active than the run allows, however many /new   *)
(* requests wait for their environments to start.                          *)
CapacityKept == Cardinality(sessions) <= MaxActive

(* The score of the Judge is the best of every game but those a request in *)
(* flight has yet to archive or started after /close-all.                  *)
BestOfArchived == judge.at = "done" =>
  \A g \in Games : Archivers(g) = {} /\ g \notin sessions => game[g].score <= Raw(result)

(* What the server is to the Judge, whatever threads, registry and locks do.*)
PlayedGames == [g \in Games |-> [score |-> game[g].score, peak |-> game[g].peak, moves |-> game[g].moves]]
RawReported == IF result = Nil THEN Nil ELSE Raw(result)

Archive == INSTANCE GameArchive WITH
  played <- PlayedGames, archive <- history, reported <- RawReported

(* The server keeps the promise of GameArchive: a game is played until it  *)
(* is archived, with what it ended with and once, and the Judge takes the  *)
(* best score that is archived when it asks.                               *)
ImplementsArchive == Archive!ArchiveSpec

(* Every request that was begun is answered, unless the server is removed  *)
(* first, and finish() ends.                                               *)
Answered ==
  /\ \A t \in Threads : thread[t].at # "idle" ~> thread[t].at = "idle" \/ ~Serving
  /\ judge.at # "idle" ~> judge.at = "done"

(* The prompt: the best score across all game sessions is the result.      *)
BestScoreCounts == judge.at = "done" => \A g \in Games : game[g].score <= Raw(result)
=============================================================================
