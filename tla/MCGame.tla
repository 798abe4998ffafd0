------------------------------- MODULE MCGame -------------------------------
(***************************************************************************)
(* The Judges that are asked for a score over HTTP or by a command, for    *)
(* TLC: the game server under the requests of a Candidate, and the Judges  *)
(* imported with a Task, which start such a server or run as a batch.      *)
(* They share no state, so a behaviour is one of `focus`, from all its     *)
(* initial states, while the other stays in one.                           *)
(***************************************************************************)
EXTENDS GameServer, LegacyJudge

VARIABLE focus   \* the part that runs

judgesVars == <<focus, vars, judgeVars>>

(* A game, or every game, may end below the initial score of 0.            *)
BelowZero == {-1, 0}

Focus(part) == focus = part

JudgesInit ==
  /\ focus \in {"server", "judge"}
  /\ ~Focus("judge") => judgeSource = CHOOSE s \in Descriptors : s.rescale.kind = "none"
  /\ Init /\ JudgeInit

ServerMoves == Focus("server") /\ Next /\ UNCHANGED judgeVars
JudgeMoves == Focus("judge") /\ JudgeNext /\ UNCHANGED vars

(* The run of a Judge has come to its end: nothing else may stop.          *)
Rests == Focus("judge") /\ judgePc \in {"done", "failed"} /\ UNCHANGED judgesVars

JudgesNext ==
  /\ UNCHANGED focus
  /\ \/ ServerMoves \/ JudgeMoves
     \/ Rests

(* The fairness of the threads of the server and of finish().              *)
JudgesSpec ==
  /\ JudgesInit /\ [][JudgesNext]_judgesVars
  /\ \A t \in Threads : WF_vars(Focus("server") /\ Serving /\ Serve(t))
  /\ WF_vars(Focus("server") /\ Finish)
=============================================================================
