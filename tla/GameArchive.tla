----------------------------- MODULE GameArchive ----------------------------
(***************************************************************************)
(* What the game server promises the Judge (src/src/game_prompt.rs and the *)
(* /history of src/runtime_assets/game_server_app.py): games are started   *)
(* and played by requests, each is archived once, as it is then and never  *)
(* again played, and what is reported is the best score of the archive.    *)
(* There are no threads here, no registry and no locks.                    *)
(***************************************************************************)
EXTENDS Integers, Sequences

CONSTANTS Scores,   \* what a game may be scored
          Nil       \* no report

VARIABLES played,   \* the games, by their numbers
          archive,  \* what is archived of them, one after the other
          reported  \* the score of the Judge, or Nil

archiveVars == <<played, archive, reported>>

Unplayed == [score |-> 0, peak |-> 0, moves |-> 0]
Kept(g) == [game |-> g, score |-> played[g].score, peak |-> played[g].peak, moves |-> played[g].moves]
ArchivedGames == {archive[i].game : i \in DOMAIN archive}

ArchiveInit ==
  /\ played = <<>>
  /\ archive = <<>>
  /\ reported = Nil

StartOne ==
  /\ played' = Append(played, Unplayed)
  /\ UNCHANGED <<archive, reported>>

PlayOne(g) ==
  /\ g \notin ArchivedGames
  /\ \E score, peak \in Scores :
       /\ peak >= played[g].peak
       /\ played' = [played EXCEPT ![g] = [score |-> score, peak |-> peak, moves |-> @.moves + 1]]
  /\ UNCHANGED <<archive, reported>>

ArchiveOne(g) ==
  /\ g \notin ArchivedGames
  /\ archive' = Append(archive, Kept(g))
  /\ UNCHANGED <<played, reported>>

ReportBest ==
  /\ reported = Nil
  /\ \/ archive = <<>> /\ reported' = 0
     \/ \E best \in DOMAIN archive :
          /\ \A i \in DOMAIN archive : archive[i].score <= archive[best].score
          /\ reported' = archive[best].score
  /\ UNCHANGED <<played, archive>>

ArchiveNext ==
  \/ StartOne \/ ReportBest
  \/ \E g \in DOMAIN played : PlayOne(g) \/ ArchiveOne(g)

ArchiveSpec == ArchiveInit /\ [][ArchiveNext]_archiveVars
=============================================================================
