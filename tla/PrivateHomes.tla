---------------------------- MODULE PrivateHomes ----------------------------
(***************************************************************************)
(* The private homes with a copy of the user's credentials                 *)
(* (src/src/codex_auth.rs): each run sweeps the homes of dead runs, makes  *)
(* its own, and removes it at its end.  All homes are in one directory and *)
(* the runs share it without a lock; a run may die between any two steps.  *)
(***************************************************************************)
EXTENDS FiniteSets

CONSTANTS
  HomeRuns,  \* runs, each with the home of its name
  OldHomes,  \* homes that dead runs of the day before have left
  NoHome

VARIABLES
  homeEntries, \* what a home holds: NoHome, or a set of "marker" and "auth"
  homeOld,     \* the homes that have been left alone for STALE_HOME_AGE
  homeRun,     \* the state of each run
  homeHalf     \* history: the removal of these homes was interrupted

homeVars == <<homeEntries, homeOld, homeRun, homeHalf>>

AllHomes == HomeRuns \cup OldHomes

(* The name of a new home is never one that is there.                      *)
ASSUME HomesDiffer ==
  /\ HomeRuns \cap OldHomes = {}
  /\ \A held \in SUBSET {"marker", "auth"} : held # NoHome

NewHomeRun == [at |-> "scan", todo |-> {}, home |-> NoHome]

HomeInit ==
  /\ homeEntries = [h \in AllHomes |-> IF h \in OldHomes THEN {"marker", "auth"} ELSE NoHome]
  /\ homeOld = OldHomes
  /\ homeRun = [r \in HomeRuns |-> NewHomeRun]
  /\ homeHalf = {}

HomeAt(r, where) == homeRun[r].at = where
HomeGoes(r, where) == homeRun' = [homeRun EXCEPT ![r].at = where]
HomesThere == {h \in AllHomes : homeEntries[h] # NoHome}
HomeEnded == {"done", "failed", "killed"}

-----------------------------------------------------------------------------
(* cleanup_stale_homes_at: the entries of the directory ...                *)
HomeScan(r) ==
  /\ HomeAt(r, "scan")
  /\ homeRun' = [homeRun EXCEPT ![r].at = "sweep", ![r].todo = HomesThere]
  /\ UNCHANGED <<homeEntries, homeOld, homeHalf>>

(* ... one after the other; one that is gone is skipped.                   *)
HomeLook(r) ==
  /\ HomeAt(r, "sweep")
  /\ IF homeRun[r].todo = {} THEN HomeGoes(r, "read")
     ELSE \E h \in homeRun[r].todo :
            homeRun' = [homeRun EXCEPT ![r].todo = @ \ {h}, ![r].home = h,
                          ![r].at = IF homeEntries[h] = NoHome THEN "sweep" ELSE "owned"]
  /\ UNCHANGED <<homeEntries, homeOld, homeHalf>>

(* Mutated form: the age is not looked at.                                 *)
OwnedOfAnyAge(r) ==
  /\ HomeAt(r, "owned")
  /\ LET h == homeRun[r].home IN
     HomeGoes(r, IF homeEntries[h] = NoHome THEN "failed"
                 ELSE IF "marker" \in homeEntries[h] THEN "remove" ELSE "sweep")
  /\ UNCHANGED <<homeEntries, homeOld, homeHalf>>

(* owned_home and the age: a home that is gone by now is an error here.    *)
HomeOwned(r) ==
  /\ HomeAt(r, "owned")
  /\ LET h == homeRun[r].home IN
     HomeGoes(r, IF homeEntries[h] = NoHome THEN "failed"
                 ELSE IF "marker" \in homeEntries[h] /\ h \in homeOld THEN "remove" ELSE "sweep")
  /\ UNCHANGED <<homeEntries, homeOld, homeHalf>>

(* remove_tree takes the entries in any order, and is content with what is *)
(* gone already.  The sweep goes on, a cleanup ends the run.               *)
HomeRemove(r) ==
  /\ homeRun[r].at \in {"remove", "clean"}
  /\ LET h == homeRun[r].home IN
     IF homeEntries[h] \in {NoHome, {}}
       THEN /\ homeEntries' = [homeEntries EXCEPT ![h] = NoHome]
            /\ HomeGoes(r, IF HomeAt(r, "remove") THEN "sweep" ELSE "done")
       ELSE /\ \E e \in homeEntries[h] : homeEntries' = [homeEntries EXCEPT ![h] = @ \ {e}]
            /\ UNCHANGED homeRun
  /\ UNCHANGED <<homeOld, homeHalf>>

(* read_auth_defensively and extract_secret_buffers: a private regular     *)
(* file within the limit, the same one before and after the read.          *)
HomeRead(r) ==
  /\ HomeAt(r, "read")
  /\ HomeGoes(r, "create") \/ HomeGoes(r, "failed")
  /\ UNCHANGED <<homeEntries, homeOld, homeHalf>>

(* create_home: a directory of its own.                                    *)
HomeCreate(r) ==
  /\ HomeAt(r, "create")
  /\ homeEntries' = [homeEntries EXCEPT ![r] = {}]
  /\ homeRun' = [homeRun EXCEPT ![r].at = "mark", ![r].home = r]
  /\ UNCHANGED <<homeOld, homeHalf>>

(* Mutated form: the marker is left out.                                   *)
HomeUnmarked(r) ==
  /\ HomeAt(r, "mark")
  /\ HomeGoes(r, "auth")
  /\ UNCHANGED <<homeEntries, homeOld, homeHalf>>

(* The owner marker; after an error the home is removed at once.           *)
HomeMark(r) ==
  /\ HomeAt(r, "mark")
  /\ \/ /\ homeEntries' = [homeEntries EXCEPT ![r] = @ \cup {"marker"}]
        /\ HomeGoes(r, "auth")
     \/ HomeGoes(r, "undo") /\ UNCHANGED homeEntries
  /\ UNCHANGED <<homeOld, homeHalf>>

(* create_auth_copy; an error may leave the file.                          *)
HomeAuth(r) ==
  /\ HomeAt(r, "auth")
  /\ \/ /\ homeEntries[r] # NoHome
        /\ homeEntries' = [homeEntries EXCEPT ![r] = @ \cup {"auth"}]
        /\ HomeGoes(r, "use") \/ HomeGoes(r, "undo")
     \/ HomeGoes(r, "undo") /\ UNCHANGED homeEntries
  /\ UNCHANGED <<homeOld, homeHalf>>

(* The error path of stage_from_source ignores errors of the removal.      *)
HomeUndo(r) ==
  /\ HomeAt(r, "undo")
  /\ IF homeEntries[r] \in {NoHome, {}}
       THEN homeEntries' = [homeEntries EXCEPT ![r] = NoHome] /\ HomeGoes(r, "failed")
       ELSE /\ \E e \in homeEntries[r] : homeEntries' = [homeEntries EXCEPT ![r] = @ \ {e}]
            /\ UNCHANGED homeRun
  /\ UNCHANGED <<homeOld, homeHalf>>

(* cleanup at the end of the run: what is gone or not owned is left; a run *)
(* whose containers may remain keeps its home for a later sweep.           *)
HomeCleanup(r) ==
  /\ HomeAt(r, "use")
  /\ \/ HomeGoes(r, IF homeEntries[r] = NoHome THEN "done"
                    ELSE IF "marker" \in homeEntries[r] THEN "clean" ELSE "done")
     \/ HomeGoes(r, "done")
  /\ UNCHANGED <<homeEntries, homeOld, homeHalf>>

HomeKill(r) ==
  /\ homeRun[r].at \notin HomeEnded
  /\ HomeGoes(r, "killed")
  /\ homeHalf' = IF homeRun[r].at \in {"remove", "clean", "undo"} THEN homeHalf \cup {homeRun[r].home} ELSE homeHalf
  /\ UNCHANGED <<homeEntries, homeOld>>

(* A day passes; runs may last that long.                                  *)
HomeDayPasses ==
  /\ ~(HomesThere \subseteq homeOld)
  /\ homeOld' = homeOld \cup HomesThere
  /\ UNCHANGED <<homeEntries, homeRun, homeHalf>>

HomeStep(r) ==
  \/ HomeScan(r) \/ HomeLook(r) \/ HomeOwned(r) \/ HomeRemove(r) \/ HomeRead(r) \/ HomeCreate(r)
  \/ HomeMark(r) \/ HomeAuth(r) \/ HomeUndo(r) \/ HomeCleanup(r) \/ HomeKill(r)

HomeNext == (\E r \in HomeRuns : HomeStep(r)) \/ HomeDayPasses

-----------------------------------------------------------------------------
(* Credentials are always in a home that later sweeps recognise, unless a  *)
(* removal of it is under way or was interrupted (remove_tree may take the *)
(* marker first); and no sweep touches the home of a living run within a   *)
(* day.                                                                    *)
CredentialsAreOwned ==
  /\ \A h \in HomesThere : "auth" \in homeEntries[h] /\ "marker" \notin homeEntries[h] =>
       \/ h \in homeHalf
       \/ \E r \in HomeRuns : homeRun[r].at \in {"remove", "clean", "undo"} /\ homeRun[r].home = h
  /\ \A r \in HomeRuns : HomeAt(r, "use") /\ r \notin homeOld => homeEntries[r] = {"marker", "auth"}
=============================================================================
