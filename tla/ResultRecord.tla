---------------------------- MODULE ResultRecord ----------------------------
(***************************************************************************)
(* The result record of a run and the pointer to the latest result         *)
(* (src/src/result_record.rs), beside the journal they are checked         *)
(* against.  A record is reduced to what LocalResultRecord::load compares: *)
(* the lock digests, the semantic digest of the whole record, and the      *)
(* Codex event log it binds (Nil when the Candidate wrote none).           *)
(***************************************************************************)
EXTENDS RunJournal

CONSTANT Logs   \* contents a Codex event log may have

ASSUME NilIsNoLog == Nil \notin Logs

VARIABLES
  resFile,   \* results/<id>.json as a reader sees it
  resSafe,   \* ... and as a power loss would leave it at the earliest
  logFile,   \* runs/<id>/codex-events.jsonl
  logSafe,
  latest,    \* results/latest, a run identifier or Nil
  latestMay  \* every content a power loss may leave in results/latest

recordVars == <<resFile, resSafe, logFile, logSafe>>
latestVars == <<latest, latestMay>>

Records == [locks : LockPairs, digest : Digests, events : Logs \cup {Nil}]

ASSUME NilIsNoRecord == Nil \notin Records

-----------------------------------------------------------------------------
(* LocalResultRecord::save, for a record the judge's result fills in.      *)
Save(r, record, ok) == AtomicWrite(resFile, resSafe, r, record, ok)

(* LocalResultRecord::load returns Ok(Some): the record is backed by a     *)
(* completed journal that names its locks and its digest, and the event    *)
(* log on disk is the one it binds, or is absent when it binds none.       *)
Loadable(r) ==
  /\ resFile[r] # Nil
  /\ runFile[r] # Nil
  /\ WellFormed(runFile[r])
  /\ runFile[r].stage = "completed"
  /\ runFile[r].locks = resFile[r].locks
  /\ runFile[r].result = resFile[r].digest
  /\ logFile[r] = resFile[r].events

(* The atomic write of results/latest at the end of publish_latest; the    *)
(* load before it is a step of the caller.                                 *)
WriteLatest(r, ok) ==
  \/ ok /\ latest' = r /\ latestMay' = {r}
  \/ ~ok /\ latest' = r /\ latestMay' = latestMay \cup {r}
  \/ ~ok /\ UNCHANGED latestVars

(* latest_run_id orders completed runs by (updated_at_ms, run_id).         *)
After(time1, r1, time2, r2) ==
  time1 > time2 \/ (time1 = time2 /\ r1 > r2)
=============================================================================
