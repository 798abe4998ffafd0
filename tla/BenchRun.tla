------------------------------ MODULE BenchRun ------------------------------
(***************************************************************************)
(* `a3s bench run` and `a3s bench result`: any number of run processes,    *)
(* each driving one journal from planned to a terminal stage               *)
(* (src/src/bench_run.rs), and any number of result processes that look    *)
(* one run up or search for the latest one (src/src/cli.rs,                *)
(* src/src/result_record.rs).  They share only the files under .a3s/bench  *)
(* and take no lock.  A process may be killed between any two steps, and   *)
(* the machine may lose power.                                             *)
(***************************************************************************)
EXTENDS ResultRecord

CONSTANTS
  Readers,    \* processes running `a3s bench result`
  MaxClock,   \* bound: the last millisecond the clock shows
  MaxLosses   \* bound: the number of power losses

ASSUME BoundsAreNat == MaxClock \in Nat /\ MaxLosses \in Nat

VARIABLES
  pc,       \* what each run process does next
  outcome,  \* what each run process reported: "running", "ok", "error", "killed"
  reader,   \* the state of each result process
  losses    \* power losses so far

runVars == <<mem, runFile, runSafe, resFile, resSafe, logFile, logSafe>>
vars == <<clock, runVars, latestVars, pc, outcome, reader, losses>>

(* The statements of execute_inner that touch what is modelled, in order.  *)
Steps == {"init", "preflight", "load", "prepare", "setup", "candidate",
          "project", "submit", "judge", "complete", "publish", "point",
          "fail", "done"}

ReaderSteps == {"idle", "scan", "check", "publish", "point", "show", "journal",
                "result", "status", "none", "unknown", "unbacked", "missing", "error"}

ReaderDone == {"result", "status", "none", "unknown", "unbacked", "missing", "error"}

(* cur: the run looked at; best, bestTime: the latest run found so far;    *)
(* must, seen: the directory entries at the opening of runs/ and those     *)
(* returned since; floor: the runs completed at that moment (history).     *)
ReaderStates == [at : ReaderSteps, cur : Runs \cup {Nil}, curTime : Nat,
                 best : Runs \cup {Nil}, bestTime : Nat,
                 must : SUBSET Runs, seen : SUBSET Runs, floor : SUBSET Runs]

IdleReader == [at |-> "idle", cur |-> Nil, curTime |-> 0, best |-> Nil,
               bestTime |-> 0, must |-> {}, seen |-> {}, floor |-> {}]

(* A reader that is past its search, or whose command has ended.           *)
LeftAt(here, r) == [IdleReader EXCEPT !.at = here, !.cur = r]

Init ==
  /\ clock = 0
  /\ mem = [r \in Runs |-> Nil]
  /\ runFile = [r \in Runs |-> Nil]
  /\ runSafe = [r \in Runs |-> Nil]
  /\ resFile = [r \in Runs |-> Nil]
  /\ resSafe = [r \in Runs |-> Nil]
  /\ logFile = [r \in Runs |-> Nil]
  /\ logSafe = [r \in Runs |-> Nil]
  /\ latest = Nil
  /\ latestMay = {Nil}
  /\ pc = [r \in Runs |-> "init"]
  /\ outcome = [r \in Runs |-> "running"]
  /\ reader = [d \in Readers |-> IdleReader]
  /\ losses = 0

-----------------------------------------------------------------------------
(* A run process.  The `?` of a step that fails leads to "fail", where     *)
(* execute_options records the failure.                                    *)
Goto(r, here, there) ==
  /\ pc[r] = here
  /\ pc' = [pc EXCEPT ![r] = there]

OrFail(ok, there) == IF ok THEN there ELSE "fail"

OnlyJournal == UNCHANGED <<clock, recordVars, latestVars, reader, losses>>

(* RunJournal::begin; its failure is returned before there is a journal to *)
(* fail.                                                                   *)
BeginRun(r) == \E ok \in BOOLEAN :
  /\ Goto(r, "init", IF ok THEN "preflight" ELSE "done")
  /\ Begin(r, ok)
  /\ outcome' = [outcome EXCEPT ![r] = IF ok THEN @ ELSE "error"]
  /\ OnlyJournal

AdvanceRun(r, here, stage, there) == \E ok \in BOOLEAN :
  /\ Goto(r, here, OrFail(ok, there))
  /\ Advance(r, stage, ok)
  /\ UNCHANGED outcome
  /\ OnlyJournal

RuntimeReady(r)       == AdvanceRun(r, "preflight", "runtime_ready", "load")
InputsResolved(r)     == AdvanceRun(r, "prepare", "inputs_resolved", "setup")
CandidateRunning(r)   == AdvanceRun(r, "setup", "candidate_running", "candidate")
CandidateCompleted(r) == AdvanceRun(r, "project", "candidate_completed", "submit")
Judging(r)            == AdvanceRun(r, "submit", "judging", "judge")

(* Mutated form: the locks are loaded but never bound.                     *)
NeverBind(r) ==
  /\ Goto(r, "load", "prepare")
  /\ BindAllowed(r)
  /\ UNCHANGED <<journalVars, outcome>>
  /\ OnlyJournal

BindRunLocks(r) == \E ok \in BOOLEAN, locks \in LockPairs :
  /\ Goto(r, "load", OrFail(ok, "prepare"))
  /\ BindLocks(r, locks, ok)
  /\ UNCHANGED outcome
  /\ OnlyJournal

(* Only the native Codex Candidate writes an event log; every other one    *)
(* leaves the file absent and binds nothing.                               *)
ExecuteCandidate(r) == \E ok \in BOOLEAN :
  /\ Goto(r, "candidate", OrFail(ok, "project"))
  /\ \/ ok /\ UNCHANGED <<logFile, logSafe>>
     \/ \E log \in Logs : AtomicWrite(logFile, logSafe, r, log, ok)
  /\ UNCHANGED <<clock, journalVars, resFile, resSafe, latestVars, outcome, reader, losses>>

(* Mutated form: the journal completes before the record is saved.         *)
CompleteFirst(r) == \E ok \in BOOLEAN, digest \in Digests :
  /\ Goto(r, "judge", OrFail(ok, "publish"))
  /\ Complete(r, digest, ok)
  /\ UNCHANGED outcome
  /\ OnlyJournal

(* execute_judge and LocalResultRecord::save of what it measured.          *)
SaveResult(r) == \E ok \in BOOLEAN, digest \in Digests :
  /\ Goto(r, "judge", OrFail(ok, "complete"))
  /\ Save(r, [locks |-> mem[r].locks, digest |-> digest, events |-> logFile[r]], ok)
  /\ UNCHANGED <<clock, journalVars, logFile, logSafe, latestVars, outcome, reader, losses>>

(* Mutated form: results/latest is written before the journal completes.   *)
PointBeforeComplete(r) == \E ok \in BOOLEAN :
  /\ Goto(r, "complete", OrFail(ok, "publish"))
  /\ WriteLatest(r, ok)
  /\ UNCHANGED <<clock, runVars, outcome, reader, losses>>

CompleteRun(r) == \E ok \in BOOLEAN :
  /\ Goto(r, "complete", OrFail(ok, "publish"))
  /\ Complete(r, resFile[r].digest, ok)
  /\ UNCHANGED outcome
  /\ OnlyJournal

(* publish_latest loads the record it is asked to publish, then points at  *)
(* it.  Its error, or that of print_result after it, fails the run although*)
(* the journal is complete.                                                *)
LoadOwn(r) ==
  /\ Goto(r, "publish", OrFail(Loadable(r), "point"))
  /\ UNCHANGED <<clock, runVars, latestVars, outcome, reader, losses>>

PointAtOwn(r) == \E ok, printed \in BOOLEAN :
  /\ Goto(r, "point", IF ok /\ printed THEN "done" ELSE "fail")
  /\ WriteLatest(r, ok)
  /\ outcome' = [outcome EXCEPT ![r] = IF ok /\ printed THEN "ok" ELSE @]
  /\ UNCHANGED <<clock, runVars, reader, losses>>

(* Any other statement between two journal writes fails: configuration,    *)
(* preflight, lock loading, game start, workspace, Candidate, projection,  *)
(* judge, record validation.                                               *)
WorkFails(r) ==
  /\ pc[r] \in {"preflight", "load", "prepare", "setup", "candidate", "project",
                "submit", "judge"}
  /\ pc' = [pc EXCEPT ![r] = "fail"]
  /\ UNCHANGED <<clock, runVars, latestVars, outcome, reader, losses>>

(* The error arm of execute_options, which reports the failure whether or  *)
(* not it could be recorded.                                               *)
FailRun(r) == \E ok \in BOOLEAN :
  /\ Goto(r, "fail", "done")
  /\ Fail(r, ok)
  /\ outcome' = [outcome EXCEPT ![r] = "error"]
  /\ OnlyJournal

(* The process is killed; nothing of it runs afterwards.                   *)
Kill(r) ==
  /\ pc[r] \notin {"init", "done"}
  /\ pc' = [pc EXCEPT ![r] = "done"]
  /\ outcome' = [outcome EXCEPT ![r] = "killed"]
  /\ UNCHANGED <<clock, runVars, latestVars, reader, losses>>

RunStep(r) ==
  \/ BeginRun(r) \/ RuntimeReady(r) \/ BindRunLocks(r) \/ InputsResolved(r)
  \/ CandidateRunning(r) \/ ExecuteCandidate(r) \/ CandidateCompleted(r)
  \/ Judging(r) \/ SaveResult(r) \/ CompleteRun(r) \/ LoadOwn(r) \/ PointAtOwn(r)
  \/ WorkFails(r) \/ FailRun(r) \/ Kill(r)

-----------------------------------------------------------------------------
(* A result process.                                                       *)
ReaderMoves(d, here, new) ==
  /\ reader[d].at = here
  /\ reader' = [reader EXCEPT ![d] = new]
  /\ UNCHANGED <<clock, runVars, pc, outcome, losses>>

(* latest_run_id opens runs/.                                              *)
StartLatest(d) ==
  /\ ReaderMoves(d, "idle",
       [reader[d] EXCEPT
          !.at = "scan",
          !.must = {r \in Runs : runFile[r] # Nil},
          !.floor = {r \in Runs : runFile[r] # Nil /\ runFile[r].stage = "completed"}])
  /\ UNCHANGED latestVars

(* One directory entry, in any order; entries created since the opening    *)
(* may or may not be returned.                                             *)
ScanEntry(d) == \E r \in Runs \ reader[d].seen :
  /\ runFile[r] # Nil
  /\ ReaderMoves(d, "scan",
       IF ~WellFormed(runFile[r]) THEN LeftAt("error", r)
       ELSE IF runFile[r].stage = "completed"
         THEN [reader[d] EXCEPT !.seen = @ \cup {r}, !.at = "check", !.cur = r,
                                !.curTime = runFile[r].time]
         ELSE [reader[d] EXCEPT !.seen = @ \cup {r}])
  /\ UNCHANGED latestVars

(* Mutated form: the last completed run scanned wins, whatever its time.   *)
KeepLastEntry(d) ==
  LET me == reader[d]
  IN  /\ ReaderMoves(d, "check",
           [me EXCEPT !.at = "scan", !.best = me.cur, !.bestTime = me.curTime])
      /\ UNCHANGED latestVars

CheckEntry(d) ==
  LET me == reader[d]
      newer == me.best = Nil \/ After(me.curTime, me.cur, me.bestTime, me.best)
  IN  /\ ReaderMoves(d, "check",
           IF ~Loadable(me.cur) THEN LeftAt("error", me.cur)
           ELSE IF newer
             THEN [me EXCEPT !.at = "scan", !.best = me.cur, !.bestTime = me.curTime]
             ELSE [me EXCEPT !.at = "scan"])
      /\ UNCHANGED latestVars

EndScan(d) ==
  LET me == reader[d]
  IN  /\ me.must \subseteq me.seen
      /\ ReaderMoves(d, "scan",
           [me EXCEPT !.at = IF me.best = Nil THEN "none" ELSE "publish"])
      /\ UNCHANGED latestVars

LoadBest(d) ==
  /\ ReaderMoves(d, "publish",
       IF Loadable(reader[d].best) THEN [reader[d] EXCEPT !.at = "point"]
       ELSE LeftAt("error", reader[d].best))
  /\ UNCHANGED latestVars

PointAtBest(d) == \E ok \in BOOLEAN :
  /\ ReaderMoves(d, "point",
       IF ok THEN [reader[d] EXCEPT !.at = "show"] ELSE LeftAt("error", reader[d].best))
  /\ WriteLatest(reader[d].best, ok)

(* The record is there: LocalResultRecord::load reads it, then checks it   *)
(* against its journal.  It is not: `result` turns to the journal alone.   *)
LookUp(d, r, here) ==
  /\ ReaderMoves(d, here,
       LeftAt(IF resFile[r] = Nil THEN "journal"
              ELSE IF Loadable(r) THEN "result"
              ELSE "unbacked", r))
  /\ UNCHANGED latestVars

StartLookup(d) == \E r \in Runs : LookUp(d, r, "idle")

ShowBest(d) == reader[d].at = "show" /\ LookUp(d, reader[d].best, "show")

(* RunJournal::load of a run that had no record a moment ago.              *)
ReadJournal(d) ==
  LET file == runFile[reader[d].cur]
  IN  /\ ReaderMoves(d, "journal",
           LeftAt(IF file = Nil THEN "unknown"
                  ELSE IF ~WellFormed(file) THEN "error"
                  ELSE IF file.stage = "completed" THEN "missing"
                  ELSE "status", reader[d].cur))
      /\ UNCHANGED latestVars

ReaderStep(d) ==
  \/ StartLatest(d) \/ ScanEntry(d) \/ CheckEntry(d) \/ EndScan(d) \/ LoadBest(d)
  \/ PointAtBest(d) \/ StartLookup(d) \/ ShowBest(d) \/ ReadJournal(d)

-----------------------------------------------------------------------------
(* The environment.                                                        *)
Tick ==
  /\ clock < MaxClock
  /\ clock' = clock + 1
  /\ UNCHANGED <<runVars, latestVars, pc, outcome, reader, losses>>

(* A file keeps either what was synced or what was last renamed into       *)
(* place; every process that had started is gone.                          *)
Fallback(file, safe, back) == [r \in Runs |-> IF r \in back THEN safe[r] ELSE file[r]]

PowerLoss ==
  /\ losses < MaxLosses
  /\ losses' = losses + 1
  /\ \E back1, back2, back3 \in SUBSET Runs :
       /\ runFile' = Fallback(runFile, runSafe, back1)
       /\ resFile' = Fallback(resFile, resSafe, back2)
       /\ logFile' = Fallback(logFile, logSafe, back3)
  /\ runSafe' = runFile'
  /\ resSafe' = resFile'
  /\ logSafe' = logFile'
  /\ latest' \in latestMay
  /\ latestMay' = {latest'}
  /\ pc' = [r \in Runs |-> IF pc[r] = "init" THEN "init" ELSE "done"]
  /\ outcome' = [r \in Runs |-> IF pc[r] \in {"init", "done"} THEN outcome[r] ELSE "killed"]
  /\ reader' = [d \in Readers |-> IF reader[d].at \in ReaderDone THEN reader[d] ELSE IdleReader]
  /\ UNCHANGED <<clock, mem>>

(* Every command has returned.                                             *)
Finished ==
  /\ \A r \in Runs : pc[r] = "done"
  /\ \A d \in Readers : reader[d].at \in ReaderDone
  /\ UNCHANGED vars

Next ==
  \/ \E r \in Runs : RunStep(r)
  \/ \E d \in Readers : ReaderStep(d)
  \/ Tick
  \/ PowerLoss
  \/ Finished

Spec == Init /\ [][Next]_vars

-----------------------------------------------------------------------------
(* Properties.                                                             *)

Kept(set) == set \cup {Nil}

(* Every variable has its type.                                            *)
TypeOK ==
  /\ clock \in Nat
  /\ mem \in [Runs -> Kept(Journals)]
  /\ runFile \in [Runs -> Kept(Journals)]
  /\ runSafe \in [Runs -> Kept(Journals)]
  /\ resFile \in [Runs -> Kept(Records)]
  /\ resSafe \in [Runs -> Kept(Records)]
  /\ logFile \in [Runs -> Kept(Logs)]
  /\ logSafe \in [Runs -> Kept(Logs)]
  /\ latest \in Kept(Runs)
  /\ latestMay \in SUBSET Kept(Runs)
  /\ pc \in [Runs -> Steps]
  /\ outcome \in [Runs -> {"running", "ok", "error", "killed"}]
  /\ reader \in [Readers -> ReaderStates]
  /\ losses \in Nat

(* A journal file that says completed is backed by a record, an event log  *)
(* and digests that already agree with it on disk, now and after a power   *)
(* loss: LocalResultRecord::load never refuses a completed run.            *)
Backed(r, j) ==
  j # Nil /\ j.stage = "completed" =>
    /\ resFile[r] # Nil /\ resSafe[r] = resFile[r]
    /\ resFile[r].locks = j.locks /\ resFile[r].digest = j.result
    /\ logFile[r] = resFile[r].events /\ logSafe[r] = logFile[r]

CompletedIsBacked == \A r \in Runs : Backed(r, runFile[r]) /\ Backed(r, runSafe[r])

(* Whatever fails and whenever the process or the machine stops, a journal *)
(* file left behind passes RunJournal::load, so one dead run never makes   *)
(* `a3s bench result` fail for all the others.                             *)
JournalsReadable == \A r \in Runs : runFile[r] # Nil => WellFormed(runFile[r])

(* A run that reported success can be shown for ever after, power losses   *)
(* included.                                                               *)
SuccessIsDurable == \A r \in Runs : outcome[r] = "ok" => Loadable(r) /\ runSafe[r] = runFile[r]

(* results/latest names a run whose result loads; only a power loss that   *)
(* takes back a journal written without its directory sync leaves it       *)
(* pointing at a run that is judging again, whose record is still there.   *)
LatestIsShowable ==
  latest # Nil => /\ resFile[latest] # Nil
                  /\ losses = 0 => Loadable(latest)

(* A search for the latest result that saw a completed run when it opened  *)
(* runs/ returns one, and one at least as recent as each of those, however *)
(* many runs complete meanwhile.                                           *)
LatestIsRecent == \A d \in Readers :
  /\ reader[d].at \in {"publish", "point", "show"} =>
       /\ reader[d].best \in Runs
       /\ \A r \in reader[d].floor :
            ~After(runFile[r].time, r, reader[d].bestTime, reader[d].best)
  /\ reader[d].at = "none" => reader[d].floor = {}

(* What a journal file says moves forward only, and a terminal file is     *)
(* final, as long as the machine keeps its power.                          *)
Later(old, new) ==
  old # Nil => /\ new # Nil
               /\ Rank(old.stage) <= Rank(new.stage)
               /\ old.locks # Nil => new.locks = old.locks
               /\ Terminal(old.stage) => new = old

JournalsMoveForward == [][losses' = losses => \A r \in Runs : Later(runFile[r], runFile'[r])]_vars

(* The same of what is synced, power losses included; and a record behind  *)
(* a completed journal never changes again.                                *)
SyncedIsFinal ==
  [][\A r \in Runs :
       /\ Later(runSafe[r], runSafe'[r])
       /\ runSafe[r] # Nil /\ runSafe[r].stage = "completed" =>
            resFile'[r] = resFile[r] /\ logFile'[r] = logFile[r]]_vars

(* doc: a command that fails publishes no score.                           *)
FailurePublishesNothing == \A r \in Runs : outcome[r] = "error" => ~Loadable(r)

(* `result <id>` says a completed result is missing only when it is.       *)
MissingIsMissing == \A d \in Readers :
  reader[d].at = "missing" => resFile[reader[d].cur] = Nil
=============================================================================
