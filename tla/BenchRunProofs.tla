--------------------------- MODULE BenchRunProofs ---------------------------
(***************************************************************************)
(* What is proved of BenchRun for every set of runs, locks, digests, logs  *)
(* and result processes, and for every bound on the clock and the losses.  *)
(***************************************************************************)
EXTENDS BenchRun, TLAPS

(* The stage the journal of a run in progress is in, by what it does next. *)
StageAt(step) == CASE step = "preflight"          -> "planned"
                   [] step \in {"load", "prepare"} -> "runtime_ready"
                   [] step = "setup"              -> "inputs_resolved"
                   [] step \in {"candidate", "project"} -> "candidate_running"
                   [] step = "submit"             -> "candidate_completed"
                   [] step \in {"judge", "complete"} -> "judging"
                   [] OTHER                       -> "completed"

Active == Steps \ {"init", "fail", "done"}

Bound == Active \ {"preflight", "load"}

(* Nothing of a run exists before it begins.                               *)
Untouched(r) ==
  pc[r] = "init" =>
    /\ runFile[r] = Nil /\ runSafe[r] = Nil
    /\ resFile[r] = Nil /\ resSafe[r] = Nil
    /\ logFile[r] = Nil /\ logSafe[r] = Nil
    /\ outcome[r] = "running"

(* Until something fails, the journal on disk is the one in memory, synced,*)
(* and in the stage its process has reached.                               *)
InStep(r) ==
  pc[r] \in Active =>
    /\ mem[r] # Nil
    /\ runFile[r] = mem[r] /\ runSafe[r] = mem[r]
    /\ mem[r].stage = StageAt(pc[r])
    /\ (mem[r].locks # Nil) <=> (pc[r] \in Bound)

Readable(r) ==
  /\ mem[r] # Nil => WellFormed(mem[r])
  /\ runFile[r] # Nil => WellFormed(runFile[r])
  /\ runSafe[r] # Nil => WellFormed(runSafe[r])

(* The log is synced whenever the run goes on, the record once the judge   *)
(* has.                                                                    *)
SavedSoFar(r) ==
  /\ pc[r] \in Active => logSafe[r] = logFile[r]
  /\ pc[r] = "complete" =>
       /\ resFile[r] # Nil /\ resSafe[r] = resFile[r]
       /\ resFile[r].locks = mem[r].locks
       /\ resFile[r].events = logFile[r]

Succeeded(r) ==
  outcome[r] = "ok" =>
    /\ pc[r] = "done"
    /\ runFile[r] # Nil /\ runSafe[r] = runFile[r]
    /\ runFile[r].stage = "completed"

RunInv(r) ==
  /\ Untouched(r)
  /\ InStep(r)
  /\ pc[r] = "fail" => mem[r] # Nil
  /\ Readable(r)
  /\ SavedSoFar(r)
  /\ Backed(r, runFile[r]) /\ Backed(r, runSafe[r])
  /\ Succeeded(r)

IInv == TypeOK /\ \A r \in Runs : RunInv(r)

-----------------------------------------------------------------------------
USE RunsAreOrdered, NilIsNoValue, NilIsNoJournal, NilIsNoLog, NilIsNoRecord, BoundsAreNat

LEMMA InitIInv == Init => IInv
  BY DEF Init, IInv, TypeOK, RunInv, Untouched, InStep, Readable, SavedSoFar,
         Backed, Succeeded, Kept, Steps, Active, ReaderStates, ReaderSteps, IdleReader

(* A step that leaves the files, the journal, the step and the outcome of  *)
(* a run alone leaves its invariant alone.                                 *)
Same(r) == /\ mem'[r] = mem[r]
           /\ runFile'[r] = runFile[r] /\ runSafe'[r] = runSafe[r]
           /\ resFile'[r] = resFile[r] /\ resSafe'[r] = resSafe[r]
           /\ logFile'[r] = logFile[r] /\ logSafe'[r] = logSafe[r]
           /\ pc'[r] = pc[r] /\ outcome'[r] = outcome[r]

LEMMA Frame == ASSUME NEW r, RunInv(r), Same(r) PROVE RunInv(r)'
  BY DEF Same, RunInv, Untouched, InStep, Readable, SavedSoFar, Backed, Succeeded, WellFormed

(* A step of one run leaves every other run alone.                         *)
LEMMA StepOfAnother ==
  ASSUME TypeOK, NEW r \in Runs, RunStep(r), NEW q \in Runs, q # r
  PROVE  Same(q)
<1> USE DEF TypeOK, Same, Goto, OnlyJournal, journalVars, recordVars, latestVars, runVars,
            Persist, AtomicWrite
<1>1. CASE BeginRun(r)
  BY <1>1 DEF BeginRun, Begin
<1>2. ASSUME NEW here, NEW stage, NEW there, AdvanceRun(r, here, stage, there)
      PROVE  Same(q)
  BY <1>2 DEF AdvanceRun, Advance
<1>3. CASE BindRunLocks(r)
  BY <1>3 DEF BindRunLocks, BindLocks
<1>4. CASE ExecuteCandidate(r)
  BY <1>4 DEF ExecuteCandidate
<1>5. CASE SaveResult(r)
  BY <1>5 DEF SaveResult, Save
<1>6. CASE CompleteRun(r)
  BY <1>6 DEF CompleteRun, Complete
<1>7. CASE LoadOwn(r) \/ PointAtOwn(r) \/ WorkFails(r) \/ Kill(r)
  BY <1>7 DEF LoadOwn, PointAtOwn, WorkFails, Kill
<1>8. CASE FailRun(r)
  BY <1>8 DEF FailRun, Fail
<1> QED
  BY <1>1, <1>2, <1>3, <1>4, <1>5, <1>6, <1>7, <1>8
     DEF RunStep, RuntimeReady, InputsResolved, CandidateRunning, CandidateCompleted, Judging

-----------------------------------------------------------------------------
(* The steps of a run process, one lemma each, about the run itself.       *)

(* What RunInv is made of, for the leaves below.                           *)
USE DEF RunInv, Untouched, InStep, Readable, SavedSoFar, Backed, Succeeded

(* What writing journal j does: one of the old and the new file stands.    *)
Written(r, j) == /\ mem' = [mem EXCEPT ![r] = j]
                 /\ runFile' \in {runFile, [runFile EXCEPT ![r] = j]}
                 /\ runSafe' \in {runSafe, [runSafe EXCEPT ![r] = j]}

JournalTypes == /\ mem \in [Runs -> Kept(Journals)]
                /\ runFile \in [Runs -> Kept(Journals)]
                /\ runSafe \in [Runs -> Kept(Journals)]

(* The ranks are numbers, and inputs_resolved is the first to need locks.  *)
LEMMA RankFacts == /\ \A stage : Rank(stage) \in 0..6
                   /\ Rank("inputs_resolved") = 2
  BY DEF Rank

LEMMA BeginPreserves ==
  ASSUME IInv, NEW r \in Runs, BeginRun(r) PROVE RunInv(r)' /\ JournalTypes'
<1> DEFINE first == [stage |-> "planned", locks |-> Nil, time |-> clock,
                     result |-> Nil, error |-> "absent"]
<1>1. PICK ok \in BOOLEAN :
        /\ Goto(r, "init", IF ok THEN "preflight" ELSE "done")
        /\ Begin(r, ok)
        /\ outcome' = [outcome EXCEPT ![r] = IF ok THEN @ ELSE "error"]
        /\ OnlyJournal
  BY DEF BeginRun
<1>2. /\ pc[r] = "init" /\ pc'[r] = (IF ok THEN "preflight" ELSE "done")
      /\ outcome'[r] = (IF ok THEN outcome[r] ELSE "error")
      /\ UNCHANGED recordVars
  BY <1>1 DEF IInv, TypeOK, Goto, OnlyJournal
<1>3. /\ mem'[r] = first
      /\ runFile'[r] \in {first, Nil} /\ runSafe'[r] \in {first, Nil}
      /\ ok => runFile'[r] = first /\ runSafe'[r] = first
  BY <1>1, <1>2 DEF IInv, TypeOK, Begin, Persist, AtomicWrite
<1>w. Written(r, first)
  BY <1>1 DEF Written, Begin, Persist, AtomicWrite
<1>4. first # Nil /\ WellFormed(first) /\ first.stage = "planned" /\ first.locks = Nil
      /\ first \in Journals
  <2>1. first \in Journals
    BY DEF IInv, TypeOK, Journals, Stages
  <2> QED
    BY <2>1 DEF WellFormed, Rank
<1> HIDE DEF first
<1>5. Readable(r)'
  BY <1>3, <1>4 DEF WellFormed
<1>6. RunInv(r)'
  BY <1>2, <1>3, <1>4, <1>5 DEF IInv, recordVars, Active, Bound, StageAt, Steps
<1> QED
  BY <1>w, <1>4, <1>6 DEF IInv, TypeOK, JournalTypes, Written, Kept

LEMMA AdvancePreserves ==
  ASSUME IInv, NEW r \in Runs, NEW here \in Active, NEW stage \in Stages, NEW there \in Active,
         stage = StageAt(there), stage # "completed", there # "complete",
         (here \in Bound) <=> (there \in Bound),
         Rank(stage) >= 2 => here \in Bound,
         AdvanceRun(r, here, stage, there)
  PROVE  RunInv(r)' /\ JournalTypes'
<1> DEFINE next == [mem[r] EXCEPT !.stage = stage, !.time = clock]
<1>1. PICK ok \in BOOLEAN : /\ Goto(r, here, OrFail(ok, there))
                            /\ Advance(r, stage, ok)
                            /\ UNCHANGED outcome
                            /\ OnlyJournal
  BY DEF AdvanceRun
<1>2. /\ pc[r] = here /\ pc'[r] = OrFail(ok, there)
      /\ UNCHANGED outcome /\ UNCHANGED recordVars
      /\ ~Terminal(stage)
  BY <1>1 DEF IInv, TypeOK, Goto, OnlyJournal, Advance, AdvanceAllowed
<1>3. /\ mem'[r] = next
      /\ runFile'[r] \in {next, mem[r]} /\ runSafe'[r] \in {next, mem[r]}
      /\ ok => runFile'[r] = next /\ runSafe'[r] = next
  BY <1>1, <1>2 DEF IInv, TypeOK, Advance, Persist, AtomicWrite
<1>w. Written(r, next)
  BY <1>1 DEF Written, Advance, Persist, AtomicWrite
<1>4. /\ mem[r] \in Journals /\ next \in Journals
      /\ next.stage = stage /\ next.locks = mem[r].locks
      /\ next.result = mem[r].result /\ next.error = mem[r].error
  <2>1. mem[r] \in Journals
    BY <1>2 DEF IInv, TypeOK, Kept
  <2>2. clock \in Nat
    BY DEF IInv, TypeOK
  <2> QED
    BY <2>1, <2>2 DEF Journals
<1> HIDE DEF next
<1>5. WellFormed(mem[r]) /\ WellFormed(next)
  <2>1. WellFormed(mem[r]) /\ (mem[r].locks # Nil <=> here \in Bound)
    BY <1>2 DEF IInv
  <2>2. mem[r].stage # "completed" /\ mem[r].stage # "failed"
    BY <1>1 DEF Advance, AdvanceAllowed, Terminal
  <2> QED
    BY <2>1, <2>2, <1>2, <1>4, RankFacts DEF WellFormed, Terminal
<1>6. Readable(r)' /\ mem[r] # Nil /\ next # Nil
  BY <1>3, <1>4, <1>5 DEF WellFormed
<1>7. Backed(r, runFile[r])' /\ Backed(r, runSafe[r])'
  BY <1>2, <1>3, <1>4, <1>5 DEF IInv, recordVars, Terminal, WellFormed
<1>8. InStep(r)'
  BY <1>2, <1>3, <1>4, <1>6 DEF IInv, OrFail, Active, Bound, Steps
<1> QED
  <2>1. pc[r] # "init" /\ pc[r] # "done" /\ pc'[r] # "init" /\ pc'[r] # "done" /\ pc'[r] # "complete"
          /\ pc[r] \in Active
    BY <1>2 DEF OrFail, Active
  <2>2. Untouched(r)' /\ Succeeded(r)' /\ (pc'[r] = "fail" => mem'[r] # Nil)
    BY <2>1, <1>2, <1>3, <1>6 DEF IInv
  <2>3. SavedSoFar(r)'
    BY <2>1, <1>2 DEF IInv, OrFail, recordVars
  <2>4. JournalTypes'
    BY <1>w, <1>4 DEF IInv, TypeOK, JournalTypes, Written, Kept
  <2> QED
    BY <2>2, <2>3, <2>4, <1>6, <1>7, <1>8

LEMMA BindPreserves ==
  ASSUME IInv, NEW r \in Runs, BindRunLocks(r) PROVE RunInv(r)' /\ JournalTypes'
<1>1. PICK ok \in BOOLEAN, locks \in LockPairs :
        /\ Goto(r, "load", OrFail(ok, "prepare"))
        /\ BindLocks(r, locks, ok)
        /\ UNCHANGED outcome
        /\ OnlyJournal
  BY DEF BindRunLocks
<1> DEFINE next == [mem[r] EXCEPT !.locks = locks, !.time = clock]
<1>2. /\ pc[r] = "load" /\ pc'[r] = (IF ok THEN "prepare" ELSE "fail")
      /\ UNCHANGED outcome /\ UNCHANGED recordVars
      /\ mem[r].stage = "runtime_ready"
  BY <1>1 DEF IInv, TypeOK, Goto, OrFail, OnlyJournal, BindLocks, BindAllowed
<1>3. /\ mem'[r] = next
      /\ runFile'[r] \in {next, mem[r]} /\ runSafe'[r] \in {next, mem[r]}
      /\ ok => runFile'[r] = next /\ runSafe'[r] = next
  <2>1. runFile[r] = mem[r] /\ runSafe[r] = mem[r]
    BY <1>2 DEF IInv, Active, Steps
  <2>2. TypeOK /\ Persist(r, next, ok)
    BY <1>1 DEF IInv, BindLocks
  <2> HIDE DEF next
  <2> QED
    BY <2>1, <2>2 DEF TypeOK, Persist, AtomicWrite
<1>w. Written(r, next)
  BY <1>1 DEF Written, BindLocks, Persist, AtomicWrite
<1>4. /\ mem[r] \in Journals /\ next \in Journals
      /\ next.stage = "runtime_ready" /\ next.locks = locks
      /\ next.result = mem[r].result /\ next.error = mem[r].error
  <2>1. mem[r] \in Journals
    BY <1>2 DEF IInv, TypeOK, Kept, Active, Steps
  <2>2. clock \in Nat
    BY DEF IInv, TypeOK
  <2> QED
    BY <2>1, <2>2, <1>2 DEF Journals
<1> HIDE DEF next
<1>5. WellFormed(mem[r]) /\ WellFormed(next) /\ mem[r] # Nil /\ next # Nil /\ locks # Nil
  BY <1>2, <1>4 DEF IInv, WellFormed, Rank
<1>6. Readable(r)'
  BY <1>3, <1>5 DEF WellFormed
<1>7. Backed(r, runFile[r])' /\ Backed(r, runSafe[r])'
  BY <1>2, <1>3, <1>4
<1>8. InStep(r)'
  BY <1>2, <1>3, <1>4, <1>5 DEF Active, Bound, Steps, StageAt
<1>9. SavedSoFar(r)'
  BY <1>2 DEF IInv, recordVars, Active, Steps
<1> QED
  <2>1. pc[r] \notin {"init", "fail", "done"} /\ pc'[r] \notin {"init", "done"}
    BY <1>2
  <2>2. Untouched(r)' /\ Succeeded(r)' /\ mem'[r] # Nil
    BY <2>1, <1>2, <1>3, <1>5 DEF IInv
  <2>3. JournalTypes'
    BY <1>w, <1>4 DEF IInv, TypeOK, JournalTypes, Written, Kept
  <2> QED
    BY <2>2, <2>3, <1>6, <1>7, <1>8, <1>9

LEMMA CandidatePreserves ==
  ASSUME IInv, NEW r \in Runs, ExecuteCandidate(r) PROVE RunInv(r)'
<1>1. PICK ok \in BOOLEAN :
        /\ Goto(r, "candidate", OrFail(ok, "project"))
        /\ \/ ok /\ UNCHANGED <<logFile, logSafe>>
           \/ \E log \in Logs : AtomicWrite(logFile, logSafe, r, log, ok)
        /\ UNCHANGED <<clock, journalVars, resFile, resSafe, latestVars, outcome, reader, losses>>
  BY DEF ExecuteCandidate
<1>2. /\ pc[r] = "candidate" /\ pc'[r] = (IF ok THEN "project" ELSE "fail")
      /\ UNCHANGED outcome /\ UNCHANGED journalVars /\ UNCHANGED <<resFile, resSafe>>
      /\ mem[r].stage = "candidate_running" /\ mem[r] # Nil
      /\ runFile[r] = mem[r] /\ runSafe[r] = mem[r]
      /\ outcome[r] # "ok"
  BY <1>1 DEF IInv, TypeOK, Goto, OrFail, Active, Steps, StageAt
<1>3. ok => logFile'[r] = logSafe'[r]
  <2>1. CASE ok /\ UNCHANGED <<logFile, logSafe>>
    BY <2>1, <1>2 DEF IInv, Active, Steps
  <2>2. CASE \E log \in Logs : AtomicWrite(logFile, logSafe, r, log, ok)
    <3>1. PICK log \in Logs : AtomicWrite(logFile, logSafe, r, log, ok)
      BY <2>2
    <3>2. logFile \in [Runs -> Kept(Logs)] /\ logSafe \in [Runs -> Kept(Logs)]
      BY DEF IInv, TypeOK
    <3> QED
      BY <3>1, <3>2, ok \in BOOLEAN DEF AtomicWrite
  <2> QED
    BY <1>1, <2>1, <2>2
<1>4. Readable(r)'
  BY <1>2 DEF IInv, journalVars, WellFormed
<1>5. InStep(r)'
  <2>1. mem[r].locks # Nil
    BY <1>2 DEF IInv, Active, Bound, Steps
  <2> QED
    BY <1>2, <2>1 DEF journalVars, Active, Bound, Steps, StageAt
<1>6. Backed(r, runFile[r])' /\ Backed(r, runSafe[r])'
  BY <1>2 DEF journalVars
<1>7. SavedSoFar(r)'
  BY <1>2, <1>3 DEF Active, Steps
<1>8. Untouched(r)' /\ Succeeded(r)' /\ mem'[r] # Nil
  BY <1>2 DEF journalVars
<1> QED
  BY <1>4, <1>5, <1>6, <1>7, <1>8

LEMMA SavePreserves ==
  ASSUME IInv, NEW r \in Runs, SaveResult(r) PROVE RunInv(r)'
<1>1. PICK ok \in BOOLEAN, digest \in Digests :
        /\ Goto(r, "judge", OrFail(ok, "complete"))
        /\ Save(r, [locks |-> mem[r].locks, digest |-> digest, events |-> logFile[r]], ok)
        /\ UNCHANGED <<clock, journalVars, logFile, logSafe, latestVars, outcome, reader, losses>>
  BY DEF SaveResult
<1> DEFINE record == [locks |-> mem[r].locks, digest |-> digest, events |-> logFile[r]]
<1>2. /\ pc[r] = "judge" /\ pc'[r] = (IF ok THEN "complete" ELSE "fail")
      /\ UNCHANGED outcome /\ UNCHANGED journalVars /\ UNCHANGED <<logFile, logSafe>>
      /\ mem[r].stage = "judging" /\ mem[r] # Nil /\ mem[r].locks # Nil
      /\ runFile[r] = mem[r] /\ runSafe[r] = mem[r]
      /\ logFile[r] = logSafe[r] /\ outcome[r] # "ok"
  BY <1>1 DEF IInv, TypeOK, Goto, OrFail, Active, Bound, Steps, StageAt
<1>3. record \in Records /\ record.locks = mem[r].locks /\ record.events = logFile[r]
  BY <1>2 DEF IInv, TypeOK, Records, Journals, Kept
<1>4. ok => resFile'[r] = record /\ resSafe'[r] = record
  BY <1>1 DEF IInv, TypeOK, Save, AtomicWrite
<1> HIDE DEF record
<1>5. Readable(r)' /\ InStep(r)'
  BY <1>2 DEF IInv, journalVars, WellFormed, Active, Bound, Steps, StageAt
<1> QED
  BY <1>2, <1>3, <1>4, <1>5 DEF journalVars, Steps

LEMMA CompletePreserves ==
  ASSUME IInv, NEW r \in Runs, CompleteRun(r) PROVE RunInv(r)' /\ JournalTypes'
<1>1. PICK ok \in BOOLEAN :
        /\ Goto(r, "complete", OrFail(ok, "publish"))
        /\ Complete(r, resFile[r].digest, ok)
        /\ UNCHANGED outcome
        /\ OnlyJournal
  BY DEF CompleteRun
<1> DEFINE next == [mem[r] EXCEPT !.stage = "completed", !.time = clock,
                                  !.result = resFile[r].digest]
<1>2. /\ pc[r] = "complete" /\ pc'[r] = (IF ok THEN "publish" ELSE "fail")
      /\ UNCHANGED outcome /\ UNCHANGED recordVars
      /\ mem[r].stage = "judging" /\ mem[r] # Nil /\ mem[r].locks # Nil
      /\ runFile[r] = mem[r] /\ runSafe[r] = mem[r]
      /\ logFile[r] = logSafe[r] /\ outcome[r] # "ok"
      /\ resFile[r] # Nil /\ resSafe[r] = resFile[r]
      /\ resFile[r].locks = mem[r].locks /\ resFile[r].events = logFile[r]
  BY <1>1 DEF IInv, TypeOK, Goto, OrFail, OnlyJournal, Active, Bound, Steps, StageAt
<1>3. /\ mem'[r] = next
      /\ runFile'[r] \in {next, mem[r]} /\ runSafe'[r] \in {next, mem[r]}
      /\ ok => runFile'[r] = next /\ runSafe'[r] = next
  <2>1. TypeOK /\ Persist(r, next, ok)
    BY <1>1 DEF IInv, Complete
  <2> HIDE DEF next
  <2> QED
    BY <1>2, <2>1 DEF TypeOK, Persist, AtomicWrite
<1>w. Written(r, next)
  BY <1>1 DEF Written, Complete, Persist, AtomicWrite
<1>4. /\ next \in Journals /\ next.stage = "completed" /\ next.locks = mem[r].locks
      /\ next.result = resFile[r].digest /\ next.error = mem[r].error
      /\ next.result # Nil
  <2>1. mem[r] \in Journals /\ resFile[r] \in Records /\ clock \in Nat
    BY <1>2 DEF IInv, TypeOK, Kept
  <2>2. resFile[r].digest \in Digests
    BY <2>1 DEF Records
  <2> QED
    BY <2>1, <2>2 DEF Journals, Stages
<1> HIDE DEF next
<1>5. WellFormed(mem[r]) /\ WellFormed(next) /\ next # Nil
  BY <1>2, <1>4 DEF IInv, WellFormed
<1>6. Readable(r)'
  BY <1>3, <1>5 DEF WellFormed
<1>7. Backed(r, runFile[r])' /\ Backed(r, runSafe[r])'
  BY <1>2, <1>3, <1>4 DEF recordVars
<1>8. InStep(r)'
  BY <1>2, <1>3, <1>4, <1>5 DEF Active, Bound, Steps, StageAt
<1>9. SavedSoFar(r)'
  BY <1>2 DEF recordVars
<1> QED
  <2>1. pc'[r] \notin {"init", "done"} /\ mem'[r] # Nil
    BY <1>2, <1>3, <1>5
  <2>2. Untouched(r)' /\ Succeeded(r)'
    BY <2>1, <1>2
  <2>3. JournalTypes'
    BY <1>w, <1>4 DEF IInv, TypeOK, JournalTypes, Written, Kept
  <2> QED
    BY <2>1, <2>2, <2>3, <1>6, <1>7, <1>8, <1>9

LEMMA FailPreserves ==
  ASSUME IInv, NEW r \in Runs, FailRun(r) PROVE RunInv(r)' /\ JournalTypes'
<1>1. PICK ok \in BOOLEAN :
        /\ Goto(r, "fail", "done")
        /\ Fail(r, ok)
        /\ outcome' = [outcome EXCEPT ![r] = "error"]
        /\ OnlyJournal
  BY DEF FailRun
<1> DEFINE next == [mem[r] EXCEPT !.stage = "failed", !.time = clock, !.error = "present"]
<1>2. /\ pc[r] = "fail" /\ pc'[r] = "done" /\ outcome'[r] = "error"
      /\ UNCHANGED recordVars /\ mem[r] # Nil
  BY <1>1 DEF IInv, TypeOK, Goto, OnlyJournal
<1>3. CASE Terminal(mem[r].stage) /\ UNCHANGED journalVars
  <2>1. RunInv(r)'
    BY <1>2, <1>3 DEF IInv, recordVars, journalVars, WellFormed, Active
  <2> QED
    BY <1>3, <2>1 DEF IInv, TypeOK, journalVars, JournalTypes
<1>4. CASE ~Terminal(mem[r].stage) /\ Persist(r, next, ok)
  <2>1. mem'[r] = next /\ runFile'[r] \in {next, runFile[r]} /\ runSafe'[r] \in {next, runSafe[r]}
    <3>1. TypeOK /\ Persist(r, next, ok)
      BY <1>4 DEF IInv
    <3> HIDE DEF next
    <3> QED
      BY <3>1 DEF TypeOK, Persist, AtomicWrite
  <2>w. Written(r, next)
    BY <1>4 DEF Written, Persist, AtomicWrite
  <2>2. /\ mem[r] \in Journals /\ clock \in Nat
    BY <1>2 DEF IInv, TypeOK, Kept
  <2>3. /\ next \in Journals /\ next.stage = "failed" /\ next.locks = mem[r].locks
        /\ next.result = mem[r].result /\ next.error = "present"
    BY <2>2 DEF Journals, Stages
  <2> HIDE DEF next
  <2>4. WellFormed(mem[r]) /\ WellFormed(next) /\ next # Nil
    BY <1>2, <1>4, <2>3 DEF IInv, WellFormed, Terminal
  <2>5. Readable(r)'
    BY <2>1, <2>4 DEF IInv, WellFormed
  <2>6. Backed(r, runFile[r])' /\ Backed(r, runSafe[r])'
    <3>1. /\ runFile'[r] = runFile[r] \/ runFile'[r].stage = "failed"
          /\ runSafe'[r] = runSafe[r] \/ runSafe'[r].stage = "failed"
      BY ONLY <2>1, <2>3
    <3> QED
      BY <1>2, <3>1 DEF IInv, recordVars
  <2>7. RunInv(r)'
    BY <1>2, <2>1, <2>4, <2>5, <2>6 DEF Active
  <2> QED
    BY <2>w, <2>3, <2>7 DEF IInv, TypeOK, JournalTypes, Written, Kept
<1> QED
  BY <1>1, <1>3, <1>4 DEF Fail

LEMMA QuietPreserves ==
  ASSUME IInv, NEW r \in Runs, LoadOwn(r) \/ PointAtOwn(r) \/ WorkFails(r) \/ Kill(r)
  PROVE  RunInv(r)'
<1>1. UNCHANGED runVars
  BY DEF LoadOwn, PointAtOwn, WorkFails, Kill
<1>2. Readable(r)' /\ Backed(r, runFile[r])' /\ Backed(r, runSafe[r])'
  BY <1>1 DEF IInv, runVars, WellFormed
<1>3. CASE LoadOwn(r)
  <2>1. pc[r] = "publish" /\ pc'[r] \in {"point", "fail"} /\ UNCHANGED outcome
    BY <1>3 DEF LoadOwn, Goto, OrFail, IInv, TypeOK
  <2> QED
    BY <1>1, <1>2, <2>1 DEF IInv, runVars, Active, Bound, Steps, StageAt
<1>4. CASE PointAtOwn(r)
  <2>1. pc[r] = "point" /\ pc'[r] \in {"done", "fail"}
    BY <1>4 DEF PointAtOwn, Goto, IInv, TypeOK
  <2>2. outcome'[r] = "ok" => pc'[r] = "done" \/ outcome[r] = "ok"
    BY <1>4 DEF PointAtOwn, Goto, IInv, TypeOK
  <2> QED
    BY <1>1, <1>2, <2>1, <2>2 DEF IInv, runVars, Active, Bound, Steps, StageAt
<1>5. CASE WorkFails(r)
  <2>1. /\ pc[r] \in Active \ {"complete", "publish", "point"}
        /\ pc'[r] = "fail" /\ UNCHANGED outcome
    BY <1>5 DEF WorkFails, IInv, TypeOK, Active, Steps
  <2> QED
    BY <1>1, <1>2, <2>1 DEF IInv, runVars, Active
<1>6. CASE Kill(r)
  <2>1. pc'[r] = "done" /\ outcome'[r] = "killed"
    BY <1>6 DEF Kill, IInv, TypeOK
  <2> QED
    BY <1>1, <1>2, <2>1 DEF Active
<1> QED
  BY <1>3, <1>4, <1>5, <1>6

-----------------------------------------------------------------------------
LEMMA RunStepPreserves ==
  ASSUME IInv, NEW r \in Runs, RunStep(r)
  PROVE  RunInv(r)' /\ (JournalTypes' \/ UNCHANGED journalVars)
<1> USE DEF Active, Bound, Steps, Stages, StageAt
<1>1. CASE RuntimeReady(r)
  <2>1. ~(Rank("runtime_ready") >= 2)
    BY DEF Rank
  <2>2. /\ "runtime_ready" \in Stages /\ StageAt("load") = "runtime_ready"
        /\ "preflight" \in Active /\ "load" \in Active
        /\ "preflight" \notin Bound /\ "load" \notin Bound
    OBVIOUS
  <2>3. AdvanceRun(r, "preflight", "runtime_ready", "load")
    BY <1>1 DEF RuntimeReady
  <2> QED
    BY ONLY IInv, r \in Runs, <2>1, <2>2, <2>3, AdvancePreserves
<1>2. CASE InputsResolved(r)
  BY <1>2, AdvancePreserves DEF InputsResolved
<1>3. CASE CandidateRunning(r)
  BY <1>3, AdvancePreserves DEF CandidateRunning
<1>4. CASE CandidateCompleted(r)
  BY <1>4, AdvancePreserves DEF CandidateCompleted
<1>5. CASE Judging(r)
  BY <1>5, AdvancePreserves DEF Judging
<1>6. CASE ExecuteCandidate(r) \/ SaveResult(r)
  BY <1>6, CandidatePreserves, SavePreserves DEF ExecuteCandidate, SaveResult
<1>7. CASE LoadOwn(r) \/ PointAtOwn(r) \/ WorkFails(r) \/ Kill(r)
  <2>1. UNCHANGED journalVars
    BY <1>7 DEF LoadOwn, PointAtOwn, WorkFails, Kill, runVars, journalVars
  <2> QED
    BY <2>1, <1>7, QuietPreserves
<1>8. CASE BeginRun(r) \/ BindRunLocks(r) \/ CompleteRun(r) \/ FailRun(r)
  BY <1>8, BeginPreserves, BindPreserves, CompletePreserves, FailPreserves
<1> QED
  BY <1>1, <1>2, <1>3, <1>4, <1>5, <1>6, <1>7, <1>8, Zenon DEF RunStep

(* Nothing but a run process or a power loss touches what RunInv is about. *)
LEMMA QuietStep ==
  ASSUME UNCHANGED vars \/ Tick \/ (\E d \in Readers : ReaderStep(d)) \/ Finished
  PROVE  UNCHANGED <<runVars, pc, outcome>>
<1>1. ASSUME NEW d \in Readers, ReaderStep(d) PROVE UNCHANGED <<runVars, pc, outcome>>
  BY <1>1 DEF ReaderStep, ReaderMoves, StartLatest, ScanEntry, CheckEntry, EndScan, LoadBest,
              PointAtBest, StartLookup, ShowBest, LookUp, ReadJournal
<1> QED
  BY <1>1 DEF Tick, Finished, vars

(* A power loss leaves each file as it was or as it was last synced, and   *)
(* what RunInv says of the two is enough for either.                       *)
LEMMA PowerLossPreserves ==
  ASSUME IInv, NEW r \in Runs, PowerLoss PROVE RunInv(r)'
<1>1. PICK back1 \in SUBSET Runs, back2 \in SUBSET Runs, back3 \in SUBSET Runs :
        /\ runFile' = Fallback(runFile, runSafe, back1)
        /\ resFile' = Fallback(resFile, resSafe, back2)
        /\ logFile' = Fallback(logFile, logSafe, back3)
  BY DEF PowerLoss
<1>2. /\ runFile'[r] \in {runFile[r], runSafe[r]} /\ runSafe'[r] = runFile'[r]
      /\ resFile'[r] \in {resFile[r], resSafe[r]} /\ resSafe'[r] = resFile'[r]
      /\ logFile'[r] \in {logFile[r], logSafe[r]} /\ logSafe'[r] = logFile'[r]
      /\ mem'[r] = mem[r]
  BY <1>1 DEF PowerLoss, Fallback
<1>3. /\ pc'[r] = (IF pc[r] = "init" THEN "init" ELSE "done")
      /\ outcome'[r] = (IF pc[r] \in {"init", "done"} THEN outcome[r] ELSE "killed")
  BY DEF PowerLoss
<1>4. Readable(r)'
  BY <1>2 DEF IInv, WellFormed
<1>5. Backed(r, runFile[r])' /\ Backed(r, runSafe[r])'
  <2>1. Backed(r, runFile[r]) /\ Backed(r, runSafe[r])
    BY DEF IInv
  <2>2. CASE runFile'[r] = runFile[r]
    BY <1>2, <2>1, <2>2
  <2>3. CASE runFile'[r] = runSafe[r]
    BY <1>2, <2>1, <2>3
  <2> QED
    BY <1>2, <2>2, <2>3
<1>6. Untouched(r)' /\ InStep(r)' /\ SavedSoFar(r)' /\ pc'[r] # "fail"
  BY <1>2, <1>3 DEF IInv, Active, Steps
<1>7. Succeeded(r)'
  <2>1. Succeeded(r)
    BY DEF IInv
  <2> QED
    BY <1>2, <1>3, <2>1
<1> QED
  BY <1>4, <1>5, <1>6, <1>7

-----------------------------------------------------------------------------
(* Every step keeps the types.                                             *)
RecordTypes == /\ resFile \in [Runs -> Kept(Records)]
               /\ resSafe \in [Runs -> Kept(Records)]
               /\ logFile \in [Runs -> Kept(Logs)]
               /\ logSafe \in [Runs -> Kept(Logs)]

LEMMA CandidateTypes ==
  ASSUME IInv, NEW r \in Runs, ExecuteCandidate(r) PROVE RecordTypes'
<1>1. RecordTypes
  BY DEF IInv, TypeOK, RecordTypes
<1>2. PICK ok \in BOOLEAN : \/ UNCHANGED <<logFile, logSafe>>
                             \/ \E log \in Logs : AtomicWrite(logFile, logSafe, r, log, ok)
  BY DEF ExecuteCandidate
<1>3. UNCHANGED <<resFile, resSafe>>
  BY DEF ExecuteCandidate
<1>4. CASE UNCHANGED <<logFile, logSafe>>
  BY <1>1, <1>3, <1>4 DEF RecordTypes
<1>5. CASE \E log \in Logs : AtomicWrite(logFile, logSafe, r, log, ok)
  BY <1>1, <1>3, <1>5 DEF RecordTypes, AtomicWrite, Kept
<1> QED
  BY <1>2, <1>4, <1>5

LEMMA SaveTypes ==
  ASSUME IInv, NEW r \in Runs, SaveResult(r) PROVE RecordTypes'
<1>1. RecordTypes
  BY DEF IInv, TypeOK, RecordTypes
<1>2. PICK ok \in BOOLEAN, digest \in Digests :
        /\ Goto(r, "judge", OrFail(ok, "complete"))
        /\ Save(r, [locks |-> mem[r].locks, digest |-> digest, events |-> logFile[r]], ok)
        /\ UNCHANGED <<logFile, logSafe>>
  BY DEF SaveResult
<1> DEFINE record == [locks |-> mem[r].locks, digest |-> digest, events |-> logFile[r]]
<1>3. mem[r] \in Journals /\ mem[r].locks # Nil
  <2>1. pc[r] = "judge"
    BY <1>2 DEF Goto
  <2> QED
    BY <2>1 DEF IInv, TypeOK, Kept, Active, Bound, Steps
<1>4. record \in Records
  BY <1>1, <1>3 DEF RecordTypes, Records, Journals, Kept
<1>5. AtomicWrite(resFile, resSafe, r, record, ok)
  BY <1>2 DEF Save
<1> HIDE DEF record
<1> QED
  BY <1>1, <1>2, <1>4, <1>5 DEF RecordTypes, AtomicWrite, Kept

LEMMA RunStepTypes ==
  ASSUME IInv, NEW r \in Runs, RunStep(r) PROVE TypeOK'
<1>1. /\ TypeOK /\ JournalTypes /\ RecordTypes
      /\ JournalTypes' \/ UNCHANGED journalVars
  BY RunStepPreserves DEF IInv, TypeOK, JournalTypes, RecordTypes
<1>2. JournalTypes'
  BY <1>1 DEF JournalTypes, journalVars
<1>3. RecordTypes'
  <2>1. CASE ExecuteCandidate(r) \/ SaveResult(r)
    BY <2>1, CandidateTypes, SaveTypes
  <2>2. CASE ~(ExecuteCandidate(r) \/ SaveResult(r))
    <3>1. UNCHANGED recordVars
      BY <2>2 DEF RunStep, BeginRun, RuntimeReady, BindRunLocks, InputsResolved,
                  CandidateRunning, CandidateCompleted, Judging, CompleteRun, LoadOwn,
                  PointAtOwn, WorkFails, FailRun, Kill, AdvanceRun, OnlyJournal, runVars, recordVars
    <3> QED
      BY <1>1, <3>1 DEF RecordTypes, recordVars
  <2> QED
    BY <2>1, <2>2
<1>4. UNCHANGED <<clock, reader, losses>>
  BY DEF RunStep, BeginRun, RuntimeReady, BindRunLocks, InputsResolved, ExecuteCandidate,
         SaveResult, CandidateRunning, CandidateCompleted, Judging, CompleteRun, LoadOwn,
         PointAtOwn, WorkFails, FailRun, Kill, AdvanceRun, OnlyJournal
<1>5. latest' \in Kept(Runs) /\ latestMay' \in SUBSET Kept(Runs)
  <2>1. CASE PointAtOwn(r)
    BY <1>1, <2>1 DEF TypeOK, PointAtOwn, WriteLatest, latestVars, Kept
  <2>2. CASE ~PointAtOwn(r)
    <3>1. UNCHANGED latestVars
      BY <2>2 DEF RunStep, BeginRun, RuntimeReady, BindRunLocks, InputsResolved, ExecuteCandidate,
                  SaveResult, CandidateRunning, CandidateCompleted, Judging, CompleteRun, LoadOwn,
                  WorkFails, FailRun, Kill, AdvanceRun, OnlyJournal, latestVars
    <3> QED
      BY <1>1, <3>1 DEF TypeOK, latestVars
  <2> QED
    BY <2>1, <2>2
<1>6. pc' \in [Runs -> Steps] /\ outcome' \in [Runs -> {"running", "ok", "error", "killed"}]
  <2>1. ASSUME NEW end \in {"ok", "error", "killed"} \cup {outcome[r]}, outcome' = [outcome EXCEPT ![r] = end]
        PROVE  outcome' \in [Runs -> {"running", "ok", "error", "killed"}]
    BY <1>1, <2>1 DEF TypeOK
  <2>2. ASSUME NEW here, NEW there \in Steps, Goto(r, here, there) PROVE pc' \in [Runs -> Steps]
    BY <1>1, <2>2 DEF TypeOK, Goto
  <2>3. CASE BeginRun(r)
    BY <2>1, <2>2, <2>3 DEF BeginRun, Steps
  <2>4. CASE PointAtOwn(r)
    BY <2>1, <2>2, <2>4 DEF PointAtOwn, Steps
  <2>5. CASE FailRun(r)
    BY <2>1, <2>2, <2>5 DEF FailRun, Steps
  <2>6. CASE WorkFails(r) \/ Kill(r)
    BY <1>1, <2>6 DEF TypeOK, WorkFails, Kill, Steps
  <2>7. CASE \/ RuntimeReady(r) \/ BindRunLocks(r) \/ InputsResolved(r) \/ CandidateRunning(r)
             \/ ExecuteCandidate(r) \/ CandidateCompleted(r) \/ Judging(r) \/ SaveResult(r)
             \/ CompleteRun(r) \/ LoadOwn(r)
    <3>1. UNCHANGED outcome
      BY <2>7 DEF RuntimeReady, BindRunLocks, InputsResolved, CandidateRunning, ExecuteCandidate,
                  CandidateCompleted, Judging, SaveResult, CompleteRun, LoadOwn, AdvanceRun
    <3>2. \E here : \E there \in Steps : Goto(r, here, there)
      BY <2>7 DEF RuntimeReady, BindRunLocks, InputsResolved, CandidateRunning, ExecuteCandidate,
                  CandidateCompleted, Judging, SaveResult, CompleteRun, LoadOwn, AdvanceRun, OrFail, Steps
    <3> QED
      BY <1>1, <2>2, <3>1, <3>2 DEF TypeOK
  <2> QED
    BY <2>3, <2>4, <2>5, <2>6, <2>7, Zenon DEF RunStep
<1> QED
  BY <1>1, <1>2, <1>3, <1>4, <1>5, <1>6 DEF TypeOK, JournalTypes, RecordTypes

LEMMA LeftTyped ==
  ASSUME NEW at \in ReaderSteps, NEW r \in Kept(Runs) PROVE LeftAt(at, r) \in ReaderStates
  BY DEF LeftAt, IdleReader, ReaderStates, Kept

LEMMA ReaderTypes ==
  ASSUME TypeOK, NEW d \in Readers, ReaderStep(d) PROVE TypeOK'
<1>1. UNCHANGED <<clock, runVars, pc, outcome, losses>>
  BY DEF ReaderStep, ReaderMoves, StartLatest, ScanEntry, CheckEntry, EndScan, LoadBest,
         PointAtBest, StartLookup, ShowBest, LookUp, ReadJournal
<1>2. reader[d] \in ReaderStates
  BY DEF TypeOK
<1>3. \A r \in Runs : runFile[r] # Nil => runFile[r].time \in Nat
  BY DEF TypeOK, Kept, Journals
<1>4. reader' \in [Readers -> ReaderStates]
  <2> DEFINE me == reader[d]
  <2> SUFFICES \E new \in ReaderStates : reader' = [reader EXCEPT ![d] = new]
    BY DEF TypeOK
  <2>1. CASE StartLatest(d)
    <3>1. [me EXCEPT !.at = "scan",
             !.must = {r \in Runs : runFile[r] # Nil},
             !.floor = {r \in Runs : runFile[r] # Nil /\ runFile[r].stage = "completed"}] \in ReaderStates
      BY <1>2 DEF ReaderStates, ReaderSteps
    <3> QED
      BY <2>1, <3>1, Zenon DEF StartLatest, ReaderMoves
  <2>2. CASE ScanEntry(d)
    <3>1. PICK r \in Runs :
            /\ runFile[r] # Nil
            /\ \/ reader' = [reader EXCEPT ![d] = LeftAt("error", r)]
               \/ reader' = [reader EXCEPT ![d] = [me EXCEPT !.seen = @ \cup {r}, !.at = "check",
                                                    !.cur = r, !.curTime = runFile[r].time]]
               \/ reader' = [reader EXCEPT ![d] = [me EXCEPT !.seen = @ \cup {r}]]
      BY <2>2, Zenon DEF ScanEntry, ReaderMoves
    <3>2. runFile[r].time \in Nat
      BY <1>3, <3>1
    <3>3. /\ [me EXCEPT !.seen = @ \cup {r}, !.at = "check",
                        !.cur = r, !.curTime = runFile[r].time] \in ReaderStates
          /\ [me EXCEPT !.seen = @ \cup {r}] \in ReaderStates
      BY <1>2, <3>2 DEF ReaderStates, ReaderSteps
    <3>4. LeftAt("error", r) \in ReaderStates
      BY LeftTyped DEF Kept, ReaderSteps
    <3> QED
      BY <3>1, <3>3, <3>4, Zenon
  <2>3. CASE CheckEntry(d)
    <3>1. \/ reader' = [reader EXCEPT ![d] = LeftAt("error", me.cur)]
          \/ reader' = [reader EXCEPT ![d] = [me EXCEPT !.at = "scan", !.best = me.cur,
                                                        !.bestTime = me.curTime]]
          \/ reader' = [reader EXCEPT ![d] = [me EXCEPT !.at = "scan"]]
      BY <2>3, Zenon DEF CheckEntry, ReaderMoves
    <3>2. /\ [me EXCEPT !.at = "scan", !.best = me.cur, !.bestTime = me.curTime] \in ReaderStates
          /\ [me EXCEPT !.at = "scan"] \in ReaderStates
          /\ me.cur \in Kept(Runs)
      BY <1>2 DEF ReaderStates, ReaderSteps, Kept
    <3>3. LeftAt("error", me.cur) \in ReaderStates
      BY <3>2, LeftTyped DEF ReaderSteps
    <3> QED
      BY <3>1, <3>2, <3>3, Zenon
  <2>4. CASE EndScan(d) \/ LoadBest(d) \/ PointAtBest(d)
    <3>1. \/ \E at \in {"none", "publish", "point", "show"} :
               reader' = [reader EXCEPT ![d] = [me EXCEPT !.at = at]]
          \/ reader' = [reader EXCEPT ![d] = LeftAt("error", me.best)]
      BY <2>4, Zenon DEF EndScan, LoadBest, PointAtBest, ReaderMoves
    <3>2. me.best \in Kept(Runs) /\ \A at \in ReaderSteps : [me EXCEPT !.at = at] \in ReaderStates
      BY <1>2 DEF ReaderStates, Kept
    <3>3. LeftAt("error", me.best) \in ReaderStates
      BY <3>2, LeftTyped DEF ReaderSteps
    <3>4. {"none", "publish", "point", "show"} \subseteq ReaderSteps
      BY DEF ReaderSteps
    <3> QED
      BY <3>1, <3>2, <3>3, <3>4, Zenon
  <2>5. CASE StartLookup(d) \/ ShowBest(d) \/ ReadJournal(d)
    <3>1. me.cur \in Kept(Runs) /\ me.best \in Kept(Runs) /\ Runs \subseteq Kept(Runs)
      BY <1>2 DEF ReaderStates, Kept
    <3>2. \E r \in Kept(Runs),
             at \in {"journal", "result", "unbacked", "unknown", "error", "missing", "status"} :
            reader' = [reader EXCEPT ![d] = LeftAt(at, r)]
      BY <2>5, <3>1, Zenon DEF StartLookup, ShowBest, LookUp, ReadJournal, ReaderMoves
    <3>3. {"journal", "result", "unbacked", "unknown", "error", "missing", "status"}
             \subseteq ReaderSteps
      BY DEF ReaderSteps
    <3> QED
      BY <3>2, <3>3, LeftTyped, Zenon
  <2> QED
    BY <2>1, <2>2, <2>3, <2>4, <2>5 DEF ReaderStep
<1>5. latest' \in Kept(Runs) /\ latestMay' \in SUBSET Kept(Runs)
  <2>1. CASE PointAtBest(d)
    BY <1>2, <2>1 DEF TypeOK, PointAtBest, WriteLatest, latestVars, Kept, ReaderStates
  <2>2. CASE ~PointAtBest(d)
    <3>1. UNCHANGED latestVars
      BY <2>2 DEF ReaderStep, StartLatest, ScanEntry, CheckEntry, EndScan, LoadBest,
                  StartLookup, ShowBest, LookUp, ReadJournal, latestVars
    <3> QED
      BY <3>1 DEF TypeOK, latestVars
  <2> QED
    BY <2>1, <2>2
<1> QED
  BY <1>1, <1>4, <1>5 DEF TypeOK, runVars

LEMMA PowerLossTypes == ASSUME TypeOK, PowerLoss PROVE TypeOK'
<1>1. PICK back1 \in SUBSET Runs, back2 \in SUBSET Runs, back3 \in SUBSET Runs :
        /\ runFile' = Fallback(runFile, runSafe, back1)
        /\ resFile' = Fallback(resFile, resSafe, back2)
        /\ logFile' = Fallback(logFile, logSafe, back3)
  BY DEF PowerLoss
<1>2. /\ runFile' \in [Runs -> Kept(Journals)]
      /\ resFile' \in [Runs -> Kept(Records)]
      /\ logFile' \in [Runs -> Kept(Logs)]
  BY <1>1 DEF TypeOK, Fallback
<1>3. latest' \in Kept(Runs) /\ latestMay' \in SUBSET Kept(Runs)
  BY DEF TypeOK, PowerLoss
<1>4. pc' \in [Runs -> Steps] /\ outcome' \in [Runs -> {"running", "ok", "error", "killed"}]
  BY DEF TypeOK, PowerLoss, Steps
<1>5. reader' \in [Readers -> ReaderStates]
  BY DEF TypeOK, PowerLoss, IdleReader, ReaderStates, ReaderSteps
<1>6. losses' \in Nat /\ UNCHANGED <<clock, mem>>
  BY DEF TypeOK, PowerLoss
<1> QED
  BY <1>2, <1>3, <1>4, <1>5, <1>6 DEF TypeOK, PowerLoss

-----------------------------------------------------------------------------
LEMMA NextIInv == IInv /\ [Next]_vars => IInv'
<1> SUFFICES ASSUME IInv, [Next]_vars PROVE IInv'
  OBVIOUS
<1>1. CASE \E r \in Runs : RunStep(r)
  <2>1. PICK r \in Runs : RunStep(r)
    BY <1>1
  <2>2. ASSUME NEW q \in Runs PROVE RunInv(q)'
    <3>1. CASE q = r
      BY <2>1, <3>1, RunStepPreserves
    <3>2. CASE q # r
      BY <2>1, <3>2, StepOfAnother, Frame DEF IInv
    <3> QED
      BY <3>1, <3>2
  <2> QED
    BY <2>1, <2>2, RunStepTypes DEF IInv
<1>2. CASE UNCHANGED vars \/ Tick \/ (\E d \in Readers : ReaderStep(d)) \/ Finished
  <2>1. UNCHANGED <<runVars, pc, outcome>>
    BY <1>2, QuietStep
  <2>2. ASSUME NEW q \in Runs PROVE RunInv(q)'
    <3>1. RunInv(q)
      BY DEF IInv
    <3>2. Same(q)
      BY <2>1 DEF runVars, Same
    <3> QED
      BY <3>1, <3>2, Frame
  <2>3. TypeOK'
    <3>1. CASE UNCHANGED vars \/ Finished
      BY <3>1 DEF IInv, TypeOK, Finished, vars, runVars, latestVars
    <3>2. CASE Tick
      BY <3>2 DEF IInv, TypeOK, Tick, runVars, latestVars
    <3>3. CASE \E d \in Readers : ReaderStep(d)
      BY <3>3, ReaderTypes DEF IInv
    <3> QED
      BY <1>2, <3>1, <3>2, <3>3
  <2> QED
    BY <2>2, <2>3 DEF IInv
<1>3. CASE PowerLoss
  <2>1. TypeOK'
    BY <1>3, PowerLossTypes DEF IInv
  <2>2. \A q \in Runs : RunInv(q)'
    BY <1>3, PowerLossPreserves
  <2> QED
    BY <2>1, <2>2 DEF IInv
<1> QED
  BY <1>1, <1>2, <1>3 DEF Next

LEMMA IInvHolds == Spec => []IInv
  BY InitIInv, NextIInv, PTL DEF Spec

(* The variables of every reachable state have their types: among others,  *)
(* no journal or record is ever written that its schema does not allow.    *)
THEOREM TypeCorrect == Spec => []TypeOK
<1>1. IInv => TypeOK
  BY DEF IInv
<1> QED
  BY <1>1, IInvHolds, PTL

(* A journal file that says completed, now or after a power loss, is       *)
(* backed by the record, the event log and the digests it names.           *)
THEOREM CompletedRunsAreBacked == Spec => []CompletedIsBacked
<1>1. IInv => CompletedIsBacked
  BY DEF IInv, CompletedIsBacked
<1> QED
  BY <1>1, IInvHolds, PTL

(* Every journal file left behind, whatever failed, passes the checks of   *)
(* RunJournal::load.                                                       *)
THEOREM JournalsAreReadable == Spec => []JournalsReadable
<1>1. IInv => JournalsReadable
  BY DEF IInv, JournalsReadable
<1> QED
  BY <1>1, IInvHolds, PTL

(* The result of a run that reported success loads ever after, power       *)
(* losses included.                                                        *)
THEOREM ReportedSuccessIsDurable == Spec => []SuccessIsDurable
<1>1. ASSUME IInv, NEW r \in Runs, outcome[r] = "ok"
      PROVE  Loadable(r) /\ runSafe[r] = runFile[r]
  <2>1. /\ runFile[r] # Nil /\ runSafe[r] = runFile[r] /\ runFile[r].stage = "completed"
        /\ WellFormed(runFile[r])
    BY <1>1 DEF IInv
  <2>2. Backed(r, runFile[r])
    BY <1>1 DEF IInv
  <2> QED
    BY <2>1, <2>2 DEF Loadable
<1>2. IInv => SuccessIsDurable
  BY <1>1 DEF SuccessIsDurable
<1> QED
  BY <1>2, IInvHolds, PTL

-----------------------------------------------------------------------------
(* results/latest.  What was once loaded stays: its record for good, its   *)
(* completed journal until a power loss takes it back.                     *)
Completed(r) == runFile[r] # Nil /\ runFile[r].stage = "completed"

Certain(r) == /\ resFile[r] # Nil /\ resSafe[r] # Nil
              /\ losses = 0 => Completed(r)

(* A failed run whose file says completed knows that it is.                *)
Settled(r) == pc[r] = "fail" /\ Completed(r) => mem[r].stage = "completed"

ReaderSure(d) ==
  /\ reader[d].at \in {"publish", "point"} => reader[d].best \in Runs
  /\ reader[d].at = "point" => Certain(reader[d].best)

LatestInv ==
  /\ latest \in latestMay
  /\ \A r \in Runs : Settled(r)
  /\ \A r \in latestMay : r # Nil => Certain(r)
  /\ \A d \in Readers : ReaderSure(d)

(* No step but a power loss changes a journal file that says completed.    *)
LEMMA CompletedStays ==
  ASSUME IInv, NEW r \in Runs, Settled(r), RunStep(r), Completed(r)
  PROVE  UNCHANGED journalVars /\ UNCHANGED recordVars
<1>1. pc[r] \in {"publish", "point", "fail", "done"}
  BY DEF IInv, TypeOK, Steps, Active, StageAt, Completed
<1>2. pc[r] = "fail" => Terminal(mem[r].stage)
  BY DEF Settled, Terminal
<1>3. LoadOwn(r) \/ PointAtOwn(r) \/ FailRun(r) \/ Kill(r)
  BY <1>1 DEF RunStep, BeginRun, RuntimeReady, BindRunLocks, InputsResolved, CandidateRunning,
              ExecuteCandidate, CandidateCompleted, Judging, SaveResult, CompleteRun, WorkFails,
              AdvanceRun, Goto
<1>4. CASE FailRun(r)
  BY <1>2, <1>4 DEF FailRun, Fail, Goto, OnlyJournal
<1>5. CASE LoadOwn(r) \/ PointAtOwn(r) \/ Kill(r)
  BY <1>5 DEF LoadOwn, PointAtOwn, Kill, runVars, journalVars, recordVars
<1> QED
  BY <1>3, <1>4, <1>5

(* A journal is written as it is in memory or not at all.                  *)
LEMMA WrittenFromMemory ==
  ASSUME TypeOK, NEW r \in Runs, RunStep(r) PROVE runFile'[r] \in {runFile[r], mem'[r]}
<1> USE DEF TypeOK, Persist, AtomicWrite
<1>1. CASE BeginRun(r)
  BY <1>1 DEF BeginRun, Begin
<1>2. ASSUME NEW here, NEW stage, NEW there, AdvanceRun(r, here, stage, there)
      PROVE  runFile'[r] \in {runFile[r], mem'[r]}
  BY <1>2 DEF AdvanceRun, Advance
<1>3. CASE BindRunLocks(r)
  BY <1>3 DEF BindRunLocks, BindLocks
<1>4. CASE CompleteRun(r)
  BY <1>4 DEF CompleteRun, Complete
<1>5. CASE FailRun(r)
  BY <1>5 DEF FailRun, Fail, journalVars
<1>6. CASE ExecuteCandidate(r) \/ SaveResult(r) \/ LoadOwn(r) \/ PointAtOwn(r)
           \/ WorkFails(r) \/ Kill(r)
  BY <1>6 DEF ExecuteCandidate, SaveResult, LoadOwn, PointAtOwn, WorkFails, Kill, runVars,
              journalVars
<1> QED
  BY <1>1, <1>2, <1>3, <1>4, <1>5, <1>6
     DEF RunStep, RuntimeReady, InputsResolved, CandidateRunning, CandidateCompleted, Judging

LEMMA SettledKeeps ==
  ASSUME IInv, NEW r \in Runs, Settled(r), RunStep(r) PROVE Settled(r)'
<1> SUFFICES ASSUME pc'[r] = "fail", Completed(r)' PROVE mem'[r].stage = "completed"
  BY DEF Settled
<1>1. CASE Completed(r)
  <2>1. mem'[r] = mem[r] /\ runFile'[r] = runFile[r]
    BY <1>1, CompletedStays DEF journalVars
  <2>2. pc[r] # "done" /\ pc[r] # "init"
    BY <1>1 DEF IInv, TypeOK, Completed, RunStep, BeginRun, RuntimeReady, BindRunLocks,
                InputsResolved, CandidateRunning, ExecuteCandidate, CandidateCompleted, Judging,
                SaveResult, CompleteRun, LoadOwn, PointAtOwn, WorkFails, FailRun, Kill,
                AdvanceRun, Goto
  <2>3. pc[r] = "fail" \/ mem[r] = runFile[r]
    BY <2>2 DEF IInv, TypeOK, Active
  <2> QED
    BY <1>1, <2>1, <2>3 DEF Settled, Completed
<1>2. CASE ~Completed(r)
  BY <1>2, WrittenFromMemory DEF IInv, Completed
<1> QED
  BY <1>1, <1>2

(* Records are replaced, never removed.                                    *)
LEMMA RecordStays ==
  ASSUME IInv, NEW r \in Runs, RunStep(r)
  PROVE  /\ resFile[r] # Nil => resFile'[r] # Nil
         /\ resSafe[r] # Nil => resSafe'[r] # Nil
<1>1. CASE SaveResult(r)
  <2>1. PICK ok \in BOOLEAN, digest \in Digests :
          /\ Goto(r, "judge", OrFail(ok, "complete"))
          /\ Save(r, [locks |-> mem[r].locks, digest |-> digest, events |-> logFile[r]], ok)
    BY <1>1 DEF SaveResult
  <2> DEFINE record == [locks |-> mem[r].locks, digest |-> digest, events |-> logFile[r]]
  <2>2. pc[r] = "judge"
    BY <2>1 DEF Goto
  <2>3. mem[r] \in Journals /\ mem[r].locks # Nil
    BY <2>2 DEF IInv, TypeOK, Kept, Active, Bound, Steps
  <2>4. record \in Records
    BY <2>3 DEF IInv, TypeOK, Records, Journals, Kept
  <2>5. AtomicWrite(resFile, resSafe, r, record, ok)
    BY <2>1 DEF Save
  <2>6. record # Nil
    BY <2>4
  <2> HIDE DEF record
  <2> QED
    BY <2>5, <2>6 DEF IInv, TypeOK, AtomicWrite
<1>2. CASE ~SaveResult(r)
  <2>1. UNCHANGED <<resFile, resSafe>>
    BY <1>2 DEF RunStep, BeginRun, RuntimeReady, BindRunLocks, InputsResolved, CandidateRunning,
                ExecuteCandidate, CandidateCompleted, Judging, CompleteRun, LoadOwn, PointAtOwn,
                WorkFails, FailRun, Kill, AdvanceRun, OnlyJournal, runVars, recordVars
  <2> QED
    BY <2>1
<1> QED
  BY <1>1, <1>2

LEMMA CertainStays ==
  ASSUME IInv, LatestInv, NEW r \in Runs, Certain(r), NEW q \in Runs, RunStep(q)
  PROVE  Certain(r)'
<1>1. UNCHANGED losses
  BY DEF RunStep, BeginRun, RuntimeReady, BindRunLocks, InputsResolved, ExecuteCandidate,
         SaveResult, CandidateRunning, CandidateCompleted, Judging, CompleteRun, LoadOwn,
         PointAtOwn, WorkFails, FailRun, Kill, AdvanceRun, OnlyJournal
<1>2. CASE q # r
  BY <1>1, <1>2, StepOfAnother DEF IInv, Same, Certain, Completed
<1>3. CASE q = r
  <2>1. resFile'[r] # Nil /\ resSafe'[r] # Nil
    BY <1>3, RecordStays DEF Certain
  <2>2. Completed(r) => Completed(r)'
    BY <1>3, CompletedStays DEF LatestInv, Completed, journalVars
  <2> QED
    BY <1>1, <2>1, <2>2 DEF Certain
<1> QED
  BY <1>2, <1>3

(* A completed journal vouches for its record.                             *)
LEMMA CompletedIsCertain ==
  ASSUME IInv, NEW r \in Runs, Completed(r) PROVE Certain(r)
<1>1. Backed(r, runFile[r])
  BY DEF IInv
<1> QED
  BY <1>1 DEF Completed, Certain

LEMMA RunStepLatest ==
  ASSUME IInv, LatestInv, NEW q \in Runs, RunStep(q) PROVE LatestInv'
<1>1. UNCHANGED reader
  BY DEF RunStep, BeginRun, RuntimeReady, BindRunLocks, InputsResolved, ExecuteCandidate,
         SaveResult, CandidateRunning, CandidateCompleted, Judging, CompleteRun, LoadOwn,
         PointAtOwn, WorkFails, FailRun, Kill, AdvanceRun, OnlyJournal
<1>2. \A r \in Runs : Settled(r)'
  <2>1. ASSUME NEW r \in Runs, r # q PROVE Settled(r)'
    BY <2>1, StepOfAnother DEF IInv, LatestInv, Same, Settled, Completed
  <2> QED
    BY <2>1, SettledKeeps DEF LatestInv
<1>3. \A d \in Readers : ReaderSure(d)'
  BY <1>1, CertainStays DEF LatestInv, ReaderSure
<1>4. \A r \in latestMay : r # Nil => Certain(r)'
  BY CertainStays DEF LatestInv, IInv, TypeOK, Kept
<1>5. CASE PointAtOwn(q)
  <2>1. Completed(q)
    BY <1>5 DEF PointAtOwn, Goto, IInv, Active, Steps, StageAt, Completed
  <2>2. Certain(q)'
    BY <2>1, CompletedIsCertain, CertainStays
  <2>3. latest' \in latestMay' /\ latestMay' \subseteq latestMay \cup {q}
    BY <1>5 DEF PointAtOwn, WriteLatest, latestVars, LatestInv
  <2> QED
    BY <1>2, <1>3, <1>4, <2>2, <2>3 DEF LatestInv
<1>6. CASE ~PointAtOwn(q)
  <2>1. UNCHANGED latestVars
    BY <1>6 DEF RunStep, BeginRun, RuntimeReady, BindRunLocks, InputsResolved, ExecuteCandidate,
                SaveResult, CandidateRunning, CandidateCompleted, Judging, CompleteRun, LoadOwn,
                WorkFails, FailRun, Kill, AdvanceRun, OnlyJournal, latestVars
  <2> QED
    BY <1>2, <1>3, <1>4, <2>1 DEF LatestInv, latestVars
<1> QED
  BY <1>5, <1>6

LEMMA ReaderStepLatest ==
  ASSUME IInv, LatestInv, NEW d \in Readers, ReaderStep(d) PROVE LatestInv'
<1> DEFINE me == reader[d]
<1>1. UNCHANGED <<runVars, pc, losses>>
  BY DEF ReaderStep, ReaderMoves, StartLatest, ScanEntry, CheckEntry, EndScan, LoadBest,
         PointAtBest, StartLookup, ShowBest, LookUp, ReadJournal
<1>2. \A r : (Certain(r) => Certain(r)') /\ (Settled(r) => Settled(r)')
  BY <1>1 DEF Certain, Settled, Completed, runVars
<1>3. \A e \in Readers : e # d => reader'[e] = reader[e]
  <2>1. \E here, new : ReaderMoves(d, here, new)
    BY Zenon DEF ReaderStep, StartLatest, ScanEntry, CheckEntry, EndScan, LoadBest, PointAtBest,
                 StartLookup, ShowBest, LookUp, ReadJournal
  <2>2. PICK new : reader' = [reader EXCEPT ![d] = new]
    BY <2>1 DEF ReaderMoves
  <2> QED
    BY <2>2 DEF IInv, TypeOK
<1>4. reader \in [Readers -> ReaderStates] /\ me \in ReaderStates
  BY DEF IInv, TypeOK
<1>5. ReaderSure(d)'
  <2>1. CASE EndScan(d)
    <3>1. reader'[d].at = (IF me.best = Nil THEN "none" ELSE "publish") /\ reader'[d].best = me.best
      BY <1>4, <2>1 DEF EndScan, ReaderMoves, ReaderStates
    <3> QED
      BY <1>4, <3>1 DEF ReaderSure, ReaderStates
  <2>2. CASE LoadBest(d)
    <3>1. CASE Loadable(me.best)
      <4>1. reader'[d].at = "point" /\ reader'[d].best = me.best
        BY <1>4, <2>2, <3>1 DEF LoadBest, ReaderMoves, ReaderStates
      <4>2. me.best \in Runs
        BY <2>2 DEF LatestInv, ReaderSure, LoadBest, ReaderMoves
      <4>3. Certain(me.best)
        BY <3>1, <4>2, CompletedIsCertain DEF Loadable, Completed
      <4> QED
        BY <1>1, <4>1, <4>2, <4>3 DEF ReaderSure, Certain, Completed, runVars
    <3>2. CASE ~Loadable(me.best)
      <4>1. reader'[d].at = "error"
        BY <1>4, <2>2, <3>2 DEF LoadBest, ReaderMoves, LeftAt, IdleReader
      <4> QED
        BY <4>1 DEF ReaderSure
    <3> QED
      BY <3>1, <3>2
  <2>3. CASE ~EndScan(d) /\ ~LoadBest(d)
    <3>1. reader'[d].at \notin {"publish", "point"}
      <4>1. CASE StartLatest(d)
        BY <1>4, <4>1 DEF StartLatest, ReaderMoves, ReaderStates
      <4>2. CASE ScanEntry(d)
        <5>1. me.at = "scan"
          BY <4>2 DEF ScanEntry, ReaderMoves
        <5> QED
          BY <1>4, <4>2, <5>1 DEF ScanEntry, ReaderMoves, ReaderStates, LeftAt, IdleReader
      <4>3. CASE CheckEntry(d)
        BY <1>4, <4>3 DEF CheckEntry, ReaderMoves, ReaderStates, LeftAt, IdleReader
      <4>4. CASE PointAtBest(d)
        BY <1>4, <4>4 DEF PointAtBest, ReaderMoves, ReaderStates, LeftAt, IdleReader
      <4>5. CASE StartLookup(d) \/ ShowBest(d)
        <5>1. PICK r, here : LookUp(d, r, here)
          BY <4>5 DEF StartLookup, ShowBest
        <5>2. \E at \in {"journal", "result", "unbacked"} :
                reader' = [reader EXCEPT ![d] = LeftAt(at, r)]
          BY <5>1, Zenon DEF LookUp, ReaderMoves
        <5> QED
          BY <1>4, <5>2 DEF LeftAt, IdleReader
      <4>6. CASE ReadJournal(d)
        BY <1>4, <4>6 DEF ReadJournal, ReaderMoves, LeftAt, IdleReader
      <4> QED
        BY <2>3, <4>1, <4>2, <4>3, <4>4, <4>5, <4>6 DEF ReaderStep
    <3> QED
      BY <3>1 DEF ReaderSure
  <2> QED
    BY <2>1, <2>2, <2>3
<1>6. \A e \in Readers : ReaderSure(e)'
  <2>1. ASSUME NEW e \in Readers, e # d PROVE ReaderSure(e)'
    <3>1. reader'[e] = reader[e] /\ ReaderSure(e)
      BY <1>3, <2>1 DEF LatestInv
    <3> QED
      BY <1>1, <3>1 DEF ReaderSure, Certain, Completed, runVars
  <2> QED
    BY <1>5, <2>1
<1>7. CASE PointAtBest(d)
  <2>1. me.best \in Runs /\ Certain(me.best)
    BY <1>7 DEF PointAtBest, ReaderMoves, LatestInv, ReaderSure
  <2>2. latest' \in latestMay' /\ latestMay' \subseteq latestMay \cup {me.best}
    BY <1>7 DEF PointAtBest, WriteLatest, latestVars, LatestInv
  <2> QED
    BY <1>2, <1>6, <2>1, <2>2 DEF LatestInv
<1>8. CASE ~PointAtBest(d)
  <2>1. UNCHANGED latestVars
    BY <1>8 DEF ReaderStep, StartLatest, ScanEntry, CheckEntry, EndScan, LoadBest,
                StartLookup, ShowBest, LookUp, ReadJournal, latestVars
  <2> QED
    BY <1>2, <1>6, <2>1 DEF LatestInv, latestVars
<1> QED
  BY <1>7, <1>8

LEMMA PowerLossLatest == ASSUME IInv, LatestInv, PowerLoss PROVE LatestInv'
<1>1. losses' # 0
  BY DEF PowerLoss, IInv, TypeOK
<1>2. \A r \in Runs : /\ resFile[r] # Nil /\ resSafe[r] # Nil => resFile'[r] # Nil /\ resSafe'[r] # Nil
                      /\ pc'[r] # "fail"
  BY DEF PowerLoss, Fallback
<1>3. \A d \in Readers : reader'[d].at \notin {"publish", "point"}
  BY DEF PowerLoss, ReaderDone, IdleReader
<1>4. latestMay' = {latest'} /\ latest' \in latestMay
  BY DEF PowerLoss
<1> QED
  BY <1>1, <1>2, <1>3, <1>4 DEF LatestInv, Settled, Certain, ReaderSure, IInv, TypeOK, Kept

LEMMA NextLatest == IInv /\ LatestInv /\ [Next]_vars => LatestInv'
<1> SUFFICES ASSUME IInv, LatestInv, [Next]_vars PROVE LatestInv'
  OBVIOUS
<1>1. CASE UNCHANGED vars \/ Tick \/ Finished
  <2>1. UNCHANGED <<runVars, latestVars, pc, reader, losses>>
    BY <1>1 DEF Tick, Finished, vars
  <2> QED
    BY <2>1 DEF LatestInv, Settled, Certain, Completed, ReaderSure, runVars, latestVars
<1> QED
  BY <1>1, RunStepLatest, ReaderStepLatest, PowerLossLatest DEF Next

LEMMA LatestInvHolds == Spec => []LatestInv
<1>1. Init => LatestInv
  BY DEF Init, LatestInv, Settled, ReaderSure, IdleReader
<1> QED
  BY <1>1, NextLatest, IInvHolds, PTL DEF Spec

(* results/latest never names a run that cannot be shown, whoever wrote it *)
(* and whatever failed; after a power loss its record at least is there.   *)
THEOREM LatestCanBeShown == Spec => []LatestIsShowable
<1>1. IInv /\ LatestInv => LatestIsShowable
  <2> SUFFICES ASSUME IInv, LatestInv, latest # Nil
               PROVE  resFile[latest] # Nil /\ (losses = 0 => Loadable(latest))
    BY DEF LatestIsShowable
  <2>1. latest \in Runs /\ Certain(latest)
    BY DEF IInv, TypeOK, Kept, LatestInv
  <2>2. Backed(latest, runFile[latest]) /\ Readable(latest)
    BY <2>1 DEF IInv
  <2> QED
    BY <2>1, <2>2 DEF Certain, Completed, Loadable
<1> QED
  BY <1>1, LatestInvHolds, IInvHolds, PTL

-----------------------------------------------------------------------------
(* Journals move forward.  A step writes a journal that is later than the  *)
(* one in memory, and what is on disk, now and after a power loss, is never*)
(* ahead of memory: a failed write leaves it one journal behind.           *)
Behind(r) ==
  /\ Later(runSafe[r], runFile[r])
  /\ pc[r] \in Active \cup {"fail"} => Later(runFile[r], mem[r])

LEMMA LaterIsOrder ==
  /\ \A j : Later(j, j)
  /\ \A i, j, k : Later(i, j) /\ Later(j, k) => Later(i, k)
  BY RankFacts DEF Later

(* What a run process writes: nothing, or a journal no earlier than memory.*)
WritesForward(r) ==
  \/ mem'[r] = mem[r] /\ runFile'[r] = runFile[r] /\ runSafe'[r] = runSafe[r]
  \/ \E next :
       /\ mem'[r] = next
       /\ \/ runFile'[r] = next /\ runSafe'[r] \in {runSafe[r], next}
          \/ runFile'[r] = runFile[r] /\ runSafe'[r] = runSafe[r]
       /\ Later(IF pc[r] = "init" THEN Nil ELSE mem[r], next)

(* A run that writes has its journal in memory.                            *)
LEMMA HasJournal ==
  ASSUME IInv, NEW r \in Runs, pc[r] \in Active \cup {"fail"} PROVE mem[r] \in Journals
  BY DEF IInv, TypeOK, Kept

LEMMA AdvanceForward ==
  ASSUME IInv, NEW r \in Runs, NEW here \in Active, NEW stage \in Stages, NEW there,
         AdvanceRun(r, here, stage, there)
  PROVE  WritesForward(r)
<1> DEFINE next == [mem[r] EXCEPT !.stage = stage, !.time = clock]
<1>1. PICK ok \in BOOLEAN : pc[r] = here /\ Advance(r, stage, ok)
  BY DEF AdvanceRun, Goto
<1>2. mem[r] \in Journals /\ clock \in Nat
  BY <1>1, HasJournal DEF IInv, TypeOK
<1>3. /\ next \in Journals /\ next.stage = stage /\ next.locks = mem[r].locks
      /\ ~Terminal(mem[r].stage) /\ Rank(stage) = Rank(mem[r].stage) + 1
      /\ Persist(r, next, ok)
  BY <1>1, <1>2 DEF Advance, AdvanceAllowed, Journals
<1> HIDE DEF next
<1>4. Later(mem[r], next)
  BY <1>3, RankFacts DEF Later
<1> QED
  BY <1>1, <1>3, <1>4 DEF WritesForward, IInv, TypeOK, Persist, AtomicWrite, Active

LEMMA StepWritesForward == ASSUME IInv, NEW r \in Runs, RunStep(r) PROVE WritesForward(r)
<1>1. CASE BeginRun(r)
  <2> DEFINE first == [stage |-> "planned", locks |-> Nil, time |-> clock,
                       result |-> Nil, error |-> "absent"]
  <2>1. PICK ok \in BOOLEAN : pc[r] = "init" /\ Persist(r, first, ok)
    BY <1>1 DEF BeginRun, Goto, Begin
  <2> HIDE DEF first
  <2>2. Later(Nil, first)
    BY DEF Later
  <2> QED
    BY <2>1, <2>2 DEF WritesForward, IInv, TypeOK, Persist, AtomicWrite
<1>2. CASE RuntimeReady(r) \/ InputsResolved(r) \/ CandidateRunning(r)
           \/ CandidateCompleted(r) \/ Judging(r)
  BY <1>2, AdvanceForward DEF RuntimeReady, InputsResolved, CandidateRunning,
                              CandidateCompleted, Judging, Active, Steps, Stages
<1>3. CASE BindRunLocks(r)
  <2>1. PICK ok \in BOOLEAN, locks \in LockPairs : pc[r] = "load" /\ BindLocks(r, locks, ok)
    BY <1>3 DEF BindRunLocks, Goto
  <2> DEFINE next == [mem[r] EXCEPT !.locks = locks, !.time = clock]
  <2>2. mem[r] \in Journals /\ clock \in Nat
    BY <2>1, HasJournal DEF IInv, TypeOK, Active, Steps
  <2>3. /\ next \in Journals /\ next.stage = mem[r].stage
        /\ mem[r].stage = "runtime_ready" /\ mem[r].locks = Nil
        /\ Persist(r, next, ok)
    BY <2>1, <2>2 DEF BindLocks, BindAllowed, Journals
  <2> HIDE DEF next
  <2>4. Later(mem[r], next)
    BY <2>3, RankFacts DEF Later, Terminal
  <2> QED
    BY <2>1, <2>3, <2>4 DEF WritesForward, IInv, TypeOK, Persist, AtomicWrite
<1>4. CASE CompleteRun(r)
  <2>1. PICK ok \in BOOLEAN : pc[r] = "complete" /\ Complete(r, resFile[r].digest, ok)
    BY <1>4 DEF CompleteRun, Goto
  <2> DEFINE next == [mem[r] EXCEPT !.stage = "completed", !.time = clock,
                                    !.result = resFile[r].digest]
  <2>2. mem[r] \in Journals /\ clock \in Nat /\ resFile[r] \in Records
    BY <2>1, HasJournal DEF IInv, TypeOK, Kept, Active, Steps
  <2>3. /\ next \in Journals /\ next.stage = "completed" /\ next.locks = mem[r].locks
        /\ mem[r].stage = "judging"
        /\ Persist(r, next, ok)
    BY <2>1, <2>2 DEF Complete, CompleteAllowed, Journals, Records, Stages
  <2> HIDE DEF next
  <2>4. Later(mem[r], next)
    BY <2>3 DEF Later, Terminal, Rank
  <2> QED
    BY <2>1, <2>3, <2>4 DEF WritesForward, IInv, TypeOK, Persist, AtomicWrite
<1>5. CASE FailRun(r)
  <2>1. PICK ok \in BOOLEAN : pc[r] = "fail" /\ Fail(r, ok)
    BY <1>5 DEF FailRun, Goto
  <2>2. CASE UNCHANGED journalVars
    BY <2>2 DEF WritesForward, journalVars
  <2> DEFINE next == [mem[r] EXCEPT !.stage = "failed", !.time = clock, !.error = "present"]
  <2>3. CASE ~Terminal(mem[r].stage) /\ Persist(r, next, ok)
    <3>1. mem[r] \in Journals /\ clock \in Nat
      BY <2>1, HasJournal DEF IInv, TypeOK
    <3>2. next \in Journals /\ next.stage = "failed" /\ next.locks = mem[r].locks
      BY <3>1 DEF Journals, Stages
    <3> HIDE DEF next
    <3>3. Rank("failed") = 6
      BY DEF Rank
    <3>4. Later(mem[r], next)
      BY <2>3, <3>2, <3>3, RankFacts DEF Later
    <3> QED
      BY <2>1, <2>3, <3>4 DEF WritesForward, IInv, TypeOK, Persist, AtomicWrite
  <2> QED
    BY <2>1, <2>2, <2>3 DEF Fail
<1>6. CASE ExecuteCandidate(r) \/ SaveResult(r) \/ LoadOwn(r) \/ PointAtOwn(r)
           \/ WorkFails(r) \/ Kill(r)
  BY <1>6 DEF ExecuteCandidate, SaveResult, LoadOwn, PointAtOwn, WorkFails, Kill, runVars,
              journalVars, WritesForward
<1> QED
  BY <1>1, <1>2, <1>3, <1>4, <1>5, <1>6 DEF RunStep

LEMMA StepsForward ==
  ASSUME IInv, NEW r \in Runs, Behind(r), RunStep(r)
  PROVE  Behind(r)' /\ Later(runFile[r], runFile'[r]) /\ Later(runSafe[r], runSafe'[r])
<1>1. WritesForward(r)
  BY StepWritesForward
<1>2. pc[r] \in {"init", "fail"} \cup Active
  BY DEF IInv, TypeOK, Active, Steps, RunStep, BeginRun, RuntimeReady, BindRunLocks,
         InputsResolved, CandidateRunning, ExecuteCandidate, CandidateCompleted, Judging,
         SaveResult, CompleteRun, LoadOwn, PointAtOwn, WorkFails, FailRun, Kill, AdvanceRun, Goto
<1>3. pc[r] = "init" => runFile[r] = Nil /\ runSafe[r] = Nil
  BY DEF IInv
<1>4. pc[r] # "init" => Later(runFile[r], mem[r])
  BY <1>2 DEF Behind
<1>5. Later(Nil, Nil) /\ \A j : Later(Nil, j)
  BY DEF Later
<1>6. CASE mem'[r] = mem[r] /\ runFile'[r] = runFile[r] /\ runSafe'[r] = runSafe[r]
  <2>1. Later(runFile[r], mem[r])
    BY <1>3, <1>4, <1>5
  <2> QED
    BY <1>6, <2>1, LaterIsOrder DEF Behind
<1>7. ASSUME NEW next, mem'[r] = next,
             \/ runFile'[r] = next /\ runSafe'[r] \in {runSafe[r], next}
             \/ runFile'[r] = runFile[r] /\ runSafe'[r] = runSafe[r],
             Later(IF pc[r] = "init" THEN Nil ELSE mem[r], next)
      PROVE  Behind(r)' /\ Later(runFile[r], runFile'[r]) /\ Later(runSafe[r], runSafe'[r])
  <2>1. Later(runFile[r], next)
    BY <1>3, <1>4, <1>5, <1>7, LaterIsOrder
  <2>2. Later(runSafe[r], runFile[r]) /\ Later(runSafe[r], next)
    BY <2>1, LaterIsOrder DEF Behind
  <2> QED
    BY <1>7, <2>1, <2>2, LaterIsOrder DEF Behind
<1> QED
  BY <1>1, <1>6, <1>7 DEF WritesForward

JournalInv == \A r \in Runs : Behind(r)

LEMMA JournalInvInit == Init => JournalInv
<1> SUFFICES ASSUME Init, NEW r \in Runs PROVE Behind(r)
  BY DEF JournalInv
<1>1. runSafe[r] = Nil /\ runFile[r] = Nil /\ mem[r] = Nil
  BY DEF Init
<1> QED
  BY <1>1, LaterIsOrder DEF Behind

LEMMA PowerLossFiles ==
  ASSUME PowerLoss, NEW r \in Runs
  PROVE  /\ runFile'[r] \in {runFile[r], runSafe[r]} /\ runSafe'[r] = runFile'[r]
         /\ resFile'[r] \in {resFile[r], resSafe[r]}
         /\ logFile'[r] \in {logFile[r], logSafe[r]}
         /\ pc'[r] \in {"init", "done"}
  BY DEF PowerLoss, Fallback

LEMMA JournalInvNext == IInv /\ JournalInv /\ [Next]_vars => JournalInv'
<1> SUFFICES ASSUME IInv, JournalInv, [Next]_vars, NEW r \in Runs PROVE Behind(r)'
  BY DEF JournalInv
<1>1. ASSUME NEW q \in Runs, RunStep(q) PROVE Behind(r)'
  <2>1. CASE q = r
    BY <1>1, <2>1, StepsForward DEF JournalInv
  <2>2. CASE q # r
    BY <1>1, <2>2, StepOfAnother DEF IInv, JournalInv, Same, Behind
  <2> QED
    BY <2>1, <2>2
<1>2. CASE UNCHANGED vars \/ Tick \/ (\E d \in Readers : ReaderStep(d)) \/ Finished
  BY <1>2, QuietStep DEF JournalInv, Behind, runVars
<1>3. CASE PowerLoss
  BY <1>3, PowerLossFiles, LaterIsOrder DEF Behind, Active
<1> QED
  BY <1>1, <1>2, <1>3 DEF Next

LEMMA LossesGrow == ASSUME IInv, PowerLoss PROVE losses' # losses
  BY DEF IInv, TypeOK, PowerLoss

(* While the machine keeps its power, a journal file only moves forward:   *)
(* stages rise, bound locks stay, and a terminal file never changes again, *)
(* whichever write of advance, bind_locks, complete or fail goes wrong.    *)
THEOREM JournalsOnlyMoveForward == Spec => JournalsMoveForward
<1>1. ASSUME IInv, JournalInv, [Next]_vars, losses' = losses, NEW r \in Runs
      PROVE  Later(runFile[r], runFile'[r])
  <2>1. ASSUME NEW q \in Runs, RunStep(q) PROVE Later(runFile[r], runFile'[r])
    <3>1. CASE q = r
      BY <1>1, <2>1, <3>1, StepsForward DEF JournalInv
    <3>2. CASE q # r
      BY <1>1, <2>1, <3>2, StepOfAnother, LaterIsOrder DEF IInv, Same
    <3> QED
      BY <3>1, <3>2
  <2>2. CASE UNCHANGED vars \/ Tick \/ (\E d \in Readers : ReaderStep(d)) \/ Finished
    BY <2>2, QuietStep, LaterIsOrder DEF runVars
  <2> QED
    BY <1>1, <2>1, <2>2, LossesGrow DEF Next
<1>2. IInv /\ JournalInv /\ [Next]_vars =>
        [losses' = losses => \A r \in Runs : Later(runFile[r], runFile'[r])]_vars
  BY <1>1
<1> QED
  BY <1>2, JournalInvInit, JournalInvNext, IInvHolds, PTL DEF Spec, JournalsMoveForward

KeepsSynced(r) ==
  /\ Later(runSafe[r], runSafe'[r])
  /\ runSafe[r] # Nil /\ runSafe[r].stage = "completed" =>
       resFile'[r] = resFile[r] /\ logFile'[r] = logFile[r]

(* What is synced moves forward too, power losses included, and the record *)
(* and event log behind a synced completed journal never change again.     *)
THEOREM SyncedStays == Spec => SyncedIsFinal
<1>1. ASSUME IInv, LatestInv, JournalInv, [Next]_vars, NEW r \in Runs
      PROVE  KeepsSynced(r)
  <2>1. ASSUME NEW q \in Runs, RunStep(q) PROVE KeepsSynced(r)
    <3>1. CASE q = r
      <4>1. Later(runSafe[r], runSafe'[r])
        BY <1>1, <2>1, <3>1, StepsForward DEF JournalInv
      <4>2. runSafe[r] # Nil /\ runSafe[r].stage = "completed" => Completed(r)
        BY <1>1 DEF JournalInv, Behind, Later, Terminal, Completed
      <4>3. Completed(r) => resFile'[r] = resFile[r] /\ logFile'[r] = logFile[r]
        BY <1>1, <2>1, <3>1, CompletedStays DEF LatestInv, recordVars
      <4> QED
        BY <4>1, <4>2, <4>3 DEF KeepsSynced
    <3>2. CASE q # r
      BY <1>1, <2>1, <3>2, StepOfAnother, LaterIsOrder DEF IInv, Same, KeepsSynced
    <3> QED
      BY <3>1, <3>2
  <2>2. CASE UNCHANGED vars \/ Tick \/ (\E d \in Readers : ReaderStep(d)) \/ Finished
    BY <2>2, QuietStep, LaterIsOrder DEF runVars, KeepsSynced
  <2>3. CASE PowerLoss
    <3>1. Later(runSafe[r], runSafe'[r])
      BY <1>1, <2>3, PowerLossFiles, LaterIsOrder DEF JournalInv, Behind
    <3>2. Backed(r, runSafe[r])
      BY <1>1 DEF IInv
    <3> QED
      BY <2>3, <3>1, <3>2, PowerLossFiles DEF KeepsSynced
  <2> QED
    BY <1>1, <2>1, <2>2, <2>3 DEF Next
<1>2. IInv /\ LatestInv /\ JournalInv /\ [Next]_vars =>
        [\A r \in Runs :
           /\ Later(runSafe[r], runSafe'[r])
           /\ runSafe[r] # Nil /\ runSafe[r].stage = "completed" =>
                resFile'[r] = resFile[r] /\ logFile'[r] = logFile[r]]_vars
  BY <1>1 DEF KeepsSynced
<1> QED
  BY <1>2, LatestInvHolds, JournalInvInit, JournalInvNext, IInvHolds, PTL DEF Spec, SyncedIsFinal

-----------------------------------------------------------------------------
(* The search for the latest result.  Of the runs completed when runs/ was *)
(* opened, those already returned are no later than the best so far, or    *)
(* are the one just read; all of them will be returned before the end.     *)
NoLater(r, me) == me.best # Nil /\ ~After(runFile[r].time, r, me.bestTime, me.best)

Searching(me) ==
  /\ me.floor \subseteq me.must
  /\ me.at = "check" => me.cur \in me.seen /\ me.cur \in Runs /\ me.curTime = runFile[me.cur].time
                        /\ Completed(me.cur)
  /\ \A r \in me.floor \cap me.seen : (me.at = "check" /\ r = me.cur) \/ NoLater(r, me)

ReaderFresh(me) ==
  /\ me.at = "idle" => me.seen = {} /\ me.best = Nil
  /\ me.at \in {"scan", "check"} => Searching(me)
  /\ me.at \in {"publish", "point", "show"} => me.best # Nil /\ \A r \in me.floor : NoLater(r, me)
  /\ me.at = "none" => me.floor = {}
  /\ me.at \in {"scan", "check", "publish", "point", "show"} => \A r \in me.floor : Completed(r)

FreshInv == \A d \in Readers : ReaderFresh(reader[d])

(* Journals that say completed stay as they are while a search goes on.    *)
LEMMA FreshStays ==
  ASSUME NEW me \in ReaderStates, ReaderFresh(me),
         \A r \in Runs : Completed(r) => runFile'[r] = runFile[r]
  PROVE  ReaderFresh(me)'
<1>1. me.floor \subseteq Runs
  BY DEF ReaderStates
<1>2. \A r \in Runs : Completed(r) => Completed(r)'
  BY DEF Completed
<1>3. CASE me.at \in {"scan", "check"}
  <2>1. Searching(me) /\ \A r \in me.floor : Completed(r)
    BY <1>3 DEF ReaderFresh
  <2>2. Searching(me)'
    BY <1>1, <1>2, <2>1 DEF Searching, NoLater
  <2> QED
    BY <1>1, <1>2, <1>3, <2>1, <2>2 DEF ReaderFresh
<1>4. CASE me.at \notin {"scan", "check"}
  BY <1>1, <1>2, <1>4 DEF ReaderFresh, NoLater
<1> QED
  BY <1>3, <1>4

LEMMA FreshInit == Init => FreshInv
  BY DEF Init, FreshInv, ReaderFresh, IdleReader

(* The order by time and identifier, which nothing exceeds itself in.      *)
LEMMA AfterIsOrder ==
  ASSUME NEW x \in Nat, NEW y \in Nat, NEW z \in Nat,
         NEW a \in Runs, NEW b \in Runs, NEW c \in Runs
  PROVE  /\ ~After(x, a, x, a)
         /\ ~After(x, a, y, b) /\ After(z, c, y, b) => ~After(x, a, z, c)
  BY DEF After

LEMMA CheckFresh ==
  ASSUME IInv, NEW d \in Readers, ReaderFresh(reader[d]), CheckEntry(d)
  PROVE  ReaderFresh(reader'[d])
<1> DEFINE me == reader[d]
           newer == me.best = Nil \/ After(me.curTime, me.cur, me.bestTime, me.best)
<1>1. /\ me \in ReaderStates /\ me.at = "check" /\ Searching(me)
      /\ \A r \in me.floor : Completed(r)
  BY DEF IInv, TypeOK, CheckEntry, ReaderMoves, ReaderFresh
<1>2. \A r \in Runs : Completed(r) => runFile[r].time \in Nat
  BY DEF IInv, TypeOK, Kept, Journals, Completed
<1>3. CASE reader' = [reader EXCEPT ![d] = LeftAt("error", me.cur)]
  <2>1. reader'[d].at = "error"
    BY <1>3 DEF IInv, TypeOK, LeftAt, IdleReader
  <2> QED
    BY <2>1 DEF ReaderFresh
<1>4. CASE newer /\ reader' = [reader EXCEPT ![d] =
                               [me EXCEPT !.at = "scan", !.best = me.cur, !.bestTime = me.curTime]]
  <2> DEFINE new == [me EXCEPT !.at = "scan", !.best = me.cur, !.bestTime = me.curTime]
  <2>1. /\ new.at = "scan" /\ new.best = me.cur /\ new.bestTime = me.curTime
        /\ new.must = me.must /\ new.seen = me.seen /\ new.floor = me.floor
    BY <1>1 DEF ReaderStates
  <2>2. reader'[d] = new
    BY <1>4 DEF IInv, TypeOK
  <2> HIDE DEF new
  <2>3. ASSUME NEW r \in me.floor \cap me.seen PROVE NoLater(r, new)
    <3>1. r \in Runs /\ me.cur \in Runs /\ runFile[r].time \in Nat /\ me.curTime \in Nat
          /\ me.bestTime \in Nat /\ me.cur # Nil /\ (me.best # Nil => me.best \in Runs)
      BY <1>1, <1>2 DEF ReaderStates, Searching
    <3>2. CASE r = me.cur
      <4>1. runFile[r].time = me.curTime
        BY <1>1, <3>2 DEF Searching
      <4>2. ~After(me.curTime, me.cur, me.curTime, me.cur)
        BY <3>1, AfterIsOrder
      <4> QED
        BY <2>1, <3>1, <3>2, <4>1, <4>2 DEF NoLater
    <3>3. CASE r # me.cur
      <4>1. me.best # Nil /\ ~After(runFile[r].time, r, me.bestTime, me.best)
        BY <1>1, <3>3 DEF Searching, NoLater
      <4>2. After(me.curTime, me.cur, me.bestTime, me.best)
        BY <1>4, <4>1
      <4>3. ~After(runFile[r].time, r, me.curTime, me.cur)
        <5> DEFINE x == runFile[r].time   y == me.bestTime   z == me.curTime
                   b == me.best   c == me.cur
        <5>1. x \in Nat /\ y \in Nat /\ z \in Nat /\ b \in Runs /\ c \in Runs
          BY <3>1, <4>1
        <5>2. ~After(x, r, y, b) /\ After(z, c, y, b)
          BY <4>1, <4>2
        <5>3. r \in Runs
          BY <3>1
        <5> HIDE DEF x, y, z, b, c
        <5>4. ~After(x, r, z, c)
          BY <5>1, <5>2, <5>3, AfterIsOrder
        <5> QED
          BY <5>4 DEF x, z, c
      <4> QED
        BY <2>1, <3>1, <4>3 DEF NoLater
    <3> QED
      BY <3>2, <3>3
  <2> QED
    BY <1>1, <2>1, <2>2, <2>3 DEF ReaderFresh, Searching
<1>5. CASE ~newer /\ reader' = [reader EXCEPT ![d] = [me EXCEPT !.at = "scan"]]
  <2> DEFINE new == [me EXCEPT !.at = "scan"]
  <2>1. /\ new.at = "scan" /\ new.best = me.best /\ new.bestTime = me.bestTime
        /\ new.must = me.must /\ new.seen = me.seen /\ new.floor = me.floor
    BY <1>1 DEF ReaderStates
  <2>2. reader'[d] = new
    BY <1>5 DEF IInv, TypeOK
  <2> HIDE DEF new
  <2>3. \A r \in me.floor \cap me.seen : NoLater(r, new)
    BY <1>1, <1>5, <2>1 DEF Searching, NoLater
  <2> QED
    BY <1>1, <2>1, <2>2, <2>3 DEF ReaderFresh, Searching
<1> QED
  BY <1>3, <1>4, <1>5 DEF CheckEntry, ReaderMoves

LEMMA LeftIsFresh ==
  ASSUME NEW at \in {"journal", "result", "unbacked", "unknown", "error", "missing", "status"},
         NEW r
  PROVE  ReaderFresh(LeftAt(at, r))
  BY DEF ReaderFresh, LeftAt, IdleReader

LEMMA ScanFresh ==
  ASSUME IInv, NEW d \in Readers, ReaderFresh(reader[d]), StartLatest(d) \/ ScanEntry(d)
  PROVE  ReaderFresh(reader'[d])
<1> DEFINE me == reader[d]
<1>1. me \in ReaderStates
  BY DEF IInv, TypeOK
<1>2. CASE StartLatest(d)
  <2> DEFINE new == [me EXCEPT
          !.at = "scan",
          !.must = {r \in Runs : runFile[r] # Nil},
          !.floor = {r \in Runs : runFile[r] # Nil /\ runFile[r].stage = "completed"}]
  <2>1. me.at = "idle" /\ reader'[d] = new
    BY <1>2 DEF StartLatest, ReaderMoves, IInv, TypeOK
  <2>2. /\ new.at = "scan" /\ new.seen = {}
        /\ new.must = {r \in Runs : runFile[r] # Nil}
        /\ new.floor = {r \in Runs : runFile[r] # Nil /\ runFile[r].stage = "completed"}
    BY <1>1, <2>1 DEF ReaderFresh, ReaderStates
  <2> HIDE DEF new
  <2> QED
    BY <2>1, <2>2 DEF ReaderFresh, Searching, Completed
<1>3. CASE ScanEntry(d)
  <2>1. PICK r \in Runs :
          /\ runFile[r] # Nil /\ me.at = "scan"
          /\ \/ reader' = [reader EXCEPT ![d] = LeftAt("error", r)]
             \/ /\ runFile[r].stage = "completed"
                /\ reader' = [reader EXCEPT ![d] = [me EXCEPT !.seen = @ \cup {r}, !.at = "check",
                                                     !.cur = r, !.curTime = runFile[r].time]]
             \/ /\ runFile[r].stage # "completed"
                /\ reader' = [reader EXCEPT ![d] = [me EXCEPT !.seen = @ \cup {r}]]
    BY <1>3, Zenon DEF ScanEntry, ReaderMoves
  <2>2. Searching(me) /\ \A q \in me.floor : Completed(q)
    BY <2>1 DEF ReaderFresh
  <2>3. CASE reader' = [reader EXCEPT ![d] = LeftAt("error", r)]
    <3>1. reader'[d] = LeftAt("error", r)
      BY <2>3 DEF IInv, TypeOK
    <3> QED
      BY <3>1, LeftIsFresh
  <2>4. CASE /\ runFile[r].stage = "completed"
             /\ reader' = [reader EXCEPT ![d] = [me EXCEPT !.seen = @ \cup {r}, !.at = "check",
                                                  !.cur = r, !.curTime = runFile[r].time]]
    <3> DEFINE new == [me EXCEPT !.seen = @ \cup {r}, !.at = "check",
                                 !.cur = r, !.curTime = runFile[r].time]
    <3>1. /\ new.at = "check" /\ new.cur = r /\ new.curTime = runFile[r].time
          /\ new.seen = me.seen \cup {r} /\ new.must = me.must /\ new.floor = me.floor
          /\ new.best = me.best /\ new.bestTime = me.bestTime
      BY <1>1 DEF ReaderStates
    <3>2. reader'[d] = new
      BY <2>4 DEF IInv, TypeOK
    <3>3. Completed(r)
      BY <2>1, <2>4 DEF Completed
    <3> HIDE DEF new
    <3>4. \A q \in new.floor \cap new.seen : q = r \/ NoLater(q, new)
      BY <2>1, <2>2, <3>1 DEF Searching, NoLater
    <3> QED
      BY <2>2, <3>1, <3>2, <3>3, <3>4 DEF ReaderFresh, Searching
  <2>5. CASE /\ runFile[r].stage # "completed"
             /\ reader' = [reader EXCEPT ![d] = [me EXCEPT !.seen = @ \cup {r}]]
    <3> DEFINE new == [me EXCEPT !.seen = @ \cup {r}]
    <3>1. /\ new.at = "scan" /\ new.seen = me.seen \cup {r} /\ new.must = me.must
          /\ new.floor = me.floor /\ new.best = me.best /\ new.bestTime = me.bestTime
      BY <1>1, <2>1 DEF ReaderStates
    <3>2. reader'[d] = new
      BY <2>5 DEF IInv, TypeOK
    <3>3. r \notin me.floor
      BY <2>2, <2>5 DEF Completed
    <3> HIDE DEF new
    <3>4. \A q \in new.floor \cap new.seen : NoLater(q, new)
      BY <2>1, <2>2, <3>1, <3>3 DEF Searching, NoLater
    <3> QED
      BY <2>2, <3>1, <3>2, <3>4 DEF ReaderFresh, Searching
  <2> QED
    BY <2>1, <2>3, <2>4, <2>5
<1> QED
  BY <1>2, <1>3

(* Every run completed at the opening is in must, so it has been seen.     *)
LEMMA EndFresh ==
  ASSUME IInv, NEW d \in Readers, ReaderFresh(reader[d]),
         EndScan(d) \/ LoadBest(d) \/ PointAtBest(d)
  PROVE  ReaderFresh(reader'[d])
<1> DEFINE me == reader[d]
           new(at) == [me EXCEPT !.at = at]
<1>1. me \in ReaderStates
  BY DEF IInv, TypeOK
<1>2. ASSUME NEW at
      PROVE  /\ new(at).at = at /\ new(at).floor = me.floor
             /\ new(at).best = me.best /\ new(at).bestTime = me.bestTime
  BY <1>1 DEF ReaderStates
<1>3. CASE EndScan(d)
  <2>1. /\ me.at = "scan" /\ me.must \subseteq me.seen
        /\ reader' = [reader EXCEPT ![d] = new(IF me.best = Nil THEN "none" ELSE "publish")]
    BY <1>3 DEF EndScan, ReaderMoves
  <2>2. Searching(me) /\ \A q \in me.floor : Completed(q)
    BY <2>1 DEF ReaderFresh
  <2>3. \A r \in me.floor : NoLater(r, me)
    BY <2>1, <2>2 DEF Searching
  <2>4. CASE me.best = Nil
    <3>1. reader'[d] = new("none")
      BY <2>1, <2>4 DEF IInv, TypeOK
    <3>2. me.floor = {}
      BY <2>3, <2>4 DEF NoLater
    <3> HIDE DEF new
    <3> QED
      BY <1>2, <3>1, <3>2 DEF ReaderFresh
  <2>5. CASE me.best # Nil
    <3>1. reader'[d] = new("publish")
      BY <2>1, <2>5 DEF IInv, TypeOK
    <3> HIDE DEF new
    <3>2. \A r \in new("publish").floor : NoLater(r, new("publish"))
      BY <1>2, <2>3 DEF NoLater
    <3> QED
      BY <1>2, <2>2, <2>5, <3>1, <3>2 DEF ReaderFresh
  <2> QED
    BY <2>4, <2>5
<1>4. CASE LoadBest(d) \/ PointAtBest(d)
  <2>1. /\ me.at \in {"publish", "point"}
        /\ \/ \E at \in {"point", "show"} : reader' = [reader EXCEPT ![d] = new(at)]
           \/ reader' = [reader EXCEPT ![d] = LeftAt("error", me.best)]
    BY <1>4, Zenon DEF LoadBest, PointAtBest, ReaderMoves
  <2>2. CASE reader' = [reader EXCEPT ![d] = LeftAt("error", me.best)]
    <3>1. reader'[d] = LeftAt("error", me.best)
      BY <2>2 DEF IInv, TypeOK
    <3> QED
      BY <3>1, LeftIsFresh
  <2>3. ASSUME NEW at \in {"point", "show"}, reader' = [reader EXCEPT ![d] = new(at)]
        PROVE  ReaderFresh(reader'[d])
    <3>1. reader'[d] = new(at)
      BY <2>3 DEF IInv, TypeOK
    <3>2. me.best # Nil /\ \A r \in me.floor : NoLater(r, me) /\ Completed(r)
      BY <2>1 DEF ReaderFresh
    <3> HIDE DEF new
    <3>3. \A r \in new(at).floor : NoLater(r, new(at))
      BY <1>2, <3>2 DEF NoLater
    <3> QED
      BY <1>2, <3>1, <3>2, <3>3 DEF ReaderFresh
  <2> QED
    BY <2>1, <2>2, <2>3
<1> QED
  BY <1>3, <1>4

LEMMA ReaderStepFresh ==
  ASSUME IInv, FreshInv, NEW d \in Readers, ReaderStep(d) PROVE FreshInv'
<1>1. runFile' = runFile /\ \E new : reader' = [reader EXCEPT ![d] = new]
  BY Zenon DEF ReaderStep, ReaderMoves, StartLatest, ScanEntry, CheckEntry, EndScan, LoadBest,
         PointAtBest, StartLookup, ShowBest, LookUp, ReadJournal, runVars
<1>2. ReaderFresh(reader'[d])
  <2>1. CASE StartLookup(d) \/ ShowBest(d) \/ ReadJournal(d)
    <3> DEFINE here == reader[d]
               ends == {"journal", "result", "unbacked", "unknown", "error", "missing", "status"}
    <3>1. here.cur \in Kept(Runs) /\ here.best \in Kept(Runs) /\ Runs \subseteq Kept(Runs)
      BY DEF IInv, TypeOK, ReaderStates, Kept
    <3>2. \E r \in Kept(Runs), at \in ends : reader' = [reader EXCEPT ![d] = LeftAt(at, r)]
      BY <2>1, <3>1, Zenon DEF StartLookup, ShowBest, LookUp, ReadJournal, ReaderMoves
    <3>3. \E r \in Kept(Runs), at \in ends : reader'[d] = LeftAt(at, r)
      BY <3>2 DEF IInv, TypeOK
    <3> QED
      BY <3>3, LeftIsFresh
  <2> QED
    BY <2>1, CheckFresh, ScanFresh, EndFresh DEF FreshInv, ReaderStep
<1>3. ASSUME NEW e \in Readers PROVE ReaderFresh(reader'[e])
  <2>1. e # d => reader'[e] = reader[e]
    BY <1>1 DEF IInv, TypeOK
  <2> QED
    BY <1>2, <2>1 DEF FreshInv
<1> QED
  BY <1>1, <1>3 DEF FreshInv, ReaderFresh, Searching, NoLater, Completed

LEMMA FreshNext == IInv /\ LatestInv /\ FreshInv /\ [Next]_vars => FreshInv'
<1> SUFFICES ASSUME IInv, LatestInv, FreshInv, [Next]_vars PROVE FreshInv'
  OBVIOUS
<1>1. CASE \E d \in Readers : ReaderStep(d)
  BY <1>1, ReaderStepFresh
<1>2. CASE PowerLoss
  <2>1. ASSUME NEW d \in Readers
        PROVE  reader'[d] = IdleReader
               \/ (reader'[d] = reader[d] /\ reader[d].at \in ReaderDone)
    BY <1>2 DEF PowerLoss
  <2> QED
    BY <2>1 DEF FreshInv, ReaderFresh, IdleReader, ReaderDone
<1>3. CASE reader' = reader /\ \A r \in Runs : Completed(r) => runFile'[r] = runFile[r]
  <2>1. ASSUME NEW d \in Readers, NEW me, reader[d] = me PROVE ReaderFresh(me)'
    BY <1>3, <2>1, FreshStays DEF IInv, TypeOK, FreshInv
  <2> QED
    BY <1>3, <2>1 DEF FreshInv
<1>4. ASSUME NEW q \in Runs, RunStep(q)
      PROVE  reader' = reader /\ \A r \in Runs : Completed(r) => runFile'[r] = runFile[r]
  <2>1. reader' = reader
    BY <1>4 DEF RunStep, BeginRun, RuntimeReady, BindRunLocks, InputsResolved, ExecuteCandidate,
         SaveResult, CandidateRunning, CandidateCompleted, Judging, CompleteRun, LoadOwn,
         PointAtOwn, WorkFails, FailRun, Kill, AdvanceRun, OnlyJournal
  <2>2. ASSUME NEW r \in Runs, Completed(r) PROVE runFile'[r] = runFile[r]
    <3>1. CASE q = r
      BY <1>4, <2>2, <3>1, CompletedStays DEF LatestInv, journalVars
    <3>2. CASE q # r
      BY <1>4, <3>2, StepOfAnother DEF IInv, Same
    <3> QED
      BY <3>1, <3>2
  <2> QED
    BY <2>1, <2>2
<1>5. CASE UNCHANGED vars \/ Tick \/ Finished
  BY <1>3, <1>5 DEF vars, Tick, Finished, runVars
<1> QED
  BY <1>1, <1>2, <1>3, <1>4, <1>5 DEF Next

(* A search returns a run at least as recent as every run that had         *)
(* completed when it opened runs/, however many complete meanwhile.        *)
THEOREM LatestIsFound == Spec => []LatestIsRecent
<1>1. IInv /\ FreshInv => LatestIsRecent
  BY DEF IInv, TypeOK, ReaderStates, FreshInv, ReaderFresh, NoLater, LatestIsRecent
<1> QED
  BY <1>1, FreshInit, FreshNext, IInvHolds, LatestInvHolds, PTL DEF Spec
=============================================================================
