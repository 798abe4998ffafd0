----------------------------- MODULE RunJournal -----------------------------
(***************************************************************************)
(* The journal of one benchmark run (src/src/run_journal.rs) and the way   *)
(* it reaches the disk (secure_atomic_write in src/src/state_fs.rs).       *)
(*                                                                         *)
(* A run holds a RunJournal in memory (`mem`) and mirrors it, whole, into  *)
(* runs/<id>.json.  Two contents of that file are told apart: what a       *)
(* process reads now (`runFile`) and what is certain to be there after a   *)
(* power loss (`runSafe`).  Every mutator changes memory first and writes  *)
(* the file second, so that after a failed write the two disagree; the     *)
(* rest of the program lives with that.                                    *)
(***************************************************************************)
EXTENDS Naturals

CONSTANTS
  Runs,       \* run identifiers, numbers ordered as their strings are
  LockPairs,  \* (Task lock digest, Candidate lock digest) pairs
  Digests,    \* semantic digests of result records
  Nil         \* an absent file or an absent optional field

ASSUME RunsAreOrdered == Runs \subseteq Nat
ASSUME NilIsNoValue   == Nil \notin Runs \cup LockPairs \cup Digests

VARIABLES
  clock,    \* SystemTime::now(), as epoch_millis reads it
  mem,      \* the RunJournal each process holds
  runFile,  \* runs/<id>.json as a reader sees it
  runSafe   \* runs/<id>.json as a power loss would leave it at the earliest

journalVars == <<mem, runFile, runSafe>>

-----------------------------------------------------------------------------
(* RunStage, its rank and its terminal stages.                             *)
Stages == {"planned", "runtime_ready", "inputs_resolved", "candidate_running",
           "candidate_completed", "judging", "completed", "failed"}

Rank(stage) == CASE stage = "planned"             -> 0
                 [] stage = "runtime_ready"       -> 1
                 [] stage = "inputs_resolved"     -> 2
                 [] stage = "candidate_running"   -> 3
                 [] stage = "candidate_completed" -> 4
                 [] stage = "judging"             -> 5
                 [] OTHER                         -> 6

Terminal(stage) == stage \in {"completed", "failed"}

Journals == [stage  : Stages,
             locks  : LockPairs \cup {Nil},
             time   : Nat,
             result : Digests \cup {Nil},
             error  : {"absent", "present"}]

ASSUME NilIsNoJournal == Nil \notin Journals

(* What RunJournal::load demands of a file before it returns it.  Of the   *)
(* error text only its presence matters.                                   *)
WellFormed(j) ==
  /\ j.stage = "failed" \/ Rank(j.stage) < Rank("inputs_resolved") \/ j.locks # Nil
  /\ (j.stage = "completed") <=> (j.result # Nil)
  /\ (j.stage = "failed") <=> (j.error = "present")

-----------------------------------------------------------------------------
(* Mutated form: the directory is never synced.                            *)
WriteWithoutSync(file, safe, r, content, ok) ==
  \/ ok /\ file' = [file EXCEPT ![r] = content] /\ UNCHANGED safe
  \/ ~ok /\ UNCHANGED <<file, safe>>

(* secure_atomic_write.  The temporary file is complete and synced before  *)
(* it is renamed over the path, so a reader finds the old or the new       *)
(* content.  The call may still fail before the rename, with nothing       *)
(* changed, or after it, when the directory does not sync: the new content *)
(* is then visible but a power loss may take it back.  Only the immediate  *)
(* parent is synced: that runs/ and results/ themselves are on disk, from  *)
(* earlier runs, is taken for granted.                                     *)
AtomicWrite(file, safe, r, content, ok) ==
  \/ /\ ok
     /\ file' = [file EXCEPT ![r] = content]
     /\ safe' = [safe EXCEPT ![r] = content]
  \/ /\ ~ok
     /\ file' = [file EXCEPT ![r] = content]
     /\ UNCHANGED safe
  \/ /\ ~ok
     /\ UNCHANGED <<file, safe>>

Persist(r, j, ok) ==
  /\ mem' = [mem EXCEPT ![r] = j]
  /\ AtomicWrite(runFile, runSafe, r, j, ok)

-----------------------------------------------------------------------------
(* The mutators.  A guard is an ensure! of the code; `ok` is whether the   *)
(* call returned Ok.                                                       *)
Begin(r, ok) ==
  Persist(r, [stage |-> "planned", locks |-> Nil, time |-> clock,
              result |-> Nil, error |-> "absent"], ok)

AdvanceAllowed(r, stage) ==
  /\ ~Terminal(mem[r].stage)
  /\ ~Terminal(stage)
  /\ Rank(stage) = Rank(mem[r].stage) + 1

Advance(r, stage, ok) ==
  /\ AdvanceAllowed(r, stage)
  /\ Persist(r, [mem[r] EXCEPT !.stage = stage, !.time = clock], ok)

BindAllowed(r) == mem[r].stage = "runtime_ready" /\ mem[r].locks = Nil

BindLocks(r, locks, ok) ==
  /\ BindAllowed(r)
  /\ Persist(r, [mem[r] EXCEPT !.locks = locks, !.time = clock], ok)

CompleteAllowed(r) == mem[r].stage = "judging"

Complete(r, digest, ok) ==
  /\ CompleteAllowed(r)
  /\ Persist(r, [mem[r] EXCEPT !.stage = "completed", !.time = clock,
                               !.result = digest], ok)

(* Mutated forms: fail() without its early return for a terminal journal;  *)
(* fail() that starts from an empty journal; fail() that keeps no error.   *)
FailOverTerminal(r, ok) ==
  Persist(r, [mem[r] EXCEPT !.stage = "failed", !.time = clock, !.error = "present"], ok)

FailFromScratch(r, ok) ==
  \/ Terminal(mem[r].stage) /\ ok /\ UNCHANGED journalVars
  \/ ~Terminal(mem[r].stage)
     /\ Persist(r, [stage |-> "failed", locks |-> Nil, time |-> clock,
                    result |-> Nil, error |-> "present"], ok)

FailWithoutError(r, ok) ==
  \/ Terminal(mem[r].stage) /\ ok /\ UNCHANGED journalVars
  \/ ~Terminal(mem[r].stage)
     /\ Persist(r, [mem[r] EXCEPT !.stage = "failed", !.time = clock], ok)

Fail(r, ok) ==
  \/ /\ Terminal(mem[r].stage)
     /\ ok
     /\ UNCHANGED journalVars
  \/ /\ ~Terminal(mem[r].stage)
     /\ Persist(r, [mem[r] EXCEPT !.stage = "failed", !.time = clock,
                                  !.error = "present"], ok)
=============================================================================
