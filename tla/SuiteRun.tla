------------------------------ MODULE SuiteRun ------------------------------
(***************************************************************************)
(* `a3s bench suite run` (src/src/suite.rs): processes ("sessions") that   *)
(* plan one suite or resume it, execute its members one after the other,   *)
(* record each in suites/<id>/state.json and print the comparison of all.  *)
(* A session may fail or be killed anywhere; another one resumes from      *)
(* state.json.  No lock keeps two sessions from resuming the same suite.   *)
(*                                                                         *)
(* A member run is what BenchRun promises of it: one that reports success  *)
(* left a result that loads for ever after; one that fails or is killed    *)
(* may have left one as well.                                              *)
(***************************************************************************)
EXTENDS Comparison, Integers, FiniteSetsExt

CONSTANTS
  Members,     \* number of Tasks
  Specs,       \* contents the suite ACL may have
  WhoOf,       \* the descriptor a Candidate lock leads to
  Outcomes,    \* scores, timeouts and token totals a run may end with
  RunIds,      \* run identifiers, in the order they are handed out
  Sessions,
  MaxAlive,    \* bound: sessions running at the same time
  MaxReplaced, \* bound: lock files replaced by hand
  MaxLosses    \* bound: power losses

ASSUME SuiteConstants ==
  /\ Members \in Nat \ {0} /\ MaxAlive \in Nat /\ MaxReplaced \in Nat /\ MaxLosses \in Nat
  /\ RunIds \subseteq Nat
  /\ WhoOf \in [CandLocks -> Whos]
  /\ Nil \notin RunIds \cup Nat
  /\ IsFiniteSet(Sessions)
  /\ Outcomes \subseteq [score : Int, timedOut : BOOLEAN, tokens : Nat \cup {Nil}]

Sides == {"baseline", "candidate"}

(* The members in the order execute() visits them: each Task's baseline,   *)
(* then its candidate.                                                     *)
Slots == 1..(2 * Members)
TaskOf(k) == (k + 1) \div 2
SideOf(k) == IF k % 2 = 1 THEN "baseline" ELSE "candidate"
SlotOf(task, side) == IF side = "baseline" THEN 2 * task - 1 ELSE 2 * task

(* What a suite is planned to be, what state.json holds, and what the      *)
(* comparison reads of a result.                                           *)
Plans == [spec : Specs, task : [1..Members -> TaskLocks], cand : [Sides -> CandLocks]]

States == [spec : Specs, slots : [Slots -> RunIds \cup {Nil}]]

Results == [slot : Slots, taskLock : TaskLocks, candLock : CandLocks, who : Whos,
            score : {o.score : o \in Outcomes}, timedOut : {o.timedOut : o \in Outcomes},
            tokens : {o.tokens : o \in Outcomes}]

ASSUME NilIsNoPlan   == Nil \notin Plans
ASSUME NilIsNoState  == Nil \notin States
ASSUME NilIsNoResult == Nil \notin Results

VARIABLES
  source,    \* the suite ACL on disk
  planned,   \* the locks plan_suite resolved (history; Nil before)
  taskLock,  \* task-<i>.lock.json
  candLock,  \* baseline. and candidate.candidate-lock.json
  state,     \* state.json as a reader sees it; Nil when there is none
  stateSafe, \* state.json as a power loss would leave it at the earliest
  results,   \* the result that loads for each run
  session,   \* the state of each process
  replaced, losses

suiteVars == <<taskLock, candLock, state, stateSafe>>
vars == <<source, planned, suiteVars, results, session, replaced, losses>>

NoneRecorded == [k \in Slots |-> Nil]

NewSession == [at |-> "start", spec |-> Nil, slots |-> NoneRecorded, slot |-> 1,
               locks |-> Nil, run |-> Nil, report |-> Nil]

Init ==
  /\ source \in Specs
  /\ planned = Nil
  /\ taskLock = Nil
  /\ candLock = Nil
  /\ state = Nil
  /\ stateSafe = Nil
  /\ results = [r \in RunIds |-> Nil]
  /\ session = [s \in Sessions |-> NewSession]
  /\ replaced = 0
  /\ losses = 0

-----------------------------------------------------------------------------
Alive(s) == session[s].at \in {"members", "running", "record"}
Ended(s) == session[s].at \in {"printed", "failed", "killed"}

MayStart(s) ==
  /\ session[s].at = "start"
  /\ Cardinality({t \in Sessions : Alive(t)}) < MaxAlive

Becomes(s, new) == session' = [session EXCEPT ![s] = new]

(* plan_suite resolves every lock into a staging directory, writes the     *)
(* first state.json there, syncs the tree and renames it into place; an    *)
(* error before the rename leaves no suite behind.                         *)
Plan(s) ==
  /\ MayStart(s)
  /\ planned = Nil
  /\ taskLock' \in [1..Members -> TaskLocks]
  /\ candLock' \in [Sides -> CandLocks]
  /\ state' = [spec |-> source, slots |-> NoneRecorded]
  /\ stateSafe' = state'
  /\ planned' = [spec |-> source, task |-> taskLock', cand |-> candLock']
  /\ Becomes(s, [session[s] EXCEPT !.at = "members", !.spec = source])
  /\ UNCHANGED <<source, results, replaced, losses>>

PlanFails(s) ==
  /\ MayStart(s)
  /\ planned = Nil
  /\ Becomes(s, [session[s] EXCEPT !.at = "failed"])
  /\ UNCHANGED <<source, planned, suiteVars, results, replaced, losses>>

(* Mutated forms: resume trusts state.json whatever the suite ACL says;    *)
(* resume keeps the plan but not the progress.                             *)
ResumeUnchecked(s) ==
  /\ MayStart(s)
  /\ planned # Nil
  /\ Becomes(s, IF state # Nil
                THEN [session[s] EXCEPT !.at = "members", !.spec = source,
                                        !.slots = state.slots]
                ELSE [session[s] EXCEPT !.at = "failed"])
  /\ UNCHANGED <<source, planned, suiteVars, results, replaced, losses>>

ResumeFromPlan(s) ==
  /\ MayStart(s)
  /\ planned # Nil
  /\ Becomes(s, IF state # Nil /\ state.spec = source
                THEN [session[s] EXCEPT !.at = "members", !.spec = source]
                ELSE [session[s] EXCEPT !.at = "failed"])
  /\ UNCHANGED <<source, planned, suiteVars, results, replaced, losses>>

(* resume_state and validate_state.  Nothing of state.json says which      *)
(* locks lie beside it.                                                    *)
Resume(s) ==
  /\ MayStart(s)
  /\ planned # Nil
  /\ Becomes(s, IF state # Nil /\ state.spec = source
                THEN [session[s] EXCEPT !.at = "members", !.spec = source,
                                        !.slots = state.slots]
                ELSE [session[s] EXCEPT !.at = "failed"])
  /\ UNCHANGED <<source, planned, suiteVars, results, replaced, losses>>

Unrecorded(s) == {k \in Slots : session[s].slots[k] = Nil}

(* The first member the session knows no run of; the run loads both locks. *)
BeginMember(s) == \E k \in Unrecorded(s) :
  /\ session[s].at = "members"
  /\ \A j \in Unrecorded(s) : k <= j
  /\ taskLock # Nil
  /\ Becomes(s, [session[s] EXCEPT
       !.at = "running", !.slot = k,
       !.locks = [task |-> taskLock[TaskOf(k)], cand |-> candLock[SideOf(k)]]])
  /\ UNCHANGED <<source, planned, suiteVars, results, replaced, losses>>

(* What a member run leaves: a result of its own that binds its locks.     *)
Leaves(s, r) == \E o \in Outcomes :
  LET locks == session[s].locks
      result == [slot |-> session[s].slot, taskLock |-> locks.task, candLock |-> locks.cand,
                 who |-> WhoOf[locks.cand], score |-> o.score, timedOut |-> o.timedOut,
                 tokens |-> o.tokens]
  IN  /\ results[r] = Nil
      /\ \A q \in RunIds : results[q] = Nil => r <= q
      /\ ValidResult(result)
      /\ results' = [results EXCEPT ![r] = result]

MemberCompletes(s) == \E r \in RunIds :
  /\ session[s].at = "running"
  /\ Leaves(s, r)
  /\ Becomes(s, [session[s] EXCEPT !.at = "record", !.run = r])
  /\ UNCHANGED <<source, planned, suiteVars, replaced, losses>>

LeavesOrNot(s) == UNCHANGED results \/ \E r \in RunIds : Leaves(s, r)

(* Mutated form: a failed member is tried again and again.                 *)
MemberRetries(s) ==
  /\ session[s].at = "running"
  /\ LeavesOrNot(s)
  /\ Becomes(s, [session[s] EXCEPT !.at = "members"])
  /\ UNCHANGED <<source, planned, suiteVars, replaced, losses>>

MemberFails(s) ==
  /\ session[s].at = "running"
  /\ LeavesOrNot(s)
  /\ Becomes(s, [session[s] EXCEPT !.at = "failed"])
  /\ UNCHANGED <<source, planned, suiteVars, replaced, losses>>

(* persist_state: the whole state.json, from this session's memory.        *)
WriteState(new, ok) ==
  \/ ok /\ state' = new /\ stateSafe' = new
  \/ ~ok /\ state' = new /\ UNCHANGED stateSafe
  \/ ~ok /\ UNCHANGED <<state, stateSafe>>

(* Mutated form: the candidate's run goes into the baseline's field.       *)
RecordInBaseline(s) == \E ok \in BOOLEAN :
  LET me == session[s]
      slots == [me.slots EXCEPT ![SlotOf(TaskOf(me.slot), "baseline")] = me.run,
                                ![me.slot] = me.run]
  IN  /\ me.at = "record"
      /\ WriteState([spec |-> me.spec, slots |-> slots], ok)
      /\ Becomes(s, [me EXCEPT !.at = IF ok THEN "members" ELSE "failed",
                               !.slots = slots, !.run = Nil, !.locks = Nil])
      /\ UNCHANGED <<source, planned, taskLock, candLock, results, replaced, losses>>

Record(s) == \E ok \in BOOLEAN :
  LET me == session[s]
      slots == [me.slots EXCEPT ![me.slot] = me.run]
  IN  /\ me.at = "record"
      /\ WriteState([spec |-> me.spec, slots |-> slots], ok)
      /\ Becomes(s, [me EXCEPT !.at = IF ok THEN "members" ELSE "failed",
                               !.slots = slots, !.run = Nil, !.locks = Nil])
      /\ UNCHANGED <<source, planned, taskLock, candLock, results, replaced, losses>>

(* load_pairs.                                                             *)
Pairs(slots) ==
  [i \in 1..Members |-> [side \in Sides |-> results[slots[SlotOf(i, side)]]]]

(* Mutated form: the pairs are summed up without a look at their locks.    *)
PrintAnything(s) ==
  /\ session[s].at = "members"
  /\ Unrecorded(s) = {}
  /\ Becomes(s, [session[s] EXCEPT !.at = "printed",
                                   !.report = Summary(Pairs(session[s].slots))])
  /\ UNCHANGED <<source, planned, suiteVars, results, replaced, losses>>

(* load_pairs, compare_pairs and the report.                               *)
PrintReport(s) ==
  LET pairs == Pairs(session[s].slots)
  IN  /\ session[s].at = "members"
      /\ Unrecorded(s) = {}
      /\ Becomes(s, IF Comparable(pairs)
                    THEN [session[s] EXCEPT !.at = "printed", !.report = Summary(pairs)]
                    ELSE [session[s] EXCEPT !.at = "failed"])
      /\ UNCHANGED <<source, planned, suiteVars, results, replaced, losses>>

Kill(s) ==
  /\ Alive(s)
  /\ IF session[s].at = "running" THEN LeavesOrNot(s) ELSE UNCHANGED results
  /\ Becomes(s, [session[s] EXCEPT !.at = "killed"])
  /\ UNCHANGED <<source, planned, suiteVars, replaced, losses>>

-----------------------------------------------------------------------------
(* The environment: the user edits the suite ACL or puts another valid lock*)
(* in the place of one of the suite's; the machine loses power.  The       *)
(* rename of a planned suite is never synced, so a power loss may take the *)
(* whole suite directory.                                                  *)
EditSource ==
  /\ source' \in Specs \ {source}
  /\ UNCHANGED <<planned, suiteVars, results, session, replaced, losses>>

ReplaceLock ==
  /\ planned # Nil /\ state # Nil
  /\ replaced < MaxReplaced
  /\ replaced' = replaced + 1
  /\ \/ /\ \E i \in 1..Members, l \in TaskLocks : taskLock' = [taskLock EXCEPT ![i] = l]
        /\ UNCHANGED candLock
     \/ /\ \E side \in Sides, l \in CandLocks : candLock' = [candLock EXCEPT ![side] = l]
        /\ UNCHANGED taskLock
  /\ UNCHANGED <<source, planned, state, stateSafe, results, session, losses>>

PowerLoss ==
  /\ planned # Nil
  /\ losses < MaxLosses
  /\ losses' = losses + 1
  /\ \/ state' \in {state, stateSafe} /\ UNCHANGED <<taskLock, candLock>>
     \/ state' = Nil /\ taskLock' = Nil /\ candLock' = Nil
  /\ stateSafe' = state'
  /\ session' = [s \in Sessions |->
                   IF Alive(s) THEN [session[s] EXCEPT !.at = "killed"] ELSE session[s]]
  /\ UNCHANGED <<source, planned, results, replaced>>

Finished == (\A s \in Sessions : Ended(s)) /\ UNCHANGED vars

(* What a session does on its own, once it has started, and the end of the *)
(* member run it waits for.                                                *)
OwnStep(s) == BeginMember(s) \/ Record(s) \/ PrintReport(s)

Proceed(s) == OwnStep(s) \/ MemberCompletes(s) \/ MemberFails(s)

Next ==
  \/ \E s \in Sessions : Plan(s) \/ PlanFails(s) \/ Resume(s) \/ Proceed(s) \/ Kill(s)
  \/ EditSource \/ ReplaceLock \/ PowerLoss \/ Finished

Spec == Init /\ [][Next]_vars

(* A process that runs goes on.  Nothing makes a member run end: docker    *)
(* pull and the Docker Judge are waited for without a timeout (runtime.rs).*)
FairSpec == Spec /\ \A s \in Sessions : WF_vars(OwnStep(s))

-----------------------------------------------------------------------------
(* Properties.                                                             *)
(* However sessions overlap, die and lose their last write, a run that     *)
(* state.json names has a result, and is a run of the very member it is    *)
(* recorded for; so load_pairs never mixes up Tasks or sides.              *)
RecordedIsOwn ==
  state # Nil => \A k \in Slots :
    LET r == state.slots[k] IN r # Nil => results[r] # Nil /\ results[r].slot = k

(* A printed comparison sets, Task by Task, one Candidate against another  *)
(* on the same locked Task, even if locks were replaced or two sessions    *)
(* worked on the suite.                                                    *)
ReportIsFair == \A s \in Sessions : session[s].report # Nil =>
  LET slots == session[s].slots
      Of(side) == {results[slots[SlotOf(i, side)]] : i \in 1..Members}
  IN  /\ \A k \in Slots : slots[k] # Nil /\ results[slots[k]].slot = k
      /\ \A side \in Sides : \A x, y \in Of(side) : x.who = y.who
      /\ \A i \in 1..Members : results[slots[SlotOf(i, "baseline")]].taskLock =
                               results[slots[SlotOf(i, "candidate")]].taskLock

(* The printed counts add up to the pairs, and a token total is printed    *)
(* exactly when every result of that side has one and their sum fits.      *)
ReportAddsUp == \A s \in Sessions : session[s].report # Nil =>
  LET report == session[s].report
      slots == session[s].slots
  IN  /\ report.baselineWins + report.ties + report.candidateWins = Members
      /\ \A side \in Sides :
           LET mine == {k \in Slots : SideOf(k) = side
                                      /\ results[slots[k]].who \in Modelled}
               known == mine # {} /\ \A k \in mine : results[slots[k]].tokens # Nil
               sum == MapThenSumSet(LAMBDA k : results[slots[k]].tokens, mine)
           IN  report.tokens[side] = IF known /\ sum <= MaxTokens THEN sum ELSE Nil

(* A comparison is printed only for the suite source the run was planned   *)
(* from.                                                                   *)
ReportIsOfItsSource == \A s \in Sessions :
  session[s].report # Nil => session[s].spec = planned.spec

(* Only a member run that never ends keeps a session from its end: else it *)
(* has printed, failed or been killed one day, whatever its members come   *)
(* to; none is run again and again.                                        *)
SessionsEnd == \A s \in Sessions :
  (Alive(s) ~> Ended(s)) \/ <>[](session[s].at = "running")

(* One session at a time: the suite keeps the promise of SuiteLedger.      *)
Ledger == INSTANCE SuiteLedger WITH
  ledger  <- IF state = Nil THEN NoneRecorded ELSE state.slots,
  printed <- {session[s].slots : s \in {t \in Sessions : session[t].report # Nil}}

ImplementsLedger == Ledger!LedgerSpec

(* src/README.md: replacing a lock fails closed instead of silently        *)
(* changing the comparison.                                                *)
ReplacedLockFailsClosed == \A s \in Sessions : session[s].report # Nil =>
  \A k \in Slots :
    LET result == results[session[s].slots[k]]
    IN  result.taskLock = planned.task[TaskOf(k)] /\ result.candLock = planned.cand[SideOf(k)]
=============================================================================
