--------------------------- MODULE SuiteRunProofs ---------------------------
(***************************************************************************)
(* Proofs about SuiteRun for every number of Tasks, sessions, run          *)
(* identifiers, replaced locks and power losses: what state.json names and *)
(* what a printed comparison compares; and, for sessions that follow one   *)
(* another on a machine that keeps its power, that the suite implements    *)
(* SuiteLedger.                                                            *)
(***************************************************************************)
EXTENDS SuiteRun, Loops

USE SuiteConstants, NilIsNoPlan, NilIsNoState, NilIsNoResult

Kept(set) == set \cup {Nil}

Ats == {"start", "members", "running", "record", "printed", "failed", "killed"}

LockPairs == [task : TaskLocks, cand : CandLocks]

(* A report's type depends on a recursive sum, so it is left open.         *)
SessionStates(report) ==
  [at : Ats, spec : Kept(Specs), slots : [Slots -> Kept(RunIds)], slot : Slots,
   locks : Kept(LockPairs), run : Kept(RunIds), report : {report}]

(* The run named for a member has a result, and one of that member.        *)
Own(slots) == \A k \in Slots :
  slots[k] # Nil => results[slots[k]] # Nil /\ results[slots[k]].slot = k

(* The comparison of these runs is fair.                                   *)
Who(slots, i, side) == results[slots[SlotOf(i, side)]].who

LockOf(slots, i, side) == results[slots[SlotOf(i, side)]].taskLock

Fair(slots) ==
  /\ \A k \in Slots : slots[k] # Nil
  /\ \A i \in 1..Members :
       /\ \A side \in Sides : Who(slots, i, side) = Who(slots, 1, side)
       /\ LockOf(slots, i, "baseline") = LockOf(slots, i, "candidate")

(* What lies in state.json, now or after a power loss.                     *)
Stored(file) ==
  file # Nil => /\ planned # Nil /\ file \in States
                /\ file.spec = planned.spec
                /\ Own(file.slots)

(* What a session holds at each point.                                     *)
Holds(me) ==
  /\ me \in SessionStates(me.report)
  /\ Own(me.slots)
  /\ me.at \in {"members", "running", "record"} => planned # Nil /\ me.spec = planned.spec
  /\ me.at = "running" => me.locks \in LockPairs
  /\ me.at = "record" => /\ me.run \in RunIds
                         /\ results[me.run] # Nil /\ results[me.run].slot = me.slot
  /\ me.report # Nil => /\ me.at = "printed"
                        /\ planned # Nil /\ me.spec = planned.spec
                        /\ Fair(me.slots)

LocksInPlace ==
  state # Nil \/ stateSafe # Nil \/ (\E s \in Sessions : Alive(s)) =>
    taskLock \in [1..Members -> TaskLocks] /\ candLock \in [Sides -> CandLocks]

SuiteInv ==
  /\ source \in Specs
  /\ planned \in Kept(Plans)
  /\ results \in [RunIds -> Kept(Results)]
  /\ Stored(state) /\ Stored(stateSafe)
  /\ session = [s \in Sessions |-> session[s]]
  /\ \A s \in Sessions : Holds(session[s])
  /\ LocksInPlace

(* One session at a time, and the machine keeps its power.                 *)
OneAtATime ==
  /\ MaxAlive = 1 /\ MaxLosses = 0 /\ losses = 0
  /\ planned = Nil => state = Nil
  /\ \A s, t \in Sessions : Alive(s) /\ Alive(t) => s = t
  /\ \A s \in Sessions : session[s].at = "start" => session[s].slots = NoneRecorded
  /\ \A s \in Sessions : Alive(s) => state # Nil /\ session[s].slots = state.slots
  /\ \A s \in Sessions : session[s].at \in {"running", "record"} =>
       session[s].slots[session[s].slot] = Nil

-----------------------------------------------------------------------------
(* The members and their two sides.                                        *)
LEMMA SlotFacts ==
  /\ \A i \in 1..Members, side \in Sides : SlotOf(i, side) \in Slots
  /\ \A k \in Slots : TaskOf(k) \in 1..Members /\ SideOf(k) \in Sides
  /\ 1 \in Slots /\ 1 \in 1..Members
  BY DEF SlotOf, Slots, TaskOf, SideOf, Sides

(* Results once there stay as they are, and so does a plan.                *)
Keeps == /\ \A r \in RunIds : results[r] # Nil => results'[r] = results[r]
         /\ planned # Nil => planned' = planned

LEMMA OwnStays ==
  ASSUME Keeps, NEW slots \in [Slots -> Kept(RunIds)], Own(slots) PROVE Own(slots)'
  BY DEF Keeps, Own, Kept

LEMMA FairStays ==
  ASSUME Keeps, NEW slots \in [Slots -> Kept(RunIds)], Own(slots), Fair(slots)
  PROVE  Fair(slots)'
<1>1. \A k \in Slots : slots[k] \in RunIds /\ results[slots[k]] # Nil
  BY DEF Own, Fair, Kept
<1>2. \A k \in Slots : results'[slots[k]] = results[slots[k]]
  BY <1>1 DEF Keeps
<1>3. \A i \in 1..Members, side \in Sides :
         results'[slots[SlotOf(i, side)]] = results[slots[SlotOf(i, side)]]
  BY <1>2, SlotFacts
<1> QED
  BY <1>3, SlotFacts DEF Fair, Who, LockOf, Sides

LEMMA HoldsStay == ASSUME Keeps, NEW me, Holds(me) PROVE Holds(me)'
<1>1. me.slots \in [Slots -> Kept(RunIds)]
  BY DEF Holds, SessionStates
<1>2. Own(me.slots)'
  BY <1>1, OwnStays DEF Holds
<1>3. me.report # Nil => Fair(me.slots)'
  BY <1>1, FairStays DEF Holds
<1>4. planned # Nil => planned' = planned
  BY DEF Keeps
<1>5. me.at = "record" => results'[me.run] # Nil /\ results'[me.run].slot = me.slot
  BY DEF Holds, Keeps
<1> QED
  BY <1>2, <1>3, <1>4, <1>5 DEF Holds

LEMMA StoredStays == ASSUME Keeps, NEW file, Stored(file) PROVE Stored(file)'
<1>1. file # Nil => file.slots \in [Slots -> Kept(RunIds)]
  BY DEF Stored, States, Kept
<1> QED
  BY <1>1, OwnStays DEF Stored, Keeps

(* What is left to show of a step of one session.                          *)
LEMMA SessionStep ==
  ASSUME SuiteInv, Keeps, NEW s \in Sessions,
         source' \in Specs, planned' \in Kept(Plans), results' \in [RunIds -> Kept(Results)],
         \E new : session' = [session EXCEPT ![s] = new],
         Holds(session[s])', Stored(state)', Stored(stateSafe)', LocksInPlace'
  PROVE  SuiteInv'
<1>1. /\ session' = [t \in Sessions |-> session'[t]]
      /\ \A t \in Sessions : t # s => session'[t] = session[t]
  BY DEF SuiteInv
<1>2. ASSUME NEW t \in Sessions, t # s PROVE Holds(session[t])'
  <2>1. ASSUME NEW me, me = session[t] PROVE Holds(me)'
    BY <2>1, HoldsStay DEF SuiteInv
  <2> QED
    BY <1>1, <1>2, <2>1
<1> QED
  BY <1>1, <1>2 DEF SuiteInv

-----------------------------------------------------------------------------
(* One lemma per step of a session.                                        *)
LEMMA SuiteInit == Init => SuiteInv
<1> SUFFICES ASSUME Init PROVE SuiteInv
  OBVIOUS
<1>1. Holds(NewSession)
  BY SlotFacts DEF Holds, NewSession, SessionStates, Ats, Kept, Own, NoneRecorded
<1>2. \A r \in RunIds : results[r] = Nil
  BY DEF Init
<1> QED
  BY <1>1 DEF Init, SuiteInv, Stored, LocksInPlace, Alive, NewSession, Kept

(* A session that gives up holds what it held.                             *)
LEMMA GivenUp ==
  ASSUME SuiteInv, Keeps, NEW s \in Sessions, session[s].at # "printed",
         NEW at \in {"failed", "killed"},
         session' = [session EXCEPT ![s] = [session[s] EXCEPT !.at = at]]
  PROVE  Holds(session[s])'
<1> DEFINE me == session[s]
<1>1. Holds(me) /\ me \in SessionStates(me.report)
  BY DEF SuiteInv, Holds
<1>2. session'[s] = [me EXCEPT !.at = at]
  BY DEF SuiteInv
<1>3. /\ session'[s] \in SessionStates(session'[s].report)
      /\ session'[s].at = at /\ session'[s].slots = me.slots /\ session'[s].report = me.report
  BY <1>1, <1>2 DEF SessionStates, Ats
<1>4. me.report = Nil
  BY <1>1 DEF Holds
<1>5. me.slots \in [Slots -> Kept(RunIds)] /\ Own(me.slots)
  BY <1>1 DEF Holds, SessionStates
<1>6. ASSUME NEW slots, slots = me.slots PROVE Own(slots)'
  BY <1>5, <1>6, OwnStays
<1>7. Own(session[s].slots)'
  BY <1>3, <1>6
<1> QED
  BY <1>3, <1>4, <1>7 DEF Holds

(* The files of the suite do not move.                                     *)
LEMMA StandStill ==
  ASSUME SuiteInv, Keeps, UNCHANGED suiteVars,
         (\E s \in Sessions : Alive(s))' => state # Nil \/ \E s \in Sessions : Alive(s)
  PROVE  Stored(state)' /\ Stored(stateSafe)' /\ LocksInPlace'
<1>1. ASSUME NEW file, file = state PROVE Stored(file)'
  BY <1>1, StoredStays DEF SuiteInv
<1>2. ASSUME NEW file, file = stateSafe PROVE Stored(file)'
  BY <1>2, StoredStays DEF SuiteInv
<1> QED
  BY <1>1, <1>2 DEF SuiteInv, suiteVars, LocksInPlace

(* The result a member run leaves is new and of that member.               *)
LEMMA LeavesResult ==
  ASSUME SuiteInv, NEW s \in Sessions, session[s].at = "running",
         NEW r \in RunIds, Leaves(s, r), planned' = planned
  PROVE  /\ Keeps /\ results' \in [RunIds -> Kept(Results)]
         /\ results'[r] # Nil /\ results'[r].slot = session[s].slot
<1> DEFINE locks == session[s].locks
           result(o) == [slot |-> session[s].slot, taskLock |-> locks.task,
                         candLock |-> locks.cand, who |-> WhoOf[locks.cand], score |-> o.score,
                         timedOut |-> o.timedOut, tokens |-> o.tokens]
<1>1. PICK o \in Outcomes : results[r] = Nil /\ results' = [results EXCEPT ![r] = result(o)]
  BY DEF Leaves
<1>2. locks \in LockPairs /\ session[s].slot \in Slots
  BY DEF SuiteInv, Holds, SessionStates
<1>3. result(o) \in Results /\ result(o).slot = session[s].slot
  BY <1>2 DEF Results, LockPairs
<1> HIDE DEF result
<1> QED
  BY <1>1, <1>3 DEF SuiteInv, Keeps, Kept

LEMMA LeavesOrNotKeeps ==
  ASSUME SuiteInv, NEW s \in Sessions, session[s].at = "running", LeavesOrNot(s),
         planned' = planned
  PROVE  Keeps /\ results' \in [RunIds -> Kept(Results)]
  BY LeavesResult DEF LeavesOrNot, SuiteInv, Keeps

LEMMA PlanPreserves ==
  ASSUME SuiteInv, NEW s \in Sessions, Plan(s) PROVE SuiteInv'
<1> DEFINE me == session[s]
<1>1. /\ me.at = "start" /\ planned = Nil /\ source' = source /\ results' = results
      /\ taskLock' \in [1..Members -> TaskLocks] /\ candLock' \in [Sides -> CandLocks]
      /\ state' = [spec |-> source, slots |-> NoneRecorded] /\ stateSafe' = state'
      /\ planned' = [spec |-> source, task |-> taskLock', cand |-> candLock']
      /\ session' = [session EXCEPT ![s] = [me EXCEPT !.at = "members", !.spec = source]]
  BY DEF Plan, MayStart, Becomes
<1>2. planned' \in Plans /\ planned' # Nil /\ planned'.spec = source
  BY <1>1 DEF SuiteInv, Plans
<1>3. Keeps
  BY <1>1 DEF Keeps
<1>4. state' \in States /\ state'.spec = source /\ state'.slots = NoneRecorded
  BY <1>1 DEF SuiteInv, States, NoneRecorded
<1>5. Stored(state)' /\ Stored(stateSafe)'
  BY <1>1, <1>2, <1>4 DEF Stored, Own, NoneRecorded
<1>6. Holds(me) /\ me \in SessionStates(me.report) /\ me.report = Nil
  BY <1>1 DEF SuiteInv, Holds
<1>7. session'[s] = [me EXCEPT !.at = "members", !.spec = source]
  BY <1>1 DEF SuiteInv
<1>8. /\ session'[s] \in SessionStates(session'[s].report) /\ session'[s].spec = source
      /\ session'[s].at = "members" /\ session'[s].slots = me.slots /\ session'[s].report = Nil
  BY <1>6, <1>7 DEF SuiteInv, SessionStates, Ats, Kept
<1>9. me.slots \in [Slots -> Kept(RunIds)] /\ Own(me.slots)
  BY <1>6 DEF Holds, SessionStates
<1>10. ASSUME NEW slots, slots = me.slots PROVE Own(slots)'
  BY <1>3, <1>9, <1>10, OwnStays
<1>11. Own(session[s].slots)'
  BY <1>8, <1>10
<1>12. Holds(session[s])'
  BY <1>2, <1>8, <1>11 DEF Holds
<1>13. LocksInPlace'
  BY <1>1 DEF LocksInPlace
<1> QED
  BY <1>1, <1>2, <1>3, <1>5, <1>12, <1>13, SessionStep DEF SuiteInv, Kept

(* The steps that only end a session.                                      *)
GivesUp(s) ==
  /\ session[s].at \notin {"printed", "failed", "killed"}
  /\ \E at \in {"failed", "killed"} : Becomes(s, [session[s] EXCEPT !.at = at])
  /\ UNCHANGED <<source, planned, suiteVars>>
  /\ UNCHANGED results \/ (session[s].at = "running" /\ LeavesOrNot(s))

LEMMA GivesUpPreserves ==
  ASSUME SuiteInv, NEW s \in Sessions, GivesUp(s) PROVE SuiteInv'
<1>1. PICK at \in {"failed", "killed"} :
        session' = [session EXCEPT ![s] = [session[s] EXCEPT !.at = at]]
  BY DEF GivesUp, Becomes
<1>2. Keeps /\ results' \in [RunIds -> Kept(Results)]
  BY LeavesOrNotKeeps DEF GivesUp, SuiteInv, Keeps
<1>3. Holds(session[s])'
  BY <1>1, <1>2, GivenUp DEF GivesUp
<1>4. \A t \in Sessions : Alive(t)' => Alive(t)
  <2>1. \A t \in Sessions : t # s => session'[t] = session[t]
    BY <1>1 DEF SuiteInv
  <2>2. session'[s].at = at
    BY <1>1 DEF SuiteInv, Holds, SessionStates
  <2> QED
    BY <2>1, <2>2 DEF Alive
<1>5. Stored(state)' /\ Stored(stateSafe)' /\ LocksInPlace'
  BY <1>2, <1>4, StandStill DEF GivesUp
<1> QED
  BY <1>1, <1>2, <1>3, <1>5, SessionStep DEF GivesUp, SuiteInv

LEMMA ResumePreserves ==
  ASSUME SuiteInv, NEW s \in Sessions, Resume(s) PROVE SuiteInv'
<1> DEFINE me == session[s]
<1>1. me.at = "start" /\ planned # Nil /\ UNCHANGED <<source, planned, suiteVars, results>>
  BY DEF Resume, MayStart
<1>2. CASE state # Nil /\ state.spec = source
  <2>1. session' = [session EXCEPT ![s] = [me EXCEPT !.at = "members", !.spec = source,
                                                      !.slots = state.slots]]
    BY <1>2 DEF Resume, Becomes
  <2>2. Keeps
    BY <1>1 DEF Keeps
  <2>3. Holds(me) /\ me \in SessionStates(me.report) /\ me.report = Nil
    BY <1>1 DEF SuiteInv, Holds
  <2>4. session'[s] = [me EXCEPT !.at = "members", !.spec = source, !.slots = state.slots]
    BY <2>1 DEF SuiteInv
  <2>5. /\ state.slots \in [Slots -> Kept(RunIds)] /\ Own(state.slots)
        /\ source = planned.spec
    BY <1>2 DEF SuiteInv, Stored, States, Kept
  <2>6. /\ session'[s] \in SessionStates(session'[s].report) /\ session'[s].spec = source
        /\ session'[s].at = "members" /\ session'[s].slots = state.slots
        /\ session'[s].report = Nil
    BY <2>3, <2>4, <2>5 DEF SuiteInv, SessionStates, Ats, Kept
  <2>7. Own(session[s].slots)'
    BY <1>1, <2>5, <2>6 DEF Own
  <2>8. Holds(session[s])'
    BY <1>1, <2>5, <2>6, <2>7 DEF Holds
  <2>9. Stored(state)' /\ Stored(stateSafe)' /\ LocksInPlace'
    BY <1>1, <1>2, <2>2, StandStill
  <2> QED
    BY <1>1, <2>1, <2>2, <2>8, <2>9, SessionStep DEF SuiteInv
<1>3. CASE ~(state # Nil /\ state.spec = source)
  BY <1>1, <1>3, GivesUpPreserves DEF Resume, GivesUp, Becomes
<1> QED
  BY <1>2, <1>3

LEMMA BeginMemberPreserves ==
  ASSUME SuiteInv, NEW s \in Sessions, BeginMember(s) PROVE SuiteInv'
<1> DEFINE me == session[s]
           locks(k) == [task |-> taskLock[TaskOf(k)], cand |-> candLock[SideOf(k)]]
<1>1. PICK k \in Slots :
        /\ me.at = "members" /\ UNCHANGED <<source, planned, suiteVars, results>>
        /\ session' = [session EXCEPT ![s] = [me EXCEPT !.at = "running", !.slot = k,
                                                        !.locks = locks(k)]]
  BY DEF BeginMember, Becomes, Unrecorded
<1>2. Keeps
  BY <1>1 DEF Keeps
<1>3. Holds(me) /\ me \in SessionStates(me.report) /\ me.report = Nil
  BY <1>1 DEF SuiteInv, Holds
<1>4. locks(k) \in LockPairs
  <2>1. taskLock \in [1..Members -> TaskLocks] /\ candLock \in [Sides -> CandLocks]
    BY <1>1 DEF SuiteInv, LocksInPlace, Alive
  <2> QED
    BY <2>1, SlotFacts DEF LockPairs
<1> HIDE DEF locks
<1>5. session'[s] = [me EXCEPT !.at = "running", !.slot = k, !.locks = locks(k)]
  BY <1>1 DEF SuiteInv
<1>6. /\ session'[s] \in SessionStates(session'[s].report) /\ session'[s].spec = me.spec
      /\ session'[s].at = "running" /\ session'[s].slots = me.slots
      /\ session'[s].locks = locks(k) /\ session'[s].report = Nil
  BY <1>3, <1>4, <1>5 DEF SessionStates, Ats, Kept
<1>7. Own(session[s].slots)'
  BY <1>1, <1>3, <1>6 DEF Own, Holds
<1>8. Holds(session[s])'
  BY <1>1, <1>3, <1>4, <1>6, <1>7 DEF Holds
<1>9. Stored(state)' /\ Stored(stateSafe)' /\ LocksInPlace'
  BY <1>1, <1>2, StandStill DEF Alive
<1> QED
  BY <1>1, <1>2, <1>8, <1>9, SessionStep DEF SuiteInv

LEMMA MemberCompletesPreserves ==
  ASSUME SuiteInv, NEW s \in Sessions, MemberCompletes(s) PROVE SuiteInv'
<1> DEFINE me == session[s]
<1>1. PICK r \in RunIds :
        /\ me.at = "running" /\ Leaves(s, r) /\ UNCHANGED <<source, planned, suiteVars>>
        /\ session' = [session EXCEPT ![s] = [me EXCEPT !.at = "record", !.run = r]]
  BY DEF MemberCompletes, Becomes
<1>2. /\ Keeps /\ results' \in [RunIds -> Kept(Results)]
      /\ results'[r] # Nil /\ results'[r].slot = me.slot
  BY <1>1, LeavesResult
<1>3. Holds(me) /\ me \in SessionStates(me.report) /\ me.report = Nil
  BY <1>1 DEF SuiteInv, Holds
<1>4. session'[s] = [me EXCEPT !.at = "record", !.run = r]
  BY <1>1 DEF SuiteInv
<1>5. /\ session'[s] \in SessionStates(session'[s].report) /\ session'[s].spec = me.spec
      /\ session'[s].at = "record" /\ session'[s].slots = me.slots
      /\ session'[s].run = r /\ session'[s].slot = me.slot /\ session'[s].report = Nil
  BY <1>3, <1>4 DEF SessionStates, Ats, Kept
<1>6. me.slots \in [Slots -> Kept(RunIds)] /\ Own(me.slots)
  BY <1>3 DEF Holds, SessionStates
<1>7. ASSUME NEW slots, slots = me.slots PROVE Own(slots)'
  BY <1>2, <1>6, <1>7, OwnStays
<1>8. Own(session[s].slots)'
  BY <1>5, <1>7
<1>9. Holds(session[s])'
  BY <1>1, <1>2, <1>3, <1>5, <1>8 DEF Holds
<1>10. Stored(state)' /\ Stored(stateSafe)' /\ LocksInPlace'
  BY <1>1, <1>2, StandStill DEF Alive
<1> QED
  BY <1>1, <1>2, <1>9, <1>10, SessionStep DEF SuiteInv

(* What is written is what the session knows and the run it waited for.    *)
LEMMA RecordPreserves ==
  ASSUME SuiteInv, NEW s \in Sessions, Record(s) PROVE SuiteInv'
<1> DEFINE me == session[s]
           slots == [me.slots EXCEPT ![me.slot] = me.run]
           file == [spec |-> me.spec, slots |-> slots]
<1>1. PICK ok \in BOOLEAN :
        /\ me.at = "record" /\ WriteState(file, ok)
        /\ session' = [session EXCEPT ![s] =
                         [me EXCEPT !.at = IF ok THEN "members" ELSE "failed",
                                    !.slots = slots, !.run = Nil, !.locks = Nil]]
        /\ UNCHANGED <<source, planned, taskLock, candLock, results>>
  BY DEF Record, Becomes
<1>2. Keeps
  BY <1>1 DEF Keeps
<1>3. Holds(me) /\ me \in SessionStates(me.report) /\ me.report = Nil
  BY <1>1 DEF SuiteInv, Holds
<1>4. slots \in [Slots -> Kept(RunIds)] /\ Own(slots)
  BY <1>1, <1>3 DEF Holds, SessionStates, Own, Kept
<1>5. planned # Nil /\ me.spec = planned.spec /\ me.spec \in Specs
  BY <1>1, <1>3 DEF Holds, SuiteInv, Plans, Kept
<1>6. file \in States /\ file.spec = planned.spec /\ file.slots = slots
  BY <1>4, <1>5 DEF States, Kept
<1>7. Stored(file)
  BY <1>4, <1>5, <1>6 DEF Stored
<1>8. /\ session'[s] \in SessionStates(session'[s].report) /\ session'[s].spec = me.spec
      /\ session'[s].at \in {"members", "failed"} /\ session'[s].slots = slots
      /\ session'[s].report = Nil
  <2>1. session'[s] = [me EXCEPT !.at = IF ok THEN "members" ELSE "failed",
                                 !.slots = slots, !.run = Nil, !.locks = Nil]
    BY <1>1 DEF SuiteInv
  <2> HIDE DEF slots
  <2> QED
    BY <1>3, <1>4, <2>1 DEF SessionStates, Ats, Kept
<1> HIDE DEF slots, file
<1>9. Own(session[s].slots)'
  BY <1>1, <1>4, <1>8 DEF Own
<1>10. Holds(session[s])'
  BY <1>1, <1>5, <1>8, <1>9 DEF Holds
<1>11. Stored(state)' /\ Stored(stateSafe)'
  BY <1>1, <1>7 DEF WriteState, Stored, SuiteInv, Own
<1>12. LocksInPlace'
  BY <1>1 DEF SuiteInv, LocksInPlace, Alive
<1> QED
  BY <1>1, <1>2, <1>10, <1>11, <1>12, SessionStep DEF SuiteInv

(* What compare_pairs insists on is what a fair comparison is.             *)
LEMMA ComparableIsFair ==
  ASSUME SuiteInv, NEW slots \in [Slots -> Kept(RunIds)], Comparable(Pairs(slots)),
         \A k \in Slots : slots[k] # Nil
  PROVE  Fair(slots)
<1> DEFINE pairs == Pairs(slots)
<1>1. /\ DOMAIN pairs = 1..Members
      /\ \A i \in 1..Members :
           /\ pairs[i].baseline = results[slots[SlotOf(i, "baseline")]]
           /\ pairs[i].candidate = results[slots[SlotOf(i, "candidate")]]
  BY DEF Pairs, Sides
<1>2. \A i \in 1..Members :
        /\ pairs[i].baseline.who = pairs[1].baseline.who
        /\ pairs[i].candidate.who = pairs[1].candidate.who
        /\ pairs[i].baseline.taskLock = pairs[i].candidate.taskLock
  BY <1>1 DEF Comparable, SameTask, pairs
<1> HIDE DEF pairs
<1>3. ASSUME NEW i \in 1..Members, NEW side \in Sides PROVE Who(slots, i, side) = Who(slots, 1, side)
  <2>1. 1 \in 1..Members
    BY SlotFacts
  <2>2. CASE side = "baseline"
    BY <1>1, <1>2, <2>1, <2>2 DEF Who
  <2>3. CASE side = "candidate"
    BY <1>1, <1>2, <2>1, <2>3 DEF Who
  <2> QED
    BY <2>2, <2>3 DEF Sides
<1>4. ASSUME NEW i \in 1..Members
      PROVE  LockOf(slots, i, "baseline") = LockOf(slots, i, "candidate")
  BY <1>1, <1>2 DEF LockOf
<1> QED
  BY <1>3, <1>4 DEF Fair

LEMMA PrintPreserves ==
  ASSUME SuiteInv, NEW s \in Sessions, PrintReport(s) PROVE SuiteInv'
<1> DEFINE me == session[s]
           pairs == Pairs(me.slots)
<1>1. me.at = "members" /\ Unrecorded(s) = {} /\ UNCHANGED <<source, planned, suiteVars, results>>
  BY DEF PrintReport
<1>2. CASE Comparable(pairs)
  <2>1. session' = [session EXCEPT ![s] = [me EXCEPT !.at = "printed",
                                                      !.report = Summary(pairs)]]
    BY <1>2 DEF PrintReport, Becomes
  <2>2. Keeps
    BY <1>1 DEF Keeps
  <2>3. Holds(me) /\ me \in SessionStates(me.report)
    BY DEF SuiteInv, Holds
  <2>4. me.slots \in [Slots -> Kept(RunIds)] /\ Own(me.slots)
    BY <2>3 DEF Holds, SessionStates
  <2>5. Fair(me.slots)
    BY <1>1, <1>2, <2>4, ComparableIsFair DEF Unrecorded
  <2>6. session'[s] = [me EXCEPT !.at = "printed", !.report = Summary(pairs)]
    BY <2>1 DEF SuiteInv
  <2> HIDE DEF pairs
  <2>7. /\ session'[s] \in SessionStates(session'[s].report) /\ session'[s].spec = me.spec
        /\ session'[s].at = "printed" /\ session'[s].slots = me.slots
    BY <2>3, <2>6 DEF SessionStates, Ats
  <2>8. ASSUME NEW slots, slots = me.slots PROVE Own(slots)' /\ Fair(slots)'
    BY <2>2, <2>4, <2>5, <2>8, OwnStays, FairStays
  <2>9. Own(session[s].slots)' /\ Fair(session[s].slots)'
    BY <2>7, <2>8
  <2>10. Holds(session[s])'
    BY <1>1, <2>3, <2>7, <2>9 DEF Holds
  <2>11. Stored(state)' /\ Stored(stateSafe)' /\ LocksInPlace'
    BY <1>1, <2>2, StandStill DEF Alive
  <2> QED
    BY <1>1, <2>1, <2>2, <2>10, <2>11, SessionStep DEF SuiteInv
<1>3. CASE ~Comparable(pairs)
  BY <1>1, <1>3, GivesUpPreserves DEF PrintReport, GivesUp, Becomes
<1> QED
  BY <1>2, <1>3

-----------------------------------------------------------------------------
(* The environment.                                                        *)
LEMMA PowerLossPreservesSuite == ASSUME SuiteInv, PowerLoss PROVE SuiteInv'
<1>1. Keeps /\ UNCHANGED <<source, planned, results>>
  BY DEF PowerLoss, Keeps
<1>2. Stored(state)' /\ Stored(stateSafe)'
  <2>1. state' \in {state, stateSafe, Nil} /\ stateSafe' = state'
    BY DEF PowerLoss
  <2> QED
    BY <1>1, <2>1 DEF SuiteInv, Stored, Own
<1>3. /\ session' = [s \in Sessions |-> session'[s]]
      /\ \A s \in Sessions :
           session'[s] = IF Alive(s) THEN [session[s] EXCEPT !.at = "killed"] ELSE session[s]
  BY DEF PowerLoss
<1>4. ASSUME NEW s \in Sessions PROVE Holds(session[s])' /\ ~Alive(s)'
  <2>1. Holds(session[s]) /\ session[s] \in SessionStates(session[s].report)
    BY DEF SuiteInv, Holds
  <2>2. CASE Alive(s)
    <3>1. session'[s] = [session[s] EXCEPT !.at = "killed"]
      BY <1>3, <2>2
    <3>2. /\ session'[s] \in SessionStates(session'[s].report) /\ session'[s].at = "killed"
          /\ session'[s].slots = session[s].slots /\ session'[s].report = session[s].report
      BY <2>1, <3>1 DEF SessionStates, Ats
    <3>3. session[s].report = Nil
      BY <2>1, <2>2 DEF Holds, Alive
    <3> QED
      BY <1>1, <2>1, <3>2, <3>3 DEF Holds, Own, Alive
  <2>3. CASE ~Alive(s)
    <3>1. session'[s] = session[s]
      BY <1>3, <2>3
    <3>2. ASSUME NEW me, me = session[s] PROVE Holds(me)'
      BY <1>1, <2>1, <3>2, HoldsStay
    <3> QED
      BY <2>3, <3>1, <3>2 DEF Alive
  <2> QED
    BY <2>2, <2>3
<1>5. LocksInPlace'
  <2>1. state' # Nil => (state # Nil \/ stateSafe # Nil) /\ UNCHANGED <<taskLock, candLock>>
    BY DEF PowerLoss
  <2> QED
    BY <1>4, <2>1 DEF SuiteInv, LocksInPlace, PowerLoss
<1> QED
  BY <1>1, <1>2, <1>3, <1>4, <1>5 DEF SuiteInv

LEMMA EnvironmentPreserves ==
  ASSUME SuiteInv, EditSource \/ ReplaceLock \/ Finished \/ UNCHANGED vars PROVE SuiteInv'
<1>1. UNCHANGED <<planned, state, stateSafe, results, session>> /\ source' \in Specs
  BY DEF EditSource, ReplaceLock, Finished, vars, suiteVars, SuiteInv
<1>2. LocksInPlace'
  <2>1. CASE ReplaceLock
    <3>1. taskLock \in [1..Members -> TaskLocks] /\ candLock \in [Sides -> CandLocks]
      BY <2>1 DEF ReplaceLock, SuiteInv, LocksInPlace
    <3> QED
      BY <2>1, <3>1 DEF ReplaceLock, LocksInPlace
  <2>2. CASE UNCHANGED <<taskLock, candLock>>
    BY <1>1, <2>2 DEF SuiteInv, LocksInPlace, Alive
  <2> QED
    BY <2>1, <2>2 DEF EditSource, Finished, vars, suiteVars
<1>3. Stored(state)' /\ Stored(stateSafe)'
  BY <1>1, Zenon DEF SuiteInv, Stored, Own
<1>4. \A s \in Sessions : Holds(session[s])'
  <2>1. ASSUME NEW s \in Sessions PROVE Holds(session[s])'
    <3>1. Holds(session[s])
      BY DEF SuiteInv
    <3> QED
      BY <1>1, <3>1, Zenon DEF Holds, Own, Fair, Who, LockOf
  <2> QED
    BY <2>1
<1> QED
  BY <1>1, <1>2, <1>3, <1>4 DEF SuiteInv

LEMMA SuiteNext == SuiteInv /\ [Next]_vars => SuiteInv'
<1> SUFFICES ASSUME SuiteInv, [Next]_vars PROVE SuiteInv'
  OBVIOUS
<1>1. ASSUME NEW s \in Sessions, PlanFails(s) \/ MemberFails(s) \/ Kill(s) PROVE SuiteInv'
  <2>1. GivesUp(s)
    BY <1>1 DEF PlanFails, MemberFails, Kill, MayStart, Alive, GivesUp
  <2> QED
    BY <2>1, GivesUpPreserves
<1>2. ASSUME NEW s \in Sessions, Plan(s) \/ Resume(s) \/ BeginMember(s) \/ MemberCompletes(s)
                                  \/ Record(s) \/ PrintReport(s)
      PROVE  SuiteInv'
  BY <1>2, PlanPreserves, ResumePreserves, BeginMemberPreserves, MemberCompletesPreserves,
     RecordPreserves, PrintPreserves
<1> QED
  BY <1>1, <1>2, PowerLossPreservesSuite, EnvironmentPreserves DEF Next, Proceed, OwnStep

LEMMA SuiteInvHolds == Spec => []SuiteInv
  BY SuiteInit, SuiteNext, PTL DEF Spec

(* However sessions of one suite overlap, die and lose their last write of *)
(* state.json, each run it names has a result of the very member it is     *)
(* recorded for, so load_pairs never mixes up Tasks or sides.              *)
THEOREM RecordedRunsAreOwn == Spec => []RecordedIsOwn
<1>1. SuiteInv => RecordedIsOwn
  BY DEF SuiteInv, Stored, Own, RecordedIsOwn
<1> QED
  BY <1>1, SuiteInvHolds, PTL

(* A printed comparison sets one Candidate against another, Task by Task   *)
(* on the same lock, whatever was replaced and whoever else worked on the  *)
(* suite: what compare_pairs checked of the results stays true of them.    *)
THEOREM ReportsAreFair == Spec => []ReportIsFair
<1>1. SuiteInv => ReportIsFair
  <2> SUFFICES ASSUME SuiteInv, NEW s \in Sessions, session[s].report # Nil
               PROVE  /\ \A k \in Slots : session[s].slots[k] # Nil
                                          /\ results[session[s].slots[k]].slot = k
                      /\ \A side \in Sides, i, j \in 1..Members :
                           Who(session[s].slots, i, side) = Who(session[s].slots, j, side)
                      /\ \A i \in 1..Members :
                           LockOf(session[s].slots, i, "baseline") =
                           LockOf(session[s].slots, i, "candidate")
    BY DEF ReportIsFair, Who, LockOf
  <2>1. Fair(session[s].slots) /\ Own(session[s].slots)
    BY DEF SuiteInv, Holds
  <2> QED
    BY <2>1 DEF Fair, Own
<1> QED
  BY <1>1, SuiteInvHolds, PTL

(* A comparison is printed only of the suite source that was planned,      *)
(* although resume_state compares it with nothing but state.json.          *)
THEOREM ReportsAreOfTheirSource == Spec => []ReportIsOfItsSource
<1>1. SuiteInv => ReportIsOfItsSource
  BY DEF SuiteInv, Holds, ReportIsOfItsSource
<1> QED
  BY <1>1, SuiteInvHolds, PTL

-----------------------------------------------------------------------------
(* What the printed numbers are.  A report stays the summary of the pairs  *)
(* it was made of.                                                         *)
SumsUp == \A s \in Sessions :
  session[s].report # Nil => session[s].report = Summary(Pairs(session[s].slots))

LEMMA StepsKeep == ASSUME SuiteInv, [Next]_vars PROVE Keeps
<1>1. ASSUME NEW s \in Sessions, MemberCompletes(s) PROVE Keeps
  BY <1>1, LeavesResult DEF MemberCompletes
<1>2. ASSUME NEW s \in Sessions, MemberFails(s) \/ Kill(s) PROVE Keeps
  BY <1>2, LeavesOrNotKeeps DEF MemberFails, Kill, Keeps
<1>3. ASSUME NEW s \in Sessions, Plan(s) \/ PlanFails(s) \/ Resume(s) \/ BeginMember(s) \/ Record(s) \/ PrintReport(s)
      PROVE  Keeps
  BY <1>3 DEF Plan, PlanFails, Resume, BeginMember, Record, PrintReport, Keeps
<1>4. ASSUME EditSource \/ ReplaceLock \/ PowerLoss \/ Finished \/ UNCHANGED vars PROVE Keeps
  BY <1>4 DEF EditSource, ReplaceLock, PowerLoss, Finished, vars, Keeps
<1> QED
  BY <1>1, <1>2, <1>3, <1>4 DEF Next, Proceed, OwnStep

LEMMA ReportStep ==
  ASSUME SuiteInv, [Next]_vars, NEW s \in Sessions, session'[s].report # Nil
  PROVE  \/ session'[s] = session[s]
         \/ /\ UNCHANGED results /\ session'[s].slots = session[s].slots
            /\ \A k \in Slots : session[s].slots[k] # Nil
            /\ session'[s].report = Summary(Pairs(session[s].slots))
<1> DEFINE me == session[s]
<1>1. me \in SessionStates(me.report) /\ (me.at # "printed" => me.report = Nil)
  BY DEF SuiteInv, Holds
<1>2. ASSUME NEW t \in Sessions, t # s, \E new : session' = [session EXCEPT ![t] = new]
      PROVE  session'[s] = session[s]
  BY <1>2 DEF SuiteInv
<1>3. ASSUME NEW t \in Sessions,
             Plan(t) \/ PlanFails(t) \/ Resume(t) \/ Proceed(t) \/ Kill(t)
      PROVE  \E new : session' = [session EXCEPT ![t] = new]
  BY <1>3, Zenon DEF Plan, PlanFails, Resume, Proceed, Kill, OwnStep, BeginMember, MemberCompletes,
         MemberFails, Record, PrintReport, Becomes
<1>4. ASSUME NEW new, session' = [session EXCEPT ![s] = new] PROVE session'[s] = new
  BY <1>4 DEF SuiteInv
<1>5. ~Plan(s)
  <2> SUFFICES ASSUME Plan(s) PROVE FALSE
    OBVIOUS
  <2>1. session'[s] = [me EXCEPT !.at = "members", !.spec = source] /\ me.report = Nil
    BY <1>1, <1>4 DEF Plan, Becomes, MayStart
  <2> QED
    BY <1>1, <2>1 DEF SessionStates
<1>6. ~PlanFails(s)
  <2> SUFFICES ASSUME PlanFails(s) PROVE FALSE
    OBVIOUS
  <2>1. session'[s] = [me EXCEPT !.at = "failed"] /\ me.report = Nil
    BY <1>1, <1>4 DEF PlanFails, Becomes, MayStart
  <2> QED
    BY <1>1, <2>1 DEF SessionStates
<1>7. ~Resume(s)
  <2> SUFFICES ASSUME Resume(s) PROVE FALSE
    OBVIOUS
  <2>1. /\ me.report = Nil
        /\ \/ session'[s] = [me EXCEPT !.at = "members", !.spec = source, !.slots = state.slots]
           \/ session'[s] = [me EXCEPT !.at = "failed"]
    BY <1>1, <1>4 DEF Resume, Becomes, MayStart
  <2> QED
    BY <1>1, <2>1 DEF SessionStates
<1>8. ~BeginMember(s)
  <2> SUFFICES ASSUME BeginMember(s) PROVE FALSE
    OBVIOUS
  <2>1. me.report = Nil /\ \E k, locks : session'[s] = [me EXCEPT !.at = "running", !.slot = k, !.locks = locks]
    BY <1>1, <1>4 DEF BeginMember, Becomes
  <2> QED
    BY <1>1, <2>1 DEF SessionStates
<1>9. ~MemberCompletes(s)
  <2> SUFFICES ASSUME MemberCompletes(s) PROVE FALSE
    OBVIOUS
  <2>1. me.report = Nil /\ \E r : session'[s] = [me EXCEPT !.at = "record", !.run = r]
    BY <1>1, <1>4 DEF MemberCompletes, Becomes
  <2> QED
    BY <1>1, <2>1 DEF SessionStates
<1>10. ~MemberFails(s) /\ ~Kill(s)
  <2> SUFFICES ASSUME MemberFails(s) \/ Kill(s) PROVE FALSE
    OBVIOUS
  <2>1. me.report = Nil /\ \E at : session'[s] = [me EXCEPT !.at = at]
    BY <1>1, <1>4 DEF MemberFails, Kill, Becomes, Alive
  <2> QED
    BY <1>1, <2>1 DEF SessionStates
<1>11. ~Record(s)
  <2> SUFFICES ASSUME Record(s) PROVE FALSE
    OBVIOUS
  <2>1. me.report = Nil /\ \E at, slots : session'[s] = [me EXCEPT !.at = at, !.slots = slots, !.run = Nil, !.locks = Nil]
    BY <1>1, <1>4 DEF Record, Becomes
  <2> QED
    BY <1>1, <2>1 DEF SessionStates
<1>12. ASSUME PrintReport(s)
       PROVE  /\ UNCHANGED results /\ session'[s].slots = me.slots
              /\ \A k \in Slots : me.slots[k] # Nil
              /\ session'[s].report = Summary(Pairs(me.slots))
  <2> DEFINE summary == Summary(Pairs(me.slots))
  <2>1. /\ UNCHANGED results /\ (\A k \in Slots : me.slots[k] # Nil) /\ me.report = Nil
        /\ \/ session'[s] = [me EXCEPT !.at = "printed", !.report = summary]
           \/ session'[s] = [me EXCEPT !.at = "failed"]
    BY <1>1, <1>4, <1>12 DEF PrintReport, Becomes, Unrecorded
  <2> HIDE DEF summary
  <2>2. session'[s].slots = me.slots /\ session'[s].report = summary
    BY <1>1, <2>1 DEF SessionStates
  <2> QED
    BY <2>1, <2>2 DEF summary
<1>13. ASSUME PowerLoss PROVE session'[s] = session[s]
  <2>1. session'[s] = IF Alive(s) THEN [me EXCEPT !.at = "killed"] ELSE me
    BY <1>13 DEF PowerLoss
  <2>2. ~Alive(s)
    <3> SUFFICES ASSUME Alive(s) PROVE FALSE
      OBVIOUS
    <3>1. session'[s] = [me EXCEPT !.at = "killed"] /\ me.report = Nil
      BY <1>1, <2>1 DEF Alive
    <3> QED
      BY <1>1, <3>1 DEF SessionStates
  <2> QED
    BY <2>1, <2>2
<1>14. ASSUME EditSource \/ ReplaceLock \/ Finished \/ UNCHANGED vars PROVE session'[s] = session[s]
  BY <1>14 DEF EditSource, ReplaceLock, Finished, vars
<1> QED
  BY <1>2, <1>3, <1>5, <1>6, <1>7, <1>8, <1>9, <1>10, <1>11, <1>12, <1>13, <1>14 DEF Next, Proceed, OwnStep

LEMMA SumsUpStays == ASSUME SuiteInv, SumsUp, [Next]_vars PROVE SumsUp'
<1> SUFFICES ASSUME NEW s \in Sessions, session'[s].report # Nil
             PROVE  session'[s].report = Summary(Pairs(session[s].slots)')
  BY DEF SumsUp
<1> DEFINE slots == session[s].slots
<1>1. slots \in [Slots -> Kept(RunIds)] /\ Own(slots)
  BY DEF SuiteInv, Holds, SessionStates
<1>2. /\ session'[s].slots = slots /\ \A k \in Slots : slots[k] # Nil
      /\ session'[s].report = Summary(Pairs(slots))
  <2>1. ASSUME session'[s] = session[s] PROVE \A k \in Slots : slots[k] # Nil
    BY <2>1 DEF SuiteInv, Holds, Fair
  <2> QED
    BY <2>1, ReportStep DEF SumsUp
<1>3. \A k \in Slots : results'[slots[k]] = results[slots[k]]
  BY <1>1, <1>2, StepsKeep DEF Keeps, Own, Kept
<1>4. Pairs(session[s].slots)' = Pairs(slots)
  BY <1>2, <1>3, SlotFacts DEF Pairs
<1> QED
  BY <1>2, <1>4

(* Every pair is a win of one side or a tie.                               *)
LEMMA CountsAddUp ==
  ASSUME NEW n \in Nat, NEW a, NEW b, \A i \in 1..n : a[i] \in Int /\ b[i] \in Int
  PROVE  Cardinality({i \in 1..n : a[i] > b[i]}) + Cardinality({i \in 1..n : a[i] = b[i]})
           + Cardinality({i \in 1..n : a[i] < b[i]}) = n
<1> DEFINE more == {i \in 1..n : a[i] > b[i]}
           same == {i \in 1..n : a[i] = b[i]}
           less == {i \in 1..n : a[i] < b[i]}
<1>1. IsFiniteSet(1..n) /\ Cardinality(1..n) = n
  BY FS_Interval
<1>2. IsFiniteSet(more) /\ IsFiniteSet(same) /\ IsFiniteSet(less)
  BY <1>1, FS_Subset
<1>3. more \cap same = {} /\ (more \cup same) \cap less = {} /\ (more \cup same) \cup less = 1..n
  OBVIOUS
<1> HIDE DEF more, same, less
<1>4. /\ Cardinality(more) \in Nat /\ Cardinality(same) \in Nat /\ Cardinality(less) \in Nat
      /\ Cardinality({}) = 0
  BY <1>2, FS_CardinalityType, FS_EmptySet
<1>5. IsFiniteSet(more \cup same) /\ Cardinality(more \cup same) = Cardinality(more) + Cardinality(same)
  <2>1. Cardinality(more \cup same) = Cardinality(more) + Cardinality(same) - Cardinality(more \cap same)
        /\ IsFiniteSet(more \cup same)
    BY <1>2, FS_Union
  <2>2. Cardinality(more \cap same) = 0
    BY <1>3, <1>4, Zenon
  <2> QED
    BY <1>4, <2>1, <2>2
<1>6. n = Cardinality(more \cup same) + Cardinality(less)
  <2>1. Cardinality((more \cup same) \cup less) =
          Cardinality(more \cup same) + Cardinality(less) - Cardinality((more \cup same) \cap less)
    BY <1>2, <1>5, FS_Union
  <2>2. Cardinality((more \cup same) \cap less) = 0 /\ Cardinality((more \cup same) \cup less) = n
    BY <1>1, <1>3, <1>4, Zenon
  <2>3. Cardinality(more \cup same) \in Nat
    BY <1>5, FS_CardinalityType
  <2> QED
    BY <1>4, <2>1, <2>2, <2>3
<1> QED
  BY <1>5, <1>6 DEF more, same, less

(* The running total of the tokens.                                        *)
Aggregates == [saw : BOOLEAN, complete : BOOLEAN, total : Nat \cup {Nil}]

Unknown == [saw |-> TRUE, complete |-> FALSE, total |-> Nil]

LEMMA ObserveTyped ==
  ASSUME NEW agg \in Aggregates, NEW rec, rec.tokens \in Nat \cup {Nil}
  PROVE  Observe(agg, rec) \in Aggregates
<1>1. SoFar(agg) \in Nat
  BY DEF SoFar, Aggregates
<1>2. rec.tokens # Nil => SoFar(agg) + rec.tokens \in Nat
  BY <1>1
<1> QED
  BY <1>2 DEF Observe, Aggregates

LEMMA TotalTokensIs ==
  ASSUME NEW n \in Nat, NEW recs, Len(recs) = n, \A i \in 1..n : recs[i].tokens \in Nat \cup {Nil}
  PROVE  \E after : /\ after \in [0..n -> Aggregates] /\ after[0] = NoTokens
                    /\ \A i \in 1..n : after[i] = Observe(after[i - 1], recs[i])
                    /\ TotalTokens(recs) = Finish(after[n])
<1> DEFINE Loop(f) == f = [i \in 0..n |-> IF i = 0 THEN NoTokens ELSE Observe(f[i - 1], recs[i])]
           found == CHOOSE f : Loop(f)
           step == [p \in Aggregates \X (1..n) |-> Observe(p[1], recs[p[2]])]
<1>1. TotalTokens(recs) = Finish(found[n])
  BY DEF TotalTokens
<1>2. /\ step \in [Aggregates \X (1..n) -> Aggregates]
      /\ \A agg \in Aggregates, i \in 1..n : step[<<agg, i>>] = Observe(agg, recs[i])
  BY ObserveTyped
<1>3. NoTokens \in Aggregates
  BY DEF NoTokens, Aggregates
<1> HIDE DEF step
<1>4. PICK f : IsLoop(f, Aggregates, NoTokens, n, step)
  BY ONLY <1>2, <1>3, n \in Nat, LoopExists
<1>5. /\ f \in [0..n -> Aggregates] /\ f[0] = NoTokens
      /\ \A i \in 1..n : f[i] = Observe(f[i - 1], recs[i])
  <2>1. ASSUME NEW i \in 1..n PROVE i - 1 \in 0..n
    OBVIOUS
  <2> QED
    BY <1>2, <1>4, <2>1 DEF IsLoop
<1>6. Loop(f)
  <2>1. f = [i \in 0..n |-> f[i]]
    BY <1>5
  <2>2. \A i \in 0..n : f[i] = IF i = 0 THEN NoTokens ELSE Observe(f[i - 1], recs[i])
    BY <1>5
  <2> QED
    BY <2>1, <2>2
<1>7. Loop(found)
  BY <1>6
<1>8. found[0] = NoTokens /\ \A i \in 1..n : found[i] = Observe(found[i - 1], recs[i])
  <2> HIDE DEF found
  <2> QED
    BY <1>7
<1> HIDE DEF found
<1>9. \A i \in 0..n : i \in {j \in 0..n : found[j] = f[j]}
  <2> DEFINE T == {j \in 0..n : found[j] = f[j]}
  <2>1. 0 \in T
    BY <1>5, <1>8
  <2>2. \A i \in 1..n : i - 1 \in T => i \in T
    BY <1>5, <1>8
  <2> HIDE DEF T
  <2>3. \A i \in 0..n : i \in T
    BY <2>1, <2>2, UpTo
  <2> QED
    BY <2>3 DEF T
<1>10. TotalTokens(recs) = Finish(f[n])
  BY <1>1, <1>9
<1> QED
  BY <1>5, <1>10

(* A side that names no model has no tokens.                               *)
LEMMA NoModelNoTokens ==
  ASSUME NEW n \in Nat, NEW recs, Len(recs) = n,
         \A i \in 1..n : recs[i].tokens \in Nat \cup {Nil} /\ recs[i].who \notin Modelled
  PROVE  TotalTokens(recs) = Nil
<1>1. PICK after : /\ after \in [0..n -> Aggregates] /\ after[0] = NoTokens
                   /\ \A i \in 1..n : after[i] = Observe(after[i - 1], recs[i])
                   /\ TotalTokens(recs) = Finish(after[n])
  BY TotalTokensIs
<1> DEFINE T == {i \in 0..n : after[i] = NoTokens}
<1>2. 0 \in T
  BY <1>1
<1>3. ASSUME NEW i \in 1..n, i - 1 \in T PROVE i \in T
  <2>1. after[i] = Observe(NoTokens, recs[i]) /\ recs[i].who \notin Modelled
    BY <1>1, <1>3
  <2> QED
    BY <2>1 DEF Observe
<1> HIDE DEF T
<1>4. \A i \in 0..n : i \in T
  BY <1>2, <1>3, UpTo
<1>5. after[n] = NoTokens
  BY <1>4 DEF T
<1> QED
  BY <1>1, <1>5 DEF Finish, NoTokens

(* One result without usage makes the total unknown, for good.             *)
LEMMA OneUnknown ==
  ASSUME NEW n \in Nat, NEW recs, Len(recs) = n,
         \A i \in 1..n : recs[i].tokens \in Nat \cup {Nil} /\ recs[i].who \in Modelled,
         NEW j \in 1..n, recs[j].tokens = Nil
  PROVE  TotalTokens(recs) = Nil
<1>1. PICK after : /\ after \in [0..n -> Aggregates] /\ after[0] = NoTokens
                   /\ \A i \in 1..n : after[i] = Observe(after[i - 1], recs[i])
                   /\ TotalTokens(recs) = Finish(after[n])
  BY TotalTokensIs
<1> DEFINE T == {i \in 0..n : i >= j => after[i] = Unknown}
<1>2. 0 \in T
  OBVIOUS
<1>3. ASSUME NEW i \in 1..n, i - 1 \in T PROVE i \in T
  <2>1. after[i] = Observe(after[i - 1], recs[i]) /\ recs[i].who \in Modelled
    BY <1>1
  <2>2. CASE i = j
    BY <2>1, <2>2 DEF Observe, Unknown
  <2>3. CASE i > j
    <3>1. after[i - 1] = Unknown
      BY <1>3, <2>3
    <3>2. ~(after[i - 1].complete \/ ~after[i - 1].saw)
      BY <3>1 DEF Unknown
    <3> QED
      BY <2>1, <3>2 DEF Observe, Unknown
  <2> QED
    BY <2>2, <2>3
<1> HIDE DEF T
<1>4. \A i \in 0..n : i \in T
  BY <1>2, <1>3, UpTo
<1>5. after[n] = Unknown
  BY <1>4 DEF T
<1> QED
  BY <1>1, <1>5 DEF Finish, Unknown

(* The aggregate of results whose tokens sum up to x.                      *)
Reached(x) == IF x <= MaxTokens THEN [saw |-> TRUE, complete |-> TRUE, total |-> x] ELSE Unknown

LEMMA ObserveMore ==
  ASSUME NEW rec, rec.who \in Modelled, rec.tokens \in Nat
  PROVE  /\ Observe(NoTokens, rec) = Reached(rec.tokens)
         /\ \A x \in Nat : Observe(Reached(x), rec) = Reached(x + rec.tokens)
<1> DEFINE add == rec.tokens
<1>1. add \in Nat /\ add # Nil /\ rec.tokens = add /\ rec.who \in Modelled
  OBVIOUS
<1>2. Observe(NoTokens, rec) = Reached(add)
  <2> DEFINE before == NoTokens
  <2>1. SoFar(before) = 0 /\ ~before.saw
    BY DEF SoFar, NoTokens
  <2> HIDE DEF before, add
  <2>2. SoFar(before) + add = add
    BY <1>1, <2>1
  <2>3. Observe(before, rec) = Reached(add)
    BY <1>1, <2>1, <2>2, Zenon DEF Observe, Unknown, Reached
  <2> QED
    BY <2>3 DEF before
<1>3. ASSUME NEW x \in Nat PROVE Observe(Reached(x), rec) = Reached(x + add)
  <2> DEFINE before == Reached(x)
  <2>1. CASE x <= MaxTokens
    <3>1. before = [saw |-> TRUE, complete |-> TRUE, total |-> x]
      BY <2>1 DEF Reached
    <3> HIDE DEF before
    <3>2. before.complete /\ before.total = x /\ x # Nil
      BY <3>1
    <3>3. SoFar(before) = x
      BY <3>2 DEF SoFar
    <3> HIDE DEF add
    <3>4. Observe(before, rec) = Reached(x + add)
      BY <1>1, <3>2, <3>3, Zenon DEF Observe, Unknown, Reached
    <3> QED
      BY <3>4 DEF before
  <2>2. CASE ~(x <= MaxTokens)
    <3>1. before = Unknown
      BY <2>2 DEF Reached
    <3> HIDE DEF before
    <3>2. ~(before.complete \/ ~before.saw)
      BY <3>1 DEF Unknown
    <3>3. Observe(before, rec) = Unknown
      BY <1>1, <3>2, Zenon DEF Observe, Unknown
    <3>4. ~(x + add <= MaxTokens)
      BY <1>1, <2>2, MaxTokensIsNat
    <3> QED
      BY <3>3, <3>4 DEF before, Reached
  <2> QED
    BY <2>1, <2>2
<1> QED
  BY <1>2, <1>3

(* The results, which D names, one after the other; and their sums.        *)
Numbers(at, n, D) ==
  /\ at \in [1..n -> D]
  /\ \A i, j \in 1..n : at[i] = at[j] => i = j
  /\ \A x \in D : \E i \in 1..n : at[i] = x

SumsOf(sum, g, D) ==
  /\ sum[{}] = 0
  /\ \A s \in SUBSET D : sum[s] \in Nat
  /\ \A s \in SUBSET D : \A x \in s : sum[s] = g[x] + sum[s \ {x}]

KnownTokens(recs, n, at, g) ==
  \A i \in 1..n : recs[i].tokens \in Nat /\ recs[i].who \in Modelled /\ g[at[i]] = recs[i].tokens

(* Otherwise the total is the sum, unless it leaves u64.                   *)
LEMMA AllKnown ==
  ASSUME NEW n \in Nat \ {0}, NEW recs, Len(recs) = n,
         NEW D, NEW g, NEW sum, SumsOf(sum, g, D),
         NEW at, Numbers(at, n, D), KnownTokens(recs, n, at, g)
  PROVE  TotalTokens(recs) = IF sum[D] <= MaxTokens THEN sum[D] ELSE Nil
<1>1. PICK after : /\ after \in [0..n -> Aggregates] /\ after[0] = NoTokens
                   /\ \A i \in 1..n : after[i] = Observe(after[i - 1], recs[i])
                   /\ TotalTokens(recs) = Finish(after[n])
  <2>1. n \in Nat /\ Len(recs) = n /\ \A i \in 1..n : recs[i].tokens \in Nat \cup {Nil}
    BY DEF KnownTokens
  <2> QED
    BY ONLY <2>1, TotalTokensIs
<1>2. /\ sum[{}] = 0
      /\ \A s \in SUBSET D : sum[s] \in Nat
      /\ \A s \in SUBSET D : \A x \in s : sum[s] = g[x] + sum[s \ {x}]
  BY DEF SumsOf
<1> USE DEF Numbers, KnownTokens
<1> DEFINE First(i) == {at[j] : j \in 1..i}
           T == {i \in 0..n : i > 0 => after[i] = Reached(sum[First(i)])}
<1>3. ASSUME NEW i \in 1..n
      PROVE  /\ sum[First(i)] = recs[i].tokens + sum[First(i - 1)]
             /\ sum[First(i)] \in Nat /\ sum[First(i - 1)] \in Nat /\ recs[i].tokens \in Nat
  <2>1. First(i) \in SUBSET D /\ at[i] \in First(i) /\ First(i - 1) \in SUBSET D
    OBVIOUS
  <2>2. First(i) \ {at[i]} = First(i - 1)
    <3>1. \A j \in 1..i : j = i \/ j \in 1..(i - 1)
      OBVIOUS
    <3>2. \A j \in 1..(i - 1) : j \in 1..i /\ j # i /\ j \in 1..n
      OBVIOUS
    <3> QED
      BY <3>1, <3>2
  <2> HIDE DEF First
  <2>3. sum[First(i)] = g[at[i]] + sum[First(i) \ {at[i]}]
    BY <1>2, <2>1
  <2>4. sum[First(i)] = recs[i].tokens + sum[First(i - 1)]
    BY <2>2, <2>3
  <2> QED
    BY <1>2, <2>1, <2>4
<1>4. sum[First(0)] = 0
  <2>1. First(0) = {}
    OBVIOUS
  <2> HIDE DEF First
  <2> QED
    BY <1>2, <2>1
<1>5. First(n) = D
  OBVIOUS
<1> HIDE DEF First
<1>6. ASSUME NEW i \in 1..n, i - 1 \in T PROVE i \in T
  <2> DEFINE low == sum[First(i - 1)]
             add == recs[i].tokens
  <2>1. /\ after[i] = Observe(after[i - 1], recs[i])
        /\ sum[First(i)] = add + low /\ low \in Nat /\ add \in Nat
    BY <1>1, <1>3
  <2>2. /\ Observe(NoTokens, recs[i]) = Reached(add)
        /\ \A x \in Nat : Observe(Reached(x), recs[i]) = Reached(x + add)
    BY ObserveMore
  <2>3. CASE i = 1
    <3>1. after[i - 1] = NoTokens /\ low = 0
      BY <1>1, <1>4, <2>3
    <3> HIDE DEF low, add
    <3>2. sum[First(i)] = add
      BY <2>1, <3>1
    <3>3. after[i] = Reached(sum[First(i)])
      BY <2>1, <2>2, <3>1, <3>2, Zenon
    <3> QED
      BY <3>3
  <2>4. CASE i > 1
    <3>1. after[i - 1] = Reached(low)
      BY <1>6, <2>4
    <3> HIDE DEF low, add
    <3>2. sum[First(i)] = low + add
      BY <2>1
    <3>3. Observe(Reached(low), recs[i]) = Reached(low + add)
      BY <2>1, <2>2
    <3>4. after[i] = Reached(sum[First(i)])
      BY <2>1, <3>1, <3>2, <3>3, Zenon
    <3> QED
      BY <3>4
  <2> QED
    BY <2>3, <2>4
<1>7. 0 \in T
  OBVIOUS
<1>8. n \in T
  <2> HIDE DEF T
  <2>1. n \in Nat
    OBVIOUS
  <2>2. \A i \in 0..n : i \in T
    BY <1>6, <1>7, <2>1, UpTo
  <2> QED
    BY <2>2
<1>9. after[n] = Reached(sum[D])
  BY <1>5, <1>8
<1>10. sum[D] \in Nat
  BY <1>2
<1> HIDE DEF T
<1>11. Finish(after[n]) = IF sum[D] <= MaxTokens THEN sum[D] ELSE Nil
  BY <1>9 DEF Finish, Reached, Unknown
<1> QED
  BY <1>1, <1>10, <1>11

LEMMA SummaryIs ==
  ASSUME NEW pairs
  PROVE  /\ Summary(pairs).baselineWins =
              Cardinality({i \in DOMAIN pairs : pairs[i].baseline.score > pairs[i].candidate.score})
         /\ Summary(pairs).ties =
              Cardinality({i \in DOMAIN pairs : pairs[i].baseline.score = pairs[i].candidate.score})
         /\ Summary(pairs).candidateWins =
              Cardinality({i \in DOMAIN pairs : pairs[i].baseline.score < pairs[i].candidate.score})
         /\ \A side \in Sides :
              Summary(pairs).tokens[side] = TotalTokens([i \in DOMAIN pairs |-> pairs[i][side]])
  BY DEF Summary, Sides

LEMMA SideTokens ==
  ASSUME NEW pairs, NEW side \in Sides, NEW recs, recs = [i \in DOMAIN pairs |-> pairs[i][side]]
  PROVE  Summary(pairs).tokens[side] = TotalTokens(recs)
<1>1. Summary(pairs).tokens[side] = TotalTokens([i \in DOMAIN pairs |-> pairs[i][side]])
  BY DEF Summary, Sides
<1> QED
  BY ONLY <1>1, recs = [i \in DOMAIN pairs |-> pairs[i][side]], Zenon

(* The members of one side, in the order of the Tasks.                     *)
SlotsOf(side) == {k \in Slots : SideOf(k) = side}

LEMMA SlotsAreNumbered ==
  ASSUME NEW side \in Sides
  PROVE  /\ \A i \in 1..Members : SlotOf(i, side) \in SlotsOf(side)
         /\ \A i, j \in 1..Members : SlotOf(i, side) = SlotOf(j, side) => i = j
         /\ \A k \in SlotsOf(side) : \E i \in 1..Members : SlotOf(i, side) = k
         /\ IsFiniteSet(SlotsOf(side))
<1>1. ASSUME NEW i \in 1..Members PROVE SideOf(SlotOf(i, side)) = side
  <2>1. CASE side = "baseline"
    BY <2>1 DEF SlotOf, SideOf
  <2>2. CASE side = "candidate"
    BY <2>2 DEF SlotOf, SideOf
  <2> QED
    BY <2>1, <2>2 DEF Sides
<1>2. \A i, j \in 1..Members : SlotOf(i, side) = SlotOf(j, side) => i = j
  BY DEF SlotOf
<1>3. ASSUME NEW k \in SlotsOf(side) PROVE SlotOf(TaskOf(k), side) = k
  <2>1. k \in 1..(2 * Members) /\ side = SideOf(k)
    BY DEF SlotsOf, Slots
  <2>2. CASE k % 2 = 1
    <3>1. side = "baseline" /\ 2 * ((k + 1) \div 2) - 1 = k
      BY <2>1, <2>2 DEF SideOf
    <3> QED
      BY <3>1 DEF SlotOf, TaskOf
  <2>3. CASE k % 2 # 1
    <3>1. side = "candidate" /\ 2 * ((k + 1) \div 2) = k
      BY <2>1, <2>3 DEF SideOf
    <3> QED
      BY <3>1 DEF SlotOf, TaskOf
  <2> QED
    BY <2>2, <2>3
<1>4. IsFiniteSet(SlotsOf(side))
  <2>1. IsFiniteSet(Slots)
    BY FS_Interval DEF Slots
  <2> QED
    BY <2>1, FS_Subset DEF SlotsOf
<1>5. \A k \in SlotsOf(side) : TaskOf(k) \in 1..Members
  BY SlotFacts DEF SlotsOf
<1> QED
  BY <1>1, <1>2, <1>3, <1>4, <1>5, SlotFacts DEF SlotsOf

TokensOf(slots, S) == MapThenSumSet(LAMBDA k : results[slots[k]].tokens, S)

LEMMA SumOfTokens ==
  ASSUME NEW slots, NEW S, IsFiniteSet(S), NEW g \in [S -> Nat],
         \A k \in S : g[k] = results[slots[k]].tokens
  PROVE  \E sum : SumsOf(sum, g, S) /\ TokensOf(slots, S) = sum[S]
<1> DEFINE Sums(iter) ==
             iter = [s \in SUBSET S |-> IF s = {} THEN 0 ELSE results[slots[Pick(s)]].tokens + iter[s \ {Pick(s)}]]
           total == CHOOSE iter : Sums(iter)
<1>1. TokensOf(slots, S) = total[S]
  BY Zenon DEF TokensOf, MapThenSumSet, MapThenFoldSet, Pick
<1>2. \A s \in SUBSET S : s # {} => g[Pick(s)] = results[slots[Pick(s)]].tokens
  BY PickIsIn
<1>3. ASSUME NEW iter PROVE Sums(iter) <=> IsSum(iter, g, S)
  <2>1. [s \in SUBSET S |-> IF s = {} THEN 0 ELSE results[slots[Pick(s)]].tokens + iter[s \ {Pick(s)}]]
        = [s \in SUBSET S |-> IF s = {} THEN 0 ELSE g[Pick(s)] + iter[s \ {Pick(s)}]]
    BY <1>2
  <2> QED
    BY ONLY <2>1 DEF IsSum
<1> HIDE DEF Sums
<1>4. \E iter : Sums(iter)
  BY <1>3, SumExists
<1>5. IsSum(total, g, S)
  BY <1>3, <1>4
<1> HIDE DEF total
<1>6. /\ total[{}] = 0 /\ \A s \in SUBSET S : total[s] \in Nat
      /\ \A s \in SUBSET S : \A x \in s : total[s] = g[x] + total[s \ {x}]
  <2>1. IsFiniteSet(S) /\ g \in [S -> Nat]
    OBVIOUS
  <2> QED
    BY ONLY <1>5, <2>1, SumTakesOut
<1> QED
  BY <1>1, <1>6 DEF SumsOf

(* The tokens of one side of a fair comparison.                            *)
LEMMA TokensAddUp ==
  ASSUME SuiteInv, NEW slots \in [Slots -> Kept(RunIds)], Own(slots), Fair(slots),
         NEW side \in Sides, NEW recs, Len(recs) = Members,
         \A i \in 1..Members : recs[i] = results[slots[SlotOf(i, side)]]
  PROVE  LET mine == {k \in Slots : SideOf(k) = side /\ results[slots[k]].who \in Modelled}
             known == mine # {} /\ \A k \in mine : results[slots[k]].tokens # Nil
             sum == MapThenSumSet(LAMBDA k : results[slots[k]].tokens, mine)
         IN  TotalTokens(recs) = IF known /\ sum <= MaxTokens THEN sum ELSE Nil
<1> DEFINE mine == {k \in Slots : SideOf(k) = side /\ results[slots[k]].who \in Modelled}
           all == SlotsOf(side)
<1>1. \A k \in Slots : results[slots[k]].tokens \in Nat \cup {Nil}
  <2>1. \A k \in Slots : results[slots[k]] \in Results
    BY DEF SuiteInv, Own, Fair, Kept
  <2>2. \A r \in Results : r.tokens \in Nat \cup {Nil}
    BY DEF Results
  <2> QED
    BY <2>1, <2>2
<1>2. \A k \in all : \E i \in 1..Members : SlotOf(i, side) = k
  BY SlotsAreNumbered
<1>3. \A i \in 1..Members : SlotOf(i, side) \in all /\ SlotOf(i, side) \in Slots
  BY SlotsAreNumbered, SlotFacts
<1>4. \A k \in all : results[slots[k]].who = Who(slots, 1, side)
  BY <1>2 DEF Fair, Who
<1>5. 1 \in 1..Members /\ Members \in Nat \ {0}
  BY SlotFacts
<1>6. \A i \in 1..Members : recs[i].tokens \in Nat \cup {Nil} /\ recs[i].who = Who(slots, 1, side)
  BY <1>1, <1>3, <1>4
<1>7. CASE Who(slots, 1, side) \notin Modelled
  <2>1. mine = {}
    BY <1>4, <1>7 DEF SlotsOf
  <2>2. TotalTokens(recs) = Nil
    BY <1>5, <1>6, <1>7, NoModelNoTokens
  <2> QED
    BY <2>1, <2>2
<1>8. CASE Who(slots, 1, side) \in Modelled
  <2>1. mine = all
    BY <1>4, <1>8 DEF SlotsOf
  <2>2. mine # {}
    BY <1>3, <1>5, <2>1
  <2> HIDE DEF mine, all
  <2>3. CASE \E k \in all : results[slots[k]].tokens = Nil
    <3>1. PICK j \in 1..Members : recs[j].tokens = Nil
      BY <1>2, <2>3
    <3>2. TotalTokens(recs) = Nil
      BY <1>5, <1>6, <1>8, <3>1, OneUnknown
    <3>3. ~(\A k \in mine : results[slots[k]].tokens # Nil)
      BY <2>1, <2>3
    <3> QED
      BY <3>2, <3>3 DEF mine
  <2>4. CASE \A k \in all : results[slots[k]].tokens # Nil
    <3> DEFINE g == [k \in all |-> results[slots[k]].tokens]
               at == [i \in 1..Members |-> SlotOf(i, side)]
    <3>1. \A k \in all : results[slots[k]].tokens \in Nat
      BY <1>1, <2>4 DEF all, SlotsOf
    <3>2. g \in [all -> Nat] /\ \A k \in all : g[k] = results[slots[k]].tokens
      BY <3>1
    <3>3. Numbers(at, Members, all)
      BY <1>2, <1>3, SlotsAreNumbered DEF Numbers
    <3>4. KnownTokens(recs, Members, at, g)
      BY <1>3, <1>6, <1>8, <3>1 DEF KnownTokens
    <3> HIDE DEF g, at
    <3>5. IsFiniteSet(all)
      BY SlotsAreNumbered DEF all
    <3>6. PICK sum : SumsOf(sum, g, all) /\ TokensOf(slots, all) = sum[all]
      BY ONLY <3>2, <3>5, SumOfTokens
    <3>7. Members \in Nat \ {0} /\ Len(recs) = Members
      BY <1>5
    <3>8. TotalTokens(recs) = IF sum[all] <= MaxTokens THEN sum[all] ELSE Nil
      BY ONLY <3>3, <3>4, <3>6, <3>7, AllKnown
    <3>9. \A k \in mine : results[slots[k]].tokens # Nil
      BY <2>1, <2>4
    <3>10. TokensOf(slots, mine) = sum[all]
      BY <2>1, <3>6
    <3> DEFINE tokens == MapThenSumSet(LAMBDA k : results[slots[k]].tokens, mine)
    <3>11. tokens = sum[all]
      BY <3>10 DEF TokensOf
    <3> HIDE DEF tokens
    <3>12. TotalTokens(recs) = IF (mine # {} /\ \A k \in mine : results[slots[k]].tokens # Nil) /\ tokens <= MaxTokens
                               THEN tokens ELSE Nil
      BY <2>2, <3>8, <3>9, <3>11
    <3> QED
      BY <3>12, Zenon DEF tokens, mine
  <2> QED
    BY <2>3, <2>4
<1> QED
  BY <1>7, <1>8

(* The wins and ties of a comparison are its Tasks.                        *)
LEMMA WinsAddUp ==
  ASSUME SuiteInv, NEW slots \in [Slots -> Kept(RunIds)], Own(slots), Fair(slots),
         NEW report, report = Summary(Pairs(slots))
  PROVE  report.baselineWins + report.ties + report.candidateWins = Members
<1> DEFINE pairs == Pairs(slots)
           mine == [i \in 1..Members |-> pairs[i].baseline.score]
           theirs == [i \in 1..Members |-> pairs[i].candidate.score]
<1>1. /\ DOMAIN pairs = 1..Members
      /\ \A i \in 1..Members : /\ pairs[i].baseline = results[slots[SlotOf(i, "baseline")]]
                                /\ pairs[i].candidate = results[slots[SlotOf(i, "candidate")]]
  BY DEF Pairs, Sides
<1>2. \A k \in Slots : results[slots[k]].score \in Int
  <2>1. \A k \in Slots : results[slots[k]] \in Results
    BY DEF SuiteInv, Own, Fair, Kept
  <2>2. \A r \in Results : r.score \in Int
    BY DEF Results
  <2> QED
    BY <2>1, <2>2
<1>3. \A i \in 1..Members : mine[i] \in Int /\ theirs[i] \in Int
  BY <1>1, <1>2, SlotFacts DEF Sides
<1>4. \A i \in 1..Members : mine[i] = pairs[i].baseline.score /\ theirs[i] = pairs[i].candidate.score
  OBVIOUS
<1>5. /\ report.baselineWins = Cardinality({i \in 1..Members : pairs[i].baseline.score > pairs[i].candidate.score})
      /\ report.ties = Cardinality({i \in 1..Members : pairs[i].baseline.score = pairs[i].candidate.score})
      /\ report.candidateWins = Cardinality({i \in 1..Members : pairs[i].baseline.score < pairs[i].candidate.score})
  <2>1. report = Summary(pairs)
    OBVIOUS
  <2> HIDE DEF pairs
  <2> QED
    BY <1>1, <2>1, SummaryIs
<1> HIDE DEF pairs, mine, theirs
<1>6. /\ {i \in 1..Members : pairs[i].baseline.score > pairs[i].candidate.score} = {i \in 1..Members : mine[i] > theirs[i]}
      /\ {i \in 1..Members : pairs[i].baseline.score = pairs[i].candidate.score} = {i \in 1..Members : mine[i] = theirs[i]}
      /\ {i \in 1..Members : pairs[i].baseline.score < pairs[i].candidate.score} = {i \in 1..Members : mine[i] < theirs[i]}
  BY <1>4
<1>7. Cardinality({i \in 1..Members : mine[i] > theirs[i]}) + Cardinality({i \in 1..Members : mine[i] = theirs[i]})
        + Cardinality({i \in 1..Members : mine[i] < theirs[i]}) = Members
  <2>1. Members \in Nat
    OBVIOUS
  <2> QED
    BY <1>3, <2>1, CountsAddUp
<1> QED
  BY <1>5, <1>6, <1>7, Zenon

(* The printed wins and ties are the Tasks, and the printed tokens of a    *)
(* side are the sum of those of its results, known only if all are and if  *)
(* they fit 64 bits: TotalTokens reads a recursion over a sequence, this   *)
(* states a sum over a set.                                                *)
THEOREM ReportsAddUp == Spec => []ReportAddsUp
<1>1. SuiteInv /\ SumsUp => ReportAddsUp
  <2> SUFFICES ASSUME SuiteInv, SumsUp, NEW s \in Sessions, session[s].report # Nil
               PROVE  LET report == session[s].report
                          slots == session[s].slots
                      IN  /\ report.baselineWins + report.ties + report.candidateWins = Members
                          /\ \A side \in Sides :
                               LET mine == {k \in Slots : SideOf(k) = side
                                                          /\ results[slots[k]].who \in Modelled}
                                   known == mine # {} /\ \A k \in mine : results[slots[k]].tokens # Nil
                                   sum == MapThenSumSet(LAMBDA k : results[slots[k]].tokens, mine)
                               IN  report.tokens[side] = IF known /\ sum <= MaxTokens THEN sum ELSE Nil
    BY Zenon DEF ReportAddsUp
  <2> DEFINE slots == session[s].slots
             pairs == Pairs(slots)
  <2>1. slots \in [Slots -> Kept(RunIds)] /\ Own(slots) /\ Fair(slots)
    BY DEF SuiteInv, Holds, SessionStates
  <2>2. session[s].report = Summary(pairs)
    BY DEF SumsUp
  <2>3. session[s].report.baselineWins + session[s].report.ties + session[s].report.candidateWins = Members
    BY <2>1, <2>2, WinsAddUp
  <2>4. ASSUME NEW side \in Sides
        PROVE  LET mine == {k \in Slots : SideOf(k) = side /\ results[slots[k]].who \in Modelled}
                   known == mine # {} /\ \A k \in mine : results[slots[k]].tokens # Nil
                   sum == MapThenSumSet(LAMBDA k : results[slots[k]].tokens, mine)
               IN  session[s].report.tokens[side] = IF known /\ sum <= MaxTokens THEN sum ELSE Nil
    <3> DEFINE recs == [i \in DOMAIN pairs |-> pairs[i][side]]
    <3>1. DOMAIN pairs = 1..Members /\ \A i \in 1..Members : pairs[i][side] = results[slots[SlotOf(i, side)]]
      BY DEF Pairs
    <3>2. session[s].report.tokens[side] = TotalTokens(recs)
      <4>1. recs = [i \in DOMAIN pairs |-> pairs[i][side]]
        OBVIOUS
      <4> HIDE DEF pairs, recs
      <4>2. Summary(pairs).tokens[side] = TotalTokens(recs)
        BY ONLY <4>1, side \in Sides, SideTokens
      <4> QED
        BY ONLY <2>2, <4>2
    <3> HIDE DEF pairs
    <3>3. Len(recs) = Members /\ \A i \in 1..Members : recs[i] = results[slots[SlotOf(i, side)]]
      BY <3>1
    <3> HIDE DEF recs, slots
    <3>4. LET mine == {k \in Slots : SideOf(k) = side /\ results[slots[k]].who \in Modelled}
              known == mine # {} /\ \A k \in mine : results[slots[k]].tokens # Nil
              sum == MapThenSumSet(LAMBDA k : results[slots[k]].tokens, mine)
          IN  TotalTokens(recs) = IF known /\ sum <= MaxTokens THEN sum ELSE Nil
      BY ONLY SuiteInv, <2>1, <3>3, side \in Sides, TokensAddUp, Zenon
    <3> QED
      BY <3>2, <3>4, Zenon
  <2> QED
    BY <2>3, <2>4, Zenon
<1>2. Init => SumsUp
  BY DEF Init, SumsUp, NewSession
<1>3. SuiteInv /\ SumsUp /\ [Next]_vars => SumsUp'
  BY SumsUpStays
<1> QED
  BY <1>1, <1>2, <1>3, SuiteInvHolds, PTL DEF Spec

-----------------------------------------------------------------------------
(* Sessions that follow one another keep the promise of SuiteLedger: what  *)
(* the one session alive knows is what state.json says.                    *)
OneStep(s) == Plan(s) \/ PlanFails(s) \/ Resume(s) \/ Proceed(s) \/ Kill(s)

LEMMA OnlyOne ==
  ASSUME SuiteInv, OneAtATime, NEW s \in Sessions, OneStep(s)
  PROVE  /\ \A t \in Sessions : t # s => ~Alive(t)
         /\ session[s].at \in {"start", "members", "running", "record"}
         /\ \E new : session' = [session EXCEPT ![s] = new]
         /\ \A t \in Sessions : t # s => session'[t] = session[t]
         /\ losses' = losses
<1>1. ASSUME MayStart(s) PROVE \A t \in Sessions : ~Alive(t)
  <2> DEFINE alive == {t \in Sessions : Alive(t)}
  <2>1. IsFiniteSet(alive)
    BY FS_Subset
  <2>2. Cardinality(alive) \in Nat /\ (Cardinality(alive) = 0 <=> alive = {})
    BY <2>1, FS_CardinalityType, FS_EmptySet
  <2>3. Cardinality(alive) < 1
    BY <1>1 DEF MayStart, OneAtATime
  <2> QED
    BY <2>2, <2>3
<1>2. ASSUME Alive(s) PROVE \A t \in Sessions : t # s => ~Alive(t)
  BY <1>2 DEF OneAtATime
<1>3. MayStart(s) \/ Alive(s)
  BY DEF OneStep, Plan, PlanFails, Resume, Proceed, Kill, OwnStep, BeginMember, MemberCompletes,
         MemberFails, Record, PrintReport, Alive
<1>4. losses' = losses /\ \E new : session' = [session EXCEPT ![s] = new]
  BY Zenon DEF OneStep, Plan, PlanFails, Resume, Proceed, Kill, OwnStep, BeginMember, MemberCompletes,
         MemberFails, Record, PrintReport, Becomes
<1>5. \A t \in Sessions : t # s => session'[t] = session[t]
  BY <1>4 DEF SuiteInv
<1>6. session[s].at \in {"start", "members", "running", "record"}
  BY <1>3 DEF MayStart, Alive
<1> QED
  BY <1>1, <1>2, <1>3, <1>4, <1>5, <1>6

(* The session that steps is the only one to look at.                      *)
LEMMA StepAlone ==
  ASSUME SuiteInv, OneAtATime, NEW s \in Sessions, OneStep(s),
         planned' = Nil => state' = Nil,
         session'[s].at # "start",
         Alive(s)' => state' # Nil /\ session'[s].slots = state'.slots,
         session'[s].at \in {"running", "record"} =>
           session'[s].slots[session'[s].slot] = Nil
  PROVE  OneAtATime'
  BY OnlyOne DEF OneAtATime, Alive

Printed == {session[s].slots : s \in {t \in Sessions : session[t].report # Nil}}

LedgerOf == IF state = Nil THEN NoneRecorded ELSE state.slots

(* A step that prints nothing and records nothing.                         *)
LEMMA PrintsNothing ==
  ASSUME SuiteInv, OneAtATime, NEW s \in Sessions, OneStep(s), session'[s].report = Nil
  PROVE  Printed' = Printed
<1>1. session[s].report = Nil
  BY OnlyOne DEF SuiteInv, Holds
<1>2. \A t \in Sessions : t # s => session'[t] = session[t]
  BY OnlyOne
<1> QED
  BY <1>1, <1>2 DEF Printed

LedgerStep == [Ledger!LedgerNext]_(Ledger!ledgerVars)

LEMMA StillLedger ==
  ASSUME LedgerOf' = LedgerOf, Printed' = Printed PROVE LedgerStep
  BY DEF LedgerStep, Ledger!ledgerVars, LedgerOf, Printed

(* Steps that end a session or leave the record alone.                     *)
LEMMA GivesUpAlone ==
  ASSUME SuiteInv, OneAtATime, NEW s \in Sessions, OneStep(s), GivesUp(s)
  PROVE  OneAtATime' /\ LedgerStep
<1> DEFINE me == session[s]
<1>1. PICK at \in {"failed", "killed"} : session' = [session EXCEPT ![s] = [me EXCEPT !.at = at]]
  BY DEF GivesUp, Becomes
<1>2. me \in SessionStates(me.report) /\ me.report = Nil
  BY OnlyOne DEF SuiteInv, Holds
<1>3. session'[s].at = at /\ session'[s].report = Nil
  BY <1>1, <1>2 DEF SuiteInv, SessionStates
<1>4. UNCHANGED <<planned, state>>
  BY DEF GivesUp, suiteVars
<1>5. OneAtATime'
  BY <1>3, <1>4, StepAlone DEF OneAtATime, Alive
<1> QED
  BY <1>3, <1>4, <1>5, PrintsNothing, StillLedger DEF LedgerOf

LEMMA PlanAlone ==
  ASSUME SuiteInv, OneAtATime, NEW s \in Sessions, Plan(s) PROVE OneAtATime' /\ LedgerStep
<1> DEFINE me == session[s]
<1>1. /\ me.at = "start" /\ planned = Nil
      /\ taskLock' \in [1..Members -> TaskLocks] /\ candLock' \in [Sides -> CandLocks]
      /\ state' = [spec |-> source, slots |-> NoneRecorded]
      /\ planned' = [spec |-> source, task |-> taskLock', cand |-> candLock']
      /\ session' = [session EXCEPT ![s] = [me EXCEPT !.at = "members", !.spec = source]]
  BY DEF Plan, MayStart, Becomes
<1>2. me \in SessionStates(me.report) /\ me.report = Nil /\ me.slots = NoneRecorded
  BY <1>1 DEF SuiteInv, Holds, OneAtATime
<1>3. session'[s].at = "members" /\ session'[s].report = Nil /\ session'[s].slots = NoneRecorded
  BY <1>1, <1>2 DEF SuiteInv, SessionStates
<1>4. state' \in States /\ state'.slots = NoneRecorded
  BY <1>1 DEF SuiteInv, States, NoneRecorded
<1>5. planned' \in Plans
  BY <1>1 DEF SuiteInv, Plans
<1>6. OneStep(s)
  BY DEF OneStep
<1>7. state = Nil /\ state' # Nil /\ planned' # Nil
  BY <1>1, <1>4, <1>5 DEF OneAtATime
<1>8. OneAtATime'
  BY <1>3, <1>4, <1>6, <1>7, StepAlone
<1>9. LedgerOf' = LedgerOf
  BY <1>4, <1>7 DEF LedgerOf
<1> QED
  BY <1>3, <1>6, <1>8, <1>9, PrintsNothing, StillLedger

LEMMA ResumeAlone ==
  ASSUME SuiteInv, OneAtATime, NEW s \in Sessions, Resume(s) PROVE OneAtATime' /\ LedgerStep
<1> DEFINE me == session[s]
<1>1. me.at = "start" /\ planned # Nil /\ UNCHANGED <<planned, state>> /\ OneStep(s)
  BY DEF Resume, MayStart, OneStep, suiteVars
<1>2. CASE state # Nil /\ state.spec = source
  <2>1. session' = [session EXCEPT ![s] = [me EXCEPT !.at = "members", !.spec = source,
                                                      !.slots = state.slots]]
    BY <1>2 DEF Resume, Becomes
  <2>2. me \in SessionStates(me.report) /\ me.report = Nil
    BY <1>1 DEF SuiteInv, Holds
  <2>3. /\ session'[s].at = "members" /\ session'[s].slots = state.slots
        /\ session'[s].report = Nil
    BY <2>1, <2>2 DEF SuiteInv, SessionStates
  <2>4. OneAtATime'
    BY <1>1, <1>2, <2>3, StepAlone
  <2> QED
    BY <1>1, <2>3, <2>4, PrintsNothing, StillLedger DEF LedgerOf
<1>3. CASE ~(state # Nil /\ state.spec = source)
  <2>1. GivesUp(s)
    BY <1>1, <1>3 DEF Resume, GivesUp, Becomes
  <2> QED
    BY <1>1, <2>1, GivesUpAlone
<1> QED
  BY <1>2, <1>3

LEMMA MemberAlone ==
  ASSUME SuiteInv, OneAtATime, NEW s \in Sessions, BeginMember(s) \/ MemberCompletes(s)
  PROVE  OneAtATime' /\ LedgerStep
<1> DEFINE me == session[s]
<1>1. Alive(s) /\ UNCHANGED <<planned, state>> /\ OneStep(s)
  BY DEF BeginMember, MemberCompletes, Alive, OneStep, Proceed, OwnStep, suiteVars
<1>2. /\ me \in SessionStates(me.report) /\ me.report = Nil
      /\ state # Nil /\ planned # Nil /\ me.slots = state.slots
  BY <1>1 DEF SuiteInv, Holds, OneAtATime, Alive
<1>5. session = [t \in Sessions |-> session[t]]
  BY DEF SuiteInv
<1>3. /\ session'[s].at \in {"running", "record"} /\ session'[s].report = Nil
      /\ session'[s].slots = me.slots /\ me.slots[session'[s].slot] = Nil
  <2>1. CASE BeginMember(s)
    <3>1. PICK k \in Slots : /\ me.slots[k] = Nil
                             /\ \E locks : session' = [session EXCEPT ![s] =
                                  [me EXCEPT !.at = "running", !.slot = k, !.locks = locks]]
      BY <2>1 DEF BeginMember, Unrecorded, Becomes
    <3>2. PICK locks : session' = [session EXCEPT ![s] =
                         [me EXCEPT !.at = "running", !.slot = k, !.locks = locks]]
      BY <3>1
    <3> DEFINE new == [me EXCEPT !.at = "running", !.slot = k, !.locks = locks]
    <3>3. new.at = "running" /\ new.report = me.report /\ new.slots = me.slots /\ new.slot = k
      BY ONLY <1>2 DEF SessionStates
    <3> HIDE DEF new
    <3>4. session'[s] = new
      BY <1>5, <3>2 DEF new
    <3> QED
      BY ONLY <1>2, <3>1, <3>3, <3>4
  <2>2. CASE MemberCompletes(s)
    <3>1. /\ me.at = "running"
          /\ \E r : session' = [session EXCEPT ![s] = [me EXCEPT !.at = "record", !.run = r]]
      BY <2>2 DEF MemberCompletes, Becomes
    <3>2. me.slots[me.slot] = Nil
      BY <3>1 DEF OneAtATime
    <3>3. PICK r : session' = [session EXCEPT ![s] = [me EXCEPT !.at = "record", !.run = r]]
      BY <3>1
    <3> DEFINE new == [me EXCEPT !.at = "record", !.run = r]
    <3>4. new.at = "record" /\ new.report = me.report /\ new.slots = me.slots /\ new.slot = me.slot
      BY ONLY <1>2 DEF SessionStates
    <3> HIDE DEF new
    <3>5. session'[s] = new
      BY <1>5, <3>3 DEF new
    <3> QED
      BY ONLY <1>2, <3>2, <3>4, <3>5
  <2> QED
    BY <2>1, <2>2
<1>4. OneAtATime'
  BY <1>1, <1>2, <1>3, StepAlone
<1> QED
  BY <1>1, <1>3, <1>4, PrintsNothing, StillLedger DEF LedgerOf

(* The run is new to the ledger: its result is of this member, and one the *)
(* ledger names for another member is of that other.                       *)
LEMMA RecordAlone ==
  ASSUME SuiteInv, OneAtATime, NEW s \in Sessions, Record(s) PROVE OneAtATime' /\ LedgerStep
<1> DEFINE me == session[s]
           slots == [me.slots EXCEPT ![me.slot] = me.run]
           file == [spec |-> me.spec, slots |-> slots]
<1>1. PICK ok \in BOOLEAN :
        /\ me.at = "record" /\ WriteState(file, ok) /\ planned' = planned
        /\ session' = [session EXCEPT ![s] =
                         [me EXCEPT !.at = IF ok THEN "members" ELSE "failed",
                                    !.slots = slots, !.run = Nil, !.locks = Nil]]
  BY DEF Record, Becomes
<1>2. /\ me \in SessionStates(me.report) /\ me.report = Nil /\ Alive(s) /\ OneStep(s)
      /\ me.run \in RunIds /\ results[me.run].slot = me.slot /\ me.slot \in Slots
      /\ planned # Nil /\ me.spec \in Specs
  BY <1>1 DEF SuiteInv, Holds, Alive, OneStep, Proceed, OwnStep, SessionStates, Plans, Kept
<1>3. /\ state # Nil /\ me.slots = state.slots /\ me.slots[me.slot] = Nil
      /\ me.slots \in [Slots -> Kept(RunIds)]
  BY <1>1, <1>2 DEF OneAtATime, SessionStates
<1>4. file \in States /\ file.slots = slots
  BY <1>2, <1>3 DEF States, Kept, SessionStates
<1>5. /\ session'[s].at = IF ok THEN "members" ELSE "failed"
      /\ session'[s].slots = slots /\ session'[s].report = Nil
  BY <1>1, <1>2 DEF SuiteInv, SessionStates
<1>6. file # Nil
  BY <1>4
<1> HIDE DEF file
<1>7. (ok => state' = file) /\ state' \in {state, file}
  BY <1>1 DEF WriteState
<1>8. OneAtATime'
  BY <1>1, <1>2, <1>3, <1>4, <1>5, <1>6, <1>7, StepAlone DEF Alive
<1>9. Printed' = Printed
  BY <1>2, <1>5, PrintsNothing
<1>10. CASE state' = state
  BY <1>8, <1>9, <1>10, StillLedger DEF LedgerOf
<1>11. CASE state' = file
  <2>1. LedgerOf = me.slots /\ LedgerOf' = slots
    BY <1>3, <1>4, <1>6, <1>11 DEF LedgerOf
  <2>2. \A j \in Slots : LedgerOf[j] # me.run
    BY <1>2, <1>3, <2>1 DEF SuiteInv, Holds, Own
  <2>3. /\ LedgerOf[me.slot] = Nil /\ (\A j \in Slots : LedgerOf[j] # me.run)
        /\ LedgerOf' = [LedgerOf EXCEPT ![me.slot] = me.run] /\ Printed' = Printed
    BY <1>3, <1>9, <2>1, <2>2
  <2>4. Ledger!RecordMember(me.slot)
    BY <1>2, <2>3 DEF Ledger!RecordMember, LedgerOf, Printed
  <2> QED
    BY <1>2, <1>8, <2>4 DEF LedgerStep, Ledger!LedgerNext
<1> QED
  BY <1>7, <1>10, <1>11

LEMMA PrintAlone ==
  ASSUME SuiteInv, OneAtATime, NEW s \in Sessions, PrintReport(s)
  PROVE  OneAtATime' /\ LedgerStep
<1> DEFINE me == session[s]
           pairs == Pairs(me.slots)
<1>1. /\ me.at = "members" /\ (\A k \in Slots : me.slots[k] # Nil) /\ OneStep(s)
      /\ UNCHANGED <<planned, state>>
  BY DEF PrintReport, Unrecorded, OneStep, Proceed, OwnStep, suiteVars
<1>2. CASE Comparable(pairs)
  <2>1. /\ me \in SessionStates(me.report) /\ me.report = Nil /\ Alive(s)
        /\ state # Nil /\ me.slots = state.slots
    BY <1>1 DEF SuiteInv, Holds, Alive, OneAtATime
  <2>2. session' = [session EXCEPT ![s] = [me EXCEPT !.at = "printed", !.report = Summary(pairs)]]
    BY <1>2 DEF PrintReport, Becomes
  <2> HIDE DEF pairs
  <2>3. session'[s].at = "printed" /\ session'[s].slots = me.slots
    BY <2>1, <2>2 DEF SuiteInv, SessionStates
  <2>4. OneAtATime'
    BY <1>1, <2>1, <2>3, StepAlone DEF Alive, OneAtATime
  <2>5. CASE session'[s].report = Nil
    BY <1>1, <2>4, <2>5, PrintsNothing, StillLedger DEF LedgerOf
  <2>6. CASE session'[s].report # Nil
    <3>1. \A t \in Sessions : t # s => session'[t] = session[t]
      BY <1>1, OnlyOne
    <3>2. Printed' = Printed \cup {LedgerOf}
      BY <2>1, <2>3, <2>6, <3>1 DEF Printed, LedgerOf
    <3>3. LedgerOf' = LedgerOf /\ \A k \in Slots : LedgerOf[k] # Nil
      BY <1>1, <2>1 DEF LedgerOf
    <3>4. Ledger!PrintComparison
      BY <3>2, <3>3 DEF Ledger!PrintComparison, LedgerOf, Printed
    <3> QED
      BY <2>4, <3>4 DEF LedgerStep, Ledger!LedgerNext
  <2> QED
    BY <2>5, <2>6
<1>3. CASE ~Comparable(pairs)
  <2>1. GivesUp(s)
    BY <1>1, <1>3 DEF PrintReport, GivesUp, Becomes
  <2> QED
    BY <1>1, <2>1, GivesUpAlone
<1> QED
  BY <1>2, <1>3

LEMMA NextAlone ==
  ASSUME SuiteInv, OneAtATime, [Next]_vars PROVE OneAtATime' /\ LedgerStep
<1>1. ASSUME NEW s \in Sessions, PlanFails(s) \/ MemberFails(s) \/ Kill(s)
      PROVE  OneAtATime' /\ LedgerStep
  <2>1. GivesUp(s) /\ OneStep(s)
    BY <1>1 DEF PlanFails, MemberFails, Kill, MayStart, Alive, GivesUp, OneStep, Proceed
  <2> QED
    BY <2>1, GivesUpAlone
<1>2. CASE EditSource \/ ReplaceLock \/ Finished \/ UNCHANGED vars
  <2>1. UNCHANGED <<planned, state, session, losses>>
    BY <1>2 DEF EditSource, ReplaceLock, Finished, vars, suiteVars
  <2>2. OneAtATime'
    BY <2>1 DEF OneAtATime, Alive
  <2> QED
    BY <2>1, <2>2, StillLedger DEF LedgerOf, Printed
<1>3. ~PowerLoss
  BY DEF PowerLoss, OneAtATime
<1> QED
  BY <1>1, <1>2, <1>3, PlanAlone, ResumeAlone, MemberAlone, RecordAlone, PrintAlone
     DEF Next, Proceed, OwnStep

(* Sessions of one suite that follow one another on a machine that keeps   *)
(* its power implement SuiteLedger, wherever each of them fails or is      *)
(* killed: a recorded member is never run again, no run counts for two,    *)
(* and only a full ledger is compared.                                     *)
THEOREM SuiteKeepsLedger == MaxAlive = 1 /\ MaxLosses = 0 => (Spec => ImplementsLedger)
<1> SUFFICES ASSUME MaxAlive = 1, MaxLosses = 0 PROVE Spec => ImplementsLedger
  OBVIOUS
<1>1. Init => OneAtATime /\ Ledger!LedgerInit
  BY DEF Init, OneAtATime, NewSession, Alive, Ledger!LedgerInit, NoneRecorded
<1>2. SuiteInv /\ OneAtATime /\ [Next]_vars => OneAtATime' /\ [Ledger!LedgerNext]_(Ledger!ledgerVars)
  BY NextAlone DEF LedgerStep
<1> QED
  BY <1>1, <1>2, SuiteInvHolds, PTL DEF Spec, ImplementsLedger, Ledger!LedgerSpec

(* So all comparisons printed of one suite are of the same runs, no two    *)
(* members of which share one.                                             *)
Promise == INSTANCE SuiteLedgerProofs WITH
  ledger  <- IF state = Nil THEN NoneRecorded ELSE state.slots,
  printed <- {session[s].slots : s \in {t \in Sessions : session[t].report # Nil}}

THEOREM OneComparisonPerSuite ==
  MaxAlive = 1 /\ MaxLosses = 0 => (Spec => []Ledger!OneComparison)
<1> SUFFICES ASSUME MaxAlive = 1, MaxLosses = 0 PROVE Spec => []Ledger!OneComparison
  OBVIOUS
<1>1. Spec => ImplementsLedger
  BY SuiteKeepsLedger
<1>2. Ledger!LedgerSpec => []Ledger!OneComparison
  BY Promise!ComparisonsAgree, PTL
     DEF Ledger!LedgerSpec, Ledger!LedgerInit, Ledger!LedgerNext, Ledger!ledgerVars,
         Ledger!RecordMember, Ledger!PrintComparison, Ledger!OneComparison,
         Promise!LedgerSpec, Promise!LedgerInit, Promise!LedgerNext, Promise!ledgerVars,
         Promise!RecordMember, Promise!PrintComparison, Promise!OneComparison
<1> QED
  BY <1>1, <1>2, PTL DEF ImplementsLedger
=============================================================================
