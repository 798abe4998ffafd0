--------------------------- MODULE CodexRunProofs ---------------------------
(***************************************************************************)
(* Proofs about CodexRun for every number of runs, volumes, processes and  *)
(* boots and every timing with LateBy < Window: what a sweep may and must  *)
(* remove, and what is left of a run whose guard has finished.             *)
(***************************************************************************)
EXTENDS CodexRun, TLAPS

Ats == {"start", "discover", "sweep", "create", "copy", "join", "sidecar", "attached", "stop",
        "inventory", "export", "settle", "clean", "remove", "observe", "home", "homeAgain",
        "done", "gone"}

RunStates ==
  [at : Ats, next : Nat, seen : [Runs -> SUBSET Resources], left : SUBSET Runs,
   dead : SUBSET Runs, home : {"none", "kept", "removed"}, pending : BOOLEAN,
   confirmed : BOOLEAN, result : {"none", "failed", "exited", "timedOut"},
   ended : {"none", "bad", "exited", "timedOut"}, stopped : BOOLEAN, attempt : {1, 2},
   before : BOOLEAN, zero : Nat \cup {Nil}, spent : Nat]

Labels == [boot : Nat, pid : Pids, start : Nat \ {0}]

CodexTypes ==
  /\ boot \in Nat /\ started \in Nat
  /\ proc \in [Pids -> Nat]
  /\ labels \in [Runs -> Labels \cup {Nil}]
  /\ docker \in [Runs -> SUBSET Resources]
  /\ running \in [Runs -> SUBSET Containers]
  /\ late \in [Runs -> [what : Resources, age : Nat] \cup {Nil}]
  /\ run \in [Runs -> RunStates]

(* Until it settles or cleans up, a run has no creation it gave up on.     *)
Creating == {"discover", "sweep", "create", "copy", "join", "sidecar", "attached", "stop",
             "inventory", "export"}

(* Who a run is: while it lives its labels lead to its process; once it is *)
(* gone they lead nowhere, though its pid may be another's by now.         *)
Named(r) ==
  /\ run[r].at # "start" =>
       /\ labels[r] \in Labels /\ labels[r].boot <= boot
       /\ labels[r].boot = boot => labels[r].start <= started
  /\ Alive(r) => Active(r)
  /\ run[r].at = "gone" => ~Active(r)

PidsDiffer == /\ \A p \in Pids : proc[p] <= started
              /\ \A q, r \in Runs : Alive(q) /\ Alive(r) /\ q # r =>
                                      labels[q].pid # labels[r].pid

(* What is in Docker of it: each resource is asked for once.               *)
Made(r) ==
  /\ run[r].at = "start" => run[r] = NewRun /\ docker[r] = {} /\ late[r] = Nil
  /\ run[r].at \in Creating => late[r] = Nil
  /\ run[r].at \in {"discover", "sweep"} => docker[r] = {} /\ run[r].next = 1
  /\ run[r].at \in {"create", "copy", "join", "sidecar"} =>
       run[r].next \in 1..(Len(Order(r)) + 1)
  /\ run[r].at \in {"copy", "join", "sidecar", "create"} =>
       docker[r] \subseteq {Order(r)[i] : i \in 1..(run[r].next - 1)}
  /\ run[r].at \in {"attached", "stop", "inventory"} => "export" \notin docker[r]
  /\ late[r] # Nil => late[r].what \notin docker[r] /\ late[r].age <= LateBy

(* What its guard knows.                                                   *)
Guarded(r) ==
  /\ late[r] # Nil /\ run[r].at \in Cleaning \cup {"settle"} => run[r].pending
  /\ run[r].at \in Creating \cup {"settle"} => run[r].zero = Nil
  /\ late[r] # Nil /\ run[r].zero # Nil => run[r].zero <= late[r].age
  /\ run[r].at \in {"home", "homeAgain"} => run[r].confirmed
  /\ run[r].confirmed => /\ run[r].at \in {"home", "homeAgain", "done", "gone"}
                         /\ docker[r] = {} /\ late[r] = Nil
  /\ run[r].home = "removed" => run[r].confirmed

(* What it will report.                                                    *)
Reports(r) ==
  /\ run[r].at \in {"inventory", "export"} =>
       run[r].ended # "none" /\ (run[r].ended # "bad" => "main" \notin running[r])
  /\ run[r].at = "stop" => run[r].ended = "timedOut"
  /\ run[r].at \in Cleaning \cup {"home", "homeAgain"} =>
       run[r].result # "none" /\ (run[r].result # "failed" => run[r].stopped)
  /\ run[r].at = "done" /\ run[r].result # "failed" => run[r].stopped /\ run[r].home = "removed"

(* What its sweep has seen of dead runs and not yet removed.               *)
Sweeping(r) ==
  run[r].at = "sweep" => \A q \in run[r].dead :
    /\ run[r].seen[q] # {} => run[q].at = "gone"
    /\ late[q] # Nil => late[q].what \notin run[r].seen[q]
    /\ q \notin run[r].left => run[r].seen[q] \cap docker[q] = {}

Own(r) == Made(r) /\ Guarded(r) /\ Reports(r) /\ Sweeping(r)

CodexInv ==
  /\ CodexTypes
  /\ PidsDiffer
  /\ \A r \in Runs : Named(r) /\ Own(r)

-----------------------------------------------------------------------------
(* execute() names each resource once, and the export's container last.    *)
LEMMA OrderFacts ==
  ASSUME NEW r \in Runs
  PROVE  /\ Len(Order(r)) \in Nat
         /\ \A i \in 1..Len(Order(r)) : Order(r)[i] \in Resources \ {"export"}
         /\ \A i, j \in 1..Len(Order(r)) : i # j => Order(r)[i] # Order(r)[j]
<1> DEFINE n == Len(Volumes)
<1>1. /\ Volumes \in Seq(STRING) /\ n \in Nat
      /\ \A i \in 1..n : Volumes[i] \in Resources /\ Volumes[i] \notin Containers \cup {"network"}
      /\ \A i, j \in 1..n : i # j => Volumes[i] # Volumes[j]
  BY VolumesDiffer DEF Resources
<1>2. CASE r \notin Restricted
  <2>1. /\ Len(Order(r)) = n + 2
        /\ \A i \in 1..n : Order(r)[i] = Volumes[i]
        /\ Order(r)[n + 1] = "stage" /\ Order(r)[n + 2] = "main"
    BY <1>1, <1>2 DEF Order
  <2>2. \A i \in 1..(n + 2) : i \in 1..n \/ i = n + 1 \/ i = n + 2
    BY <1>1
  <2> HIDE DEF n
  <2> QED
    BY <1>1, <2>1, <2>2 DEF Resources, Containers
<1>3. CASE r \in Restricted
  <2>1. /\ Len(Order(r)) = n + 4
        /\ Order(r)[1] = "network"
        /\ \A i \in 2..(n + 1) : Order(r)[i] = Volumes[i - 1]
        /\ Order(r)[n + 2] = "stage" /\ Order(r)[n + 3] = "main" /\ Order(r)[n + 4] = "proxy"
    BY <1>1, <1>3 DEF Order
  <2>2. \A i \in 1..(n + 4) : \/ i = 1 \/ i = n + 2 \/ i = n + 3 \/ i = n + 4
                              \/ i \in 2..(n + 1) /\ i - 1 \in 1..n
    BY <1>1
  <2> HIDE DEF n
  <2>3. \A i \in 1..Len(Order(r)) : Order(r)[i] \in Resources \ {"export"}
    BY <1>1, <2>1, <2>2 DEF Resources, Containers
  <2>4. \A i, j \in 2..(n + 1) : i # j => Order(r)[i] # Order(r)[j]
    <3>1. ASSUME NEW i \in 2..(n + 1), NEW j \in 2..(n + 1), i # j
          PROVE  Order(r)[i] # Order(r)[j]
      <4>1. i - 1 \in 1..n /\ j - 1 \in 1..n /\ i - 1 # j - 1
        BY <1>1, <3>1
      <4> QED
        BY <1>1, <2>1, <3>1, <4>1
    <3> QED
      BY <3>1
  <2>5. \A i \in 2..(n + 1) : Order(r)[i] \notin Containers \cup {"network"}
    BY <1>1, <2>1
  <2>6. ASSUME NEW i \in 1..(n + 4), NEW j \in 1..(n + 4), i # j
        PROVE  Order(r)[i] # Order(r)[j]
    <3>1. CASE i \in 2..(n + 1)
      BY <1>1, <2>1, <2>2, <2>4, <2>5, <2>6, <3>1 DEF Containers
    <3>2. CASE j \in 2..(n + 1)
      BY <1>1, <2>1, <2>2, <2>4, <2>5, <2>6, <3>2 DEF Containers
    <3>3. CASE i \notin 2..(n + 1) /\ j \notin 2..(n + 1)
      <4>1. i \in {1, n + 2, n + 3, n + 4} /\ j \in {1, n + 2, n + 3, n + 4}
        BY <2>2, <3>3
      <4> QED
        BY <2>1, <2>6, <4>1
    <3> QED
      BY <3>1, <3>2, <3>3
  <2> QED
    BY <1>1, <2>1, <2>3, <2>6
<1> QED
  BY <1>2, <1>3

(* A step of one run's process moves the run, and Docker with it.          *)
RunMoves(r) ==
  /\ \A q \in Runs : q # r => run'[q] = run[q]
  /\ run' \in [Runs -> RunStates]
  /\ run'[r].at \notin {"start", "gone"}

DockerMoves(r) ==
  /\ docker' \in [Runs -> SUBSET Resources]
  /\ running' \in [Runs -> SUBSET Containers]
  /\ late' \in [Runs -> [what : Resources, age : Nat] \cup {Nil}]
  /\ \A q \in Runs : q # r =>
       late'[q] = late[q] /\ docker'[q] \subseteq docker[q] /\ running'[q] \subseteq running[q]

(* Nothing is made.                                                        *)
DockerShrinks ==
  /\ late' = late
  /\ docker' \in [Runs -> SUBSET Resources]
  /\ running' \in [Runs -> SUBSET Containers]
  /\ \A q \in Runs : docker'[q] \subseteq docker[q] /\ running'[q] \subseteq running[q]

LEMMA DockerStill == ASSUME CodexTypes, UNCHANGED dockerVars PROVE DockerShrinks
  BY DEF CodexTypes, dockerVars, DockerShrinks

LEMMA DockerRemoves ==
  ASSUME CodexTypes, NEW q \in Runs, NEW wanted, Removes(q, wanted)
  PROVE  DockerShrinks /\ \A p \in Runs : p # q => docker'[p] = docker[p]
  BY DEF CodexTypes, DockerShrinks, Removes

LEMMA ShrinkMoves == ASSUME CodexTypes, NEW r \in Runs, DockerShrinks PROVE DockerMoves(r)
  BY DEF CodexTypes, DockerShrinks, DockerMoves

(* What is left to show of such a step.                                    *)
LEMMA ProceedStep ==
  ASSUME CodexInv, NEW r \in Runs, Alive(r), UNCHANGED <<hostVars, labels>>,
         RunMoves(r), DockerMoves(r), Own(r)'
  PROVE  CodexInv'
<1> USE DEF RunMoves, DockerMoves
<1>1. \A q \in Runs : Alive(q)' <=> Alive(q)
  BY DEF Alive
<1>2. PidsDiffer' /\ CodexTypes'
  BY <1>1 DEF CodexInv, CodexTypes, PidsDiffer, hostVars
<1>3. ASSUME NEW q \in Runs PROVE Named(q)'
  <2>1. /\ run'[q].at = "start" <=> run[q].at = "start"
        /\ run'[q].at = "gone" <=> run[q].at = "gone"
    BY DEF Alive
  <2> QED
    BY <1>1, <2>1 DEF CodexInv, Named, Active, hostVars
<1>4. ASSUME NEW q \in Runs, q # r PROVE Own(q)'
  <2>1. run'[q] = run[q] /\ late'[q] = late[q] /\ docker'[q] \subseteq docker[q]
        /\ running'[q] \subseteq running[q]
    BY <1>4
  <2>2. Made(q)' /\ Guarded(q)' /\ Reports(q)'
    BY <2>1 DEF CodexInv, Own, Made, Guarded, Reports
  <2>3. ASSUME run[q].at = "sweep", NEW p \in run[q].dead
        PROVE  /\ run[q].seen[p] # {} => run'[p].at = "gone"
               /\ late'[p] # Nil => late'[p].what \notin run[q].seen[p]
               /\ p \notin run[q].left => run[q].seen[p] \cap docker'[p] = {}
    <3>1. p \in Runs
      BY <2>3 DEF CodexInv, CodexTypes, RunStates
    <3>2. /\ run[q].seen[p] # {} => run[p].at = "gone"
          /\ late[p] # Nil => late[p].what \notin run[q].seen[p]
          /\ p \notin run[q].left => run[q].seen[p] \cap docker[p] = {}
      BY <2>3 DEF CodexInv, Own, Sweeping
    <3>3. CASE p = r
      BY <3>2, <3>3 DEF Alive
    <3>4. CASE p # r
      BY <3>1, <3>2, <3>4
    <3> QED
      BY <3>3, <3>4
  <2>4. Sweeping(q)'
    BY <2>1, <2>3 DEF Sweeping
  <2> QED
    BY <2>2, <2>4 DEF Own
<1> QED
  BY <1>2, <1>3, <1>4 DEF CodexInv

(* A run that ends as it is, with or without its private home.             *)
LEMMA EndsKeeps ==
  ASSUME CodexInv, NEW r \in Runs, Alive(r), UNCHANGED <<hostVars, labels>>, DockerShrinks,
         NEW result \in {"failed", "exited", "timedOut"}, NEW home \in {"none", "kept", "removed"},
         Ends(r, result, home),
         home = "removed" => run[r].confirmed,
         result # "failed" => run[r].stopped /\ home = "removed"
  PROVE  CodexInv'
<1> DEFINE done == [NewRun EXCEPT !.at = "done", !.result = result, !.stopped = run[r].stopped,
                                  !.home = home, !.confirmed = run[r].confirmed]
<1>1. run[r].stopped \in BOOLEAN /\ run[r].confirmed \in BOOLEAN
  BY DEF CodexInv, CodexTypes, RunStates
<1>2. /\ done.at = "done" /\ done.result = result /\ done.stopped = run[r].stopped
      /\ done.home = home /\ done.confirmed = run[r].confirmed /\ done.zero = Nil
  BY DEF NewRun
<1>3. done \in RunStates
  <2>1. NewRun.seen \in [Runs -> SUBSET Resources]
    BY DEF NewRun
  <2> QED
    BY <1>1, <2>1 DEF NewRun, RunStates, Ats
<1>4. run' = [run EXCEPT ![r] = done]
  BY DEF Ends
<1> HIDE DEF done
<1>5. RunMoves(r) /\ run'[r] = done
  BY <1>2, <1>3, <1>4 DEF RunMoves, CodexInv, CodexTypes
<1>6. Own(r)'
  BY <1>2, <1>5 DEF CodexInv, Own, Made, Guarded, Reports, Sweeping, Creating, Cleaning, Alive,
                    DockerShrinks
<1> QED
  BY <1>5, <1>6, ProceedStep, ShrinkMoves DEF CodexInv

(* What Becomes changes, and what it leaves.                               *)
Fields == {"at", "next", "seen", "left", "dead", "home", "pending", "confirmed", "result",
           "ended", "stopped", "attempt", "before", "zero", "spent"}

LEMMA BecomesSets ==
  ASSUME CodexTypes, NEW r \in Runs, NEW new, DOMAIN new \subseteq Fields, Becomes(r, new)
  PROVE  /\ \A q \in Runs : q # r => run'[q] = run[q]
         /\ run' = [q \in Runs |-> run'[q]]
         /\ run'[r] = [f \in Fields |-> IF f \in DOMAIN new THEN new[f] ELSE run[r][f]]
<1>1. DOMAIN run[r] = Fields
  BY DEF CodexTypes, RunStates, Fields
<1> QED
  BY <1>1 DEF CodexTypes, Becomes

(* A step that only moves the run on: what is left to show of it.          *)
LEMMA BecomesKeeps ==
  ASSUME CodexInv, NEW r \in Runs, Alive(r), UNCHANGED <<hostVars, labels>>, DockerMoves(r),
         \A q \in Runs : q # r => run'[q] = run[q],
         run' = [q \in Runs |-> run'[q]],
         run'[r] \in RunStates, run'[r].at \notin {"start", "gone"}, Own(r)'
  PROVE  CodexInv'
<1>1. RunMoves(r)
  BY DEF RunMoves, CodexInv, CodexTypes
<1> QED
  BY <1>1, ProceedStep

LEMMA DiscoverKeeps == ASSUME CodexInv, NEW r \in Runs, Discover(r) PROVE CodexInv'
<1> DEFINE new == [at |-> "sweep", seen |-> docker, left |-> Runs,
                   dead |-> {q \in Runs : ~Alive(q)}]
<1>1. /\ run[r].at = "discover" /\ Alive(r) /\ UNCHANGED <<hostVars, labels, dockerVars>>
      /\ run[r].home \in {"none", "kept", "removed"} /\ run[r].home # "removed"
      /\ Becomes(r, new) \/ Ends(r, "failed", run[r].home)
  BY DEF Discover, At, Alive, CodexInv, CodexTypes, RunStates, Own, Guarded
<1>2. DockerShrinks /\ DockerMoves(r)
  BY <1>1, DockerStill, ShrinkMoves DEF CodexInv
<1>3. CASE Becomes(r, new)
  <2>1. DOMAIN new \subseteq Fields
    BY DEF Fields
  <2>2. /\ \A q \in Runs : q # r => run'[q] = run[q]
        /\ run' = [q \in Runs |-> run'[q]]
        /\ run'[r] = [f \in Fields |-> IF f \in DOMAIN new THEN new[f] ELSE run[r][f]]
    BY <1>3, <2>1, BecomesSets DEF CodexInv
  <2>3. /\ run'[r].at = "sweep" /\ run'[r].seen = docker /\ run'[r].left = Runs
        /\ run'[r].dead = {q \in Runs : ~Alive(q)}
        /\ run'[r].next = run[r].next /\ run'[r].home = run[r].home
        /\ run'[r].zero = run[r].zero /\ run'[r].confirmed = run[r].confirmed
    BY <2>2 DEF Fields
  <2>4. run'[r] \in RunStates
    BY <2>2, <1>1 DEF Fields, RunStates, CodexInv, CodexTypes, Ats
  <2>5. Sweeping(r)'
    <3>1. ASSUME NEW q \in Runs, ~Alive(q)
          PROVE  /\ docker[q] # {} => run'[q].at = "gone"
                 /\ late'[q] # Nil => late'[q].what \notin docker[q]
      BY <1>1, <2>2, <3>1 DEF CodexInv, Own, Made, Alive, dockerVars
    <3> QED
      BY <2>3, <3>1 DEF Sweeping
  <2>6. Made(r)' /\ Guarded(r)' /\ Reports(r)'
    BY <1>1, <2>3 DEF CodexInv, Own, Made, Guarded, Reports, Creating, Cleaning, dockerVars
  <2> QED
    BY <1>1, <1>2, <2>2, <2>3, <2>4, <2>5, <2>6, BecomesKeeps DEF Own
<1>4. CASE Ends(r, "failed", run[r].home)
  BY <1>1, <1>2, <1>4, EndsKeeps
<1> QED
  BY <1>1, <1>3, <1>4

(* A sweep passes over a run that is active, or that it saw nothing of,    *)
(* and what it saw of any other it removes.                                *)
LEMMA SweepKeeps == ASSUME CodexInv, NEW r \in Runs, Sweep(r) PROVE CodexInv'
<1>1. PICK q \in run[r].left :
        IF run[r].seen[q] = {} \/ Active(q)
        THEN Becomes(r, [left |-> run[r].left \ {q}]) /\ UNCHANGED dockerVars
        ELSE SweepGroup(r, q)
  BY DEF Sweep
<1> DEFINE new == [left |-> run[r].left \ {q}]
<1>2. /\ run[r].at = "sweep" /\ Alive(r) /\ UNCHANGED <<hostVars, labels>>
      /\ run[r].home \in {"none", "kept", "removed"} /\ run[r].home # "removed"
      /\ q \in Runs /\ run[r].seen[q] \subseteq Resources
  <2>1. run[r].at = "sweep" /\ Alive(r) /\ UNCHANGED <<hostVars, labels>>
    BY DEF Sweep, At, Alive
  <2>2. run[r] \in RunStates /\ Guarded(r)
    BY DEF CodexInv, CodexTypes, Own
  <2> QED
    BY <2>1, <2>2 DEF RunStates, Guarded
<1>3. DockerShrinks /\ DockerMoves(r)
  BY <1>1, <1>2, DockerStill, DockerRemoves, ShrinkMoves DEF CodexInv, SweepGroup
<1>4. ASSUME Becomes(r, new), q \in run[r].dead => run[r].seen[q] \cap docker'[q] = {}
      PROVE  CodexInv'
  <2>1. DOMAIN new \subseteq Fields
    BY DEF Fields
  <2>2. /\ \A p \in Runs : p # r => run'[p] = run[p]
        /\ run' = [p \in Runs |-> run'[p]]
        /\ run'[r] = [f \in Fields |-> IF f \in DOMAIN new THEN new[f] ELSE run[r][f]]
    BY <1>4, <2>1, BecomesSets DEF CodexInv
  <2>3. /\ run'[r].at = "sweep" /\ run'[r].seen = run[r].seen /\ run'[r].left = run[r].left \ {q}
        /\ run'[r].dead = run[r].dead
        /\ run'[r].next = run[r].next /\ run'[r].home = run[r].home
        /\ run'[r].zero = run[r].zero /\ run'[r].confirmed = run[r].confirmed
    BY <1>2, <2>2 DEF Fields
  <2>4. run'[r] \in RunStates
    BY <2>2, <1>2 DEF Fields, RunStates, CodexInv, CodexTypes, Ats
  <2>5. Sweeping(r)'
    <3>1. ASSUME NEW p \in run[r].dead
          PROVE  /\ run[r].seen[p] # {} => run'[p].at = "gone"
                 /\ late'[p] # Nil => late'[p].what \notin run[r].seen[p]
                 /\ p \notin run[r].left \ {q} => run[r].seen[p] \cap docker'[p] = {}
      <4>1. p \in Runs
        BY <1>2 DEF CodexInv, CodexTypes, RunStates
      <4>2. /\ run[r].seen[p] # {} => run[p].at = "gone"
            /\ late[p] # Nil => late[p].what \notin run[r].seen[p]
            /\ p \notin run[r].left => run[r].seen[p] \cap docker[p] = {}
        BY <1>2 DEF CodexInv, Own, Sweeping
      <4> QED
        BY <1>2, <1>3, <1>4, <2>2, <4>1, <4>2 DEF DockerShrinks
    <3> QED
      BY <2>3, <3>1 DEF Sweeping
  <2>6. Made(r)' /\ Guarded(r)' /\ Reports(r)'
    BY <1>2, <1>3, <2>3
       DEF CodexInv, Own, Made, Guarded, Reports, Creating, Cleaning, DockerShrinks
  <2> QED
    BY <1>2, <1>3, <2>2, <2>3, <2>4, <2>5, <2>6, BecomesKeeps DEF Own
<1>5. CASE run[r].seen[q] = {} \/ Active(q)
  <2>1. q \in run[r].dead => run[r].seen[q] = {}
    BY <1>2, <1>5 DEF CodexInv, Own, Sweeping, Named
  <2> QED
    BY <1>1, <1>4, <1>5, <2>1
<1>6. CASE SweepGroup(r, q)
  BY <1>2, <1>3, <1>4, <1>6, EndsKeeps DEF SweepGroup
<1> QED
  BY <1>1, <1>5, <1>6

LEMMA StageHomeKeeps == ASSUME CodexInv, NEW r \in Runs, StageHome(r) PROVE CodexInv'
<1> DEFINE new == [at |-> "create", home |-> "kept", seen |-> NewRun.seen, dead |-> {}]
<1>1. /\ run[r].at = "sweep" /\ Alive(r) /\ UNCHANGED <<hostVars, labels, dockerVars>>
      /\ run[r] \in RunStates /\ Guarded(r)
      /\ Becomes(r, new) \/ Ends(r, "failed", run[r].home)
  BY DEF StageHome, At, Alive, CodexInv, CodexTypes, Own
<1>2. run[r].home \in {"none", "kept", "removed"} /\ run[r].home # "removed"
  BY <1>1 DEF RunStates, Guarded
<1>3. DockerShrinks /\ DockerMoves(r)
  BY <1>1, DockerStill, ShrinkMoves DEF CodexInv
<1>4. CASE Becomes(r, new)
  <2>1. DOMAIN new \subseteq Fields
    BY DEF Fields
  <2>2. /\ \A q \in Runs : q # r => run'[q] = run[q]
        /\ run' = [q \in Runs |-> run'[q]]
        /\ run'[r] = [f \in Fields |-> IF f \in DOMAIN new THEN new[f] ELSE run[r][f]]
    BY <1>4, <2>1, BecomesSets DEF CodexInv
  <2>3. /\ run'[r].at = "create" /\ run'[r].home = "kept" /\ run'[r].next = run[r].next
        /\ run'[r].zero = run[r].zero /\ run'[r].confirmed = run[r].confirmed
    BY <2>2 DEF Fields
  <2>4. run'[r] \in RunStates
    <3>1. NewRun.seen \in [Runs -> SUBSET Resources]
      BY DEF NewRun
    <3> QED
      BY <1>1, <2>2, <3>1 DEF Fields, RunStates, Ats
  <2>5. Made(r)' /\ Guarded(r)' /\ Reports(r)' /\ Sweeping(r)'
    BY <1>1, <2>3, OrderFacts
       DEF CodexInv, Own, Made, Guarded, Reports, Sweeping, Creating, Cleaning, dockerVars
  <2> QED
    BY <1>1, <1>3, <2>2, <2>3, <2>4, <2>5, BecomesKeeps DEF Own
<1>5. CASE Ends(r, "failed", run[r].home)
  BY <1>1, <1>2, <1>3, <1>5, EndsKeeps
<1> QED
  BY <1>1, <1>4, <1>5

(* An error while the run works: the guard will clean up, and knows of the *)
(* creation that was given up on.                                          *)
LEMMA FailsKeeps ==
  ASSUME CodexInv, NEW r \in Runs, run[r].at \in Creating \cup {"settle"},
         UNCHANGED <<hostVars, labels, late>>, DockerMoves(r), late[r] # Nil => docker' = docker,
         NEW new, DOMAIN new \subseteq {"at", "result", "pending"},
         "at" \in DOMAIN new, "result" \in DOMAIN new, new.at = "clean", new.result = "failed",
         "pending" \in DOMAIN new => new.pending \in BOOLEAN /\ (run[r].pending => new.pending),
         Becomes(r, new)
  PROVE  CodexInv'
<1>1. DOMAIN new \subseteq Fields
  BY DEF Fields
<1>2. /\ \A q \in Runs : q # r => run'[q] = run[q]
      /\ run' = [q \in Runs |-> run'[q]]
      /\ run'[r] = [f \in Fields |-> IF f \in DOMAIN new THEN new[f] ELSE run[r][f]]
  BY <1>1, BecomesSets DEF CodexInv
<1>3. run[r] \in RunStates /\ run[r].pending \in BOOLEAN
  BY DEF CodexInv, CodexTypes, RunStates
<1>4. /\ run'[r].at = "clean" /\ run'[r].result = "failed" /\ run'[r].home = run[r].home
      /\ run'[r].zero = run[r].zero /\ run'[r].confirmed = run[r].confirmed
      /\ run[r].pending => run'[r].pending
  BY <1>2, <1>3 DEF Fields
<1>5. run'[r] \in RunStates
  BY <1>2, <1>3 DEF Fields, RunStates, Ats
<1>6. Made(r)' /\ Guarded(r)' /\ Reports(r)' /\ Sweeping(r)'
  BY <1>4
     DEF CodexInv, Own, Made, Guarded, Reports, Sweeping, Creating, Cleaning
<1>7. Alive(r)
  BY DEF Creating, Alive
<1> QED
  BY <1>2, <1>4, <1>5, <1>6, <1>7, BecomesKeeps DEF Own

(* Nobody asked for this resource before: the run's list names it once.    *)
LEMMA MakingIsNew ==
  ASSUME CodexInv, NEW r \in Runs, MayCreate(r)
  PROVE  /\ run[r].at \in {"create", "inventory"}
         /\ run[r].at = "create" =>
              /\ Making(r) = Order(r)[run[r].next] /\ Making(r) # "export"
              /\ run[r].next \in 1..Len(Order(r))
         /\ run[r].at = "inventory" => Making(r) = "export"
         /\ Making(r) \in Resources
         /\ Making(r) \notin docker[r] /\ late[r] = Nil
<1>1. run[r].at \in {"create", "inventory"} /\ Made(r) /\ run[r] \in RunStates
  BY DEF MayCreate, At, CodexInv, CodexTypes, Own
<1>2. CASE run[r].at = "inventory"
  BY <1>1, <1>2 DEF Making, At, Made, Creating, Resources, Containers
<1>3. CASE run[r].at = "create"
  <2>1. run[r].next \in 1..Len(Order(r))
    BY <1>1, <1>3, OrderFacts DEF MayCreate, At, Made
  <2>2. Making(r) = Order(r)[run[r].next] /\ Making(r) \in Resources \ {"export"}
    BY <1>3, <2>1, OrderFacts DEF Making, At
  <2>3. Making(r) \notin docker[r]
    <3>1. docker[r] \subseteq {Order(r)[i] : i \in 1..(run[r].next - 1)}
      BY <1>1, <1>3 DEF Made
    <3>2. \A i \in 1..(run[r].next - 1) : Order(r)[i] # Order(r)[run[r].next]
      BY <2>1, OrderFacts
    <3> QED
      BY <2>2, <3>1, <3>2
  <2> QED
    BY <1>1, <1>3, <2>1, <2>2, <2>3 DEF Made, Creating
<1> QED
  BY <1>1, <1>2, <1>3

LEMMA CreateKeeps == ASSUME CodexInv, NEW r \in Runs, Create(r) PROVE CodexInv'
<1>1. /\ MayCreate(r) /\ Alive(r) /\ UNCHANGED <<hostVars, labels, running, late>>
      /\ run[r] \in RunStates /\ Made(r) /\ Guarded(r)
      /\ docker' = [docker EXCEPT ![r] = @ \cup {Making(r)}]
      /\ Created(r, Making(r))
  BY MakingIsNew DEF Create, Alive, CodexInv, CodexTypes, Own
<1>2. DockerMoves(r) /\ docker'[r] = docker[r] \cup {Making(r)}
  BY <1>1, MakingIsNew DEF CodexInv, CodexTypes, DockerMoves
<1>3. PICK new :
        /\ Becomes(r, new) /\ DOMAIN new \subseteq {"at", "next"}
        /\ run[r].at = "inventory" => new = [at |-> "export"]
        /\ run[r].at = "create" =>
             /\ "next" \in DOMAIN new /\ new.next = run[r].next + 1
             /\ "at" \in DOMAIN new => new.at \in {"copy", "join", "sidecar"}
  BY <1>1, MakingIsNew DEF Created
<1>4. DOMAIN new \subseteq Fields
  BY <1>3 DEF Fields
<1>5. /\ \A q \in Runs : q # r => run'[q] = run[q]
      /\ run' = [q \in Runs |-> run'[q]]
      /\ run'[r] = [f \in Fields |-> IF f \in DOMAIN new THEN new[f] ELSE run[r][f]]
  BY <1>3, <1>4, BecomesSets DEF CodexInv
<1>6. /\ run[r].at = "inventory" => run'[r].at = "export" /\ run'[r].next = run[r].next
      /\ run[r].at = "create" => /\ run'[r].at \in {"create", "copy", "join", "sidecar"}
                                 /\ run'[r].next = run[r].next + 1
      /\ run'[r].ended = run[r].ended /\ run'[r].home = run[r].home
      /\ run'[r].zero = run[r].zero /\ run'[r].confirmed = run[r].confirmed
  BY <1>1, <1>3, <1>5 DEF Fields
<1>7. run'[r].at \in Ats /\ run'[r].next \in Nat
  BY <1>1, <1>6, MakingIsNew DEF Ats, RunStates
<1>8. run'[r] \in RunStates
  BY <1>1, <1>3, <1>5, <1>7 DEF Fields, RunStates
<1>9. Made(r)'
  <2>1. CASE run[r].at = "create"
    <3>1. Len(Order(r)) \in Nat /\ run[r].next \in 1..Len(Order(r))
      BY <2>1, <1>1, MakingIsNew, OrderFacts
    <3>2. run'[r].next \in 1..(Len(Order(r)) + 1)
      BY <2>1, <1>6, <3>1
    <3>3. docker'[r] \subseteq {Order(r)[i] : i \in 1..(run'[r].next - 1)}
      <4>1. docker[r] \subseteq {Order(r)[i] : i \in 1..(run[r].next - 1)}
        BY <1>1, <2>1 DEF Made
      <4>2. run'[r].next - 1 = run[r].next
        BY <1>6, <2>1, <3>1
      <4>3. Making(r) = Order(r)[run[r].next]
        BY <1>1, <2>1, MakingIsNew
      <4>4. \A i \in 1..(run[r].next - 1) : i \in 1..run[r].next
        BY <3>1
      <4> QED
        BY <1>2, <3>1, <4>1, <4>2, <4>3, <4>4
    <3> QED
      BY <1>1, <1>6, <2>1, <3>2, <3>3, MakingIsNew DEF Made, Creating, Order
  <2>2. CASE run[r].at = "inventory"
    BY <1>1, <1>6, <2>2, MakingIsNew DEF Made
  <2> QED
    BY <1>1, <2>1, <2>2, MakingIsNew
<1>10. Guarded(r)' /\ Reports(r)' /\ Sweeping(r)'
  BY <1>1, <1>6, MakingIsNew
     DEF CodexInv, Own, Guarded, Reports, Sweeping, Creating, Cleaning
<1> QED
  BY <1>1, <1>2, <1>5, <1>6, <1>8, <1>9, <1>10, MakingIsNew, BecomesKeeps DEF Own

LEMMA CreateFailsKeeps == ASSUME CodexInv, NEW r \in Runs, CreateFails(r) PROVE CodexInv'
<1> DEFINE new == [at |-> "clean", result |-> "failed"]
<1>1. /\ MayCreate(r) /\ UNCHANGED <<hostVars, labels, running, late>>
      /\ docker' = docker \/ docker' = [docker EXCEPT ![r] = @ \cup {Making(r)}]
      /\ Becomes(r, new)
  BY DEF CreateFails, Fails
<1>2. run[r].at \in Creating /\ late[r] = Nil
  BY <1>1, MakingIsNew DEF Creating
<1>3. DockerMoves(r)
  BY <1>1, MakingIsNew DEF CodexInv, CodexTypes, DockerMoves
<1> QED
  BY <1>1, <1>2, <1>3, FailsKeeps

(* A creation that was given up on is pending, and asks for what is not    *)
(* there.                                                                  *)
LEMMA CreateTimesOutKeeps == ASSUME CodexInv, NEW r \in Runs, CreateTimesOut(r) PROVE CodexInv'
<1> DEFINE new == [at |-> "settle", pending |-> TRUE]
<1>1. /\ MayCreate(r) /\ Alive(r) /\ UNCHANGED <<hostVars, labels, docker, running>>
      /\ run[r] \in RunStates /\ Made(r) /\ Guarded(r)
      /\ late' = [late EXCEPT ![r] = [what |-> Making(r), age |-> 0]]
      /\ Becomes(r, new)
  BY MakingIsNew DEF CreateTimesOut, Alive, CodexInv, CodexTypes, Own
<1>2. /\ DockerMoves(r)
      /\ late'[r] = [what |-> Making(r), age |-> 0]
  BY <1>1, MakingIsNew DEF CodexInv, CodexTypes, DockerMoves
<1>3. DOMAIN new \subseteq Fields
  BY DEF Fields
<1>4. /\ \A q \in Runs : q # r => run'[q] = run[q]
      /\ run' = [q \in Runs |-> run'[q]]
      /\ run'[r] = [f \in Fields |-> IF f \in DOMAIN new THEN new[f] ELSE run[r][f]]
  BY <1>1, <1>3, BecomesSets DEF CodexInv
<1>5. /\ run'[r].at = "settle" /\ run'[r].pending /\ run'[r].next = run[r].next
      /\ run'[r].home = run[r].home
      /\ run'[r].zero = run[r].zero /\ run'[r].confirmed = run[r].confirmed
  BY <1>4 DEF Fields
<1>6. run'[r] \in RunStates
  <2>1. run'[r].at \in Ats /\ run'[r].pending \in BOOLEAN
    BY <1>5 DEF Ats
  <2>2. \A f \in Fields : f \notin {"at", "pending"} => run'[r][f] = run[r][f]
    BY <1>4
  <2> HIDE DEF new
  <2>3. run'[r] = [f \in Fields |-> run'[r][f]]
    BY <1>4, Zenon
  <2> QED
    BY ONLY <1>1, <2>1, <2>2, <2>3 DEF Fields, RunStates
<1>7. Made(r)'
  BY <1>1, <1>2, <1>5, MakingIsNew, TimesAreNat DEF Made, Creating
<1>8. Guarded(r)' /\ Reports(r)' /\ Sweeping(r)'
  BY <1>1, <1>5, MakingIsNew DEF Guarded, Reports, Sweeping, Creating, Cleaning
<1> QED
  BY <1>1, <1>2, <1>4, <1>5, <1>6, <1>7, <1>8, BecomesKeeps DEF Own

LEMMA SettleKeeps == ASSUME CodexInv, NEW r \in Runs, Settle(r) PROVE CodexInv'
<1> DEFINE new == [at |-> "clean", result |-> "failed"]
<1>1. run[r].at = "settle" /\ UNCHANGED <<hostVars, labels, dockerVars>> /\ Becomes(r, new)
  BY DEF Settle, At, Fails
<1>2. DockerMoves(r) /\ UNCHANGED late /\ docker' = docker
  BY <1>1, DockerStill, ShrinkMoves DEF CodexInv, dockerVars
<1> QED
  BY <1>1, <1>2, FailsKeeps

(* A run that goes on with its work: nothing is made or removed.           *)
LEMMA WorksKeeps ==
  ASSUME CodexInv, NEW r \in Runs, UNCHANGED <<hostVars, labels, docker, late>>,
         running' \in [Runs -> SUBSET Containers],
         \A q \in Runs : q # r => running'[q] = running[q],
         NEW new, DOMAIN new \subseteq {"at", "ended"}, "at" \in DOMAIN new, Becomes(r, new),
         "ended" \in DOMAIN new => new.ended \in {"bad", "exited", "timedOut"},
         \/ run[r].at \in {"copy", "join", "sidecar"} /\ new.at = "create"
         \/ run[r].at = "create" /\ new.at = "attached"
         \/ run[r].at \in {"attached", "stop"} /\ new.at \in {"inventory", "stop"},
         new.at \in {"inventory", "stop"} =>
           /\ run'[r].ended # "none"
           /\ new.at = "stop" => run'[r].ended = "timedOut"
           /\ new.at = "inventory" /\ run'[r].ended # "bad" => "main" \notin running'[r]
  PROVE  CodexInv'
<1>1. run[r] \in RunStates /\ Alive(r) /\ Made(r) /\ Guarded(r) /\ run[r].at \in Creating
  BY DEF Alive, CodexInv, CodexTypes, Own, Creating
<1>2. DOMAIN new \subseteq Fields
  BY DEF Fields
<1>3. /\ \A q \in Runs : q # r => run'[q] = run[q]
      /\ run' = [q \in Runs |-> run'[q]]
      /\ run'[r] = [f \in Fields |-> IF f \in DOMAIN new THEN new[f] ELSE run[r][f]]
  BY <1>2, BecomesSets DEF CodexInv
<1>4. /\ run'[r].at = new.at /\ run'[r].next = run[r].next /\ run'[r].home = run[r].home
      /\ run'[r].zero = run[r].zero /\ run'[r].confirmed = run[r].confirmed
  BY <1>3 DEF Fields
<1>5. run'[r] \in RunStates
  BY <1>1, <1>3 DEF Fields, RunStates, Ats
<1>6. DockerMoves(r)
  BY DEF CodexInv, CodexTypes, DockerMoves
<1>7. Made(r)'
  <2>1. CASE run[r].at \in {"copy", "join", "sidecar"}
    BY <1>1, <1>4, <2>1 DEF Made, Creating, Order
  <2>2. CASE run[r].at = "create"
    <3>1. \A i \in 1..(run[r].next - 1) : Order(r)[i] # "export"
      BY <1>1, <2>2, OrderFacts DEF Made
    <3>2. "export" \notin docker[r]
      BY <1>1, <2>2, <3>1 DEF Made
    <3> QED
      BY <1>1, <1>4, <2>2, <3>2 DEF Made, Creating
  <2>3. CASE run[r].at \in {"attached", "stop"}
    BY <1>1, <1>4, <2>3 DEF Made, Creating
  <2> QED
    BY <2>1, <2>2, <2>3
<1>8. Guarded(r)' /\ Reports(r)' /\ Sweeping(r)'
  BY <1>1, <1>4 DEF Guarded, Reports, Sweeping, Creating, Cleaning
<1> QED
  BY <1>1, <1>3, <1>4, <1>5, <1>6, <1>7, <1>8, BecomesKeeps DEF Own

LEMMA CopyKeeps == ASSUME CodexInv, NEW r \in Runs, Copy(r) PROVE CodexInv'
<1>1. run[r].at = "copy" /\ UNCHANGED <<hostVars, labels, docker, running, late>>
  BY DEF Copy, At, dockerVars
<1>2. running' \in [Runs -> SUBSET Containers] /\ DockerMoves(r)
  BY <1>1 DEF CodexInv, CodexTypes, DockerMoves
<1>3. CASE Becomes(r, [at |-> "create"])
  BY <1>1, <1>2, <1>3, WorksKeeps
<1>4. CASE Becomes(r, [at |-> "clean", result |-> "failed"])
  BY <1>1, <1>2, <1>4, FailsKeeps DEF Creating
<1> QED
  BY <1>3, <1>4 DEF Copy, Fails

(* An error that may be a timeout of a command that creates nothing.       *)
LEMMA MayTimeOutKeeps ==
  ASSUME CodexInv, NEW r \in Runs, run[r].at \in Creating,
         UNCHANGED <<hostVars, labels, docker, late>>, DockerMoves(r), NEW timedOut \in BOOLEAN,
         Becomes(r, [at |-> "clean", result |-> "failed", pending |-> run[r].pending \/ timedOut])
  PROVE  CodexInv'
<1> DEFINE new == [at |-> "clean", result |-> "failed", pending |-> run[r].pending \/ timedOut]
<1>1. run[r].pending \in BOOLEAN
  BY DEF CodexInv, CodexTypes, RunStates
<1>2. /\ DOMAIN new \subseteq {"at", "result", "pending"}
      /\ "at" \in DOMAIN new /\ "result" \in DOMAIN new
      /\ new.at = "clean" /\ new.result = "failed"
      /\ new.pending \in BOOLEAN /\ (run[r].pending => new.pending)
  BY <1>1
<1> HIDE DEF new
<1>3. Becomes(r, new)
  BY DEF new
<1> QED
  BY <1>2, <1>3, FailsKeeps

LEMMA JoinKeeps == ASSUME CodexInv, NEW r \in Runs, Join(r) PROVE CodexInv'
<1>1. run[r].at = "join" /\ UNCHANGED <<hostVars, labels, docker, running, late>>
  BY DEF Join, At, dockerVars
<1>2. running' \in [Runs -> SUBSET Containers] /\ DockerMoves(r)
  BY <1>1 DEF CodexInv, CodexTypes, DockerMoves
<1>3. CASE Becomes(r, [at |-> "create"])
  BY <1>1, <1>2, <1>3, WorksKeeps
<1>4. ASSUME NEW timedOut \in BOOLEAN,
             Becomes(r, [at |-> "clean", result |-> "failed", pending |-> run[r].pending \/ timedOut])
      PROVE  CodexInv'
  BY <1>1, <1>2, <1>4, MayTimeOutKeeps DEF Creating
<1> QED
  BY <1>3, <1>4 DEF Join

LEMMA SidecarKeeps == ASSUME CodexInv, NEW r \in Runs, Sidecar(r) PROVE CodexInv'
<1>1. run[r].at = "sidecar" /\ UNCHANGED <<hostVars, labels, docker, late>>
  BY DEF Sidecar, At
<1>2. /\ running' \in [Runs -> SUBSET Containers] /\ DockerMoves(r)
      /\ \A q \in Runs : q # r => running'[q] = running[q]
  <2>1. running' = running \/ running' = [running EXCEPT ![r] = @ \cup {"proxy"}]
    BY DEF Sidecar
  <2>2. running' \in [Runs -> SUBSET Containers] /\ \A q \in Runs : q # r => running'[q] = running[q]
    BY <2>1 DEF CodexInv, CodexTypes, Containers
  <2> QED
    BY <1>1, <2>2 DEF CodexInv, CodexTypes, DockerMoves
<1>3. CASE Becomes(r, [at |-> "create"])
  BY <1>1, <1>2, <1>3, WorksKeeps
<1>4. ASSUME NEW timedOut \in BOOLEAN,
             Becomes(r, [at |-> "clean", result |-> "failed", pending |-> run[r].pending \/ timedOut])
      PROVE  CodexInv'
  BY <1>1, <1>2, <1>4, MayTimeOutKeeps DEF Creating
<1> QED
  BY <1>3, <1>4 DEF Sidecar

LEMMA AttachKeeps == ASSUME CodexInv, NEW r \in Runs, Attach(r) PROVE CodexInv'
<1>1. /\ run[r].at = "create" /\ UNCHANGED <<hostVars, labels, docker, late>>
      /\ Becomes(r, [at |-> "attached"])
      /\ running' = [running EXCEPT ![r] = @ \cup {"main"}]
  BY DEF Attach, At
<1>2. /\ running' \in [Runs -> SUBSET Containers]
      /\ \A q \in Runs : q # r => running'[q] = running[q]
  BY <1>1 DEF CodexInv, CodexTypes, Containers
<1> QED
  BY <1>1, <1>2, WorksKeeps

LEMMA DetachKeeps == ASSUME CodexInv, NEW r \in Runs, Detach(r) PROVE CodexInv'
<1>1. run[r].at = "attached" /\ UNCHANGED <<hostVars, labels, docker, late>>
  BY DEF Detach, At
<1>2. /\ running' \in [Runs -> SUBSET Containers]
      /\ \A q \in Runs : q # r => running'[q] = running[q]
  <2>1. running' = running \/ running' = [running EXCEPT ![r] = @ \ {"main"}]
    BY DEF Detach
  <2> QED
    BY <2>1 DEF CodexInv, CodexTypes
<1>3. ASSUME NEW at \in {"inventory", "stop"}, NEW how \in {"exited", "bad", "timedOut"},
             Becomes(r, [at |-> at, ended |-> how]),
             at = "stop" => how = "timedOut",
             at = "inventory" /\ how # "bad" => "main" \notin running'[r]
      PROVE  CodexInv'
  <2> DEFINE new == [at |-> at, ended |-> how]
  <2>1. /\ DOMAIN new = {"at", "ended"} /\ new.at = at /\ new.ended = how
    OBVIOUS
  <2>2. Becomes(r, new) /\ DOMAIN new \subseteq Fields
    BY <1>3, <2>1 DEF Fields
  <2> HIDE DEF new
  <2>3. run'[r].ended = how
    <3>1. run'[r] = [f \in Fields |-> IF f \in DOMAIN new THEN new[f] ELSE run[r][f]]
      BY <2>2, BecomesSets DEF CodexInv
    <3> QED
      BY <2>1, <3>1 DEF Fields
  <2> QED
    BY <1>1, <1>2, <1>3, <2>1, <2>2, <2>3, WorksKeeps
<1>4. ASSUME running' = [running EXCEPT ![r] = @ \ {"main"}], NEW how \in {"exited", "bad"},
             Becomes(r, [at |-> "inventory", ended |-> how])
      PROVE  CodexInv'
  <2>1. "main" \notin running'[r]
    BY <1>4 DEF CodexInv, CodexTypes
  <2> QED
    BY <1>3, <1>4, <2>1
<1> QED
  BY <1>3, <1>4 DEF Detach

LEMMA StopKeeps == ASSUME CodexInv, NEW r \in Runs, Stop(r) PROVE CodexInv'
<1>1. run[r].at = "stop" /\ UNCHANGED <<hostVars, labels, docker, late>> /\ run[r].ended = "timedOut"
  BY DEF Stop, At, CodexInv, Own, Reports
<1>2. /\ running' \in [Runs -> SUBSET Containers] /\ DockerMoves(r)
      /\ \A q \in Runs : q # r => running'[q] = running[q]
  <2>1. running' = running \/ running' = [running EXCEPT ![r] = @ \ {"main"}]
    BY DEF Stop
  <2>2. running' \in [Runs -> SUBSET Containers] /\ \A q \in Runs : q # r => running'[q] = running[q]
    BY <2>1 DEF CodexInv, CodexTypes
  <2> QED
    BY <1>1, <2>2 DEF CodexInv, CodexTypes, DockerMoves
<1>3. ASSUME running' = [running EXCEPT ![r] = @ \ {"main"}], Becomes(r, [at |-> "inventory"])
      PROVE  CodexInv'
  <2> DEFINE new == [at |-> "inventory"]
  <2>1. /\ DOMAIN new = {"at"} /\ new.at = "inventory" /\ Becomes(r, new)
        /\ DOMAIN new \subseteq Fields
    BY <1>3 DEF Fields
  <2> HIDE DEF new
  <2>2. run'[r].ended = run[r].ended
    <3>1. run'[r] = [f \in Fields |-> IF f \in DOMAIN new THEN new[f] ELSE run[r][f]]
      BY <2>1, BecomesSets DEF CodexInv
    <3> QED
      BY <2>1, <3>1 DEF Fields
  <2>3. "main" \notin running'[r]
    BY <1>3 DEF CodexInv, CodexTypes
  <2> QED
    BY <1>1, <1>2, <2>1, <2>2, <2>3, WorksKeeps
<1>4. CASE Becomes(r, [at |-> "clean", result |-> "failed"])
  BY <1>1, <1>2, <1>4, FailsKeeps DEF Creating
<1> QED
  BY <1>3, <1>4 DEF Stop, Fails

(* What the Candidate came to is reported of a container that has stopped. *)
LEMMA ExportKeeps == ASSUME CodexInv, NEW r \in Runs, Export(r) PROVE CodexInv'
<1>1. /\ run[r].at = "export" /\ UNCHANGED <<hostVars, labels, docker, running, late, dockerVars>>
      /\ run[r] \in RunStates /\ Alive(r) /\ Made(r) /\ Guarded(r) /\ Reports(r)
  BY DEF Export, At, dockerVars, Alive, CodexInv, CodexTypes, Own
<1>2. DockerMoves(r)
  BY <1>1 DEF CodexInv, CodexTypes, DockerMoves
<1>3. ASSUME NEW timedOut \in BOOLEAN,
             Becomes(r, [at |-> "clean", result |-> "failed", pending |-> run[r].pending \/ timedOut])
      PROVE  CodexInv'
  BY <1>1, <1>2, <1>3, MayTimeOutKeeps DEF Creating
<1>4. ASSUME NEW result \in {"failed", "exited", "timedOut"},
             result # "failed" => run[r].ended # "bad",
             Becomes(r, [at |-> "clean", stopped |-> "main" \notin running[r], result |-> result])
      PROVE  CodexInv'
  <2> DEFINE new == [at |-> "clean", stopped |-> "main" \notin running[r], result |-> result]
  <2>1. /\ DOMAIN new = {"at", "stopped", "result"} /\ new.at = "clean" /\ new.result = result
        /\ new.stopped = ("main" \notin running[r])
    OBVIOUS
  <2>2. Becomes(r, new) /\ DOMAIN new \subseteq Fields
    BY <1>4, <2>1 DEF Fields
  <2> HIDE DEF new
  <2>3. /\ \A q \in Runs : q # r => run'[q] = run[q]
        /\ run' = [q \in Runs |-> run'[q]]
        /\ run'[r] = [f \in Fields |-> IF f \in DOMAIN new THEN new[f] ELSE run[r][f]]
    BY <2>2, BecomesSets DEF CodexInv
  <2>4. /\ run'[r].at = "clean" /\ run'[r].result = result
        /\ run'[r].stopped = ("main" \notin running[r]) /\ run'[r].home = run[r].home
        /\ run'[r].zero = run[r].zero /\ run'[r].confirmed = run[r].confirmed
    BY <2>1, <2>3 DEF Fields
  <2>5. run'[r].stopped \in BOOLEAN
    BY <2>4
  <2>6. run'[r] \in RunStates
    BY <1>1, <2>1, <2>3, <2>4, <2>5 DEF Fields, RunStates, Ats
  <2>7. Made(r)' /\ Guarded(r)' /\ Sweeping(r)'
    BY <1>1, <2>4 DEF Made, Guarded, Sweeping, Creating, Cleaning
  <2>8. Reports(r)'
    BY <1>1, <1>4, <2>4 DEF Reports, Cleaning
  <2> QED
    BY <1>1, <1>2, <2>3, <2>4, <2>6, <2>7, <2>8, BecomesKeeps DEF Own
<1>5. CASE \/ Becomes(r, [at |-> "clean", stopped |-> "main" \notin running[r],
                    result |-> IF run[r].ended = "bad" THEN "failed" ELSE run[r].ended])
           \/ Becomes(r, [at |-> "clean", stopped |-> "main" \notin running[r], result |-> "failed"])
  <2>1. run[r].ended \in {"bad", "exited", "timedOut"}
    BY <1>1 DEF RunStates, Reports
  <2> QED
    BY <1>4, <1>5, <2>1
<1> QED
  BY <1>3, <1>5 DEF Export

(* The guard goes on cleaning up, whatever an iteration came to.           *)
LEMMA CleansKeeps ==
  ASSUME CodexInv, NEW r \in Runs, run[r].at \in Cleaning, UNCHANGED <<hostVars, labels>>,
         DockerShrinks,
         NEW new, DOMAIN new \subseteq {"at", "result", "attempt", "before", "zero", "spent"},
         "at" \in DOMAIN new, new.at \in Cleaning, Becomes(r, new),
         "result" \in DOMAIN new => new.result = "failed",
         "attempt" \in DOMAIN new => new.attempt \in {1, 2},
         "before" \in DOMAIN new => new.before \in BOOLEAN,
         "zero" \in DOMAIN new => new.zero \in {Nil, 0, run[r].zero},
         "spent" \in DOMAIN new => new.spent \in Nat
  PROVE  CodexInv'
<1>1. run[r] \in RunStates /\ Alive(r) /\ Made(r) /\ Guarded(r) /\ Reports(r)
  BY DEF Alive, Cleaning, CodexInv, CodexTypes, Own
<1>2. DOMAIN new \subseteq Fields
  BY DEF Fields
<1>3. /\ \A q \in Runs : q # r => run'[q] = run[q]
      /\ run' = [q \in Runs |-> run'[q]]
      /\ run'[r] = [f \in Fields |-> IF f \in DOMAIN new THEN new[f] ELSE run[r][f]]
  BY <1>2, BecomesSets DEF CodexInv
<1>4. /\ run'[r].at \in Cleaning /\ run'[r].home = run[r].home
      /\ run'[r].confirmed = run[r].confirmed /\ run'[r].pending = run[r].pending
      /\ run'[r].stopped = run[r].stopped
      /\ run'[r].result \in {run[r].result, "failed"}
      /\ run'[r].zero \in {Nil, 0, run[r].zero}
  BY <1>3 DEF Fields
<1>5. /\ run'[r].result \in {"none", "failed", "exited", "timedOut"} /\ run'[r].at \in Ats
      /\ run'[r].attempt \in {1, 2} /\ run'[r].before \in BOOLEAN
      /\ run'[r].zero \in Nat \cup {Nil} /\ run'[r].spent \in Nat
  BY <1>1, <1>3, <1>4 DEF Fields, RunStates, Ats, Cleaning
<1>6. run'[r] \in RunStates
  BY <1>1, <1>3, <1>5 DEF Fields, RunStates
<1>7. /\ late' = late /\ docker'[r] \subseteq docker[r]
      /\ late[r] \in [what : Resources, age : Nat] \cup {Nil}
  BY DEF DockerShrinks, CodexInv, CodexTypes
<1>8. Made(r)' /\ Sweeping(r)'
  BY <1>1, <1>4, <1>7 DEF Made, Sweeping, Creating, Cleaning
<1>9. Guarded(r)'
  BY <1>1, <1>4, <1>7 DEF Guarded, Creating, Cleaning
<1>10. Reports(r)'
  BY <1>1, <1>4 DEF Reports, Cleaning
<1>11. DockerMoves(r)
  BY ShrinkMoves DEF CodexInv
<1>12. run'[r].at \notin {"start", "gone"}
  BY <1>4 DEF Cleaning
<1> QED
  BY <1>1, <1>3, <1>6, <1>8, <1>9, <1>10, <1>11, <1>12, BecomesKeeps DEF Own

LEMMA GivesUpKeeps ==
  ASSUME CodexInv, NEW r \in Runs, run[r].at \in Cleaning, UNCHANGED <<hostVars, labels>>,
         DockerShrinks, GivesUp(r)
  PROVE  CodexInv'
<1> DEFINE new == [at |-> "clean", result |-> "failed", attempt |-> 2, zero |-> Nil, spent |-> 0]
<1>1. Alive(r) /\ run[r].home \in {"none", "kept", "removed"} /\ run[r].home # "removed"
  BY DEF Alive, Cleaning, CodexInv, CodexTypes, RunStates, Own, Guarded
<1>2. CASE Becomes(r, new)
  <2>1. /\ DOMAIN new = {"at", "result", "attempt", "zero", "spent"}
        /\ new.at \in Cleaning /\ new.result = "failed" /\ new.attempt \in {1, 2}
        /\ new.zero = Nil /\ new.spent \in Nat
    BY DEF Cleaning
  <2> HIDE DEF new
  <2> QED
    BY <1>2, <2>1, CleansKeeps
<1>3. CASE Ends(r, "failed", run[r].home)
  BY <1>1, <1>3, EndsKeeps
<1> QED
  BY <1>2, <1>3 DEF GivesUp

LEMMA AgainKeeps ==
  ASSUME CodexInv, NEW r \in Runs, run[r].at \in Cleaning, UNCHANGED <<hostVars, labels>>,
         DockerShrinks, Again(r)
  PROVE  CodexInv'
<1> DEFINE new == [at |-> "clean", zero |-> Nil]
<1>1. CASE Becomes(r, new)
  BY <1>1, CleansKeeps DEF Cleaning
<1> QED
  BY <1>1, GivesUpKeeps DEF Again

(* The guard finishes when nothing is there and nothing can come back.     *)
LEMMA ConfirmedKeeps ==
  ASSUME CodexInv, NEW r \in Runs, run[r].at \in Cleaning, UNCHANGED <<hostVars, labels>>,
         DockerShrinks, docker'[r] = {}, late[r] = Nil, Confirmed(r)
  PROVE  CodexInv'
<1> DEFINE new == [at |-> "home", confirmed |-> TRUE]
<1>1. run[r] \in RunStates /\ Alive(r) /\ Reports(r)
  BY DEF Alive, Cleaning, CodexInv, CodexTypes, Own
<1>2. DOMAIN new \subseteq Fields /\ Becomes(r, new)
  BY DEF Fields, Confirmed
<1>3. /\ \A q \in Runs : q # r => run'[q] = run[q]
      /\ run' = [q \in Runs |-> run'[q]]
      /\ run'[r] = [f \in Fields |-> IF f \in DOMAIN new THEN new[f] ELSE run[r][f]]
  BY <1>2, BecomesSets DEF CodexInv
<1>4. /\ run'[r].at = "home" /\ run'[r].confirmed = TRUE /\ run'[r].result = run[r].result
      /\ run'[r].stopped = run[r].stopped
  BY <1>3 DEF Fields
<1>5. run'[r] \in RunStates
  <2>1. DOMAIN new = {"at", "confirmed"} /\ new.at = "home" /\ new.confirmed = TRUE
    OBVIOUS
  <2>2. run'[r].confirmed \in BOOLEAN
    BY <1>4
  <2> HIDE DEF new
  <2> QED
    BY <1>1, <1>3, <1>4, <2>1, <2>2 DEF Fields, RunStates, Ats
<1>6. late'[r] = Nil
  BY DEF DockerShrinks
<1>7. Made(r)' /\ Guarded(r)' /\ Reports(r)' /\ Sweeping(r)'
  BY <1>1, <1>4, <1>6 DEF Made, Guarded, Reports, Sweeping, Creating, Cleaning
<1>8. DockerMoves(r)
  BY ShrinkMoves DEF CodexInv
<1> QED
  BY <1>1, <1>3, <1>4, <1>5, <1>7, <1>8, BecomesKeeps DEF Own

LEMMA PassKeeps == ASSUME CodexInv, NEW r \in Runs, Pass(r) PROVE CodexInv'
<1>1. /\ run[r].at = "clean" /\ run[r].at \in Cleaning /\ UNCHANGED <<hostVars, labels>>
      /\ Removes(r, Resources) /\ Guarded(r) /\ ~run[r].pending
  BY DEF Pass, At, Cleaning, CodexInv, Own
<1>2. DockerShrinks /\ late[r] = Nil
  BY <1>1, DockerRemoves DEF CodexInv, Guarded
<1>3. CASE docker'[r] = {} /\ Confirmed(r)
  BY <1>1, <1>2, <1>3, ConfirmedKeeps
<1>4. CASE Again(r)
  BY <1>1, <1>2, <1>4, AgainKeeps
<1> QED
  BY <1>3, <1>4 DEF Pass

LEMMA LookKeeps == ASSUME CodexInv, NEW r \in Runs, Look(r) PROVE CodexInv'
<1>1. PICK answered \in BOOLEAN :
        Becomes(r, [at |-> "remove", before |-> answered /\ docker[r] = {}])
  BY DEF Look
<1> DEFINE new == [at |-> "remove", before |-> answered /\ docker[r] = {}]
<1>2. /\ run[r].at \in Cleaning /\ UNCHANGED <<hostVars, labels, dockerVars>>
      /\ DOMAIN new = {"at", "before"} /\ new.at \in Cleaning /\ new.before \in BOOLEAN
  BY DEF Look, At, Cleaning
<1>3. DockerShrinks /\ Becomes(r, new)
  BY <1>1, <1>2, DockerStill DEF CodexInv
<1> HIDE DEF new
<1> QED
  BY <1>2, <1>3, CleansKeeps

LEMMA RemoveKeeps == ASSUME CodexInv, NEW r \in Runs, Remove(r) PROVE CodexInv'
<1>1. run[r].at \in Cleaning /\ UNCHANGED <<hostVars, labels>> /\ Removes(r, Resources)
  BY DEF Remove, At, Cleaning
<1>2. DockerShrinks
  BY <1>1, DockerRemoves DEF CodexInv
<1>3. CASE Becomes(r, [at |-> "observe"])
  BY <1>1, <1>2, <1>3, CleansKeeps DEF Cleaning
<1>4. CASE Again(r)
  BY <1>1, <1>2, <1>4, AgainKeeps
<1> QED
  BY <1>3, <1>4 DEF Remove

(* A window without resources outlasts every creation that was given up    *)
(* on: it opened after the request, and is longer than the daemon's delay. *)
LEMMA ObserveKeeps == ASSUME CodexInv, NEW r \in Runs, Observe(r) PROVE CodexInv'
<1> DEFINE since == IF run[r].zero = Nil THEN 0 ELSE run[r].zero
<1>1. /\ run[r].at \in Cleaning /\ UNCHANGED <<hostVars, labels, dockerVars>>
      /\ Guarded(r) /\ Made(r) /\ docker' = docker
  BY DEF Observe, At, Cleaning, CodexInv, Own, dockerVars
<1>2. DockerShrinks
  BY <1>1, DockerStill DEF CodexInv
<1>3. since >= Window => late[r] = Nil
  <2>1. late[r] \in [what : Resources, age : Nat] \cup {Nil} /\ run[r].zero \in Nat \cup {Nil}
    BY DEF CodexInv, CodexTypes, RunStates
  <2> QED
    BY <1>1, <2>1, TimesAreNat, DaemonIsPrompt DEF Guarded, Made
<1>4. ASSUME docker[r] = {}, since >= Window, Confirmed(r) PROVE CodexInv'
  BY <1>1, <1>2, <1>3, <1>4, ConfirmedKeeps
<1>5. CASE Becomes(r, [at |-> "clean", zero |-> since])
  <2> DEFINE new == [at |-> "clean", zero |-> since]
  <2>1. /\ DOMAIN new = {"at", "zero"} /\ new.at \in Cleaning
        /\ new.zero \in {Nil, 0, run[r].zero} /\ Becomes(r, new)
    BY <1>5 DEF Cleaning
  <2> HIDE DEF new
  <2> QED
    BY <1>1, <1>2, <2>1, CleansKeeps
<1>6. CASE Again(r)
  BY <1>1, <1>2, <1>6, AgainKeeps
<1> QED
  BY <1>4, <1>5, <1>6 DEF Observe

LEMMA RemoveHomeKeeps == ASSUME CodexInv, NEW r \in Runs, RemoveHome(r) PROVE CodexInv'
<1> DEFINE new == [at |-> "homeAgain", result |-> "failed"]
<1>1. /\ run[r].at \in {"home", "homeAgain"} /\ UNCHANGED <<hostVars, labels, dockerVars>>
      /\ Alive(r) /\ run[r] \in RunStates /\ Guarded(r) /\ Reports(r)
  BY DEF RemoveHome, At, Alive, CodexInv, CodexTypes, Own
<1>2. DockerShrinks /\ DockerMoves(r) /\ docker' = docker /\ late' = late
  BY <1>1, DockerStill, ShrinkMoves DEF CodexInv, dockerVars
<1>3. CASE Becomes(r, new)
  <2>1. DOMAIN new \subseteq Fields
    BY DEF Fields
  <2>2. /\ \A q \in Runs : q # r => run'[q] = run[q]
        /\ run' = [q \in Runs |-> run'[q]]
        /\ run'[r] = [f \in Fields |-> IF f \in DOMAIN new THEN new[f] ELSE run[r][f]]
    BY <1>3, <2>1, BecomesSets DEF CodexInv
  <2>3. /\ run'[r].at = "homeAgain" /\ run'[r].result = "failed" /\ run'[r].home = run[r].home
        /\ run'[r].confirmed = run[r].confirmed
    BY <2>2 DEF Fields
  <2>4. run'[r] \in RunStates
    BY <1>1, <2>2 DEF Fields, RunStates, Ats
  <2>5. Made(r)' /\ Guarded(r)' /\ Reports(r)' /\ Sweeping(r)'
    BY <1>1, <1>2, <2>3 DEF Made, Guarded, Reports, Sweeping, Creating, Cleaning
  <2> QED
    BY <1>1, <1>2, <2>2, <2>3, <2>4, <2>5, BecomesKeeps DEF Own
<1>4. CASE Ends(r, "failed", run[r].home)
  BY <1>1, <1>2, <1>4, EndsKeeps DEF RunStates, Guarded
<1>5. CASE Ends(r, run[r].result, "removed")
  <2>1. /\ run[r].result \in {"failed", "exited", "timedOut"} /\ run[r].confirmed
        /\ run[r].result # "failed" => run[r].stopped
    BY <1>1 DEF RunStates, Guarded, Reports
  <2> QED
    BY <1>1, <1>2, <1>5, <2>1, EndsKeeps
<1> QED
  BY <1>3, <1>4, <1>5 DEF RemoveHome

LEMMA ProceedKeeps == ASSUME CodexInv, NEW r \in Runs, Proceed(r) PROVE CodexInv'
  BY DiscoverKeeps, SweepKeeps, StageHomeKeeps, CreateKeeps, CreateFailsKeeps,
     CreateTimesOutKeeps, SettleKeeps, CopyKeeps, JoinKeeps, SidecarKeeps, AttachKeeps,
     DetachKeeps, StopKeeps, ExportKeeps, PassKeeps, LookKeeps, RemoveKeeps, ObserveKeeps,
     RemoveHomeKeeps DEF Proceed

-----------------------------------------------------------------------------
(* A new process gets a pid that no live run has, and a start time that no *)
(* run of this boot had.                                                   *)
LEMMA BeginKeeps == ASSUME CodexInv, NEW r \in Runs, Begin(r) PROVE CodexInv'
<1> DEFINE new == [at |-> "discover"]
<1>1. PICK p \in Pids :
        /\ run[r].at = "start" /\ proc[p] = 0 /\ started' = started + 1
        /\ proc' = [proc EXCEPT ![p] = started + 1]
        /\ labels' = [labels EXCEPT ![r] = [boot |-> boot, pid |-> p, start |-> started + 1]]
        /\ Becomes(r, new)
        /\ UNCHANGED <<boot, docker, running, late>>
  BY DEF Begin, At, dockerVars
<1>2. DOMAIN new \subseteq Fields
  BY DEF Fields
<1>3. /\ \A q \in Runs : q # r => run'[q] = run[q]
      /\ run' = [q \in Runs |-> run'[q]]
      /\ run'[r] = [f \in Fields |-> IF f \in DOMAIN new THEN new[f] ELSE run[r][f]]
  BY <1>1, <1>2, BecomesSets DEF CodexInv
<1>4. run[r] \in RunStates /\ run[r] = NewRun /\ docker[r] = {} /\ late[r] = Nil
  BY <1>1 DEF CodexInv, CodexTypes, Own, Made
<1>5. /\ run'[r].at = "discover" /\ run'[r].next = 1 /\ run'[r].zero = Nil
      /\ run'[r].confirmed = FALSE /\ run'[r].home = "none"
  BY <1>3, <1>4 DEF Fields, NewRun
<1>6. run'[r] \in RunStates
  BY <1>3, <1>4 DEF Fields, RunStates, Ats
<1>7. CodexTypes'
  <2>1. boot \in Nat /\ started \in Nat /\ [boot |-> boot, pid |-> p, start |-> started + 1] \in Labels
    BY DEF CodexInv, CodexTypes, Labels
  <2>2. run' \in [Runs -> RunStates]
    BY <1>3, <1>6 DEF CodexInv, CodexTypes
  <2>3. /\ boot' \in Nat /\ started' \in Nat /\ proc' \in [Pids -> Nat]
        /\ labels' \in [Runs -> Labels \cup {Nil}]
    BY <1>1, <2>1 DEF CodexInv, CodexTypes
  <2> QED
    BY <1>1, <2>2, <2>3 DEF CodexInv, CodexTypes
<1>8. /\ \A q \in Runs : q # r => (Alive(q)' <=> Alive(q)) /\ labels'[q] = labels[q]
      /\ labels'[r] = [boot |-> boot, pid |-> p, start |-> started + 1]
      /\ proc'[p] = started + 1 /\ \A o \in Pids : o # p => proc'[o] = proc[o]
      /\ started \in Nat /\ boot' = boot
  BY <1>1, <1>3 DEF CodexInv, CodexTypes, Alive
<1>9. ASSUME NEW q \in Runs, Alive(q) PROVE labels[q] \in Labels /\ labels[q].pid # p
  BY <1>1, <1>9 DEF CodexInv, Named, Active, Alive, Labels
<1>10. PidsDiffer'
  <2>1. \A o \in Pids : proc'[o] <= started'
    BY <1>1, <1>8 DEF CodexInv, CodexTypes, PidsDiffer
  <2>2. \A q \in Runs : q # r /\ Alive(q)' => labels'[q].pid # labels'[r].pid
    BY <1>8, <1>9
  <2>3. \A q, o \in Runs : q # r /\ o # r /\ q # o /\ Alive(q)' /\ Alive(o)' =>
                            labels'[q].pid # labels'[o].pid
    BY <1>8 DEF CodexInv, PidsDiffer
  <2> QED
    BY <2>1, <2>2, <2>3 DEF PidsDiffer
<1>11. Named(r)'
  BY <1>1, <1>5, <1>8 DEF Named, Alive, Active, Labels, CodexInv, CodexTypes
<1>12. ASSUME NEW q \in Runs, q # r PROVE Named(q)'
  <2>1. run'[q] = run[q] /\ labels'[q] = labels[q] /\ Named(q)
    BY <1>3, <1>8, <1>12 DEF CodexInv
  <2>2. CASE Alive(q)
    BY <1>1, <1>8, <1>9, <1>12, <2>1, <2>2 DEF Named, Active, Alive, Labels
  <2>3. CASE run[q].at = "gone"
    BY <1>1, <1>8, <2>1, <2>3 DEF Named, Active, Alive, Labels
  <2>4. CASE run[q].at = "start"
    BY <2>1, <2>4 DEF Named, Alive
  <2> QED
    BY <2>2, <2>3, <2>4 DEF Alive
<1>13. Own(r)'
  BY <1>1, <1>4, <1>5 DEF Own, Made, Guarded, Reports, Sweeping, Creating, Cleaning
<1>14. ASSUME NEW q \in Runs, q # r PROVE Own(q)'
  <2>1. run'[q] = run[q] /\ late'[q] = late[q] /\ docker' = docker /\ running' = running
    BY <1>1, <1>3, <1>14
  <2>2. Made(q)' /\ Guarded(q)' /\ Reports(q)'
    BY <2>1, <1>14 DEF CodexInv, Own, Made, Guarded, Reports
  <2>3. Sweeping(q)'
    <3>1. Sweeping(q) /\ (\A o \in run[q].dead : o \in Runs) /\ run[q].dead = run'[q].dead
      BY <2>1, <1>14 DEF CodexInv, CodexTypes, RunStates, Own
    <3> QED
      BY <1>1, <1>3, <2>1, <3>1 DEF Sweeping
  <2> QED
    BY <2>2, <2>3 DEF Own
<1> QED
  BY <1>7, <1>10, <1>11, <1>12, <1>13, <1>14 DEF CodexInv

LEMMA LeftIs ==
  ASSUME CodexTypes, NEW r \in Runs
  PROVE  /\ Left(r) \in RunStates /\ Left(r).at = "gone" /\ Left(r).zero = Nil
         /\ Left(r).home = run[r].home /\ Left(r).confirmed = run[r].confirmed
<1>1. NewRun.seen \in [Runs -> SUBSET Resources]
  BY DEF NewRun
<1>2. run[r].home \in {"none", "kept", "removed"} /\ run[r].confirmed \in BOOLEAN
  BY DEF CodexTypes, RunStates
<1> QED
  BY <1>1, <1>2 DEF Left, NewRun, RunStates, Ats

(* What a process leaves behind, a sweep may take for a dead run's.        *)
LEMMA GoneKeeps == ASSUME CodexInv, NEW r \in Runs, Alive(r), Gone(r) PROVE CodexInv'
<1> DEFINE p == labels[r].pid
<1>1. /\ proc' = [proc EXCEPT ![p] = 0] /\ run' = [run EXCEPT ![r] = Left(r)]
      /\ UNCHANGED <<boot, started, labels, docker, running, late>>
      /\ labels[r] \in Labels /\ p \in Pids
  BY DEF Gone, dockerVars, CodexInv, Named, Alive, Labels
<1>2. /\ run'[r].at = "gone" /\ run'[r].zero = Nil /\ run'[r].home = run[r].home
      /\ run'[r].confirmed = run[r].confirmed /\ run'[r] \in RunStates
      /\ \A q \in Runs : q # r => run'[q] = run[q]
  BY <1>1, LeftIs DEF CodexInv, CodexTypes
<1>3. CodexTypes'
  BY <1>1, <1>2 DEF CodexInv, CodexTypes
<1>4. /\ ~Alive(r)' /\ \A q \in Runs : q # r => (Alive(q)' <=> Alive(q))
      /\ proc'[p] = 0 /\ \A o \in Pids : o # p => proc'[o] = proc[o]
  BY <1>1, <1>2 DEF CodexInv, CodexTypes, Alive
<1> HIDE DEF p
<1>5. PidsDiffer'
  BY <1>1, <1>4 DEF CodexInv, CodexTypes, PidsDiffer
<1>6. ASSUME NEW q \in Runs PROVE Named(q)'
  <2>1. Named(q) /\ labels' = labels /\ boot' = boot /\ started' = started
    BY <1>1 DEF CodexInv
  <2>2. CASE q = r
    BY <1>1, <1>2, <1>4, <2>1, <2>2 DEF Named, Active, Alive, Labels, p
  <2>3. CASE q # r /\ Alive(q)
    <3>1. labels[q].pid # p /\ labels[q] \in Labels
      BY <2>1, <2>3 DEF CodexInv, PidsDiffer, p, Named, Alive
    <3> QED
      BY <1>2, <1>4, <2>1, <2>3, <3>1 DEF Named, Active, Alive, Labels
  <2>4. CASE q # r /\ run[q].at = "gone"
    BY <1>2, <1>4, <2>1, <2>4 DEF Named, Active, Alive, Labels
  <2>5. CASE q # r /\ run[q].at = "start"
    BY <1>2, <2>1, <2>5 DEF Named, Alive
  <2> QED
    BY <2>2, <2>3, <2>4, <2>5 DEF Alive
<1>7. ASSUME NEW q \in Runs PROVE Own(q)'
  <2>1. /\ docker' = docker /\ running' = running /\ late' = late /\ Own(q)
        /\ \A o \in run[q].dead : o \in Runs
    BY <1>1 DEF CodexInv, CodexTypes, RunStates
  <2>2. CASE q = r
    BY <1>2, <2>1, <2>2 DEF Own, Made, Guarded, Reports, Sweeping, Creating, Cleaning
  <2>3. CASE q # r
    <3>1. run'[q] = run[q]
      BY <1>2, <2>3
    <3>2. Made(q)' /\ Guarded(q)' /\ Reports(q)'
      BY <2>1, <3>1 DEF Own, Made, Guarded, Reports
    <3>3. Sweeping(q)'
      BY <1>2, <2>1, <3>1 DEF Own, Sweeping
    <3> QED
      BY <3>2, <3>3 DEF Own
  <2> QED
    BY <2>2, <2>3
<1> QED
  BY <1>3, <1>5, <1>6, <1>7 DEF CodexInv

(* A reboot ends every process, and abandoned requests with them.          *)
LEMMA RebootKeeps == ASSUME CodexInv, Reboot PROVE CodexInv'
<1>1. /\ boot' = boot + 1 /\ boot \in Nat /\ started' = 0 /\ proc' = [p \in Pids |-> 0]
      /\ running' = [r \in Runs |-> {}] /\ late' = [r \in Runs |-> Nil]
      /\ run' = [r \in Runs |-> IF Alive(r) THEN Left(r) ELSE run[r]]
      /\ labels' = labels /\ docker' = docker
  BY DEF Reboot, CodexInv, CodexTypes
<1>2. ASSUME NEW r \in Runs
      PROVE  /\ run'[r] \in RunStates /\ run'[r].at \in {"start", "gone"}
             /\ run'[r].at = "start" => run[r].at = "start" /\ run'[r] = run[r]
             /\ run'[r].home = run[r].home /\ run'[r].confirmed = run[r].confirmed
             /\ late'[r] = Nil
  BY <1>1, LeftIs DEF CodexInv, CodexTypes, Alive
<1>3. CodexTypes'
  BY <1>1, <1>2 DEF CodexInv, CodexTypes
<1>4. PidsDiffer'
  BY <1>1, <1>2 DEF PidsDiffer, Alive
<1>5. ASSUME NEW r \in Runs PROVE Named(r)'
  <2>1. run[r].at # "start" => labels[r] \in Labels /\ labels[r].boot \in Nat /\ labels[r].boot <= boot
    BY DEF CodexInv, Named, Labels
  <2>2. run[r].at # "start" => labels'[r].boot # boot'
    BY <1>1, <2>1
  <2> QED
    BY <1>1, <1>2, <2>1, <2>2 DEF Named, Active, Alive
<1>6. ASSUME NEW r \in Runs PROVE Own(r)'
  <2>1. Made(r) /\ Guarded(r)
    BY DEF CodexInv, Own
  <2> QED
    BY <1>1, <1>2, <2>1 DEF Own, Made, Guarded, Reports, Sweeping, Creating, Cleaning
<1> QED
  BY <1>3, <1>4, <1>5, <1>6 DEF CodexInv

(* Nothing but Docker moves: who the runs are stays.                       *)
LEMMA StillNamed ==
  ASSUME CodexInv, UNCHANGED <<hostVars, labels>>, \A r \in Runs : run'[r].at = run[r].at
  PROVE  PidsDiffer' /\ \A r \in Runs : Named(r)'
<1>1. \A r \in Runs : Alive(r)' <=> Alive(r)
  BY DEF Alive
<1>2. PidsDiffer'
  BY <1>1 DEF CodexInv, PidsDiffer, hostVars
<1>3. \A r \in Runs : Named(r)'
  BY <1>1 DEF CodexInv, Named, Active, hostVars
<1> QED
  BY <1>2, <1>3

(* What an abandoned request makes, no sweep has seen and no guard has     *)
(* confirmed to be gone.                                                   *)
LEMMA LandsKeeps == ASSUME CodexInv, NEW r \in Runs, Lands(r) PROVE CodexInv'
<1>1. /\ UNCHANGED <<hostVars, labels, running, run>> /\ late[r] # Nil
      /\ late' = [late EXCEPT ![r] = Nil]
      /\ docker' = docker \/ docker' = [docker EXCEPT ![r] = @ \cup {late[r].what}]
      /\ late[r].what \in Resources
  BY DEF Lands, CodexInv, CodexTypes
<1>2. /\ late'[r] = Nil /\ docker'[r] \subseteq docker[r] \cup {late[r].what}
      /\ \A q \in Runs : q # r => late'[q] = late[q] /\ docker'[q] = docker[q]
  BY <1>1 DEF CodexInv, CodexTypes
<1>3. CodexTypes'
  BY <1>1 DEF CodexInv, CodexTypes, hostVars
<1>4. PidsDiffer' /\ \A q \in Runs : Named(q)'
  BY <1>1, StillNamed
<1>5. ASSUME NEW q \in Runs PROVE Made(q)' /\ Guarded(q)' /\ Reports(q)'
  <2>1. Made(q) /\ Guarded(q) /\ Reports(q) /\ run' = run /\ running' = running
    BY <1>1 DEF CodexInv, Own
  <2>2. CASE q = r
    BY <1>1, <1>2, <2>1, <2>2 DEF Made, Guarded, Reports, Creating, Cleaning
  <2>3. CASE q # r
    BY <1>2, <2>1, <2>3 DEF Made, Guarded, Reports
  <2> QED
    BY <2>2, <2>3
<1>6. ASSUME NEW q \in Runs PROVE Sweeping(q)'
  <2>1. ASSUME run[q].at = "sweep", NEW p \in run[q].dead
        PROVE  /\ run[q].seen[p] # {} => run[p].at = "gone"
               /\ late'[p] # Nil => late'[p].what \notin run[q].seen[p]
               /\ p \notin run[q].left => run[q].seen[p] \cap docker'[p] = {}
    <3>1. p \in Runs
      BY <2>1 DEF CodexInv, CodexTypes, RunStates
    <3>2. /\ run[q].seen[p] # {} => run[p].at = "gone"
          /\ late[p] # Nil => late[p].what \notin run[q].seen[p]
          /\ p \notin run[q].left => run[q].seen[p] \cap docker[p] = {}
      BY <2>1 DEF CodexInv, Own, Sweeping
    <3> QED
      BY <1>1, <1>2, <3>1, <3>2
  <2> QED
    BY <1>1, <2>1 DEF Sweeping
<1> QED
  BY <1>3, <1>4, <1>5, <1>6 DEF CodexInv, Own

LEMMA StopsKeeps == ASSUME CodexInv, NEW r \in Runs, Stops(r) PROVE CodexInv'
<1>1. UNCHANGED <<hostVars, labels, docker, late, run>>
  BY DEF Stops
<1>2. /\ running' \in [Runs -> SUBSET Containers]
      /\ \A q \in Runs : running'[q] \subseteq running[q]
  BY DEF Stops, CodexInv, CodexTypes
<1>3. PidsDiffer' /\ \A q \in Runs : Named(q)'
  BY <1>1, StillNamed
<1>4. CodexTypes'
  BY <1>1, <1>2 DEF CodexInv, CodexTypes, hostVars
<1>5. ASSUME NEW q \in Runs PROVE Own(q)'
  BY <1>1, <1>2 DEF CodexInv, Own, Made, Guarded, Reports, Sweeping
<1> QED
  BY <1>3, <1>4, <1>5 DEF CodexInv

(* A guard's window and the abandoned request age alike.                   *)
LEMMA TickKeeps == ASSUME CodexInv, Tick PROVE CodexInv'
<1>1. /\ UNCHANGED <<hostVars, labels, docker, running>>
      /\ \A r \in Runs : late[r] # Nil => late[r].age < LateBy
      /\ late' = [r \in Runs |-> IF late[r] = Nil THEN Nil ELSE [late[r] EXCEPT !.age = @ + 1]]
      /\ run' = [r \in Runs |->
           IF run[r].at \in Cleaning
           THEN [run[r] EXCEPT !.spent = Older(@, Patience),
                               !.zero = IF @ = Nil THEN Nil ELSE Older(@, Window)]
           ELSE run[r]]
  BY DEF Tick
<1>2. ASSUME NEW r \in Runs
      PROVE  /\ late'[r] \in [what : Resources, age : Nat] \cup {Nil}
             /\ late[r] = Nil => late'[r] = Nil
             /\ late'[r] # Nil => /\ late[r] \in [what : Resources, age : Nat]
                                  /\ late'[r].what = late[r].what
                                  /\ late'[r].age = late[r].age + 1
                                  /\ late[r].age < LateBy
  <2>1. late[r] \in [what : Resources, age : Nat] \cup {Nil}
    BY DEF CodexInv, CodexTypes
  <2>2. late'[r] = IF late[r] = Nil THEN Nil ELSE [late[r] EXCEPT !.age = @ + 1]
    BY <1>1
  <2>3. CASE late[r] = Nil
    BY <2>2, <2>3
  <2>4. CASE late[r] # Nil
    <3>1. late[r] \in [what : Resources, age : Nat] /\ late[r].age < LateBy
      BY <1>1, <2>1, <2>4
    <3> QED
      BY <2>2, <2>4, <3>1
  <2> QED
    BY <2>3, <2>4
<1>3. ASSUME NEW r \in Runs
      PROVE  /\ run'[r] \in RunStates
             /\ run'[r].at = run[r].at /\ run'[r].next = run[r].next /\ run'[r].seen = run[r].seen
             /\ run'[r].left = run[r].left /\ run'[r].dead = run[r].dead
             /\ run'[r].home = run[r].home /\ run'[r].pending = run[r].pending
             /\ run'[r].confirmed = run[r].confirmed /\ run'[r].result = run[r].result
             /\ run'[r].ended = run[r].ended /\ run'[r].stopped = run[r].stopped
             /\ run[r].at \notin Cleaning => run'[r] = run[r]
             /\ run'[r].zero # Nil => /\ run[r].zero \in Nat /\ run[r].zero # Nil
                                      /\ run'[r].zero <= run[r].zero + 1
  <2>1. run[r] \in RunStates /\ Window \in Nat /\ Patience \in Nat
    BY TimesAreNat DEF CodexInv, CodexTypes
  <2>2. run[r].zero \in Nat \cup {Nil} /\ run[r].spent \in Nat
    BY <2>1 DEF RunStates
  <2>3. CASE run[r].at \in Cleaning
    <3> DEFINE spent == Older(run[r].spent, Patience)
               zero == IF run[r].zero = Nil THEN Nil ELSE Older(run[r].zero, Window)
    <3>1. /\ spent \in Nat /\ zero \in Nat \cup {Nil}
          /\ zero # Nil => run[r].zero \in Nat /\ run[r].zero # Nil /\ zero <= run[r].zero + 1
      BY <2>1, <2>2 DEF Older
    <3>2. run'[r] = [run[r] EXCEPT !.spent = spent, !.zero = zero]
      BY <1>1, <2>3
    <3> HIDE DEF spent, zero
    <3> QED
      BY <2>1, <2>3, <3>1, <3>2 DEF RunStates
  <2>4. CASE run[r].at \notin Cleaning
    <3>1. run'[r] = run[r]
      BY <1>1, <2>4
    <3>2. run'[r].zero # Nil => /\ run[r].zero \in Nat /\ run[r].zero # Nil
                                /\ run'[r].zero <= run[r].zero + 1
      BY <2>2, <3>1
    <3> QED
      BY <2>1, <3>1, <3>2
  <2> QED
    BY <2>3, <2>4
<1>4. CodexTypes'
  BY <1>1, <1>2, <1>3 DEF CodexInv, CodexTypes, hostVars
<1>5. PidsDiffer' /\ \A r \in Runs : Named(r)'
  BY <1>1, <1>3, StillNamed
<1>6. ASSUME NEW r \in Runs PROVE Own(r)'
  <2>1. Made(r) /\ Guarded(r) /\ Reports(r) /\ Sweeping(r) /\ docker' = docker /\ running' = running
    BY <1>1 DEF CodexInv, Own
  <2>2. Made(r)'
    BY <1>2, <1>3, <2>1, TimesAreNat DEF Made, Creating, Cleaning
  <2>3. Guarded(r)'
    <3>1. late'[r] # Nil /\ run'[r].zero # Nil => run'[r].zero <= late'[r].age
      <4>1. ASSUME late'[r] # Nil, run'[r].zero # Nil
            PROVE  run'[r].zero <= late'[r].age
        <5>1. /\ late[r].age \in Nat /\ late'[r].age = late[r].age + 1 /\ late[r] # Nil
              /\ run[r].zero \in Nat /\ run[r].zero # Nil /\ run'[r].zero <= run[r].zero + 1
              /\ run'[r].zero \in Nat
          BY <1>2, <1>3, <4>1 DEF RunStates
        <5>2. run[r].zero <= late[r].age
          BY <2>1, <5>1 DEF Guarded
        <5> QED
          BY <5>1, <5>2
      <4> QED
        BY <4>1
    <3>2. /\ run[r].at \in Creating \cup {"settle"} => run'[r].zero = Nil
          /\ late'[r] # Nil => late[r] # Nil
          /\ late[r] = Nil => late'[r] = Nil
      BY <1>2, <1>3, <2>1 DEF Guarded, Creating, Cleaning
    <3> QED
      BY <1>3, <2>1, <3>1, <3>2 DEF Guarded
  <2>4. Reports(r)'
    BY <1>3, <2>1 DEF Reports
  <2>5. Sweeping(r)'
    <3>1. \A q \in run[r].dead : q \in Runs
      BY DEF CodexInv, CodexTypes, RunStates
    <3> QED
      BY <1>2, <1>3, <2>1, <3>1 DEF Sweeping
  <2> QED
    BY <2>2, <2>3, <2>4, <2>5 DEF Own
<1> QED
  BY <1>4, <1>5, <1>6 DEF CodexInv

-----------------------------------------------------------------------------
LEMMA CodexInit == Init => CodexInv
<1> SUFFICES ASSUME Init PROVE CodexInv
  OBVIOUS
<1>1. NewRun \in RunStates
  <2>1. NewRun.seen \in [Runs -> SUBSET Resources]
    BY DEF NewRun
  <2> QED
    BY <2>1 DEF NewRun, RunStates, Ats
<1>2. CodexTypes
  BY <1>1 DEF Init, CodexTypes
<1>3. \A r \in Runs : run[r] = NewRun /\ run[r].at = "start" /\ ~Alive(r)
  BY DEF Init, Alive, NewRun
<1>4. PidsDiffer /\ \A r \in Runs : Named(r)
  BY <1>3 DEF Init, PidsDiffer, Named
<1>5. NewRun.home = "none" /\ NewRun.confirmed = FALSE
  BY DEF NewRun
<1>6. \A r \in Runs : Own(r)
  BY <1>3, <1>5 DEF Init, Own, Made, Guarded, Reports, Sweeping, Creating, Cleaning
<1> QED
  BY <1>2, <1>4, <1>6 DEF CodexInv

LEMMA CodexStep == ASSUME CodexInv, [Next]_vars PROVE CodexInv'
<1>1. ASSUME NEW r \in Runs,
             Begin(r) \/ Proceed(r) \/ Exit(r) \/ Kill(r) \/ Lands(r) \/ Stops(r)
      PROVE  CodexInv'
  <2>1. CASE Begin(r)
    BY <2>1, BeginKeeps
  <2>2. CASE Proceed(r)
    BY <2>2, ProceedKeeps
  <2>3. CASE Exit(r) \/ Kill(r)
    BY <2>3, GoneKeeps DEF Exit, Kill, At, Alive
  <2>4. CASE Lands(r)
    BY <2>4, LandsKeeps
  <2>5. CASE Stops(r)
    BY <2>5, StopsKeeps
  <2> QED
    BY <1>1, <2>1, <2>2, <2>3, <2>4, <2>5
<1>2. CASE UNCHANGED vars
  BY <1>2 DEF vars, hostVars, dockerVars, CodexInv, CodexTypes, PidsDiffer, Named, Alive, Active,
              Own, Made, Guarded, Reports, Sweeping
<1> QED
  BY <1>1, <1>2, RebootKeeps, TickKeeps DEF Next, Finished

LEMMA CodexIsInv == Spec => []CodexInv
<1>1. Init => CodexInv
  BY CodexInit
<1>2. CodexInv /\ [Next]_vars => CodexInv'
  BY CodexStep
<1> QED
  BY <1>1, <1>2, PTL DEF Spec

(* Once CodexRunGuard has confirmed that a run's resources are gone, the   *)
(* daemon brings none of them back: the stable-zero window outlasts every  *)
(* `docker create` that was given up on.                                   *)
THEOREM RemovedStaysGone == Spec => []RemovedIsGone
<1>1. CodexInv => RemovedIsGone
  BY DEF CodexInv, Own, Guarded, RemovedIsGone
<1> QED
  BY <1>1, CodexIsInv, PTL

(* Every completed or timed-out Candidate that execute() reports stopped   *)
(* before its work tree was taken, and its run left nothing behind.        *)
THEOREM ReportedRunsAreClean == Spec => []SuccessIsClean
<1>1. CodexInv => SuccessIsClean
  BY DEF CodexInv, Own, Guarded, Reports, SuccessIsClean, At
<1> QED
  BY <1>1, CodexIsInv, PTL

(* A step of one run's process leaves the others' state alone.             *)
LEMMA OthersStay ==
  ASSUME NEW p \in Runs, NEW r \in Runs, r # p, Proceed(p)
  PROVE  run'[r] = run[r]
<1>1. ASSUME NEW new, Becomes(p, new) PROVE run'[r] = run[r]
  BY <1>1 DEF Becomes
<1>2. ASSUME NEW result, NEW home, Ends(p, result, home) PROVE run'[r] = run[r]
  BY <1>2 DEF Ends
<1>3. CASE Discover(p)
  BY <1>1, <1>2, <1>3 DEF Discover
<1>4. CASE Sweep(p)
  BY <1>1, <1>2, <1>4 DEF Sweep, SweepGroup
<1>5. CASE StageHome(p)
  BY <1>1, <1>2, <1>5 DEF StageHome
<1>6. CASE Create(p)
  BY <1>1, <1>6 DEF Create, Created
<1>7. CASE CreateFails(p) \/ CreateTimesOut(p) \/ Settle(p) \/ Copy(p)
  BY <1>1, <1>7 DEF CreateFails, CreateTimesOut, Settle, Copy, Fails
<1>8. CASE Join(p) \/ Sidecar(p) \/ Attach(p) \/ Detach(p)
  BY <1>1, <1>8 DEF Join, Sidecar, Attach, Detach
<1>9. CASE Stop(p) \/ Export(p) \/ Look(p)
  BY <1>1, <1>9 DEF Stop, Export, Look, Fails
<1>10. ASSUME Again(p) PROVE run'[r] = run[r]
  BY <1>1, <1>2, <1>10 DEF Again, GivesUp
<1>11. CASE Pass(p) \/ Remove(p) \/ Observe(p)
  BY <1>1, <1>10, <1>11 DEF Pass, Remove, Observe, Confirmed
<1>12. CASE RemoveHome(p)
  BY <1>1, <1>2, <1>12 DEF RemoveHome
<1> QED
  BY <1>3, <1>4, <1>5, <1>6, <1>7, <1>8, <1>9, <1>11, <1>12 DEF Proceed

(* A run reaches its own creations only over an empty list of what is left *)
(* to sweep, and by then everything it found of a dead run is removed.     *)
THEOREM SweepsAreComplete == Spec => SweepClears
<1>1. ASSUME CodexInv, [Next]_vars, NEW r \in Runs, run[r].at = "sweep", run'[r].at = "create"
      PROVE  StageHome(r)
  <2>1. ASSUME NEW p \in Runs,
               Begin(p) \/ Proceed(p) \/ Exit(p) \/ Kill(p) \/ Lands(p) \/ Stops(p)
        PROVE  StageHome(r)
    <3>1. CASE Proceed(p) /\ p # r
      BY <1>1, <3>1, OthersStay
    <3>2. CASE Proceed(p) /\ p = r
      <4>1. Sweep(r) \/ StageHome(r)
        BY <1>1, <3>2 DEF Proceed, At, MayCreate, Cleaning, Discover, Create, CreateFails,
             CreateTimesOut, Settle, Copy, Join, Sidecar, Attach, Detach, Stop, Export, Pass,
             Look, Remove, Observe, RemoveHome
      <4>2. ASSUME NEW q, Becomes(r, [left |-> run[r].left \ {q}]) PROVE FALSE
        <5> DEFINE new == [left |-> run[r].left \ {q}]
        <5>1. DOMAIN new \subseteq Fields
          BY DEF Fields
        <5>2. run'[r] = [f \in Fields |-> IF f \in DOMAIN new THEN new[f] ELSE run[r][f]]
          BY <1>1, <4>2, <5>1, BecomesSets DEF CodexInv
        <5> QED
          BY <1>1, <5>2 DEF Fields
      <4>3. ASSUME Ends(r, "failed", run[r].home) PROVE FALSE
        BY <1>1, <4>3 DEF Ends, NewRun, CodexInv, CodexTypes
      <4>4. ~Sweep(r)
        BY <4>2, <4>3 DEF Sweep, SweepGroup
      <4> QED
        BY <4>1, <4>4
    <3>3. CASE Begin(p)
      <4>1. run'[r] = run[r]
        BY <1>1, <3>3 DEF Begin, At, Becomes
      <4> QED
        BY <1>1, <4>1
    <3>4. CASE Exit(p) \/ Kill(p)
      <4>1. run'[r] = run[r] \/ run'[r].at = "gone"
        BY <1>1, <3>4, LeftIs DEF Exit, Kill, Gone, CodexInv, CodexTypes
      <4> QED
        BY <1>1, <4>1
    <3>5. CASE Lands(p) \/ Stops(p)
      BY <1>1, <3>5 DEF Lands, Stops
    <3> QED
      BY <2>1, <3>1, <3>2, <3>3, <3>4, <3>5
  <2>2. CASE Reboot
    <3>1. run'[r] = run[r] \/ run'[r].at = "gone"
      BY <1>1, <2>2, LeftIs DEF Reboot, CodexInv
    <3> QED
      BY <1>1, <3>1
  <2>3. CASE Tick
    <3>1. run'[r] = run[r]
      BY <1>1, <2>3 DEF Tick, Cleaning
    <3> QED
      BY <1>1, <3>1
  <2>4. CASE UNCHANGED vars
    BY <1>1, <2>4 DEF vars
  <2> QED
    BY <1>1, <2>1, <2>2, <2>3, <2>4 DEF Next, Finished
<1>2. CodexInv /\ [Next]_vars =>
        [\A r \in Runs : At(r, "sweep") /\ run'[r].at = "create" =>
           \A q \in run[r].dead : run[r].seen[q] \cap docker[q] = {}]_vars
  <2>1. ASSUME CodexInv, [Next]_vars, NEW r \in Runs, run[r].at = "sweep", run'[r].at = "create",
               NEW q \in run[r].dead
        PROVE  run[r].seen[q] \cap docker[q] = {}
    <3>1. run[r].left = {}
      BY <1>1, <2>1 DEF StageHome
    <3> QED
      BY <2>1, <3>1 DEF CodexInv, Own, Sweeping
  <2> QED
    BY <2>1 DEF At
<1> QED
  BY <1>2, CodexIsInv, PTL DEF Spec, SweepClears

(* No run's sweep takes a resource of a run that lives: while its process  *)
(* runs, the boot, pid and start time on its resources lead to it, so only *)
(* its own guard removes them.                                             *)
THEOREM SweepsSpareTheLiving == Spec => SweepSparesTheLiving
<1>1. ASSUME CodexInv, [Next]_vars, NEW q \in Runs, Alive(q), run[q].at \notin Cleaning
      PROVE  docker[q] \subseteq docker'[q]
  <2>1. ASSUME NEW p \in Runs, Proceed(p)
        PROVE  docker[q] \subseteq docker'[q]
    <3>1. CASE Sweep(p)
      <4>1. PICK o \in run[p].left :
              IF run[p].seen[o] = {} \/ Active(o)
              THEN UNCHANGED dockerVars
              ELSE Removes(o, run[p].seen[o])
        BY <3>1 DEF Sweep, SweepGroup
      <4>2. o \in Runs
        BY <1>1 DEF CodexInv, CodexTypes, RunStates
      <4>3. Active(q)
        BY <1>1 DEF CodexInv, Named
      <4>4. CASE UNCHANGED dockerVars
        BY <4>4 DEF dockerVars
      <4>5. CASE ~Active(o) /\ Removes(o, run[p].seen[o])
        <5>1. o # q
          BY <4>3, <4>5
        <5> QED
          BY <1>1, <4>2, <4>5, <5>1, DockerRemoves DEF CodexInv
      <4> QED
        BY <4>1, <4>4, <4>5
    <3>2. CASE Pass(p) \/ Remove(p)
      <4>1. Removes(p, Resources) /\ run[p].at \in Cleaning
        BY <3>2 DEF Pass, Remove, At, Cleaning
      <4> QED
        BY <1>1, <4>1, DockerRemoves DEF CodexInv
    <3>3. CASE Create(p) \/ CreateFails(p)
      BY <1>1, <3>3 DEF Create, CreateFails, CodexInv, CodexTypes
    <3>4. CASE \/ Discover(p) \/ StageHome(p) \/ CreateTimesOut(p) \/ Settle(p) \/ Copy(p)
               \/ Join(p) \/ Sidecar(p) \/ Attach(p) \/ Detach(p) \/ Stop(p) \/ Export(p)
               \/ Look(p) \/ Observe(p) \/ RemoveHome(p)
      <4>1. docker' = docker
        BY <3>4 DEF Discover, StageHome, CreateTimesOut, Settle, Copy, Join, Sidecar, Attach,
             Detach, Stop, Export, Look, Observe, RemoveHome, dockerVars
      <4> QED
        BY <4>1
    <3> QED
      BY <2>1, <3>1, <3>2, <3>3, <3>4 DEF Proceed
  <2>2. ASSUME NEW p \in Runs, Begin(p) \/ Exit(p) \/ Kill(p) \/ Stops(p)
        PROVE  docker[q] \subseteq docker'[q]
    BY <2>2 DEF Begin, Exit, Kill, Gone, Stops, dockerVars
  <2>3. ASSUME NEW p \in Runs, Lands(p)
        PROVE  docker[q] \subseteq docker'[q]
    BY <1>1, <2>3 DEF Lands, CodexInv, CodexTypes
  <2>4. CASE Reboot \/ Tick \/ UNCHANGED vars
    BY <2>4 DEF Reboot, Tick, vars, dockerVars
  <2> QED
    BY <1>1, <2>1, <2>2, <2>3, <2>4 DEF Next, Finished
<1>2. CodexInv /\ [Next]_vars =>
        [\A q \in Runs : ~(docker[q] \subseteq docker'[q]) => ~Alive(q) \/ run[q].at \in Cleaning]_vars
  BY <1>1
<1> QED
  BY <1>2, CodexIsInv, PTL DEF Spec, SweepSparesTheLiving
=============================================================================
