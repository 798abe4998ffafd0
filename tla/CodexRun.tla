------------------------------ MODULE CodexRun ------------------------------
(***************************************************************************)
(* The Docker life of containerized Codex Candidates                       *)
(* (src/src/codex_candidate.rs, execute): each run sweeps what dead runs   *)
(* left, stages a private home with the credentials, creates its network,  *)
(* volumes and containers, attaches to the Candidate, exports the work     *)
(* tree and takes everything down again.  The client of any Docker command *)
(* may fail or be killed at its timeout, after which the daemon may still  *)
(* act on the request; processes are killed and the host reboots.          *)
(*                                                                         *)
(* Time is counted in ticks.  The daemon acts on an abandoned request      *)
(* within LateBy ticks or never, and an inspection of all resources takes  *)
(* less than a tick.  Removal commands take effect or not; one run's       *)
(* resource names are never another's.                                     *)
(***************************************************************************)
EXTENDS Naturals, Sequences, FiniteSets

CONSTANTS
  Runs,
  Restricted, \* the runs whose Task allows no public network
  Volumes,    \* the volumes of a run, in the order they are created
  Pids,
  MaxStart,   \* bound: processes started in one boot
  MaxBoots,   \* bound: boots of the host
  LateBy,     \* ticks within which the daemon acts on an abandoned request
  Window,     \* PENDING_MUTATION_STABLE_ZERO
  Patience,   \* CONTAINER_CLEANUP_RETRY_TIMEOUT
  Nil

ASSUME RestrictedAreRuns == Restricted \subseteq Runs
ASSUME TimesAreNat == LateBy \in Nat /\ Window \in Nat /\ Patience \in Nat
ASSUME DaemonIsPrompt == LateBy < Window

Containers == {"stage", "main", "proxy", "export"}
Resources == Containers \cup {"network"} \cup {Volumes[i] : i \in DOMAIN Volumes}

ASSUME VolumesDiffer ==
  /\ Volumes \in Seq(STRING)
  /\ \A i, j \in DOMAIN Volumes : i # j => Volumes[i] # Volumes[j]
  /\ \A i \in DOMAIN Volumes : Volumes[i] \notin Containers \cup {"network"}

VARIABLES
  boot,    \* the boot id of the host
  started, \* the start time of its latest process, in ticks since the boot
  proc,    \* /proc: the start time of each pid's process, 0 when there is none
  labels,  \* RunMetadata, on every resource of the run; Nil before it begins
  docker,  \* the run's resources that exist
  running, \* its containers that run
  late,    \* a creation whose client is gone and that the daemon may still do
  run      \* the state of each run's process

hostVars == <<boot, started, proc>>
dockerVars == <<docker, running, late>>
vars == <<hostVars, labels, dockerVars, run>>

(* execute() creates these, one by one.                                    *)
Order(r) == (IF r \in Restricted THEN <<"network">> ELSE <<>>) \o Volumes
            \o <<"stage", "main">> \o (IF r \in Restricted THEN <<"proxy">> ELSE <<>>)

NewRun == [at |-> "start", next |-> 1, seen |-> [q \in Runs |-> {}], left |-> {}, dead |-> {},
           home |-> "none", pending |-> FALSE, confirmed |-> FALSE,
           result |-> "none", ended |-> "none", stopped |-> FALSE,
           attempt |-> 1, before |-> FALSE, zero |-> Nil, spent |-> 0]

Init ==
  /\ boot = 1
  /\ started = 0
  /\ proc = [p \in Pids |-> 0]
  /\ labels = [r \in Runs |-> Nil]
  /\ docker = [r \in Runs |-> {}]
  /\ running = [r \in Runs |-> {}]
  /\ late = [r \in Runs |-> Nil]
  /\ run = [r \in Runs |-> NewRun]

-----------------------------------------------------------------------------
At(r, where) == run[r].at = where
Alive(r) == run[r].at \notin {"start", "gone"}

(* The run's own state changes in the fields that `new` names.             *)
Becomes(r, new) ==
  run' = [run EXCEPT ![r] = [f \in DOMAIN run[r] |-> IF f \in DOMAIN new THEN new[f] ELSE run[r][f]]]

Ends(r, result, home) ==
  run' = [run EXCEPT ![r] = [NewRun EXCEPT !.at = "done", !.result = result, !.stopped = run[r].stopped,
                                           !.home = home, !.confirmed = run[r].confirmed]]

(* An error inside the guarded part of execute(): guard.finish() follows.  *)
Fails(r) == Becomes(r, [at |-> "clean", result |-> "failed"])

Begin(r) == \E p \in Pids :
  /\ At(r, "start")
  /\ proc[p] = 0
  /\ started < MaxStart
  /\ started' = started + 1
  /\ proc' = [proc EXCEPT ![p] = started + 1]
  /\ labels' = [labels EXCEPT ![r] = [boot |-> boot, pid |-> p, start |-> started + 1]]
  /\ Becomes(r, [at |-> "discover"])
  /\ UNCHANGED <<boot, dockerVars>>

(* discover_run_labeled_resources: every labelled resource there is.       *)
Discover(r) ==
  /\ At(r, "discover")
  /\ \/ Becomes(r, [at |-> "sweep", seen |-> docker, left |-> Runs,
                      dead |-> {q \in Runs : ~Alive(q)}])
     \/ Ends(r, "failed", run[r].home)
  /\ UNCHANGED <<hostVars, labels, dockerVars>>

(* Mutated form: a process that got the pid of a dead run stands for it.   *)
ActiveByPid(q) == labels[q].boot = boot /\ proc[labels[q].pid] # 0

(* run_metadata_is_active.                                                 *)
Active(q) == labels[q].boot = boot /\ proc[labels[q].pid] = labels[q].start

(* Docker removes some of these: a volume no longer mounted, a network     *)
(* without a running container.                                            *)
Removes(q, wanted) == \E gone \in SUBSET (wanted \cap docker[q]) :
  /\ \A x \in gone \ Containers : x # "network" => docker[q] \cap Containers \subseteq gone
  /\ "network" \in gone => running[q] \subseteq gone
  /\ docker' = [docker EXCEPT ![q] = @ \ gone]
  /\ running' = [running EXCEPT ![q] = @ \ gone]
  /\ UNCHANGED late

(* What a sweep does to one run's group: every resource, or an error.      *)
SweepGroup(r, q) ==
  /\ Removes(q, run[r].seen[q])
  /\ IF docker'[q] \cap run[r].seen[q] = {}
       THEN Becomes(r, [left |-> run[r].left \ {q}])
       ELSE Ends(r, "failed", run[r].home)

(* Mutated form: the sweep does not ask whether the run is alive.          *)
SweepAll(r) ==
  /\ At(r, "sweep")
  /\ \E q \in run[r].left : SweepGroup(r, q)
  /\ UNCHANGED <<hostVars, labels>>

Sweep(r) ==
  /\ At(r, "sweep")
  /\ \E q \in run[r].left :
       IF run[r].seen[q] = {} \/ Active(q)
       THEN Becomes(r, [left |-> run[r].left \ {q}]) /\ UNCHANGED dockerVars
       ELSE SweepGroup(r, q)
  /\ UNCHANGED <<hostVars, labels>>

(* codex_auth::stage; the guard owns the home from here on.                *)
StageHome(r) ==
  /\ At(r, "sweep")
  /\ run[r].left = {}
  /\ \/ Becomes(r, [at |-> "create", home |-> "kept", seen |-> NewRun.seen, dead |-> {}])
     \/ Ends(r, "failed", run[r].home)
  /\ UNCHANGED <<hostVars, labels, dockerVars>>

-----------------------------------------------------------------------------
(* Creation.  The inventory container of the export comes last, after the  *)
(* Candidate has ended.                                                    *)
Making(r) == IF At(r, "inventory") THEN "export" ELSE Order(r)[run[r].next]

MayCreate(r) ==
  \/ At(r, "create") /\ run[r].next <= Len(Order(r))
  \/ At(r, "inventory")

(* Where execute() goes once the resource exists.                          *)
Created(r, x) == Becomes(r,
  CASE x = "export" -> [at |-> "export"]
    [] x = "stage"  -> [at |-> "copy", next |-> run[r].next + 1]
    [] x = "main"   -> [at |-> "join", next |-> run[r].next + 1]
    [] x = "proxy"  -> [at |-> "sidecar", next |-> run[r].next + 1]
    [] OTHER        -> [next |-> run[r].next + 1])

Create(r) ==
  /\ MayCreate(r)
  /\ docker' = [docker EXCEPT ![r] = @ \cup {Making(r)}]
  /\ Created(r, Making(r))
  /\ UNCHANGED <<hostVars, labels, running, late>>

(* The command fails, or the inspection after it, whatever it did.         *)
CreateFails(r) ==
  /\ MayCreate(r)
  /\ docker' = docker \/ docker' = [docker EXCEPT ![r] = @ \cup {Making(r)}]
  /\ Fails(r)
  /\ UNCHANGED <<hostVars, labels, running, late>>

(* Mutated form: the timeout is an error like any other.                   *)
CreateTimesOutUnmarked(r) ==
  /\ MayCreate(r)
  /\ late' = [late EXCEPT ![r] = [what |-> Making(r), age |-> 0]]
  /\ Becomes(r, [at |-> "settle"])
  /\ UNCHANGED <<hostVars, labels, docker, running>>

(* The client is killed; mark_pending_mutation.                            *)
CreateTimesOut(r) ==
  /\ MayCreate(r)
  /\ late' = [late EXCEPT ![r] = [what |-> Making(r), age |-> 0]]
  /\ Becomes(r, [at |-> "settle", pending |-> TRUE])
  /\ UNCHANGED <<hostVars, labels, docker, running>>

(* wait_for_delayed_*: until the resource is there, the time is over or an *)
(* inspection fails, that is, for any time.                                *)
Settle(r) ==
  /\ At(r, "settle")
  /\ Fails(r)
  /\ UNCHANGED <<hostVars, labels, dockerVars>>

(* stage_container_inputs; connect_candidate_to_game_network, whose late   *)
(* effect creates nothing but counts as a pending mutation.                *)
Copy(r) ==
  /\ At(r, "copy")
  /\ Becomes(r, [at |-> "create"]) \/ Fails(r)
  /\ UNCHANGED <<hostVars, labels, dockerVars>>

Join(r) ==
  /\ At(r, "join")
  /\ \/ Becomes(r, [at |-> "create"])
     \/ \E timedOut \in BOOLEAN :
          Becomes(r, [at |-> "clean", result |-> "failed", pending |-> run[r].pending \/ timedOut])
  /\ UNCHANGED <<hostVars, labels, dockerVars>>

(* connect_proxy_to_bridge, docker start and the probes: nothing goes on   *)
(* before the proxy answers.                                               *)
Sidecar(r) ==
  /\ At(r, "sidecar")
  /\ \/ /\ running' = [running EXCEPT ![r] = @ \cup {"proxy"}]
        /\ Becomes(r, [at |-> "create"])
     \/ /\ running' = running \/ running' = [running EXCEPT ![r] = @ \cup {"proxy"}]
        /\ \E timedOut \in BOOLEAN :
             Becomes(r, [at |-> "clean", result |-> "failed", pending |-> run[r].pending \/ timedOut])
  /\ UNCHANGED <<hostVars, labels, docker, late>>

-----------------------------------------------------------------------------
(* docker start --attach.  The client ends with the container, or because  *)
(* it failed; at the timeout it is killed and the container stopped.  That *)
(* the daemon has acted on the start by then is taken for granted.         *)
Attach(r) ==
  /\ At(r, "create")
  /\ run[r].next > Len(Order(r))
  /\ Becomes(r, [at |-> "attached"])
  /\ running' = [running EXCEPT ![r] = @ \cup {"main"}]
  /\ UNCHANGED <<hostVars, labels, docker, late>>

Detach(r) ==
  /\ At(r, "attached")
  /\ \/ /\ running' = [running EXCEPT ![r] = @ \ {"main"}]
        /\ \E how \in {"exited", "bad"} : Becomes(r, [at |-> "inventory", ended |-> how])
     \/ /\ UNCHANGED running
        /\ Becomes(r, [at |-> "inventory", ended |-> "bad"])
     \/ /\ UNCHANGED running
        /\ Becomes(r, [at |-> "stop", ended |-> "timedOut"])
  /\ UNCHANGED <<hostVars, labels, docker, late>>

(* Mutated form: a timed-out container is exported as it is.               *)
ExportAnyway(r) ==
  /\ At(r, "stop")
  /\ Becomes(r, [at |-> "inventory"])
  /\ UNCHANGED <<hostVars, labels, dockerVars>>

(* stop_container_process.                                                 *)
Stop(r) ==
  /\ At(r, "stop")
  /\ \/ /\ running' = [running EXCEPT ![r] = @ \ {"main"}]
        /\ Becomes(r, [at |-> "inventory"])
     \/ /\ running' = running \/ running' = [running EXCEPT ![r] = @ \ {"main"}]
        /\ Fails(r)
  /\ UNCHANGED <<hostVars, labels, docker, late>>

(* The inventory runs, the files it lists are copied out of the container, *)
(* and what the Candidate came to is known.                                *)
Export(r) ==
  /\ At(r, "export")
  /\ \/ \E timedOut \in BOOLEAN :
          Becomes(r, [at |-> "clean", result |-> "failed", pending |-> run[r].pending \/ timedOut])
     \/ Becomes(r, [at |-> "clean", stopped |-> "main" \notin running[r],
                    result |-> IF run[r].ended = "bad" THEN "failed" ELSE run[r].ended])
     \/ Becomes(r, [at |-> "clean", stopped |-> "main" \notin running[r], result |-> "failed"])
  /\ UNCHANGED <<hostVars, labels, dockerVars>>

-----------------------------------------------------------------------------
(* CodexRunGuard: remove_resources, once in finish() and, if that gives    *)
(* up, once more in drop(); then the private home.                         *)
Confirmed(r) == Becomes(r, [at |-> "home", confirmed |-> TRUE])

GivesUp(r) ==
  IF run[r].attempt = 1
  THEN Becomes(r, [at |-> "clean", result |-> "failed", attempt |-> 2, zero |-> Nil, spent |-> 0])
  ELSE Ends(r, "failed", run[r].home)

(* Mutated form: the cleanup has no deadline.                              *)
AgainForever(r) == Becomes(r, [at |-> "clean", zero |-> Nil])

(* A failed attempt is the last one once the deadline has passed.          *)
Again(r) ==
  IF run[r].spent = Patience THEN GivesUp(r) ELSE Becomes(r, [at |-> "clean", zero |-> Nil])

(* Nothing is pending: retry_cleanup, until one pass removes everything.   *)
Pass(r) ==
  /\ At(r, "clean")
  /\ ~run[r].pending
  /\ Removes(r, Resources)
  /\ \/ docker'[r] = {} /\ Confirmed(r)
     \/ docker'[r] # {} /\ Again(r)
  /\ UNCHANGED <<hostVars, labels>>

(* Otherwise each iteration looks, removes, looks again and observes.      *)
Look(r) ==
  /\ At(r, "clean")
  /\ run[r].pending
  /\ \E answered \in BOOLEAN :
       Becomes(r, [at |-> "remove", before |-> answered /\ docker[r] = {}])
  /\ UNCHANGED <<hostVars, labels, dockerVars>>

Remove(r) ==
  /\ At(r, "remove")
  /\ Removes(r, Resources)
  /\ \/ docker'[r] = {} /\ Becomes(r, [at |-> "observe"])
     \/ docker'[r] # {} /\ Again(r)
  /\ UNCHANGED <<hostVars, labels>>

(* StableZeroWindow::observe.                                              *)
Observe(r) ==
  /\ At(r, "observe")
  /\ \E answered \in BOOLEAN :
       LET absent == answered /\ run[r].before /\ docker[r] = {}
           since == IF run[r].zero = Nil THEN 0 ELSE run[r].zero
       IN  IF absent /\ since >= Window THEN Confirmed(r)
           ELSE IF absent /\ run[r].spent < Patience
             THEN Becomes(r, [at |-> "clean", zero |-> since])
           ELSE Again(r)
  /\ UNCHANGED <<hostVars, labels, dockerVars>>

(* cleanup_private_home in finish(), and again in drop() after an error.   *)
RemoveHome(r) ==
  /\ At(r, "home") \/ At(r, "homeAgain")
  /\ \/ /\ At(r, "home") /\ run[r].attempt = 1
        /\ Becomes(r, [at |-> "homeAgain", result |-> "failed"])
     \/ /\ At(r, "homeAgain") \/ run[r].attempt = 2
        /\ Ends(r, "failed", run[r].home)
     \/ Ends(r, run[r].result, "removed")
  /\ UNCHANGED <<hostVars, labels, dockerVars>>

-----------------------------------------------------------------------------
(* Nothing is left of a process but what it did.                           *)
Left(r) == [NewRun EXCEPT !.at = "gone", !.home = run[r].home, !.confirmed = run[r].confirmed]

(* The process exits once it is done, or is killed anywhere.               *)
Gone(r) ==
  /\ proc' = [proc EXCEPT ![labels[r].pid] = 0]
  /\ run' = [run EXCEPT ![r] = Left(r)]
  /\ UNCHANGED <<boot, started, labels, dockerVars>>

Exit(r) == At(r, "done") /\ Gone(r)
Kill(r) == Alive(r) /\ ~At(r, "done") /\ Gone(r)

Reboot ==
  /\ boot < MaxBoots
  /\ boot' = boot + 1
  /\ started' = 0
  /\ proc' = [p \in Pids |-> 0]
  /\ running' = [r \in Runs |-> {}]
  /\ late' = [r \in Runs |-> Nil]
  /\ run' = [r \in Runs |-> IF Alive(r) THEN Left(r) ELSE run[r]]
  /\ UNCHANGED <<labels, docker>>

(* The daemon acts on an abandoned request, or never will.                 *)
Lands(r) ==
  /\ late[r] # Nil
  /\ late' = [late EXCEPT ![r] = Nil]
  /\ docker' = docker \/ docker' = [docker EXCEPT ![r] = @ \cup {late[r].what}]
  /\ UNCHANGED <<hostVars, labels, running, run>>

(* A container may end by itself.                                          *)
Stops(r) ==
  /\ \E c \in running[r] : running' = [running EXCEPT ![r] = @ \ {c}]
  /\ UNCHANGED <<hostVars, labels, docker, late, run>>

Cleaning == {"clean", "remove", "observe"}

Older(n, max) == IF n < max THEN n + 1 ELSE max

Tick ==
  /\ \E r \in Runs : late[r] # Nil \/ run[r].at \in Cleaning
  /\ \A r \in Runs : late[r] # Nil => late[r].age < LateBy
  /\ late' = [r \in Runs |-> IF late[r] = Nil THEN Nil ELSE [late[r] EXCEPT !.age = @ + 1]]
  /\ run' = [r \in Runs |->
       IF run[r].at \in Cleaning
       THEN [run[r] EXCEPT !.spent = Older(@, Patience),
                           !.zero = IF @ = Nil THEN Nil ELSE Older(@, Window)]
       ELSE run[r]]
  /\ UNCHANGED <<hostVars, labels, docker, running>>

Finished == (\A r \in Runs : At(r, "gone") \/ At(r, "start")) /\ UNCHANGED vars

(* What a run's process does once it has begun.                            *)
Proceed(r) ==
  \/ Discover(r) \/ Sweep(r) \/ StageHome(r)
  \/ Create(r) \/ CreateFails(r) \/ CreateTimesOut(r) \/ Settle(r)
  \/ Copy(r) \/ Join(r) \/ Sidecar(r) \/ Attach(r) \/ Detach(r) \/ Stop(r) \/ Export(r)
  \/ Pass(r) \/ Look(r) \/ Remove(r) \/ Observe(r) \/ RemoveHome(r)

Next ==
  \/ \E r \in Runs : Begin(r) \/ Proceed(r) \/ Exit(r) \/ Kill(r) \/ Lands(r) \/ Stops(r)
  \/ Reboot \/ Tick \/ Finished

Spec == Init /\ [][Next]_vars

(* A process that runs goes on, time passes, and the daemon acts in time.  *)
FairSpec ==
  /\ Spec
  /\ \A r \in Runs : WF_vars(Proceed(r)) /\ WF_vars(Lands(r))
  /\ WF_vars(Tick)

-----------------------------------------------------------------------------
(* Properties.                                                             *)
(* Once the guard has confirmed that the run's resources are removed, none *)
(* comes back, not even one whose creation was abandoned; and until then   *)
(* the run's private home stays for the stale-home cleanup.                *)
RemovedIsGone == \A r \in Runs :
  /\ run[r].confirmed => docker[r] = {} /\ late[r] = Nil
  /\ run[r].home = "removed" => run[r].confirmed

(* A run that reports a completed or timed-out Candidate has taken its     *)
(* work tree from a container that no longer ran, and left nothing in      *)
(* Docker and no credentials behind.                                       *)
SuccessIsClean == \A r \in Runs :
  At(r, "done") /\ run[r].result # "failed" =>
    run[r].stopped /\ docker[r] = {} /\ run[r].home = "removed"

(* Whatever pid a dead run's resources carry, and whichever boot they are  *)
(* from: a run that gets past its sweep has removed those it found.        *)
SweepClears == [][\A r \in Runs : At(r, "sweep") /\ run'[r].at = "create" =>
  \A q \in run[r].dead : run[r].seen[q] \cap docker[q] = {}]_vars

(* No sweep removes a resource of a run whose process lives.               *)
SweepSparesTheLiving == [][\A q \in Runs :
  ~(docker[q] \subseteq docker'[q]) => ~Alive(q) \/ run[q].at \in Cleaning]_vars

(* A run that begins ends, or its process does.                            *)
RunsEnd == \A r \in Runs : Alive(r) ~> At(r, "done") \/ At(r, "gone")
=============================================================================
