---------------------------- MODULE DockerRuntime ----------------------------
(***************************************************************************)
(* A script Candidate on the Docker runtime (runtime.rs): images resolved  *)
(* with a retried pull, import volumes filled from the Work image by short *)
(* staging containers, the Candidate container under its timeout, and the  *)
(* Judge's answer validated.                                               *)
(*                                                                         *)
(* A `docker run` is a client that asks the daemon to create and then to   *)
(* start a container and waits for its exit.  Killing the client stops     *)
(* what it would still ask for, not the container; and a client may end    *)
(* with an error of its own, whatever the daemon does with its request.    *)
(* Removals are asked for once and their failure is ignored.               *)
(***************************************************************************)
EXTENDS Integers, FiniteSets, Sequences

CONSTANTS Imports,       \* work_workspace_imports: a sequence of names
          PullAttempts   \* IMAGE_PULL_ATTEMPTS

ASSUME PullAssumption == PullAttempts \in Nat \ {0}

(* A name stands for a volume and its staging container, which have names  *)
(* of their own; "" and "candidate" are this module's.                     *)
ASSUME ImportNamed ==
  /\ Imports \in Seq(STRING)
  /\ \A i \in DOMAIN Imports : Imports[i] \notin {"", "candidate"}

VARIABLES
  dockerPc,   \* where the run is
  pulls,      \* attempts of the pull so far
  imported,   \* prepared.imports: the volumes to drop, in order of creation
  volumes,    \* the import volumes Docker has
  waiting,    \* the container whose `docker run` is waited for, "" when none
  asked,      \* asked[k]: what the client has asked for: "nothing", "create", "start"
  container,  \* container[k]: "none", "created" or "running"
  lostRuns,   \* history: containers whose removal failed, or whose client ended by itself
  lostVols,   \* history: volumes whose create or removal failed
  outcome     \* "running", "Completed", "TimedOut" or "Failed"

dockerRunVars == <<dockerPc, pulls, imported, volumes, waiting, asked, container, lostRuns, lostVols,
                outcome>>

ImportNames == {Imports[i] : i \in DOMAIN Imports}
RunContainers == ImportNames \cup {"candidate"}

DockerInit ==
  /\ dockerPc = "pull" /\ pulls = 0
  /\ imported = <<>> /\ volumes = {}
  /\ waiting = "" /\ asked = [k \in RunContainers |-> "nothing"]
  /\ container = [k \in RunContainers |-> "none"]
  /\ lostRuns = {} /\ lostVols = {} /\ outcome = "running"

DockerFails(to) == dockerPc' = to /\ outcome' = "Failed"

(***************************************************************************)
(* resolve_image: an image that is there for the platform is not pulled,   *)
(* and a pulled one must be for the platform.  retry_image_pull: at most   *)
(* PullAttempts, with a pause after each failure but the last.             *)
(***************************************************************************)
ImageIsLocal ==
  /\ dockerPc = "pull" /\ pulls = 0
  /\ (dockerPc' = "import" /\ UNCHANGED outcome) \/ DockerFails("ended")
  /\ UNCHANGED <<pulls, imported, volumes, waiting, asked, container, lostRuns, lostVols>>

PullSucceeds ==
  /\ dockerPc = "pull" /\ pulls < PullAttempts
  /\ pulls' = pulls + 1
  /\ (dockerPc' = "import" /\ UNCHANGED outcome) \/ DockerFails("ended")
  /\ UNCHANGED <<imported, volumes, waiting, asked, container, lostRuns, lostVols>>

PullFails ==
  /\ dockerPc = "pull" /\ pulls < PullAttempts
  /\ pulls' = pulls + 1
  /\ IF pulls' = PullAttempts THEN DockerFails("ended") ELSE UNCHANGED <<dockerPc, outcome>>
  /\ UNCHANGED <<imported, volumes, waiting, asked, container, lostRuns, lostVols>>

(***************************************************************************)
(* prepare_workspace_imports: a volume for each import, entered in the     *)
(* list as soon as its create has succeeded, so that Drop removes it       *)
(* whatever follows.  A create that fails may have made it.                *)
(***************************************************************************)
NextImport == Imports[Len(imported) + 1]

CreateVolume ==
  /\ dockerPc = "import" /\ Len(imported) < Len(Imports)
  /\ volumes' = volumes \cup {NextImport}
  /\ imported' = Append(imported, NextImport)
  /\ waiting' = NextImport /\ dockerPc' = "stage"
  /\ UNCHANGED <<pulls, asked, container, lostRuns, lostVols, outcome>>

CreateVolumeFails ==
  /\ dockerPc = "import" /\ Len(imported) < Len(Imports)
  /\ DockerFails("drop")
  /\ volumes' \in {volumes, volumes \cup {NextImport}}
  /\ lostVols' = lostVols \cup {NextImport}
  /\ UNCHANGED <<pulls, imported, waiting, asked, container, lostRuns>>

StartCandidate ==
  /\ dockerPc = "import" /\ Len(imported) = Len(Imports)
  /\ waiting' = "candidate" /\ dockerPc' = "candidate"
  /\ UNCHANGED <<pulls, imported, volumes, asked, container, lostRuns, lostVols, outcome>>

(***************************************************************************)
(* The client and the daemon of one `docker run`.                          *)
(***************************************************************************)
ClientRuns == dockerPc \in {"stage", "candidate"}

ClientAsks ==
  /\ ClientRuns /\ asked[waiting] \in {"nothing", "create"}
  /\ asked[waiting] = "create" => container[waiting] = "created"
  /\ asked' = [asked EXCEPT ![waiting] = IF @ = "nothing" THEN "create" ELSE "start"]
  /\ UNCHANGED <<dockerPc, pulls, imported, volumes, waiting, container, lostRuns, lostVols, outcome>>

(* The daemon answers in its own time, even to a client that is gone, and  *)
(* makes the volumes a container names that are not there.                 *)
Mounts(k) == IF k = "candidate" THEN ImportNames ELSE {k}

DaemonCreates(k) ==
  /\ asked[k] = "create" /\ container[k] = "none"
  /\ container' = [container EXCEPT ![k] = "created"]
  /\ volumes' = volumes \cup Mounts(k)
  /\ UNCHANGED <<dockerPc, pulls, imported, waiting, asked, lostRuns, lostVols, outcome>>

DaemonStarts(k) ==
  /\ asked[k] = "start" /\ container[k] = "created"
  /\ container' = [container EXCEPT ![k] = "running"]
  /\ UNCHANGED <<dockerPc, pulls, imported, volumes, waiting, asked, lostRuns, lostVols, outcome>>

(* The container ends and --rm takes it away.                               *)
ContainerExits(k) ==
  /\ container[k] = "running"
  /\ container' = [container EXCEPT ![k] = "none"]
  /\ asked' = [asked EXCEPT ![k] = "done"]
  /\ UNCHANGED <<dockerPc, pulls, imported, volumes, waiting, lostRuns, lostVols, outcome>>

(* output_with_timeout, in time: the client has seen the exit.              *)
RunReturns ==
  /\ ClientRuns /\ asked[waiting] = "done"
  /\ waiting' = ""
  /\ \/ /\ dockerPc' = (IF dockerPc = "stage" THEN "import" ELSE "drop")
        /\ outcome' = (IF dockerPc = "stage" THEN outcome ELSE "Completed")
     \/ DockerFails("drop")
  /\ UNCHANGED <<pulls, imported, volumes, asked, container, lostRuns, lostVols>>

(* In time, but the client ends with an error while its container is still *)
(* to be created, created or running: the run fails without a removal.     *)
ClientFails ==
  /\ ClientRuns /\ asked[waiting] # "done"
  /\ lostRuns' = lostRuns \cup {waiting}
  /\ waiting' = "" /\ DockerFails("drop")
  /\ UNCHANGED <<pulls, imported, volumes, asked, container, lostVols>>

RunOver == outcome' = (IF waiting = "candidate" THEN "TimedOut" ELSE "Failed")

(* Mutated form: only the client is killed.                                 *)
KillClientOnly ==
  /\ ClientRuns /\ asked[waiting] # "done"
  /\ waiting' = "" /\ dockerPc' = "drop" /\ RunOver
  /\ UNCHANGED <<pulls, imported, volumes, container, asked, lostRuns, lostVols>>

(* output_with_timeout, too late: the client is killed, then the container *)
(* removed by force, whatever becomes of the removal.                       *)
RunTimesOut ==
  /\ ClientRuns /\ asked[waiting] # "done"
  /\ dockerPc' = "remove"
  /\ UNCHANGED <<pulls, imported, volumes, waiting, container, asked, lostRuns, lostVols, outcome>>

RemoveContainer ==
  /\ dockerPc = "remove"
  /\ \/ /\ container' = [container EXCEPT ![waiting] = "none"]
        /\ asked' = [asked EXCEPT ![waiting] = IF container[waiting] = "none" THEN @ ELSE "done"]
        /\ UNCHANGED lostRuns
     \/ lostRuns' = lostRuns \cup {waiting} /\ UNCHANGED <<container, asked>>
  /\ waiting' = "" /\ dockerPc' = "drop" /\ RunOver
  /\ UNCHANGED <<pulls, imported, volumes, lostVols>>

(***************************************************************************)
(* Drop for PreparedWorkspaceImports: the volumes in reverse, each removal *)
(* refused while a container still has the volume.                         *)
(***************************************************************************)
InUse(v) == container[v] # "none" \/ container["candidate"] # "none"

DropVolume ==
  LET v == imported[Len(imported)] IN
  /\ dockerPc = "drop" /\ imported # <<>>
  /\ imported' = SubSeq(imported, 1, Len(imported) - 1)
  /\ \/ ~InUse(v) /\ volumes' = volumes \ {v} /\ UNCHANGED lostVols
     \/ lostVols' = lostVols \cup {v} /\ UNCHANGED volumes
  /\ UNCHANGED <<dockerPc, pulls, waiting, asked, container, lostRuns, outcome>>

DropEnds ==
  /\ dockerPc = "drop" /\ imported = <<>>
  /\ dockerPc' = (IF outcome = "Failed" THEN "ended" ELSE "judge")
  /\ UNCHANGED <<pulls, imported, volumes, waiting, asked, container, lostRuns, lostVols, outcome>>

(***************************************************************************)
(* execute_docker_judge: the answer passes validate_judge_result, or the   *)
(* run fails.  The call has no timeout of its own.                         *)
(***************************************************************************)
JudgeAnswersRun ==
  /\ dockerPc = "judge"
  /\ (dockerPc' = "ended" /\ UNCHANGED outcome) \/ DockerFails("ended")
  /\ UNCHANGED <<pulls, imported, volumes, waiting, asked, container, lostRuns, lostVols>>

(* What the run does for which the code does not wait, or waits with a     *)
(* timeout; and the calls of docker it waits for without one.              *)
TimedStep == StartCandidate \/ ClientAsks \/ RunReturns \/ ClientFails \/ RunTimesOut \/ DropEnds

UntimedCall ==
  \/ ImageIsLocal \/ PullSucceeds \/ PullFails \/ CreateVolume \/ CreateVolumeFails
  \/ RemoveContainer \/ DropVolume \/ JudgeAnswersRun

DockerNext ==
  TimedStep \/ UntimedCall
    \/ \E k \in RunContainers : DaemonCreates(k) \/ DaemonStarts(k) \/ ContainerExits(k)

(* The run waits for a call of docker that nothing bounds.                 *)
AwaitsDocker ==
  \/ dockerPc \in {"pull", "remove", "judge"}
  \/ dockerPc = "import" /\ Len(imported) < Len(Imports)
  \/ dockerPc = "drop" /\ imported # <<>>

(***************************************************************************)
(* A Candidate that completed is out of its workspace, with every          *)
(* container before it, and one that timed out runs on in the workspace    *)
(* that is exported and judged next only if the removal failed.  Once a    *)
(* run is over, a container of it is left only if its removal failed, if   *)
(* its client had ended by itself (runtime.rs:421 then removes nothing),   *)
(* or if the daemon acts on the create of a client that is gone; and a     *)
(* volume only if its create or its removal failed, or with such a create. *)
(***************************************************************************)
RunLeavesNothing ==
  /\ outcome = "Completed" => \A k \in RunContainers : container[k] = "none"
  /\ dockerPc \in {"drop", "judge", "ended"} =>
       \A k \in RunContainers :
         container[k] # "none" => k \in lostRuns \/ (container[k] = "created" /\ asked[k] = "create")
  /\ dockerPc \in {"judge", "ended"} =>
       \A v \in volumes : v \in lostVols \/ \E k \in RunContainers : v \in Mounts(k) /\ asked[k] = "create"
=============================================================================
