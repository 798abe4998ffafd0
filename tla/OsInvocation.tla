---------------------------- MODULE OsInvocation ----------------------------
(***************************************************************************)
(* A Candidate step on the A3S OS runtime: os_runtime.rs captures the      *)
(* workspace into an envelope, posts it as an invocation, polls its state, *)
(* reads the result out of its logs and replaces the workspace by it;      *)
(* os_runtime/auth.rs supplies the token, refreshed shortly before it      *)
(* expires; the CANDIDATE script of os_runtime/scripts.rs is what the      *)
(* invocation runs.                                                        *)
(*                                                                         *)
(* The service and the Candidate inside the invocation are the environment:*)
(* any request may fail, a request may be served although its answer is    *)
(* lost, and the Candidate writes to the same log as the script that       *)
(* reports its workspace.  A tree is a set of files; a file is its path,   *)
(* its version (its content) and its kind, an executable being one; and it *)
(* weighs one unit of the envelope.                                        *)
(***************************************************************************)
EXTENDS Integers, FiniteSets, Sequences

CONSTANTS Paths,        \* the files a workspace may hold
          MaxEnvelope,  \* MAX_ENVELOPE_BYTES, in files
          StepTicks,    \* MAX_STEP_TIMEOUT_MS
          TokenTicks,   \* how long a token lives
          Skew          \* REFRESH_SKEW_MS

ASSUME OsBounds == {MaxEnvelope, StepTicks, TokenTicks, Skew} \subseteq Nat

VARIABLES
  osRole,     \* "candidate" (execute_candidate) or "judge" (execute_judge)
  osTimeout,  \* candidate_timeout_sec of the Task
  osPc,       \* where the client is
  localTree,  \* the workspace on the host
  sentTree,   \* the tree in the envelope
  osSession,  \* the cached session: until when its token is good, whether expires_at_ms says so,
              \* and whether it can be refreshed (what the environment gives cannot)
  osToken,    \* until when the token of this client is good
  osNow,      \* the clock
  osDeadline, \* the deadline of the poll
  osJob,      \* the invocation: "none", "queued", "running", "succeeded", "failed" (or canceled)
  remoteTree, \* its workspace
  osLog,      \* its log: lines [marker, tree]
  osResult,   \* the tree taken from the log
  osWriting   \* the files of the result still to be written

osTask == <<osRole, osTimeout>>
osTrees == <<localTree, sentTree>>
osAuth == <<osSession, osToken>>
osClock == <<osNow, osDeadline>>
osService == <<osJob, remoteTree, osLog>>
osTaken == <<osResult, osWriting>>
osVars == <<osTask, osPc, osTrees, osAuth, osClock, osService, osTaken>>

OsFiles == {f \in [path : Paths, version : {0, 1}, kind : {"file", "exec", "link"}] :
              f.kind # "file" => f.version = 0}
OsTrees == {t \in SUBSET OsFiles : \A f, g \in t : f.path = g.path => f = g}
EmptyTree == {}

OsInit ==
  /\ osRole \in {"candidate", "judge"} /\ osPc = "capture"
  /\ osTimeout \in {1, StepTicks, StepTicks + 1}
  /\ localTree \in {t \in OsTrees : \A f \in t : f.version = 0}
  /\ sentTree = EmptyTree
  /\ osSession \in [goodUntil : {0, TokenTicks}, known : BOOLEAN, refreshable : BOOLEAN]
  /\ osToken = 0 /\ osNow = 0 /\ osDeadline = 0
  /\ osJob = "none" /\ remoteTree = EmptyTree /\ osLog = <<>>
  /\ osResult = EmptyTree /\ osWriting = {}

OsFails ==
  /\ osPc' = "failed"
  /\ UNCHANGED <<osTask, osTrees, osAuth, osClock, osService, osTaken>>

(***************************************************************************)
(* credentials: the cached session, refreshed when its token is about to   *)
(* expire or nobody knows when, and used as it is when it cannot be        *)
(* refreshed.  The answer need not tell the new expiry.                    *)
(***************************************************************************)
needs_refresh ==
  osSession.refreshable /\ (osSession.known => osNow + Skew >= osSession.goodUntil)

OsConnect ==
  /\ osPc = "connect"
  /\ IF needs_refresh
     THEN \E known \in BOOLEAN :
            osSession' = [goodUntil |-> osNow + TokenTicks, known |-> known, refreshable |-> TRUE]
     ELSE UNCHANGED osSession
  /\ osToken' = osSession'.goodUntil
  /\ osPc' = "post"
  /\ UNCHANGED <<osTask, osTrees, osClock, osService, osTaken>>

ConnectIsRefused == osPc = "connect" /\ OsFails

(* capture_directory refuses what is neither a file nor a directory;        *)
(* ensure_payload_size what is too large for one request; step_timeout_ms   *)
(* a Task that may run longer than a step.                                  *)
OsCaptured(t) == \A f \in t : f.kind # "link"
step_timeout_ms(t) == t <= StepTicks
ensure_payload_size(t) == Cardinality(t) <= MaxEnvelope

OsCapture ==
  /\ osPc = "capture"
  /\ step_timeout_ms(osTimeout) /\ OsCaptured(localTree) /\ ensure_payload_size(localTree)
  /\ sentTree' = localTree /\ osPc' = "connect"
  /\ UNCHANGED <<osTask, localTree, osAuth, osClock, osService, osTaken>>

CaptureFails ==
  /\ osPc = "capture"
  /\ ~(step_timeout_ms(osTimeout) /\ OsCaptured(localTree) /\ ensure_payload_size(localTree))
  /\ OsFails

(***************************************************************************)
(* run_step: the request is made once; when its answer is lost, the        *)
(* invocation is there and nobody will ask for it.                         *)
(***************************************************************************)
Authorised == osNow < osToken

OsPost ==
  /\ osPc = "post" /\ Authorised
  /\ osJob' = "queued" /\ osDeadline' = osNow + osTimeout + 1
  /\ osPc' = "poll"
  /\ UNCHANGED <<osTask, osTrees, osAuth, osNow, remoteTree, osLog, osTaken>>

PostAnswerLost ==
  /\ osPc = "post" /\ Authorised
  /\ osJob' = "queued" /\ osPc' = "failed"
  /\ UNCHANGED <<osTask, osTrees, osAuth, osClock, remoteTree, osLog, osTaken>>

(* Any request may fail; one whose token has expired does.                  *)
RequestFails == osPc \in {"post", "poll", "logs"} /\ OsFails

RequestIsRefused == ~Authorised /\ RequestFails

(* Mutated form: nothing but a final state ends the poll.                   *)
PollForever ==
  /\ osPc = "poll" /\ Authorised
  /\ osJob \in {"succeeded", "failed"} /\ osPc' = "logs"
  /\ UNCHANGED <<osTask, osTrees, osAuth, osClock, osService, osTaken>>

(* A poll that is answered: a final state, or none and the deadline tells   *)
(* whether to wait on.                                                      *)
OsPoll ==
  /\ osPc = "poll" /\ Authorised
  /\ IF osJob \in {"succeeded", "failed"} THEN osPc' = "logs"
     ELSE /\ osNow >= osDeadline
          /\ osPc' = "failed"
  /\ UNCHANGED <<osTask, osTrees, osAuth, osClock, osService, osTaken>>

(* parse_marked_result: the last marked line of the log.                    *)
Marked == {i \in DOMAIN osLog : osLog[i].marker}
LastOf(S) == CHOOSE i \in S : \A k \in S : k <= i
FirstOf(S) == CHOOSE i \in S : \A k \in S : i <= k

(* Mutated form: the first marked line.                                     *)
FirstMarked == osLog[FirstOf(Marked)].tree

parse_marked_result == osLog[LastOf(Marked)].tree

ReadLogs ==
  /\ osPc = "logs" /\ Authorised
  /\ IF osJob = "succeeded" /\ Marked # {} /\ ensure_payload_size(parse_marked_result)
     THEN /\ osPc' = (IF osRole = "candidate" THEN "clear" ELSE "verdict")
          /\ osResult' = parse_marked_result
          /\ osWriting' = parse_marked_result
     ELSE osPc' = "failed" /\ UNCHANGED <<osTaken>>
  /\ UNCHANGED <<osTask, osTrees, osAuth, osClock, osService>>

(* execute_judge: the answer must have the schema and pass                  *)
(* validate_judge_result.                                                   *)
TakeVerdict ==
  /\ osPc = "verdict"
  /\ osPc' \in {"done", "failed"}
  /\ UNCHANGED <<osTask, osTrees, osAuth, osClock, osService, osTaken>>

(***************************************************************************)
(* RemoteTree::replace: everything is removed, then the files are written  *)
(* one by one; an error leaves what has been done.                         *)
(***************************************************************************)
ClearOne ==
  /\ osPc = "clear" /\ localTree # {}
  /\ \E f \in localTree : localTree' = localTree \ {f}
  /\ UNCHANGED <<osTask, osPc, sentTree, osAuth, osClock, osService, osTaken>>

(* std::fs::write, then set_owner_only_file, whose second parameter says    *)
(* whether the file is read-only: an executable is written with mode 0400,  *)
(* anything else with mode 0600.                                            *)
WrittenFile(f) == IF f.kind = "exec" THEN [f EXCEPT !.kind = "readonly"] ELSE f

WriteOne ==
  /\ osPc \in {"clear", "write"} /\ (osPc = "clear" => localTree = {})
  /\ IF osWriting = {} THEN osPc' = "done" /\ UNCHANGED <<osTask, localTree, osWriting>>
     ELSE \E f \in osWriting :
            /\ localTree' = localTree \cup {WrittenFile(f)} /\ osWriting' = osWriting \ {f}
            /\ osPc' = "write"
  /\ UNCHANGED <<osTask, sentTree, osAuth, osClock, osService, osResult>>

ReplaceFails == osPc \in {"clear", "write"} /\ OsFails

OsClient ==
  \/ OsConnect \/ OsCapture \/ CaptureFails \/ OsPost \/ RequestIsRefused
  \/ OsPoll \/ ReadLogs \/ TakeVerdict \/ ClearOne \/ WriteOne

OsFaults == ConnectIsRefused \/ PostAnswerLost \/ RequestFails \/ ReplaceFails

(***************************************************************************)
(* The invocation: the script writes the trees, runs the Candidate (or the *)
(* Judge) to its end, and prints the result, within the envelope, as the   *)
(* last thing.                                                             *)
(***************************************************************************)
JobStarts ==
  /\ osJob = "queued"
  /\ osJob' = "running" /\ remoteTree' = sentTree
  /\ UNCHANGED <<osTask, osPc, osTrees, osAuth, osClock, osLog, osTaken>>

(* What a Candidate may leave: its files changed, or new ones; and what it  *)
(* prints may look like a result (one line at most).                        *)
CandidateWorks ==
  /\ osJob = "running" /\ osLog = <<>>
  /\ remoteTree' \in OsTrees
  /\ osLog' \in {<<>>} \cup {<<[marker |-> TRUE, tree |-> t]>> : t \in {EmptyTree, sentTree}}
  /\ UNCHANGED <<osTask, osPc, osTrees, osAuth, osClock, osJob, osTaken>>

JobReports ==
  /\ osJob = "running"
  /\ IF OsCaptured(remoteTree) /\ ensure_payload_size(remoteTree)
     THEN osJob' = "succeeded" /\ osLog' = Append(osLog, [marker |-> TRUE, tree |-> remoteTree])
     ELSE osJob' = "failed" /\ UNCHANGED osLog
  /\ UNCHANGED <<osTask, osPc, osTrees, osAuth, osClock, remoteTree, osTaken>>

JobFails ==
  /\ osJob \in {"queued", "running"}
  /\ osJob' = "failed"
  /\ UNCHANGED <<osTask, osPc, osTrees, osAuth, osClock, remoteTree, osLog, osTaken>>

(* The clock, bounded before the request and by the deadline after it.      *)
OsTick ==
  /\ osNow < StepTicks \/ (osPc = "poll" /\ osNow < osDeadline)
  /\ osNow' = osNow + 1
  /\ UNCHANGED <<osTask, osPc, osTrees, osAuth, osDeadline, osService, osTaken>>

OsNext ==
  /\ osPc \notin {"done", "failed"}
  /\ OsClient \/ OsFaults \/ JobStarts \/ CandidateWorks \/ JobReports \/ JobFails \/ OsTick

(* The files of a tree, whatever their modes.                               *)
OsContents(t) == {<<f.path, f.version>> : f \in t}

(***************************************************************************)
(* A step that succeeds has taken what the script reported last, whatever  *)
(* the Candidate printed, and a Candidate's step leaves on the host the    *)
(* files and contents that the invocation had when the Candidate had ended *)
(* (their modes are lost: WrittenFile); a host workspace that is only      *)
(* partly replaced is never taken for its work; and the workspace is as it *)
(* was sent until a whole result has been read.                            *)
(***************************************************************************)
StepYieldsWorkspace ==
  /\ osPc = "done" => osJob = "succeeded" /\ osResult = remoteTree
  /\ osPc = "done" /\ osRole = "candidate" => OsContents(localTree) = OsContents(remoteTree)
  /\ osRole = "judge" => localTree = sentTree \/ sentTree = EmptyTree
  /\ osPc \in {"connect", "post", "poll", "logs"} => localTree = sentTree
=============================================================================
