---------------------------- MODULE MCCandidate ----------------------------
(***************************************************************************)
(* The Candidate side of a run for TLC: the containerized Codex Candidate, *)
(* the sidecar's relay and its proxy, the run loop with the stop review,   *)
(* the Docker runtime, the A3S OS runtime and the export of the workspace. *)
(* They run in processes of their own and share no state, so a behaviour   *)
(* is one of `focus`, from all its initial states, while the others stay   *)
(* in one initial state.                                                   *)
(***************************************************************************)
EXTENDS MCCodexRun, TunnelRelay, ConnectProxy, StopReview, DockerRuntime, OsInvocation,
        WorkspaceExport

VARIABLE focus   \* the part that runs

candidateVars == <<focus, vars, relayVars, proxyVars, reviewVars, dockerRunVars, osVars, exportVars>>

MCImports == <<"i1", "i2">>

Focus(part) == focus = part

(* The parts that are not in focus.                                         *)
CandidateRests ==
  /\ ~Focus("review") => options = CHOOSE o \in Options : TRUE
  /\ ~Focus("os") => /\ osRole = "candidate" /\ osTimeout = 1 /\ localTree = EmptyTree
                     /\ osSession = [goodUntil |-> 0, known |-> TRUE, refreshable |-> TRUE]
  /\ ~Focus("export") => inventory = <<>>

CandidateInit ==
  /\ focus \in {"codex", "relay", "proxy", "review", "docker", "os", "export"}
  /\ CandidateRests
  /\ Init /\ RelayInit /\ ProxyInit /\ ReviewInit /\ DockerInit /\ OsInit /\ ExportInit

CodexMoves == Focus("codex") /\ Next
  /\ UNCHANGED <<relayVars, proxyVars, reviewVars, dockerRunVars, osVars, exportVars>>
RelayMoves == Focus("relay") /\ RelayNext
  /\ UNCHANGED <<vars, proxyVars, reviewVars, dockerRunVars, osVars, exportVars>>
ProxyMoves == Focus("proxy") /\ ProxyNext
  /\ UNCHANGED <<vars, relayVars, reviewVars, dockerRunVars, osVars, exportVars>>
ReviewMoves == Focus("review") /\ ReviewNext
  /\ UNCHANGED <<vars, relayVars, proxyVars, dockerRunVars, osVars, exportVars>>
DockerMoves == Focus("docker") /\ DockerNext
  /\ UNCHANGED <<vars, relayVars, proxyVars, reviewVars, osVars, exportVars>>
OsMoves == Focus("os") /\ OsNext
  /\ UNCHANGED <<vars, relayVars, proxyVars, reviewVars, dockerRunVars, exportVars>>
ExportMoves == Focus("export") /\ ExportNext
  /\ UNCHANGED <<vars, relayVars, proxyVars, reviewVars, dockerRunVars, osVars>>

(* The part has come to its end, or, a proxy, has nothing to do.            *)
PartDone ==
  CASE Focus("codex") -> TRUE
    [] Focus("relay") -> relayPc \in Returned
    [] Focus("proxy") -> \A c \in Conns : handler[c] \in {"none", "closed"}
    [] Focus("review") -> loopPc = "exited"
    [] Focus("docker") -> dockerPc = "ended"
    [] Focus("os") -> osPc \in {"done", "failed"}
    [] Focus("export") -> exportRun.at \in {"done", "failed"}

(* A part that has come to its end stays there: nothing else may stop.     *)
Rests == ~Focus("codex") /\ PartDone /\ UNCHANGED candidateVars

CandidateNext ==
  /\ UNCHANGED focus
  /\ \/ CodexMoves \/ RelayMoves \/ ProxyMoves \/ ReviewMoves \/ DockerMoves \/ OsMoves \/ ExportMoves
     \/ Rests

(***************************************************************************)
(* The fairness of each part, while it is in focus.  A process that runs   *)
(* goes on, time passes and the daemon acts in time (codex); select does   *)
(* not wait for ever (relay); every wait of a handler has a deadline of    *)
(* its own (proxy); Codex exits sooner or later, or the timeout of its     *)
(* container ends it (review); docker run has a timeout, the other calls   *)
(* of docker and the one for the Judge have none (docker); the client goes *)
(* on and its clock with it, although no request has to succeed and the    *)
(* invocation need not end (os); the deadline of an export comes, whatever *)
(* docker does (export).                                                   *)
(***************************************************************************)
CandidateSpec ==
  /\ CandidateInit /\ [][CandidateNext]_candidateVars
  /\ \A r \in Runs : WF_vars(Focus("codex") /\ Proceed(r)) /\ WF_vars(Focus("codex") /\ Lands(r))
  /\ WF_vars(Focus("codex") /\ Tick)
  /\ WF_relayVars(Focus("relay") /\ RelayStep) /\ WF_relayVars(Focus("relay") /\ RelayIdles)
  /\ \A c \in Conns : WF_proxyVars(Focus("proxy") /\ HandlerStep(c))
  /\ WF_reviewVars(Focus("review") /\ LoopStep)
  /\ WF_dockerRunVars(Focus("docker") /\ TimedStep)
  /\ WF_osVars(Focus("os") /\ OsClient) /\ WF_osVars(Focus("os") /\ OsTick)
  /\ WF_exportVars(Focus("export") /\ ExportStep) /\ WF_exportVars(Focus("export") /\ DeadlinePasses)

(* Whatever its peers, the service or the daemon do or leave undone, each  *)
(* part comes to its end: the relay returns, the proxy's handlers close    *)
(* and give their slots back, the run loop exits, the OS step and the      *)
(* export succeed or fail; and the Docker run ends unless docker leaves it *)
(* for ever in one of the calls that runtime.rs does not bound.            *)
PartsEnd == []<>PartDone \/ <>[](Focus("docker") /\ AwaitsDocker)
=============================================================================
