----------------------------- MODULE StopReview -----------------------------
(***************************************************************************)
(* Inside the Candidate container: runtime_assets/codex_run_loop.sh runs   *)
(* Codex and resumes it, and runtime_assets/codex_stop_hook.sh, which      *)
(* Codex calls whenever it wants to stop, lets it stop only after it has   *)
(* claimed Limit times in a row that nothing is left to do.  The two share *)
(* two files of the review directory: the count and the accepted mark.     *)
(*                                                                         *)
(* Codex is the environment: it may claim convergence or not at each stop, *)
(* it may exit at any time, and it goes on when the hook blocks it.  Any   *)
(* write of the hook may fail (a full disk); removals do not.              *)
(***************************************************************************)
EXTENDS Integers, FiniteSets

CONSTANTS Limit,       \* limit: claims in a row that are accepted
          MaxResumes,  \* max_resumes
          MaxStops     \* bound: stops reported to the hook in all

ASSUME ReviewBounds == Limit \in Nat \ {0} /\ MaxResumes \in Nat /\ MaxStops \in Nat

VARIABLES
  loopPc,         \* "codex", "between" or "exited"
  options,        \* what the script was called with
  invoked,        \* the arguments of the Codex run
  resumeCount,    \* resume_count
  elapsed,        \* the last run took at least min_runtime_for_resume
  reviewDir,      \* the review directory is there
  countFile,      \* the number in convergence-count; -1: no such file
  accepted,       \* the accepted mark is there
  claims,         \* claims in a row, as Codex made them
  stops,          \* stops reported to the hook
  why             \* the reason the loop gives for ending

reviewVars == <<loopPc, options, invoked, resumeCount, elapsed, reviewDir, countFile,
                accepted, claims, stops, why>>

(***************************************************************************)
(* The two argument vectors, which the script builds in two places.        *)
(***************************************************************************)
Options == [proxy : BOOLEAN, noWebSearch : BOOLEAN, model : {"", "spark", "other"},
            effort : {"", "high"}, noResume : BOOLEAN]

If(condition, args) == IF condition THEN args ELSE {}

run_initial(o) ==
  {"allow_login_shell=false", "bypass", "json", "hooks", "prompt"}
    \cup If(o.proxy, {"proxy environment"})
    \cup If(o.noWebSearch, {"web_search=disabled"})
    \cup If(o.model = "spark", {"no image_generation", "no summary"})
    \cup If(o.model # "", {"model"}) \cup If(o.effort # "", {"effort"})

run_resume(o) ==
  {"allow_login_shell=false", "resume --last", "bypass", "json", "hooks", "continue"}
    \cup If(o.proxy, {"proxy environment"})
    \cup If(o.noWebSearch, {"web_search=disabled"})
    \cup If(o.model = "spark", {"no image_generation", "no summary"})
    \cup If(o.model # "", {"model"}) \cup If(o.effort # "", {"effort"})

(* The loop clears what an earlier run left and starts Codex.               *)
ReviewInit ==
  /\ loopPc = "codex" /\ options \in Options
  /\ invoked = run_initial(options)
  /\ resumeCount = 0 /\ elapsed = TRUE
  /\ reviewDir = FALSE /\ countFile = -1 /\ accepted = FALSE
  /\ claims = 0 /\ stops = 0 /\ why = "running"

(***************************************************************************)
(* The hook.  Codex stops when it is not blocked, so a stop is reported    *)
(* only before the review is accepted.  A stop without a claim starts the  *)
(* count again.                                                            *)
(***************************************************************************)
HookCalled == loopPc = "codex" /\ ~accepted /\ stops < MaxStops /\ stops' = stops + 1

(* The directory cannot be made: the stop is blocked and nothing is noted.  *)
ReviewDirFails ==
  /\ HookCalled /\ ~reviewDir
  /\ claims' \in {0, claims + 1}
  /\ UNCHANGED <<loopPc, options, invoked, resumeCount, elapsed, reviewDir, countFile,
                 accepted, why>>

(* Mutated form: a stop without a claim leaves the count.                   *)
StopKeepsCount ==
  /\ HookCalled /\ reviewDir' = TRUE
  /\ claims' = 0
  /\ UNCHANGED <<loopPc, options, invoked, resumeCount, elapsed, countFile, accepted, why>>

StopUnclaimed ==
  /\ HookCalled /\ reviewDir' = TRUE
  /\ claims' = 0 /\ countFile' = -1
  /\ UNCHANGED <<loopPc, options, invoked, resumeCount, elapsed, accepted, why>>

(* A claim is counted from what the file says, or from 0; at the limit the  *)
(* mark is set and the count removed; when the mark cannot be set the count *)
(* stays one short, and when the count cannot be written it stays as it is. *)
Counted == (IF countFile = -1 THEN 0 ELSE countFile) + 1

StopAccepted ==
  /\ HookCalled /\ reviewDir' = TRUE /\ Counted >= Limit
  /\ claims' = claims + 1
  /\ accepted' = TRUE /\ countFile' = -1
  /\ UNCHANGED <<loopPc, options, invoked, resumeCount, elapsed, why>>

StopNoted ==
  /\ HookCalled /\ reviewDir' = TRUE
  /\ claims' = claims + 1
  /\ countFile' \in {countFile, IF Counted >= Limit THEN Limit - 1 ELSE Counted}
  /\ UNCHANGED <<loopPc, options, invoked, resumeCount, elapsed, accepted, why>>

(***************************************************************************)
(* The loop.  Codex exits, by its own will, after an accepted stop or      *)
(* because it failed, at once or after a while.                            *)
(***************************************************************************)
CodexExits ==
  /\ loopPc = "codex"
  /\ elapsed' \in BOOLEAN
  /\ loopPc' = "between"
  /\ UNCHANGED <<options, invoked, resumeCount, reviewDir, countFile, accepted, claims, stops, why>>

MayResume == ~accepted /\ ~options.noResume /\ elapsed /\ resumeCount < MaxResumes

ResumeCodex ==
  /\ loopPc = "between" /\ MayResume
  /\ resumeCount' = resumeCount + 1
  /\ invoked' = run_resume(options)
  /\ loopPc' = "codex"
  /\ UNCHANGED <<options, elapsed, reviewDir, countFile, accepted, claims, stops, why>>

EndLoop ==
  /\ loopPc = "between" /\ ~MayResume
  /\ why' = CASE options.noResume -> "disabled"
              [] ~options.noResume /\ accepted -> "accepted"
              [] ~options.noResume /\ ~accepted /\ ~elapsed -> "too short"
              [] ~options.noResume /\ ~accepted /\ elapsed -> "resumes"
  /\ loopPc' = "exited"
  /\ UNCHANGED <<options, invoked, resumeCount, elapsed, reviewDir, countFile, accepted,
                 claims, stops>>

LoopStep == CodexExits \/ ResumeCodex \/ EndLoop

ReviewNext ==
  ReviewDirFails \/ StopUnclaimed \/ StopAccepted \/ StopNoted \/ LoopStep

ReviewSpec == ReviewInit /\ [][ReviewNext]_reviewVars

(***************************************************************************)
(* The mark is set only when Codex made its last Limit stops with a claim, *)
(* whatever writes failed between and whether Codex was resumed between    *)
(* them; the count never runs ahead of the claims made.  Every run, resumed*)
(* or not, works under the same policy (web search, proxy, model), and the *)
(* loop gives "accepted" as its reason only for an accepted review.        *)
(***************************************************************************)
ReviewIsEarned ==
  /\ accepted => claims >= Limit
  /\ countFile <= claims /\ countFile < Limit
  /\ invoked \ {"prompt", "continue", "resume --last"} = run_initial(options) \ {"prompt"}
  /\ why = "accepted" => accepted
  /\ resumeCount <= MaxResumes
=============================================================================
