----------------------------- MODULE LegacyJudge ----------------------------
(***************************************************************************)
(* The Judges imported with a Task: src/src/judge_source.rs reads their    *)
(* descriptor, src/src/legacy_judge.rs runs a batch Judge and makes a      *)
(* score of its output, src/src/game_judge.rs starts a game server before  *)
(* the Candidate and asks it for the history afterwards.                   *)
(*                                                                         *)
(* A score is an exact fraction <<n, d>>.  The output of a Judge is the    *)
(* sequence of the lines the parsers look for, stdout before stderr.  Raw  *)
(* scores are integers; those of the logarithmic rules are chosen so that  *)
(* logarithms are integers to the base 2.                                  *)
(***************************************************************************)
EXTENDS Integers, Sequences, FiniteSetsExt

CONSTANTS
  NoScore,       \* the error of a Judge that yields no score
  MaxTimeout,    \* the largest timeout_sec there is
  ReadyLooks     \* the looks of wait_ready

ASSUME JudgeBounds == {MaxTimeout, ReadyLooks} \subseteq Nat \ {0}

-----------------------------------------------------------------------------
Fraction(n, d) == IF d < 0 THEN <<-n, -d>> ELSE <<n, d>>
AtMost(p, q) == p[1] * q[2] <= q[1] * p[2]
ZeroScore == <<0, 1>>

Clamp(q, low, high) ==
  IF AtMost(q, <<low, 1>>) THEN <<low, 1>> ELSE IF AtMost(<<high, 1>>, q) THEN <<high, 1>> ELSE q

Powers == <<1, 2, 4, 8, 16>>

Log2(n) == CHOOSE k \in 0 .. 4 : Powers[k + 1] = n

scale(numerator, denominator) == IF denominator = 0 THEN ZeroScore ELSE Fraction(numerator, denominator)

(* RescaleHint: the rule and its parameters in the order of the code; a    *)
(* source without one has the rule "none".                                 *)
RescaleHints ==
  {[kind |-> rule[1], at |-> rule[2]] : rule \in
    {<<"none", <<>>>>, <<"linear", <<1, 4>>>>, <<"linear", <<2, 2>>>>, <<"min_linear", <<4, 1>>>>,
     <<"min_linear_positive", <<4, 1>>>>, <<"min_inverse_anchor", <<2, 50>>>>,
     <<"compression_ratio_cropped_guarded", <<4, 2>>>>, <<"log_anchor", <<4, 50>>>>,
     <<"log_max", <<2, 8>>>>, <<"log_max", <<2, 2>>>>, <<"log_min", <<8, 2>>>>, <<"log1p_max", <<1, 3>>>>,
     <<"piecewise_max", <<0, 2, 4, 8>>>>, <<"piecewise_min", <<8, 4, 2, 1>>>>,
     <<"piecewise_min", <<1, 2, 4, 8>>>>, <<"piecewise_log_min", <<8, 4, 2, 1>>>>}}

RawsOf(hint) ==
  CASE hint.kind \in {"log_anchor", "log_max", "log_min", "piecewise_log_min"} -> {-1, 0, 1, 2, 4, 8, 16}
    [] hint.kind = "log1p_max" -> {-1, 0, 1, 3, 7}
    [] hint.kind = "none" -> {-1, 0, 1, 50, 100, 101}
    [] OTHER -> -1 .. 9

BandScores == <<0, 20, 80, 100>>

Within(raw, p, q) == (p <= raw /\ raw <= q) \/ (q <= raw /\ raw <= p)

(* Mutated form: a raw score that meets a point is in neither band.        *)
StrictlyWithin(raw, p, q) == (p < raw /\ raw < q) \/ (q < raw /\ raw < p)

BandHolds(raw, p, q) == Within(raw, p, q)

Transformed(n, logarithmic) == IF logarithmic THEN Log2(n) ELSE n

Ordered(at, minimize) == \A i \in 1 .. 3 : IF minimize THEN at[i] > at[i + 1] ELSE at[i] < at[i + 1]

BandsOf(raw, at) == {i \in 1 .. 3 : BandHolds(raw, at[i], at[i + 1])}

(* From the score of one point to that of the next one.                    *)
ScoreInBand(raw, at, i, logarithmic) ==
  LET t(n) == Transformed(n, logarithmic)
      d == t(at[i + 1]) - t(at[i])
      gain == BandScores[i + 1] - BandScores[i]
  IN Clamp(Fraction(BandScores[i] * d + (t(raw) - t(at[i])) * gain, d), BandScores[i], BandScores[i + 1])

piecewise(raw, at, minimize, logarithmic) ==
  IF \/ ~Ordered(at, minimize) \/ (logarithmic /\ \E i \in 1 .. 4 : at[i] <= 0)
     \/ (minimize \/ logarithmic) /\ raw <= 0
     \/ IF minimize THEN raw >= at[1] ELSE raw <= at[1]
  THEN ZeroScore
  ELSE IF (IF minimize THEN raw <= at[4] ELSE raw >= at[4]) THEN <<100, 1>>
  ELSE IF BandsOf(raw, at) = {} THEN ZeroScore ELSE ScoreInBand(raw, at, Min(BandsOf(raw, at)), logarithmic)

(* normalize_raw: from a raw score to percent by the rule.  The unit of    *)
(* the guarded rule is a twentieth, so that its guard is raw < 1.          *)
Percent(hint, raw) ==
  LET a == hint.at[1]
      b == hint.at[2]
      inside == raw > 0 /\ a > 0 /\ b > 0
  IN CASE hint.kind = "linear" -> scale(100 * (raw - a), b - a)
       [] hint.kind = "min_linear" -> scale(100 * (a - raw), a - b)
       [] hint.kind = "min_linear_positive" -> IF raw <= 0 THEN ZeroScore ELSE scale(100 * (a - raw), a - b)
       [] hint.kind = "min_inverse_anchor" -> IF raw <= 0 \/ a <= 0 THEN ZeroScore ELSE Fraction(b * a, raw)
       [] hint.kind = "compression_ratio_cropped_guarded" -> IF raw < 1 THEN ZeroScore ELSE scale(100 * (a - raw), a - b)
       [] hint.kind = "log_anchor" -> IF raw <= 1 \/ a <= 1 THEN ZeroScore ELSE scale(b * Log2(raw), Log2(a))
       [] hint.kind = "log_max" ->
            IF ~inside \/ a = b THEN ZeroScore ELSE scale(100 * (Log2(raw) - Log2(a)), Log2(b) - Log2(a))
       [] hint.kind = "log_min" ->
            IF ~inside \/ a = b THEN ZeroScore ELSE scale(100 * (Log2(a) - Log2(raw)), Log2(a) - Log2(b))
       [] hint.kind = "log1p_max" ->
            IF ~inside THEN ZeroScore ELSE scale(100 * (Log2(a + raw) - Log2(a)), Log2(a + b) - Log2(a))
       [] hint.kind = "piecewise_max" -> piecewise(raw, hint.at, FALSE, FALSE)
       [] hint.kind = "piecewise_min" -> piecewise(raw, hint.at, TRUE, FALSE)
       [] hint.kind = "piecewise_log_min" -> piecewise(raw, hint.at, TRUE, TRUE)

normalize_raw(hint, total) ==
  IF ~total.finite THEN ZeroScore
  ELSE LET percent == Clamp(IF hint.kind = "none" THEN <<total.raw, 1>> ELSE Percent(hint, total.raw), 0, 100)
       IN <<percent[1], 100 * percent[2]>>

-----------------------------------------------------------------------------
(* A descriptor, by the fields the code goes on with.                      *)
Descriptors ==
  {s \in [mode : {"batch", "game_server", "other"}, command : BOOLEAN, timeout : {0, 1, MaxTimeout},
          parser : {"structured_json", "score_sum", "pytest_v", "other"},
          selection : {"score_first", "pass_rate_first", "other"},
          gateway : BOOLEAN, rescale : RescaleHints] :
     /\ s.rescale.kind # "none" => s.parser = "score_sum" /\ s.selection = "score_first" /\ ~s.gateway /\ s.timeout = 1
     /\ s.mode # "batch" => s.parser = "score_sum" /\ s.selection = "score_first" /\ ~s.gateway /\ s.timeout = 1}

(* judge_source::validate.                                                 *)
ValidSource(s) ==
  /\ s.mode \in {"batch", "game_server"} /\ s.command /\ s.timeout > 0
  /\ s.selection \in {"score_first", "pass_rate_first", "valid_then_score"}

(* container_base_url: what the Judge is told of the model's address.      *)
Urls == [scheme : {"http", "ftp"}, plain : BOOLEAN, root : BOOLEAN, host : {"local", "remote"}]

container_base_url(url) ==
  IF url.scheme = "ftp" \/ ~url.plain THEN NoScore
  ELSE [host |-> IF url.host = "local" THEN "host.docker.internal" ELSE url.host,
        path |-> IF url.root THEN "/v1" ELSE "own"]

(* Lines of the output.                                                    *)
TotalLine(finite, raw) == [kind |-> "total", finite |-> finite, raw |-> raw]
JsonLine(valid, score, passRate) == [kind |-> "json", valid |-> valid, score |-> score, passRate |-> passRate]
MarkerLine(kind) == [kind |-> kind]

OutputLines(s) ==
  {TotalLine(TRUE, raw) : raw \in RawsOf(s.rescale) \ {-1}} \cup {TotalLine(FALSE, 0)}
    \cup (IF s.rescale.kind # "none" THEN {} ELSE
          {MarkerLine("start"), MarkerLine("end"), [kind |-> "summary", passed |-> 1, failed |-> 2],
           [kind |-> "summary", passed |-> 0, failed |-> 0],
           JsonLine("absent", <<50>>, <<>>), JsonLine("false", <<50>>, <<>>), JsonLine("true", <<>>, <<2>>), JsonLine("true", <<>>, <<>>)})

Outputs(s) ==
  {<<>>} \cup {<<l>> : l \in OutputLines(s)} \cup {<<l, k>> : l, k \in OutputLines(s)}
    \cup {<<MarkerLine("start"), l, MarkerLine("end")>> : l \in OutputLines(s)}

LinesOf(output, kind) == {i \in DOMAIN output : output[i].kind = kind}

extract_total_score(output) == IF LinesOf(output, "total") = {} THEN <<>> ELSE <<output[Min(LinesOf(output, "total"))]>>

(* The text between the first markers must be one JSON value; an end before*)
(* the start is a panic, which leaves no score either.  Without markers it *)
(* is the first object with a score or a pass rate.                        *)
extract_structured(output) ==
  LET objects == {i \in LinesOf(output, "json") : output[i].score # <<>> \/ output[i].passRate # <<>>}
  IN IF LinesOf(output, "start") # {} /\ LinesOf(output, "end") # {}
     THEN LET start == Min(LinesOf(output, "start"))
              end == Min(LinesOf(output, "end"))
          IN IF end = start + 2 /\ output[start + 1].kind = "json" THEN <<output[start + 1]>> ELSE NoScore
     ELSE IF objects = {} THEN <<>> ELSE <<output[Min(objects)]>>

pytest_ratio(output) ==
  LET summary == output[Max(LinesOf(output, "summary"))]
  IN IF LinesOf(output, "summary") = {} THEN ZeroScore
     ELSE scale(summary.passed, summary.passed + summary.failed)

StructuredScore(s, output) ==
  LET found == extract_structured(output)
  IN IF found = NoScore THEN NoScore
     ELSE IF found = <<>> THEN (IF s.gateway THEN NoScore ELSE ZeroScore)
     ELSE IF found[1].valid = "false" THEN NoScore
     ELSE IF found[1].score # <<>> THEN normalize_raw(s.rescale, TotalLine(TRUE, found[1].score[1]))
     ELSE IF found[1].passRate # <<>> THEN Clamp(<<found[1].passRate[1], 1>>, 0, 1) ELSE ZeroScore

parse_score(s, output) ==
  LET total == extract_total_score(output)
      missing == IF s.selection = "pass_rate_first" THEN pytest_ratio(output) ELSE ZeroScore
  IN CASE s.parser = "structured_json" -> StructuredScore(s, output)
       [] s.parser = "score_sum" -> IF total = <<>> THEN normalize_raw(s.rescale, TotalLine(TRUE, 0))
                                    ELSE normalize_raw(s.rescale, total[1])
       [] s.parser = "pytest_v" -> IF total = <<>> THEN missing ELSE normalize_raw(s.rescale, total[1])
       [] OTHER -> NoScore

(* Exit codes of docker run; -1 stands for none, and for output that is too*)
(* large.  The command is `cp -R <submission> && timeout ...`: when the    *)
(* copy fails, or the container never runs, the Judge is not reached.      *)
ExitCodes == {-1, 0, 1, 2, 124, 125, 126, 127, 137, 139, 143}
UnreachedCodes == {-1, 1, 125, 126, 127, 137, 139, 143}

classify_judge_exit(s, code) ==
  CASE code \in {-1, 125, 126, 127, 137, 143} -> "Abnormal"
    [] code = 124 -> IF s.gateway THEN "ModelGatewayTimeout" ELSE "CandidateTimeout"
    [] OTHER -> "Completed"

-----------------------------------------------------------------------------
VARIABLES
  judgeSource,  \* the descriptor
  judgePc,      \* where the run is
  judgeUrl,     \* the address of the model the container is given
  judgeReached,             \* the Judge's own command was run (history)
  judgeOutput, judgeExit,   \* what a batch Judge came to
  judgeVerdict,      \* the score, or NoScore
  gameNet, gameBox, \* the game's network (BOOLEAN) and container in Docker
  gameLooks,    \* looks of wait_ready so far
  gameLost      \* what is left in Docker: the removal failed, or none was tried

judgeVars == <<judgeSource, judgePc, judgeUrl, judgeReached, judgeOutput, judgeExit, judgeVerdict, gameNet, gameBox, gameLooks, gameLost>>
batchVars == <<judgeUrl, judgeReached, judgeOutput, judgeExit>>
gameVars == <<gameNet, gameBox, gameLooks, gameLost>>

JudgeInit ==
  /\ judgeSource \in Descriptors
  /\ judgePc = "load" /\ judgeUrl = NoScore /\ judgeVerdict = NoScore
  /\ judgeReached = FALSE /\ judgeOutput = <<>> /\ judgeExit = 0
  /\ gameNet = FALSE /\ gameBox = "none" /\ gameLooks = 0 /\ gameLost = {}

JudgeGoes(where) == judgePc' = where

(* judge_source::load; start_game comes before the Candidate.              *)
LoadSource ==
  /\ judgePc = "load"
  /\ JudgeGoes(IF ~ValidSource(judgeSource) THEN "failed"
               ELSE IF judgeSource.mode = "game_server" THEN "network" ELSE "candidate")
  /\ UNCHANGED <<judgeSource, judgeVerdict, batchVars, gameVars>>

(* start_with_parallel_sessions: docker network create.  There is no       *)
(* session to drop before it succeeds, so a network that a failing create  *)
(* has made all the same stays.                                            *)
CreateGameNetwork ==
  /\ judgePc = "network"
  /\ \/ gameNet' = TRUE /\ JudgeGoes("server") /\ UNCHANGED gameLost
     \/ /\ gameNet' \in BOOLEAN
        /\ gameLost' = IF gameNet' THEN {"network"} ELSE {}
        /\ JudgeGoes("failed")
  /\ UNCHANGED <<judgeSource, judgeVerdict, batchVars, gameBox, gameLooks>>

(* The script is written and docker run -d, which may fail and still have  *)
(* created or started the container.                                       *)
StartGameServer ==
  /\ judgePc = "server"
  /\ \/ gameBox' = "running" /\ JudgeGoes("ready")
     \/ gameBox' \in {"none", "created", "running"} /\ JudgeGoes("drop")
  /\ UNCHANGED <<judgeSource, judgeVerdict, batchVars, gameNet, gameLooks, gameLost>>

WaitReady ==
  /\ judgePc = "ready"
  /\ \/ judgePc' \in {"candidate", "drop"} /\ UNCHANGED gameLooks
     \/ /\ gameLooks' = gameLooks + 1
        /\ JudgeGoes(IF gameLooks' = ReadyLooks THEN "drop" ELSE "ready")
  /\ UNCHANGED <<judgeSource, judgeVerdict, batchVars, gameNet, gameBox, gameLost>>

(* The Candidate and the preparation around it; when they fail there is    *)
(* nothing to judge.                                                       *)
CandidateEnds ==
  /\ judgePc = "candidate"
  /\ \/ JudgeGoes(IF judgeSource.mode = "batch" THEN "gateway" ELSE "finish")
     \/ JudgeGoes("drop")
  /\ UNCHANGED <<judgeSource, judgeVerdict, batchVars, gameVars>>

Grace == 30

(* configure_model_gateway, and the timeout with the gateway's grace.      *)
ConfigureGateway ==
  /\ judgePc = "gateway"
  /\ IF judgeSource.gateway
       THEN \E url \in Urls :
              LET told == container_base_url(url) IN
              IF told = NoScore \/ judgeSource.timeout + Grace > MaxTimeout
              THEN JudgeGoes("drop") /\ UNCHANGED judgeUrl
              ELSE JudgeGoes("run") /\ judgeUrl' = told
       ELSE JudgeGoes("run") /\ UNCHANGED judgeUrl
  /\ UNCHANGED <<judgeSource, judgeReached, judgeOutput, judgeExit, judgeVerdict, gameVars>>

(* execute: docker run to its end, however long it takes.  Nothing in its  *)
(* answer tells a copy that failed from a Judge that exits with 1.         *)
RunBatchJudge ==
  /\ judgePc = "run"
  /\ \/ judgeReached' = TRUE /\ judgeExit' \in ExitCodes /\ judgeOutput' \in Outputs(judgeSource)
     \/ judgeReached' = FALSE /\ judgeExit' \in UnreachedCodes /\ judgeOutput' = <<>>
  /\ judgeVerdict' = CASE classify_judge_exit(judgeSource, judgeExit') = "Completed" -> parse_score(judgeSource, judgeOutput')
                  [] classify_judge_exit(judgeSource, judgeExit') = "CandidateTimeout" -> ZeroScore
                  [] OTHER -> NoScore
  /\ JudgeGoes(IF judgeVerdict' = NoScore THEN "failed" ELSE "done")
  /\ UNCHANGED <<judgeSource, judgeUrl, gameVars>>

(* What /history reports: the best score and the archived games.           *)
Histories(s) == [best : RawsOf(s.rescale), entries : {<<>>} \cup {<<a>> : a \in RawsOf(s.rescale)}
                                             \cup {<<a, 2>> : a \in RawsOf(s.rescale) \cap 0 .. 4}]

parse_game_history(h) ==
  IF h.best = (IF h.entries = <<>> THEN 0 ELSE Max(Range(h.entries))) THEN <<h.best>> ELSE NoScore

FinishGame ==
  /\ judgePc = "finish"
  /\ \/ \E h \in Histories(judgeSource) :
          judgeVerdict' = IF parse_game_history(h) = NoScore THEN NoScore
                     ELSE normalize_raw(judgeSource.rescale, TotalLine(TRUE, h.best))
     \/ UNCHANGED judgeVerdict
  /\ JudgeGoes("drop")
  /\ UNCHANGED <<judgeSource, batchVars, gameVars>>

(* Drop for GameSession: the container, then the network, which cannot go  *)
(* while a running container is attached; errors are ignored.              *)
DropContainer ==
  /\ judgePc = "drop"
  /\ \/ gameBox' = "none" /\ UNCHANGED gameLost
     \/ gameBox # "none" /\ gameLost' = gameLost \cup {"container"} /\ UNCHANGED gameBox
  /\ JudgeGoes("drop network")
  /\ UNCHANGED <<judgeSource, judgeVerdict, batchVars, gameNet, gameLooks>>

DropNetwork ==
  /\ judgePc = "drop network"
  /\ \/ gameBox # "running" /\ gameNet' = FALSE /\ UNCHANGED gameLost
     \/ gameNet /\ gameLost' = gameLost \cup {"network"} /\ UNCHANGED gameNet
  /\ JudgeGoes(IF judgeVerdict = NoScore THEN "failed" ELSE "done")
  /\ UNCHANGED <<judgeSource, judgeVerdict, batchVars, gameBox, gameLooks>>

JudgeNext ==
  \/ LoadSource \/ CreateGameNetwork \/ StartGameServer \/ WaitReady \/ CandidateEnds \/ ConfigureGateway
  \/ RunBatchJudge \/ FinishGame \/ DropContainer \/ DropNetwork

-----------------------------------------------------------------------------
(* The rules for which a smaller raw score is the better one; some of them *)
(* take a raw score that cannot be for a failure.                          *)
Minimizing == {"min_linear", "min_linear_positive", "min_inverse_anchor", "compression_ratio_cropped_guarded",
               "log_min", "piecewise_min", "piecewise_log_min"}

NotWorse(hint, raw, than) ==
  IF hint.kind \in Minimizing THEN 1 <= raw /\ raw <= than ELSE raw >= than

(* A better raw score never gets the lower score, at and between the       *)
(* points of every rule, and a score is between 0 and 1.                   *)
ScoringIsFair ==
  /\ \A raw, than \in RawsOf(judgeSource.rescale) : NotWorse(judgeSource.rescale, raw, than) =>
       AtMost(normalize_raw(judgeSource.rescale, TotalLine(TRUE, than)), normalize_raw(judgeSource.rescale, TotalLine(TRUE, raw)))
  /\ judgeVerdict # NoScore => AtMost(ZeroScore, judgeVerdict) /\ AtMost(judgeVerdict, <<1, 1>>)

(* No run whose exit code speaks of Docker, a kill or a model that is out  *)
(* of time is scored, and a Judge with a model is not scored without its   *)
(* result.  A failed copy is scored, exit code 1 being an ordinary one: the*)
(* score is then 0, but under a rule that takes a sum of 0 for a good one. *)
(* A printed total decides whatever the selection hint says.               *)
ScoreIsEarned ==
  judgeVerdict # NoScore /\ judgeSource.mode = "batch" =>
    /\ judgeExit \in {0, 1, 2, 124, 139}
    /\ judgeSource.gateway =>
         /\ judgeExit # 124 /\ judgeUrl.host # "local"
         /\ judgeSource.parser = "structured_json" => LinesOf(judgeOutput, "json") # {}
    /\ ~judgeReached =>
         judgeVerdict[1] = 0 \/ (judgeSource.parser = "score_sum" /\ judgeSource.rescale.kind = "min_linear")
    /\ judgeExit # 124 /\ judgeSource.parser = "pytest_v" /\ LinesOf(judgeOutput, "total") # {} =>
         judgeVerdict = parse_score([judgeSource EXCEPT !.selection = "score_first"], judgeOutput)

(* Whichever step of a run with a legacy Judge fails, its score is fair and*)
(* earned as above; and the game server and its network are gone at its    *)
(* end, each unless its own removal failed or, for the network, a create   *)
(* that failed had made it.                                                *)
JudgeIsSound ==
  /\ ScoringIsFair /\ ScoreIsEarned
  /\ judgePc \in {"done", "failed"} =>
       /\ gameBox # "none" => "container" \in gameLost
       /\ gameNet => "network" \in gameLost
=============================================================================
