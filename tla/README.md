# A TLA+ model of A3S Bench

A3S Bench runs *Candidates* (coding agents, models) on *Tasks* in containers, has
a *Judge* score what they leave, and keeps the evidence: journals, results,
comparisons of two Candidates over a suite. It is one Rust command, `a3s bench`,
with three helpers that run inside containers (a game server, a CONNECT proxy, a
resume loop with a stop hook). There is no server of its own: everything that
outlives a command is a file or a Docker resource, and everything concurrent is
several commands on one machine, the threads of a helper, and a Docker daemon
that acts in its own time.

The project models the parts of it where steps of several actors, failures and
order decide whether the result is right. TLC checks each model on small
instances; TLAPS proves every safety property that a passing run checks, and both
refinements, for every size: some forty theorems in eight modules.

Paths below are those of the repository: `src/run_journal.rs` is the Rust file,
`runtime_assets/...` a helper.

## 1. Inventory

| Component | State it keeps | Operations | What is hard | What makes it correct |
|---|---|---|---|---|
| Run journal (`run_journal.rs`, `state_fs.rs`) | `runs/<id>.json`, a copy in memory | begin, advance, bind_locks, complete, fail, load | a write that fails after its rename; power loss before the directory is synced | stages only move forward; a terminal journal is final; every file left behind loads |
| Result record (`result_record.rs`) | `results/<id>.json`, `results/latest`, the Codex event log | save, load, publish_latest, latest_run_id | three files that must agree; a scan of a directory others write to | a completed journal is backed by its record; `latest` names a run that can be shown |
| Run (`bench_run.rs`, `cli.rs`) | none beyond the two above | execute, result | kill or error between any two steps; `result` commands at the same time | a reported success can be shown for ever |
| Suite (`suite.rs`) | `suites/<id>/state.json` and locks | plan, resume, member loop, persist, report | sessions that die and are resumed, two sessions at once, files edited in between | no member is lost, run again or counted for another; the report compares like with like |
| Comparison (`comparison.rs`) | none | compare_pairs, token totals | overflow and gaps in sums | totals are right or unavailable |
| Codex Candidate (`codex_candidate.rs`, `codex_auth.rs`) | Docker containers, volumes, networks; a private home with credentials | sweep, stage, create, attach, stop, export, clean up | clients killed at a timeout while the daemon goes on; other runs on the host; reused pids, reboots | nothing is left behind unreported, nothing of a living run is removed, the command ends |
| Game Judge (`game_judge.rs`, `game_server_app.py`) | sessions, history, three locks | /new, /step, /close, /close-all, /history, finish | request threads against eviction and the end of the run | every game counts once, with what it ended with |
| Seeds, export, submission (`workspace.rs`, `submission.rs`) | seed cache, work trees | create, materialize_seed, export, project | the cache is published and discarded by several processes; three processes and a thread under one deadline | a seed that is used is complete; an export is what a local projection would be |
| Content-addressed caches (`oci_asset.rs`, `task_snapshot.rs`, `codex_package.rs`, `asset.rs`) | cache directories with markers and metadata | resolve, capture, prepare, load, publish, discard | sources that change while they are read, kills and power losses between two publications | what is used is whole; what was locked stays loadable |
| CONNECT proxy (`codex_connect_proxy.py`) | connection and resolver slots, two buffers per tunnel | accept, authorise, resolve, relay, shut down | back-pressure, half-closed ends, limits, slots released on another thread | bytes arrive in order or the tunnel ends; slots are never lost |
| Run loop and stop hook (`codex_run_loop.sh`, `codex_stop_hook.sh`) | a counter file, an accepted mark | resume, count a claim, accept | the counter lives across resumed sessions; its writes fail | accepted only after enough claims in a row |
| Docker runtime (`runtime.rs`, `runtime_profile.rs`, `runtime_selection.rs`) | images, import volumes, containers | pull with retries, import, run | timeouts kill the client, not the container | nothing of a step runs on or stays behind |
| A3S OS runtime (`os_runtime.rs`, `os_runtime/auth.rs`, `os_runtime/scripts.rs`) | a session token, a remote invocation | capture, post, poll, read the log, replace | deadline against a remote call that goes on; a log shared with the Candidate | the workspace that is judged is the one the Candidate left, whole |
| Model and A3S Code Candidates (`model_candidate.rs`, `a3s_code_candidate.rs`) | none | one call under a deadline | - | - |
| Legacy Judge (`legacy_judge.rs`, `judge_source.rs`) | a game server and its network | load, run, read the output, rescale | bounds of score bands, missing lines, exit codes of kills | a score is fair and comes from a Judge that ended |
| Locks and run inputs (`lock.rs`, `lock_identity.rs`, `run_input.rs`) | lock files | create, write once, load, validate | loaded long after they were made, by other code | a run uses what was locked, and a good lock loads |
| Catalog, Tasks, configuration, output | none | parsing, printing | - | - |

How they interact. `bench run` drives a run through its journal (begin, then one
write per stage), calls the Candidate and the Judge in between, saves the record,
completes the journal and publishes `results/latest`. `bench suite run` calls it
once per member and reads the records back for the comparison. `bench result`
only reads, except that it also publishes `results/latest`. A Codex Candidate
shares the Docker daemon with all other runs and finds theirs by their labels. A
game Judge's server is written to by the Candidate's container and asked for the
history by the run.

PROJECT.json lists under `hazards` the places where a test would hardly reach
what can go wrong, each with the properties that would catch it, or why none does.

## 2. Modules

```
RunJournal <- ResultRecord <- BenchRun <- BenchRunHistory
                                       <- BenchRunProofs
Comparison <- SuiteRun <- MCSuite        SuiteLedger (instance of SuiteRun)
                       <- SuiteRunProofs SuiteLedger <- SuiteLedgerProofs
GameServer <- MCGame -> LegacyJudge      GameArchive (instance of GameServer)
           <- GameServerProofs
CodexRun <- CodexRunProofs               LegacyJudge <- GameServerProofs
CandidateProofs -> StopReview, TunnelRelay, ConnectProxy, DockerRuntime, OsInvocation,
                   WorkspaceExport
HostProofs      -> SeedCache, AssetCache, TaskSnapshot, PackageCache, PackageTree,
                   PrivateHomes, Locks
Loops <- CandidateProofs, HostProofs, GameServerProofs, SuiteRunProofs
CodexRun <- MCCodexRun <- MCCandidate -> TunnelRelay, ConnectProxy, StopReview,
                                         DockerRuntime, OsInvocation, WorkspaceExport
                       <- MCHost      -> SeedCache, AssetCache, TaskSnapshot,
                                         PackageCache, PackageTree, PrivateHomes,
                                         Locks
```
(`A <- B`, `B -> A`: B extends A.) The MC modules give values to constants.
MCCandidate, MCHost and MCGame also put components side by side that share no
state: the first those that run on behalf of one Candidate, the second what the
runs of one host have in common, the third the game server and the Judges
imported with a Task. In a behaviour one of them (`focus`) moves, from all its
initial states, while the others rest in one; this is the union of their state
spaces and not the product, which would show nothing more. Each part has its own
fairness and its own end, so deadlock is checked in all of them. A
definition introduced as *Mutated form* is a plausible mistake in the one that
follows it: put in its place it must break the property it is listed for, which
shows that the property can fail.

### RunJournal, ResultRecord, BenchRun

A run is `pc[r]`, the next step of `execute_inner`, with the journal it holds in
memory, `mem[r]`. A file has two contents: `runFile`, `resFile` and `logFile` are
what a reader finds, `runSafe`, `resSafe` and `logSafe` what a power loss leaves
at the earliest. `secure_atomic_write` (AtomicWrite) writes a synced temporary
file, renames it and syncs the directory, so it may return an error with nothing
changed *or with the new content in place but not safe*. Every mutator changes
memory first, which is why `mem` and the file can disagree afterwards. The
`?`-returns of `execute_inner` all lead to the step "fail", where
`journal.fail` does nothing if the journal in memory is terminal.

`WorkFails` is everything between two journal writes that may return an error
(preflight, lock loading, the Candidate, the Judge); `Kill` ends the process,
`PowerLoss` ends all of them and lets each file fall back by itself. A `result`
process is a `reader`: the scan of `runs/` returns the entries in any order, one
step each, must return those there when it was opened and may return later ones.

Taken as durable: the directories `runs/` and `results/` themselves. AtomicWrite syncs
the parent of the file and nothing above it (`state_fs.rs:8,72,96`), so a power loss
during the very first run of a project may take a new directory with everything in it;
the model starts after that run.

Left out: the contents of records beyond the locks, the digest and the event log
they name; the text of errors. Run identifiers are numbers ordered as the strings
are (`latest_run_id` breaks ties by them).

### Comparison, SuiteRun, SuiteLedger

Comparison is `compare_pairs` as operators over records reduced to the fields it
reads; that a recorded score is a finite number (`parse_score`) is taken for granted. In SuiteRun a session is a process of `bench suite run`: it plans the
suite (one atomic rename of a staged directory) or resumes it, then takes the
first member without a run, loads its locks, runs it, and writes the whole
`state.json` from its own memory. Nothing in the code keeps two sessions apart.
A member run is what BenchRun promises: success leaves a result that loads for
ever, failure may leave one too; whether it ends at all is up to its Judge and to
`docker pull`, which nothing bounds. The environment edits the suite ACL, puts
another valid lock in the place of one, kills sessions and loses power; since the
rename of a planned suite is not followed by a sync of its parent, the suite may
then be gone.

SuiteLedger is the promise: each member is recorded once, with a run no other
member has, and a comparison is printed only of a full ledger. SuiteRun is shown
to implement it, with the ledger mapped to the slots of `state.json`, when
sessions follow one another.

### CodexRun

A run of `execute()` in `codex_candidate.rs`, with the run's Docker resources in
`docker[r]` and its running containers in `running[r]`. A client that is killed
at its timeout leaves a request (`late[r]`) which the daemon carries out within
`LateBy` ticks or never. The cleanup guard retries until one pass removes
everything or, when a mutation is pending, until it has seen nothing for a whole
window without a gap; it gives up at its deadline, is tried once more in `drop`,
and only a confirmed cleanup lets the private home go. The sweep at the start
takes a run for alive if its boot id, pid and start time match `/proc`.

Every resource a run makes carries its label: the model has no volume that a
late `docker create` makes again without one.

Assumed of Docker (external): a `docker start` that the daemon acts on has been acted on
by the time its client gives up (Attach); an abandoned request to create or remove takes effect in less than the
window, which is what the constant `PENDING_MUTATION_STABLE_ZERO` expects
(`DaemonIsPrompt`); a volume is not removed while a container that mounts it
exists; resource names of two runs never collide.

### GameServer, GameArchive

The FastAPI handlers of `game_server_app.py` as threads. What a handler does under
`state.lock` or `session.lock` is one step; between the steps other threads run.
`new_lock` is a variable of its own because /new keeps it over several steps.
`judge` is `GameSession::finish`: /close-all, one session after the other, then
/history. `Lingers` says whether requests still come in meanwhile: the container
of a Candidate is removed before, the sandbox of a model Candidate that timed out
is not. The game engine is external: it returns any score, a negative one too, or
raises; the server makes an integer of it. The server never holds `session.lock` and
`state.lock` together, and takes either under `new_lock` only in /new, so what a handler
does under one of them is one step.

`sessions` is a set: Python's dict keeps insertion order, and games are inserted
in the order of their numbers (under `new_lock`), so the oldest is the least.

GameArchive is what the server is to the Judge: games are started, played until they
are archived, archived once, and the best score of the archive is reported; no
threads, registry or locks. GameServer implements it with `played` mapped to the
scores and moves of its games, `archive` to the history and `reported` to the score of
what finish() has read. A move that the engine breaks off is a move of GameArchive, a
move that comes too late is none.

### SeedCache, AssetCache, TaskSnapshot, PackageCache, PackageTree, PrivateHomes

Five directories that several commands share without a lock. A directory is the
set of its files, with its marker or metadata, so a reader may meet any part of
one that is being removed or copied entry by entry. Each process is one command
with its own staging directory; `Kill` ends it anywhere, and a power loss leaves
any part of what was not synced.

* SeedCache: `create` and `materialize_seed`. Two things tear a published tree: a process
  that found the path invalid a moment before removes what another has published there
  since, and a power loss, which may take any of the files and leave the marker, the only
  thing that is synced. Either may happen at any time and any number of times. `seedTorn`
  names the trees this has happened to, and `torn` the runs that then listed one: only
  these get a part of the seed, and they are not told.
* AssetCache: `resolve` as a Docker image, then as an ORAS artifact; the tag may move
  between the steps.
* TaskSnapshot: an editor changes files between the steps of a capture; snapPast
  is the set of trees the source has been.
* PackageCache: tree and metadata are published in two directories; commands
  prepare, reseal, load and mount, while the installation is upgraded and modes
  drift. PackageTree is the same code seen from one tree: verification, copy, seal
  and mount over entries with content, size, links and modes, for a good tree and
  every deviation from it. A load reads the whole copy before it reseals it, so a mode
  that closes a file, or the directory it is in, to its owner is not repaired.
* PrivateHomes: the stale-home scan against runs that create, mark, fill and
  remove theirs.

### WorkspaceExport

`docker cp`, the pump and `tar` are three actors with a pipe of one block between
each two; the caller polls them in the order of the code and stops at a deadline.
`Projected` is `submission::collect_terminal_files`, the reference the export must
agree with.

### TunnelRelay, ConnectProxy, StopReview

The sidecar's relay counts bytes; the peers send, read and close as they please.
The proxy is the accept loop and one handler thread per connection; the two
semaphores are variables. StopReview is the run loop and the stop hook with the
two files between them; Codex is the environment.

### DockerRuntime, OsInvocation

A `docker run` is a client that asks the daemon to create and start a container;
killing it stops what it would still ask for. It may also end with an error of its own
while the container is still to be created, created or running, and then the code removes
nothing. The daemon answers in its own time, also to a client that is gone, and makes the
volumes a container names that are not there; a `volume create` that fails may have made
its volume. TimedStep is what the run does by itself or waits for with a timeout,
UntimedCall the calls of docker it waits for without one.

OsInvocation is a step on the remote runtime: any request may fail, one may be served
although its answer is lost, the invocation may never end, and the Candidate prints to
the log the result is read from. A tree is a set of files, each a path, a version and a
kind; WrittenFile is what `set_owner_only_file` makes of an executable.

### LegacyJudge, Locks

LegacyJudge is the descriptor, the batch run with its exit codes, the parsers, the
rescaling rules and the life of a game server. The command of the container copies the
submission first, so the Judge may not be reached (`judgeReached`), with exit code 1 as
one that was; a `docker network create` or `docker run` that fails may have had its
effect. A kill of the whole command is not modelled: it leaves the server and its network,
and nothing sweeps them. Scores are exact fractions, and the
sampled raw scores include both ends of every band. Locks is the creation and the
loading of the two locks, which are different code: a digest is the record it is
computed from, so that what it does not cover can be edited unnoticed.

## 3. Runs

| Run | Instance | Shows |
|---|---|---|
| BenchRun_safety | 2 runs, 2 lock pairs, 1 event log, 1 power loss | CompletedIsBacked, JournalsReadable, SuccessIsDurable, LatestIsShowable, JournalsMoveForward, SyncedIsFinal |
| BenchRun_result | 2 runs, 1 reader, 2 clock values | LatestIsRecent with a `result` command between any two steps |
| BenchRun_failed | 1 run | *violated*: FailurePublishesNothing |
| BenchRun_older | 2 runs | *violated*: OlderRunDoesNotStealLatest |
| BenchRun_missing | 1 run, 1 reader | *violated*: MissingIsMissing |
| Suite_resume | 2 Tasks, 2 sessions one after the other, 2 suite sources, timeouts and token overflow | ImplementsLedger, ReportIsOfItsSource, ReportAddsUp, SessionsEnd (a session that runs ends unless a member run never does) |
| Suite_overlap | 2 Tasks, 2 sessions at once, 1 lock replaced, 1 power loss | RecordedIsOwn, ReportIsFair |
| Suite_replaced | 2 sessions, 1 lock replaced | *violated*: ReplacedLockFailsClosed |
| CodexRun_life | codex: 1 run of a restricted Task, window 3, deadline 4, late by up to 2 ticks, 1 reboot; relay: buffers of 2, limit 5, 3 units sent each way; proxy: 2 connections, 1 slot; review: limit 3, 2 resumes, 6 stops; docker: 2 imports, 2 pulls; os: 2 paths, 2 ticks; export: 3 files, limits 2 files, 1 block | RemovedIsGone, SuccessIsClean, RunsEnd; RelayIsFaithful; ProxyIsSound; ReviewIsEarned; RunLeavesNothing; StepYieldsWorkspace; ExportIsProjection; PartsEnd of all but the first |
| CodexRun_sweep | codex: 2 runs, 2 pids, 2 boots; 2 processes each for seeds, assets (2 versions), snapshots (2 files, 3 trees), packages (2 versions) and homes (and 1 old home); all deviations of a package; some 300 cases of locks with one edit or change | SweepClears, SweepSparesTheLiving; SeedIsWhole; AssetIsWhole; SnapshotIsTrue; LockedIsLoadable; PackageSurvives; CredentialsAreOwned; LockIsBinding |
| Game_judge | server: 2 threads, 2 active sessions, 3 games, scores -1 and 0, requests to the end; judge: all descriptors | EveryGameOnce, ImplementsArchive, CapacityKept, BestOfArchived, Answered; JudgeIsSound |
| Game_inflight | 2 threads, 1 active session | *violated*: BestScoreCounts |

Deadlock is checked everywhere: a state in which every actor has ended has the
explicit step Finished (Rests in MCCandidate, MCHost and MCGame).

Why the bounds are enough. Runs only meet in `latest` and in the scan, both
pairwise, so two runs show every order of two writes; a second power loss meets
only processes that begin after the first, since the first ends all others. Two
clock values give equal and different completion times. Two Tasks make the two
sides of two pairs, five run identifiers leave one for a run that is never
recorded. Two sessions are what a lost update needs. In CodexRun one volume
stands for three or four that are created and removed alike; the window is one
tick longer than the daemon may be late and the deadline one longer than the
window, so that cleanup both succeeds and gives up. Three games over two places
make an eviction; two threads are what each pair of handlers needs, and finish()
is a third actor. Two processes are what the caches need: one that publishes or
removes and one that uses. Two files make a tree that can be partial, two versions
an upgrade or a moved tag. A buffer of two, a limit of five and three units in
each direction reach a full buffer, the limit within a chunk, and an orderly end.
One slot for two connections makes one refused while the other holds it. A review
limit of three needs two stored counts, and six stops let a count be broken and
begun anew. Three files of sizes around the limits make an export skip one and
keep a later one. Every single edit of a lock is tried; two at once are not.
Symmetry (Suite_overlap, CodexRun_sweep) is over constants that
nothing orders, in runs without liveness; the processes of each part of
CodexRun_sweep have the names of the Codex runs, so that one symmetry is theirs too.

Fairness. FairSpec of SuiteRun: a session goes on with what it does by itself (OwnStep);
nothing makes a member run end, because a run waits for `docker pull` and for the Docker
Judge without a timeout (`runtime.rs:29`, `runtime.rs:507`), so SessionsEnd says that a
session that runs ends unless it stays in one member run for ever. FairSpec of CodexRun: a
process goes on, time passes, and the daemon acts on a request in time or drops it; its
Docker commands all carry a timeout. FairSpec of GameServer: a handler that has begun goes
on, as does finish() (JudgesSpec says the same while the server has the focus); nothing
says that requests ever come, and a /new that waits for `new_lock` has not begun.
CandidateSpec adds: select does not wait for ever, every wait of
a proxy handler has its own deadline, Codex exits or its container is stopped at the
timeout, the OS client goes on and so does its clock although no request need succeed, the
deadline of an export comes whatever Docker does. Of the Docker runtime only what the code
bounds is fair (TimedStep): a `docker run` of an import or of the Candidate ends at its
timeout. `docker pull`, `volume create`, `rm`, `volume rm` and the Judge are not, and
PartsEnd says that this part ends unless it waits in one of them for ever (AwaitsDocker).
Kills, new sessions and requests are never fair. BenchRun has no liveness property: each
step of a run is bounded by its work alone.

### Findings

* **BenchRun_failed.** `publish_latest` comes after `journal.complete`, and
  `complete` itself can fail after its rename. The command then reports an error
  for a run whose score is published. `docs/design.md` says a failed command never
  publishes one.
* **BenchRun_older.** `publish_latest` overwrites `results/latest` on completion;
  `docs/design.md` says that completing an older run does not steal it back.
* **BenchRun_missing.** `result <id>` looks for the record, then for the journal; a
  run that completes in between makes it report a missing result that is there.
* **Suite_replaced.** `state.json` binds the suite digest but not the locks. Another
  lock of the same Candidate and model put in the place of one enters the
  comparison unnoticed; `README.md` says that it fails closed.
* **Game_inflight.** A request that plays the last move of a game takes the session
  out of the registry before it archives it. If /close-all and /history come in
  between, the game does not count; the prompt promises the best of all sessions.

Met while modelling and visible in the models, without a run of their own:

* `load_locks` asks the Codex package cache for every lock with a product. An A3S
  Code lock has a product and no package, so it passes `load_candidate` and is
  then refused: no A3S Code Candidate can run (`run_input.rs:132`). NothingInTheWay in
  Locks counts that protocol as something in the way, so LockIsBinding says nothing
  against this refusal.
* `write_exclusive` fills a lock in place. A killed command leaves a part of a lock,
  which no later command replaces; loads refuse it (`lock.rs:504`).
* A preparation that saw no package is refused if another publishes package and
  metadata before it looks for metadata (`codex_package.rs:167`), while the test
  `concurrent_preparation_converges` expects both to succeed.
* Assets are resolved to a digest and then fetched by reference, so a tag that moves
  in between stores another version under the digest (`oci_asset.rs:41`); a failing
  copy of `/agent.md` is not noticed and the package stays under its digest without
  it (`oci_asset.rs:57`).
* A file above the limit for one file makes its archive fail at the pump, at `docker
  cp` or at `tar`, in the order in which the monitor looks: the export then skips the
  file or fails as a whole (`workspace.rs:602`), where `CHANGELOG.md` says skip.
* A removal by `remove_tree` may take the ownership marker before the credentials; if
  the process dies there, no later sweep recognises the home.
* An End marker before the Start marker makes the slice in `extract_structured`
  panic (`legacy_judge.rs:294`). Game networks and import volumes carry no label, so
  what a killed run leaves of them, or a network whose create failed too late
  (`game_judge.rs:119`), is never swept.
* A seed whose tree loses files to a power loss keeps its synced marker, and
  `valid_seed_cache` accepts what is left for every later run. The comment at
  `workspace.rs:357-362` drops the sync of the tree because it "can be regenerated if lost
  to a crash" and because "a single directory sync after the rename is sufficient"; nothing
  regenerates it, and there is no such sync after the rename. Likewise a run that lists a
  tree another run is removing (`workspace.rs:308`) gets a part of it without an error.
* A workspace that comes back from A3S OS has lost its execute bits: `os_runtime.rs:214`
  passes `file.executable` as the parameter `read_only` of `set_owner_only_file`
  (`state_fs.rs:294`), so an executable is written with mode 0400.
* A cached package with a file its owner may not read, or below a directory he may not
  search, is an error for ever: `verify_cached_root` opens every file before
  `reseal_cached_tree` would set the modes (`codex_package.rs:247`).
* A docker client that fails by itself leaves its container to run on: `docker rm -f` is
  called after a timeout only (`runtime.rs:400`, `runtime.rs:421-435`). A volume whose
  create failed is not on the list that Drop works off (`runtime.rs:174-184`).
* The command of a batch Judge is `cp -R ... && timeout ...` (`legacy_judge.rs:219-232`).
  When the copy fails it ends with exit code 1, which `classify_judge_exit` takes for a
  Judge that completed: the Candidate gets 0, and under `score_sum` with a `min_linear` rule
  whose lower bound is positive full marks. `docs/design.md:2021` says "infrastructure and
  Judge failures are never reported as Candidate scores".
* After the deadline of an OS step the invocation goes on remotely, and an answer to
  the POST that is lost leaves one that nobody polls.

The passing properties next to them say what does hold: LatestIsShowable and
LatestIsRecent of the pointer, ReportIsFair of a report, BestOfArchived of the
score.

## 4. Proofs

Each theorem is `Spec => []P`, or `Spec => P` for an action property and for a
refinement; PiecewiseIsFair is about an operator. Nothing is assumed but the named
ASSUMEs of the modules, which TLC evaluates on every run:

* bounds and sizes are numbers, positive where the code has a positive constant; the
  sidecar's buffer is no larger than what a tunnel may carry (RelayBounds); the export
  policy passes its own validation (ExportPolicy);
* "nothing" is not a value: NilIsNo..., NoDirIsNone, NoAssetIsNone, NoLockIsNone,
  NilIsNoThread;
* names do not collide: Docker resources of a run (VolumesDiffer), private homes
  (HomesDiffer), import volumes, which are not named like the Candidate's container
  (ImportNamed);
* a score of a game is an integer, as `int()` makes it, of either sign (ScoreAssumption);
* the daemon acts on an abandoned request within the window (DaemonIsPrompt), which is
  the one assumption about another program, and the one the constant in the code
  makes;
* there are finitely many suite sessions (in SuiteConstants), so that "at most MaxAlive
  at a time" counts them; what a member run ends with is an integer score, a flag and a
  number of tokens, or none;
* a file of a package may have at least one byte and a package has some limit
  (PackageLimits);
* a Task with schema v1 has no hosts, and the protocol of a Candidate is one of three
  (LockCasesAre; `task.rs` refuses the rest when it parses).

The parts that MCCandidate, MCHost and MCGame put side by side are proved one by one, each of
its own specification (PkgSpec, SeedSpec, ProxySpec and so on, the initial predicate
and next-state relation that CandidateSpec, HostSpec and JudgesSpec take while that part has the
focus), since they share no state.

**BenchRunProofs** (any number of runs, readers, locks, digests, logs, losses):
TypeCorrect, CompletedRunsAreBacked, JournalsAreReadable, ReportedSuccessIsDurable,
LatestCanBeShown, JournalsOnlyMoveForward, SyncedStays, LatestIsFound. CompletedIsBacked
is not inductive: that the record agrees with the journal when it is completed follows
from what happened steps before. The invariant `RunInv` therefore says, of each run:
nothing of it exists before it begins (Untouched); until something fails, memory, file
and safe file of the journal are the same, in the stage its process has reached
(InStep); the log is safe while the run goes on, and the record is and binds the locks
in memory once it is saved (SavedSoFar); whatever is on disk is well formed (Readable);
a completed journal is backed, in both contents of the file (Backed). A step of one
run leaves the others alone (StepOfAnother), so each action is a lemma about one
run; a power loss picks one of two contents, and both are backed.

LatestCanBeShown needs a second layer, `LatestInv`: every content the pointer may
fall back to names a run that is Certain, that is, has a safe record and, before
any power loss, a completed journal; a reader about to write the pointer knows
such a run. Certain is stable because a completed journal never changes again:
its process is past its last write or, if it failed, knows that it is complete.

The two action properties need `JournalInv`: what is on disk is never ahead of memory
and what is synced never ahead of what is on disk (Behind), in an order that
LaterIsOrder shows to be one. LatestIsFound needs `FreshInv`: of the runs that had
completed when a search began, those the scan has returned are no later than the best
one so far, or are the one just read, and the others are among those it must return.

**SuiteRunProofs** (any number of Tasks, sessions, lost writes and replaced locks):
RecordedRunsAreOwn, ReportsAreFair, ReportsAreOfTheirSource, ReportsAddUp. `SuiteInv`
carries, through overlapping sessions, kills and power losses, that every run named in a copy of the
slots, in memory, on disk or still synced, has a result of that very member. For sessions
that follow one another on a machine that keeps its power (MaxAlive = 1, MaxLosses = 0)
SuiteKeepsLedger is the refinement: SuiteRun implements SuiteLedger. Its invariant
`OneAtATime` adds that the one live session's slots are those of the file, and that
the slot it is about to fill is empty. With **SuiteLedgerProofs** (ComparisonsAgree, for
any set of members) it gives OneComparisonPerSuite.

ReportsAddUp needs `SumsUp`: a report is, and stays, the summary of the pairs its slots
name, since no step changes a result that a recorded slot names. What remains is about
`compare_pairs` alone. The running total of the tokens, which becomes unavailable at the
first gap and at the first overflow and never recovers, is compared with the sum over
the set of results: as long as it is a number it is the sum of what it has passed, and
sums of natural numbers only grow (SumMonotone), so it ends as a number exactly if
nothing is missing and the whole sum fits.

**CodexRunProofs** (any runs, volumes, pids, boots, and times with LateBy < Window):
RemovedStaysGone, ReportedRunsAreClean, SweepsAreComplete, SweepsSpareTheLiving.
`CodexInv` relates what a run, its guard, the daemon and other runs' sweeps know: a request in the daemon's hands is known as
pending to the guard, and is at least as old as the stretch in which the guard has seen
nothing; a confirmed cleanup means nothing is there and nothing is late (Guarded); two
living runs never have one pid, and the labels of a run that is gone lead to no process
(PidsDiffer, Named); what a sweep has seen of a dead run
is removed or still on its list, and no late request can bring it back (Sweeping).

**GameServerProofs** (any threads, limit, scores and bounds): TypeCorrect,
GamesAccountedFor, ArchiveFinal, LimitHolds, BestIsArchived, ServerKeepsArchive, and of
LegacyJudge PiecewiseIsFair and JudgesAreSound. The strengthening: whoever is
about to archive a game has an entry that equals what the game ended with, and the game
is shut (EntriesFinal), so that no later move changes it; the thread that holds
`new_lock` has room for the game it will create (Room), which is what makes the
limit hold although sessions are counted before and registered after. BestIsArchived
uses that what finish() has read is the history (ReadIsHistory), and that a maximum of a
finite set of integers exists, whatever their signs.

ServerKeepsArchive is the refinement, one lemma per handler: a move needs an open
environment, which no archived game has (MoveArchives); what joins the history is the
game as it is now, and no other entry is of it (JoinArchives); taking a game out of the
registry, making its entry and shutting it are steps GameArchive does not see. That the
score is read once uses that nothing is read before (UnreadYet).

JudgesAreSound covers all descriptors and outputs of LegacyJudge and every timeout
and number of looks. `JudgeInv` ties the steps of a run together: what of the game
server is in Docker at each step, or was left by a create that failed (GameInStep), and
that a batch Judge has no score before it has run, and a reachable address if it asks a
model (BatchInStep). That no
rule rewards the worse raw score is proved of each rule for all values of its
parameters, up to their order (LinearIsFair, MinLinearIsFair, InverseIsFair and so on);
of the logarithm only that it rises is used. PiecewiseIsFair is the hardest of
them and says so for any four points, ordered or not: bands meet at the points, each
band stays between the scores of its ends, and of two raw scores the better one is
never in a lower band.

**HostProofs** (any number of processes, files, versions, homes and edits):

* SnapshotsAreTrue: the argument is that of a double collect. A content does not come
  back, so a file the second digest finds as the first did was the same at the instant
  between them when the source was listed again. The invariant names that instant
  (WasWhole): while a capture digests for the second time, some tree of the past lies
  between its first digest and the source, and equals the digest wherever it has looked.
  The copy plays no part in it beyond being equal to the digest.
* PackagesSurvive: `TreeInv` says that a copy in the cache has exactly the verified files
  and a manifest that is written anew (IsCopy), whatever its modes, so that it verifies
  as its source did as long as its owner can read it (CopyVerifies). The limit on the bytes of a package carries over
  from the source, whose manifest is never smaller than the one that is written
  (CopyFits, by SumMonotone).
* LockedPackagesLoad: from its verification on, a command's package stays until the power
  fails (`PkgInv`), which is what makes metadata and tree, published in two renames, agree.
* CredentialsStayOwned: `HomeInv` says what each step of a run finds in its home and that
  nobody removes the home of a run that may still fill it.
* SeedsAreWhole: what the runs publish is plain and, unless that very tree is torn, whole
  and marked, while a cache from before has no marker (CacheInv); a run stages its own only
  when that one is gone or replaced (Replaced), so whoever removes anything else has torn
  it; and a run that copies has every file either copied or still to copy, or knows that
  its tree was torn when it was listed (SeedRunInv). A power loss takes files and runs
  alike, and the runs that come after it start from the same invariant.
* AssetsAreWhole: `AssetInv` is guarded as a whole by "torn or", since after a tear any
  part of a package may be missing.
* LocksBind: creation wrote what was asked (LockCreation), field by field (TaskAsked,
  CandidateAsked); a lock with its old digest agrees with what was made in every field
  the digest covers, and validation pins the others (TaskBinds, CandidateBinds), although
  the digests of v1 and v2 cover fewer fields than the locks have; conversely, every lock
  that creation accepts loads while nothing is in the way (MadeLoads). The two validations
  are separate code, so both directions go through all their conditions.

**CandidateProofs** (any limits, connections, bytes, imports, files and timing):

* ReviewsAreEarned: there is no count before there is a review directory, so a stop the
  hook could not note leaves none that runs ahead of the claims; the two argument vectors
  differ only in the prompt and in how the session is found.
* TunnelsAreFaithful: bytes are conserved per direction (Conserved); a full buffer has no
  interest in reading and only the event of its own socket fills it (RoomToRead), so a
  read without capacity means that the allowance is used up, not the end of a stream.
* ProxiesAreSound: free slots and holders add up, for both semaphores (SlotsAddUp); each
  step of a handler has behind it the checks before it (Checked).
* DockerRunsLeaveNothing: what the daemon has of a container follows what its client has
  asked (Follows), and one that has been started is waited for or lost (NothingRunsOn); a
  Candidate that completed has nothing behind it that the daemon may still act on
  (OneContainer); every volume is in the list of those to be dropped, or lost, or may be
  made by a create that is under way (VolumesListed).
* StepsYieldWorkspaces: the result that is taken is the last one printed by the script,
  and what has been written is, but for the modes, that result without what is still to be
  written (JobInStep, ResultInStep, HostTree).
* ExportsAreProjections: between two files, what is kept is what the limits take of the
  files so far (KeptIsTaken); during one, blocks sent, in the pipes, moved and unpacked
  add up (PipeAddsUp), so that an end of file means a whole file whichever of the three
  processes ends first.

**Loops** holds what replaces induction. LeastNumber gives the least number for which a
statement would fail; UpTo is induction up to a bound for a set; OverSubsets is the same
over the subsets of a finite set. LoopExists says that a recursive function over a
sequence exists and is its own equation (IsLoop): this is why `resolve_global_targets`,
Candidates and Projected are recursive functions, in LET, and not RECURSIVE operators.
SumExists does so for the fold that MapThenSumSet is, with the summand as a function
(IsSum); SumTakesOut, SumMonotone and SumOfFunction are what is needed of sums.

What attempts at proofs corrected. In SeedCache a process still removing an earlier
tree counted as one removing the tree published since, whose marker it never touches
(BeingRemoved now compares the target with who published); in DockerRuntime a client
could ask to start a container that was running or gone (ClientAsks); in Locks the history variable lockResealed forgot
an earlier reseal when a later edit was made without one, which made LockIsBinding false
for three edits while the run makes fewer (it now accumulates).

Only model-checked: SessionsEnd, RunsEnd, PartsEnd and Answered, which are liveness under
fairness and out of the provers' reach, and the five properties that are violated.

## 5. Not modelled

* Catalog, Task, suite and configuration parsing, and output (`catalog.rs`, `task.rs`,
  `config.rs`, `acl_schema.rs`, `output.rs`, `main.rs`): functions of local files without
  state, order or failure beyond an error return.
* Model and A3S Code Candidates: one call into a library or a command that is not
  part of the repository, under a deadline; their usage accounting is parsing.
* Of `codex_candidate.rs`: command lines, the redaction of logs, the accounting of
  usage and the event log's contents; the volumes a late create makes again; an
  inspection slower than the window.
* Of `runtime.rs`: preflight, command lines, and which metrics of a Judge's answer are
  valid. Of the proxy: bytes of headers and of
  TLS records. Of `legacy_judge.rs`: floating-point rounding.
* Of `game_judge.rs`: a kill of the command between the start of a game server and its
  removal. Of AtomicWrite: the directory entries of `runs/` and `results/` (section 2).
* Digests are values: equal content has the same one, other content another.
* A process the Candidate leaves behind in an OS invocation, which could print after
  the script's result.

## 6. Plan

What remains, in this order:

1. One abstract write-once store that SeedCache, AssetCache and PackageCache implement
   as long as nothing is torn; its promise, proved once.
2. CodexRun with the mounts of each container, for the volumes a late request
   creates again without a label.
