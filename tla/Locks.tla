-------------------------------- MODULE Locks -------------------------------
(***************************************************************************)
(* Immutable run inputs (src/src/lock.rs, lock_identity.rs, run_input.rs): *)
(* a TaskLock and a CandidateLock are created from the artifacts captured  *)
(* by task_snapshot, each written once, and every run loads both, either   *)
(* right after it created them or, with --locked, later, on another        *)
(* Runtime and after somebody edited a field, with or without computing    *)
(* the semantic digest again.                                              *)
(*                                                                         *)
(* A digest is the record it is computed from.  Artifacts are named; what  *)
(* they contain is in lockAsk.                                             *)
(***************************************************************************)
EXTENDS Naturals, FiniteSets

CONSTANTS
  LockCases,    \* what is locked: the Task, the Candidate, the options, the Runtimes
  NoLock,       \* no value: an absent file, an option that is None
  PartialLock,  \* a file that was not written to its end
  MaxLockChanges \* bound: edits and changes of the host between creation and run

(* The kinds of Candidate and of Task there are; a Task of the first       *)
(* schema has no hosts.                                                    *)
ASSUME LockCasesAre == \A case \in LockCases :
  /\ case.agent.protocol \in {"tool", "a3s", "codex"} /\ case.task.schema \in {"v1", "v2"}
  /\ case.task.hosts # NoLock /\ (case.task.schema = "v1" => case.task.hosts = {})

(* An option that is None is no text.                                      *)
ASSUME NoLockIsNone == NoLock \notin {"malformed", "judge", "x86", "p1"}

VARIABLES
  lockAsk,    \* the case
  lockPc,     \* the step of the command that runs
  lockFile,   \* the two files: NoLock, PartialLock or a lock
  lockMade,   \* history: what the creations returned
  lockWorld,  \* the installed a3s CLI, the intact artifacts, the prepared Codex package
  lockChanges, \* how much was changed since
  lockResealed \* some edit came with a new lock_digest

lockVars == <<lockAsk, lockPc, lockFile, lockMade, lockWorld, lockChanges, lockResealed>>

Kinds == {"task", "candidate"}
LockArtifacts == {"task", "judge", "agent"}

LocksInit ==
  /\ lockAsk \in LockCases
  /\ lockPc = "task"
  /\ lockFile = [k \in Kinds |-> NoLock] /\ lockMade = lockFile
  /\ lockWorld = [cli |-> "1", store |-> LockArtifacts, package |-> "p1"]
  /\ lockChanges = 0 /\ lockResealed = FALSE

LockGoes(to) == lockPc' = to /\ UNCHANGED <<lockAsk, lockMade, lockWorld, lockChanges, lockResealed>>

-----------------------------------------------------------------------------
(* The semantic digest covers the fields of the schema's own time.         *)
TaskFieldsV1 == {"schema", "task_revision", "artifact_digest", "judge_revision",
                 "judge_artifact_digest", "judge_model", "resolved_images"}
TaskFieldsV2 == {"resources", "workspace_imports", "network_allow_hosts"}

task_identity(lock) ==
  [f \in TaskFieldsV1 \cup (IF lock.schema = "task.v2" THEN TaskFieldsV2 ELSE {}) |-> lock[f]]

CandidateFields == {"schema", "candidate_revision", "artifact_digest", "model", "product"}

(* Mutated form: the historical identity for every schema.                 *)
IdentityOfOld(lock) == [f \in CandidateFields |-> lock[f]]

candidate_identity(lock) ==
  [f \in CandidateFields \cup (IF lock.schema = "candidate.v3" THEN {"reasoning_effort"} ELSE {})
     |-> lock[f]]

(* A lock with its digest, which is none of the fields it covers.          *)
Sealed(lock, identity) == [f \in DOMAIN lock \cup {"lock_digest"} |->
                             IF f = "lock_digest" THEN identity ELSE lock[f]]

-----------------------------------------------------------------------------
Efforts == {"none", "minimal", "low", "medium", "high", "xhigh"}

EffortOk(effort) == effort = NoLock \/ effort \in Efforts

validate_model_reasoning_compatibility(model, effort) ==
  model = "spark" => effort \in {"low", "medium", "high", "xhigh"}

(* validate_codex_model and validate_model_reference, on an option.        *)
ModelOk(model) == model # "malformed"

Image(reference, platform) == <<reference, platform>>

(* Mutated form: the image of the Judge is forgotten.                      *)
ImagesOfWork(t) ==
  {Image("work", t.platform)} \cup (IF t.seed THEN {Image("work", "other")} ELSE {})

(* The images of a Task: the seed's may be the work image for another      *)
(* platform, which is another key.                                         *)
task_image_references(t) ==
  {Image("work", t.platform)} \cup (IF t.seed THEN {Image("work", "other")} ELSE {})
                              \cup (IF t.judge # "asset" THEN {Image("judge", NoLock)} ELSE {})

Runners == {Image("node", NoLock), Image("python", NoLock)}

RequiresModel(t) == t.judge = "gateway"

TaskLockOf(t, judgeModel, provider) ==
  [schema |-> IF t.schema = "v1" THEN "task.v1" ELSE "task.v2",
   task_revision |-> "task", artifact_digest |-> "task",
   judge_revision |-> "judge", judge_artifact_digest |-> "judge",
   judge_model |-> IF RequiresModel(t) THEN judgeModel ELSE NoLock,
   resolved_images |-> IF provider = "os" THEN Runners ELSE task_image_references(t),
   resources |-> IF t.schema = "v1" THEN NoLock ELSE t.resources,
   workspace_imports |-> IF t.schema = "v1" THEN NoLock ELSE t.imports,
   network_allow_hosts |-> IF t.schema = "v1" \/ t.hosts = {} THEN NoLock ELSE t.hosts]

(* create_task_with_provider up to its write.                              *)
TaskLockable ==
  LET t == lockAsk.task IN
  /\ lockAsk.provider = "os" => t.schema = "v1"
  /\ RequiresModel(t) => lockAsk.judgeModel # NoLock /\ ModelOk(lockAsk.judgeModel)

(* The configured default is for Codex only.                               *)
CandidateEffort ==
  IF lockAsk.agent.protocol = "codex" /\ lockAsk.effort = NoLock THEN lockAsk.codexDefault ELSE lockAsk.effort

(* create_candidate_with_codex_default up to its write; the version of the *)
(* a3s CLI is asked for, the Codex package prepared.                       *)
CandidateLockable ==
  LET agent == lockAsk.agent IN
  /\ EffortOk(lockAsk.codexDefault)
  /\ lockAsk.effort # NoLock => EffortOk(lockAsk.effort) /\ agent.protocol = "codex"
  /\ validate_model_reasoning_compatibility(lockAsk.model, CandidateEffort)
  /\ agent.protocol = "codex" => ModelOk(lockAsk.model)
  /\ agent.protocol = "tool" /\ lockAsk.model # NoLock => agent.instructions

NoProduct == [name |-> "none", version |-> NoLock, target |-> NoLock, digest |-> NoLock]

CandidateLockOf(agent, model, effort) ==
  [schema |-> CASE agent.protocol = "tool" -> "candidate.v1"
                [] agent.protocol = "a3s" -> "candidate.v2"
                [] agent.protocol = "codex" -> "candidate.v3",
   candidate_revision |-> "agent", artifact_digest |-> "agent",
   model |-> model, reasoning_effort |-> effort,
   product |-> CASE agent.protocol = "tool" -> NoProduct
                 [] agent.protocol = "a3s" -> [NoProduct EXCEPT !.name = "a3s-cli", !.version = lockWorld.cli]
                 [] agent.protocol = "codex" -> [name |-> "codex-cli", version |-> "codex 1",
                                                 target |-> "x86", digest |-> lockWorld.package]]

-----------------------------------------------------------------------------
(* write_exclusive: the file is created, never replaced, and then filled;  *)
(* a process that ends in between leaves a part of it.                     *)
CreateExclusive(k) ==
  /\ lockFile[k] = NoLock
  /\ lockFile' = [lockFile EXCEPT ![k] = PartialLock]

CreateTask ==
  /\ lockPc = "task" /\ TaskLockable
  /\ CreateExclusive("task")
  /\ LockGoes("write task")

CreateCandidate ==
  /\ lockPc = "candidate" /\ CandidateLockable
  /\ CreateExclusive("candidate")
  /\ LockGoes("write candidate")

(* What is asked for cannot be locked, a capture or a pull fails, or the   *)
(* file is there already.                                                  *)
CreateLockFails == lockPc \in Kinds /\ LockGoes("failed") /\ UNCHANGED lockFile

Written(k, lock, to) ==
  /\ lockPc' = to
  /\ lockFile' = [lockFile EXCEPT ![k] = lock] /\ lockMade' = [lockMade EXCEPT ![k] = lock]
  /\ UNCHANGED <<lockAsk, lockWorld, lockChanges, lockResealed>>

WriteTask ==
  LET lock == TaskLockOf(lockAsk.task, lockAsk.judgeModel, lockAsk.provider) IN
  lockPc = "write task" /\ Written("task", Sealed(lock, task_identity(lock)), "candidate")

WriteCandidate ==
  LET lock == CandidateLockOf(lockAsk.agent, lockAsk.model, CandidateEffort) IN
  /\ lockPc = "write candidate"
  /\ Written("candidate", Sealed(lock, candidate_identity(lock)),
             IF lockAsk.locked THEN "kept" ELSE "load task")

WriteLockFails ==
  lockPc \in {"write task", "write candidate"} /\ LockGoes("failed") /\ UNCHANGED lockFile

WholeFile(k) == lockFile[k] \notin {NoLock, PartialLock}

(* A lock command that failed is tried again for the same output.          *)
LockAgain == lockPc = "failed" /\ lockAsk.locked /\ (\E k \in Kinds : LockGoes(k)) /\ UNCHANGED lockFile

-----------------------------------------------------------------------------
(* What happens between the lock commands and a run with --locked: a field *)
(* takes another value, and lock_digest may be computed again.             *)
OtherValues(k, f) ==
  LET old == lockFile[k][f] IN
  (CASE f = "schema" -> {"task.v1", "task.v2", "candidate.v1", "candidate.v2", "candidate.v3"}
     [] f \in {"artifact_digest", "judge_artifact_digest"} -> LockArtifacts
     [] f \in {"model", "judge_model"} -> {"plain", "spark", NoLock}
     [] f = "reasoning_effort" -> {"none", "low", NoLock}
     [] f = "resolved_images" -> SUBSET old
     [] f = "product" -> {NoProduct, [NoProduct EXCEPT !.name = "codex-cli"]}
                           \cup (IF old = NoProduct THEN {} ELSE {[old EXCEPT !.version = "2"]})
     [] f = "network_allow_hosts" -> {{"edited"}, {}, NoLock}
     [] OTHER -> {"edited", NoLock}) \ {old}

identity(k, lock) == IF k = "task" THEN task_identity(lock) ELSE candidate_identity(lock)

EditLock ==
  /\ lockPc = "kept" /\ lockChanges < MaxLockChanges
  /\ lockChanges' = lockChanges + 1
  /\ \E k \in Kinds : WholeFile(k) /\ \E f \in DOMAIN lockFile[k] \ {"lock_digest"} :
       \E v \in OtherValues(k, f), reseal \in BOOLEAN :
         LET new == [lockFile[k] EXCEPT ![f] = v] IN
         /\ lockFile' = [lockFile EXCEPT ![k] = IF reseal THEN Sealed(new, identity(k, new)) ELSE new]
         /\ lockResealed' = (lockResealed \/ reseal)
  /\ UNCHANGED <<lockAsk, lockPc, lockMade, lockWorld>>

(* The CLI is upgraded, an artifact damaged, the package removed.          *)
WorldChanges ==
  /\ lockPc = "kept" /\ lockChanges < MaxLockChanges
  /\ lockChanges' = lockChanges + 1
  /\ \/ lockWorld' = [lockWorld EXCEPT !.cli = "2"]
     \/ \E a \in lockWorld.store : lockWorld' = [lockWorld EXCEPT !.store = @ \ {a}]
     \/ lockWorld' = [lockWorld EXCEPT !.package = NoLock]
  /\ UNCHANGED <<lockAsk, lockPc, lockFile, lockMade, lockResealed>>

(* bench run --locked, also with what a failed lock command left; --model  *)
(* and --reasoning-effort may not come along.                              *)
RunLocked == lockAsk.locked /\ lockPc \in {"kept", "failed"} /\ LockGoes("load task") /\ UNCHANGED lockFile

-----------------------------------------------------------------------------
(* load_task: the digest, the artifacts, and field by field what the       *)
(* artifact says.                                                          *)
TaskLockLoads(lock) ==
  LET t == lockAsk.task IN
  /\ lock.schema \in {"task.v1", "task.v2"}
  /\ task_identity(lock) = lock.lock_digest
  /\ lock.task_revision = lock.artifact_digest
  /\ lock.judge_revision # NoLock
  /\ lock.artifact_digest = "task" /\ "task" \in lockWorld.store
  /\ <<lock.schema, t.schema>> \in {<<"task.v1", "v1">>, <<"task.v2", "v2">>}
  /\ t.schema = "v1" => \A f \in TaskFieldsV2 : lock[f] = NoLock
  /\ t.schema = "v2" =>
       /\ lock.resources = t.resources /\ lock.workspace_imports = t.imports
       /\ lock.network_allow_hosts = IF t.hosts = {} THEN NoLock ELSE t.hosts
  /\ RequiresModel(t) = (lock.judge_model # NoLock) /\ ModelOk(lock.judge_model)
  /\ lock.judge_artifact_digest = "judge" /\ "judge" \in lockWorld.store
  /\ lock.judge_revision = "judge"

(* codex_package::load_cached, which other products meet as well.          *)
LoadsCached(product, platform) ==
  /\ product.target # NoLock /\ product.digest # NoLock
  /\ product.digest = lockWorld.package /\ product.version = "codex 1"
  /\ platform \in {NoLock, product.target}

(* Mutated form: nobody looks for it.                                      *)
EffortIgnored(lock) == TRUE

(* The old schemas' digest does not cover the effort, which they lack.     *)
WithoutEffort(lock) == lock.reasoning_effort = NoLock

(* The product a lock must have for the protocol of its artifact.          *)
ProductFits(lock) ==
  LET product == lock.product IN
  CASE lockAsk.agent.protocol = "tool" ->
         product = NoProduct /\ lock.schema = "candidate.v1" /\ WithoutEffort(lock)
    [] lockAsk.agent.protocol = "a3s" ->
         /\ product.name = "a3s-cli" /\ lock.schema = "candidate.v2"
         /\ WithoutEffort(lock) /\ product.target = NoLock /\ product.digest = NoLock
         /\ lockWorld.cli = product.version
    [] lockAsk.agent.protocol = "codex" ->
         /\ product.name = "codex-cli" /\ lock.schema = "candidate.v3"
         /\ LoadsCached(product, NoLock)

CandidateLockLoads(lock) ==
  /\ lock.schema \in {"candidate.v1", "candidate.v2", "candidate.v3"}
  /\ candidate_identity(lock) = lock.lock_digest
  /\ ~(lock.schema = "candidate.v2" /\ lock.product.name = "codex-cli")
  /\ lock.schema = "candidate.v3" =>
       /\ ModelOk(lock.model) /\ EffortOk(lock.reasoning_effort)
       /\ validate_model_reasoning_compatibility(lock.model, lock.reasoning_effort)
  /\ lock.artifact_digest = "agent" /\ "agent" \in lockWorld.store
  /\ lock.candidate_revision = "agent"
  /\ ProductFits(lock)

LoadStep(from, loads, to) ==
  /\ lockPc = from
  /\ LockGoes(IF loads THEN to ELSE "refused")
  /\ UNCHANGED lockFile

LoadTask == LoadStep("load task", WholeFile("task") /\ TaskLockLoads(lockFile["task"]), "load candidate")

LoadCandidate ==
  LoadStep("load candidate",
           WholeFile("candidate") /\ CandidateLockLoads(lockFile["candidate"]), "load package")

(* load_locks asks the package cache for the product of every lock that    *)
(* has one.                                                                *)
LoadPackage ==
  LET product == lockFile["candidate"].product IN
  LoadStep("load package", product = NoProduct \/ LoadsCached(product, lockAsk.task.platform), "resolve")

(* resolve_task_images, or validate_os_runtime_task and the images of the  *)
(* managed runners.                                                        *)
ImagesNeeded ==
  IF lockAsk.runtime = "os" THEN Runners
  ELSE {image \in {Image("work", lockAsk.task.platform), Image("work", "other"), Image("judge", NoLock)} :
          /\ image = Image("work", "other") => lockAsk.task.seed
          /\ image = Image("judge", NoLock) => lockAsk.task.judge # "asset"}

OsAccepts ==
  /\ lockAsk.task.schema = "v1" /\ lockFile["task"].schema = "task.v1"
  /\ lockAsk.agent.protocol # "codex"
  /\ lockFile["candidate"].model = NoLock \/ lockAsk.agent.protocol = "a3s"
  /\ lockAsk.task.judge = "asset" /\ ~lockAsk.task.seed

ResolveInputs ==
  LoadStep("resolve", /\ lockAsk.runtime = "os" => OsAccepts
                      /\ ImagesNeeded \subseteq lockFile["task"].resolved_images, "running")

LocksNext ==
  \/ CreateTask \/ CreateCandidate \/ CreateLockFails \/ WriteTask \/ WriteCandidate \/ WriteLockFails
  \/ LockAgain \/ EditLock \/ WorldChanges \/ RunLocked
  \/ LoadTask \/ LoadCandidate \/ LoadPackage \/ ResolveInputs

-----------------------------------------------------------------------------
(* Everything is as the locks say, and the Runtime can do what they ask.   *)
(* A lock of A3S Code counts as in the way: creation makes it, and no run  *)
(* takes it (run_input.rs:132-139).                                        *)
NothingInTheWay ==
  /\ lockChanges = 0 /\ lockAsk.runtime = lockAsk.provider
  /\ \A k \in Kinds : WholeFile(k)
  /\ lockAsk.agent.protocol # "a3s"
  /\ lockAsk.agent.protocol = "codex" => lockAsk.task.platform \in {NoLock, "x86"}
  /\ lockAsk.runtime = "os" => OsAccepts

(* A run goes on only with locks that say what their creation recorded,    *)
(* field by field, unless somebody computed a new digest, and even then    *)
(* only with the resources, hosts and Judge model of the intact Task, a    *)
(* reasoning effort where there may and must be one, and every image it    *)
(* will use pinned; and it refuses locks that creation accepted only when  *)
(* something is in the way.  The two validations are written apart, and    *)
(* the digests of the old schemas do not cover every field.                *)
LockIsBinding ==
  /\ lockPc = "running" =>
       LET t == lockFile["task"]  c == lockFile["candidate"] IN
       /\ lockResealed \/ lockFile = lockMade
       /\ lockWorld.store = LockArtifacts
       /\ t.resources = IF lockAsk.task.schema = "v1" THEN NoLock ELSE lockAsk.task.resources
       /\ t.network_allow_hosts # NoLock => t.network_allow_hosts = lockAsk.task.hosts
       /\ lockAsk.task.hosts # {} => t.network_allow_hosts # NoLock
       /\ (t.judge_model # NoLock) = RequiresModel(lockAsk.task)
       /\ c.reasoning_effort # NoLock => lockAsk.agent.protocol = "codex"
       /\ lockAsk.agent.protocol = "codex" /\ c.model = "spark" => c.reasoning_effort \in Efforts \ {"none", "minimal"}
       /\ ImagesNeeded \subseteq t.resolved_images
  /\ lockPc = "refused" => ~NothingInTheWay
=============================================================================
