--------------------------- MODULE WorkspaceExport --------------------------
(***************************************************************************)
(* The export of a Candidate's files from its container (src/src/          *)
(* workspace.rs, export_container_files and run_archive_pipeline, with the *)
(* limits of src/src/submission.rs).  For each file that the policy        *)
(* matches, `docker cp` writes an archive to a pipe, a thread pumps it to  *)
(* the stdin of `tar` and counts, and the caller polls the two processes   *)
(* and the thread until a deadline.  Sizes are in blocks, of which a pipe  *)
(* holds PipeBlocks; an archive is its file and one block of header.       *)
(***************************************************************************)
EXTENDS Naturals, Sequences

CONSTANTS
  MaxSizes,       \* Nat: the largest file of the container
  MaxCandidates,  \* Nat: the most files the policy matches
  PolicyFiles, PolicyFileBytes, PolicyTotalBytes, \* the submission policy
  TarOverhead,    \* CONTAINER_FILE_TAR_OVERHEAD
  TransferLimit,  \* CONTAINER_TREE_EXPORT_MAX_BYTES
  PipeBlocks      \* the capacity of a pipe

(* validate_policy.                                                        *)
ValidPolicy == PolicyFiles > 0 /\ PolicyFileBytes > 0 /\ PolicyTotalBytes >= PolicyFileBytes

(* The header of an archive is within the overhead that is allowed for it. *)
ASSUME ExportPolicy ==
  /\ {MaxSizes, MaxCandidates, PolicyFiles, PolicyFileBytes, PolicyTotalBytes, TransferLimit} \subseteq Nat
  /\ {TarOverhead, PipeBlocks} \subseteq Nat \ {0}
  /\ ValidPolicy

VARIABLES
  inventory,    \* the entries of the work tree, in the order of their names
  exportFiles,  \* the sizes of the files that the policy matches
  exportRun,    \* the loop over the files
  pipeline,     \* the processes, the pipes and the thread of the current file
  exportFault   \* the deadline has passed, or docker or the disk has failed

exportVars == <<inventory, exportFiles, exportRun, pipeline, exportFault>>

IdlePipeline == [cap |-> 0, copy |-> "none", sent |-> 0, pipe1 |-> 0, pump |-> "none", moved |-> 0,
                 pipe2 |-> 0, tar |-> "none", got |-> 0, eof |-> FALSE]

(* What the patterns of the policy make of a path.  A file under .a3s/ is  *)
(* reserved; a path that is not UTF-8, not normalized or too deep is       *)
(* unsafe.                                                                 *)
Classes == {"included", "excluded", "reserved", "unsafe"}
Entries == {e \in [size : 0 .. MaxSizes, class : Classes] : e.class # "included" => e.size = 1}

ExportInit ==
  /\ inventory \in UNION {[1 .. n -> Entries] : n \in 0 .. MaxCandidates}
  /\ exportFiles = <<>>
  /\ exportRun = [at |-> "select", index |-> 1, remaining |-> TransferLimit, kept |-> <<>>, total |-> 0]
  /\ pipeline = IdlePipeline
  /\ exportFault = FALSE

Archive == exportFiles[exportRun.index] + 1
ExportGoes(where) == exportRun' = [exportRun EXCEPT !.at = where]
LowerOf(a, b) == IF a < b THEN a ELSE b

-----------------------------------------------------------------------------
(* normalize_terminal_path, TerminalMatcher::matches.                      *)
PathIsSafe(e) == e.class # "unsafe"
Matches(e) == e.class = "included"

Candidates(entries) ==
  LET sizes[i \in 0 .. Len(entries)] ==
        IF i = 0 THEN <<>>
        ELSE IF Matches(entries[i]) THEN Append(sizes[i - 1], entries[i].size) ELSE sizes[i - 1]
  IN sizes[Len(entries)]

(* export_container_files: every path of the inventory is normalized, the  *)
(* matching ones are the candidates.                                       *)
SelectFiles ==
  /\ exportRun.at = "select"
  /\ IF \A i \in DOMAIN inventory : PathIsSafe(inventory[i])
       THEN /\ ExportGoes("next")
            /\ exportFiles' = Candidates(inventory)
       ELSE ExportGoes("failed") /\ UNCHANGED exportFiles
  /\ UNCHANGED <<inventory, pipeline, exportFault>>

(* TerminalLimits::is_full and select.                                     *)
LimitsFull(kept) == Len(kept) >= PolicyFiles

Selectable(kept, total, size) ==
  ~LimitsFull(kept) /\ size <= PolicyFileBytes /\ total + size <= PolicyTotalBytes

(* export_selected_container_files, up to the start of the two processes   *)
(* for the next file.                                                      *)
NextFile ==
  /\ exportRun.at = "next"
  /\ IF exportRun.index > Len(exportFiles) \/ LimitsFull(exportRun.kept)
       THEN ExportGoes("publish") /\ UNCHANGED pipeline
       ELSE IF exportFault \/ exportRun.remaining = 0
       THEN ExportGoes("failed") /\ UNCHANGED pipeline
       ELSE /\ ExportGoes("poll")
            /\ pipeline' = [IdlePipeline EXCEPT
                 !.cap = LowerOf(exportRun.remaining, PolicyFileBytes + TarOverhead),
                 !.copy = "running", !.pump = "running", !.tar = "running"]
  /\ UNCHANGED <<inventory, exportFiles, exportFault>>

(* docker cp: writes, or dies of a pipe that nobody reads any more.        *)
CopyWrites ==
  /\ pipeline.copy = "running"
  /\ \/ /\ pipeline.pump = "running" /\ pipeline.pipe1 < PipeBlocks /\ pipeline.sent < Archive
        /\ pipeline' = [pipeline EXCEPT !.sent = @ + 1, !.pipe1 = @ + 1]
     \/ /\ pipeline.pump # "running" /\ pipeline.sent < Archive
        /\ pipeline' = [pipeline EXCEPT !.copy = "failed"]
     \/ /\ pipeline.sent = Archive
        /\ pipeline' = [pipeline EXCEPT !.copy = "ok"]
  /\ UNCHANGED <<inventory, exportFiles, exportRun, exportFault>>

(* The container or the file is not there, or the daemon fails.            *)
CopyBreaks ==
  /\ pipeline.copy = "running"
  /\ pipeline' = [pipeline EXCEPT !.copy = "failed"]
  /\ exportFault' = TRUE
  /\ UNCHANGED <<inventory, exportFiles, exportRun>>

(* pump_archive: one read and, within the limit, one write; both pipes are *)
(* closed when it returns.                                                 *)
PumpArchive ==
  /\ pipeline.pump = "running"
  /\ \/ /\ exportFault
        /\ pipeline' = [pipeline EXCEPT !.pump = "deadline", !.pipe1 = 0, !.eof = TRUE]
     \/ /\ pipeline.pipe1 > 0
        /\ pipeline' =
             IF pipeline.moved + 1 > pipeline.cap
               THEN [pipeline EXCEPT !.pump = "limit", !.pipe1 = 0, !.eof = TRUE]
               ELSE IF pipeline.tar # "running"
               THEN [pipeline EXCEPT !.pump = "io", !.pipe1 = 0, !.eof = TRUE]
               ELSE [pipeline EXCEPT !.pipe1 = @ - 1, !.moved = @ + 1, !.pipe2 = @ + 1]
        /\ pipeline'.pump = "running" => pipeline.pipe2 < PipeBlocks
     \/ /\ pipeline.pipe1 = 0 /\ pipeline.copy # "running"
        /\ pipeline' = [pipeline EXCEPT !.pump = "ok", !.eof = TRUE]
  /\ UNCHANGED <<inventory, exportFiles, exportRun, exportFault>>

(* tar reads to the end of its input; a short archive is an error, or is   *)
(* taken for complete when it ends between two blocks of it.               *)
TarReads ==
  /\ pipeline.tar = "running"
  /\ \/ /\ pipeline.pipe2 > 0
        /\ pipeline' = [pipeline EXCEPT !.pipe2 = @ - 1, !.got = @ + 1]
     \/ /\ pipeline.pipe2 = 0 /\ pipeline.eof
        /\ \E status \in {"ok"} \cup IF pipeline.got < Archive THEN {"failed"} ELSE {} :
             pipeline' = [pipeline EXCEPT !.tar = status]
  /\ UNCHANGED <<inventory, exportFiles, exportRun, exportFault>>

(* Mutated form: the exit of tar is not waited for.                        *)
VerdictWithoutTar ==
  IF exportFault \/ "failed" \in {pipeline.copy, pipeline.tar} THEN "error"
  ELSE IF pipeline.pump \notin {"ok", "running"} THEN (IF pipeline.pump = "limit" THEN "limit" ELSE "error")
  ELSE IF "running" \in {pipeline.copy, pipeline.pump} THEN "sleep" ELSE "ok"

(* One pass of the monitor loop: the deadline, the status of docker cp,    *)
(* that of tar, the pump.  An abort kills both processes and waits for     *)
(* them and for the thread.                                                *)
MonitorVerdict ==
  IF exportFault THEN "error"
  ELSE IF pipeline.copy = "failed" THEN "error"
  ELSE IF pipeline.tar = "failed" THEN "error"
  ELSE IF pipeline.pump = "limit" THEN "limit"
  ELSE IF pipeline.pump \in {"io", "deadline"} THEN "error"
  ELSE IF "running" \in {pipeline.copy, pipeline.tar, pipeline.pump} THEN "sleep"
  ELSE "ok"

PolicyCap == PolicyFileBytes + TarOverhead

(* The file is skipped only if it was the policy's cap that it exceeded.   *)
SkipFile ==
  /\ MonitorVerdict = "limit" /\ pipeline.cap = PolicyCap
  /\ exportRun' = IF exportRun.remaining < pipeline.moved + 1
       THEN [exportRun EXCEPT !.at = "failed"]
       ELSE [exportRun EXCEPT !.at = "next", !.index = @ + 1, !.remaining = @ - (pipeline.moved + 1)]

(* The extracted file is kept if the limits allow it.                      *)
KeepFile ==
  /\ MonitorVerdict = "ok"
  /\ LET size == exportFiles[exportRun.index]
         take == Selectable(exportRun.kept, exportRun.total, size)
     IN exportRun' = [exportRun EXCEPT !.at = "next", !.index = @ + 1, !.remaining = @ - pipeline.moved,
                        !.kept = IF take THEN Append(@, [index |-> exportRun.index, got |-> pipeline.got]) ELSE @,
                        !.total = IF take THEN @ + size ELSE @]

MonitorPolls ==
  /\ exportRun.at = "poll" /\ MonitorVerdict # "sleep"
  /\ \/ SkipFile
     \/ KeepFile
     \/ /\ MonitorVerdict = "error" \/ (MonitorVerdict = "limit" /\ pipeline.cap # PolicyCap)
        /\ ExportGoes("failed")
  /\ pipeline' = IdlePipeline
  /\ UNCHANGED <<inventory, exportFiles, exportFault>>

DeadlinePasses ==
  /\ exportRun.at \in {"next", "poll"} /\ ~exportFault
  /\ exportFault' = TRUE
  /\ UNCHANGED <<inventory, exportFiles, exportRun, pipeline>>

(* populate_empty_directory_atomically: harden and rename, or remove the   *)
(* staging directory.                                                      *)
PublishExport ==
  /\ exportRun.at = "publish"
  /\ \/ ExportGoes("done") /\ UNCHANGED exportFault
     \/ ExportGoes("failed") /\ exportFault' = TRUE
  /\ UNCHANGED <<inventory, exportFiles, pipeline>>

ExportStep ==
  \/ SelectFiles \/ NextFile \/ CopyWrites \/ PumpArchive \/ TarReads \/ MonitorPolls \/ PublishExport
ExportNext == ExportStep \/ CopyBreaks \/ DeadlinePasses

-----------------------------------------------------------------------------
(* submission::collect_terminal_files, which projects a local tree: what   *)
(* does not match and files above the limit for one file are dropped, of   *)
(* the rest each is taken that still fits.                                 *)
Projected ==
  LET taken[i \in 0 .. Len(inventory)] ==
        IF i = 0 THEN [kept |-> <<>>, total |-> 0]
        ELSE IF Matches(inventory[i]) /\ Selectable(taken[i - 1].kept, taken[i - 1].total, inventory[i].size)
             THEN [kept |-> Append(taken[i - 1].kept, inventory[i].size),
                   total |-> taken[i - 1].total + inventory[i].size]
             ELSE taken[i - 1]
  IN taken[Len(inventory)].kept

(* However the processes, the pipes and the thread interleave, an export   *)
(* that succeeds has kept the files a projection of the same tree would    *)
(* keep, each of them whole.                                               *)
ExportIsProjection == exportRun.at = "done" =>
  /\ [i \in DOMAIN exportRun.kept |-> exportFiles[exportRun.kept[i].index]] = Projected
  /\ \A i \in DOMAIN exportRun.kept : exportRun.kept[i].got = exportFiles[exportRun.kept[i].index] + 1
=============================================================================
