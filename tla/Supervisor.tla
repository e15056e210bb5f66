----------------------------- MODULE Supervisor -----------------------------
(***************************************************************************)
(* A supervised indexing run: run_index_supervisor() in                    *)
(* src/src/index/supervisor.cpp, and the child it spawns, run_index() in   *)
(* src/src/cli/cmd_index.cpp, seen from the data they leave behind: the    *)
(* database, its metadata and quarantine table, the work list file and the *)
(* progress file.                                                          *)
(*                                                                         *)
(* The child scans the disk, saves the list of files to index and indexes  *)
(* them, committing in batches and naming the file it last wrote in the    *)
(* progress file.  When it crashes the supervisor trims the saved list up  *)
(* to that file, quarantines the files that follow it and starts another   *)
(* child that resumes from the trimmed list.  The parse pipeline inside    *)
(* the child is IndexPipeline's subject: here its files arrive once each,  *)
(* in any order that Window files in flight allow.                         *)
(*                                                                         *)
(* Files are numbered in the order of their paths.  The lists of files are *)
(* always sorted by path, so each is modelled by the set of its files and  *)
(* a place in it by a rank.  The disk does not change during the run.      *)
(***************************************************************************)
EXTENDS Naturals, Sequences, FiniteSets

CONSTANTS
  Total,        \* number of files, on disk or in the database
  ThreadCount,  \* config.thread_count
  BatchSize,    \* config.batch_size
  Scenarios     \* what the run may find: disk, database, command line, faults

Files == 1 .. Total

ASSUME SizeAssumption ==
  {Total, ThreadCount, BatchSize} \subseteq Nat \ {0}

RowStates == {"none", "old", "new"}    \* no row, an older version, the disk's

ASSUME ScenarioAssumption == Scenarios \subseteq
  [onDisk     : SUBSET Files,   \* the files that exist
   rows       : [Files -> RowStates],
   quarantine : SUBSET Files,   \* files already quarantined
   owner      : BOOLEAN,        \* is repo_root recorded in the database?
   newHead    : BOOLEAN,        \* is the git HEAD other than the one recorded?
   crashers   : SUBSET Files,   \* files whose parse kills the process
   force      : BOOLEAN,        \* --force
   maxFiles   : Nat,            \* --max-files, 0 for no limit
   faults     : Nat]            \* bound on kills, power cuts and write errors

VARIABLES
  run,          \* the scenario
  supervisor,   \* its place, whether it has restarted a child, its counter, rc
  child,        \* the child process
  rows,         \* the committed rows of the database
  quarantine,   \* its quarantine table
  meta,         \* its metadata: index_state, repo_root and git_head
  worklist,     \* the work list file
  progress,     \* the progress file
  faults,       \* faults still to come
  overtaken     \* history: files trimmed as committed that were not

database == <<rows, quarantine, meta>>
disk     == <<worklist, progress>>
vars     == <<run, supervisor, child, database, disk, faults, overtaken>>

NoList == {}        \* there is no work list file
NoFile == 0         \* there is no progress file
Text   == Total + 1 \* the progress file does not name a file ("scan: ...")

NoChild == [at |-> "none", resume |-> FALSE, window |-> 0, batchSize |-> 1,
            complete |-> TRUE, found |-> {}, work |-> {}, arrived |-> <<>>,
            written |-> 0, batch |-> {}, committed |-> FALSE, rc |-> 0]

Init ==
  \E s \in Scenarios :
    /\ run = s
    /\ supervisor = [at |-> "spawn", attempt |-> 0, noProgress |-> 0,
                     upTo |-> 0, rc |-> 0]
    /\ child = NoChild
    /\ rows = s.rows
    /\ quarantine = s.quarantine
    /\ meta = [state |-> IF s.owner THEN "current" ELSE "none",
               owner |-> s.owner, newHead |-> s.newHead]
    /\ worklist = NoList
    /\ progress = NoFile
    /\ faults = s.faults
    /\ overtaken = {}

(* The place of a file in a sorted list, the list up to place n and beyond. *)
Rank(S, f)  == Cardinality({g \in S : g <= f})
UpTo(S, n)  == {f \in S : Rank(S, f) <= n}
After(S, n) == {f \in S : Rank(S, f) > n}

-----------------------------------------------------------------------------
(* The child.                                                              *)

ChildAt(from, to) == child.at = from /\ child' = [child EXCEPT !.at = to]

(* metadata_allows_deletion(); a missing owner also makes this run, if it  *)
(* finds rows, one that needs a follow-up.                                 *)
MayDelete == meta.owner
HadRows   == \E f \in Files : rows[f] # "none"

(* Variant: index_state keeps its old value.                               *)
SilentOpen ==
  /\ child.at = "open"
  /\ child' = [child EXCEPT !.at = "load", !.complete = MayDelete \/ ~HadRows]
  /\ UNCHANGED <<run, supervisor, database, disk, faults, overtaken>>

(* index_state says that the index is being changed.                       *)
Open ==
  /\ child.at = "open"
  /\ child' = [child EXCEPT !.at = "load", !.complete = MayDelete \/ ~HadRows]
  /\ meta' = [meta EXCEPT !.state = "indexing"]
  /\ UNCHANGED <<run, supervisor, rows, quarantine, disk, faults, overtaken>>

(* The files of the saved list that are still to do.                       *)
Resumable == worklist \ quarantine

(* Variant: no lower limit.                                                *)
UnlimitedResumedBatch(n) == IF n < BatchSize * 4 THEN n \div 4 ELSE BatchSize

(* On --resume the effective batch shrinks with the list.                  *)
ResumedBatch(n) ==
  IF n >= BatchSize * 4 THEN BatchSize ELSE IF n < 4 THEN 1 ELSE n \div 4

(* --resume with files left in the saved list skips the scan.              *)
Resume ==
  /\ child.at = "load"
  /\ child.resume /\ Resumable # {}
  /\ child' = [child EXCEPT !.at = "index", !.work = Resumable,
                            !.batchSize = ResumedBatch(Cardinality(Resumable))]
  /\ UNCHANGED <<run, supervisor, database, disk, faults, overtaken>>

(* Scan and detect changes; the reporter leaves its last line behind.      *)
Scan ==
  /\ child.at = "load"
  /\ ~(child.resume /\ Resumable # {})
  /\ progress' = Text
  /\ child' = [child EXCEPT !.at = "rehab",
                            !.found = {f \in run.onDisk : run.force \/ rows[f] # "new"}]
  /\ UNCHANGED <<run, supervisor, database, worklist, faults, overtaken>>

(* After a branch switch, quarantined files that are new or whose row is   *)
(* of another version get another chance.                                  *)
Rehabilitate ==
  /\ ChildAt("rehab", "prune")
  /\ quarantine' = IF meta.newHead
                   THEN quarantine \ {f \in run.onDisk : rows[f] # "new"}
                   ELSE quarantine
  /\ UNCHANGED <<run, supervisor, rows, meta, disk, faults, overtaken>>

Vanished == {f \in Files \ run.onDisk : rows[f] # "none"}

(* Rows of vanished files go only from a database that knows its owner.    *)
Prune ==
  /\ child.at = "prune"
  /\ rows' = IF run.force \/ ~MayDelete THEN rows
             ELSE [f \in Files |-> IF f \in Vanished THEN "none" ELSE rows[f]]
  /\ child' = [child EXCEPT !.at = "clear",
                 !.complete = @ /\ (run.force \/ MayDelete \/ Vanished = {})]
  /\ UNCHANGED <<run, supervisor, quarantine, meta, disk, faults, overtaken>>

(* --force empties the index once, before the list is saved.               *)
Clear ==
  /\ ChildAt("clear", "save")
  /\ rows' = IF run.force /\ MayDelete THEN [f \in Files |-> "none"] ELSE rows
  /\ UNCHANGED <<run, supervisor, quarantine, meta, disk, faults, overtaken>>

(* Variant: the scan takes quarantined files too.                          *)
UnfilteredWanted == child.found

Wanted == child.found \ quarantine

Truncated ==
  IF run.maxFiles > 0 THEN UpTo(Wanted, run.maxFiles) ELSE Wanted

(* Nothing to do, or the list of this run, sorted and cut to --max-files.  *)
Save ==
  /\ child.at = "save"
  /\ child' = [child EXCEPT !.at = IF Wanted = {} THEN "metadata" ELSE "index",
                 !.work = Truncated,
                 !.complete = @ /\ Truncated = Wanted,
                 !.batchSize = IF child.resume /\ Wanted # {}
                               THEN ResumedBatch(Cardinality(Truncated)) ELSE @]
  /\ worklist' = IF Wanted = {} THEN worklist ELSE Truncated
  /\ UNCHANGED <<run, supervisor, database, progress, faults, overtaken>>

(* The files being parsed: the pipeline keeps child.window files ahead of  *)
(* those it has collected.                                                 *)
Collected == {child.arrived[i] : i \in DOMAIN child.arrived}

InFlight == UpTo(child.work, Len(child.arrived) + child.window) \ Collected

Arrive(f) ==
  /\ child.at = "index"
  /\ f \in InFlight \ run.crashers
  /\ child' = [child EXCEPT !.arrived = Append(@, f)]
  /\ UNCHANGED <<run, supervisor, database, disk, faults, overtaken>>

(* persist_file() and flush_if_needed(): the row is written in the open    *)
(* transaction, which is committed when the batch is full.                 *)
Persist ==
  LET batch == child.batch \union {child.arrived[child.written + 1]}
      full  == Cardinality(batch) >= child.batchSize IN
  /\ child.at = "index" /\ child.written < Len(child.arrived)
  /\ child' = [child EXCEPT !.at = "mark", !.written = @ + 1, !.committed = full,
                            !.batch = IF full THEN {} ELSE batch]
  /\ rows' = IF full THEN [f \in Files |-> IF f \in batch THEN "new" ELSE rows[f]]
             ELSE rows
  /\ UNCHANGED <<run, supervisor, quarantine, meta, disk, faults, overtaken>>

(* The progress file names the file just written, when it was committed,   *)
(* and also every hundredth file or three seconds.                         *)
Mark ==
  /\ ChildAt("mark", "index")
  /\ \/ progress' = child.arrived[child.written]
     \/ ~child.committed /\ UNCHANGED progress
  /\ UNCHANGED <<run, supervisor, database, worklist, faults, overtaken>>

(* The queue is closed and drained: the last commit.                       *)
CommitRest ==
  /\ child.written = Cardinality(child.work)
  /\ child.at = "index"
  /\ child' = [child EXCEPT !.at = "search", !.batch = {}]
  /\ rows' = [f \in Files |-> IF f \in child.batch THEN "new" ELSE rows[f]]
  /\ UNCHANGED <<run, supervisor, quarantine, meta, disk, faults, overtaken>>

(* The content index may write progress, references and ranks do.          *)
Search ==
  /\ ChildAt("search", "resolve")
  /\ progress' \in {progress, Text}
  /\ UNCHANGED <<run, supervisor, database, worklist, faults, overtaken>>

Resolve ==
  /\ ChildAt("resolve", "metadata")
  /\ progress' = Text
  /\ UNCHANGED <<run, supervisor, database, worklist, faults, overtaken>>

(* write_metadata(): an incomplete run forgets the head it was at.         *)
WriteMetadata ==
  /\ ChildAt("metadata", "cleanup")
  /\ meta' = [state |-> IF child.complete THEN "current" ELSE "needs_reconciliation",
              owner |-> TRUE, newHead |-> FALSE]
  /\ UNCHANGED <<run, supervisor, rows, quarantine, disk, faults, overtaken>>

CleanUp ==
  /\ ChildAt("cleanup", "exited")
  /\ worklist' = NoList
  /\ progress' = IF child.work = {} THEN progress ELSE NoFile
  /\ UNCHANGED <<run, supervisor, database, faults, overtaken>>

ChildStep ==
  \/ Open \/ Resume \/ Scan \/ Rehabilitate \/ Prune \/ Clear \/ Save
  \/ \E f \in Files : Arrive(f)
  \/ Persist \/ Mark \/ CommitRest \/ Search \/ Resolve \/ WriteMetadata \/ CleanUp

-----------------------------------------------------------------------------
(* What ends a child early.                                                *)

Running == child.at \notin {"none", "exited"}

CrashCode == 134

(* The process dies: what it had not committed is gone.                    *)
Abort == child' = [NoChild EXCEPT !.at = "exited", !.rc = CrashCode]

(* A file in flight kills the process.                                     *)
Crash ==
  /\ child.at \in {"index", "mark"}
  /\ InFlight \intersect run.crashers # {}
  /\ Abort
  /\ UNCHANGED <<run, supervisor, database, disk, faults, overtaken>>

(* Killed from outside: memory, a signal, the supervisor's stall timeout.  *)
Kill ==
  /\ Running /\ faults > 0
  /\ Abort
  /\ faults' = faults - 1
  /\ UNCHANGED <<run, supervisor, database, disk, overtaken>>

(* The persist thread fails at a file, at the last commit or at the        *)
(* content index: its batch is rolled back and the exit code is 1.         *)
PersistFail ==
  /\ \/ child.at = "index" /\ child.written < Len(child.arrived)
     \/ child.at = "index" /\ child.written = Cardinality(child.work)
     \/ child.at = "search"
  /\ faults > 0
  /\ child' = [NoChild EXCEPT !.at = "exited", !.rc = 1]
  /\ faults' = faults - 1
  /\ UNCHANGED <<run, supervisor, database, disk, overtaken>>

(* Supervisor and child end together, and a new run begins on what they    *)
(* left: the same command again.                                           *)
PowerCut ==
  /\ supervisor.at # "done" /\ faults > 0
  /\ supervisor' = [at |-> "spawn", attempt |-> 0, noProgress |-> 0,
                     upTo |-> 0, rc |-> 0]
  /\ child' = NoChild
  /\ faults' = faults - 1
  /\ UNCHANGED <<run, database, disk, overtaken>>

-----------------------------------------------------------------------------
(* The supervisor.                                                         *)

(* After two crashes without progress children run single-threaded.        *)
ChildThreads == IF supervisor.noProgress >= 2 THEN 1 ELSE ThreadCount

Spawn ==
  /\ supervisor.at = "spawn"
  /\ supervisor' = [supervisor EXCEPT !.at = "wait"]
  /\ child' = [NoChild EXCEPT !.at = "open", !.resume = supervisor.attempt > 0,
                              !.window = ChildThreads + 2, !.batchSize = BatchSize]
  /\ progress' = NoFile
  /\ UNCHANGED <<run, database, worklist, faults, overtaken>>

(* Exit codes 0 to 127: the files beside the database go, the run is over. *)
ChildEnded ==
  /\ supervisor.at = "wait" /\ child.at = "exited" /\ child.rc <= 127
  /\ supervisor' = [supervisor EXCEPT !.at = "done", !.rc = child.rc]
  /\ child' = NoChild
  /\ worklist' = NoList
  /\ progress' = NoFile
  /\ UNCHANGED <<run, database, faults, overtaken>>

Crashed == supervisor.at = "wait" /\ child.at = "exited" /\ child.rc > 127

(* Quarantine the files after the first `from` of the list, up to `to`,    *)
(* then go on to trim the list up to there.                                *)
Suspect(from, to, noProgress) ==
  /\ quarantine' = quarantine \union (UpTo(worklist, to) \ UpTo(worklist, from))
  /\ supervisor' = [supervisor EXCEPT !.at = "trim", !.upTo = to,
                                      !.noProgress = noProgress]
  /\ UNCHANGED <<run, child, rows, meta, disk, faults>>

(* The progress file names a file of the list: that file and those before  *)
(* it count as committed, the Window files behind it as suspects.          *)
RecoverFromProgress ==
  LET mark == Rank(worklist, progress) IN
  /\ Crashed /\ progress \in worklist
  /\ Suspect(mark, mark + ThreadCount + 2, 0)
  /\ overtaken' = overtaken \union {f \in UpTo(worklist, mark) : rows[f] # "new"}

(* A crash without a progress file; the counter only matters up to 3.      *)
NoProgressCrashes == IF supervisor.noProgress < 3 THEN supervisor.noProgress + 1 ELSE 3

(* Variant: without progress nothing is quarantined.                       *)
LenientRecovery ==
  /\ Crashed /\ worklist # NoList /\ progress = NoFile
  /\ Suspect(0, 0, NoProgressCrashes)
  /\ UNCHANGED overtaken

(* Without progress the first Window files are the suspects.               *)
RecoverWithoutProgress ==
  LET threads == IF NoProgressCrashes >= 3 THEN 1 ELSE ThreadCount IN
  /\ Crashed /\ worklist # NoList /\ progress = NoFile
  /\ Suspect(0, threads + 2, NoProgressCrashes)
  /\ UNCHANGED overtaken

Restart ==
  /\ supervisor' = [supervisor EXCEPT !.at = "spawn", !.attempt = 1, !.upTo = 0]
  /\ child' = NoChild

(* Variant: the list is trimmed one file too far.                          *)
Overtrim ==
  /\ supervisor.at = "trim"
  /\ worklist' = After(worklist, supervisor.upTo + 1)
  /\ Restart
  /\ UNCHANGED <<run, database, progress, faults, overtaken>>

(* Keep what follows the suspects; an empty list is removed.               *)
Trim ==
  /\ supervisor.at = "trim"
  /\ worklist' = After(worklist, supervisor.upTo)
  /\ Restart
  /\ UNCHANGED <<run, database, progress, faults, overtaken>>

(* No list, or a progress file that names none of its files.               *)
RestartAsIs ==
  /\ Crashed
  /\ worklist = NoList \/ (progress # NoFile /\ progress \notin worklist)
  /\ Restart
  /\ UNCHANGED <<run, database, disk, faults, overtaken>>

SupervisorStep ==
  \/ Spawn \/ ChildEnded
  \/ RecoverFromProgress \/ RecoverWithoutProgress \/ Trim \/ RestartAsIs

Terminated == supervisor.at = "done" /\ UNCHANGED vars

Next ==
  \/ SupervisorStep \/ ChildStep \/ Crash
  \/ Kill \/ PersistFail \/ PowerCut
  \/ Terminated

(* MAX_RESTARTS (2000) is out of sight: restarts are not counted.          *)
Spec == Init /\ [][Next]_vars /\ WF_vars(SupervisorStep \/ ChildStep \/ Crash)

-----------------------------------------------------------------------------
(* Properties.                                                             *)

Supervisors ==
  [at : {"spawn", "wait", "trim", "done"}, attempt : {0, 1},
   noProgress : 0 .. 3, upTo : Nat, rc : {0, 1}]

ChildSteps ==
  {"none", "open", "load", "rehab", "prune", "clear", "save", "index", "mark",
   "search", "resolve", "metadata", "cleanup", "exited"}

Children ==
  [at : ChildSteps, resume : BOOLEAN, window : Nat, batchSize : Nat \ {0},
   complete : BOOLEAN, found : SUBSET Files, work : SUBSET Files,
   arrived : Seq(Files), written : Nat, batch : SUBSET Files,
   committed : BOOLEAN, rc : {0, 1, CrashCode}]

(* Every variable has its type; a batch holds at least one file.           *)
TypeOK ==
  /\ run \in Scenarios
  /\ supervisor \in Supervisors
  /\ child \in Children
  /\ child.written <= Len(child.arrived)
  /\ rows \in [Files -> RowStates]
  /\ quarantine \subseteq Files
  /\ meta \in [state : {"none", "indexing", "current", "needs_reconciliation"},
               owner : BOOLEAN, newHead : BOOLEAN]
  /\ worklist \subseteq Files
  /\ progress \in Files \union {NoFile, Text}
  /\ faults \in Nat
  /\ overtaken \subseteq Files

(* What an index that calls itself current promises: a row of the disk's   *)
(* version for every file, except the quarantined ones, and no other row.  *)
Accounted(f) == rows[f] = "new" \/ f \in quarantine
Reconciled   == \A f \in Files \ run.onDisk : rows[f] = "none"

Finished == supervisor.at = "done" /\ supervisor.rc = 0 /\ meta.state = "current"

(* A run that ends well has lost no file but those that lay before the     *)
(* progress mark, and kept no row of a vanished file, whatever crashed.    *)
OnlyOvertakenLost ==
  Finished => Reconciled /\ \A f \in run.onDisk \ overtaken : Accounted(f)

(* The metadata never calls current an index that is being changed: rows   *)
(* change only under index_state "indexing", crashed runs included, so     *)
(* readers can tell an interrupted index from a finished one.              *)
ChangesAreAnnounced ==
  [][rows' # rows => meta.state = "indexing"]_vars

(* A child never hands a quarantined file to a parser: what has crashed    *)
(* one child does not crash its successors.                                *)
QuarantineHonoured ==
  child.at \in {"index", "mark"} => child.work \intersect quarantine = {}

(* The supervisor gets past the files that crash their parsers.            *)
SupervisorReturns == <>(supervisor.at = "done")
=============================================================================
