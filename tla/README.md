# codetopo in TLA+

`codetopo index` parses a source tree with tree-sitter into a SQLite graph,
`codetopo mcp` serves that graph to agents over stdio and keeps it up to date,
`codetopo watch` only keeps it up to date, `codetopo workspace` and `codetopo
worktree` copy graphs from one database to another.  Several such processes
share one database.  This directory models the concurrent and failure-prone
part of the program and the algorithms that its answers depend on, checks them
with TLC on small instances and proves what matters most for instances of any
size.

Paths below are relative to `src/src/` unless they begin with `src/`.

## 1. The system

| Component | Source | State it keeps | Operations | What makes it correct | Here |
|---|---|---|---|---|---|
| Lock file | `util/lock.h` | `<db>.lock` and the PID in it | acquire, acquire_blocking, release, held_by_live_process | one writer per database; the lock is freed; a probe does not overlook a writer | `FileLock` |
| Index pipeline | `cli/cmd_index.cpp` 420-1107, `core/thread_pool.h`, `core/arena_pool.h`, `index/persist_queue.h` | slots, tasks, arenas, result queue, persist queue, in_flight | submit, parse, watch, kill, collect, persist | each file has one result; no arena leaks; the run ends | `IndexPipeline` |
| Supervised run | `index/supervisor.cpp`, `cli/cmd_index.cpp` 100-420 and 1000-1107, `db/schema.h` 686-789 | rows, quarantine, metadata, work list and progress files | scan, resume, prune, index, commit, mark, trim, quarantine, restart | a crash loses nothing; "current" is true; the supervisor gets through | `Supervisor` |
| Background reindexing | `mcp/reindex.h`, `cli/cmd_mcp.h`, `cli/cmd_watch.h` | what is queued, the monitor thread, `<db>.reconcile.lock`, index_generation | trigger, stop, monitor | no change is forgotten, no work repeated, stop ends | `Reindex` |
| Workspace jobs and merge | `mcp/workspace_jobs.h`, `db/workspace.cpp`, `cli/cmd_workspace.h` | the one job: status, phase, cancel flag; roots, their rows, content search in the host database | start, cancel, add, refresh, remove | only a complete source is merged; a job's status is true; content search is not forgotten; calls end | `Workspace` |
| Server | `mcp/server.h`, `db/connection.h` 159-177 | writer gate, read transaction | graph requests, trace ingestion, health | an answer is of one committed state; one writer | `McpServer`, `CommittedReads` |
| Persister | `index/persister.h`, `index/change_detector.h`, the row transactions of `db/workspace.cpp` | nodes, references, edges of a file | persist_file, delete, resolve_references, repair, merge, restore | nothing dangles; rows are of one version; resolution and edges agree; observed calls survive | `GraphTables`, `Persister` |
| Call binding | `index/call_binding.h`, `index/call_binding_db.h` | none | compatible | a call is bound to a symbol it can mean | `CallBinding` |
| Tools | `mcp/tools.cpp`, `db/queries.h` | the cache of prepared statements | searches, callers, lists in pages, handles | searches are exact or say they are cut off; no possible call is passed over; pages are complete | `Callsites`, `GraphSearch`, `Listings` |
| Worktree seeding | `db/cow_seed.h`, `index/worktree_reconcile.h` | a copy of the primary's database | copy, stamp, align times, targeted run | the copy is a committed state; no changed file passes for unchanged | `Checkout`, `WorktreeSeed` |
| Watcher | `watch/watcher.h`, the callbacks of `cli/cmd_mcp.h` and `cli/cmd_watch.h` | known files, pending batch, HEAD time, last_known_head | poll, notify, debounce, overflow, branch switch | the index follows the disk | `Watcher` |
| Scanner | `index/scanner.h`, `util/path.h` 123-144, with `index/change_detector.h` and the walk of `watch/watcher.h` | none; what it lists becomes rows | scan by git or by a walk, scan_paths | the index is the tree as rules, options and links have it | `Scanner` |
| Extractor, arena allocator, schema, full-text search, PageRank, quality, diff, process spawning, utilities, command line | see `components` in PROJECT.json | | | | not modelled, section 7 |

How they interact.  A CLI command, a server and a watcher are separate
processes.  All of them spawn `codetopo index`, whose *supervisor* takes
`<db>.lock` and spawns *children*, one after another, that index and may crash.
A child is one process with a main thread, a pool of workers, a watchdog and a
persist thread, which pass files to each other through queues.  Supervisor and
child talk through the database, the work list and the progress file only.
Servers and watchers of the same database coordinate by `<db>.reconcile.lock`
and by comparing `index_generation`; inside a server the monitor thread, the
workspace job and the request thread exclude each other by `writer_gate`.
A workspace job works under two lock files, its own database's and the
source's.  Readers never lock: SQLite gives them snapshots, and `index_state`
tells them what the snapshot is worth.

What is hard here: system calls of several processes on one file name; a kill
or power cut between two commits, or between a commit and the file that tells
about it; threads that ignore cancellation and come back after they were given
up; triggers that arrive while a run is reading; two servers that want each
other's locks; a database that is copied while it is written; rows that bind to
symbols which change under them; walks that stop at limits; files that several
routes lead to; and queues that are bounded on both sides.  `hazards` in PROJECT.json lists each at its line with
the properties that cover it, or says why none does.

How the modules build on each other (`EXTENDS`):

    FileLock        IndexPipeline        Supervisor        Reindex        Scanner
    Workspace  <-  McpServer  (implements CommittedReads)
    CallBinding  <-  GraphTables  <-  Persister
    CallBinding  <-  Callsites  <-  GraphSearch  <-  Listings
    Checkout  <-  WorktreeSeed  <-  Watcher

Each chain has a module `MC...` with its instances for TLC.  The chains meet in
the same code seen at different grain: a run is a pool of threads in
`IndexPipeline`, a sequence of batches and files on disk in `Supervisor`,
transactions on rows in `Persister`, a single begin and end in `Workspace`,
`Reindex` and `Checkout`.  What a coarse module takes for granted is what the
fine one checks: `MutualExclusion` is why there is one run at a time elsewhere,
`Complete` why a batch that is reported done is done.

Theorems about a module `M` are in `MProofs`, which extends it: `FileLockProofs`,
`IndexPipelineProofs`, `SupervisorProofs`, `ReindexProofs`, `PersisterProofs`,
`McpServerProofs` for `Workspace` and `McpServer`, `WatcherProofs` for
`WorktreeSeed` and `Watcher`, and `ToolsProofs` for `Callsites`, `GraphSearch`
and `Listings`.

## 2. The modules

Two kinds of comments mark definitions that are not part of a model: a *variant*
or *mutant* is the code with a plausible bug, used by `mutants` in PROJECT.json
to show that a property notices it.

### FileLock

`Procs` are processes named by their PIDs.  Every system call of `lock.h` is a
step: `Exists`, `OpenFile`, `ReadPid` (read_pid), `CheckAlive`
(is_process_alive), `BreakStale` (remove of a stale lock), `Create` (exclusive
creation), `RereadPid`, `WritePid`/`WriteFails`, `Release` and `Unlink`.
`Poll` and `Deadline` are the loop of acquire_blocking.  A scenario selects the
build: on Windows the creator keeps its handle, and a file that anyone has open
is not removed.  A `mortal` process may `Die` at any step; with `pidReuse` its
PID may come back.

| Run | What it shows |
|---|---|
| `FileLock_builds` | Windows, three processes that may die anywhere, PIDs reused, PID writes failing: `MutualExclusion`, `ProbeSound` (a probe answers "no writer" only if at some moment of it there was none), `BlockingReturns`.  POSIX while nobody dies: also `NoOrphan`, `LockIsFreed` |
| `FileLock_posix_death` | POSIX with deaths: `MutualExclusion` is **violated**.  The stale file is removed by name after its PID was read: a contender that is slow removes the file of a new owner |

Three processes are the owner, the contender that breaks the lock and the one
that is late; a fourth would repeat a role.

### IndexPipeline

One run of `run_index` from the arena pool to the return.  `Main` is the main
thread (fill the window, take a result, push it to the persist queue, join,
stop the watchdog, destroy the pools), `Worker(t)` a thread of the pool (lease
an arena, set the start time, parse, compare generations, report), the
watchdog `Inspect`s a start time and acts on it in later steps (`AskToStop`,
`Kill`), `Persist` pops and writes.  Time is abstract: the start time of a slot
is the age of its parse, none, running, past the timeout, past twice the
timeout, and `Age` moves it on.  A work list says which of its files are
`Rejected`, `Throws`, `Stuck` or `Late`.  The threads of the pool are alike, so
the idle one that takes a task is always the first.

| Run | What it shows |
|---|---|
| `IndexPipeline_run` | three work lists: a refused, a stuck and two ordinary files; a parse that throws or comes back late beside a stuck one; a parse that throws and whose slot goes to another file.  Parses are cancelled or not, and the persist thread may fail: `RunEnds`, `ArenasBalanced`, and with the first list `NothingLostOrDoubled`, `Complete`, `WatchdogSeesStuckParses` |

Bounds: one configured thread gives a window of three slots, three pool threads
and two arenas, so slots are reused, arenas run short and a stuck parse takes a
real share.  Four files through three slots make one slot change hands.  A
persist queue of capacity 1 is full as soon as it holds something.  The last
three properties are stated for an `Orderly` list, on which no parse throws or
comes back late: they are false of the others (section 6).

### Supervisor

A whole supervised run over the data it leaves: the rows, quarantine table and
metadata (committed at once with each batch), the work list file and the
progress file.  The child's steps are the phases of `run_index`: `Open`,
`Resume` or `Scan`, rehabilitation after a branch switch, `Prune`, `Clear`,
`Save` the list, index (files arrive in any order that the window allows,
are written in batches, the mark follows the commit), search, resolve,
metadata, cleanup.  The supervisor spawns, waits, trims the list up to the
mark, quarantines the files behind it and restarts.  Crashes of a parser, kills
of the child, power cuts of both and write errors strike between any two steps,
as many as the scenario's `faults`.  Files are numbered by path, and a sorted
list is the set of its files.

| Run | What it shows |
|---|---|
| `Supervisor_crashes` | fresh, incremental, forced, owner-less, truncated runs with crashing files and faults: `OnlyOvertakenLost`, `QuarantineHonoured`, `ChangesAreAnnounced`, `SupervisorReturns` |

`OnlyOvertakenLost` excuses one class of files: results are persisted in the
order parses end while the list is trimmed by position, so a file overtaken by
others is neither indexed nor quarantined (section 6).  Bounds: six files with a
window of three and batches of two, so that a crash can find files before, in
and behind the window; two faults, one of which may hit the recovery from the
other.

### Reindex

Clients of one database, each with its lock-guarded fields (`client`), the
trigger that is about to start a monitor (`request`), the monitor thread
(`monitor`), and the gate it shares with workspace jobs.  `Trigger` is
trigger(); `StartUp`, `Deliver` and `Manual` call it as run_mcp, the watcher
and the reindex tool do.  The monitor passes the gate, waits for the
coordination lock (`Coalesce` when it is held too long), compares generations
(`SkipDuplicate` or `Proceed`), takes what is queued, spawns an indexer and
looks again.  An indexer is three steps: it has the write lock, it reads the
files, it is done; an edit in between is not seen.

| Run | What it shows |
|---|---|
| `Reindex_clients` | a server with edits, manual runs, jobs, failures and a stop; a server beside CLI runs; two servers that start together; two watchers: `NothingForgotten`, `NoStrandedTrigger`, `NoDuplicateRun`, `CatchesUp`, `StopDrains` |

Bounds: two clients are the holder and the one that gives way; two files tell a
targeted run from a full one; two or three edits put one before, one during and
one after a run.  Abstractions: timeouts pass only while an indexer is running
(`LongHeld`); files of a failed or stopped run are `waived`, as the code drops
them; a client does not die.

### Workspace, McpServer and CommittedReads

`Workspace`: each repository has a database of its own, abstracted to the
version of the tree it holds, whether all files have it (`whole`), `index_state`
and, for each root merged into it, the same.  A worker is a job of a server
(`Start`, `Cancel`), a server's background indexer or a command.  It passes the
gate (`WaitForGate`, `EnterGate`), takes its own lock (`AcquireHost`/`HostBusy`),
brings the source up to date by a run that has the source's lock (`RunLock` to
`RunFinish`), takes the source's lock again (`AcquireSource`), has the source
admitted (`Probe`), commits the merge with its marker for content search
(`Merge`), and goes on to rank, content and the end of the marker (`Rank`,
`FillContent`, `Unmark`).  The checkpoints at which a cancel request is looked at
are where the code has them.  `Throw` fails any step, `Die` ends a process with
all its threads, and `Unwind`, `Release` and `Report` are what the destructors
and the job's epilogue do, in that order.

`McpServer` adds the thread that serves requests: a graph request pins a
snapshot (`Pin`) and runs its queries in it (`Query`, `Requery`); trace ingestion
takes gate and lock and commits on another connection; health tries the gate,
probes the lock and reads metadata step by step.  `CommittedReads` is what a
client may rely on, with no locks, snapshots or threads in it: a request is
answered from one state that was committed while it was waiting.  The property
`AnswersAreCommitted` is its specification under the mapping at the end of
`McpServer`: the committed state is the graph and the merged roots of the
server's database, what a request is served from is its snapshot.

| Run | What it shows |
|---|---|
| `McpServer_workspace` | two servers add each other; a command adds and removes what a job refreshes; requests beside a job, a command and the monitor; a source indexed while it is added: `MergedIsWhole`, `ContentNotForgotten`, `OneWriter`, `JobsTellTheTruth`, `CallsEnd`, `AnswersAreCommitted` |

Bounds: two repositories are enough for two servers to want each other's locks;
a plan has two workers at most, a third would only wait; one edit makes two
versions, so an old merge can be told from a new one; two requests let one
follow another that failed.  Deadlock is not checked, because everybody may be
done.

### CallBinding, GraphTables and Persister

`CallBinding` is `compatible()`: which symbols a call can mean by name, number
of arguments, written scope, receiver's type and enclosing scope.  Names are
sequences of identifiers, a signature the sequence of classes its parameters
belong to, or "unknown" where no parameter list is found: it takes any number of
arguments, and earns a call site no points for them.

`GraphTables` has the tables as a record (rows of files, nodes by stable key,
references, edges) and each transaction as an operator on it: `PersistFile`,
`PruneFile`, the bindings and edges of resolve_references, `RepairEdges`,
`MergeRoot`, `RemoveRoot`, `Observe`.  Updates in place keep a node and change
what it says, deletes cascade where the schema says so.  An edge says whether the
index found it (`source` static) or a trace alone, and whether it was ever
observed (`seen`): a trace that meets an edge updates it, one that meets none
inserts it.  Counts, times and confidence are abstracted to `seen`.

`Persister` puts these into runs: full, targeted and forced ones with their
scan, pruning, batches, both transactions of resolution and the repair between
them; `Crash` is followed by the supervisor's trimming and a restart,
`PowerCut` by nothing.  Workspace commands and traces come between runs, traces
also between the transactions of one.

| Run | What it shows |
|---|---|
| `Persister_graph` | two files and one of an extra root, each in two versions, with edits, a fault and three commands: `NoDangling`, `RowsAreOneVersion`, `ResolvedHaveEdges`, `ObservedSurvive` |
| `Persister_misbound` | `ResolvedCallsFit` is **violated** by a plain edit and two full runs: C and C++ stable keys hold the bare name, numbered by line; when a symbol goes, another takes over its node, and callers in unchanged files stay bound to it |

Bounds: two primary files are the one that changes and the one that refers to
it; the versions are chosen so that symbols disappear, change parameters, become
ambiguous or move; batches of two make the second file of a run the last of a
batch or the first of a rest; an extra root has calls into the primary one.
`EdgesPerRef` stands for the 10 edges that a call with many meanings may have
(MAX_EDGES_PER_REF); it is 1, so that a call with two meanings exceeds it.  Which
of the meanings come first, a matter of confidence and row in the code, is left
to a fixed choice.

`ObservedSurvive` says what `persister.h:258` and `src/README.md:485` claim of
runtime observations as far as the code keeps it: an edge that only a trace knows
outlives every step that leaves its two symbols, and an edge that the index found
as well keeps its observations, unless a run writes its caller's file or a merge
replaces a root it has an end in (`Remade`).  In these two steps the static edge is
deleted and found again without them (section 6).

### Callsites, GraphSearch and Listings

A request sees one index from beginning to end, which is what `CommittedReads`
promises, so a search is a walk over a fixed record of nodes, edges and
references.  `Callsites` is the scoring of references that were not bound: who
owns the target, what the receiver's declared type means in its file, how well
each call site fits, what is shown and what is cut.  `GraphSearch` has the walks
(`ImpactRow`/`ImpactNext`, `ChangesLevel`, `SubgraphRow`/`SubgraphNext`,
`PathRow`/`PathNext`), one step a row or a level, rows in any order where the
query names none.  `Listings` has the lists in pages, the handles a client finds
in them, and the statements they are read with: `Get` is QueryCache::get, which
finds a statement by the name that each tool makes for it; `Execute` binds
values by position.  `Change` is a commit by somebody else that renumbers nodes.
`Ordered` is ORDER BY: at each place the row that has so many before it.
`IsIndex` says what the tools read and `IsList` what they are asked; depths below
zero and limits of zero are left out (section 6).  So is what dir_list does for
"." when the primary repository has nothing there: it lists the table of roots
instead, in pages of its own (`tools.cpp:3178-3209`).

| Run | What it shows |
|---|---|
| `Tools_session` | every search in each of 512 graphs, each of 64 sets of call sites with every request for callers (two of them also for a method of unknown parameters), every state of a changed file, and lists with other requests and a commit in between: `SearchesAreExact`, `CandidatesCoverCalls`, `PagesAreComplete` |
| `Tools_statements` | `StatementsFit` is **violated**: two requests make different statements under one name, and the second runs with its values bound to the parameters of the first |

Limits (500 symbols, 200 and 5000 references, 100 times the depth) are set so
low that small graphs exceed them.  The graphs are the subsets of nine edges
among six nodes, with a diamond, a cycle and edges of other kinds; the call
sites differ in receiver, its type, scope and number of arguments.  The
properties compare with definitions that know nothing of the walk: the nodes in
a ball around the start, the shortest paths, what the binder would accept, the
rows that a request means.  `Tools_session` leaves out the pairs of requests of
`Tools_statements`.  Deadlock is not checked: a client that has asked all its
questions is done.

### Checkout, WorktreeSeed and Watcher

`Checkout` is what the two others share: the files on disk with content and
time, what git answers, the rows of the index, and a run that lists the files,
persists them one by one and ends or fails.  A row has the time that the file
had when it was listed and the content it has when it is read.

`WorktreeSeed` is bootstrap_worktree_index.  The source is a file of pages and
a log; its indexer writes, checkpoints and starts the log anew while
`CopyPage` copies the file and the steps from `BeginLog` to `CopyLog` the log, or
`SkipLog` finds none.  A copy of the log that is overtaken by a new beginning ends
in any state that the old log had had (`torn`), since frames of another log are not
read; one that fails is left empty or cut short, which the code does not notice
(`FailLog`).  A cut falls between two transactions, because the reader ignores
what does not end in a commit.  When the copy is complete the primary's files are
forgotten: nothing reads them again.  Then `Stamp`, `Diff` (git diff and untracked
files), `Align` (every row that git did not name gets the time of its file) and
`Index`.  It may die anywhere.

Git may fail wherever it is asked: `Answers` is git_command, whose caller sees no
output, or a part of it, and takes it for the whole.  `Quoted` are the files whose
names git puts in quotes when no -z is given (control characters, quotation marks,
and bytes above 127 by default); `Named` drops them from an answer, because no
language is found for a name that ends in a quotation mark.

`Watcher` adds edits, a branch switch written out file by file before
.git/HEAD, the thread of either build (`PollHead` and `PollFiles`; `Read`,
`Overflow`, `ReadOverflow`, `Flush`), the callback with its last_known_head, and
the runs that follow from it.

| Run | What it shows |
|---|---|
| `Watcher_follow` | seeding from a primary that is clean, was dirty, is being indexed after a switch or for the first time; then, and in indexes that were there, edits, a switch, a failed run or an overflow: `CopyIsCommitted`, `TimesTellTheTruth`, `IndexFollowsDisk` |

The exceptions in these properties are behaviours of the code, and each is
stated where it is used.  `CopyIsCommitted`: a log that began anew before its
copy was complete, and one whose copy failed.  `TimesTellTheTruth`: rows that
alignment gave a time without looking at their content, where the copied row was
not of the primary's head commit, the file changed after git was asked, git
failed, or git quotes the name.  `IndexFollowsDisk`: changes that came between the
scan of the first run and the baseline of the watch or while a run failed, and
those that the system dropped and git does not name (section 6).  Without any one
of these TLC finds the property violated.  Bounds: three files, one that
differs between the two commits, one that is the same and whose name is quoted,
one that is not tracked; two edits put one before and one after a poll or a run;
one fault, which is a crash, a failing git, a failing copy, a failed run or an
overflow.  Deadlock is
not checked: nobody has to edit.

### Scanner

A tree maps the sequence of names of each place to what is there: nothing, a
file with content and time, a link, or a directory with the rules of its
.gitignore.  A glob is the set of names it matches, so `Fits` is match_impl; a
pattern with `**` has what comes before and after it matched by whole names, where
the code searches the text of the path and may meet it within a name (section 6);
`Prefixed`, `Matches` and `Decides` are the filter as it is loaded and applied,
`Walk` scan_directory with the routes that lead to each file, `GitScan`
scan_via_git over an external `GitLists`.  `FullRun` is a scan with what
change detection and an empty or cleared index make of the list; `Poll` is
collect_files, the events of a round, scan_paths and the targeted run.  They are
single steps, since `Supervisor` and `Watcher` have what may come in between.

| Run | What it shows |
|---|---|
| `Scanner_trees` | edits of files, rules and links, full runs with and without `--force`, and polls in any order; without git, with git and an unresolved conflict, with `--no-gitignore`, with `--exclude`: `IndexFollowsTree` |

After a full run the property compares with what a user would name: each file
that no rule, option or excluded directory leaves out, under its real path.
After polls it speaks of the list of the last full run and of what came since,
but for files below directories that the watch does not enter, files that became
directories, and files that a run saw and the watch did not.  Full runs that
fail are followed by no claim (section 6).  Bounds: ten places, with a directory
that rules name, an excluded one, a file outside the root, and a place for each
kind of link; three edits make a link, a rule and a change meet, two where
options or git are the subject.  Deadlock is not checked: with the edits used up
only runs and polls remain.

## 3. Fairness

* `FileLock`: a process inside an operation is scheduled and leaves its critical
  section; polling does not go on past the deadline (strong fairness of
  `Deadline`, because the clock moves while the process polls).
* `IndexPipeline`: each thread is scheduled (weak fairness per thread, one
  condition for each); ages grow while a parse runs, and the watchdog, which
  wakes every second, reads every slot again and again (strong fairness of
  `Inspect(s)`, since its scan takes the slots in turn).  A `Stuck` parse has no
  step that ends it.
* `Supervisor`: one of supervisor and child can always go on, and does; a fault
  never has to happen.
* `Reindex`: monitors, watchers, jobs and indexers go on; nobody has to edit,
  call a tool or stop.
* `McpServer`: the request thread and each worker are scheduled (weak fairness
  of `Serve` and of each `Work(w)`).  `CallsEnd` needs no more, because every
  lock that a worker asks for inside another is tried once and never waited
  for; requests, cancellations, edits and deaths need not happen.
* `Watcher`: runs, the seeding, the monitor, the watch thread and a git that has
  begun a checkout go on; edits, switches, overflows and failures need not
  happen.  The primary's indexer need not go on either.

## 4. What is proved

For any number of processes, files, clients, repositories, slots or pages, from
the named assumptions on constants in the modules; no theorem knows a bound
that TLC uses.  The assumptions are types and distinct names, with these that
say more: `PathAssumption` numbers the first version of a file 1, in which the
model starts; `ContentAssumption` of `GraphTables` is what the extractor gives
(kinds it knows, names that are not empty, a symbol of the same file around each
reference); `ScenarioAssumption` of `Watcher` starts with rows that are not from
the future, and whose content is the file's where their time is;
`SessionsAssumption` of `Listings` is what the schema and the extractor give:
finitely many rows, edges between nodes that exist, names that are not empty, and
ids, call sites and places in an ORDER BY (which ends with the id) that tell rows
apart; `RequestsAssumption` is what the tools accept.  The runs' instances
satisfy them, as TLC checks.

| Theorem | States | Module |
|---|---|---|
| `TypeCorrect` | `TypeOK` | `FileLockProofs` |
| `WindowsMutualExclusion`, `PosixMutualExclusion` | `MutualExclusion` | `FileLockProofs` |
| `PosixNoOrphan` | `NoOrphan` | `FileLockProofs` |
| `ProbesAreSound` | `ProbeSound` | `FileLockProofs` |
| `TypeCorrect` | `TypeOK` | `IndexPipelineProofs` |
| `ArenasAreReturned` | `ArenasBalanced` | `IndexPipelineProofs` |
| `NothingIsLost` | `NothingLostOrDoubled` | `IndexPipelineProofs` |
| `RunsAreComplete` | `Complete` | `IndexPipelineProofs` |
| `StuckParsesAreSeen` | `WatchdogSeesStuckParses` | `IndexPipelineProofs` |
| `TypeCorrect` | `TypeOK` | `SupervisorProofs` |
| `QuarantineIsHonoured` | `QuarantineHonoured` | `SupervisorProofs` |
| `ChangesAnnounced` | `ChangesAreAnnounced` | `SupervisorProofs` |
| `OnlyOvertakenAreLost`, `OnlyOvertakenAreLostWithoutPowerCuts` | `OnlyOvertakenLost` | `SupervisorProofs` |
| `TypeCorrect` | `TypeOK` | `ReindexProofs` |
| `TriggersAreServed` | `NoStrandedTrigger` | `ReindexProofs` |
| `WorkIsNotRepeated` | `NoDuplicateRun` | `ReindexProofs` |
| `ChangesAreKept` | `NothingForgotten` | `ReindexProofs` |
| `MergesAreWhole` | `MergedIsWhole` | `McpServerProofs` |
| `ContentIsKept` | `ContentNotForgotten` | `McpServerProofs` |
| `WritersExclude` | `OneWriter` | `McpServerProofs` |
| `JobsAreTruthful` | `JobsTellTheTruth` | `McpServerProofs` |
| `AnswersAreFaithful` | `AnswersAreCommitted`, the refinement of `CommittedReads` | `McpServerProofs` |
| `NothingDangles` | `NoDangling` | `PersisterProofs` |
| `RowsBelongTogether` | `RowsAreOneVersion` | `PersisterProofs` |
| `EdgesAreComplete` | `ResolvedHaveEdges` | `PersisterProofs` |
| `ObservationsAreKept` | `ObservedSurvive` | `PersisterProofs` |
| `CopiesAreCommitted` | `CopyIsCommitted` | `WatcherProofs` |
| `TimesAreTruthful` | `TimesTellTheTruth` | `WatcherProofs` |
| `SearchesAreExactAlways` | `SearchesAreExact` | `ToolsProofs` |
| `CandidatesCoverCallsAlways` | `CandidatesCoverCalls` | `ToolsProofs` |
| `PagesAreCompleteAlways`, `ListsAreWholeAlways` | `PagesAreComplete`, and what it means | `ToolsProofs` |
| `StatementsFitAlways` | `StatementsFit` | `ToolsProofs` |

The arguments, and why the property alone would not do:

* **FileLock.**  `HandleInv` (Windows): whoever writes or holds has its handle
  open and is the creator of the file that is there, so nobody can have removed
  it.  `MutualExclusion` does not say why a second creation fails.
  `CreatorInv` (POSIX): while nobody is mortal, nobody finds a dead PID, and
  only its creator removes a file.  `ProbeInv` adds that a file whose creator
  holds the lock names it, and that whoever holds the lock throughout a probe is
  the PID that the probe has read; the theorem has the hypothesis that one of
  the two first invariants applies (`Reliable`), which is where the property is
  checked too: with deaths on POSIX there may be two holders.
* **IndexPipeline.**  The properties count how often a file occurs.  A watchdog
  that declares a slot dead and a parse that reports would count one file twice,
  so `HeldOnce` counts the holders of a slot: a slot that is not available has
  exactly one task, parse or result of its current generation.  `Generations` and
  `FilesMatch` say whose those are, `Timed` that a start time belongs to a parse
  under way, `Doomed` that what is about to be killed never comes back.  These
  hold of `Orderly` lists, as the properties do; types and arenas of all.
  `Progress` ties the counts to the main thread's place, which gives `Complete`.
* **Supervisor.**  `Inv`: the types, a work list free of quarantined files,
  `Announced` (past opening, index_state says indexing) and `Marked` (who is
  about to mark has written a file that the mark can name).  For what is lost,
  `LossInv` follows the list through child, file and supervisor: the saved list
  leaves out nothing but what is done (`Listed`), what a child works on leaves
  out nothing but what is done (`Indexing`), nothing is left at the metadata
  (`Indexed`).  It needs `Plain`: a resumed child does not know that its list was
  cut to `--max-files`, or that deletions were skipped for want of an owner.  And
  `NotStale`: with `--force` or after a branch switch no scan may meet a list
  that an earlier child left; a power cut makes one meet it.  So there are two
  theorems: the first allows every fault and neither `--force` nor a switch, the
  second allows these and no power cut.  A run without any fault needs no
  hypothesis.
* **Reindex.**  `NoStrandedTrigger` is inductive given the types: each way to
  clear `running` clears the queue, finds it empty or is a shutdown.
  `NoDuplicateRun` needs `Coordinated` (past the comparison a monitor holds the
  lock, so nobody else completes a run), `Attended` (a working monitor keeps
  `running` set, so later triggers are recorded), `ByItself` and `Fresh`.
  `NothingForgotten` needs `Kept` (each stale file is with a client that does not
  count on another: in its events, in a queue it will not discard, in a run that
  has yet to read it or has read it), and `ReliableRuns` (the client on whose run
  the others count keeps *every* stale file).  The second is false where a
  targeted run covers only its own client's paths, or where the holder does not
  watch; hence the hypothesis `Watchful`: everybody watches, and there is one
  client, or runs are full, or nothing is edited.  Section 6 has what happens
  otherwise.
* **Workspace and McpServer.**  `WInv` says of each worker what its place means:
  which locks it has (`KeepsHost`, `KeepsTarget`), what it knows of the source
  (`StateFits`, `ScanFits`), what it has done (`DidFits`, `Filled`); and of each
  database that what is current is whole (`StoreOK`).  `McpServerProofs` has it
  step by step as lemmas and adds `RInv` of the request thread: it has a snapshot exactly while it asks queries.  The refinement is a step
  simulation: each step of `McpServer` is one of `CommittedReads` under the
  mapping, or leaves the mapped variables alone.  `JobsTellTheTruth` needs
  `ScanFits` to the end of a call: the version asked for is the one merged.
* **Persister.**  A table is `Sound` when every edge, every reference and every
  file fits by itself: this is what the transactions preserve, one lemma each
  (`CutIsSound` covers all deletions; `ObserveIsSound` is that of a trace).  `NoDangling` alone does not say why a
  deletion finds all that names a node, and `RowsAreOneVersion` is of `db` while
  a run works in `tx`; `TablesFit` has both.  `EdgesFollow`: edges still to be
  inserted fit the tables as they are now, which is so because between
  the two transactions of a resolution only traces are written, which take
  nothing away, and together with the
  committed ones they cover the resolved references (`Covered`), which is so
  because the repair comes first.  `Remembers`: an observed edge that the open
  transaction has lost has an end that no file still to come brings back, or is
  static and of a file that the run has written; without it the commit of a batch
  could lose an edge between symbols that exist before and after.
* **WorktreeSeed and Watcher.**  `CopyFits`: a page that is copied, and not in
  the log, is still the source's page until the log begins anew; so main file and
  log together are what the source had committed when the log was copied; and a
  log that never began anew has not been torn.
  `RowsFit` carries the copied rows to the alignment, and that what an unfailing
  git did not name, and does not quote, is as committed unless its time has moved;
  `TimesFit` keeps all times in the past, so that a later edit is seen.

* **Searches.**  No property of an answer is inductive: the invariant has to say
  what a half-finished walk knows.  `Within` are the balls around the start, as
  sets, and `Level` relates frontier, next frontier, what is seen and the rows not
  read yet to two successive balls: after each row, whatever the order, what is
  seen lies between them, and what is missing comes from nodes still in the
  frontier.  So a walk that ends by itself has the ball of its depth, and one that
  stops at its limit has a part of it.  `impact_of` and `subgraph` have this form
  (`ImpactFits`, `SubgraphFits`), `detect_changes` a coarser one, level by level
  (`ChangesFits`).  `shortest_path` keeps a queue instead: it is a `Tree` whose
  entries come in the order of their depths (`Depths`), and what an entry before
  the head links to is in it (`Expanded`); hence nothing that is not in the queue
  is as near as its end, and the path found is a shortest one among those that
  avoid the paths before it.  The induction over levels and places that this needs
  is not the library's, which takes an operator: `Induction` is the least element
  of a set of numbers, from well-foundedness.
* **Callers.**  The score of a call whose receiver is of the target's type is at
  least 72, whatever the arity and the common name take away, and that of a loose
  one at most 50 (`ScoreIs`, `ScoreOfIs`); the rows are shown in the order of the
  scores, so whatever is cut, nothing loose is kept before a typed one
  (`CollectIs`).  What the binder could bind passes the filters before
  (`CouldCallFits`), which is false for languages in which a method takes itself
  as a parameter: the hypothesis `SelfIsExplicit` (section 6).
* **Lists.**  `Sorted` shows that the places of an ORDER BY exist and are unique, so
  `Meant` has each row once and in order (`MeantIsWhole`); `Selects`, for each tool
  and all its parameters, that the statement it builds has its values in the order
  of its markers and returns that; `NamesFit`, that one name has one statement
  among requests that do not cross; `RespondIs`, that a page by limit, by bytes or
  with one probed row more is the next part, and says truthfully whether there is
  more.  `PagesInv` joins them: what was read is a beginning of what is meant, and
  every statement in the cache is that of the request it is named for.
  `Uncrossed` is the hypothesis that the requests of `Tools_statements` violate.

The proofs also found things about the definitions.  `ClearForForce`,
`CrossRoot` and other alternatives that the code tries in order had been CASE
expressions with overlapping guards: TLC takes the first that applies, TLA+ any,
so nothing could be proved about them.  They are IF chains now.
`RowsAreOneVersion` did not hold of a refreshed root, and `CandidatesCoverCalls`
does not hold in two languages (section 6).  A sorted sequence was one of the
community module's, which is defined by choosing among all permutations; as
`Ordered` it has a definition by which it can be computed and reasoned about.

Only model-checked: all liveness (`RunEnds`, `SupervisorReturns`, `CatchesUp`,
`StopDrains`, `LockIsFreed`, `BlockingReturns`, `CallsEnd`, `IndexFollowsDisk`),
which the proof system does not do under fairness, and `IndexFollowsTree` of
`Scanner`: which files a scan lists is defined by recursion over the tree (`Loads`,
`Walk`), and of what recursive operators compute nothing can be proved here.
The hypotheses of the theorems of `ToolsProofs` hold in `Tools_session` (the
assumption `Supposed` of `MCTools`).

## 5. Plan

Done: all modules of section 2, and the proofs of section 4: every invariant and
action property that a run checks has a theorem, but for `IndexFollowsTree`.

What could follow, most important first:

1. `Scanner` without recursive operators, and `IndexFollowsTree` for trees without
   links, where the routes are the paths.
2. Lemmas about `Compatible`: the calls a candidate can never mean.
3. PageRank in saturating arithmetic against a reference definition.

## 6. Also seen while modelling

Behaviours of the code that the models have and that no run has as its subject.

Lock file.  A creator that dies between creating the file and writing its PID
leaves an empty lock that `lock.h:40` never breaks.  On Windows the remove in
`release` (`lock.h:115`) fails while a probe has the file open, and the lock
stays behind with the PID of a live process: `NoOrphan` and `LockIsFreed` are
POSIX properties.  A live process of another user makes kill(pid, 0) fail with
EPERM, which `lock.h:164` takes for its end.

Index pipeline.  A parse that throws leaves its start time in the slot
(`cmd_index.cpp:634`), and the next file of the slot may be killed before its
parse has begun; the comment at `:757` says otherwise.  With late parses `NothingLostOrDoubled` fails,
which is why it is stated for `Orderly` lists: the worker passes the generation check while the
watchdog is about to bump it, and both report the file.  A late parse that
clears the start time of a slot with a new task (`:615`) blinds the watchdog to
it; cancel_flag is set on the strength of an older start time, for whichever
task has the slot (`:705`).  If stuck parses take every arena or thread, the run
waits for ever (`:718`, `:439`).  The flag that asks for `_exit` is read before
the destructor that could set it (`:1102`).  A batch size of zero (`:421`) is
not looked at.

Supervised run.  Files overtaken by others in a window that crashed are lost
(`supervisor.cpp:249`; `src/README.md:51` promises to continue with the
remaining files).  After a branch switch each scan takes a crashing file out of
quarantine again, so the restarts have no end but their limit, which is 2000
where `src/README.md:24` speaks of 10 retries.  A child killed between writing
the metadata and the cleanup makes a bootstrap run end as "current" with rows of
vanished files; `--max-files` and the skipped deletions are forgotten on resume;
a power cut of both processes leaves a work list that a later run resumes
although the disk has changed, and also when that run has `--force` or follows a
branch switch: its first child scans and clears, and if that one is killed before
it saves its own list, the next resumes the old one, which leaves out rows that
have been cleared (`cmd_index.cpp:179`).  After a crash behind the last commit the trimmed
list is empty: the restarted child finds nothing to do and the index is called
current with calls unresolved.  On POSIX a child outlives its supervisor, whose
lock is then taken for stale (`process.cpp:224`).

Background reindexing.  Changes are dropped in favour of a client that holds the
coordination lock but may have read the file earlier, and does not watch
(`reindex.h:131`); two watching clients with targeted runs forget changes in the
same way, because the holder's run need not cover the files dropped.  A CLI run
that scanned before an edit can make the trigger for it skip itself; a manual
request is dropped after 30 s, though the tool answers that queries "will
reflect updated state once complete".  A failed run empties the queue (`:273`);
two threads in trigger may both join the monitor (`:103`).

Workspace and server.  A refresh by a job drops the content search that a
command had promised for the root.  The status "completed" is reported before
the locks are released, so the next call may be refused; a failure after the
COMMIT reports "failed" for what was merged.  Health reads its metadata without
a transaction, and its probe (`server.h:215`) can answer for a moment before.
ingest_traces keeps its connection when it throws (`tools.cpp:7447`).
check_staleness looks at .git/HEAD only (`server.h:616`).  Ids of roots are used
again.

Refreshing.  A refresh of an extra root stages its relations with other
repositories, calls excepted, and restores them by stable key
(`workspace.cpp:705-735`).  It stages those that start in the root as well, so
what a file of the root said of another repository in its old version stays
although the new version does not say it.  `RowsAreOneVersion` excepts these
edges (`Restored`).

Persister.  What is observed on a call that the index has found as well is written
into the static edge: its count, times and confidence (`tools.cpp:7355-7361`).
These are lost when the caller's file is indexed again, which deletes static edges
(`persister.h:1520`), though the comment at `persister.h:258` has "runtime trace
evidence" preserved; and when a root is refreshed, since only edges of other
sources are staged (`workspace.cpp:724`), though `src/README.md:485` has runtime
observations remapped "including observation counts/timestamps".
`ObservedSurvive` excepts them by `Remade`.  What a root's own index has observed
when it is merged is not modelled: the source's edges arrive unobserved.  Targeted runs attract
unresolved calls by kind and full name only, where `src/README.md:340` speaks of
deletions and renames; a targeted run that is resumed leaves the files committed
before the crash out of changed_paths (`cmd_index.cpp:1013`).  The index run
resolves primary references against the symbols of extra roots,
resolve_workspace_refs prefers local ones.  File nodes that were pruned keep
their outgoing edges.

Tools.  A limit of 0 answers has_more with no rows for ever in symbol_search,
file_search, dir_list and file_summary.  callers_approx says has_more false in
its flat form even when it was cut.  It drops calls whose number of arguments
does not fit the parameters (`tools.cpp:1143`), and knows no implicit self, while
the binder checks no arity in Python and Rust (`call_binding.h:218`): a call
`t.m()` of a Python method `m(self)` that was not bound is no candidate, and the
answer may be empty and final.  impact_of that is truncated before it reads
a calls row shows candidates though there is an exact caller.  shortest_path
does not tell "no path" from "gave up", has no path from a node to itself and
answers a direct edge max_paths times; `src/README.md:164` names parameters it
does not have.  A truncated subgraph lists an edge to a node that it does not
list.

Worktrees and watching.  No lock of the source is held while it is copied, and
a log that begins anew before its copy is complete mixes two states, where the
comment in `cow_seed.h:62` speaks of self-contained consistency; the log is
streamed too where it cannot be cloned (`:59`).  Whether the log could be copied is
not asked (`:87`): after a failure the database is the main file alone, or with a
part of the log, and the seeding goes on and reports success.  Rows of a primary
that was dirty, was being indexed, or has no
git_head are given the worktree's times and stay stale as long as the sizes
agree.  So are rows of files that git did not name because it failed: git_command
answers a failure with an empty text (`util/git.h:20`, `:93`), which
`worktree_reconcile.h:56-72` takes for "nothing has changed"; a git that dies
half-way leaves a part of its list, and no exit code is looked at.  And so are rows
of files whose names git quotes, since `diff --name-only` is asked for without -z
and a quoted name has no language (`:51-58`).  The callback of the server asks in
the same way (`cmd_mcp.h:83-91`): a quoted name in its diff leads to no file, and a
failing diff leads to a full run only if the heads differ and theirs is the diff
that failed; a head that git does not tell leads to one.  A crash before the stamp leaves a database that the server then refuses.
The exit code of the run is not told from success (`worktree_reconcile.h:226`).
On overflow git's diff stands for the lost events (`watcher.h:180`), which misses
untracked files and files that were set back to HEAD; any error ends the Windows
thread silently (`watcher.h:173`).  An edit between the scan of the startup run
and the baseline is seen by neither.

Scanner.  A file that links lead to is listed once for each route
(`scanner.h:669`, as `test_scanner_correctness.cpp` expects), and git lists a
file in conflict once for each side.  An index that is empty, or was cleared for
`--force`, inserts without looking (`persister.h:244`), so the second insertion
violates the unique path and the run fails: such a tree cannot be indexed for
the first time, and `--force` has emptied the index by then.  Targeted runs take
ignored and excluded files that full runs delete again; .gitignore edits act at
the next full run.  A file that becomes a directory keeps its row until then.
A rule with a leading slash in a .gitignore below the root never matches, one
without a slash matches in its own directory only, and one with `**` is searched
as text, globs included.  Whether directories above a file are ignored is asked
along the route, so a link leads into ignored and excluded directories.  With git
links keep their own names, without it they do not.

## 7. Not modelled

* Structural diff, process spawning, helpers, command line: sequential
  code without state that outlives a call.
* Extractor, parser and arena allocator: functions of one file's text and
  byte-level memory; a parse is an atomic result, a hang or a crash.
* Schema, migrations, connection, full-text search: SQL that SQLite executes in
  transactions.  The transactions are modelled, the engine is taken to give them
  atomicity and snapshots.
* PageRank and quality: planned.
* Of the tools, those that put text together (context_for, file_overview,
  entrypoints, find_similar, source_at), code_search, the grouping of
  dependency_cluster, method_fields, get_traces, symbol_get_batch and dir_tree.
* The staleness warning, JSON framing and truncation of large answers in the
  server; `worktree sync`, which is one run of what git names; the ownership
  check of a database (databases know their owner from the start); the diff of
  heads in `Reindex`, which `Watcher` has.
