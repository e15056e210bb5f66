------------------------------ MODULE Workspace ------------------------------
(***************************************************************************)
(* Multi-root workspaces: src/src/db/workspace.cpp, the background job of  *)
(* src/src/mcp/workspace_jobs.h and the commands of cli/cmd_workspace.h.   *)
(*                                                                         *)
(* Every repository has a database of its own.  Adding repository t to the *)
(* workspace of h brings t's own index up to date and copies it into h's   *)
(* database.  A worker is a job of the server of h, a workspace command,   *)
(* or an indexer of h; it works under h's lock file and, while it touches  *)
(* t's database, under t's.  Steps are the commits, lock operations and    *)
(* cancellation checkpoints of the code.                                   *)
(*                                                                         *)
(* What a database holds of a repository is abstracted to a version of the *)
(* source tree and whether all its files have that version: an indexer     *)
(* commits in batches, so a database is not whole in between.              *)
(***************************************************************************)
EXTENDS Naturals

CONSTANTS
  Roots,       \* repositories, each with its database
  Workers,     \* workers
  Host,        \* the repository whose database a worker writes
  Kind,        \* "job": a server's workspace job; "monitor": a server's
               \* background indexer; "cli": a command
  Home,        \* the repository whose server answers requests (McpServer)
  Stdio,       \* the thread of that server that answers them
  NoOne,       \* nobody, nothing
  MaxEdits,    \* how often the sources change (bound)
  WithContent, \* do the commands ask for content search (--with-content)?
  Plans        \* which calls the workers will make (bound)

ASSUME WorkersAssumption ==
  /\ Host \in [Workers -> Roots]
  /\ Kind \in [Workers -> {"job", "monitor", "cli"}]
  /\ Home \in Roots
  /\ Stdio \notin Workers
  /\ NoOne \notin Workers \union Roots \union {Stdio}
  /\ MaxEdits \in Nat
  /\ WithContent \in BOOLEAN

Versions == 0..(MaxEdits + 1)
Nothing  == [v |-> 0, whole |-> TRUE]
Calls    == [op : {"add", "refresh", "remove", "index"}, target : Roots]
NoCall   == [op |-> "none", target |-> NoOne]

ASSUME PlansAssumption == Plans \subseteq [Workers -> SUBSET Calls]

VARIABLES
  disk,     \* per repository: the version of its source tree
  own,      \* per database: what it holds of its own repository
  state,    \* per database: index_state, "first" before it has an owner
  merged,   \* per database: what it holds of each other repository
  content,  \* per database: the roots whose lines are searchable, all files
  pending,  \* per database: the workspace_content_fts_pending markers
  lock,     \* per database: who holds its lock file
  gate,     \* per server: who holds writer_gate
  pc,       \* per worker: where it is
  call,     \* per worker: what it was asked
  scan,     \* per worker: the version its indexer found
  cancel,   \* per worker: the cancel flag of the job
  status,   \* per worker: what the job reports
  plan,     \* the calls still to come
  wanted,   \* history: the version of the target when the call was made
  did,      \* history: has the call changed the graph of its host?
  promised  \* history, per database: roots added with content search

stored  == <<own, state, merged, content, pending, promised>>
asked   == <<call, plan, wanted>>
wvars   == <<disk, stored, lock, gate, pc, asked, scan, cancel, status, did>>

h(w) == Host[w]
t(w) == call[w].target

(* Each source tree exists, and some repositories are indexed: those that  *)
(* have a server for certain.                                              *)
WorkspaceInit ==
  /\ disk = [r \in Roots |-> 1]
  /\ \E indexed \in SUBSET Roots :
       /\ own = [r \in Roots |-> IF r \in indexed THEN [v |-> 1, whole |-> TRUE]
                                 ELSE Nothing]
       /\ state = [r \in Roots |-> IF r \in indexed THEN "current" ELSE "none"]
       /\ \A w \in Workers : Kind[w] # "cli" => Host[w] \in indexed
  /\ merged = [r \in Roots |-> [s \in Roots |-> Nothing]]
  /\ content = [r \in Roots |-> {}]
  /\ pending = [r \in Roots |-> {}]
  /\ lock = [r \in Roots |-> NoOne]
  /\ gate = [r \in Roots |-> NoOne]
  /\ pc = [w \in Workers |-> "idle"]
  /\ call = [w \in Workers |-> NoCall]
  /\ scan = [w \in Workers |-> 0]
  /\ cancel = [w \in Workers |-> FALSE]
  /\ status = [w \in Workers |-> "none"]
  /\ plan \in Plans
  /\ wanted = [w \in Workers |-> 0]
  /\ did = [w \in Workers |-> FALSE]
  /\ promised = [r \in Roots |-> {}]

-----------------------------------------------------------------------------
(* Helpers.                                                                *)

Move(w, from, to) == pc[w] = from /\ pc' = [pc EXCEPT ![w] = to]

Registered(r, s) == merged[r][s].v # 0

(* WorkspaceJobs::checkpoint: a job that was asked to stop does so here.   *)
(* Only jobs have checkpoints.                                             *)
Stopped(w) == Kind[w] = "job" /\ cancel[w]

Checkpoint(w, from, to) ==
  /\ Move(w, from, IF Stopped(w) THEN "cancelling" ELSE to)
  /\ status' = IF Stopped(w) THEN status ELSE [status EXCEPT ![w] = "running"]

Take(r, w) == lock[r] = NoOne /\ lock' = [lock EXCEPT ![r] = w]

(* The destructors of the gate, the lock files and the connections.        *)
ReleaseAll(w) ==
  /\ lock' = [r \in Roots |-> IF lock[r] = w THEN NoOne ELSE lock[r]]
  /\ gate' = [r \in Roots |-> IF gate[r] = w THEN NoOne ELSE gate[r]]

-----------------------------------------------------------------------------
(* Starting: WorkspaceJobs::start (which refuses while a job is active),   *)
(* a command, or the monitor of ReindexState.                              *)

Start(w) ==
  /\ \E c \in plan[w] :
       /\ call' = [call EXCEPT ![w] = c]
       /\ plan' = [plan EXCEPT ![w] = @ \ {c}]
       /\ wanted' = [wanted EXCEPT ![w] = disk[c.target]]
       /\ Move(w, "idle", IF Kind[w] # "cli" THEN "gate"
                          ELSE IF c.op = "index" THEN "runlock" ELSE "lock")
  /\ cancel' = [cancel EXCEPT ![w] = FALSE]
  /\ status' = [status EXCEPT ![w] = "queued"]
  /\ did' = [did EXCEPT ![w] = FALSE]
  /\ UNCHANGED <<disk, stored, lock, gate, scan>>

(* workspace_job_cancel only sets the flag of the active job.              *)
Cancel(w) ==
  /\ Kind[w] = "job"
  /\ pc[w] # "idle"
  /\ ~cancel[w]
  /\ cancel' = [cancel EXCEPT ![w] = TRUE]
  /\ UNCHANGED <<disk, stored, lock, gate, pc, asked, scan, status, did>>

(* The spin on writer_gate, with its checkpoint "waiting_for_writer" ...   *)
WaitForGate(w) ==
  /\ Checkpoint(w, "gate", "gate")
  /\ gate[h(w)] # NoOne
  /\ Stopped(w)
  /\ UNCHANGED <<disk, stored, lock, gate, asked, scan, cancel, did>>

(* ... and "acquiring_lock" behind it.                                     *)
EnterGate(w) ==
  /\ Checkpoint(w, "gate", IF call[w].op = "index" THEN "runlock" ELSE "lock")
  /\ gate[h(w)] = NoOne
  /\ gate' = [gate EXCEPT ![h(w)] = w]
  /\ UNCHANGED <<disk, stored, lock, asked, scan, cancel, did>>

(* The lock of the host: a job asks once, a command waits up to its limit. *)
(* A command also refuses a host whose index has no owner yet.             *)
AcquireHost(w) ==
  /\ IF Kind[w] = "cli" /\ state[h(w)] \in {"none", "first"}
       THEN Move(w, "lock", "failing") /\ UNCHANGED status
       ELSE Checkpoint(w, "lock", "open")
  /\ Take(h(w), w)
  /\ UNCHANGED <<disk, stored, gate, asked, scan, cancel, did>>

HostBusy(w) ==
  /\ Move(w, "lock", "failing")
  /\ lock[h(w)] # NoOne
  /\ UNCHANGED <<disk, stored, lock, gate, asked, scan, cancel, status, did>>

(* WorkspaceDB(): content indexing that an earlier worker left unfinished  *)
(* is finished; a marker without a root is dropped.                        *)
Open(w) ==
  /\ Move(w, "open", "admit")
  /\ content' = [content EXCEPT ![h(w)] =
                   @ \union {s \in pending[h(w)] : Registered(h(w), s)}]
  /\ pending' = [pending EXCEPT ![h(w)] = {}]
  /\ UNCHANGED <<disk, own, state, merged, promised, lock, gate, asked, scan,
                 cancel, status, did>>

(* remove: a checkpoint.  refresh: the root must be there.  Jobs always    *)
(* bring the source up to date; "workspace add" takes an index it finds.   *)
Admit(w) ==
  /\ pc[w] = "admit"
  /\ IF call[w].op = "remove"
       THEN Checkpoint(w, "admit", "remove")
       ELSE IF call[w].op = "refresh" /\ ~Registered(h(w), t(w))
       THEN Move(w, "admit", "failing") /\ UNCHANGED status
       ELSE IF Kind[w] = "cli" /\ call[w].op = "add" /\ state[t(w)] # "none"
       THEN Move(w, "admit", "source") /\ UNCHANGED status
       ELSE Checkpoint(w, "admit", "runlock")
  /\ UNCHANGED <<disk, stored, lock, gate, asked, scan, cancel, did>>

-----------------------------------------------------------------------------
(* run_index_supervisor on the target (Supervisor.tla has its inside).     *)

(* acquire_blocking: for 30 seconds ...                                    *)
RunLock(w) ==
  /\ Move(w, "runlock", "begin")
  /\ Take(t(w), w)
  /\ UNCHANGED <<disk, stored, gate, asked, scan, cancel, status, did>>

(* Mutant: there is no limit.                                              *)
PatientRunBusy(w) ==
  /\ pc[w] = "runlock"
  /\ FALSE
  /\ UNCHANGED wvars

(* ... and no longer.                                                      *)
RunBusy(w) ==
  /\ Move(w, "runlock", "failing")
  /\ lock[t(w)] # NoOne
  /\ UNCHANGED <<disk, stored, lock, gate, asked, scan, cancel, status, did>>

RunBegin(w) ==
  /\ Move(w, "begin", "batch")
  /\ scan' = [scan EXCEPT ![w] = disk[t(w)]]
  /\ state' = [state EXCEPT ![t(w)] =
                 IF @ \in {"none", "first"} THEN "first" ELSE "indexing"]
  /\ UNCHANGED <<disk, own, merged, content, pending, promised, lock, gate,
                 asked, cancel, status, did>>

(* The batches but the last: files of the new and of the old version.      *)
RunBatch(w) ==
  /\ Move(w, "batch", "finish")
  /\ own' = [own EXCEPT ![t(w)] =
               [v |-> scan[w], whole |-> own[t(w)].v = scan[w] /\ own[t(w)].whole]]
  /\ UNCHANGED <<disk, state, merged, content, pending, promised, lock, gate,
                 asked, scan, cancel, status, did>>

(* The last batch and the metadata; the supervisor releases its lock.      *)
RunFinish(w) ==
  /\ pc[w] = "finish"
  /\ Move(w, "finish", IF call[w].op = "index" THEN "report" ELSE "source")
  /\ own' = [own EXCEPT ![t(w)] = [v |-> scan[w], whole |-> TRUE]]
  /\ state' = [state EXCEPT ![t(w)] = "current"]
  /\ lock' = [lock EXCEPT ![t(w)] = NoOne]
  /\ UNCHANGED <<disk, merged, content, pending, promised, gate, asked, scan,
                 cancel, status, did>>

-----------------------------------------------------------------------------
(* Admission of the source and the merge.                                  *)

(* Mutant: the source is read without its lock.                            *)
UnlockedSource(w) ==
  /\ Move(w, "source", "probe")
  /\ UNCHANGED <<disk, stored, lock, gate, asked, scan, cancel, status, did>>

(* source_writer.acquire(): once.                                          *)
AcquireSource(w) ==
  /\ Move(w, "source", "probe")
  /\ Take(t(w), w)
  /\ UNCHANGED <<disk, stored, gate, asked, scan, cancel, status, did>>

SourceBusy(w) ==
  /\ Move(w, "source", "failing")
  /\ lock[t(w)] # NoOne
  /\ UNCHANGED <<disk, stored, lock, gate, asked, scan, cancel, status, did>>

(* The source must be owned and current; then the checkpoint "merging".    *)
Probe(w) ==
  /\ pc[w] = "probe"
  /\ IF state[t(w)] # "current"
       THEN Move(w, "probe", "failing") /\ UNCHANGED status
       ELSE Checkpoint(w, "probe", "merge")
  /\ UNCHANGED <<disk, stored, lock, gate, asked, scan, cancel, did>>

(* A source with roots of its own is refused.  Else one transaction: the   *)
(* old rows of the root go, those of the source come, and content search   *)
(* is marked as pending or given up.  DETACH, and the source is released.  *)
Nested(w) == \E s \in Roots : Registered(t(w), s)

(* Mutant: the marker is left to a later transaction.                      *)
UnmarkedMerge(w) ==
  /\ Move(w, "merge", "content")
  /\ ~Nested(w)
  /\ merged' = [merged EXCEPT ![h(w)][t(w)] = own[t(w)]]
  /\ content' = [content EXCEPT ![h(w)] = @ \ {t(w)}]
  /\ promised' = [promised EXCEPT ![h(w)] = @ \union {t(w)}]
  /\ lock' = [lock EXCEPT ![t(w)] = NoOne]
  /\ did' = [did EXCEPT ![w] = TRUE]
  /\ UNCHANGED <<disk, own, state, pending, gate, asked, scan, cancel, status>>

Merge(w) ==
  /\ Move(w, "merge", "rank")
  /\ ~Nested(w)
  /\ merged' = [merged EXCEPT ![h(w)][t(w)] = own[t(w)]]
  /\ content' = [content EXCEPT ![h(w)] = @ \ {t(w)}]
  /\ LET asks == Kind[w] = "cli" /\ WithContent
         mark(set) == IF asks THEN set \union {t(w)} ELSE set \ {t(w)}
     IN  /\ pending' = [pending EXCEPT ![h(w)] = mark(@)]
         /\ promised' = [promised EXCEPT ![h(w)] = mark(@)]
  /\ lock' = [lock EXCEPT ![t(w)] = NoOne]
  /\ did' = [did EXCEPT ![w] = TRUE]
  /\ UNCHANGED <<disk, own, state, gate, asked, scan, cancel, status>>

(* Mutant: one more checkpoint, after the commit.                          *)
CheckedRank(w) ==
  /\ pc[w] = "rank"
  /\ Checkpoint(w, "rank", IF t(w) \in pending[h(w)] THEN "content" ELSE "report")
  /\ UNCHANGED <<disk, stored, lock, gate, asked, scan, cancel, did>>

(* The rank of every symbol, in a transaction of its own, after the merge. *)
Rank(w) ==
  /\ pc[w] = "rank"
  /\ Move(w, "rank", IF t(w) \in pending[h(w)] THEN "content" ELSE "report")
  /\ UNCHANGED <<disk, stored, lock, gate, asked, scan, cancel, status, did>>

(* populate_content_fts_for_root: batches of files, each a transaction ... *)
FillContent(w) ==
  /\ Move(w, "content", "unmark")
  /\ content' = [content EXCEPT ![h(w)] = @ \union {t(w)}]
  /\ UNCHANGED <<disk, own, state, merged, pending, promised, lock, gate, asked,
                 scan, cancel, status, did>>

(* ... and then the marker goes.                                           *)
Unmark(w) ==
  /\ Move(w, "unmark", "report")
  /\ pending' = [pending EXCEPT ![h(w)] = @ \ {t(w)}]
  /\ UNCHANGED <<disk, own, state, merged, content, promised, lock, gate, asked,
                 scan, cancel, status, did>>

(* remove_root: one transaction; a root that is not there is a warning.    *)
Remove(w) ==
  /\ Move(w, "remove", "report")
  /\ did' = [did EXCEPT ![w] = Registered(h(w), t(w))]
  /\ merged' = [merged EXCEPT ![h(w)][t(w)] = Nothing]
  /\ content' = [content EXCEPT ![h(w)] = @ \ {t(w)}]
  /\ pending' = [pending EXCEPT ![h(w)] = @ \ {t(w)}]
  /\ promised' = [promised EXCEPT ![h(w)] = @ \ {t(w)}]
  /\ UNCHANGED <<disk, own, state, lock, gate, asked, scan, cancel, status>>

(* Any of these steps may throw instead: the indexer's exit code, SQL      *)
(* errors (the transaction is rolled back), a source with roots.           *)
Throw(w) ==
  /\ pc[w] \in {"open", "begin", "batch", "finish", "probe", "merge", "rank",
                "content", "remove"}
  /\ pc' = [pc EXCEPT ![w] = "failing"]
  /\ UNCHANGED <<disk, stored, lock, gate, asked, scan, cancel, status, did>>

-----------------------------------------------------------------------------
(* The end of a call.                                                      *)

(* The result is told before the locks are released.                       *)
Report(w) ==
  /\ Move(w, "report", "release")
  /\ status' = [status EXCEPT ![w] = "completed"]
  /\ UNCHANGED <<disk, stored, lock, gate, asked, scan, cancel, did>>

Release(w) ==
  /\ Move(w, "release", "retire")
  /\ ReleaseAll(w)
  /\ UNCHANGED <<disk, stored, asked, scan, cancel, status, did>>

(* An exception releases them first.                                       *)
Unwind(w) ==
  /\ \/ Move(w, "failing", "retire") /\ status' = [status EXCEPT ![w] = "failed"]
     \/ Move(w, "cancelling", "retire") /\ status' = [status EXCEPT ![w] = "cancelled"]
  /\ ReleaseAll(w)
  /\ UNCHANGED <<disk, stored, asked, scan, cancel, did>>

(* active_ = false.                                                        *)
Retire(w) ==
  /\ Move(w, "retire", "idle")
  /\ call' = [call EXCEPT ![w] = NoCall]
  /\ UNCHANGED <<disk, stored, lock, gate, plan, wanted, scan, cancel, status, did>>

-----------------------------------------------------------------------------
(* The surroundings.                                                       *)

Edit(r) ==
  /\ disk[r] <= MaxEdits
  /\ disk' = [disk EXCEPT ![r] = @ + 1]
  /\ UNCHANGED <<stored, lock, gate, pc, asked, scan, cancel, status, did>>

(* A process ends: a command, or a server with all its threads.  Open      *)
(* transactions are rolled back, lock files become stale.                  *)
Victims(w) ==
  IF Kind[w] = "cli" THEN {w}
  ELSE {x \in Workers : Host[x] = Host[w] /\ Kind[x] # "cli"}
         \union (IF Host[w] = Home THEN {Stdio} ELSE {})

Die(w) ==
  LET gone == Victims(w) IN
  /\ \E x \in gone \ {Stdio} : pc[x] # "idle"
  /\ pc' = [x \in Workers |-> IF x \in gone THEN "idle" ELSE pc[x]]
  /\ call' = [x \in Workers |-> IF x \in gone THEN NoCall ELSE call[x]]
  /\ cancel' = [x \in Workers |-> x \notin gone /\ cancel[x]]
  /\ status' = [x \in Workers |-> IF x \in gone THEN "none" ELSE status[x]]
  /\ lock' = [r \in Roots |-> IF lock[r] \in gone THEN NoOne ELSE lock[r]]
  /\ gate' = [r \in Roots |-> IF gate[r] \in gone THEN NoOne ELSE gate[r]]
  /\ UNCHANGED <<disk, stored, plan, wanted, scan, did>>

-----------------------------------------------------------------------------
Work(w) ==
  \/ WaitForGate(w) \/ EnterGate(w) \/ AcquireHost(w) \/ HostBusy(w)
  \/ Open(w) \/ Admit(w) \/ RunLock(w) \/ RunBusy(w) \/ RunBegin(w)
  \/ RunBatch(w) \/ RunFinish(w) \/ AcquireSource(w) \/ SourceBusy(w)
  \/ Probe(w) \/ Merge(w) \/ Rank(w) \/ FillContent(w) \/ Unmark(w)
  \/ Remove(w) \/ Throw(w) \/ Report(w) \/ Release(w) \/ Unwind(w) \/ Retire(w)

WorkspaceNext ==
  \/ \E w \in Workers : Start(w) \/ Cancel(w) \/ Work(w) \/ Die(w)
  \/ \E r \in Roots : Edit(r)

-----------------------------------------------------------------------------
(* Properties.                                                             *)

(* A root in a workspace is always one complete version of its source,     *)
(* never the batches of a run in progress, one that failed or one that was *)
(* killed: the source stays locked from the probe to the merge.            *)
MergedIsWhole == \A r, s \in Roots : merged[r][s].whole

(* Who asks to add a root with content search gets it: until all its lines *)
(* are searchable a committed marker says what is left to do, whatever     *)
(* fails or dies, so the next worker that opens the database goes on.      *)
ContentNotForgotten ==
  \A r \in Roots : promised[r] \subseteq content[r] \union pending[r]

(* A job that reports "cancelled" has changed nothing of its host, and one *)
(* that reports "completed" has merged a version of the source no older    *)
(* than the request, unless it removed the root.                           *)
Merges(c) == c.op \in {"add", "refresh"}

JobsTellTheTruth ==
  [][\A w \in Workers : Kind[w] = "job" /\ status'[w] # status[w] =>
       /\ status'[w] = "cancelled" => ~did[w]
       /\ status'[w] = "completed" /\ Merges(call[w]) =>
            /\ did[w]
            /\ merged[h(w)][t(w)].v >= wanted[w]]_wvars

(* Every call comes to an end, even when two servers add each other's      *)
(* repository and each holds the lock that the other one needs.            *)
CallsEnd == \A w \in Workers : (pc[w] # "idle") ~> (pc[w] = "idle")
=============================================================================
