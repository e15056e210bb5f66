------------------------------ MODULE McpServer ------------------------------
(***************************************************************************)
(* The request thread of a server (mcp/server.h), which reads the database *)
(* that its jobs, its background indexer and other processes write         *)
(* (Workspace).  A graph request runs its queries in one read transaction  *)
(* (ReadSnapshot of db/connection.h); trace ingestion writes and is let in *)
(* like any writer; health reads the metadata without a transaction.       *)
(*                                                                         *)
(* Workspace requests are Start and Cancel of Workspace: they touch no     *)
(* database.  Left out: the staleness warning, which is advice, and the    *)
(* statement cache, whose statements SQLite compiles anew when it must.    *)
(***************************************************************************)
EXTENDS Workspace

CONSTANT MaxRequests   \* how many requests clients make (bound)

ASSUME MaxRequestsAssumption == MaxRequests \in Nat

VARIABLES
  at,       \* where the request thread is
  ask,      \* the request: "read", "traces" or "health"
  left,     \* how many requests are still to come
  snap,     \* the read transaction's snapshot
  first,    \* the answer of its first query
  seen,     \* health: what the probe and the reads of the metadata gave
  out,      \* the last answer
  traces    \* the traces committed to the database of Home

rvars == <<at, ask, left, snap, first, seen, out, traces>>
vars  == <<wvars, rvars>>

(* A state of the database of Home: its own graph and what was merged.     *)
Graph  == [own |-> own[Home], traces |-> traces]
Merged == [roots |-> merged[Home], content |-> content[Home]]
Db     == [graph |-> Graph, merged |-> Merged]

Say(word) == [plain |-> word]
NoDb      == Say("none")
Plain     == [plain : {"busy", "error", "ingested", "indexing", "interrupted",
                       "missing_metadata", "ready"}]

Init ==
  /\ WorkspaceInit
  /\ at = "idle" /\ ask = "read" /\ left \in 0..MaxRequests
  /\ snap = NoDb /\ first = NoDb /\ out = NoDb
  /\ seen = [busy |-> FALSE, owned |-> FALSE]
  /\ traces = 0

Step(from, to) == at = from /\ at' = to

-----------------------------------------------------------------------------
(* Graph requests.                                                         *)

Request ==
  /\ left > 0
  /\ left' = left - 1
  /\ \E k \in {"read", "traces", "health"} :
       /\ ask' = k
       /\ Step("idle", CASE k = "read" -> "pin" [] k = "traces" -> "gate"
                         [] OTHER -> "probe")
  /\ UNCHANGED <<wvars, snap, first, seen, out, traces>>

(* ingest_traces: try_lock of the writer gate, then acquire of the lock    *)
(* file, each once; whichever fails, the client may retry.                 *)
TryGate ==
  /\ IF gate[Home] = NoOne
       THEN /\ Step("gate", "lock")
            /\ gate' = [gate EXCEPT ![Home] = Stdio]
            /\ UNCHANGED out
       ELSE Step("gate", "idle") /\ out' = Say("busy") /\ UNCHANGED gate
  /\ UNCHANGED <<disk, stored, lock, pc, asked, scan, cancel, status, did,
                 ask, left, snap, first, seen, traces>>

(* Mutant: the gate alone lets it in.                                      *)
GateOnlyTryLock ==
  /\ Step("lock", "pin")
  /\ UNCHANGED <<wvars, ask, left, snap, first, seen, out, traces>>

TryLock ==
  /\ IF lock[Home] = NoOne
       THEN /\ Step("lock", "pin")
            /\ lock' = [lock EXCEPT ![Home] = Stdio]
            /\ UNCHANGED <<gate, out>>
       ELSE /\ Step("lock", "idle")
            /\ gate' = [gate EXCEPT ![Home] = NoOne]
            /\ out' = Say("busy")
            /\ UNCHANGED lock
  /\ UNCHANGED <<disk, stored, pc, asked, scan, cancel, status, did,
                 ask, left, snap, first, seen, traces>>

(* ReadSnapshot: BEGIN and a read, which pins the snapshot.                *)
Pin ==
  /\ Step("pin", IF ask = "traces" THEN "write" ELSE "query")
  /\ snap' = Db
  /\ UNCHANGED <<wvars, ask, left, first, seen, out, traces>>

(* Mutant: every query is a transaction of its own.                        *)
LiveVisible == Db

(* What a query of the request sees: its connection is in the transaction. *)
Visible == snap

Query ==
  /\ Step("query", "requery")
  /\ first' = Visible.graph
  /\ UNCHANGED <<wvars, ask, left, snap, seen, out, traces>>

Requery ==
  /\ Step("requery", "reply")
  /\ out' = [graph |-> first, merged |-> Visible.merged]
  /\ UNCHANGED <<wvars, ask, left, snap, first, seen, traces>>

(* The handler of ingest_traces commits through a connection of its own.   *)
Ingest ==
  /\ Step("write", "reply")
  /\ traces' = traces + 1
  /\ UNCHANGED <<wvars, ask, left, snap, first, seen, out>>

LetGo ==
  /\ lock' = [r \in Roots |-> IF lock[r] = Stdio THEN NoOne ELSE lock[r]]
  /\ gate' = [r \in Roots |-> IF gate[r] = Stdio THEN NoOne ELSE gate[r]]

(* The end of the request: the transaction is rolled back, whatever was    *)
(* taken is released and the answer is written.  A handler may also throw. *)
Reply ==
  /\ \/ Step("reply", "idle") /\ out' = IF ask = "traces" THEN Say("ingested") ELSE out
     \/ at \in {"pin", "query", "requery", "write"} /\ at' = "idle" /\ out' = Say("error")
  /\ snap' = NoDb /\ first' = NoDb
  /\ LetGo
  /\ UNCHANGED <<disk, stored, pc, asked, scan, cancel, status, did,
                 ask, left, seen, traces>>

-----------------------------------------------------------------------------
(* server_health: try_lock of the gate, the probe of the lock file, then   *)
(* repo_root and index_state, read one by one.                             *)

WriterActive ==
  \/ gate[Home] # NoOne
  \/ lock[Home] # NoOne
  \/ \E w \in Workers : Host[w] = Home /\ Kind[w] # "cli" /\ pc[w] # "idle"

ProbeWriters ==
  /\ Step("probe", "owner")
  /\ seen' = [busy |-> WriterActive, owned |-> FALSE]
  /\ gate' = [gate EXCEPT ![Home] = IF @ = NoOne THEN Stdio ELSE @]
  /\ UNCHANGED <<disk, stored, lock, pc, asked, scan, cancel, status, did,
                 ask, left, snap, first, out, traces>>

ReadOwner ==
  /\ Step("owner", "state")
  /\ seen' = [seen EXCEPT !.owned = state[Home] \notin {"none", "first"}]
  /\ UNCHANGED <<wvars, ask, left, snap, first, out, traces>>

ReadState ==
  /\ Step("state", "told")
  /\ out' = Say(IF seen.busy THEN "indexing"
                ELSE IF state[Home] \in {"first", "indexing"} THEN "interrupted"
                ELSE IF ~seen.owned THEN "missing_metadata"
                ELSE "ready")
  /\ UNCHANGED <<wvars, ask, left, snap, first, seen, traces>>

Told ==
  /\ Step("told", "idle")
  /\ LetGo
  /\ UNCHANGED <<disk, stored, pc, asked, scan, cancel, status, did,
                 ask, left, snap, first, seen, out, traces>>

Serve ==
  \/ TryGate \/ TryLock \/ Pin \/ Query \/ Requery \/ Ingest \/ Reply
  \/ ProbeWriters \/ ReadOwner \/ ReadState \/ Told

-----------------------------------------------------------------------------
(* The server of Home dies with its threads, or its request thread alone   *)
(* is all it has.                                                          *)
DieHere(w) ==
  /\ Die(w)
  /\ IF Stdio \in Victims(w)
       THEN /\ at' = "idle" /\ snap' = NoDb /\ first' = NoDb
            /\ UNCHANGED <<ask, left, seen, out, traces>>
       ELSE UNCHANGED rvars

Next ==
  \/ Request
  \/ Serve
  \/ \E w \in Workers : (Start(w) \/ Cancel(w) \/ Work(w)) /\ UNCHANGED rvars
  \/ \E w \in Workers : DieHere(w)
  \/ \E r \in Roots : Edit(r) /\ UNCHANGED rvars

(* Threads run; requests, cancellations, edits and deaths need not happen. *)
Fairness ==
  /\ WF_vars(Serve)
  /\ \A w \in Workers : WF_vars(Work(w) /\ UNCHANGED rvars)

Spec == Init /\ [][Next]_vars /\ Fairness

-----------------------------------------------------------------------------
(* Properties.  Those of Workspace, and:                                   *)

(* A graph request is answered from one committed state of its own time.   *)
Promise ==
  INSTANCE CommittedReads WITH
    Nothing <- NoDb, committed <- Db, answer <- out, got <- snap,
    waiting <- at # "idle"

AnswersAreCommitted == Promise!Spec

(* Two writers never have the database of Home at the same time: jobs,     *)
(* indexers, commands and the ingestion of traces.                         *)
Writing(w, r) ==
  \/ pc[w] \in {"begin", "batch", "finish"} /\ t(w) = r
  \/ pc[w] \in {"open", "admit", "merge", "rank", "content", "unmark", "remove"} /\ h(w) = r

OneWriter ==
  \A r \in Roots :
    /\ \A w, x \in Workers : Writing(w, r) /\ Writing(x, r) => w = x
    /\ r = Home /\ at = "write" => \A w \in Workers : ~Writing(w, r)
=============================================================================
