------------------------------ MODULE Reindex -------------------------------
(***************************************************************************)
(* Background reindexing: ReindexState in src/src/mcp/reindex.h, as the    *)
(* MCP server (cli/cmd_mcp.h) and codetopo watch (cli/cmd_watch.h) use it. *)
(*                                                                         *)
(* A client starts, asks for a full run to catch up, then watches the      *)
(* repository and asks for a run of the files that change.  trigger()      *)
(* queues what is asked for and starts a monitor thread unless one runs;   *)
(* the monitor waits for the client's own workspace jobs, takes the lock   *)
(* that clients of one database coordinate by, and spawns one indexer      *)
(* after another until nothing is queued.  A client that finds the lock    *)
(* taken, or a run completed since it was triggered, leaves the work to    *)
(* the other client and drops what it had queued.                          *)
(*                                                                         *)
(* A file is stale while its row is older than the file.  A run reads      *)
(* files at its scan; an edit after that is not seen by it.  The lock file *)
(* is FileLock's subject and a lock here, the indexer is Supervisor's and  *)
(* is three steps here.                                                    *)
(***************************************************************************)
EXTENDS Naturals, FiniteSets

CONSTANTS
  Clients,     \* processes that may serve or watch the database
  Files,
  Scenarios    \* which of them run, how, and what happens meanwhile

ASSUME ScenarioAssumption == Scenarios \subseteq
  [clients  : SUBSET Clients,
   startup  : SUBSET Clients,   \* those that reconcile on startup
   watch    : SUBSET Clients,   \* those that watch the files
   fullOnly : SUBSET Clients,   \* those whose watcher asks for full runs
   stale    : SUBSET Files,     \* files changed while nobody watched
   indexed  : BOOLEAN,          \* has the database an index_generation?
   quiet    : BOOLEAN,          \* no edit before the watchers watch
   edits : Nat, manual : Nat, jobs : Nat, cli : Nat, stops : Nat, faults : Nat]

VARIABLES
  run,           \* the scenario
  left,          \* what may still happen of it
  stale,         \* files whose row is older than the file
  generation,    \* index_generation: the number of runs completed
  phase,         \* of each client
  events,        \* changes a client's watcher has yet to deliver
  client,        \* the fields of ReindexState that its mutex guards
  request,       \* the trigger() that is about to start a monitor
  monitor,       \* the monitor thread
  gate,          \* writer_gate: who holds it
  coordination,  \* the holder of <db>.reconcile.lock
  writer,        \* the holder of <db>.lock
  cli,           \* codetopo index, run by hand
  waived         \* history: files given up by a failure or a shutdown

repository == <<stale, generation>>
locks      == <<gate, coordination, writer>>
vars == <<run, left, repository, phase, events, client, request, monitor,
          locks, cli, waived>>

Nobody    == "nobody"
Cli       == "cli"
ASSUME ClientAssumption == Nobody \notin Clients /\ Cli \notin Clients

NoRequest == [by |-> "none", manual |-> FALSE, since |-> 0]
Ended     == [at |-> "ended", manual |-> FALSE, since |-> 0, before |-> 0,
              first |-> FALSE, full |-> FALSE, paths |-> {}, seen |-> {}]
NoRun     == [at |-> "idle", seen |-> {}]

Init ==
  \E s \in Scenarios :
    /\ run = s
    /\ left = [edits |-> s.edits, manual |-> s.manual, jobs |-> s.jobs,
               cli |-> s.cli, stops |-> s.stops, faults |-> s.faults]
    /\ stale = s.stale
    /\ generation = IF s.indexed THEN 1 ELSE 0
    /\ phase = [c \in Clients |-> IF c \in s.clients THEN "booting" ELSE "off"]
    /\ events = [c \in Clients |-> {}]
    /\ client = [c \in Clients |-> [running |-> FALSE, queued |-> FALSE,
                                    full |-> FALSE, paths |-> {}, later |-> FALSE]]
    /\ request = [c \in Clients |-> NoRequest]
    /\ monitor = [c \in Clients |-> Ended]
    /\ gate = [c \in Clients |-> Nobody]
    /\ coordination = Nobody
    /\ writer = Nobody
    /\ cli = NoRun
    /\ waived = {}

May(what)   == left[what] > 0
Spend(what) == left' = [left EXCEPT ![what] = @ - 1]

-----------------------------------------------------------------------------
(* The repository.                                                         *)

Watching(c) == phase[c] = "watching"

(* Runs that have read the file have not seen this version of it.          *)
Edit(f) ==
  /\ May("edits") /\ Spend("edits")
  /\ run.quiet => \A c \in run.watch : Watching(c)
  /\ stale' = stale \union {f}
  /\ events' = [c \in Clients |-> IF Watching(c) THEN events[c] \union {f}
                                  ELSE events[c]]
  /\ monitor' = [c \in Clients |-> [monitor[c] EXCEPT !.seen = @ \ {f}]]
  /\ cli' = [cli EXCEPT !.seen = @ \ {f}]
  /\ UNCHANGED <<run, generation, phase, client, request, locks, waived>>

-----------------------------------------------------------------------------
(* trigger(): queue the paths, or a full run; `later` says that a trigger  *)
(* came after the one that started the monitor (trigger_count has moved).  *)

(* Variant: a trigger that finds a run going on leaves it at that.         *)
HeedlessTrigger(c, by, paths, full, manual, since) ==
  /\ client' = IF client[c].running THEN client
               ELSE [client EXCEPT ![c] = [running |-> TRUE, queued |-> TRUE,
                       full |-> full, paths |-> paths, later |-> FALSE]]
  /\ request' = IF client[c].running THEN request
                ELSE [request EXCEPT ![c] = [by |-> by, manual |-> manual,
                                             since |-> since]]

Trigger(c, by, paths, full, manual, since) ==
  LET asked == client[c].full \/ full \/ paths = {} IN
  /\ client' = [client EXCEPT ![c] =
       [running |-> TRUE, queued |-> TRUE, full |-> asked,
        paths |-> IF asked THEN {} ELSE client[c].paths \union paths,
        later |-> client[c].running]]
  /\ request' = IF client[c].running THEN request
                ELSE [request EXCEPT ![c] = [by |-> by, manual |-> manual,
                                             since |-> since]]

(* Variant: it counts from before the run that preceded the process.       *)
EarlyStartUp(c) ==
  /\ phase[c] = "booting"
  /\ phase' = [phase EXCEPT ![c] = "started"]
  /\ IF c \in run.startup
     THEN Trigger(c, "main", {}, TRUE, FALSE, (IF run.indexed THEN 1 ELSE 0) - 1)
     ELSE UNCHANGED <<client, request>>
  /\ UNCHANGED <<run, left, repository, events, monitor, locks, cli, waived>>

(* Startup reconciliation counts from the start of the process.            *)
StartUp(c) ==
  /\ phase[c] = "booting"
  /\ phase' = [phase EXCEPT ![c] = "started"]
  /\ IF c \in run.startup
     THEN Trigger(c, "main", {}, TRUE, FALSE, IF run.indexed THEN 1 ELSE 0)
     ELSE UNCHANGED <<client, request>>
  /\ UNCHANGED <<run, left, repository, events, monitor, locks, cli, waived>>

StartWatching(c) ==
  /\ c \in run.watch
  /\ phase[c] = "started" /\ request[c].by # "main"
  /\ phase' = [phase EXCEPT ![c] = "watching"]
  /\ UNCHANGED <<run, left, repository, events, client, request, monitor,
                 locks, cli, waived>>

(* The watcher's callback, with the changes of one debounce window.        *)
Deliver(c) ==
  /\ Watching(c) /\ events[c] # {} /\ request[c].by # "watcher"
  /\ IF c \in run.fullOnly
     THEN Trigger(c, "watcher", {}, TRUE, FALSE, generation)
     ELSE Trigger(c, "watcher", events[c], FALSE, FALSE, generation)
  /\ events' = [events EXCEPT ![c] = {}]
  /\ UNCHANGED <<run, left, repository, phase, monitor, locks, cli, waived>>

(* The reindex tool.                                                       *)
Manual(c) ==
  /\ phase[c] \in {"started", "watching"} /\ request[c].by # "main"
  /\ May("manual") /\ Spend("manual")
  /\ Trigger(c, "main", {}, TRUE, TRUE, generation)
  /\ UNCHANGED <<run, repository, phase, events, monitor, locks, cli, waived>>

(* The watcher is stopped, then the monitor: queued work is discarded.     *)
Stop(c) ==
  /\ phase[c] \in {"started", "watching"} /\ request[c] = NoRequest
  /\ May("stops") /\ Spend("stops")
  /\ phase' = [phase EXCEPT ![c] = "stopping"]
  /\ events' = [events EXCEPT ![c] = {}]
  /\ waived' = waived \union stale
  /\ UNCHANGED <<run, repository, client, request, monitor, locks, cli>>

-----------------------------------------------------------------------------
(* The monitor thread.                                                     *)

MonitorAt(c, from, to) ==
  monitor[c].at = from /\ monitor' = [monitor EXCEPT ![c].at = to]

(* The old monitor thread is joined before the new one starts.             *)
StartMonitor(c) ==
  /\ request[c] # NoRequest /\ monitor[c].at = "ended"
  /\ monitor' = [monitor EXCEPT ![c] =
       [Ended EXCEPT !.at = "gate", !.manual = request[c].manual,
                     !.since = request[c].since, !.first = TRUE]]
  /\ request' = [request EXCEPT ![c] = NoRequest]
  /\ UNCHANGED <<run, left, repository, phase, events, client, locks, cli, waived>>

(* writer_gate: workspace jobs of the same client exclude reindexing.      *)
PassGate(c) ==
  /\ monitor[c].at = "gate" /\ gate[c] = Nobody
  /\ gate' = [gate EXCEPT ![c] = "monitor"]
  /\ monitor' = [monitor EXCEPT ![c].at = "coordinate", ![c].before = generation]
  /\ UNCHANGED <<run, left, repository, phase, events, client, request,
                 coordination, writer, cli, waived>>

LeaveGate(c) ==
  /\ phase[c] = "stopping" /\ gate[c] # Nobody
  /\ MonitorAt(c, "gate", "ended")
  /\ client' = [client EXCEPT ![c].running = FALSE]
  /\ UNCHANGED <<run, left, repository, phase, events, request, locks, cli, waived>>

Coordinate(c) ==
  /\ coordination = Nobody
  /\ MonitorAt(c, "coordinate", "compare")
  /\ coordination' = c
  /\ UNCHANGED <<run, left, repository, phase, events, client, request, gate,
                 writer, cli, waived>>

Forget(c) == client' = [client EXCEPT ![c] = [@ EXCEPT
  !.running = FALSE, !.queued = FALSE, !.full = FALSE, !.paths = {}]]

(* Only indexers run for longer than the timeouts (1.5 and 30 seconds): a  *)
(* client that holds the lock for its checks alone is waited for.          *)
LongHeld ==
  /\ coordination # Nobody
  /\ LET holder == monitor[coordination] IN
       holder.at \in {"spawn", "scan", "index"} \/ ~holder.first

(* Variant: the queue is kept, and nobody is there to serve it.            *)
StrandingCoalesce(c) ==
  /\ LongHeld
  /\ MonitorAt(c, "coordinate", "leaving")
  /\ client' = [client EXCEPT ![c].running = FALSE]
  /\ UNCHANGED <<run, left, repository, phase, events, request, locks, cli, waived>>

(* The lock was held until the timeout: leave the work to its holder.      *)
Coalesce(c) ==
  /\ LongHeld
  /\ MonitorAt(c, "coordinate", "leaving")
  /\ Forget(c)
  /\ UNCHANGED <<run, left, repository, phase, events, request, locks, cli, waived>>

(* Variant: only a run completed while this client waited for the lock.    *)
CompletedMeanwhile(c) ==
  ~monitor[c].manual /\ generation # 0 /\ generation # monitor[c].before

CompletedSince(c) ==
  /\ ~monitor[c].manual /\ generation # 0
  /\ generation # monitor[c].before \/ generation > monitor[c].since

(* A run was completed since an automatic trigger, the only one so far.    *)
SkipDuplicate(c) ==
  /\ CompletedSince(c) /\ ~client[c].later
  /\ MonitorAt(c, "compare", "leaving")
  /\ Forget(c)
  /\ UNCHANGED <<run, left, repository, phase, events, request, locks, cli, waived>>

Proceed(c) ==
  /\ ~CompletedSince(c) \/ client[c].later
  /\ MonitorAt(c, "compare", "loop")
  /\ UNCHANGED <<run, left, repository, phase, events, client, request, locks,
                 cli, waived>>

(* Take what is queued; if the list of paths cannot be written, all files. *)
Take(c) ==
  /\ client[c].queued /\ phase[c] # "stopping"
  /\ monitor[c].at = "loop"
  /\ \E full \in {client[c].full, TRUE} :
       monitor' = [monitor EXCEPT ![c].at = "spawn", ![c].full = full,
                                  ![c].paths = client[c].paths]
  /\ client' = [client EXCEPT ![c] = [@ EXCEPT
                  !.queued = FALSE, !.full = FALSE, !.paths = {}]]
  /\ UNCHANGED <<run, left, repository, phase, events, request, locks, cli, waived>>

(* Variants: one run for every monitor; a stop does not end the loop.      *)
HastyFinish(c) ==
  /\ MonitorAt(c, "loop", "leaving")
  /\ client' = [client EXCEPT ![c].running = FALSE]
  /\ ~monitor[c].first \/ ~client[c].queued
  /\ UNCHANGED <<run, left, repository, phase, events, request, locks, cli, waived>>

DeafFinish(c) ==
  /\ ~client[c].queued
  /\ MonitorAt(c, "loop", "leaving")
  /\ client' = [client EXCEPT ![c].running = FALSE]
  /\ UNCHANGED <<run, left, repository, phase, events, request, locks, cli, waived>>

Finish(c) ==
  /\ ~client[c].queued \/ phase[c] = "stopping"
  /\ MonitorAt(c, "loop", "leaving")
  /\ client' = [client EXCEPT ![c].running = FALSE]
  /\ UNCHANGED <<run, left, repository, phase, events, request, locks, cli, waived>>

(* The locks go as the thread function returns.                            *)
Leave(c) ==
  /\ monitor[c].at = "leaving"
  /\ monitor' = [monitor EXCEPT ![c] = Ended]
  /\ coordination' = IF coordination = c THEN Nobody ELSE coordination
  /\ gate' = [gate EXCEPT ![c] = Nobody]
  /\ UNCHANGED <<run, left, repository, phase, events, client, request, writer,
                 cli, waived>>

-----------------------------------------------------------------------------
(* The indexer it spawns.                                                  *)

Covers(c, f) == monitor[c].full \/ f \in monitor[c].paths

SpawnChild(c) ==
  /\ writer = Nobody
  /\ MonitorAt(c, "spawn", "scan")
  /\ writer' = c
  /\ UNCHANGED <<run, left, repository, phase, events, client, request, gate,
                 coordination, cli, waived>>

(* Nonzero exit: what the run was for is forgotten.                        *)
Fail(c) ==
  /\ monitor' = [monitor EXCEPT ![c].at = "loop", ![c].first = FALSE, ![c].seen = {}]
  /\ waived' = waived \union {f \in Files : Covers(c, f)}

(* Another indexer holds the database's lock for 30 seconds.               *)
ChildBusy(c) ==
  /\ monitor[c].at = "spawn" /\ writer # Nobody
  /\ Fail(c)
  /\ UNCHANGED <<run, left, repository, phase, events, client, request, locks, cli>>

ChildScan(c) ==
  /\ monitor[c].at = "scan"
  /\ monitor' = [monitor EXCEPT ![c].at = "index",
                                ![c].seen = {f \in Files : Covers(c, f)}]
  /\ UNCHANGED <<run, left, repository, phase, events, client, request, locks,
                 cli, waived>>

ChildDone(c) ==
  /\ monitor[c].at = "index"
  /\ stale' = stale \ monitor[c].seen
  /\ generation' = generation + 1
  /\ monitor' = [monitor EXCEPT ![c].at = "loop", ![c].first = FALSE, ![c].seen = {}]
  /\ writer' = Nobody
  /\ UNCHANGED <<run, left, phase, events, client, request, gate, coordination,
                 cli, waived>>

(* Some of the batches were committed, the metadata was not.               *)
ChildFails(c) ==
  /\ monitor[c].at \in {"scan", "index"}
  /\ May("faults") /\ Spend("faults")
  /\ \E S \in SUBSET monitor[c].seen : stale' = stale \ S
  /\ Fail(c)
  /\ writer' = Nobody
  /\ UNCHANGED <<run, generation, phase, events, client, request, gate,
                 coordination, cli>>

(* An exception in the monitor: the catch block keeps full and paths.      *)
Throw(c) ==
  /\ monitor[c].at \in {"coordinate", "spawn"}
  /\ May("faults") /\ Spend("faults")
  /\ MonitorAt(c, monitor[c].at, "leaving")
  /\ client' = [client EXCEPT ![c].running = FALSE, ![c].queued = FALSE]
  /\ waived' = waived \union stale
  /\ UNCHANGED <<run, repository, phase, events, request, locks, cli>>

Monitor(c) ==
  \/ StartMonitor(c) \/ PassGate(c) \/ LeaveGate(c) \/ Coordinate(c) \/ Coalesce(c)
  \/ SkipDuplicate(c) \/ Proceed(c) \/ Take(c) \/ Finish(c) \/ Leave(c)
  \/ SpawnChild(c) \/ ChildBusy(c) \/ ChildScan(c) \/ ChildDone(c)

-----------------------------------------------------------------------------
(* What else writes: workspace jobs of the client, and the command line.   *)

JobStarts(c) ==
  /\ phase[c] \in {"started", "watching"} /\ gate[c] = Nobody
  /\ May("jobs") /\ Spend("jobs")
  /\ gate' = [gate EXCEPT ![c] = "job"]
  /\ UNCHANGED <<run, repository, phase, events, client, request, monitor,
                 coordination, writer, cli, waived>>

JobEnds(c) ==
  /\ gate[c] = "job"
  /\ gate' = [gate EXCEPT ![c] = Nobody]
  /\ UNCHANGED <<run, left, repository, phase, events, client, request, monitor,
                 coordination, writer, cli, waived>>

CliStarts ==
  /\ cli.at = "idle" /\ writer = Nobody
  /\ May("cli") /\ Spend("cli")
  /\ writer' = Cli
  /\ cli' = [at |-> "index", seen |-> Files]
  /\ UNCHANGED <<run, repository, phase, events, client, request, monitor, gate,
                 coordination, waived>>

CliEnds ==
  /\ cli.at = "index"
  /\ stale' = stale \ cli.seen
  /\ generation' = generation + 1
  /\ writer' = Nobody
  /\ cli' = NoRun
  /\ UNCHANGED <<run, left, phase, events, client, request, monitor, gate,
                 coordination, waived>>

-----------------------------------------------------------------------------
Progress(c) ==
  StartUp(c) \/ StartWatching(c) \/ Deliver(c) \/ JobEnds(c)

Next ==
  \/ \E f \in Files : Edit(f)
  \/ \E c \in Clients :
       \/ Progress(c) \/ Monitor(c)
       \/ Manual(c) \/ Stop(c) \/ JobStarts(c) \/ ChildFails(c) \/ Throw(c)
  \/ CliStarts \/ CliEnds

(* Threads and processes that run are scheduled; nobody need edit a file,  *)
(* call a tool or stop a client.                                           *)
Spec ==
  /\ Init /\ [][Next]_vars
  /\ \A c \in Clients : WF_vars(Monitor(c)) /\ WF_vars(Progress(c))
  /\ WF_vars(CliEnds)

-----------------------------------------------------------------------------
(* Properties.                                                             *)

Budget       == [edits : Nat, manual : Nat, jobs : Nat, cli : Nat, stops : Nat,
                 faults : Nat]
Phases       == {"off", "booting", "started", "watching", "stopping"}
ClientFields == [running : BOOLEAN, queued : BOOLEAN, full : BOOLEAN,
                 paths : SUBSET Files, later : BOOLEAN]
Requests     == [by : {"none", "main", "watcher"}, manual : BOOLEAN, since : Nat]
Steps        == {"ended", "gate", "coordinate", "compare", "loop", "spawn", "scan",
                 "index", "leaving"}
Monitors     == [at : Steps, manual : BOOLEAN, since : Nat, before : Nat,
                 first : BOOLEAN, full : BOOLEAN, paths : SUBSET Files,
                 seen : SUBSET Files]

(* Every variable has its type.                                            *)
TypeOK ==
  /\ run \in Scenarios /\ left \in Budget
  /\ stale \subseteq Files /\ waived \subseteq Files
  /\ generation \in Nat
  /\ phase \in [Clients -> Phases] /\ events \in [Clients -> SUBSET Files]
  /\ client \in [Clients -> ClientFields]
  /\ request \in [Clients -> Requests]
  /\ monitor \in [Clients -> Monitors]
  /\ gate \in [Clients -> {Nobody, "monitor", "job"}]
  /\ coordination \in Clients \union {Nobody}
  /\ writer \in Clients \union {Cli, Nobody}
  /\ cli \in [at : {"idle", "index"}, seen : SUBSET Files]

(* Who answers for a stale file: a watcher that has yet to deliver it, a   *)
(* queue that has it, a run that has yet to read it or has read it, or a   *)
(* client that has yet to reconcile.                                       *)
Answers(c, f) ==
  \/ phase[c] = "booting" /\ c \in run.startup
  \/ f \in events[c]
  \/ client[c].queued /\ (client[c].full \/ f \in client[c].paths)
  \/ monitor[c].at \in {"spawn", "scan"} /\ Covers(c, f)
  \/ monitor[c].at = "index" /\ f \in monitor[c].seen

(* No change is forgotten: however triggers coalesce, with a run of their  *)
(* own client or with another client, somebody answers for each stale file *)
(* unless a failure or a shutdown has dropped it.                          *)
NothingForgotten ==
  \A f \in stale \ waived : \/ \E c \in run.clients : Answers(c, f)
                            \/ f \in cli.seen

(* A queued trigger always has a monitor, running or about to start, that  *)
(* will see it; only a shutdown leaves one behind.                         *)
NoStrandedTrigger ==
  \A c \in Clients : client[c].queued /\ ~client[c].running => phase[c] = "stopping"

(* Clients do not repeat each other's work: the first run of an automatic  *)
(* trigger begins only if no run was completed since that trigger, or more *)
(* triggers came.  Runs by hand do not take part in this.                  *)
NoDuplicateRun ==
  run.cli = 0 =>
    \A c \in Clients :
      monitor[c].at \in {"scan", "index"} /\ monitor[c].first /\ ~monitor[c].manual =>
        client[c].later \/ generation <= monitor[c].since

(* The index catches up: once edits cease every file is up to date, but    *)
(* those dropped by a failure or a shutdown.                               *)
CatchesUp == <>[](stale \subseteq waived)

(* A client that stops gets rid of its monitor thread.                     *)
StopDrains ==
  \A c \in Clients : phase[c] = "stopping" ~> monitor[c].at = "ended"
=============================================================================
