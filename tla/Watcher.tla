------------------------------- MODULE Watcher -------------------------------
(***************************************************************************)
(* A server, or codetopo watch, that keeps an index up to date with edits  *)
(* and branch switches: src/src/watch/watcher.h, its callback in           *)
(* src/src/cli/cmd_mcp.h and src/src/cli/cmd_watch.h, and the runs that it *)
(* asks for.  Here one process watches; what several do to each other's    *)
(* triggers is the subject of Reindex.                                     *)
(***************************************************************************)
EXTENDS WorktreeSeed

CONSTANTS
  Contents,  \* what a user may write into a file
  Scenarios  \* initial states, but for what is the same in all

(* A file has the time of its last change, which no other checkout has; a  *)
(* row that was made here has a time that its file had, and its content if *)
(* the file has not changed since.  What a reader of the source sees was   *)
(* committed.                                                              *)
ASSUME ScenarioAssumption ==
  \A s \in Scenarios :
    /\ s.disk \in [Files -> [content : Nat, time : Nat \ {Elsewhere}]]
    /\ s.db.rows \in [Files -> [content : Nat, time : Int]]
    /\ DOMAIN s.db = {"rows", "head", "state", "root"}
    /\ \A f \in Files :
         /\ s.db.rows[f].time <= s.disk[f].time
         /\ s.db.rows[f].time = s.disk[f].time =>
              s.db.rows[f].content = s.disk[f].content
    /\ DOMAIN s.source = {"main", "log", "past", "states", "tree", "todo", "head"}
    /\ DOMAIN s.source.main = Pages /\ DOMAIN s.source.log = Pages
    /\ Over(s.source.main, s.source.log) \in s.source.states

VARIABLES
  watch,   \* the watch thread, and last_known_head of its callback
  queue,   \* what the next run is to do
  switch   \* the commit that git checkout is writing out, if any

watchVars == <<watch, queue, switch>>
vars == <<checkoutVars, seedVars, watchVars>>

(* A change of .git/HEAD among the events, which are files otherwise.      *)
Head == 0

NoQueue == [full |-> FALSE, paths |-> {}]

-----------------------------------------------------------------------------
(* The user and git.                                                       *)

(* Nobody hears of a change after the startup run has looked at the file   *)
(* and before the watch has begun.                                         *)
Unheard(f) ==
  /\ watch.at = "starting" /\ ~queue.full /\ run.at # "scan"
  /\ run.at = "persist" => f \notin DOMAIN run.list

(* Nor of a file that comes and goes between two polls, though a run may   *)
(* have seen it.                                                           *)
Unseen(f, content) ==
  /\ watch.at = "on" /\ watch.build = "posix"
  /\ watch.known[f].content = 0 /\ content = 0

(* A file is written, or removed; the system notes it for whoever listens. *)
Change(f, content) ==
  /\ disk' = [disk EXCEPT ![f] = [content |-> content, time |-> @.time + 1]]
  /\ watch' = IF watch.at = "on" THEN [watch EXCEPT !.events = @ \union {f}] ELSE watch
  /\ missed' = IF Unheard(f) \/ Unseen(f, content) THEN missed \union {f} ELSE missed

Edit(f, content) ==
  /\ left.edits > 0 /\ content # disk[f].content
  /\ left' = [left EXCEPT !.edits = @ - 1]
  /\ Change(f, content)
  /\ UNCHANGED <<head, db, run, seedVars, queue, switch>>

SwitchTo(c) ==
  /\ left.switches > 0 /\ switch = NoCommit /\ c # head.commit
  /\ left' = [left EXCEPT !.switches = @ - 1]
  /\ switch' = c
  /\ UNCHANGED <<disk, head, db, run, missed, seedVars, watch, queue>>

(* Files that differ and are as they were committed.                       *)
ToWrite ==
  {f \in Files : /\ Content[head.commit][f] # Content[switch][f]
                 /\ disk[f].content = Content[head.commit][f]}

SwitchFile(f) ==
  /\ switch # NoCommit /\ f \in ToWrite
  /\ Change(f, Content[switch][f])
  /\ UNCHANGED <<head, db, run, left, seedVars, queue, switch>>

SwitchHead ==
  /\ switch # NoCommit /\ ToWrite = {}
  /\ head' = [commit |-> switch, time |-> head.time + 1]
  /\ watch' = IF watch.at = "on" THEN [watch EXCEPT !.events = @ \union {Head}] ELSE watch
  /\ switch' = NoCommit
  /\ UNCHANGED <<disk, db, run, missed, left, seedVars, queue>>

-----------------------------------------------------------------------------
(* The process starts.                                                     *)

Ask(full, paths) ==
  queue' = [full  |-> queue.full \/ full,
            paths |-> IF queue.full \/ full THEN {} ELSE queue.paths \union paths]

(* run_mcp() asks for a full run before it watches; run_watch() does not.  *)
(* If git does not say its head, that of the index is taken.               *)
Serve ==
  /\ watch.at = "off" /\ seed.at \in {"none", "done"} /\ db.root = "own"
  /\ \/ watch' = [watch EXCEPT !.at = "starting", !.lastHead = head.commit] /\ UNCHANGED left
     \/ watch' = [watch EXCEPT !.at = "starting", !.lastHead = db.head] /\ Fault
  /\ IF watch.cli THEN UNCHANGED queue ELSE Ask(TRUE, {})
  /\ missed' = IF watch.cli THEN Files ELSE missed
  /\ UNCHANGED <<disk, head, db, run, seedVars, switch>>

(* The monitor starts a run of what is queued.                             *)
Reindex ==
  /\ queue # NoQueue
  /\ Start(queue.full, queue.paths)
  /\ queue' = NoQueue
  /\ missed' = IF queue.full THEN {} ELSE missed \ queue.paths
  /\ UNCHANGED <<disk, head, left, seedVars, watch, switch>>

-----------------------------------------------------------------------------
(* The callback.                                                           *)

(* git_changed_paths_for_heads(): what differs between the heads, and what *)
(* is not as in HEAD.                                                      *)
HeadPaths(new) ==
  [heads |-> IF NoCommit \in {new, watch.lastHead} THEN {} ELSE Differ(watch.lastHead, new),
   dirty |-> Dirty(new)]

(* What git answers when .git/HEAD is in a batch; nobody else asks.  It    *)
(* may fail at any of the questions.                                       *)
GitAnswers(batch, new, heads, dirty) ==
  \/ new = head.commit /\ heads = HeadPaths(new).heads /\ dirty = HeadPaths(new).dirty
     /\ UNCHANGED left
  \/ new = head.commit /\ Head \in batch /\ ~watch.cli /\ Fault
  \/ new = NoCommit /\ heads = {} /\ dirty = {} /\ Head \in batch /\ ~watch.cli /\ Fault

(* What is asked for on a batch of events.  Heads that differ in nothing,  *)
(* as far as git says, or are not known, ask for everything.               *)
Wanted(batch, new, heads, dirty) ==
  LET unknown == NoCommit \in {new, watch.lastHead}
      same    == new # watch.lastHead /\ heads = {}
      named   == batch \ {Head} IN
  IF watch.cli \/ (Head \in batch /\ (unknown \/ same)) THEN [full |-> TRUE, paths |-> {}]
  ELSE [full  |-> FALSE,
        paths |-> IF Head \in batch THEN named \union Named(heads \union dirty) ELSE named]

(* Changes that were dropped are missed unless they are asked for.         *)
Callback(batch, next) ==
  \E new \in {head.commit, NoCommit}, heads \in SUBSET HeadPaths(head.commit).heads,
     dirty \in SUBSET HeadPaths(head.commit).dirty :
    LET wanted == Wanted(batch, new, heads, dirty) IN
    /\ GitAnswers(batch, new, heads, dirty)
    /\ Ask(wanted.full, wanted.paths)
    /\ missed' = IF wanted.full THEN missed ELSE missed \union (watch.dropped \ wanted.paths)
    /\ watch' = [next EXCEPT !.dropped = {},
                   !.lastHead = IF Head \in batch /\ new # NoCommit THEN new ELSE @]

-----------------------------------------------------------------------------
(* The watch thread: run_polling() and run_windows().                      *)

Baseline ==
  /\ watch.at = "starting"
  /\ watch' = [watch EXCEPT !.at = "on", !.known = [f \in Files |-> disk[f]],
                            !.headTime = head.time]
  /\ UNCHANGED <<checkoutVars, seedVars, queue, switch>>

Polling == watch.at = "on" /\ watch.build = "posix"

(* First .git/HEAD, then the files; a round without events calls nobody.   *)
PollHead ==
  /\ Polling /\ ~watch.walking
  /\ watch' = [watch EXCEPT !.walking = TRUE, !.headTime = head.time,
                            !.pending = IF head.time = watch.headTime THEN {} ELSE {Head}]
  /\ UNCHANGED <<checkoutVars, seedVars, queue, switch>>

Present(known, f) == known[f].content # 0

(* Variant: what has vanished is not noticed.                              *)
PresentFiles(known, now) ==
  {f \in Files : Present(now, f) /\ known[f].time # now[f].time}

(* Files that came, went, or have another time.                            *)
ChangedFiles(known, now) ==
  {f \in Files : /\ Present(known, f) \/ Present(now, f)
                 /\ known[f].time # now[f].time}

PollFiles ==
  /\ Polling /\ watch.walking
  /\ LET batch == watch.pending \union ChangedFiles(watch.known, disk)
         next  == [watch EXCEPT !.walking = FALSE, !.known = disk, !.pending = {}, !.events = {}] IN
     IF batch = {} THEN watch' = next /\ UNCHANGED <<queue, missed, left>>
     ELSE Callback(batch, next)
  /\ UNCHANGED <<disk, head, db, run, seedVars, switch>>

Notified == watch.at = "on" /\ watch.build = "windows"

(* A completion is read into what is pending.                              *)
Read ==
  /\ Notified /\ watch.events # {} /\ ~watch.overflow
  /\ watch' = [watch EXCEPT !.pending = @ \union watch.events, !.events = {}]
  /\ UNCHANGED <<checkoutVars, seedVars, queue, switch>>

(* The system's buffer is full: the events in it are lost.                 *)
Overflow ==
  /\ Notified /\ watch.events # {} /\ Fault
  /\ watch' = [watch EXCEPT !.overflow = TRUE, !.events = {},
                            !.dropped = @ \union (watch.events \ {Head})]
  /\ UNCHANGED <<disk, head, db, run, missed, seedVars, queue, switch>>

(* That is taken for a branch switch, to ask git for the changes.          *)
ReadOverflow ==
  /\ Notified /\ watch.overflow
  /\ watch' = [watch EXCEPT !.pending = @ \union {Head}, !.overflow = FALSE]
  /\ UNCHANGED <<checkoutVars, seedVars, queue, switch>>

(* It has been quiet for the debounce time.                                *)
Flush ==
  /\ Notified /\ watch.pending # {} /\ watch.events = {}
  /\ Callback(watch.pending, [watch EXCEPT !.pending = {}])
  /\ UNCHANGED <<disk, head, db, run, seedVars, switch>>

(* Any error ends the thread; what is pending is lost.                     *)
WatchFails ==
  /\ Notified /\ Fault
  /\ watch' = [watch EXCEPT !.at = "dead", !.pending = {}]
  /\ UNCHANGED <<disk, head, db, run, missed, seedVars, queue, switch>>

WatchStep == Baseline \/ PollHead \/ PollFiles \/ Read \/ ReadOverflow \/ Flush

-----------------------------------------------------------------------------

Init ==
  \E s \in Scenarios :
    /\ disk = s.disk /\ head = [commit |-> s.commit, time |-> 1]
    /\ db = s.db /\ run = Idle /\ missed = {} /\ left = s.left
    /\ source = s.source
    /\ seed = [NoSeed EXCEPT !.at = IF s.db.root = "none" THEN "copy" ELSE "none"]
    /\ watch = [at |-> "off", build |-> s.build, cli |-> s.cli, known |-> <<>>,
                headTime |-> 0, lastHead |-> NoCommit, walking |-> FALSE,
                events |-> {}, pending |-> {}, overflow |-> FALSE, dropped |-> {}]
    /\ queue = NoQueue /\ switch = NoCommit

Indexer == (RunStep \/ Fail) /\ UNCHANGED <<seedVars, watchVars>>

Seeding == (SourceStep \/ SeedStep \/ FailLog \/ SeedDies) /\ UNCHANGED watchVars

Next ==
  \/ \E f \in Files : SwitchFile(f) \/ \E c \in Contents : Edit(f, c)
  \/ \E c \in Commits : SwitchTo(c)
  \/ SwitchHead
  \/ Indexer \/ Seeding
  \/ Serve \/ Reindex
  \/ WatchStep \/ Overflow \/ WatchFails

Spec == Init /\ [][Next]_vars

(* Runs, the seeding, the monitor and the watch thread go on, and so does  *)
(* git; nobody has to edit, and nothing has to fail.                       *)
FairSpec ==
  /\ Spec
  /\ WF_vars(RunStep /\ UNCHANGED <<seedVars, watchVars>>)
  /\ WF_vars(SeedStep /\ UNCHANGED watchVars)
  /\ WF_vars(Serve) /\ WF_vars(Reindex) /\ WF_vars(Baseline)
  /\ WF_vars(PollHead) /\ WF_vars(PollFiles)
  /\ WF_vars(Read) /\ WF_vars(ReadOverflow) /\ WF_vars(Flush)
  /\ WF_vars(SwitchHead) /\ WF_vars(\E f \in Files : SwitchFile(f))

-----------------------------------------------------------------------------
(* Properties.                                                             *)

(* After the last edit, and while the watch thread lives, the index comes  *)
(* to have the content of every file, whatever edits, branch switches,     *)
(* runs and polls came in between - but for files whose change came before *)
(* the watch began, was in a run that failed, or was dropped by the system *)
(* and is not among what git names; and for rows that TimesTellTheTruth    *)
(* excuses.                                                                *)
IndexFollowsDisk ==
  <>[](watch.at = "on" =>
         \A f \in Files \ missed :
           db.rows[f].content = disk[f].content \/ db.rows[f].time = disk[f].time)
=============================================================================
