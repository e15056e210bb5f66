---------------------------- MODULE WorktreeSeed ----------------------------
(***************************************************************************)
(* The index of a linked worktree is made from that of the primary         *)
(* checkout: src/src/db/cow_seed.h and src/src/index/worktree_reconcile.h. *)
(* The database is copied, what git calls unchanged gets the times of the  *)
(* worktree's files, and the rest is indexed.                              *)
(*                                                                         *)
(* No lock of the source is taken: it may be written meanwhile.  A         *)
(* database is a file of pages and a write-ahead log; a page holds the row *)
(* of a file or the metadata, and a reader takes the log's page if there   *)
(* is one.  A log whose copy breaks off is one that it was before: what    *)
(* does not end in a commit is not read.                                   *)
(***************************************************************************)
EXTENDS Checkout

Meta  == 0
Pages == Files \union {Meta}

NoLog == [p \in Pages |-> <<>>]

VARIABLES
  source,  \* the primary's database, and what its indexer reads
  seed     \* where bootstrap_worktree_index() is, and what it has seen

seedVars == <<source, seed>>

(* The log has a page, or not: a sequence of at most one.  This is what a  *)
(* reader of a file and its log sees.                                      *)
Over(main, log) ==
  [p \in DOMAIN main |-> IF log[p] = <<>> THEN main[p] ELSE log[p][1]]

-----------------------------------------------------------------------------
(* The primary's indexer.                                                  *)

(* A transaction, of one page.  past are the logs since it last began, as  *)
(* its beginnings in the file are.                                         *)
Write(page, value) ==
  LET log == [source.log EXCEPT ![page] = <<value>>] IN
  /\ source' = [source EXCEPT !.log = log, !.past = @ \union {log},
                              !.states = @ \union {Over(source.main, log)}]
  /\ UNCHANGED <<seed, disk, head, db, run, missed>>

SourceView == Over(source.main, source.log)

SourceBegins ==
  /\ source.todo # {} /\ SourceView[Meta].state # "indexing"
  /\ Write(Meta, [SourceView[Meta] EXCEPT !.state = "indexing"])
  /\ UNCHANGED left

(* One of the files it has yet to index.                                   *)
SourceIndexes(f) ==
  /\ SourceView[Meta].state = "indexing" /\ f \in source.todo
  /\ SourceView[f] # source.tree[f]
  /\ Write(f, source.tree[f])
  /\ UNCHANGED left

SourceEnds ==
  /\ SourceView[Meta].state = "indexing"
  /\ \A f \in source.todo : SourceView[f] = source.tree[f]
  /\ \/ Write(Meta, [state |-> "current", head |-> source.head]) /\ UNCHANGED left
     \/ Write(Meta, [SourceView[Meta] EXCEPT !.state = "current"]) /\ Fault

(* A checkpoint takes the log's pages into the file, one by one; once all  *)
(* are there, the log starts again from its beginning, or is removed.      *)
Checkpoint(p) ==
  /\ source.log[p] # <<>> /\ <<source.main[p]>> # source.log[p]
  /\ source' = [source EXCEPT !.main[p] = source.log[p][1]]
  /\ UNCHANGED <<seed, checkoutVars>>

ResetLog ==
  /\ \E p \in Pages : source.log[p] # <<>>
  /\ \A p \in Pages : source.log[p] \in {<<>>, <<source.main[p]>>}
  /\ source' = [source EXCEPT !.log = NoLog, !.past = {NoLog}]
  /\ seed' = [seed EXCEPT !.reset = @ \/ seed.main # <<>>,
                          !.torn = IF seed.at = "log" /\ @ = {} THEN source.past ELSE @]
  /\ UNCHANGED checkoutVars

(* What it does after the copy makes no difference to anyone here.         *)
SourceStep ==
  /\ seed.at \in {"copy", "log"}
  /\ \/ SourceBegins \/ SourceEnds \/ ResetLog
     \/ \E f \in Files : SourceIndexes(f)
     \/ \E p \in Pages : Checkpoint(p)

-----------------------------------------------------------------------------
(* bootstrap_worktree_index()                                              *)

(* reset and torn: the log began anew after the first page was copied, and *)
(* what the copy can then have of it; failed: what went wrong unnoticed.   *)
NoSeed == [at |-> "none", main |-> <<>>, reset |-> FALSE, torn |-> {}, failed |-> {},
           base |-> NoCommit, copy |-> <<>>, changed |-> {}, seen |-> <<>>, aligned |-> <<>>]

(* The database file is copied, page by page where it cannot be cloned.    *)
CopyPage(p) ==
  /\ seed.at = "copy" /\ p \notin DOMAIN seed.main
  /\ seed' = [seed EXCEPT !.main = [q \in DOMAIN @ \union {p} |->
                                      IF q = p THEN source.main[p] ELSE @[q]]]
  /\ UNCHANGED <<source, checkoutVars>>

(* The row of a file, and the metadata, in the copy.                       *)
Opened(pages) ==
  [rows  |-> [f \in Files |-> IF pages[f] = 0 THEN NoRow
                              ELSE [content |-> pages[f], time |-> Elsewhere]],
   head  |-> pages[Meta].head, state |-> pages[Meta].state, root |-> "primary"]

BeginLog ==
  /\ seed.at = "copy" /\ DOMAIN seed.main = Pages
  /\ seed' = [seed EXCEPT !.at = "log"]
  /\ UNCHANGED <<source, checkoutVars>>

(* From here on the primary's files, and how they were copied, are of no   *)
(* concern, and forgotten.                                                 *)
Copied(pages, failed) ==
  /\ seed' = [seed EXCEPT !.at = "stamp", !.main = <<>>, !.torn = {},
                          !.copy = pages, !.failed = @ \union failed]
  /\ source' = [source EXCEPT !.main = <<>>, !.log = <<>>, !.past = {}]
  /\ db' = Opened(pages)
  /\ UNCHANGED <<disk, head, run, missed>>

(* There is no log when it is looked for.                                  *)
SkipLog ==
  /\ seed.at = "copy" /\ DOMAIN seed.main = Pages
  /\ source.log = NoLog
  /\ Copied(Over(seed.main, NoLog), {})
  /\ UNCHANGED left

(* Variant: the log is left behind.                                        *)
CopyMainOnly == seed.at = "log" /\ Copied(seed.main, {}) /\ UNCHANGED left

(* Then the log, as it is by then.  If it has begun anew meanwhile, what   *)
(* comes after that is of another log, and is not read.                    *)
CopyLog ==
  /\ seed.at = "log"
  /\ \E log \in IF seed.torn = {} THEN {source.log} ELSE seed.torn :
       Copied(Over(seed.main, log), {})
  /\ UNCHANGED left

(* clone_file_cow() fails, having copied nothing or a part; nobody asks.   *)
FailLog ==
  /\ seed.at = "log"
  /\ \E log \in IF seed.torn = {} THEN source.past ELSE seed.torn :
       Copied(Over(seed.main, log), {"log"})
  /\ Fault

(* repo_root becomes the worktree; git_head is what to compare with.       *)
Stamp ==
  /\ seed.at = "stamp"
  /\ seed' = [seed EXCEPT !.at = "diff", !.base = db.head]
  /\ db' = [db EXCEPT !.root = "own"]
  /\ UNCHANGED <<source, disk, head, run, missed, left>>

(* A git that fails is one that has found nothing, or less.                *)
Diff ==
  /\ seed.at = "diff"
  /\ \E answer \in SUBSET ChangedSince(seed.base) :
       /\ Answers(ChangedSince(seed.base), answer)
       /\ seed' = [seed EXCEPT !.at = "align", !.changed = Named(answer),
                     !.seen = [f \in Files |-> disk[f].time],
                     !.failed = IF answer = ChangedSince(seed.base) THEN @ ELSE @ \union {"git"}]
  /\ UNCHANGED <<source, disk, head, db, run, missed>>

Aligned(f) == db.rows[f] # NoRow /\ f \notin seed.changed /\ disk[f].content # 0

(* Variant: changed files are not passed over.                             *)
AlignAll ==
  /\ seed.at = "align"
  /\ db' = [db EXCEPT !.rows = [f \in Files |->
              IF db.rows[f] # NoRow THEN [@[f] EXCEPT !.time = disk[f].time] ELSE @[f]]]
  /\ seed' = [seed EXCEPT !.at = "index", !.aligned = [f \in Files |-> -1]]
  /\ UNCHANGED <<source, disk, head, run, missed, left>>

(* align_unchanged_files_mtime(): no content is looked at.                 *)
Align ==
  /\ seed.at = "align"
  /\ db' = [db EXCEPT !.rows = [f \in Files |->
              IF Aligned(f) THEN [@[f] EXCEPT !.time = disk[f].time] ELSE @[f]]]
  /\ seed' = [seed EXCEPT !.at = "index",
                          !.aligned = [f \in Files |-> IF Aligned(f) THEN disk[f].time ELSE -1]]
  /\ UNCHANGED <<source, disk, head, run, missed, left>>

(* The run is one of what has changed; if nothing has, one of everything.  *)
(* How it ends is not asked.                                               *)
Index ==
  /\ seed.at = "index"
  /\ Start(seed.changed = {}, seed.changed)
  /\ seed' = [seed EXCEPT !.at = "indexing"]
  /\ UNCHANGED <<source, disk, head, missed, left>>

Seeded ==
  /\ seed.at = "indexing" /\ run.at = "idle"
  /\ seed' = [seed EXCEPT !.at = "done"]
  /\ UNCHANGED <<source, checkoutVars>>

(* The process ends, or gives up where the database file itself cannot be  *)
(* copied or opened; what it has written stays.                            *)
SeedDies ==
  /\ seed.at \notin {"none", "done"} /\ Fault
  /\ seed' = [seed EXCEPT !.at = "done"]
  /\ run' = Idle
  /\ UNCHANGED <<source, disk, head, db, missed>>

SeedStep ==
  \/ \E p \in Pages : CopyPage(p)
  \/ BeginLog \/ SkipLog \/ CopyLog \/ Stamp \/ Diff \/ Align \/ Index \/ Seeded

-----------------------------------------------------------------------------
(* Properties.                                                             *)

(* The copy of a database, of file and log at different moments and under  *)
(* no lock, shows what was committed in it at some moment, however         *)
(* checkpoints fall - unless the log began anew before its copy was made,  *)
(* or could not be copied, which the code takes for a copy that was.       *)
CopyIsCommitted ==
  seed.copy # <<>> => seed.reset \/ "log" \in seed.failed \/ seed.copy \in source.states

(* A row with the time of its file, at which no run will ever look again,  *)
(* has the content of the file, unless alignment gave it that time and the *)
(* row was not of the commit that the source called its head, or the file  *)
(* was changed after git had been asked, or git had failed, which the code *)
(* takes for no changes, or the name of the file is one that git quotes.   *)
TimesTellTheTruth ==
  \A f \in Files :
    db.rows[f].time = disk[f].time /\ db.rows[f].content # disk[f].content =>
      /\ seed.aligned # <<>> /\ db.rows[f].time = seed.aligned[f]
      /\ \/ seed.aligned[f] # seed.seen[f]
         \/ seed.base = NoCommit
         \/ seed.copy[f] # Content[seed.base][f]
         \/ "git" \in seed.failed
         \/ f \in Quoted
=============================================================================
