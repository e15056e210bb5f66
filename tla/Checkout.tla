------------------------------ MODULE Checkout ------------------------------
(***************************************************************************)
(* A checked-out repository, the rows that its index has of its files, and *)
(* the runs that bring them up to date: what WorktreeSeed and Watcher      *)
(* share of src/src/cli/cmd_index.cpp, index/change_detector.h and         *)
(* util/git.h.  How a run goes about it is the subject of Supervisor and   *)
(* Persister.                                                              *)
(*                                                                         *)
(* A content is a number, 0 that there is no file.  Every change of a file *)
(* gives it a time it never had.  All contents have one size, so that size *)
(* never helps to tell them apart.                                         *)
(***************************************************************************)
EXTENDS Integers, FiniteSets, TLC

CONSTANTS
  Files,    \* the source files
  Commits,  \* the commits, numbers from 1
  Content,  \* Content[c][f]: the content of a file in a commit
  Quoted    \* the files whose names git quotes, since no -z is given

NoCommit == 0

ASSUME ContentAssumption ==
  /\ NoCommit \notin Commits
  /\ Content \in [Commits -> [Files -> Nat]]
  /\ Quoted \subseteq Files

VARIABLES
  disk,    \* content and time of every file
  head,    \* the commit that is checked out, and the time of .git/HEAD
  db,      \* the index: its rows, git_head, index_state and repo_root
  run,     \* the run of the indexer
  missed,  \* files of whose changes nobody will hear, as the code has it
  left     \* how many edits, switches and faults are to come

checkoutVars == <<disk, head, db, run, missed, left>>

(* The time in a row that comes from another checkout.                     *)
Elsewhere == 0
NoRow     == [content |-> 0, time |-> -1]
NoDb      == [rows |-> [f \in Files |-> NoRow], head |-> NoCommit, state |-> "none",
              root |-> "none"]
Idle      == [at |-> "idle"]

-----------------------------------------------------------------------------
(* What git answers.                                                       *)

Untracked == {f \in Files : Content[head.commit][f] = 0 /\ disk[f].content # 0}

(* git diff of the working tree with a commit                              *)
Dirty(c) == {f \in Files \ Untracked : disk[f].content # Content[c][f]}

(* The files in which two commits differ                                   *)
Differ(old, new) == {f \in Files : Content[old][f] # Content[new][f]}

(* collect_worktree_changed_paths(): since a commit, or since HEAD if none *)
(* is known.                                                               *)
ChangedSince(base) == Dirty(IF base = NoCommit THEN head.commit ELSE base) \union Untracked

(* Of the names in an answer, those that lead to a file: one in quotes     *)
(* ends in no extension of a language, and names nothing that there is.    *)
Named(answer) == answer \ Quoted

Fault == left.faults > 0 /\ left' = [left EXCEPT !.faults = @ - 1]

(* git_command(): a git that fails has answered nothing, or a part.        *)
Answers(names, answer) ==
  \/ answer = names /\ UNCHANGED left
  \/ answer \in SUBSET names /\ Fault

-----------------------------------------------------------------------------
(* A run of the indexer, of all files or of some.                          *)

Looked == IF run.full THEN Files ELSE run.paths

Start(full, paths) ==
  /\ run.at = "idle" /\ db.root = "own"
  /\ run' = [at |-> "scan", full |-> full, paths |-> paths]
  /\ db' = [db EXCEPT !.state = "indexing"]

(* Rows of vanished files go; a file is listed if it is new, or has        *)
(* another time and another content.                                       *)
Scan ==
  /\ run.at = "scan"
  /\ LET gone  == {f \in Looked : disk[f].content = 0}
         stale == {f \in Looked \ gone : \/ db.rows[f] = NoRow
                                         \/ /\ db.rows[f].time # disk[f].time
                                            /\ db.rows[f].content # disk[f].content} IN
     /\ db' = [db EXCEPT !.rows = [f \in Files |-> IF f \in gone THEN NoRow ELSE @[f]]]
     /\ run' = [at |-> "persist", full |-> run.full, paths |-> run.paths,
                list |-> [f \in stale |-> disk[f].time]]
  /\ UNCHANGED <<disk, head, missed, left>>

(* A file is read and written later, with the time it had in the scan.     *)
Persist(f) ==
  /\ run.at = "persist" /\ f \in DOMAIN run.list
  /\ db' = [db EXCEPT !.rows[f] = [content |-> disk[f].content, time |-> run.list[f]]]
  /\ run' = [run EXCEPT !.list = [g \in DOMAIN @ \ {f} |-> @[g]]]
  /\ UNCHANGED <<disk, head, missed, left>>

(* write_metadata(); when git does not say it, the head stays as it was.   *)
Finish ==
  /\ run.at = "persist" /\ run.list = <<>>
  /\ \/ db' = [db EXCEPT !.state = "current", !.head = head.commit] /\ UNCHANGED left
     \/ db' = [db EXCEPT !.state = "current"] /\ Fault
  /\ run' = Idle
  /\ UNCHANGED <<disk, head, missed>>

(* A run that fails is not repeated.                                       *)
Fail ==
  /\ run.at # "idle" /\ Fault
  /\ missed' = missed \union Looked
  /\ run' = Idle
  /\ UNCHANGED <<disk, head, db>>

RunStep == Scan \/ (\E f \in Files : Persist(f)) \/ Finish
=============================================================================
