------------------------------ MODULE MCWatcher ------------------------------
(***************************************************************************)
(* Three files: one that the two commits have in different versions, one   *)
(* that is the same in both, whose name git quotes, and one that is not    *)
(* tracked.                                                                *)
(***************************************************************************)
EXTENDS Watcher

MCFiles   == 1 .. 3
MCCommits == 1 .. 2
MCContent == << <<1, 1, 0>>, <<2, 1, 0>> >>

At(c)    == [f \in MCFiles |-> [content |-> MCContent[c][f], time |-> f]]
Page(state, c) == [state |-> state, head |-> c]
File(rows, meta) == [p \in 0 .. 3 |-> IF p = 0 THEN meta ELSE rows[p]]

Source(main, tree, todo, c) ==
  [main |-> main, log |-> NoLog, past |-> {NoLog}, states |-> {main},
   tree |-> tree, todo |-> todo, head |-> c]

NoSource == Source(File(<<0, 0, 0>>, Page("none", NoCommit)), <<0, 0, 0>>, {}, NoCommit)

(* The primary is idle and clean; was indexed with an edit in a file; is   *)
(* being indexed after a switch; is being indexed for the first time.      *)
Clean    == Source(File(<<1, 1, 0>>, Page("current", 1)), <<1, 1, 0>>, {}, 1)
Edited   == Source(File(<<1, 3, 0>>, Page("current", 1)), <<1, 3, 0>>, {}, 1)
Switched == Source(File(<<1, 1, 0>>, Page("current", 1)), <<2, 3, 0>>, {1, 2}, 2)
First    == Source(File(<<0, 0, 0>>, Page("none", NoCommit)), <<1, 1, 0>>, {1, 2}, 1)

Scenario(d, c, own, src, build, cli, edits, switches, faults) ==
  [disk |-> d, commit |-> c, db |-> own, source |-> src, build |-> build, cli |-> cli,
   left |-> [edits |-> edits, switches |-> switches, faults |-> faults]]

Seed(src, c, edits, faults) ==
  Scenario(At(c), c, NoDb, src, "posix", FALSE, edits, 0, faults)

UpToDate == [rows |-> At(1), head |-> 1, state |-> "current", root |-> "own"]

Watching(build, cli, edits, switches, faults) ==
  Scenario(At(1), 1, [UpToDate EXCEPT !.rows[3] = NoRow], NoSource, build, cli,
           edits, switches, faults)

MCScenarios ==
  {Seed(src, c, 1, 1) : src \in {Clean, Edited}, c \in MCCommits}
  \union {Seed(src, c, 0, 1) : src \in {Switched, First}, c \in MCCommits}
  \union {Watching(build, FALSE, 2, 0, 1) : build \in {"posix", "windows"}}
  \union {Watching(build, FALSE, 1, 1, 1) : build \in {"posix", "windows"}}
  \union {Watching("posix", TRUE, 2, 1, 0)}
=============================================================================
