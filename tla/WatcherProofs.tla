---------------------------- MODULE WatcherProofs ----------------------------
(***************************************************************************)
(* Theorems about WorktreeSeed and Watcher, for any files, commits,        *)
(* contents, scenarios, edits, switches and faults: what the copy of a     *)
(* live database shows, and which rows can have the time of their file and *)
(* not its content.                                                        *)
(***************************************************************************)
EXTENDS Watcher, TLAPS

-----------------------------------------------------------------------------
(* The records and their fields; contents may be anything.                 *)
Shape ==
  /\ DOMAIN source = {"main", "log", "past", "states", "tree", "todo", "head"}
  /\ seed.at \in {"copy", "log"} => DOMAIN source.main = Pages /\ DOMAIN source.log = Pages
  /\ DOMAIN seed = {"at", "main", "reset", "torn", "failed", "base", "copy", "changed",
                    "seen", "aligned"}
  /\ DOMAIN seed.main \subseteq Pages /\ seed.reset \in BOOLEAN
  /\ DOMAIN disk = Files
  /\ \A f \in Files : disk[f].time \in Nat \ {0}
  /\ DOMAIN db = {"rows", "head", "state", "root"}
  /\ DOMAIN db.rows = Files
  /\ \A f \in Files : DOMAIN db.rows[f] = {"content", "time"} /\ db.rows[f].time \in Int
  /\ DOMAIN watch = {"at", "build", "cli", "known", "headTime", "lastHead", "walking",
                     "events", "pending", "overflow", "dropped"}
  /\ watch.events \subseteq Files \union {Head} /\ watch.pending \subseteq Files \union {Head}
  /\ queue.paths \subseteq Files /\ seed.changed \subseteq Files
  /\ run.at # "idle" => run.paths \subseteq Files
  /\ run.at = "persist" =>
       /\ DOMAIN run = {"at", "full", "paths", "list"}
       /\ DOMAIN run.list \subseteq Files
       /\ \A f \in DOMAIN run.list : run.list[f] \in Nat

(* Nothing else happens in the worktree while it is being seeded.          *)
Quiet ==
  /\ seed.at \notin {"none", "done"} => watch.at = "off" /\ queue = NoQueue
  /\ seed.at \in {"copy", "log", "stamp", "diff", "align", "index"} => run.at = "idle"

(* A page that was copied and that the log does not have is still the      *)
(* source's page, until the log begins anew; until then its copy is the    *)
(* log itself.                                                             *)
CopyFits ==
  /\ seed.at \in {"copy", "log"} => SourceView \in source.states /\ seed.copy = <<>>
  /\ seed.at = "log" => DOMAIN seed.main = Pages
  /\ seed.at \in {"copy", "log"} /\ ~seed.reset =>
       /\ seed.torn = {}
       /\ \A p \in DOMAIN seed.main :
            source.log[p] = <<>> => seed.main[p] = source.main[p]
  /\ CopyIsCommitted

(* Times of the past: of rows, of scans, of what git was asked.            *)
TimesFit ==
  \A f \in Files :
    /\ db.rows[f].time <= disk[f].time
    /\ run.at = "persist" /\ f \in DOMAIN run.list => run.list[f] <= disk[f].time

(* Between the copy and the alignment, the rows are those of the copy; and *)
(* what git called unchanged is as it was committed, unless it has changed *)
(* since, git had failed, or git quotes its name.                          *)
RowsFit ==
  /\ seed.at \in {"copy", "log", "stamp", "diff", "align"} => seed.aligned = <<>>
  /\ seed.at \in {"stamp", "diff", "align"} =>
       \A f \in Files : db.rows[f] # NoRow => db.rows[f].content = seed.copy[f]
  /\ seed.at = "align" /\ seed.base # NoCommit /\ "git" \notin seed.failed =>
       \A f \in Files \ (seed.changed \union Quoted) :
         disk[f].time = seed.seen[f] => disk[f].content = Content[seed.base][f]
  /\ seed.at = "align" => \A f \in Files :
       seed.seen[f] \in Nat /\ seed.seen[f] <= disk[f].time

Inv == Shape /\ Quiet /\ CopyFits /\ TimesFit /\ RowsFit /\ TimesTellTheTruth

LEMMA InitInv == Init => Inv
<1> SUFFICES ASSUME NEW s \in Scenarios,
                    disk = s.disk, db = s.db, run = Idle, source = s.source,
                    seed = [NoSeed EXCEPT !.at = IF s.db.root = "none" THEN "copy" ELSE "none"],
                    watch = [at |-> "off", build |-> s.build, cli |-> s.cli, known |-> <<>>,
                             headTime |-> 0, lastHead |-> NoCommit, walking |-> FALSE,
                             events |-> {}, pending |-> {}, overflow |-> FALSE, dropped |-> {}],
                    queue = NoQueue
             PROVE  Inv
  BY DEF Init
<1> USE ScenarioAssumption DEF Elsewhere, Idle, NoSeed
<1>1. Shape
  BY DEF Shape, NoQueue
<1>2. Quiet
  BY DEF Quiet
<1>3. CopyFits
  BY DEF CopyFits, SourceView, CopyIsCommitted
<1>4. TimesFit
  BY DEF TimesFit
<1>5. RowsFit
  BY DEF RowsFit
<1>6. TimesTellTheTruth
  BY DEF TimesTellTheTruth
<1> QED
  BY <1>1, <1>2, <1>3, <1>4, <1>5, <1>6 DEF Inv

-----------------------------------------------------------------------------
(* The primary's indexer.                                                  *)

(* While the files are copied, there is no copy yet.                       *)
LEMMA SourceOK ==
  ASSUME Inv, seed.at \in {"copy", "log"},
         UNCHANGED <<disk, db, run, watchVars>>,
         DOMAIN source' = DOMAIN source,
         DOMAIN source'.main = Pages, DOMAIN source'.log = Pages,
         NEW b \in BOOLEAN, NEW t, seed.reset => b, ~b => t = {},
         \/ seed' = seed /\ b = seed.reset /\ t = seed.torn
         \/ seed' = [seed EXCEPT !.reset = b, !.torn = t],
         SourceView' \in source'.states,
         ~b => \A p \in DOMAIN seed.main :
           source'.log[p] = <<>> =>
             /\ source.log[p] = <<>>
             /\ source'.main[p] = source.main[p]
  PROVE  Inv'
<1> USE DEF Inv, watchVars
<1>1. /\ DOMAIN seed' = DOMAIN seed
      /\ seed'.reset = b /\ seed'.torn = t
      /\ seed'.at = seed.at /\ seed'.main = seed.main /\ seed'.copy = seed.copy
      /\ seed'.changed = seed.changed /\ seed'.seen = seed.seen
      /\ seed'.aligned = seed.aligned /\ seed'.base = seed.base
      /\ seed'.failed = seed.failed
  BY DEF Shape
<1>2. Shape'
  BY <1>1 DEF Shape
<1>3. Quiet'
  BY <1>1 DEF Quiet
<1>4. CopyFits'
  BY <1>1 DEF Shape, CopyFits, CopyIsCommitted
<1>5. TimesFit' /\ RowsFit' /\ TimesTellTheTruth'
  BY <1>1 DEF TimesFit, RowsFit, TimesTellTheTruth
<1> QED
  BY <1>2, <1>3, <1>4, <1>5

LEMMA WriteOK ==
  ASSUME Inv, seed.at \in {"copy", "log"}, NEW p \in Pages, NEW v, Write(p, v),
         UNCHANGED watchVars
  PROVE  Inv'
<1>1. /\ DOMAIN source' = DOMAIN source
      /\ source'.main = source.main
      /\ source'.log = [source.log EXCEPT ![p] = <<v>>]
      /\ source'.states =
           source.states \union {Over(source.main, [source.log EXCEPT ![p] = <<v>>])}
  BY DEF Inv, Shape, Write
<1>2. SourceView' \in source'.states
  BY <1>1 DEF SourceView
<1>3. DOMAIN source'.main = Pages /\ DOMAIN source'.log = Pages
  BY <1>1 DEF Inv, Shape
<1>4. \A q \in Pages : source'.log[q] = <<>> =>
        source.log[q] = <<>> /\ source'.main[q] = source.main[q]
  BY <1>1 DEF Inv, Shape
<1>5. DOMAIN seed.main \subseteq Pages
  BY DEF Inv, Shape
<1>6. UNCHANGED <<seed, disk, db, run>>
  BY DEF Write
<1>7. seed.reset \in BOOLEAN /\ (~seed.reset => seed.torn = {})
  BY DEF Inv, Shape, CopyFits
<1> QED
  BY <1>1, <1>2, <1>3, <1>4, <1>5, <1>6, <1>7, SourceOK

LEMMA CheckpointOK ==
  ASSUME Inv, seed.at \in {"copy", "log"}, NEW p \in Pages, Checkpoint(p),
         UNCHANGED watchVars
  PROVE  Inv'
<1>1. /\ DOMAIN source' = DOMAIN source
      /\ source'.main = [source.main EXCEPT ![p] = source.log[p][1]]
      /\ source'.log = source.log /\ source'.states = source.states
  BY DEF Inv, Shape, Checkpoint
<1>2. SourceView' = SourceView
  BY <1>1 DEF SourceView, Over, Inv, Shape, Checkpoint
<1>3. DOMAIN source'.main = Pages /\ DOMAIN source'.log = Pages
  BY <1>1 DEF Inv, Shape
<1>4. \A q \in Pages : source'.log[q] = <<>> =>
        source.log[q] = <<>> /\ source'.main[q] = source.main[q]
  BY <1>1 DEF Inv, Shape, Checkpoint
<1>5. DOMAIN seed.main \subseteq Pages /\ SourceView' \in source'.states
  BY <1>1, <1>2 DEF Inv, Shape, CopyFits
<1>6. UNCHANGED <<seed, disk, db, run>>
  BY DEF Checkpoint, checkoutVars
<1>7. seed.reset \in BOOLEAN /\ (~seed.reset => seed.torn = {})
  BY DEF Inv, Shape, CopyFits
<1> QED
  BY <1>1, <1>3, <1>4, <1>5, <1>6, <1>7, SourceOK

LEMMA ResetLogOK ==
  ASSUME Inv, seed.at \in {"copy", "log"}, ResetLog, UNCHANGED watchVars
  PROVE  Inv'
<1>1. /\ DOMAIN source' = DOMAIN source
      /\ source'.main = source.main /\ source'.states = source.states
      /\ source'.log = NoLog
  BY DEF Inv, Shape, ResetLog
<1>2. SourceView' = SourceView
  BY <1>1 DEF SourceView, Over, Inv, Shape, ResetLog, NoLog
<1>3. DOMAIN source'.main = Pages /\ DOMAIN source'.log = Pages
  BY <1>1 DEF Inv, Shape, NoLog
<1>4. SourceView' \in source'.states
  BY <1>1, <1>2 DEF Inv, CopyFits
<1> DEFINE b == seed.reset \/ seed.main # <<>>
           t == IF seed.at = "log" /\ seed.torn = {} THEN source.past ELSE seed.torn
<1>5. seed' = [seed EXCEPT !.reset = b, !.torn = t]
  BY DEF Inv, Shape, ResetLog
<1>6. b \in BOOLEAN /\ (seed.reset => b)
  BY DEF Inv, Shape
<1>7. seed.main = <<>> => DOMAIN seed.main = {}
  OBVIOUS
<1>8. ~b => DOMAIN seed.main = {} /\ seed.at # "log"
  <2>1. Meta \in Pages
    BY DEF Pages
  <2> QED
    BY <1>7, <2>1 DEF Inv, CopyFits
<1>9. ~b => t = {}
  BY <1>8 DEF Inv, CopyFits, Shape
<1>10. UNCHANGED <<disk, db, run>>
  BY DEF ResetLog, checkoutVars
<1> HIDE DEF b, t
<1> QED
  BY <1>1, <1>3, <1>4, <1>5, <1>6, <1>8, <1>9, <1>10, SourceOK

LEMMA SourceStepOK == ASSUME Inv, SourceStep, UNCHANGED watchVars  PROVE  Inv'
  BY WriteOK, CheckpointOK, ResetLogOK
     DEF SourceStep, SourceBegins, SourceEnds, SourceIndexes, Pages

-----------------------------------------------------------------------------
(* Seeding.                                                                *)

LEMMA CopyPageOK ==
  ASSUME Inv, NEW p \in Pages, CopyPage(p), UNCHANGED watchVars
  PROVE  Inv'
<1> USE DEF Inv, CopyPage, checkoutVars, watchVars
<1>1. /\ DOMAIN seed' = DOMAIN seed
      /\ seed'.main = [q \in DOMAIN seed.main \union {p} |->
                        IF q = p THEN source.main[p] ELSE seed.main[q]]
      /\ \A x \in DOMAIN seed \ {"main"} : seed'[x] = seed[x]
  BY DEF Shape
<1>2. /\ DOMAIN seed'.main = DOMAIN seed.main \union {p}
      /\ seed'.main[p] = source.main[p]
      /\ \A q \in DOMAIN seed.main : seed'.main[q] = seed.main[q]
  BY <1>1
<1>3. Shape' /\ Quiet'
  BY <1>1, <1>2 DEF Shape, Quiet
<1>4. CopyFits'
  BY <1>1, <1>2 DEF Shape, CopyFits, SourceView, CopyIsCommitted
<1>5. TimesFit' /\ RowsFit' /\ TimesTellTheTruth'
  BY <1>1 DEF Shape, TimesFit, RowsFit, TimesTellTheTruth, CopyFits
<1> QED
  BY <1>3, <1>4, <1>5

LEMMA BeginLogOK == ASSUME Inv, BeginLog, UNCHANGED watchVars  PROVE  Inv'
<1> USE DEF Inv, BeginLog, checkoutVars, watchVars
<1>1. /\ DOMAIN seed' = DOMAIN seed /\ seed'.at = "log"
      /\ \A x \in DOMAIN seed \ {"at"} : seed'[x] = seed[x]
  BY DEF Shape
<1>2. Shape' /\ Quiet'
  BY <1>1 DEF Shape, Quiet
<1>3. CopyFits'
  BY <1>1 DEF Shape, CopyFits, SourceView, CopyIsCommitted
<1>4. TimesFit' /\ RowsFit' /\ TimesTellTheTruth'
  BY <1>1 DEF Shape, TimesFit, RowsFit, TimesTellTheTruth
<1> QED
  BY <1>2, <1>3, <1>4

(* A row of the copy has no time of this worktree.                         *)
LEMMA CopiedOK ==
  ASSUME Inv, NEW pages, NEW failed, Copied(pages, failed), UNCHANGED watchVars,
         seed.at \in {"copy", "log"},
         seed.reset \/ "log" \in failed \/ pages = SourceView
  PROVE  Inv'
<1> USE DEF Inv, Copied, watchVars
<1>1. /\ DOMAIN seed' = DOMAIN seed
      /\ seed'.at = "stamp" /\ seed'.main = <<>>
      /\ seed'.copy = pages /\ seed'.failed = seed.failed \union failed
      /\ seed'.reset = seed.reset /\ seed'.changed = seed.changed
      /\ seed'.aligned = seed.aligned
      /\ DOMAIN source' = DOMAIN source /\ source'.states = source.states
  BY DEF Shape
<1>2. /\ DOMAIN db' = DOMAIN db /\ DOMAIN db'.rows = Files
      /\ \A f \in Files :
           /\ DOMAIN db'.rows[f] = {"content", "time"}
           /\ \/ db'.rows[f] = NoRow /\ db'.rows[f].time = -1
              \/ db'.rows[f].content = seed'.copy[f] /\ db'.rows[f].time = 0
  BY <1>1 DEF Shape, Opened, NoRow, Elsewhere
<1>3. DOMAIN <<>> = {}
  OBVIOUS
<1>4. Shape'
  BY <1>1, <1>2, <1>3 DEF Shape
<1>5. Quiet'
  BY <1>1 DEF Quiet
<1>6. CopyFits'
  BY <1>1 DEF CopyFits, CopyIsCommitted
<1>7. TimesFit'
  BY <1>2 DEF TimesFit, Shape
<1>8. RowsFit'
  BY <1>1, <1>2 DEF RowsFit
<1>9. TimesTellTheTruth'
  BY <1>2 DEF TimesTellTheTruth, Shape
<1> QED
  BY <1>4, <1>5, <1>6, <1>7, <1>8, <1>9

(* Unless the log has begun anew, its copy over the pages that were copied *)
(* is what a reader of the source sees.                                    *)
LEMMA CopyLogOK == ASSUME Inv, CopyLog, UNCHANGED watchVars  PROVE  Inv'
<1>1. PICK log \in IF seed.torn = {} THEN {source.log} ELSE seed.torn :
        Copied(Over(seed.main, log), {})
  BY DEF CopyLog
<1>2. seed.at = "log"
  BY DEF CopyLog
<1>3. ~seed.reset => Over(seed.main, log) = SourceView
  <2> HAVE ~seed.reset
  <2>1. log = source.log
    BY <1>2 DEF Inv, CopyFits
  <2>2. DOMAIN seed.main = Pages /\ DOMAIN source.main = Pages
    BY <1>2 DEF Inv, CopyFits, Shape
  <2>3. \A p \in Pages : source.log[p] = <<>> => seed.main[p] = source.main[p]
    BY <1>2, <2>2 DEF Inv, CopyFits
  <2> QED
    BY <2>1, <2>2, <2>3 DEF Over, SourceView
<1> QED
  BY <1>1, <1>2, <1>3, CopiedOK

(* If there is no log, and it has not begun anew, the pages that were      *)
(* copied are the source's.                                                *)
LEMMA SkipLogOK == ASSUME Inv, SkipLog, UNCHANGED watchVars  PROVE  Inv'
<1>1. /\ seed.at = "copy" /\ DOMAIN seed.main = Pages
      /\ source.log = NoLog /\ Copied(Over(seed.main, NoLog), {})
  BY DEF SkipLog
<1>2. ~seed.reset => Over(seed.main, NoLog) = SourceView
  <2> HAVE ~seed.reset
  <2>1. DOMAIN source.main = Pages
    BY <1>1 DEF Inv, Shape
  <2>2. \A p \in Pages : seed.main[p] = source.main[p]
    BY <1>1 DEF Inv, CopyFits, NoLog
  <2> QED
    BY <1>1, <2>1, <2>2 DEF Over, SourceView, NoLog
<1> QED
  BY <1>1, <1>2, CopiedOK

LEMMA FailLogOK == ASSUME Inv, FailLog, UNCHANGED watchVars  PROVE  Inv'
  BY CopiedOK DEF FailLog

(* Stamping writes neither rows nor times.                                 *)
LEMMA StampOK == ASSUME Inv, Stamp, UNCHANGED watchVars  PROVE  Inv'
<1> USE DEF Inv, Stamp, watchVars
<1>1. Shape' /\ Quiet'
  BY DEF Shape, Quiet
<1>2. CopyFits' /\ TimesFit' /\ RowsFit'
  BY DEF Shape, CopyFits, SourceView, CopyIsCommitted, TimesFit, RowsFit
<1>3. TimesTellTheTruth'
  BY DEF Shape, TimesTellTheTruth, RowsFit
<1> QED
  BY <1>1, <1>2, <1>3

(* What git does not name is as in the commit it was asked about.          *)
LEMMA DiffOK == ASSUME Inv, Diff, UNCHANGED watchVars  PROVE  Inv'
<1> USE DEF Inv, watchVars
<1>1. PICK answer \in SUBSET ChangedSince(seed.base) :
        seed' = [seed EXCEPT !.at = "align", !.changed = Named(answer),
                   !.seen = [f \in Files |-> disk[f].time],
                   !.failed = IF answer = ChangedSince(seed.base) THEN @
                              ELSE @ \union {"git"}]
  BY DEF Diff
<1>2. seed.at = "diff" /\ UNCHANGED <<source, disk, head, db, run>>
  BY DEF Diff
<1>3. /\ DOMAIN seed' = DOMAIN seed
      /\ seed'.at = "align"
      /\ seed'.changed = Named(answer)
      /\ seed'.seen = [f \in Files |-> disk[f].time]
      /\ seed.failed \subseteq seed'.failed
      /\ seed'.main = seed.main /\ seed'.reset = seed.reset
      /\ seed'.base = seed.base /\ seed'.copy = seed.copy
      /\ seed'.aligned = seed.aligned
  BY <1>1 DEF Shape
<1>4. "git" \notin seed'.failed => answer = ChangedSince(seed.base)
  BY <1>1 DEF Shape
<1>5. seed.base # NoCommit => \A f \in Files \ ChangedSince(seed.base) :
        disk[f].content = Content[seed.base][f]
  BY DEF ChangedSince, Dirty
<1>6. Shape' /\ Quiet' /\ TimesFit'
  <2>1. ChangedSince(seed.base) \subseteq Files
    BY DEF ChangedSince, Dirty, Untracked
  <2>2. seed'.changed \subseteq Files
    BY <1>3, <2>1 DEF Named
  <2> QED
    BY <1>2, <1>3, <2>2 DEF Shape, Quiet, TimesFit
<1>7. CopyFits'
  BY <1>2, <1>3 DEF CopyFits, CopyIsCommitted
<1>8. RowsFit'
  <2>1. \A f \in Files : seed'.seen[f] \in Nat /\ seed'.seen[f] <= disk[f].time
    <3>1. \A f \in Files : seed'.seen[f] = disk[f].time
      BY <1>3
    <3> QED
      BY <3>1 DEF Shape
  <2>2. seed'.base # NoCommit /\ "git" \notin seed'.failed =>
          \A f \in Files \ (seed'.changed \union Quoted) :
            disk[f].content = Content[seed'.base][f]
    BY <1>3, <1>4, <1>5 DEF Named
  <2> QED
    BY <1>2, <1>3, <2>1, <2>2 DEF RowsFit
<1>9. TimesTellTheTruth'
  BY <1>2, <1>3 DEF TimesTellTheTruth, RowsFit
<1> QED
  BY <1>6, <1>7, <1>8, <1>9

(* A row gets the time of its file: here it may come to lie, and only for  *)
(* the reasons that TimesTellTheTruth admits.                              *)
LEMMA AlignOK == ASSUME Inv, Align, UNCHANGED watchVars  PROVE  Inv'
<1> USE DEF Inv, Align, watchVars
<1>1. /\ DOMAIN seed' = DOMAIN seed
      /\ seed'.at = "index"
      /\ seed'.aligned = [f \in Files |-> IF Aligned(f) THEN disk[f].time ELSE -1]
      /\ \A x \in DOMAIN seed \ {"at", "aligned"} : seed'[x] = seed[x]
  BY DEF Shape
<1>2. /\ DOMAIN db' = DOMAIN db
      /\ db'.rows = [f \in Files |-> IF Aligned(f)
                      THEN [db.rows[f] EXCEPT !.time = disk[f].time] ELSE db.rows[f]]
  BY DEF Shape
<1>3. \A f \in Files : /\ db'.rows[f].time \in Int
                       /\ db'.rows[f].time <= disk[f].time
  BY <1>2 DEF Shape, TimesFit
<1>4. Shape' /\ Quiet' /\ TimesFit'
  BY <1>1, <1>2, <1>3 DEF Shape, Quiet, TimesFit
<1>5. CopyFits' /\ RowsFit'
  BY <1>1 DEF Shape, CopyFits, SourceView, CopyIsCommitted, RowsFit
<1>6. ASSUME NEW f \in Files, Aligned(f), seed.seen[f] = disk[f].time,
             seed.base # NoCommit, seed.copy[f] = Content[seed.base][f],
             "git" \notin seed.failed, f \notin Quoted
      PROVE  db.rows[f].content = disk[f].content
  BY <1>6 DEF Aligned, RowsFit
<1>7. TimesTellTheTruth'
  <2> SUFFICES ASSUME NEW f \in Files, db'.rows[f].time = disk[f].time,
                      db'.rows[f].content # disk[f].content
               PROVE  /\ seed'.aligned # <<>> /\ db'.rows[f].time = seed'.aligned[f]
                      /\ \/ seed'.aligned[f] # seed'.seen[f]
                         \/ seed'.base = NoCommit
                         \/ seed'.copy[f] # Content[seed'.base][f]
                         \/ "git" \in seed'.failed
                         \/ f \in Quoted
    BY DEF TimesTellTheTruth
  <2>1. CASE Aligned(f)
    <3>1. seed'.aligned # <<>> /\ seed'.aligned[f] = disk[f].time
      <4>1. f \in DOMAIN seed'.aligned
        BY <1>1
      <4>2. DOMAIN <<>> = {}
        OBVIOUS
      <4> QED
        BY <1>1, <2>1, <4>1, <4>2
    <3>2. db'.rows[f].content = db.rows[f].content
      BY <1>2, <2>1 DEF Shape
    <3>3. /\ seed'.seen = seed.seen /\ seed'.base = seed.base /\ seed'.copy = seed.copy
          /\ seed'.failed = seed.failed
      BY <1>1 DEF Shape
    <3> QED
      BY <1>6, <2>1, <3>1, <3>2, <3>3
  <2>2. CASE ~Aligned(f)
    BY <1>2, <2>2 DEF TimesTellTheTruth, RowsFit
  <2> QED
    BY <2>1, <2>2
<1> QED
  BY <1>4, <1>5, <1>7

-----------------------------------------------------------------------------
(* Runs.                                                                   *)

(* The start of a run writes no row; it may end the seeding's part.        *)
LEMMA StartOK ==
  ASSUME Inv, NEW full, NEW paths \in SUBSET Files, Start(full, paths),
         UNCHANGED <<disk, source, watch>>, queue'.paths \subseteq Files,
         \/ seed' = seed /\ seed.at \in {"none", "done"}
         \/ /\ seed.at = "index" /\ queue' = queue
            /\ seed' = [seed EXCEPT !.at = "indexing"]
  PROVE  Inv'
<1> USE DEF Inv, Start
<1>1. /\ DOMAIN seed' = DOMAIN seed
      /\ seed'.at \in {"none", "done", "indexing"}
      /\ seed'.at = "indexing" => seed.at = "index" /\ queue' = queue
      /\ seed.at \notin {"copy", "log"}
      /\ \A x \in DOMAIN seed \ {"at"} : seed'[x] = seed[x]
  BY DEF Shape
<1>2. DOMAIN db' = DOMAIN db /\ db'.rows = db.rows
  BY DEF Shape
<1>3. Shape'
  BY <1>1, <1>2 DEF Shape
<1>4. Quiet'
  BY <1>1 DEF Shape, Quiet
<1>5. CopyFits'
  BY <1>1 DEF Shape, CopyFits, SourceView, CopyIsCommitted
<1>6. TimesFit'
  BY <1>2 DEF TimesFit
<1>7. RowsFit'
  BY <1>1 DEF RowsFit
<1>8. TimesTellTheTruth'
  <2>1. /\ seed'.aligned = seed.aligned /\ seed'.seen = seed.seen
        /\ seed'.base = seed.base /\ seed'.copy = seed.copy
        /\ seed'.failed = seed.failed
    BY <1>1 DEF Shape
  <2> QED
    BY <1>2, <2>1 DEF TimesTellTheTruth
<1> QED
  BY <1>3, <1>4, <1>5, <1>6, <1>7, <1>8

(* A run between two of its steps: it writes rows only when nobody seeds.  *)
LEMMA RunStepOK ==
  ASSUME Inv, RunStep \/ Fail, UNCHANGED <<seedVars, watchVars>>
  PROVE  Inv'
<1> USE DEF Inv, seedVars, watchVars
<1>1. seed.at \notin {"copy", "log", "stamp", "diff", "align", "index"}
  BY DEF RunStep, Fail, Scan, Persist, Finish, Quiet
<1>2. Quiet' /\ CopyFits' /\ RowsFit'
  BY <1>1 DEF Quiet, CopyFits, SourceView, CopyIsCommitted, RowsFit
<1>3. CASE Scan
  <2>1. PICK gone \in SUBSET Files, stale \in SUBSET Files :
          /\ db' = [db EXCEPT !.rows = [f \in Files |-> IF f \in gone THEN NoRow ELSE @[f]]]
          /\ run' = [at |-> "persist", full |-> run.full, paths |-> run.paths,
                     list |-> [f \in stale |-> disk[f].time]]
          /\ UNCHANGED disk
    <3> DEFINE gone  == {f \in Looked : disk[f].content = 0}
               stale == {f \in Looked \ gone :
                           \/ db.rows[f] = NoRow
                           \/ /\ db.rows[f].time # disk[f].time
                              /\ db.rows[f].content # disk[f].content}
    <3>1. Looked \subseteq Files
      BY <1>3 DEF Scan, Looked, Shape
    <3>2. gone \in SUBSET Files /\ stale \in SUBSET Files
      BY <3>1
    <3>3. /\ db' = [db EXCEPT !.rows = [f \in Files |-> IF f \in gone THEN NoRow ELSE @[f]]]
          /\ run' = [at |-> "persist", full |-> run.full, paths |-> run.paths,
                     list |-> [f \in stale |-> disk[f].time]]
          /\ UNCHANGED disk
      BY <1>3 DEF Scan
    <3> HIDE DEF gone, stale
    <3> QED
      BY <3>2, <3>3
  <2>2. /\ DOMAIN db' = DOMAIN db
        /\ db'.rows = [f \in Files |-> IF f \in gone THEN NoRow ELSE db.rows[f]]
    BY <2>1 DEF Shape
  <2>3. DOMAIN NoRow = {"content", "time"} /\ NoRow.time = -1
    BY DEF NoRow
  <2>4. \A f \in Files : \/ db'.rows[f] = db.rows[f]
                         \/ db'.rows[f] = NoRow
    BY <2>2
  <2>5. Shape'
    <3>1. run.paths \subseteq Files
      BY <1>3 DEF Scan, Shape
    <3>2. \A f \in Files : /\ DOMAIN db'.rows[f] = {"content", "time"}
                           /\ db'.rows[f].time \in Int
      BY <2>3, <2>4 DEF Shape
    <3>3. /\ DOMAIN run'.list \subseteq Files
          /\ \A f \in DOMAIN run'.list : run'.list[f] \in Nat
      BY <2>1 DEF Shape
    <3> QED
      BY <2>1, <2>2, <3>1, <3>2, <3>3 DEF Shape
  <2>6. TimesFit'
    BY <2>1, <2>3, <2>4 DEF TimesFit, Shape
  <2>7. TimesTellTheTruth'
    BY <2>1, <2>3, <2>4 DEF TimesTellTheTruth, Shape
  <2> QED
    BY <1>2, <2>5, <2>6, <2>7
<1>4. ASSUME NEW f \in Files, Persist(f)  PROVE  Inv'
  <2>1. /\ DOMAIN db' = DOMAIN db
        /\ db'.rows = [db.rows EXCEPT ![f] = [content |-> disk[f].content,
                                              time |-> run.list[f]]]
    BY <1>4 DEF Persist, Shape
  <2>2. /\ run'.at = "persist" /\ DOMAIN run' = DOMAIN run
        /\ run'.list = [g \in DOMAIN run.list \ {f} |-> run.list[g]]
    BY <1>4 DEF Persist, Shape
  <2>3. \A g \in Files :
          \/ db'.rows[g] = db.rows[g]
          \/ /\ db'.rows[g].content = disk[g].content
             /\ db'.rows[g].time = run.list[g] /\ g \in DOMAIN run.list
             /\ DOMAIN db'.rows[g] = {"content", "time"}
    BY <1>4, <2>1 DEF Persist, Shape
  <2>4. Shape'
    BY <1>4, <2>1, <2>2, <2>3 DEF Persist, Shape
  <2>5. TimesFit'
    BY <1>4, <2>2, <2>3 DEF Persist, TimesFit, Shape
  <2>6. TimesTellTheTruth'
    BY <1>4, <2>3 DEF Persist, TimesTellTheTruth
  <2> QED
    BY <1>2, <2>4, <2>5, <2>6
<1>5. CASE Finish \/ Fail
  <2>1. /\ DOMAIN db' = DOMAIN db /\ db'.rows = db.rows
        /\ run'.at = "idle" /\ disk' = disk
    <3>1. CASE Finish
      BY <3>1 DEF Finish, Idle, Shape
    <3>2. CASE Fail
      BY <3>2 DEF Fail, Idle
    <3> QED
      BY <1>5, <3>1, <3>2
  <2> QED
    BY <1>2, <2>1 DEF Shape, TimesFit, TimesTellTheTruth
<1> QED
  BY <1>3, <1>4, <1>5 DEF RunStep

(* The seeding ends, by itself or with its process.                        *)
LEMMA SeededOK ==
  ASSUME Inv, Seeded \/ SeedDies, UNCHANGED watchVars
  PROVE  Inv'
<1> USE DEF Inv, watchVars
<1>1. /\ DOMAIN seed' = DOMAIN seed /\ seed'.at = "done"
      /\ \A x \in DOMAIN seed \ {"at"} : seed'[x] = seed[x]
      /\ UNCHANGED <<source, disk, db>>
      /\ run' = run \/ run'.at = "idle"
  BY DEF Seeded, SeedDies, Shape, checkoutVars, Idle
<1>2. Shape'
  BY <1>1 DEF Shape
<1>3. Quiet' /\ RowsFit' /\ TimesFit'
  BY <1>1 DEF Quiet, RowsFit, TimesFit
<1>4. CopyFits'
  BY <1>1 DEF Shape, CopyFits, SourceView, CopyIsCommitted
<1>5. TimesTellTheTruth'
  BY <1>1 DEF Shape, TimesTellTheTruth
<1> QED
  BY <1>2, <1>3, <1>4, <1>5

LEMMA SeedStepOK == ASSUME Inv, SeedStep, UNCHANGED watchVars  PROVE  Inv'
<1>1. ASSUME Index  PROVE  Inv'
  BY <1>1, StartOK DEF Index, watchVars, Inv, Shape
<1> QED
  BY <1>1, CopyPageOK, BeginLogOK, SkipLogOK, CopyLogOK, StampOK, DiffOK, AlignOK, SeededOK DEF SeedStep

-----------------------------------------------------------------------------
(* The user, git and the watch thread.                                     *)

(* A change gives its file a time that no row has.                         *)
LEMMA ChangeOK ==
  ASSUME Inv, NEW f \in Files, NEW c, Change(f, c),
         UNCHANGED <<db, run, seedVars, queue>>
  PROVE  Inv'
<1> USE DEF Inv, seedVars
<1>1. /\ DOMAIN disk' = Files
      /\ \A g \in Files :
           \/ disk'[g] = disk[g]
           \/ disk'[g].time \in Nat /\ disk'[g].time = disk[g].time + 1
  <2>1. disk' = [disk EXCEPT ![f] = [content |-> c, time |-> disk[f].time + 1]]
    BY DEF Change
  <2>2. DOMAIN disk = Files /\ disk[f].time \in Nat
    BY DEF Shape
  <2>3. \A g \in Files \ {f} : disk'[g] = disk[g]
    BY <2>1, <2>2
  <2>4. disk'[f].time \in Nat /\ disk'[f].time = disk[f].time + 1
    BY <2>1, <2>2
  <2>5. DOMAIN disk' = Files
    BY <2>1, <2>2
  <2> QED
    BY <2>3, <2>4, <2>5
<1> watch' = watch \/ watch' = [watch EXCEPT !.events = @ \union {f}]
  BY DEF Change
<1>2. Shape' /\ Quiet'
  BY <1>1 DEF Shape, Quiet
<1>3. CopyFits'
  BY DEF CopyFits, SourceView, CopyIsCommitted
<1>4. TimesFit'
  BY <1>1 DEF Shape, TimesFit
<1>5. RowsFit'
  <2>1. \A g \in Files \ seed.changed :
          seed.at = "align" /\ disk'[g].time = seed.seen[g] => disk'[g] = disk[g]
    BY <1>1 DEF Shape, RowsFit
  <2>2. seed.at = "align" => \A g \in Files : seed.seen[g] <= disk'[g].time
    BY <1>1 DEF Shape, RowsFit
  <2> QED
    BY <2>1, <2>2 DEF RowsFit
<1>6. TimesTellTheTruth'
  BY <1>1 DEF Shape, TimesFit, TimesTellTheTruth
<1> QED
  BY <1>2, <1>3, <1>4, <1>5, <1>6

(* Whatever touches neither files, rows, runs nor seeding.                 *)
LEMMA WatchingOK ==
  ASSUME Inv, UNCHANGED <<disk, db, run, seedVars>>,
         DOMAIN watch' = DOMAIN watch, queue'.paths \subseteq Files,
         watch'.events \subseteq Files \union {Head},
         watch'.pending \subseteq Files \union {Head},
         seed.at \in {"none", "done"} \/ (watch'.at = "off" /\ queue' = NoQueue)
  PROVE  Inv'
  BY DEF Inv, seedVars, Shape, Quiet, CopyFits, SourceView, CopyIsCommitted, TimesFit,
         RowsFit, TimesTellTheTruth

LEMMA UserOK ==
  ASSUME Inv,
         \/ \E f \in Files : SwitchFile(f) \/ \E c \in Contents : Edit(f, c)
         \/ \E c \in Commits : SwitchTo(c)
         \/ SwitchHead
  PROVE  Inv'
<1>1. ASSUME NEW f \in Files, SwitchFile(f) \/ \E c \in Contents : Edit(f, c)
      PROVE  Inv'
  BY <1>1, ChangeOK DEF SwitchFile, Edit
<1>2. ASSUME NEW c \in Commits, SwitchTo(c)  PROVE  Inv'
  BY <1>2, WatchingOK DEF SwitchTo, Inv, Shape, Quiet
<1>3. CASE SwitchHead
  <2>1. watch' = watch \/ watch' = [watch EXCEPT !.events = @ \union {Head}]
    BY <1>3 DEF SwitchHead
  <2> QED
    BY <1>3, <2>1, WatchingOK DEF SwitchHead, Inv, Shape, Quiet
<1> QED
  BY <1>1, <1>2, <1>3

(* What the callback asks for are files.                                   *)
LEMMA WantedType ==
  ASSUME NEW batch \in SUBSET (Files \union {Head}), NEW new,
         NEW heads \in SUBSET Files, NEW dirty \in SUBSET Files
  PROVE  Wanted(batch, new, heads, dirty).paths \subseteq Files
  BY DEF Wanted, Named

LEMMA AskType ==
  ASSUME NEW full, NEW paths \in SUBSET Files, Ask(full, paths), queue.paths \subseteq Files
  PROVE  queue'.paths \subseteq Files
  BY DEF Ask

LEMMA CallbackOK ==
  ASSUME Inv, watch.at = "on", NEW batch \in SUBSET (Files \union {Head}), NEW next,
         Callback(batch, next), UNCHANGED <<disk, db, run, seedVars>>,
         DOMAIN next = DOMAIN watch,
         next.events \subseteq Files \union {Head}, next.pending = {}
  PROVE  Inv'
<1>1. queue'.paths \subseteq Files
  <2>1. PICK new \in {head.commit, NoCommit}, heads \in SUBSET HeadPaths(head.commit).heads,
             dirty \in SUBSET HeadPaths(head.commit).dirty :
          Ask(Wanted(batch, new, heads, dirty).full, Wanted(batch, new, heads, dirty).paths)
    BY DEF Callback
  <2>2. heads \subseteq Files /\ dirty \subseteq Files
    BY DEF HeadPaths, Differ, Dirty
  <2>3. Wanted(batch, new, heads, dirty).paths \subseteq Files
    BY <2>2, WantedType
  <2> QED
    BY <2>1, <2>3, AskType DEF Inv, Shape
<1>2. /\ DOMAIN watch' = DOMAIN watch
      /\ watch'.events = next.events /\ watch'.pending = next.pending
  BY DEF Callback, Inv, Shape
<1>3. seed.at \in {"none", "done"}
  BY DEF Inv, Quiet
<1> QED
  BY <1>1, <1>2, <1>3, WatchingOK

LEMMA WatchOK ==
  ASSUME Inv, Serve \/ WatchStep \/ Overflow \/ WatchFails
  PROVE  Inv'
<1>1. CASE Serve
  <2>1. /\ \E c : watch' = [watch EXCEPT !.at = "starting", !.lastHead = c]
        /\ seed.at \in {"none", "done"}
    BY <1>1 DEF Serve
  <2>2. queue'.paths \subseteq Files
    BY <1>1, AskType DEF Serve, Inv, Shape
  <2> QED
    BY <1>1, <2>1, <2>2, WatchingOK DEF Serve, Inv, Shape
<1>2. CASE PollFiles
  <2> DEFINE batch == watch.pending \union ChangedFiles(watch.known, disk)
             next  == [watch EXCEPT !.walking = FALSE, !.known = disk, !.pending = {},
                                    !.events = {}]
  <2>1. /\ UNCHANGED <<disk, db, run, seedVars>> /\ watch.at = "on"
        /\ (watch' = next /\ UNCHANGED queue) \/ Callback(batch, next)
    BY <1>2 DEF PollFiles, Polling
  <2>2. DOMAIN next = DOMAIN watch /\ next.pending = {} /\ next.events = {}
    BY DEF Inv, Shape
  <2>3. batch \subseteq Files \union {Head}
    BY DEF Inv, Shape, ChangedFiles
  <2>4. seed.at \in {"none", "done"}
    BY <2>1 DEF Inv, Quiet
  <2> HIDE DEF batch, next
  <2>5. CASE watch' = next /\ UNCHANGED queue
    BY <2>1, <2>2, <2>4, <2>5, WatchingOK DEF Inv, Shape
  <2> QED
    BY <2>1, <2>2, <2>3, <2>5, CallbackOK
<1>3. CASE Flush
  <2>1. /\ watch.at = "on" /\ Callback(watch.pending, [watch EXCEPT !.pending = {}])
        /\ UNCHANGED <<disk, db, run, seedVars>>
    BY <1>3 DEF Flush, Notified
  <2> DEFINE next == [watch EXCEPT !.pending = {}]
  <2>2. /\ DOMAIN next = DOMAIN watch /\ next.pending = {}
        /\ next.events = watch.events
    BY DEF Inv, Shape
  <2>3. /\ watch.pending \subseteq Files \union {Head}
        /\ watch.events \subseteq Files \union {Head}
    BY DEF Inv, Shape
  <2>4. Callback(watch.pending, next)
    BY <2>1
  <2> HIDE DEF next
  <2> QED
    BY <2>1, <2>2, <2>3, <2>4, CallbackOK
<1>4. CASE Baseline
  BY <1>4, WatchingOK DEF Baseline, checkoutVars, Inv, Shape, Quiet
<1>5. CASE PollHead
  BY <1>5, WatchingOK DEF PollHead, Polling, checkoutVars, Inv, Shape, Quiet
<1>6. CASE Read
  BY <1>6, WatchingOK DEF Read, Notified, checkoutVars, Inv, Shape, Quiet
<1>7. CASE Overflow
  BY <1>7, WatchingOK DEF Overflow, Notified, Inv, Shape, Quiet
<1>8. CASE ReadOverflow
  BY <1>8, WatchingOK DEF ReadOverflow, Notified, checkoutVars, Inv, Shape, Quiet
<1>9. CASE WatchFails
  BY <1>9, WatchingOK DEF WatchFails, Notified, Inv, Shape, Quiet
<1> QED
  BY <1>1, <1>2, <1>3, <1>4, <1>5, <1>6, <1>7, <1>8, <1>9 DEF WatchStep

LEMMA StepInv == Inv /\ [Next]_vars => Inv'
<1> SUFFICES ASSUME Inv, [Next]_vars  PROVE  Inv'
  OBVIOUS
<1>1. CASE Seeding
  BY <1>1, SourceStepOK, SeedStepOK, FailLogOK, SeededOK DEF Seeding
<1>2. CASE Indexer
  BY <1>2, RunStepOK DEF Indexer
<1>3. CASE Reindex
  <2>1. seed.at \in {"none", "done"} /\ queue.paths \subseteq Files
    BY <1>3 DEF Reindex, Inv, Quiet, Shape
  <2>2. queue' = NoQueue /\ queue'.paths \subseteq Files
    BY <1>3 DEF Reindex, NoQueue
  <2> QED
    BY <1>3, <2>1, <2>2, StartOK DEF Reindex, seedVars
<1>4. CASE UNCHANGED vars
  BY <1>4, WatchingOK DEF vars, checkoutVars, watchVars, Inv, Shape, Quiet
<1> QED
  BY <1>1, <1>2, <1>3, <1>4, UserOK, WatchOK DEF Next

(* Every reachable state of the watcher, the seeding of a worktree and its *)
(* source satisfies the invariant above.                                   *)
THEOREM Invariance == Spec => []Inv
  BY InitInv, StepInv, PTL DEF Spec

-----------------------------------------------------------------------------
(* Theorems.                                                               *)

(* The copy of a live database is a committed state of it, unless its log  *)
(* began anew in between, or could not be copied.                          *)
THEOREM CopiesAreCommitted == Spec => []CopyIsCommitted
<1>1. Inv => CopyIsCommitted
  BY DEF Inv, CopyFits
<1> QED
  BY <1>1, Invariance, PTL

(* Only alignment can give a row the time of a file whose content it has   *)
(* not, and only for a commit that was not indexed, a file that changed    *)
(* behind it, a git that failed, or a file whose name git quotes.          *)
THEOREM TimesAreTruthful == Spec => []TimesTellTheTruth
<1>1. Inv => TimesTellTheTruth
  BY DEF Inv
<1> QED
  BY <1>1, Invariance, PTL
=============================================================================
