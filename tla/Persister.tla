------------------------------ MODULE Persister ------------------------------
(***************************************************************************)
(* What index runs and workspace commands do to the graph of one database: *)
(* run_index() in src/src/cli/cmd_index.cpp with Persister and             *)
(* ChangeDetector, seen as the transactions they commit, and the crashes   *)
(* and recoveries between them.  The tables and what a transaction does to *)
(* them are GraphTables' subject; which files the supervisor skips after a *)
(* crash is Supervisor's, and is taken from there for one parser thread.   *)
(*                                                                         *)
(* Runs hold the database's lock, so there is one at a time; workspace     *)
(* commands need the same lock.  The database knows its owner.             *)
(***************************************************************************)
EXTENDS GraphTables

CONSTANTS
  BatchSize,   \* config.batch_size
  Modes,       \* the kinds of runs that are asked for
  MaxEdits,    \* how often a file on disk changes (bound)
  MaxFaults,   \* how often a process is killed (bound)
  MaxCommands, \* how often a workspace command or a trace comes (bound)
  Traces       \* the calls that are observed at run time

ASSUME RunAssumption ==
  /\ BatchSize \in Nat \ {0}
  /\ Modes \subseteq {"full", "targeted", "force"}
  /\ {MaxEdits, MaxFaults, MaxCommands} \subseteq Nat

VARIABLES
  disk,       \* the version of each file, NoRow where there is none
  db,         \* the committed database
  tx,         \* the database as the open transaction sees it
  meta,       \* index_state
  quarantine, \* the quarantine table
  worklist,   \* the work list file
  progress,   \* the progress file
  child,      \* the index run
  left        \* what is left of the bounds

files == <<worklist, progress>>
vars  == <<disk, db, tx, meta, quarantine, files, child, left>>

Own    == Owned(Primary)
Window == 3        \* suspects of a crash: config.thread_count + 2

NoList == {}
NoFile == 0
Text   == -1       \* a progress file that names no file

(* batch: files in the open transaction; pending: edges to insert.         *)
NoChild == [at |-> "none", mode |-> "full", targets |-> {}, resume |-> FALSE,
            gone |-> {}, work |-> {}, left |-> {}, batch |-> 0, pending |-> {}]

Init ==
  /\ disk = [p \in Paths |-> 1]
  /\ db = EmptyDb /\ tx = EmptyDb
  /\ meta = "none"
  /\ quarantine = {}
  /\ worklist = NoList /\ progress = NoFile
  /\ child = NoChild
  /\ left = [edits |-> MaxEdits, faults |-> MaxFaults, commands |-> MaxCommands]

Idle == child.at = "none"

At(from, to) == child.at = from /\ child' = [child EXCEPT !.at = to]

Commit(new) == db' = new /\ tx' = new

-----------------------------------------------------------------------------
(* The index run.                                                          *)

(* A run is asked for; targeted ones need an index to start from.          *)
Begin(mode, targets) ==
  /\ Idle /\ mode \in Modes
  /\ (mode = "targeted") = (targets # {})
  /\ mode = "targeted" => meta # "none"
  /\ child' = [NoChild EXCEPT !.at = "load", !.mode = mode, !.targets = targets]
  /\ meta' = "indexing"
  /\ progress' = NoFile
  /\ UNCHANGED <<disk, db, tx, quarantine, worklist, left>>

(* --resume with files left in the saved list skips the scan.              *)
Resume ==
  /\ child.at = "load" /\ child.resume /\ worklist \ quarantine # {}
  /\ child' = [child EXCEPT !.at = "index", !.work = worklist \ quarantine,
                            !.left = worklist \ quarantine]
  /\ UNCHANGED <<disk, db, tx, meta, quarantine, files, left>>

(* ChangeDetector: a run looks at all files or at the ones it was given.   *)
(* A file given to a targeted run that does not exist counts as deleted.   *)
Scanned == {p \in IF child.mode = "targeted" THEN child.targets ELSE Own : disk[p] # NoRow}
Changed == {p \in Scanned : child.mode = "force" \/ db.rows[p] # disk[p]}
Deleted == IF child.mode = "targeted" THEN child.targets \ Scanned
           ELSE {p \in Own \ Scanned : db.rows[p] # NoRow}

Scan ==
  /\ child.at = "load" /\ ~(child.resume /\ worklist \ quarantine # {})
  /\ child' = [child EXCEPT !.at = "prune", !.work = Changed \ quarantine,
                            !.gone = IF child.mode = "force" THEN {} ELSE Deleted]
  /\ progress' = Text
  /\ UNCHANGED <<disk, db, tx, meta, quarantine, worklist, left>>

(* prune_deleted(): a transaction for each path.                           *)
Prune(p) ==
  /\ child.at = "prune" /\ p \in child.gone
  /\ child' = [child EXCEPT !.gone = @ \ {p}]
  /\ Commit(PruneFile(db, p))
  /\ UNCHANGED <<disk, meta, quarantine, files, left>>

(* --force empties the index; a run without files to index goes straight   *)
(* to its metadata and does not resolve.                                   *)
Save ==
  /\ child.at = "prune" /\ child.gone = {}
  /\ child' = [child EXCEPT !.at = IF child.work = {} THEN "metadata" ELSE "index",
                            !.left = child.work]
  /\ Commit(IF child.mode = "force" THEN ClearForForce(db) ELSE db)
  /\ worklist' = IF child.work = {} THEN worklist ELSE child.work
  /\ UNCHANGED <<disk, meta, quarantine, progress, left>>

Smallest(S) == CHOOSE p \in S : \A q \in S : p <= q

(* A resumed run with a short list commits every file.                     *)
EffectiveBatch == IF child.resume THEN 1 ELSE BatchSize

(* One file: its rows are written in the open transaction, which is        *)
(* committed when the batch is full.  The progress file then names it, as  *)
(* it does every so often without a commit.  A file that has vanished      *)
(* since the scan is skipped.                                              *)
Persist ==
  LET p    == Smallest(child.left)
      new  == IF disk[p] = NoRow THEN tx ELSE PersistFile(tx, p, disk[p])
      full == disk[p] # NoRow /\ child.batch + 1 >= EffectiveBatch IN
  /\ child.at = "index" /\ child.left # {}
  /\ child' = [child EXCEPT !.left = @ \ {p}, !.batch = IF full THEN 0 ELSE @ + 1]
  /\ tx' = new
  /\ db' = IF full THEN new ELSE db
  /\ progress' \in IF full THEN {p} ELSE {progress, p}
  /\ UNCHANGED <<disk, meta, quarantine, worklist, left>>

(* The last commit; only full runs repair.                                 *)
CommitRest ==
  /\ child.left = {}
  /\ At("index", IF child.mode = "targeted" THEN "bind" ELSE "repair")
  /\ Commit(tx)
  /\ progress' \in {progress, Text}
  /\ UNCHANGED <<disk, meta, quarantine, worklist, left>>

Repair ==
  /\ At("repair", "bind")
  /\ Commit(RepairEdges(db))
  /\ progress' \in {progress, Text}
  /\ UNCHANGED <<disk, meta, quarantine, worklist, left>>

Affected == IF child.mode = "targeted" THEN Attracted(db, child.work)
            ELSE FullyAffected(db)

(* The resolutions are committed first, the edges after them.              *)
BindRefs ==
  /\ child.at = "bind"
  /\ child' = [child EXCEPT !.at = "insert", !.pending = FoundEdges(db, Affected)]
  /\ Commit(Bind(db, Affected))
  /\ progress' \in {progress, Text}
  /\ UNCHANGED <<disk, meta, quarantine, worklist, left>>

InsertEdges ==
  /\ child.at = "insert"
  /\ child' = [child EXCEPT !.at = "rank", !.pending = {}]
  /\ Commit(InsertMissing(db, child.pending))
  /\ progress' \in {progress, Text}
  /\ UNCHANGED <<disk, meta, quarantine, worklist, left>>

Rank ==
  /\ At("rank", "metadata")
  /\ progress' = Text
  /\ UNCHANGED <<disk, db, tx, meta, quarantine, worklist, left>>

WriteMetadata ==
  /\ child.at = "metadata"
  /\ child' = NoChild
  /\ meta' = "current"
  /\ worklist' = NoList /\ progress' = NoFile
  /\ UNCHANGED <<disk, db, tx, quarantine, left>>

-----------------------------------------------------------------------------
(* Crashes.                                                                *)

Fault ==
  /\ ~Idle /\ left.faults > 0
  /\ left' = [left EXCEPT !.faults = @ - 1]
  /\ tx' = db

UpTo(S, p)     == {q \in S : q <= p}
FirstFew(S)    == {p \in S : Cardinality(UpTo(S, p)) <= Window}

(* The child dies and the supervisor starts another: the files up to the   *)
(* progress mark are done, those behind it suspect and quarantined.        *)
Crash ==
  LET named == progress \in worklist
      done  == IF named THEN UpTo(worklist, progress) ELSE {}
      bad   == IF named \/ progress = NoFile THEN FirstFew(worklist \ done) ELSE {} IN
  /\ Fault
  /\ quarantine' = quarantine \union bad
  /\ worklist' = worklist \ (done \union bad)
  /\ progress' = NoFile
  /\ child' = [NoChild EXCEPT !.at = "load", !.mode = child.mode,
                              !.targets = child.targets, !.resume = TRUE]
  /\ meta' = "indexing"
  /\ UNCHANGED <<disk, db>>

(* The supervisor dies too; the next run finds the files but starts anew.  *)
PowerCut ==
  /\ Fault
  /\ child' = NoChild
  /\ UNCHANGED <<disk, db, meta, quarantine, files>>

-----------------------------------------------------------------------------
(* The others.                                                             *)

Edit(p, v) ==
  /\ left.edits > 0 /\ disk[p] # v
  /\ disk' = [disk EXCEPT ![p] = v]
  /\ left' = [left EXCEPT !.edits = @ - 1]
  /\ UNCHANGED <<db, tx, meta, quarantine, files, child>>

Command(new) ==
  /\ left.commands > 0
  /\ left' = [left EXCEPT !.commands = @ - 1]
  /\ Commit(new)
  /\ UNCHANGED <<disk, meta, quarantine, files, child>>

ExtraRoots == {RootOf[p] : p \in Paths} \ {Primary}

AddRoot(root) == Idle /\ meta # "none" /\ Command(MergeRoot(db, root, disk))

DropRoot(root) == Idle /\ RootNodes(db, root) # {} /\ Command(RemoveRoot(db, root))

(* Traces are written on a connection of their own, between transactions   *)
(* of a run; while files are persisted, the write lock is never free.      *)
Ingest(caller, callee) ==
  /\ child.at # "index"
  /\ {caller, callee} \subseteq Nodes(db)
  /\ Command(Observe(db, caller, callee))

Next ==
  \/ \E mode \in Modes, T \in SUBSET Own : Begin(mode, T)
  \/ Resume \/ Scan \/ (\E p \in Own : Prune(p)) \/ Save \/ Persist \/ CommitRest
  \/ Repair \/ BindRefs \/ InsertEdges \/ Rank \/ WriteMetadata
  \/ Crash \/ PowerCut
  \/ \E p \in Paths, v \in Versions \union {NoRow} : Edit(p, v)
  \/ \E root \in ExtraRoots : AddRoot(root) \/ DropRoot(root)
  \/ \E t \in Traces : Ingest(t[1], t[2])

Spec == Init /\ [][Next]_vars

-----------------------------------------------------------------------------
(* Properties.                                                             *)

(* No edge and no reference names a node that is not there, whatever was   *)
(* deleted by cascade or by hand and wherever a run broke off.             *)
NoDangling ==
  /\ \A e \in db.edges : {e.src, e.dst} \subseteq Nodes(db)
  /\ \A r \in db.refs : {r.in, r.to} \subseteq Nodes(db) \union {NoNode}

(* Does a reference of the file call for this edge?                        *)
Fits(r, k) == IF k.kind = "file" THEN <<Base[k.path]>> = r.name
              ELSE BareName(k.name) = BareName(r.name)

Justified(d, e) ==
  \/ e.kind = "contains"
  \/ \E r \in d.refs : /\ r.path = e.src.path /\ Source(r) = e.src
                       /\ EdgeKind[r.kind] = e.kind /\ Fits(r, e.dst)

(* A relation of an extra root's file with another repository, which a     *)
(* refresh of the root restores although the file may not call for it now. *)
Restored(e) == /\ RootOf[e.src.path] # Primary /\ e.kind # "calls"
               /\ RootOf[e.dst.path] # RootOf[e.src.path]

OneVersion(d, p) ==
  LET now  == Content[p][d.rows[p]]
      rows == SymbolRows(p, now.defs) IN
  /\ Restrict(d.nodes, SymbolsOf(d, p)) = rows
  /\ {[r EXCEPT !.to = NoNode] : r \in {s \in d.refs : s.path = p}} = FileRefs(p, now)
  /\ {e \in d.edges : e.kind = "contains" /\ e.src = FileNode(p)} = Containments(p, now)
  /\ \A e \in d.edges : e.src.path = p /\ e.source = "static" =>
       Justified(d, e) \/ Restored(e)

(* The committed rows of a file are those of one version of it: its        *)
(* symbols, its references, what it contains, and no relation, but those   *)
(* that a refresh restores, that only an earlier version had.              *)
RowsAreOneVersion == \A p \in Paths : db.rows[p] # NoRow => OneVersion(db, p)

(* When a full run has resolved, every resolved reference of the           *)
(* repository has its edge, also one that was resolved by a run that broke *)
(* off between its resolutions and its edges.                              *)
ResolvedHaveEdges ==
  child.at = "rank" /\ child.mode # "targeted" =>
    \A r \in db.refs : RootOf[r.path] = Primary /\ r.to # NoNode => Linked(db, r)

(* A run has written the file of the caller anew, or a root that an end of *)
(* the edge is in is merged again: what was static is deleted and found    *)
(* again, without its observations.                                        *)
Remade(e) ==
  \/ child.at = "index" /\ e.src.path \in child.work
  \/ \E root \in {RootOf[e.src.path], RootOf[e.dst.path]} \ {Primary} : AddRoot(root)

(* What was observed at run time stays, as long as both symbols exist.     *)
(* A call that was known by its observation alone outlives the             *)
(* re-indexing of its files and the refresh of its repository.  Of one     *)
(* that the index had found too, the observations are lost with the        *)
(* static edge when that is made again, and by no other step.              *)
ObservedSurvive ==
  [][\A e \in db.edges :
       e.seen /\ {e.src, e.dst} \subseteq Nodes(db') =>
         e \in db'.edges \/ (e.source = "static" /\ Remade(e))]_vars

(* A call is bound by name, arity and scope: when an index is current, the *)
(* symbol to which a call of the repository is resolved is one that it can *)
(* mean, also after that symbol's own file has changed.                    *)
ResolvedCallsFit ==
  Idle /\ meta = "current" =>
    \A r \in db.refs :
      r.kind = "call" /\ RootOf[r.path] = Primary /\ r.to # NoNode =>
        r.to \in Candidates(db, r)
=============================================================================
