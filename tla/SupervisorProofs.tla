-------------------------- MODULE SupervisorProofs --------------------------
(***************************************************************************)
(* Theorems about Supervisor, for any number of files and threads, any     *)
(* batch size, scenarios and faults: types, quarantine and announcement    *)
(* from one invariant, and from a second one what a run that calls its     *)
(* index current may have lost.                                            *)
(***************************************************************************)
EXTENDS Supervisor, FiniteSetTheorems, TLAPS

(* Lists of files are finite.                                              *)
LEMMA ListsAreFinite == ASSUME NEW S \in SUBSET Files
                        PROVE  IsFiniteSet(S) /\ Cardinality(S) \in Nat
<1>1. IsFiniteSet(Files)
  BY SizeAssumption, FS_Interval DEF Files
<1> QED
  BY <1>1, FS_Subset, FS_CardinalityType

LEMMA RankType == ASSUME NEW S \in SUBSET Files, NEW f
                  PROVE  Rank(S, f) \in Nat
<1>1. {g \in S : g <= f} \in SUBSET Files
  OBVIOUS
<1> QED
  BY <1>1, ListsAreFinite DEF Rank

LEMMA ResumedBatchType == ASSUME NEW n \in Nat
                          PROVE  ResumedBatch(n) \in Nat \ {0}
  BY SizeAssumption DEF ResumedBatch

(* The facts about the scenario that typing needs.                         *)
LEMMA RunType == ASSUME NEW s \in Scenarios
                 PROVE  /\ s.onDisk \subseteq Files
                        /\ s.rows \in [Files -> RowStates]
                        /\ s.quarantine \subseteq Files
                        /\ s.owner \in BOOLEAN /\ s.newHead \in BOOLEAN
                        /\ s.faults \in Nat
  BY ScenarioAssumption

(* A progress mark is only written for a file that has arrived.            *)
Marked == child.at = "mark" => child.written >= 1

(* From its start to its metadata, the child runs under index_state        *)
(* indexing.                                                               *)
Announced ==
  child.at \in {"load", "rehab", "prune", "clear", "save", "index", "mark",
                "search", "resolve", "metadata"} => meta.state = "indexing"

Inv == TypeOK /\ Marked /\ Announced /\ QuarantineHonoured

(* No child, and a child that has exited, are children.                    *)
LEMMA NoChildType ==
  /\ NoChild \in Children /\ NoChild.at = "none" /\ NoChild.written = 0
  /\ Len(NoChild.arrived) = 0 /\ NoChild.arrived = <<>> /\ NoChild.rc = 0
  BY DEF NoChild, Children, ChildSteps

Exited(rc) == [NoChild EXCEPT !.at = "exited", !.rc = rc]

LEMMA ExitedType ==
  ASSUME NEW rc \in {1, CrashCode}
  PROVE  /\ Exited(rc) \in Children /\ Exited(rc).at = "exited"
         /\ Exited(rc).written = 0 /\ Len(Exited(rc).arrived) = 0
  BY NoChildType DEF Children, ChildSteps, Exited

(* What a start, an arrival and a write make of the child's record.        *)
Started(r, w, b) ==
  [NoChild EXCEPT !.at = "open", !.resume = r, !.window = w, !.batchSize = b]

LEMMA StartedType ==
  ASSUME NEW r \in BOOLEAN, NEW w \in Nat, NEW b \in Nat \ {0}
  PROVE  /\ Started(r, w, b) \in Children /\ Started(r, w, b).at = "open"
         /\ Started(r, w, b).written = 0 /\ Len(Started(r, w, b).arrived) = 0
  BY NoChildType DEF Children, ChildSteps, Started

LEMMA ArrivedType ==
  ASSUME NEW c \in Children, NEW a \in Seq(Files)
  PROVE  [c EXCEPT !.arrived = a] \in Children
  BY DEF Children

LEMMA WrittenType ==
  ASSUME NEW c \in Children, NEW n \in Nat, NEW b \in BOOLEAN,
         NEW S \in SUBSET Files
  PROVE  [c EXCEPT !.at = "mark", !.written = n, !.committed = b, !.batch = S]
         \in Children
  BY DEF Children, ChildSteps

LEMMA InitInv == Init => Inv
<1> SUFFICES ASSUME NEW s \in Scenarios, Init, run = s,
                    rows = s.rows, quarantine = s.quarantine, faults = s.faults,
                    meta = [state |-> IF s.owner THEN "current" ELSE "none",
                            owner |-> s.owner, newHead |-> s.newHead]
             PROVE  Inv
  BY DEF Init
<1>1. child \in Children /\ child.at = "none" /\ child.written = 0 /\ child.arrived = <<>>
  BY NoChildType DEF Init
<1>2. TypeOK
  BY <1>1, RunType DEF Init, TypeOK, Supervisors, NoList, NoFile
<1> QED
  BY <1>1, <1>2 DEF Inv, Marked, Announced, QuarantineHonoured

LEMMA StepInv == Inv /\ [Next]_vars => Inv'
<1> SUFFICES ASSUME Inv, [Next]_vars
             PROVE  Inv'
  OBVIOUS
<1> USE DEF Inv, TypeOK, Marked, Announced, QuarantineHonoured, database, disk
<1>1. ASSUME Open PROVE Inv'
  BY <1>1 DEF Children, ChildSteps, Open, MayDelete, HadRows
<1>2. ASSUME Resume PROVE Inv'
  <2>1. ResumedBatch(Cardinality(Resumable)) \in Nat \ {0} /\ Resumable \subseteq Files
    BY ListsAreFinite, ResumedBatchType DEF Resumable
  <2> QED
    BY <1>2, <2>1 DEF Children, ChildSteps, Resume, Resumable
<1>3. ASSUME Scan PROVE Inv'
  <2>1. {f \in run.onDisk : run.force \/ rows[f] # "new"} \subseteq Files
    BY RunType
  <2> QED
    BY <1>3, <2>1 DEF Children, ChildSteps, Scan, Text
<1>4. ASSUME Rehabilitate PROVE Inv'
  BY <1>4 DEF Children, ChildSteps, Rehabilitate, ChildAt
<1>5. ASSUME Prune PROVE Inv'
  BY <1>5 DEF Children, ChildSteps, Prune, MayDelete, RowStates
<1>6. ASSUME Clear PROVE Inv'
  BY <1>6 DEF Children, ChildSteps, Clear, ChildAt, RowStates
<1>7. ASSUME Save PROVE Inv'
  <2>1. Truncated \subseteq Files /\ Truncated \intersect quarantine = {}
    BY DEF Children, Truncated, Wanted, UpTo
  <2>2. ResumedBatch(Cardinality(Truncated)) \in Nat \ {0}
    BY <2>1, ListsAreFinite, ResumedBatchType
  <2> QED
    BY <1>7, <2>1, <2>2 DEF Children, ChildSteps, Save
<1>8. ASSUME NEW f \in Files, Arrive(f) PROVE Inv'
  <2>1. child.arrived \in Seq(Files)
    BY DEF Children
  <2>2. Append(child.arrived, f) \in Seq(Files)
        /\ Len(Append(child.arrived, f)) = Len(child.arrived) + 1
    BY <2>1
  <2>3. child' = [child EXCEPT !.arrived = Append(child.arrived, f)]
    BY <1>8 DEF Arrive
  <2>4. child' \in Children
    BY <2>2, <2>3, ArrivedType
  <2>5. child'.arrived = Append(child.arrived, f) /\ child'.written = child.written
    BY <2>3 DEF Children
  <2>6. child'.written <= Len(child'.arrived)
    BY <2>2, <2>5 DEF Children
  <2> QED
    BY <1>8, <2>4, <2>6 DEF Children, Arrive
<1>9. ASSUME Persist PROVE Inv'
  <2>1. child.arrived[child.written + 1] \in Files
    BY <1>9 DEF Children, ChildSteps, Persist
  <2> DEFINE batch == child.batch \union {child.arrived[child.written + 1]}
             full  == Cardinality(batch) >= child.batchSize
             left  == IF full THEN {} ELSE batch
  <2>2. child.written + 1 \in Nat /\ full \in BOOLEAN /\ left \in SUBSET Files
    BY <2>1 DEF Children
  <2>3. child' = [child EXCEPT !.at = "mark", !.written = child.written + 1,
                               !.committed = full, !.batch = left]
    BY <1>9 DEF Persist
  <2> HIDE DEF full, left
  <2>4. child' \in Children
    BY <2>2, <2>3, WrittenType
  <2>5. child'.written <= Len(child'.arrived) /\ child'.written >= 1
        /\ child'.work = child.work
    BY <1>9, <2>3 DEF Children, Persist
  <2>6. rows' \in [Files -> RowStates]
    BY <1>9 DEF Persist, RowStates
  <2> QED
    BY <1>9, <2>4, <2>5, <2>6 DEF Persist
<1>10. ASSUME Mark PROVE Inv'
  <2>1. child.arrived[child.written] \in Files
    BY <1>10 DEF Children, ChildSteps, Mark, ChildAt
  <2> QED
    BY <1>10, <2>1 DEF Children, ChildSteps, Mark, ChildAt
<1>11. ASSUME CommitRest PROVE Inv'
  BY <1>11 DEF Children, ChildSteps, CommitRest, RowStates
<1>12. ASSUME Search \/ Resolve PROVE Inv'
  BY <1>12 DEF Children, ChildSteps, Search, Resolve, ChildAt, Text
<1>13. ASSUME WriteMetadata PROVE Inv'
  BY <1>13 DEF Children, ChildSteps, WriteMetadata, ChildAt
<1>14. ASSUME CleanUp PROVE Inv'
  BY <1>14 DEF Children, ChildSteps, CleanUp, ChildAt, NoList, NoFile
<1>15. ASSUME Crash PROVE Inv'
  BY <1>15, ExitedType DEF Crash, Abort, Exited
<1>16. ASSUME Kill PROVE Inv'
  BY <1>16, ExitedType DEF Kill, Abort, Exited
<1>17. ASSUME PersistFail PROVE Inv'
  BY <1>17, ExitedType DEF PersistFail, Exited
<1>18. ASSUME PowerCut PROVE Inv'
  BY <1>18, NoChildType DEF PowerCut, Supervisors
<1>19. ASSUME Spawn PROVE Inv'
  <2>1. supervisor' \in Supervisors
    BY <1>19 DEF Spawn, Supervisors
  <2>2. ChildThreads + 2 \in Nat
    BY SizeAssumption DEF ChildThreads
  <2>3. child' \in Children /\ child'.at = "open"
        /\ child'.written = 0 /\ Len(child'.arrived) = 0
    <3> DEFINE r == supervisor.attempt > 0
    <3>1. child' = Started(r, ChildThreads + 2, BatchSize)
      BY <1>19 DEF Spawn, Started
    <3>2. r \in BOOLEAN /\ BatchSize \in Nat \ {0}
      BY SizeAssumption
    <3> HIDE DEF r
    <3> QED
      BY <2>2, <3>1, <3>2, StartedType
  <2> QED
    BY <1>19, <2>1, <2>3 DEF Spawn, NoFile
<1>20. ASSUME ChildEnded PROVE Inv'
  <2>1. child.rc \in {0, 1}
    BY <1>20 DEF ChildEnded, Children, CrashCode
  <2>2. supervisor' \in Supervisors
    BY <1>20, <2>1 DEF ChildEnded, Supervisors
  <2> QED
    BY <1>20, <2>2, NoChildType DEF ChildEnded, NoList, NoFile
<1>21. ASSUME NEW from, NEW to \in Nat, NEW k \in 0 .. 3, Suspect(from, to, k),
              Crashed, overtaken' \subseteq Files
       PROVE  Inv'
  <2>1. supervisor' \in Supervisors
    BY <1>21 DEF Suspect, Supervisors
  <2> QED
    BY <1>21, <2>1 DEF Suspect, Crashed, UpTo
<1>22. ASSUME RecoverFromProgress PROVE Inv'
  <2>1. Rank(worklist, progress) + ThreadCount + 2 \in Nat
    BY RankType, SizeAssumption
  <2>2. overtaken' \subseteq Files
    BY <1>22 DEF RecoverFromProgress, UpTo
  <2> QED
    BY <1>21, <1>22, <2>1, <2>2 DEF RecoverFromProgress
<1>23. ASSUME RecoverWithoutProgress PROVE Inv'
  <2>1. NoProgressCrashes \in 0 .. 3
    BY DEF NoProgressCrashes, Supervisors
  <2> DEFINE to == (IF NoProgressCrashes >= 3 THEN 1 ELSE ThreadCount) + 2
  <2>2. to \in Nat
    BY SizeAssumption
  <2>3. Suspect(0, to, NoProgressCrashes) /\ Crashed /\ overtaken' \subseteq Files
    BY <1>23 DEF RecoverWithoutProgress
  <2> HIDE DEF to
  <2> QED
    BY <1>21, <2>1, <2>2, <2>3
<1>24. ASSUME Trim \/ RestartAsIs PROVE Inv'
  <2>1. supervisor' = [supervisor EXCEPT !.at = "spawn", !.attempt = 1, !.upTo = 0]
    BY <1>24 DEF Trim, RestartAsIs, Restart
  <2>2. supervisor' \in Supervisors
    BY <2>1 DEF Supervisors
  <2>3. child' = NoChild /\ worklist' \subseteq worklist
        /\ UNCHANGED <<run, rows, quarantine, meta, progress, faults, overtaken>>
    BY <1>24 DEF Trim, RestartAsIs, Restart, After
  <2> QED
    BY <2>2, <2>3, NoChildType
<1>25. ASSUME UNCHANGED vars PROVE Inv'
  BY <1>25 DEF vars
<1> QED
  BY <1>1, <1>2, <1>3, <1>4, <1>5, <1>6, <1>7, <1>8, <1>9, <1>10, <1>11, <1>12,
     <1>13, <1>14, <1>15, <1>16, <1>17, <1>18, <1>19, <1>20, <1>21, <1>22,
     <1>23, <1>24, <1>25
     DEF Next, SupervisorStep, ChildStep, Terminated

(* Every reachable state of the supervisor and its child satisfies the     *)
(* invariant above.                                                        *)
THEOREM Invariance == Spec => []Inv
  BY InitInv, StepInv, PTL DEF Spec

(* Every variable of the run keeps its type, whatever crashes and however  *)
(* often the supervisor restarts the child.                                *)
THEOREM TypeCorrect == Spec => []TypeOK
  BY Invariance, PTL DEF Inv

(* No child hands a quarantined file to a parser: the lists it indexes are *)
(* free of quarantined files, and while it indexes none is quarantined.    *)
THEOREM QuarantineIsHonoured == Spec => []QuarantineHonoured
  BY Invariance, PTL DEF Inv

(* Rows change only while index_state says "indexing": each step that      *)
(* writes rows comes after Open and before WriteMetadata.                  *)
THEOREM ChangesAnnounced == Spec => ChangesAreAnnounced
<1>1. Inv /\ [Next]_vars => [rows' # rows => meta.state = "indexing"]_vars
  <2> SUFFICES ASSUME Inv, [Next]_vars, rows' # rows
               PROVE  meta.state = "indexing"
    BY DEF vars, database
  <2>1. CASE Prune \/ Clear \/ Persist \/ CommitRest
    BY <2>1 DEF Inv, Announced, Prune, Clear, Persist, CommitRest, ChildAt
  <2> QED
    BY <2>1 DEF Next, SupervisorStep, ChildStep, Terminated, vars, database, disk,
       Open, Resume, Scan, Rehabilitate, Save, Arrive, Mark, Search, Resolve,
       WriteMetadata, CleanUp, Crash, Kill, PersistFail, PowerCut, Spawn,
       ChildEnded, RecoverFromProgress, RecoverWithoutProgress, Suspect, Trim,
       RestartAsIs
<1> QED
  BY Invariance, <1>1, PTL DEF Spec, ChangesAreAnnounced

-----------------------------------------------------------------------------
(* What a run that calls its index current has lost.                       *)

(* The run and its children agree on what a complete index is: a resumed   *)
(* child does not know that its list was cut to --max-files, nor that rows *)
(* of vanished files were kept for want of an owner.                       *)
Plain ==
  /\ run.maxFiles = 0
  /\ run.owner \/ \A f \in Files \ run.onDisk : run.rows[f] = "none"

(* No child ends early.                                                    *)
Undisturbed == run.crashers = {} /\ run.faults = 0

(* A scan takes nothing back: neither rows, nor the quarantine of a file.  *)
Gentle == ~run.force /\ ~run.newHead

Done(f)   == Accounted(f) \/ f \in overtaken
Beyond(L) == \A f \in run.onDisk \ L : Done(f)
Settled   == Reconciled /\ Beyond({})

(* What a child leaves to its metadata is to be relied on.                 *)
Answerable == Plain \/ child.complete

Scanning == {"rehab", "prune", "clear", "save"}

(* A child lives while the supervisor waits for it, and starts with        *)
(* nothing written.                                                        *)
Waiting ==
  /\ child.at \notin {"none", "exited"} => supervisor.at = "wait"
  /\ child.at \in Scanning \union {"open", "load"} =>
       child.arrived = <<>> /\ child.written = 0 /\ child.batch = {}

(* An owner stays recorded; a run without owner adds no row of a vanished  *)
(* file, and a child that is complete without owner has found no rows.     *)
Owned ==
  /\ run.owner => meta.owner
  /\ ~run.newHead => ~meta.newHead
  /\ Plain /\ ~run.owner => Reconciled
  /\ (child.at \in Scanning \union {"load"} /\ child.complete /\ ~meta.owner)
       => \A f \in Files : rows[f] = "none"

(* The work list file leaves out nothing but what is done.                 *)
Listed ==
  /\ worklist \subseteq run.onDisk
  /\ Plain /\ worklist # {} => Reconciled /\ Beyond(worklist)
  /\ supervisor.at = "trim" =>
       /\ worklist # {}
       /\ \A f \in UpTo(worklist, supervisor.upTo) : Done(f)

(* A run that takes something back never scans while there is a list.      *)
NotStale ==
  worklist # {} /\ ~Gentle =>
    /\ supervisor.at = "spawn" => supervisor.attempt = 1
    /\ supervisor.at # "trim" => worklist \intersect quarantine = {}
    /\ supervisor.at = "trim" =>
         After(worklist, supervisor.upTo) \intersect quarantine = {}
    /\ child.at \in {"open", "load"} => child.resume
    /\ child.at \notin Scanning

(* An undisturbed run has one child.                                       *)
Once ==
  Undisturbed => /\ faults = 0 /\ supervisor.attempt = 0 /\ supervisor.at # "trim"
                 /\ ~child.resume /\ child.rc = 0

(* The scan passes over files that are up to date only, --force over none, *)
(* and by the time the list is saved the rows of vanished files are gone.  *)
Found ==
  /\ child.at \in Scanning =>
       /\ child.found \subseteq run.onDisk
       /\ \A f \in run.onDisk \ child.found : rows[f] = "new" /\ ~run.force
  /\ child.at = "clear" /\ ~run.force /\ Answerable => Reconciled
  /\ child.at = "save" /\ Answerable => Reconciled

Written == {child.arrived[i] : i \in 1 .. child.written}

(* Files of the list arrive once each; those written are committed or in   *)
(* the open batch.                                                         *)
Indexing ==
  child.at \in {"index", "mark"} =>
    /\ child.work \subseteq run.onDisk
    /\ \A i \in DOMAIN child.arrived : child.arrived[i] \in child.work
    /\ \A i, j \in DOMAIN child.arrived :
         child.arrived[i] = child.arrived[j] => i = j
    /\ Cardinality(Written) = child.written
    /\ child.batch \subseteq child.work
    /\ \A f \in Written : rows[f] = "new" \/ f \in child.batch
    /\ Answerable => Reconciled /\ Beyond(child.work)

(* Nothing is left to do when the child comes to its metadata, nor when it *)
(* has called the index current.                                           *)
Indexed ==
  /\ child.at \in {"search", "resolve", "metadata"} /\ Answerable => Settled
  /\ (\/ child.at = "cleanup"
      \/ child.at = "exited" /\ child.rc = 0
      \/ supervisor.at = "done" /\ supervisor.rc = 0)
       => (meta.state = "current" => Settled)

Kept ==
  /\ Waiting /\ Owned /\ Listed /\ NotStale /\ Once
  /\ Found /\ Indexing /\ Indexed

LossInv == Plain \/ Undisturbed => Kept

LEMMA RunIsFixed == [Next]_vars => run' = run
  BY DEF Next, SupervisorStep, ChildStep, Terminated, vars,
     database, disk, Open, Resume, Scan, Rehabilitate, Prune, Clear, Save, Arrive, Persist,
     Mark, CommitRest, Search, Resolve, WriteMetadata, CleanUp, Crash, Kill, PersistFail,
     PowerCut, Spawn, ChildEnded, RecoverFromProgress, RecoverWithoutProgress, Suspect,
     Trim, RestartAsIs

LEMMA LossInvSuffices == LossInv => (Plain \/ Undisturbed => OnlyOvertakenLost)
  BY DEF LossInv, Kept, Indexed, OnlyOvertakenLost, Finished, Settled, Beyond, Done

LEMMA InitLossInv == Init => LossInv
<1> SUFFICES ASSUME NEW s \in Scenarios, Init, run = s,
                    rows = s.rows, quarantine = s.quarantine, faults = s.faults,
                    meta = [state |-> IF s.owner THEN "current" ELSE "none",
                            owner |-> s.owner, newHead |-> s.newHead]
             PROVE  Kept
  BY DEF Init, LossInv
<1>1. child.at = "none" /\ child.rc = 0 /\ child.resume = FALSE
  BY DEF Init, NoChild
<1>2. supervisor.at = "spawn" /\ supervisor.attempt = 0 /\ worklist = {}
  BY DEF Init, NoList
<1> QED
  BY <1>1, <1>2, RunType
     DEF Kept, Waiting, Owned, Listed, NotStale, Once, Found, Indexing, Indexed, Plain,
         Undisturbed, Reconciled, Scanning

(* Ranks begin at one.                                                     *)
LEMMA NoneUpToZero == ASSUME NEW S \in SUBSET Files
                      PROVE  UpTo(S, 0) = {}
<1> SUFFICES ASSUME NEW f \in S, Rank(S, f) <= 0
             PROVE  FALSE
  BY DEF UpTo
<1>1. f \in {g \in S : g <= f}
  BY SizeAssumption DEF Files
<1>2. IsFiniteSet({g \in S : g <= f}) /\ Cardinality({g \in S : g <= f}) = 0
  <2>1. {g \in S : g <= f} \in SUBSET Files
    OBVIOUS
  <2> QED
    BY <2>1, RankType, ListsAreFinite DEF Rank
<1> QED
  BY <1>1, <1>2, FS_EmptySet

(* Counting written files: each arrives once, so when all the files of the *)
(* list are counted, they are the files of the list.                       *)
LEMMA WritesOneMore ==
  ASSUME Inv, Indexing, child.at = "index", child.written < Len(child.arrived),
         NEW n, n = child.written + 1
  PROVE  /\ child.arrived[n] \in child.work
         /\ {child.arrived[i] : i \in 1 .. n} = Written \union {child.arrived[n]}
         /\ Cardinality({child.arrived[i] : i \in 1 .. n}) = n
<1> USE DEF Inv, TypeOK, Children
<1>1. n \in DOMAIN child.arrived /\ n \notin 1 .. child.written
      /\ 1 .. n = (1 .. child.written) \union {n}
      /\ 1 .. child.written \subseteq DOMAIN child.arrived
  OBVIOUS
<1>2. child.arrived[n] \notin Written
  BY <1>1 DEF Indexing, Written
<1>3. Written \in SUBSET Files
  BY <1>1 DEF Written
<1>4. {child.arrived[i] : i \in 1 .. n} = Written \union {child.arrived[n]}
  BY <1>1 DEF Written
<1>5. Cardinality(Written \union {child.arrived[n]}) = Cardinality(Written) + 1
  BY <1>2, <1>3, ListsAreFinite, FS_AddElement
<1> QED
  BY <1>1, <1>4, <1>5 DEF Indexing

LEMMA AllAreWritten ==
  ASSUME Inv, Indexing, child.at = "index", child.written = Cardinality(child.work)
  PROVE  child.work = Written
<1> USE DEF Inv, TypeOK, Children
<1>1. Written \subseteq child.work
  BY DEF Indexing, Written
<1>2. IsFiniteSet(child.work)
  BY ListsAreFinite
<1> QED
  BY <1>1, <1>2, FS_Subset DEF Indexing

LEMMA StepLossInv ==
  Inv /\ LossInv /\ [Next]_vars /\ (PowerCut => Gentle \/ Undisturbed) => LossInv'
<1> SUFFICES ASSUME Inv, LossInv, [Next]_vars, PowerCut => Gentle \/ Undisturbed,
                    (Plain \/ Undisturbed)'
             PROVE  Kept'
  BY DEF LossInv
<1>0. run' = run /\ Kept /\ (Plain \/ Undisturbed)
  BY RunIsFixed DEF LossInv, Plain, Undisturbed
<1> USE <1>0 DEF Inv, TypeOK, database, disk
<1>t. child \in Children
  OBVIOUS
<1>r. rows \in [Files -> RowStates] /\ run.onDisk \subseteq Files
  BY RunType
<1> USE DEF Kept, Children, Waiting, Owned, Listed, NotStale, Once, Found, Indexed,
            Plain, Undisturbed, Gentle, Answerable, Scanning
<1>1. ASSUME Open PROVE Kept'
  BY <1>1 DEF Open, MayDelete, HadRows, Indexing, Reconciled, Beyond, Settled, Done,
     Accounted
<1>2. ASSUME Resume PROVE Kept'
  <2>1. child'.work \subseteq run.onDisk
    BY <1>2 DEF Resume, Resumable
  <2>2. Plain => Reconciled' /\ Beyond(child.work)'
    BY <1>2 DEF Resume, Resumable, Reconciled, Beyond, Done, Accounted
  <2>3. Answerable' => Plain
    BY <1>2 DEF Resume
  <2>4. Written' = {}
    BY <1>2 DEF Resume, Written
  <2>5. Indexing'
    BY <1>2, <2>1, <2>2, <2>3, <2>4, FS_EmptySet DEF Resume, Indexing
  <2> QED
    BY <1>2, <2>5 DEF Resume, Reconciled, Beyond, Settled, Done, Accounted
<1>3. ASSUME Scan PROVE Kept'
  BY <1>3 DEF Scan, Resumable, Indexing, Reconciled, Beyond, Settled, Done, Accounted
<1>4. ASSUME Rehabilitate PROVE Kept'
  BY <1>4 DEF Rehabilitate, ChildAt, Indexing, Reconciled, Beyond, Settled, Done,
     Accounted
<1>5. ASSUME Prune PROVE Kept'
  <2>1. \A f \in run.onDisk : rows'[f] = rows[f]
    BY <1>5, <1>r DEF Prune, Vanished
  <2>2. Reconciled => Reconciled'
    BY <1>5, <1>r DEF Prune, Vanished, Reconciled
  <2>3. child'.at = "clear" /\ ~run.force /\ Answerable' => Reconciled'
    BY <1>5, <1>r DEF Prune, Vanished, MayDelete, Reconciled
  <2>4. (\A f \in Files : rows[f] = "none") => \A f \in Files : rows'[f] = "none"
    BY <1>5, <1>r DEF Prune
  <2>5. \A f \in run.onDisk : Done(f) => Done(f)'
    BY <1>5, <2>1 DEF Prune, Done, Accounted
  <2>6. Owned'
    BY <1>5, <2>2, <2>4 DEF Prune
  <2>7. Listed'
    BY <1>5, <2>2, <2>5 DEF Prune, Beyond
  <2>8. Found'
    BY <1>5, <2>1, <2>3 DEF Prune
  <2> QED
    BY <1>5, <2>6, <2>7, <2>8 DEF Prune, Indexing
<1>6. ASSUME Clear PROVE Kept'
  <2>1. Reconciled => Reconciled'
    BY <1>6, <1>r DEF Clear, Reconciled
  <2>2. child'.at = "save" /\ Answerable' => Reconciled'
    BY <1>6, <1>r DEF Clear, ChildAt, MayDelete, Reconciled
  <2>3. run.force => worklist = {}
    BY <1>6 DEF Clear, ChildAt
  <2>4. \A f \in run.onDisk \ child.found : rows'[f] = "new" /\ ~run.force
    BY <1>6, <1>r DEF Clear, ChildAt
  <2> QED
    BY <1>6, <2>1, <2>2, <2>3, <2>4
       DEF Clear, ChildAt, Indexing, Beyond, Settled, Done, Accounted
<1>7. ASSUME Save PROVE Kept'
  <2>1. Truncated \subseteq Wanted /\ Wanted \subseteq run.onDisk
        /\ Wanted \intersect quarantine = {} /\ (Plain => Truncated = Wanted)
    BY <1>7 DEF Save, Truncated, Wanted, UpTo
  <2>2. Beyond(Wanted)
    BY <1>7 DEF Save, Wanted, Beyond, Done, Accounted
  <2>3. Answerable' => Answerable /\ Truncated = Wanted
    BY <1>7, <2>1 DEF Save
  <2>4. Answerable' => Reconciled'
    BY <1>7, <2>3 DEF Save, Reconciled
  <2>5. CASE Wanted = {}
    BY <1>7, <2>1, <2>2, <2>3, <2>4, <2>5
       DEF Save, Indexing, Reconciled, Beyond, Settled, Done, Accounted
  <2>6. CASE Wanted # {}
    <3>1. Written' = {}
      BY <1>7 DEF Save, Written
    <3>2. Answerable' => Beyond(child.work)'
      BY <1>7, <2>2, <2>3, <2>6 DEF Save, Beyond, Done, Accounted
    <3>3. Indexing'
      BY <1>7, <2>1, <2>4, <2>6, <3>1, <3>2, FS_EmptySet DEF Save, Indexing
    <3> QED
      BY <1>7, <2>1, <2>2, <2>3, <2>4, <2>6, <3>3
         DEF Save, Reconciled, Beyond, Settled, Done, Accounted
  <2> QED
    BY <2>5, <2>6
<1>8. ASSUME NEW f \in Files, Arrive(f) PROVE Kept'
  <2>1. f \in child.work /\ \A i \in DOMAIN child.arrived : child.arrived[i] # f
    BY <1>8 DEF Arrive, InFlight, UpTo, Collected
  <2>2. child.arrived \in Seq(Files) /\ child'.arrived = Append(child.arrived, f)
        /\ child'.written = child.written /\ child'.at = "index" /\ child.at = "index"
        /\ child'.work = child.work /\ child'.batch = child.batch
        /\ child'.complete = child.complete
    BY <1>8 DEF Arrive
  <2>3. /\ \A i \in DOMAIN child'.arrived : child'.arrived[i] \in child.work
        /\ \A i, j \in DOMAIN child'.arrived :
             child'.arrived[i] = child'.arrived[j] => i = j
    BY <2>1, <2>2 DEF Indexing
  <2>4. Written' = Written
    BY <2>2 DEF Written
  <2>5. Indexing'
    BY <1>8, <2>2, <2>3, <2>4 DEF Arrive, Indexing, Reconciled, Beyond, Done, Accounted
  <2> QED
    BY <1>8, <2>2, <2>5 DEF Arrive, Reconciled, Beyond, Settled, Done, Accounted
<1>9. ASSUME Persist PROVE Kept'
  <2> DEFINE n     == child.written + 1
             batch == child.batch \union {child.arrived[n]}
             full  == Cardinality(batch) >= child.batchSize
  <2>1. child'.work = child.work /\ child'.arrived = child.arrived /\ child'.at = "mark"
        /\ child'.written = n /\ child'.batch = (IF full THEN {} ELSE batch)
        /\ child'.complete = child.complete
        /\ rows' = IF full THEN [f \in Files |-> IF f \in batch THEN "new" ELSE rows[f]]
                   ELSE rows
    BY <1>9 DEF Persist
  <2>2. child.arrived[n] \in child.work /\ Written' = Written \union {child.arrived[n]}
        /\ Cardinality(Written') = n
    BY <1>9, <2>1, WritesOneMore DEF Persist, Written
  <2>3. batch \subseteq child.work /\ child.work \subseteq run.onDisk
    BY <1>9, <2>2 DEF Persist, Indexing
  <2> HIDE DEF n, full
  <2>4. \A f \in Files : /\ rows[f] = "new" => rows'[f] = "new"
                         /\ f \notin run.onDisk => rows'[f] = rows[f]
    BY <2>1, <2>3, <1>r
  <2>5. \A f \in Written' : rows'[f] = "new" \/ f \in child'.batch
    <3>1. \A f \in Written' : rows[f] = "new" \/ f \in batch
      BY <1>9, <2>2 DEF Persist, Indexing
    <3>2. batch \subseteq Files
      BY <2>3, <1>r
    <3>3. CASE full
      BY <2>1, <2>4, <3>1, <3>2, <3>3, <1>r, <2>2, <2>3, <1>9 DEF Persist, Indexing, Written
    <3> QED
      BY <2>1, <3>1, <3>3
  <2>6. (Reconciled => Reconciled') /\ \A f \in run.onDisk : Done(f) => Done(f)'
    BY <1>9, <1>r, <2>4 DEF Persist, Reconciled, Done, Accounted
  <2>7. Indexing'
    <3>1. Answerable' => Reconciled' /\ Beyond(child.work)'
      BY <1>9, <2>1, <2>6 DEF Persist, Indexing, Beyond
    <3>2. child'.batch \subseteq child.work
      BY <2>1, <2>3
    <3>3. /\ \A i \in DOMAIN child'.arrived : child'.arrived[i] \in child'.work
          /\ \A i, j \in DOMAIN child'.arrived :
               child'.arrived[i] = child'.arrived[j] => i = j
      BY <1>9, <2>1 DEF Persist, Indexing
    <3>4. child'.work \subseteq run'.onDisk /\ Cardinality(Written') = child'.written
          /\ child'.batch \subseteq child'.work
      BY <2>1, <2>2, <2>3, <3>2
    <3> QED
      BY <2>5, <3>1, <3>3, <3>4 DEF Indexing
  <2> QED
    BY <1>9, <2>1, <2>6, <2>7 DEF Persist, Beyond
<1>10. ASSUME Mark PROVE Kept'
  BY <1>10 DEF Mark, ChildAt, Indexing, Written, Reconciled, Beyond, Settled, Done,
     Accounted
<1>11. ASSUME CommitRest PROVE Kept'
  <2>1. child.work = Written
    BY <1>11, AllAreWritten DEF CommitRest
  <2>2. \A f \in Files : /\ rows[f] = "new" \/ f \in child.batch => rows'[f] = "new"
                         /\ f \notin run.onDisk => rows'[f] = rows[f]
    BY <1>11, <1>r DEF CommitRest, Indexing
  <2>3. (Reconciled => Reconciled') /\ \A f \in run.onDisk : Done(f) => Done(f)'
    BY <1>11, <1>r, <2>2 DEF CommitRest, Reconciled, Done, Accounted
  <2>4. \A f \in child.work : rows'[f] = "new"
    BY <1>11, <1>r, <2>1, <2>2 DEF CommitRest, Indexing
  <2>5. Answerable' => Settled'
    <3>1. Answerable' => Reconciled /\ Beyond(child.work)
      BY <1>11 DEF CommitRest, Indexing
    <3>2. \A f \in child.work : Done(f)'
      BY <2>4 DEF Done, Accounted
    <3> QED
      BY <2>3, <3>1, <3>2 DEF Settled, Beyond
  <2> QED
    BY <1>11, <2>3, <2>5 DEF CommitRest, Indexing, Beyond
<1>12. ASSUME Search \/ Resolve PROVE Kept'
  BY <1>12 DEF Search, Resolve, ChildAt, Indexing, Reconciled, Beyond, Settled, Done,
     Accounted
<1>13. ASSUME WriteMetadata PROVE Kept'
  BY <1>13 DEF WriteMetadata, ChildAt, Indexing, Reconciled, Beyond, Settled, Done,
     Accounted
<1>14. ASSUME CleanUp PROVE Kept'
  BY <1>14 DEF CleanUp, ChildAt, NoList, Indexing, Reconciled, Beyond, Settled, Done,
     Accounted
<1>15. ASSUME Crash \/ Kill \/ PersistFail PROVE Kept'
  <2>1. child'.at = "exited" /\ child'.rc # 0 /\ supervisor.at = "wait"
    <3>1. child' = Exited(CrashCode) \/ child' = Exited(1)
      BY <1>15 DEF Crash, Kill, PersistFail, Abort, Exited
    <3>2. Exited(CrashCode).rc = 134 /\ Exited(1).rc = 1
      BY DEF Exited, NoChild, CrashCode
    <3> QED
      BY <1>15, <3>1, <3>2, ExitedType DEF Crash, Kill, PersistFail, Running
  <2>2. ~Undisturbed
    BY <1>15 DEF Crash, Kill, PersistFail
  <2>3. UNCHANGED <<run, supervisor, rows, quarantine, meta, worklist, overtaken>>
    BY <1>15 DEF Crash, Kill, PersistFail
  <2> QED
    BY <2>1, <2>2, <2>3 DEF Indexing, Reconciled, Beyond, Settled, Done, Accounted
<1>16. ASSUME PowerCut PROVE Kept'
  BY <1>16 DEF PowerCut, NoChild, Indexing, Reconciled, Beyond, Settled, Done, Accounted
<1>17. ASSUME Spawn PROVE Kept'
  <2>1. supervisor'.at = "wait" /\ supervisor'.attempt = supervisor.attempt
        /\ UNCHANGED <<run, rows, quarantine, meta, worklist, faults, overtaken>>
    BY <1>17 DEF Spawn, Supervisors
  <2>2. child'.at = "open" /\ child'.resume = (supervisor.attempt > 0) /\ child'.rc = 0
        /\ child'.arrived = <<>> /\ child'.written = 0 /\ child'.batch = {}
    BY <1>17 DEF Spawn, NoChild
  <2>3. supervisor.at = "spawn" /\ supervisor.attempt \in {0, 1}
    BY <1>17 DEF Spawn, Supervisors
  <2>4. Listed'
    BY <2>1, <2>3 DEF Reconciled, Beyond, Done, Accounted
  <2>5. NotStale'
    <3>1. (supervisor.attempt > 0) <=> child'.resume
      BY <2>2, Zenon
    <3> QED
      BY <2>1, <2>2, <2>3, <3>1
  <2>6. Once'
    BY <2>1, <2>2, <2>3
  <2> QED
    BY <2>1, <2>2, <2>3, <2>4, <2>5, <2>6 DEF Indexing, Reconciled
<1>18. ASSUME ChildEnded PROVE Kept'
  BY <1>18 DEF ChildEnded, NoChild, NoList, Supervisors, Indexing, Reconciled, Beyond,
     Settled, Done, Accounted
<1>19. ASSUME NEW from \in Nat, NEW to \in Nat, NEW k, Suspect(from, to, k), Crashed,
              worklist # {},
              overtaken' = overtaken
                             \union {f \in UpTo(worklist, from) : rows[f] # "new"}
       PROVE  Kept'
  <2>1. ~Undisturbed /\ child.at = "exited" /\ child.rc > 127
    BY <1>19 DEF Crashed
  <2>2. supervisor'.at = "trim" /\ supervisor'.upTo = to
    BY <1>19 DEF Suspect, Supervisors
  <2>3. UNCHANGED <<run, child, rows, meta, worklist>>
    BY <1>19 DEF Suspect
  <2>4. quarantine' = quarantine \union (UpTo(worklist, to) \ UpTo(worklist, from))
    BY <1>19 DEF Suspect
  <2>5. \A f \in UpTo(worklist, to) : Done(f)'
    BY <1>19, <2>3, <2>4 DEF Done, Accounted
  <2>6. After(worklist, to) \intersect UpTo(worklist, to) = {}
    <3>1. \A f : Rank(worklist, f) \in Nat
      BY RankType
    <3> QED
      BY <3>1 DEF After, UpTo
  <2>7. \A f : Done(f) => Done(f)'
    BY <1>19, <2>3, <2>4 DEF Done, Accounted
  <2>8. Listed'
    BY <2>2, <2>3, <2>5, <2>7, <1>19 DEF Reconciled, Beyond
  <2>9. NotStale'
    BY <1>19, <2>1, <2>2, <2>3, <2>4, <2>6 DEF After, Crashed
  <2> QED
    BY <2>1, <2>2, <2>3, <2>8, <2>9 DEF Indexing, Reconciled
<1>20. ASSUME RecoverFromProgress PROVE Kept'
  <2>1. Rank(worklist, progress) \in Nat
        /\ Rank(worklist, progress) + ThreadCount + 2 \in Nat
    BY RankType, SizeAssumption
  <2> QED
    BY <1>19, <1>20, <2>1 DEF RecoverFromProgress
<1>21. ASSUME RecoverWithoutProgress PROVE Kept'
  <2> DEFINE to == (IF NoProgressCrashes >= 3 THEN 1 ELSE ThreadCount) + 2
  <2>1. to \in Nat
    BY SizeAssumption
  <2>2. Suspect(0, to, NoProgressCrashes) /\ Crashed /\ worklist # {}
        /\ overtaken' = overtaken
    BY <1>21 DEF RecoverWithoutProgress, NoList
  <2>3. UpTo(worklist, 0) = {}
    BY NoneUpToZero
  <2>4. overtaken' = overtaken \union {f \in UpTo(worklist, 0) : rows[f] # "new"}
    BY <2>2, <2>3
  <2> HIDE DEF to
  <2> QED
    BY <1>19, <2>1, <2>2, <2>4
<1>22. ASSUME Trim PROVE Kept'
  <2>1. supervisor'.at = "spawn" /\ supervisor'.attempt = 1 /\ child' = NoChild
        /\ worklist' = After(worklist, supervisor.upTo)
        /\ UNCHANGED <<run, rows, quarantine, meta, overtaken>>
    BY <1>22 DEF Trim, Restart, Supervisors
  <2>2. After(worklist, supervisor.upTo) \subseteq worklist
        /\ worklist \ After(worklist, supervisor.upTo) = UpTo(worklist, supervisor.upTo)
    <3>1. \A f : Rank(worklist, f) \in Nat
      BY RankType
    <3> QED
      BY <3>1 DEF After, UpTo, Supervisors
  <2>3. ~Undisturbed /\ supervisor.at = "trim"
    BY <1>22 DEF Trim
  <2>4. Listed'
    BY <2>1, <2>2, <2>3 DEF Reconciled, Beyond, Done, Accounted
  <2> QED
    BY <2>1, <2>2, <2>3, <2>4 DEF NoChild, Indexing, Reconciled
<1>23. ASSUME RestartAsIs PROVE Kept'
  <2>1. supervisor'.at = "spawn" /\ supervisor'.attempt = 1 /\ child' = NoChild
        /\ UNCHANGED <<run, rows, quarantine, meta, worklist, overtaken>>
    BY <1>23 DEF RestartAsIs, Restart, Supervisors
  <2>2. ~Undisturbed /\ supervisor.at = "wait"
    BY <1>23 DEF RestartAsIs, Crashed
  <2> QED
    BY <2>1, <2>2 DEF NoChild, Indexing, Reconciled, Beyond, Done, Accounted
<1>24. ASSUME UNCHANGED vars PROVE Kept'
  BY <1>24 DEF vars, Indexing, Written, Reconciled, Beyond, Settled, Done, Accounted,
     UpTo, After, Rank
<1> QED
  BY <1>1, <1>2, <1>3, <1>4, <1>5, <1>6, <1>7, <1>8, <1>9, <1>10, <1>11, <1>12,
     <1>13, <1>14, <1>15, <1>16, <1>17, <1>18, <1>20, <1>21, <1>22, <1>23, <1>24
     DEF Next, SupervisorStep, ChildStep, Terminated

(* Where no child's choices can be lost with it and no scan takes anything *)
(* back, a run that calls its index current has kept no row of a vanished  *)
(* file and lost no file but those before the progress mark, however many  *)
(* crashes, kills, write errors and power cuts befall it; and so has any   *)
(* run that nothing disturbs.                                              *)
THEOREM OnlyOvertakenAreLost ==
  Spec => []((Plain /\ Gentle) \/ Undisturbed => OnlyOvertakenLost)
<1> DEFINE I == Gentle \/ Undisturbed => LossInv
<1>1. Init => I
  BY InitLossInv
<1>2. Inv /\ I /\ [Next]_vars => I'
  <2>1. [Next]_vars => run' = run
    BY RunIsFixed
  <2> QED
    BY <2>1, StepLossInv DEF Gentle, Undisturbed
<1>3. I => ((Plain /\ Gentle) \/ Undisturbed => OnlyOvertakenLost)
  BY LossInvSuffices
<1> HIDE DEF I
<1> QED
  BY Invariance, <1>1, <1>2, <1>3, PTL DEF Spec

(* With --force and after a change of branch the same holds as long as the *)
(* supervisor and its child do not die together: a list that an earlier    *)
(* run left behind may then be resumed by a child of a run that has        *)
(* cleared the rows, or released from quarantine the files, it leaves out. *)
THEOREM OnlyOvertakenAreLostWithoutPowerCuts ==
  Spec /\ [][~PowerCut]_vars => [](Plain => OnlyOvertakenLost)
<1>1. Inv /\ LossInv /\ [Next]_vars /\ [~PowerCut]_vars => LossInv'
  <2>1. PowerCut /\ UNCHANGED vars /\ Inv => FALSE
    BY DEF PowerCut, Inv, TypeOK, vars
  <2> QED
    BY <2>1, StepLossInv
<1>2. LossInv => (Plain => OnlyOvertakenLost)
  BY LossInvSuffices
<1> QED
  BY Invariance, InitLossInv, <1>1, <1>2, PTL DEF Spec
=============================================================================
