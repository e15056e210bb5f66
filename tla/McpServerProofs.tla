--------------------------- MODULE McpServerProofs ---------------------------
(***************************************************************************)
(* Theorems about McpServer, for any repositories, workers, calls, edits,  *)
(* requests and deaths: no two writers of a database, whole merges, kept   *)
(* promises of content search, truthful jobs, and that the request thread  *)
(* implements CommittedReads.  First come the lemmas about Workspace: the  *)
(* inductive invariant behind its properties, and that every step of a     *)
(* worker preserves it.                                                    *)
(***************************************************************************)
EXTENDS McpServer, TLAPS

Steps == {"idle", "gate", "lock", "open", "admit", "runlock", "begin", "batch",
          "finish", "source", "probe", "merge", "rank", "content", "unmark",
          "remove", "report", "release", "failing", "cancelling", "retire"}

Holdings == [v : Versions, whole : BOOLEAN]

WTypeOK ==
  /\ disk \in [Roots -> Versions]
  /\ own \in [Roots -> Holdings]
  /\ state \in [Roots -> {"none", "first", "indexing", "current"}]
  /\ merged \in [Roots -> [Roots -> Holdings]]
  /\ content \in [Roots -> SUBSET Roots]
  /\ pending \in [Roots -> SUBSET Roots]
  /\ promised \in [Roots -> SUBSET Roots]
  /\ lock \in [Roots -> Workers \union {Stdio, NoOne}]
  /\ gate \in [Roots -> Workers \union {Stdio, NoOne}]
  /\ pc \in [Workers -> Steps]
  /\ call \in [Workers -> Calls \union {NoCall}]
  /\ plan \in [Workers -> SUBSET Calls]
  /\ wanted \in [Workers -> Versions]
  /\ scan \in [Workers -> Versions]
  /\ cancel \in [Workers -> BOOLEAN]
  /\ did \in [Workers -> BOOLEAN]
  /\ status \in [Workers -> {"none", "queued", "running", "completed", "failed",
                             "cancelled"}]

-----------------------------------------------------------------------------
(* What a worker's place says.  Each part holds of one worker w.           *)

(* Which calls come here.                                                  *)
CallFits(w) ==
  /\ pc[w] # "idle" => call[w] \in Calls
  /\ pc[w] \in {"lock", "open", "admit", "source", "probe", "merge", "rank",
                "content", "unmark", "remove"} => call[w].op # "index"
  /\ pc[w] \in {"runlock", "begin", "batch", "finish"} => call[w].op # "remove"
  /\ pc[w] \in {"source", "probe", "merge", "rank", "content", "unmark"} =>
       Merges(call[w])
  /\ pc[w] = "remove" => call[w].op = "remove"

(* A call for a workspace keeps the lock of its host to its end ...        *)
KeepsHost(w) ==
  /\ pc[w] \in {"open", "admit", "runlock", "begin", "batch", "finish", "source",
                "probe", "merge", "rank", "content", "unmark", "remove", "report"}
  /\ call[w].op # "index"
  => lock[h(w)] = w

(* ... and that of the target while it works there.  It gets both only if  *)
(* they are two.                                                           *)
KeepsTarget(w) ==
  pc[w] \in {"begin", "batch", "finish", "probe", "merge"} =>
    /\ lock[t(w)] = w
    /\ call[w].op # "index" => t(w) # h(w)

(* While a database is indexed it says so; one that is merged is current.  *)
StateFits(w) ==
  /\ pc[w] \in {"batch", "finish"} => state[t(w)] # "current"
  /\ pc[w] = "merge" => state[t(w)] = "current"

(* The versions an indexer found, and those that were asked for.           *)
ScanFits(w) ==
  /\ pc[w] # "idle" => wanted[w] <= disk[t(w)]
  /\ pc[w] \in {"batch", "finish"} =>
       /\ own[t(w)].v <= scan[w] /\ scan[w] <= disk[t(w)]
       /\ wanted[w] <= scan[w] /\ scan[w] # 0
  /\ Kind[w] # "cli" /\ pc[w] \in {"source", "probe", "merge"} =>
       wanted[w] <= own[t(w)].v
  /\ Kind[w] # "cli" /\ Merges(call[w])
       /\ pc[w] \in {"rank", "content", "unmark", "report"} =>
       wanted[w] <= merged[h(w)][t(w)].v

(* Nothing is done before the commit, and a merge after it.                *)
DidFits(w) ==
  /\ pc[w] \in {"gate", "lock", "open", "admit", "runlock", "begin", "batch",
                "finish", "source", "probe", "merge", "remove", "cancelling"} =>
       ~did[w]
  /\ Merges(call[w]) /\ pc[w] \in {"rank", "content", "unmark", "report"} => did[w]

(* The marker goes when all lines are there.                               *)
Filled(w) == pc[w] = "unmark" => t(w) \in content[h(w)]

WorkerOK(w) ==
  /\ CallFits(w) /\ KeepsHost(w) /\ KeepsTarget(w) /\ StateFits(w)
  /\ ScanFits(w) /\ DidFits(w) /\ Filled(w)

(* What a database holds.                                                  *)
StoreOK(r) ==
  /\ disk[r] # 0 /\ own[r].v <= disk[r]
  /\ state[r] = "current" => own[r].whole /\ own[r].v # 0
  /\ \A s \in promised[r] : Registered(r, s)
  /\ \A s \in Roots : merged[r][s].whole
  /\ promised[r] \subseteq content[r] \union pending[r]

WInv ==
  /\ WTypeOK
  /\ \A w \in Workers : WorkerOK(w)
  /\ \A r \in Roots : StoreOK(r)

-----------------------------------------------------------------------------
(* Every step of a worker keeps the types ...                              *)
LEMMA WorkTypes == ASSUME NEW w \in Workers, WInv, Work(w)
                   PROVE  WTypeOK'
<1> USE WorkersAssumption DEF WInv, WTypeOK, WorkerOK, CallFits, Steps, Calls,
    Holdings, h, t, stored, asked
<1>1. CASE WaitForGate(w)
  BY <1>1 DEF WaitForGate, Checkpoint, Stopped, Move
<1>2. CASE EnterGate(w)
  BY <1>2 DEF EnterGate, Checkpoint, Stopped, Move
<1>3. CASE AcquireHost(w)
  BY <1>3 DEF AcquireHost, Checkpoint, Stopped, Move, Take
<1>4. CASE HostBusy(w)
  BY <1>4 DEF HostBusy, Move
<1>5. CASE Open(w)
  BY <1>5 DEF Open, Move
<1>6. CASE Admit(w)
  <2>1. pc' \in [Workers -> Steps]
    BY <1>6 DEF Admit, Checkpoint, Move
  <2>2. status' = status \/ status' = [status EXCEPT ![w] = "running"]
    BY <1>6 DEF Admit, Checkpoint
  <2> QED
    BY <1>6, <2>1, <2>2 DEF Admit
<1>7. CASE RunLock(w)
  BY <1>7 DEF RunLock, Move, Take
<1>8. CASE RunBusy(w)
  BY <1>8 DEF RunBusy, Move
<1>9. CASE RunBegin(w)
  BY <1>9 DEF RunBegin, Move
<1>10. CASE RunBatch(w)
  BY <1>10 DEF RunBatch, Move
<1>11. CASE RunFinish(w)
  BY <1>11 DEF RunFinish, Move
<1>12. CASE AcquireSource(w)
  BY <1>12 DEF AcquireSource, Move, Take
<1>13. CASE SourceBusy(w)
  BY <1>13 DEF SourceBusy, Move
<1>14. CASE Probe(w)
  BY <1>14 DEF Probe, Checkpoint, Stopped, Move
<1>15. CASE Merge(w)
  BY <1>15 DEF Merge, Move
<1>16. CASE Rank(w)
  BY <1>16 DEF Rank, Move
<1>17. CASE FillContent(w)
  BY <1>17 DEF FillContent, Move
<1>18. CASE Unmark(w)
  BY <1>18 DEF Unmark, Move
<1>19. CASE Remove(w)
  BY <1>19 DEF Remove, Move, Nothing, Versions, Registered
<1>20. CASE Throw(w)
  BY <1>20 DEF Throw
<1>21. CASE Report(w)
  BY <1>21 DEF Report, Move
<1>22. CASE Release(w)
  BY <1>22 DEF Release, Move, ReleaseAll
<1>23. CASE Unwind(w)
  BY <1>23 DEF Unwind, Move, ReleaseAll
<1>24. CASE Retire(w)
  BY <1>24 DEF Retire, Move
<1> QED
  BY <1>1, <1>2, <1>3, <1>4, <1>5, <1>6, <1>7, <1>8, <1>9, <1>10, <1>11, <1>12,
     <1>13, <1>14, <1>15, <1>16, <1>17, <1>18, <1>19, <1>20, <1>21, <1>22,
     <1>23, <1>24 DEF Work

(* ... what is known of every worker ...                                   *)
LEMMA WorkWorkers == ASSUME NEW w \in Workers, WInv, Work(w), NEW x \in Workers
                     PROVE  WorkerOK(x)'
<1> USE WorkersAssumption DEF WInv, WTypeOK, WorkerOK, CallFits, KeepsHost,
    KeepsTarget, StateFits, ScanFits, DidFits, Filled, StoreOK, Versions,
    Steps, Calls, Holdings, Merges, h, t, stored, asked
<1>1. CASE WaitForGate(w)
  BY <1>1 DEF WaitForGate, Checkpoint, Stopped, Move
<1>2. CASE EnterGate(w)
  BY <1>2 DEF EnterGate, Checkpoint, Stopped, Move
<1>3. CASE AcquireHost(w)
  BY <1>3 DEF AcquireHost, Checkpoint, Stopped, Move, Take
<1>4. CASE HostBusy(w)
  BY <1>4 DEF HostBusy, Move
<1>5. CASE Open(w)
  BY <1>5 DEF Open, Move
<1>6. CASE Admit(w)
  BY <1>6 DEF Admit, Checkpoint, Stopped, Move
<1>7. CASE RunLock(w)
  BY <1>7 DEF RunLock, Move, Take
<1>8. CASE RunBusy(w)
  BY <1>8 DEF RunBusy, Move
<1>9. CASE RunBegin(w)
  BY <1>9 DEF RunBegin, Move
<1>10. CASE RunBatch(w)
  BY <1>10 DEF RunBatch, Move
<1>11. CASE RunFinish(w)
  BY <1>11 DEF RunFinish, Move
<1>12. CASE AcquireSource(w)
  BY <1>12 DEF AcquireSource, Move, Take
<1>13. CASE SourceBusy(w)
  BY <1>13 DEF SourceBusy, Move
<1>14. CASE Probe(w)
  BY <1>14 DEF Probe, Checkpoint, Stopped, Move
<1>15. CASE Merge(w)
  BY <1>15 DEF Merge, Move
<1>16. CASE Rank(w)
  BY <1>16 DEF Rank, Move
<1>17. CASE FillContent(w)
  BY <1>17 DEF FillContent, Move
<1>18. CASE Unmark(w)
  BY <1>18 DEF Unmark, Move
<1>19. CASE Remove(w)
  <2>1. CASE x = w
    BY <1>19, <2>1 DEF Remove, Move
  <2>2. CASE x # w
    <3>1. pc[x] \in {"rank", "content", "unmark", "report"} /\ Merges(call[x]) =>
            h(x) # h(w)
      BY <1>19, <2>2 DEF Remove, Move
    <3> QED
      BY <1>19, <2>2, <3>1 DEF Remove, Move
  <2> QED
    BY <2>1, <2>2
<1>20. CASE Throw(w)
  BY <1>20 DEF Throw
<1>21. CASE Report(w)
  BY <1>21 DEF Report, Move
<1>22. CASE Release(w)
  BY <1>22 DEF Release, Move, ReleaseAll
<1>23. CASE Unwind(w)
  BY <1>23 DEF Unwind, Move, ReleaseAll
<1>24. CASE Retire(w)
  BY <1>24 DEF Retire, Move
<1> QED
  BY <1>1, <1>2, <1>3, <1>4, <1>5, <1>6, <1>7, <1>8, <1>9, <1>10, <1>11, <1>12,
     <1>13, <1>14, <1>15, <1>16, <1>17, <1>18, <1>19, <1>20, <1>21, <1>22,
     <1>23, <1>24 DEF Work

(* ... and what is known of every database.                                *)
LEMMA WorkStores == ASSUME NEW w \in Workers, WInv, Work(w), NEW r \in Roots
                    PROVE  StoreOK(r)'
<1> USE WorkersAssumption DEF WInv, WTypeOK, WorkerOK, CallFits, KeepsHost,
    KeepsTarget, StateFits, ScanFits, Filled, StoreOK, Versions, Calls,
    Holdings, Merges, Registered, h, t, asked
<1>1. CASE Open(w)
  BY <1>1 DEF Open, Move
<1>2. CASE RunBegin(w)
  BY <1>2 DEF RunBegin, Move
<1>3. CASE RunBatch(w)
  BY <1>3 DEF RunBatch, Move
<1>4. CASE RunFinish(w)
  BY <1>4 DEF RunFinish, Move
<1>5. CASE Merge(w)
  BY <1>5 DEF Merge, Move
<1>6. CASE FillContent(w)
  BY <1>6 DEF FillContent, Move
<1>7. CASE Unmark(w)
  BY <1>7 DEF Unmark, Move
<1>8. CASE Remove(w)
  BY <1>8 DEF Remove, Move, Nothing, Versions
<1>9. CASE UNCHANGED <<disk, stored>>
  BY <1>9 DEF stored
<1> QED
  BY <1>1, <1>2, <1>3, <1>4, <1>5, <1>6, <1>7, <1>8, <1>9
     DEF Work, WaitForGate, EnterGate, AcquireHost, HostBusy, Admit, RunLock,
         RunBusy, AcquireSource, SourceBusy, Probe, Rank, Throw, Report,
         Release, Unwind, Retire

-----------------------------------------------------------------------------
LEMMA WorkOK == ASSUME NEW w \in Workers, WInv, Work(w)  PROVE  WInv'
  BY WorkTypes, WorkWorkers, WorkStores DEF WInv

LEMMA WorkspaceInitOK == WorkspaceInit => WInv
<1> SUFFICES ASSUME WorkspaceInit  PROVE  WInv
  OBVIOUS
<1> USE WorkersAssumption, PlansAssumption DEF WorkspaceInit, Versions, Nothing
<1>1. WTypeOK
  BY DEF WTypeOK, Holdings, Steps
<1>2. ASSUME NEW w \in Workers  PROVE  WorkerOK(w)
  BY DEF WorkerOK, CallFits, KeepsHost, KeepsTarget, StateFits, ScanFits, DidFits,
         Filled
<1>3. ASSUME NEW r \in Roots  PROVE  StoreOK(r)
  BY DEF StoreOK
<1> QED
  BY <1>1, <1>2, <1>3 DEF WInv

LEMMA StartOK == ASSUME NEW w \in Workers, WInv, Start(w)  PROVE  WInv'
<1> USE WorkersAssumption DEF WInv, Start, Move
<1> PICK c \in plan[w] : /\ call' = [call EXCEPT ![w] = c]
                         /\ plan' = [plan EXCEPT ![w] = @ \ {c}]
                         /\ wanted' = [wanted EXCEPT ![w] = disk[c.target]]
                         /\ pc[w] = "idle" /\ c \in Calls
                         /\ pc' = [pc EXCEPT ![w] =
                                     IF Kind[w] # "cli" THEN "gate"
                                     ELSE IF c.op = "index" THEN "runlock" ELSE "lock"]
  BY DEF WTypeOK
<1>1. WTypeOK'
  BY DEF WTypeOK, Calls, Steps, stored
<1>2. ASSUME NEW x \in Workers  PROVE  WorkerOK(x)'
  BY DEF WTypeOK, WorkerOK, CallFits, KeepsHost, KeepsTarget, StateFits, ScanFits,
         DidFits, Filled, StoreOK, Versions, Calls, Merges, h, t, stored
<1>3. ASSUME NEW r \in Roots  PROVE  StoreOK(r)'
  BY DEF StoreOK, Registered, stored
<1> QED
  BY <1>1, <1>2, <1>3

LEMMA CancelOK == ASSUME NEW w \in Workers, WInv, Cancel(w)  PROVE  WInv'
  BY DEF WInv, Cancel, WTypeOK, WorkerOK, CallFits, KeepsHost, KeepsTarget,
         StateFits, ScanFits, DidFits, Filled, StoreOK, Registered, Merges, h, t,
         stored, asked

LEMMA EditOK == ASSUME NEW r \in Roots, WInv, Edit(r)  PROVE  WInv'
<1> USE WorkersAssumption DEF WInv, Edit, Versions
<1>1. WTypeOK'
  BY DEF WTypeOK, stored, asked
<1>2. ASSUME NEW w \in Workers  PROVE  WorkerOK(w)'
  BY DEF WTypeOK, WorkerOK, CallFits, KeepsHost, KeepsTarget, StateFits, ScanFits,
         DidFits, Filled, Merges, h, t, stored, asked, Calls, Holdings
<1>3. ASSUME NEW s \in Roots  PROVE  StoreOK(s)'
  BY DEF WTypeOK, StoreOK, Registered, stored, Holdings
<1> QED
  BY <1>1, <1>2, <1>3

(* The dead hold nothing, and take no lock of another with them.           *)
LEMMA DieOK == ASSUME NEW w \in Workers, WInv, Die(w)  PROVE  WInv'
<1> USE WorkersAssumption DEF WInv, Die
<1>1. WTypeOK'
  BY DEF WTypeOK, Steps, stored
<1>2. ASSUME NEW x \in Workers  PROVE  WorkerOK(x)'
  <2> USE DEF WTypeOK, WorkerOK, CallFits, KeepsHost, KeepsTarget, StateFits,
          ScanFits, DidFits, Filled, Merges, h, t, stored
  <2>1. CASE x \in Victims(w)
    BY <2>1 DEF NoCall
  <2>2. CASE x \notin Victims(w)
    BY <2>2 DEF Calls
  <2> QED
    BY <2>1, <2>2
<1>3. ASSUME NEW r \in Roots  PROVE  StoreOK(r)'
  BY DEF StoreOK, Registered, stored
<1> QED
  BY <1>1, <1>2, <1>3

(* Whoever else takes and releases locks and gates, as the request thread  *)
(* does, leaves the locks of the workers alone.                            *)
LEMMA OthersOK ==
  ASSUME WInv,
         UNCHANGED <<disk, stored, pc, asked, scan, cancel, status, did>>,
         lock' \in [Roots -> Workers \union {Stdio, NoOne}],
         gate' \in [Roots -> Workers \union {Stdio, NoOne}],
         \A r \in Roots : lock[r] \in Workers => lock'[r] = lock[r]
  PROVE  WInv'
<1> USE WorkersAssumption DEF WInv
<1>1. WTypeOK'
  BY DEF WTypeOK, stored, asked
<1>2. ASSUME NEW w \in Workers  PROVE  WorkerOK(w)'
  <2> USE DEF WorkerOK, h, t, asked
  <2>1. pc[w] # "idle" => h(w) \in Roots /\ t(w) \in Roots
    BY DEF CallFits, Calls
  <2>2. KeepsHost(w)' /\ KeepsTarget(w)'
    BY <2>1 DEF KeepsHost, KeepsTarget
  <2> QED
    BY <2>2 DEF CallFits, StateFits, ScanFits, DidFits, Filled, Merges, stored
<1>3. ASSUME NEW r \in Roots  PROVE  StoreOK(r)'
  BY DEF StoreOK, Registered, stored
<1> QED
  BY <1>1, <1>2, <1>3

-----------------------------------------------------------------------------
(* What the invariant is for.                                              *)

LEMMA MergedIsWholeOK == WInv => MergedIsWhole
  BY DEF WInv, StoreOK, MergedIsWhole

LEMMA ContentNotForgottenOK == WInv => ContentNotForgotten
  BY DEF WInv, StoreOK, ContentNotForgotten

(* What a job says when its status changes.                                *)
Truthful(w) ==
  Kind[w] = "job" /\ status'[w] # status[w] =>
    /\ status'[w] = "cancelled" => ~did[w]
    /\ status'[w] = "completed" /\ Merges(call[w]) =>
         /\ did[w]
         /\ merged[h(w)][t(w)].v >= wanted[w]

LEMMA WorkspaceTruthful ==
  ASSUME WInv, WorkspaceNext \/ UNCHANGED status, NEW w \in Workers
  PROVE  Truthful(w)
<1> USE DEF Truthful, WInv, WTypeOK
<1>1. ASSUME NEW x \in Workers, Start(x)  PROVE  Truthful(w)
  BY <1>1 DEF Start
<1>2. ASSUME NEW x \in Workers, Die(x)  PROVE  Truthful(w)
  BY <1>2 DEF Die
<1>3. ASSUME NEW x \in Workers, Report(x)  PROVE  Truthful(w)
  BY <1>3 DEF Report, Move, WorkerOK, ScanFits, DidFits
<1>4. ASSUME NEW x \in Workers, Unwind(x)  PROVE  Truthful(w)
  BY <1>4 DEF Unwind, Move, WorkerOK, DidFits
<1>5. ASSUME NEW x \in Workers, WaitForGate(x) \/ EnterGate(x) \/ AcquireHost(x)
                                 \/ Admit(x) \/ Probe(x)
      PROVE  Truthful(w)
  BY <1>5 DEF WaitForGate, EnterGate, AcquireHost, Admit, Probe, Checkpoint
<1>6. ASSUME UNCHANGED status  PROVE  Truthful(w)
  BY <1>6
<1> QED
  BY <1>1, <1>2, <1>3, <1>4, <1>5, <1>6
     DEF WorkspaceNext, Work, Cancel, Edit, HostBusy, Open, RunLock, RunBusy,
         RunBegin, RunBatch, RunFinish, AcquireSource, SourceBusy, Merge, Rank,
         FillContent, Unmark, Remove, Throw, Release, Retire

-----------------------------------------------------------------------------

Dbs == [graph  : [own : Holdings, traces : Nat],
        merged : [roots : [Roots -> Holdings], content : SUBSET Roots]]

RTypeOK ==
  /\ at \in {"idle", "gate", "lock", "pin", "query", "requery", "write", "reply",
             "probe", "owner", "state", "told"}
  /\ ask \in {"read", "traces", "health"}
  /\ left \in Nat /\ traces \in Nat
  /\ seen \in [busy : BOOLEAN, owned : BOOLEAN]
  /\ snap \in Dbs \union {NoDb}

(* There is a snapshot while queries run and only then, and it stays.      *)
SnapFits ==
  /\ at \notin {"query", "requery", "write", "reply"} => snap = NoDb
  /\ at \in {"query", "requery"} => snap \in Dbs
  /\ at = "requery" => first = snap.graph

(* Traces are written under the lock of the database.                      *)
LocksHome ==
  /\ at \in {"gate", "lock", "write"} => ask = "traces"
  /\ at \in {"pin", "write"} /\ ask = "traces" => lock[Home] = Stdio

RInv == RTypeOK /\ SnapFits /\ LocksHome

Inv == WInv /\ RInv

LEMMA DbType == ASSUME WTypeOK, RTypeOK  PROVE  Db \in Dbs
  BY WorkersAssumption DEF WTypeOK, RTypeOK, Dbs, Db, Graph, Merged

(* A state of the database is not the answer that there is none.           *)
LEMMA DbIsSome == ASSUME NEW d \in Dbs  PROVE  d # NoDb
<1>1. DOMAIN d = {"graph", "merged"}
  BY DEF Dbs
<1>2. DOMAIN NoDb = {"plain"}
  BY DEF NoDb, Say
<1> QED
  BY <1>1, <1>2

-----------------------------------------------------------------------------
(* The invariant.                                                          *)

LEMMA InitInv == Init => Inv
<1> SUFFICES ASSUME Init  PROVE  RInv
  BY WorkspaceInitOK DEF Inv, Init
<1> QED
  BY MaxRequestsAssumption DEF Init, RInv, RTypeOK, SnapFits, LocksHome

(* The request thread takes and gives only what is free or its own.        *)
LEMMA ServeOK == ASSUME Inv, Request \/ Serve  PROVE  WInv'
<1> USE WorkersAssumption DEF Inv
<1>1. CASE UNCHANGED wvars
  BY <1>1, OthersOK DEF wvars, WInv, WTypeOK
<1>2. CASE TryGate
  BY <1>2, OthersOK DEF TryGate, WInv, WTypeOK
<1>3. CASE TryLock
  <2>1. UNCHANGED <<disk, stored, pc, asked, scan, cancel, status, did>>
    BY <1>3 DEF TryLock
  <2>2. /\ lock' = lock \/ (lock[Home] = NoOne /\ lock' = [lock EXCEPT ![Home] = Stdio])
        /\ gate' = gate \/ gate' = [gate EXCEPT ![Home] = NoOne]
    BY <1>3 DEF TryLock
  <2>3. /\ lock \in [Roots -> Workers \union {Stdio, NoOne}]
        /\ gate \in [Roots -> Workers \union {Stdio, NoOne}]
    BY DEF WInv, WTypeOK
  <2>4. /\ lock' \in [Roots -> Workers \union {Stdio, NoOne}]
        /\ gate' \in [Roots -> Workers \union {Stdio, NoOne}]
    BY <2>2, <2>3
  <2>5. \A r \in Roots : lock[r] \in Workers => lock'[r] = lock[r]
    BY <2>2, <2>3
  <2> QED
    BY <2>1, <2>4, <2>5, OthersOK
<1>4. CASE Reply
  BY <1>4, OthersOK DEF Reply, LetGo, WInv, WTypeOK
<1>5. CASE ProbeWriters
  BY <1>5, OthersOK DEF ProbeWriters, WInv, WTypeOK
<1>6. CASE Told
  BY <1>6, OthersOK DEF Told, LetGo, WInv, WTypeOK
<1> QED
  BY <1>1, <1>2, <1>3, <1>4, <1>5, <1>6
     DEF Serve, Request, Pin, Query, Requery, Ingest, ReadOwner, ReadState

LEMMA RequestsOK == ASSUME Inv, Request \/ Serve  PROVE  RInv'
<1> USE WorkersAssumption DEF Inv, RInv, RTypeOK, SnapFits, LocksHome, Step
<1>1. CASE Request
  BY <1>1 DEF Request, wvars
<1>2. CASE TryGate
  BY <1>2 DEF TryGate
<1>3. CASE TryLock
  BY <1>3 DEF TryLock, WInv, WTypeOK
<1>4. CASE Pin
  BY <1>4, DbType DEF Pin, wvars, WInv
<1>5. CASE Query
  BY <1>5 DEF Query, Visible, wvars
<1>6. CASE Requery
  BY <1>6 DEF Requery, wvars
<1>7. CASE Ingest
  BY <1>7 DEF Ingest, wvars
<1>8. CASE Reply
  BY <1>8 DEF Reply
<1>9. CASE ProbeWriters
  BY <1>9 DEF ProbeWriters, WriterActive
<1>10. CASE ReadOwner
  BY <1>10 DEF ReadOwner, wvars
<1>11. CASE ReadState
  BY <1>11 DEF ReadState, wvars
<1>12. CASE Told
  BY <1>12 DEF Told
<1> QED
  BY <1>1, <1>2, <1>3, <1>4, <1>5, <1>6, <1>7, <1>8, <1>9, <1>10, <1>11, <1>12
     DEF Serve

(* A worker never releases the lock of the request thread.                 *)
LEMMA WorkLeavesStdio ==
  ASSUME Inv, NEW w \in Workers, Work(w), lock[Home] = Stdio
  PROVE  lock'[Home] = Stdio
<1> USE WorkersAssumption DEF Inv, WInv, WTypeOK
<1>1. CASE AcquireHost(w) \/ RunLock(w) \/ AcquireSource(w)
  BY <1>1 DEF AcquireHost, RunLock, AcquireSource, Take
<1>2. CASE RunFinish(w) \/ Merge(w)
  BY <1>2 DEF RunFinish, Merge, Move, WorkerOK, KeepsTarget
<1>3. CASE Release(w) \/ Unwind(w)
  BY <1>3 DEF Release, Unwind, ReleaseAll
<1>4. CASE UNCHANGED lock
  BY <1>4
<1> QED
  BY <1>1, <1>2, <1>3, <1>4
     DEF Work, WaitForGate, EnterGate, HostBusy, Open, Admit, RunBusy, RunBegin,
         RunBatch, SourceBusy, Probe, Rank, FillContent, Unmark, Remove, Throw,
         Report, Retire

(* What happens beside the request thread.                                 *)
LEMMA BesideOK ==
  ASSUME Inv, UNCHANGED rvars, lock[Home] = Stdio => lock'[Home] = Stdio
  PROVE  RInv'
  BY DEF Inv, RInv, RTypeOK, SnapFits, LocksHome, rvars

LEMMA DeathOK == ASSUME Inv, NEW w \in Workers, DieHere(w)  PROVE  RInv'
<1>1. CASE Stdio \in Victims(w)
  BY <1>1 DEF DieHere, Inv, RInv, RTypeOK, SnapFits, LocksHome
<1>2. CASE Stdio \notin Victims(w)
  <2>1. lock[Home] = Stdio => lock'[Home] = Stdio
    BY <1>2, WorkersAssumption DEF DieHere, Die, Inv, WInv, WTypeOK
  <2> QED
    BY <1>2, <2>1, BesideOK DEF DieHere
<1> QED
  BY <1>1, <1>2

LEMMA StepInv == Inv /\ [Next]_vars => Inv'
<1> SUFFICES ASSUME Inv, [Next]_vars  PROVE  Inv'
  OBVIOUS
<1>1. CASE Request \/ Serve
  BY <1>1, ServeOK, RequestsOK DEF Inv
<1>2. ASSUME NEW w \in Workers, Start(w), UNCHANGED rvars  PROVE  Inv'
  BY <1>2, StartOK, BesideOK DEF Inv, Start
<1>3. ASSUME NEW w \in Workers, Cancel(w), UNCHANGED rvars  PROVE  Inv'
  BY <1>3, CancelOK, BesideOK DEF Inv, Cancel
<1>4. ASSUME NEW w \in Workers, Work(w), UNCHANGED rvars  PROVE  Inv'
  BY <1>4, WorkOK, WorkLeavesStdio, BesideOK DEF Inv
<1>5. ASSUME NEW w \in Workers, DieHere(w)  PROVE  Inv'
  BY <1>5, DieOK, DeathOK DEF Inv, DieHere
<1>6. ASSUME NEW r \in Roots, Edit(r), UNCHANGED rvars  PROVE  Inv'
  BY <1>6, EditOK, BesideOK DEF Inv, Edit
<1>7. CASE UNCHANGED vars
  BY <1>7, OthersOK, BesideOK DEF vars, wvars, Inv, WInv, WTypeOK
<1> QED
  BY <1>1, <1>2, <1>3, <1>4, <1>5, <1>6, <1>7 DEF Next

(* Every reachable state of the server, its workers and the databases      *)
(* satisfies the invariant: what the jobs record, what they hold and what  *)
(* the databases contain agree, through requests, cancellation and deaths  *)
(* of workers.                                                             *)
THEOREM Invariance == Spec => []Inv
  BY InitInv, StepInv, PTL DEF Spec

-----------------------------------------------------------------------------
(* Theorems.                                                               *)

(* A root in a workspace is always one complete version of its source.     *)
THEOREM MergesAreWhole == Spec => []MergedIsWhole
<1>1. Inv => MergedIsWhole
  BY MergedIsWholeOK DEF Inv
<1> QED
  BY <1>1, Invariance, PTL

(* Content search that was asked for is there or marked as missing.        *)
THEOREM ContentIsKept == Spec => []ContentNotForgotten
<1>1. Inv => ContentNotForgotten
  BY ContentNotForgottenOK DEF Inv
<1> QED
  BY <1>1, Invariance, PTL

(* A database has one writer: whoever writes it holds its lock file.       *)
THEOREM WritersExclude == Spec => []OneWriter
<1>1. ASSUME Inv, NEW w \in Workers, NEW r \in Roots, Writing(w, r)
      PROVE  lock[r] = w
  BY <1>1 DEF Inv, WInv, WorkerOK, CallFits, KeepsHost, KeepsTarget, Writing
<1>2. Inv => OneWriter
  BY <1>1, WorkersAssumption DEF OneWriter, Inv, RInv, LocksHome
<1> QED
  BY <1>2, Invariance, PTL

(* What a job reports is what it did.                                      *)
THEOREM JobsAreTruthful == Spec => JobsTellTheTruth
<1>1. Inv /\ [Next]_vars =>
        [\A w \in Workers : Kind[w] = "job" /\ status'[w] # status[w] =>
           /\ status'[w] = "cancelled" => ~did[w]
           /\ status'[w] = "completed" /\ Merges(call[w]) =>
                /\ did[w]
                /\ merged[h(w)][t(w)].v >= wanted[w]]_wvars
  <2> SUFFICES ASSUME Inv, [Next]_vars, NEW w \in Workers  PROVE  Truthful(w)
    BY DEF Truthful
  <2>1. WorkspaceNext \/ UNCHANGED status
    BY DEF Next, vars, wvars, WorkspaceNext, DieHere, Request, Serve, TryGate,
           TryLock, Pin, Query, Requery, Ingest, Reply, ProbeWriters, ReadOwner,
           ReadState, Told
  <2> QED
    BY <2>1, WorkspaceTruthful DEF Inv
<1> QED
  BY <1>1, Invariance, PTL DEF JobsTellTheTruth, Spec

-----------------------------------------------------------------------------
(* The request thread implements CommittedReads.                           *)

LEMMA PromiseInit == Init => Promise!Init
  BY DEF Init, Promise!Init

(* A step beside it may commit, and touches nothing else of the promise.   *)
LEMMA BesidePromise ==
  ASSUME UNCHANGED rvars
  PROVE  [Promise!Next]_(Promise!avars)
  BY DEF rvars, Promise!avars, Promise!Next, Promise!Commit

LEMMA ServePromise ==
  ASSUME Inv, Request \/ Serve
  PROVE  [Promise!Next]_(Promise!avars)
<1> USE DEF Inv, RInv, RTypeOK, SnapFits, Step, Promise!avars, Promise!Next
<1>1. CASE Request
  BY <1>1 DEF Request, wvars, stored, Promise!Ask, Db, Graph, Merged
<1>2. CASE TryGate
  BY <1>2 DEF TryGate, stored, Promise!Done, Db, Graph, Merged, Plain, Say
<1>3. CASE TryLock
  BY <1>3 DEF TryLock, stored, Promise!Done, Db, Graph, Merged, Plain, Say
<1>4. CASE Pin
  BY <1>4 DEF Pin, wvars, stored, Promise!Serve, Db, Graph, Merged
<1>5. CASE Query
  BY <1>5 DEF Query, wvars, stored, Db, Graph, Merged
<1>6. CASE Requery
  <2>1. snap # NoDb
    BY <1>6, DbIsSome DEF Requery
  <2>2. out' = snap
    BY <1>6 DEF Requery, Visible, Dbs
  <2> QED
    BY <1>6, <2>1, <2>2 DEF Requery, wvars, stored, Promise!Answer, Db, Graph, Merged
<1>7. CASE Ingest
  <2>1. Db' # Db
    BY <1>7 DEF Ingest, Db, Graph
  <2> QED
    BY <1>7, <2>1 DEF Ingest, Promise!Commit
<1>8. CASE Reply
  BY <1>8 DEF Reply, stored, Promise!Done, Db, Graph, Merged, Plain, Say
<1>9. CASE ProbeWriters
  BY <1>9 DEF ProbeWriters, stored, Db, Graph, Merged
<1>10. CASE ReadOwner
  BY <1>10 DEF ReadOwner, wvars, stored, Db, Graph, Merged
<1>11. CASE ReadState
  <2>1. out' \in Plain
    BY <1>11 DEF ReadState, Plain, Say
  <2> QED
    BY <1>11, <2>1 DEF ReadState, wvars, stored, Promise!Answer, Db, Graph, Merged
<1>12. CASE Told
  BY <1>12 DEF Told, stored, Promise!Done, Db, Graph, Merged
<1> QED
  BY <1>1, <1>2, <1>3, <1>4, <1>5, <1>6, <1>7, <1>8, <1>9, <1>10, <1>11, <1>12
     DEF Serve

LEMMA DeathPromise ==
  ASSUME Inv, NEW w \in Workers, DieHere(w)
  PROVE  [Promise!Next]_(Promise!avars)
<1>1. CASE Stdio \in Victims(w)
  BY <1>1 DEF Inv, RInv, SnapFits, DieHere, Die, stored, Promise!avars,
              Promise!Next, Promise!Done, Db, Graph, Merged
<1>2. CASE Stdio \notin Victims(w)
  BY <1>2, BesidePromise DEF DieHere
<1> QED
  BY <1>1, <1>2

(* Every answer is computed from one state that was committed during the   *)
(* request.                                                                *)
THEOREM AnswersAreFaithful == Spec => AnswersAreCommitted
<1>1. Inv /\ [Next]_vars => [Promise!Next]_(Promise!avars)
  <2> SUFFICES ASSUME Inv, [Next]_vars  PROVE  [Promise!Next]_(Promise!avars)
    OBVIOUS
  <2>1. CASE Request \/ Serve
    BY <2>1, ServePromise
  <2>2. ASSUME NEW w \in Workers, DieHere(w)
        PROVE  [Promise!Next]_(Promise!avars)
    BY <2>2, DeathPromise
  <2>3. CASE UNCHANGED rvars
    BY <2>3, BesidePromise
  <2> QED
    BY <2>1, <2>2, <2>3 DEF Next, vars
<1> QED
  BY <1>1, PromiseInit, Invariance, PTL DEF Spec, AnswersAreCommitted, Promise!Spec
=============================================================================
