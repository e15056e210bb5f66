------------------------- MODULE IndexPipelineProofs -------------------------
(***************************************************************************)
(* Proofs about IndexPipeline, for every number of threads, capacity of    *)
(* the persist queue and work list.                                        *)
(*                                                                         *)
(* What a run promises (nothing lost or doubled, everything persisted) is  *)
(* said with counts: how often a file occurs in the queues and hands of    *)
(* the pipeline.  The proof keeps a second count beside it, of the holders *)
(* of a slot.  A slot that is not available has exactly one holder, a      *)
(* task, a parse or a result of its current generation, and an available   *)
(* one has none: this is why a new generation never takes a slot away from *)
(* a parse that is still awaited, and why a watchdog that declares a slot  *)
(* dead reports the file of the one parse it cut off.                      *)
(***************************************************************************)
EXTENDS IndexPipeline, FiniteSetTheorems, TLAPS

Busy(t)    == thread[t].at # "idle"
Parsing(t) == thread[t].at = "parse"

-----------------------------------------------------------------------------
(* What holds whatever the files do.                                       *)

(* A thread that is not idle has a task, and a status once it has ended.   *)
ThreadsHoldTasks ==
  \A t \in Threads :
    /\ IF Busy(t) THEN thread[t].task \in Tasks ELSE thread[t] = IdleThread
    /\ thread[t].at = "report" => thread[t].status \in Statuses

(* A slot the watchdog may report a file for has had a file.               *)
SlotsHaveFiles ==
  /\ \A s \in Slots : ~slots[s].available => slots[s].file # 0
  /\ watchdog.slot # NoSlot =>
       slots[watchdog.slot].file # 0 /\ watchdog.age \in {2, 3}

(* The main and the persist thread hold a result where they need one.      *)
ItemsFit ==
  /\ IF main.at \in {"refill", "push"} THEN main.item \in Results
     ELSE main.item = NoResult
  /\ IF persist.at = "write" THEN persist.item \in Results
     ELSE persist.item = NoResult

Shape ==
  /\ work \in WorkLists
  /\ TypeOK
  /\ ThreadsHoldTasks
  /\ SlotsHaveFiles
  /\ ItemsFit
  /\ ArenasBalanced

-----------------------------------------------------------------------------
(* What holds of an orderly work list.                                     *)

(* A task in the queue is current.  A thread whose task is not current     *)
(* hangs for ever; no task is ahead of its slot.                           *)
Generations ==
  /\ \A i \in DOMAIN tasks : Current(tasks[i])
  /\ \A t \in Threads :
       Busy(t) => /\ thread[t].task.gen <= slots[thread[t].task.slot].gen
                  /\ \/ Current(thread[t].task)
                     \/ Parsing(t) /\ thread[t].task.file \in Stuck

(* The file of a slot is that of its current task.                         *)
FilesMatch ==
  /\ \A i \in DOMAIN tasks : slots[tasks[i].slot].file = tasks[i].file
  /\ \A t \in Threads :
       Busy(t) /\ Current(thread[t].task) =>
         slots[thread[t].task.slot].file = thread[t].task.file

(* Who holds slot s.                                                       *)
OnSlot(seq, s) == Cardinality({i \in DOMAIN seq : seq[i].slot = s})
RunningOn(s)   == Cardinality({t \in Threads : /\ Busy(t)
                                               /\ thread[t].task.slot = s
                                               /\ Current(thread[t].task)})
Holders(s)     == OnSlot(tasks, s) + RunningOn(s) + OnSlot(results, s)

HeldOnce ==
  \A s \in Slots : Holders(s) = IF slots[s].available THEN 0 ELSE 1

(* A start time is that of a parse under way, and only a parse that hangs  *)
(* for ever gets old enough to be killed.                                  *)
ParsedOn(s, t) == Parsing(t) /\ thread[t].task.slot = s /\ Current(thread[t].task)

Timed ==
  /\ \A t \in Threads :
       Parsing(t) /\ Current(thread[t].task) =>
         /\ slots[thread[t].task.slot].start > 0
         /\ slots[thread[t].task.slot].start = 3 => thread[t].task.file \in Stuck
  /\ \A s \in Slots : slots[s].start > 0 => \E t \in Threads : ParsedOn(s, t)

(* What the watchdog is about to kill hangs for ever.                      *)
Doomed ==
  watchdog.slot # NoSlot /\ watchdog.age = 3 =>
    \E t \in Threads : ParsedOn(watchdog.slot, t) /\ thread[t].task.file \in Stuck

(* How far the main thread has come.                                       *)
Ended == {"join", "stop", "finish", "destroy", "returned"}

Progress ==
  /\ main.at \notin Ended /\ closed => fatal
  /\ main.at \in {"push", "wait"} => next = Total \/ inFlight > 0
  /\ main.at \in Ended => inFlight = 0 /\ next = Total
  /\ main.at \in Ended \ {"join"} => persist.at = "exited"
  /\ persist.at = "exited" => fatal \/ (closed /\ queue = <<>>)
  /\ main.at \in {"destroy", "returned"} /\ main.rc = 0 => ~fatal

OrderlyInv == Generations /\ FilesMatch /\ HeldOnce /\ Timed /\ Doomed

Inv == /\ Shape
       /\ Progress
       /\ Orderly => OrderlyInv /\ InOnePlace /\ InFlightExact

-----------------------------------------------------------------------------
(* Counting.                                                               *)

Bit(b) == IF b THEN 1 ELSE 0

(* Two finite sets that differ in at most one element.                     *)
LEMMA OneDiffers ==
  ASSUME NEW A, NEW B, NEW x, IsFiniteSet(A), A \ {x} = B \ {x}
  PROVE  /\ IsFiniteSet(B)
         /\ Cardinality(A) \in Nat /\ Cardinality(B) \in Nat
         /\ Cardinality(A) + Bit(x \in B) = Cardinality(B) + Bit(x \in A)
<1>1. IsFiniteSet(A \ {x}) /\ IsFiniteSet((A \ {x}) \union {x})
  BY FS_RemoveElement, FS_AddElement
<1>2. B \subseteq (A \ {x}) \union {x}
  OBVIOUS
<1>3. IsFiniteSet(B)
  BY <1>1, <1>2, FS_Subset
<1>4. Cardinality(A) \in Nat /\ Cardinality(B) \in Nat
  BY <1>3, FS_CardinalityType
<1>5. /\ Cardinality(A \ {x}) = IF x \in A THEN Cardinality(A) - 1 ELSE Cardinality(A)
      /\ Cardinality(B \ {x}) = IF x \in B THEN Cardinality(B) - 1 ELSE Cardinality(B)
  BY <1>3, FS_RemoveElement
<1>6. Cardinality(A \ {x}) = Cardinality(B \ {x})
  OBVIOUS
<1> QED BY <1>3, <1>4, <1>5, <1>6 DEF Bit

(* Where the elements of P are in a sequence.                              *)
Where(seq, P) == {i \in DOMAIN seq : seq[i] \in P}

(* A sequence has finitely many elements of any kind ...                   *)
LEMMA WhereFinite ==
  ASSUME NEW T, NEW seq \in Seq(T), NEW P
  PROVE  IsFiniteSet(Where(seq, P)) /\ Cardinality(Where(seq, P)) \in Nat
<1>1. IsFiniteSet(1 .. Len(seq))
  BY FS_Interval
<1>2. Where(seq, P) \subseteq 1 .. Len(seq)
  BY DEF Where
<1> QED BY <1>1, <1>2, FS_Subset, FS_CardinalityType

(* ... one more after an Append of one ...                                 *)
LEMMA CountAppend ==
  ASSUME NEW T, NEW seq \in Seq(T), NEW e \in T, NEW P
  PROVE  Cardinality(Where(Append(seq, e), P)) = Cardinality(Where(seq, P)) + Bit(e \in P)
<1> DEFINE A == Where(seq, P)
           B == Where(Append(seq, e), P)
           n == Len(seq) + 1
<1>1. A \ {n} = B \ {n} /\ n \notin A /\ (n \in B <=> e \in P)
  BY DEF Where
<1>2. IsFiniteSet(A)
  BY WhereFinite
<1> HIDE DEF A, B, n
<1>3. /\ Cardinality(A) \in Nat /\ Cardinality(B) \in Nat
      /\ Cardinality(A) + Bit(n \in B) = Cardinality(B) + Bit(n \in A)
  BY <1>1, <1>2, OneDiffers
<1>4. Cardinality(B) = Cardinality(A) + Bit(e \in P)
  BY <1>1, <1>3 DEF Bit
<1> QED BY <1>4 DEF A, B

(* ... and one less without a first one.                                   *)
LEMMA CountTail ==
  ASSUME NEW T, NEW seq \in Seq(T), seq # <<>>, NEW P
  PROVE  Cardinality(Where(seq, P)) = Cardinality(Where(Tail(seq), P)) + Bit(Head(seq) \in P)
<1> DEFINE A == Where(seq, P)
           B == Where(Tail(seq), P)
           f == [i \in B |-> i + 1]
<1>1. IsFiniteSet(A) /\ IsFiniteSet(B) /\ Cardinality(B) \in Nat
  <2>1. Tail(seq) \in Seq(T)
    OBVIOUS
  <2> QED BY <2>1, WhereFinite
<1>2. f \in Bijection(B, A \ {1})
  <2>1. \A i \in B : i \in Nat \ {0} /\ i + 1 \in A \ {1}
    BY DEF Where
  <2>2. \A j \in A \ {1} : j - 1 \in B /\ (j - 1) + 1 = j
    BY DEF Where
  <2> HIDE DEF A, B
  <2> QED BY <2>1, <2>2 DEF Bijection, Injection, Surjection, IsInjective
<1>3. Cardinality(A \ {1}) = Cardinality(B)
  BY <1>1, <1>2, FS_Bijection DEF ExistsBijection
<1>4. /\ Cardinality(A) \in Nat 
      /\ Cardinality(A \ {1}) = IF 1 \in A THEN Cardinality(A) - 1 ELSE Cardinality(A)
  BY <1>1, FS_RemoveElement, FS_CardinalityType
<1>5. 1 \in A <=> Head(seq) \in P
  BY DEF Where
<1> HIDE DEF A, B
<1>6. Cardinality(A) = Cardinality(B) + Bit(Head(seq) \in P)
  BY <1>1, <1>3, <1>4, <1>5 DEF Bit
<1> QED BY <1>6 DEF A, B

(* A non-empty set of naturals has a smallest element: the search for a    *)
(* slot ends at the first usable one.                                      *)
LEMMA SmallestExists ==
  ASSUME NEW S \in SUBSET Nat, S # {}
  PROVE  \E k \in S : \A j \in S : k <= j
<1> DEFINE Upto(k) == 0 .. k
           F == {Upto(k) : k \in S}
           R == StrictSubsetOrdering(Nat)
<1>1. F \subseteq FiniteSubsetsOf(Nat) /\ F # {}
  <2>1. \A k \in S : IsFiniteSet(0 .. k) /\ 0 .. k \subseteq Nat
    BY FS_Interval
  <2>2. \A k \in S : Upto(k) \in FiniteSubsetsOf(Nat)
    BY <2>1 DEF FiniteSubsetsOf
  <2> QED BY <2>2
<1>2. \E x \in F : \A y \in F : <<y, x>> \notin R
  <2>1. IsWellFoundedOn(R, FiniteSubsetsOf(Nat))
    BY FS_StrictSubsetOrderingWellFounded
  <2> HIDE DEF R, F
  <2> QED BY <1>1, <2>1, WFMin
<1>3. PICK k \in S : \A j \in S : <<Upto(j), Upto(k)>> \notin R
  BY <1>2
<1>4. ASSUME NEW j \in S, j < k PROVE FALSE
  <2>1. /\ Upto(j) \subseteq Upto(k) /\ k \in Upto(k) /\ k \notin Upto(j)
        /\ Upto(k) \subseteq Nat
    BY <1>4
  <2> HIDE DEF Upto
  <2>2. <<Upto(j), Upto(k)>> \in R
    BY <2>1 DEF StrictSubsetOrdering
  <2> QED BY <1>3, <2>2
<1> QED BY <1>4

-----------------------------------------------------------------------------
(* Types.                                                                  *)

SlotStates == [start : 0 .. 3, cancel : BOOLEAN, dead : BOOLEAN,
               available : BOOLEAN, gen : Nat, file : 0 .. Total]

LEMMA Sizes ==
  /\ ThreadCount \in Nat \ {0} /\ Capacity \in Nat \ {0}
  /\ Window \in Nat /\ Window >= 3 /\ Arenas \in Nat
BY SizeAssumption DEF Window, Arenas

LEMMA Lists ==
  ASSUME work \in WorkLists
  PROVE  Total \in Nat /\ PersistFails \in BOOLEAN
BY FileAssumption DEF Total

(* The round-robin search of try_submit_one() finds a usable slot if there *)
(* is one.                                                                 *)
LEMMA NearestIsUsable ==
  ASSUME UsableAhead # {}
  PROVE  Nearest \in UsableAhead
<1>1. UsableAhead \subseteq Nat
  BY Sizes DEF UsableAhead, Slots
<1>2. \E k \in UsableAhead : \A j \in UsableAhead : k <= j
  BY <1>1, SmallestExists
<1> QED BY <1>2 DEF Nearest

LEMMA CandidateIsUsable ==
  ASSUME nextSlot \in Slots, UsableAhead # {}
  PROVE  /\ Candidate(Nearest) \in Slots /\ Usable(Candidate(Nearest))
         /\ (nextSlot + Nearest + 1) % Window \in Slots
<1>1. Nearest \in Nat /\ nextSlot \in Nat /\ Usable(Candidate(Nearest))
  BY NearestIsUsable, Sizes DEF UsableAhead, Slots
<1>2. \A n \in Nat : n % Window \in 0 .. Window - 1
  BY Sizes
<1> QED BY <1>1, <1>2 DEF Candidate, Slots

(* A thread that takes or gives back an arena.                             *)
Leased == {t \in Threads : thread[t].at \in {"ready", "parse"}}

(* The pool has finitely many threads.                                     *)
LEMMA ThreadsFinite ==
  IsFiniteSet(Threads) /\ Cardinality(Threads) = Window
BY FS_Interval, Sizes DEF Threads

(* A thread that takes or gives back an arena keeps the balance.           *)
LEMMA LeasedMoves ==
  ASSUME NEW t \in Threads, arenas \in Nat,
         \A u \in Threads \ {t} : thread'[u] = thread[u],
         arenas' + Bit(thread'[t].at \in {"ready", "parse"})
           = arenas + Bit(thread[t].at \in {"ready", "parse"}),
         arenas' \in Nat, ArenasBalanced
  PROVE  ArenasBalanced' /\ arenas' \in 0 .. Arenas
<1>1. IsFiniteSet(Leased)
  BY ThreadsFinite, FS_Subset DEF Leased
<1>2. Leased \ {t} = Leased' \ {t}
  BY DEF Leased
<1>3. /\ Cardinality(Leased) \in Nat /\ Cardinality(Leased') \in Nat
      /\ Cardinality(Leased) + Bit(t \in Leased') = Cardinality(Leased') + Bit(t \in Leased)
  BY <1>1, <1>2, OneDiffers
<1>4. /\ Bit(t \in Leased) = Bit(thread[t].at \in {"ready", "parse"})
      /\ Bit(t \in Leased') = Bit(thread'[t].at \in {"ready", "parse"})
      /\ Bit(t \in Leased) \in Nat /\ Bit(t \in Leased') \in Nat
  BY DEF Leased, Bit
<1>5. arenas + Cardinality(Leased) = Arenas
  BY DEF Leased, ArenasBalanced
<1>6. arenas' + Cardinality(Leased') = Arenas
  BY <1>3, <1>4, <1>5, Sizes
<1>7. ArenasBalanced'
  BY <1>6 DEF Leased, ArenasBalanced
<1> QED BY <1>3, <1>6, <1>7, Sizes

-----------------------------------------------------------------------------
(* Shape is invariant.                                                     *)

LEMMA ShapeInit == Init => Shape
<1> SUFFICES ASSUME Init PROVE Shape
  OBVIOUS
<1> USE Sizes
<1>1. Total \in Nat /\ work \in WorkLists
  BY Lists DEF Init
<1>2. TypeOK
  <2>1. slots \in [Slots -> [start : 0 .. 3, cancel : BOOLEAN, dead : BOOLEAN,
                            available : BOOLEAN, gen : Nat, file : 0 .. Total]]
    BY <1>1 DEF Init
  <2>2. thread \in [Threads -> [at : {"idle", "lease", "ready", "parse", "report"},
                               task : Tasks \union {NoTask},
                               status : Statuses \union {"none"}]]
    BY DEF Init, IdleThread
  <2>3. 0 \in Slots /\ Len(<<>>) = 0 /\ arenas \in 0 .. Arenas
    BY DEF Init, Slots
  <2>4. /\ tasks \in Seq(Tasks) /\ results \in Seq(Results)
        /\ queue \in Seq(Results) /\ Len(queue) <= Capacity /\ persisted \in Seq(Results)
    BY <2>3 DEF Init
  <2>5. watchdog \in [on : BOOLEAN, slot : Slots \union {NoSlot}, age : 0 .. 3]
    BY DEF Init, IdleWatchdog
  <2>6. main \in [at : {"fill", "refill", "wait", "push", "join", "stop",
                       "finish", "destroy", "returned"},
                 item : Results \union {NoResult}, rc : {0, 1}]
    BY DEF Init
  <2>7. /\ persist \in [at : {"pop", "write", "exited"}, item : Results \union {NoResult}]
        /\ fatal \in BOOLEAN /\ closed \in BOOLEAN
    BY DEF Init
  <2>8. next \in 0 .. Total /\ inFlight \in 0 .. Window /\ nextSlot \in Slots
    BY <1>1, <2>3 DEF Init
  <2> QED BY <2>1, <2>2, <2>3, <2>4, <2>5, <2>6, <2>7, <2>8 DEF TypeOK
<1>3. ThreadsHoldTasks /\ SlotsHaveFiles /\ ItemsFit
  BY DEF Init, ThreadsHoldTasks, SlotsHaveFiles, ItemsFit, IdleThread, IdleWatchdog, Busy
<1>4. ArenasBalanced
  <2>1. \A t \in Threads : thread[t].at \notin {"ready", "parse"}
    BY DEF Init, IdleThread
  <2>2. Leased = {}
    BY <2>1 DEF Leased
  <2>3. Cardinality(Leased) = 0
    BY <2>2, FS_EmptySet
  <2> QED BY <2>3 DEF Init, ArenasBalanced, Leased
<1> QED BY <1>1, <1>2, <1>3, <1>4 DEF Shape

(* The files and the sets made of them are those of the work list.         *)
LEMMA SameList ==
  ASSUME UNCHANGED work
  PROVE  /\ Total' = Total /\ Files' = Files /\ Results' = Results /\ Tasks' = Tasks
         /\ Stuck' = Stuck /\ Late' = Late /\ Throws' = Throws /\ Rejected' = Rejected
         /\ Orderly' = Orderly /\ SlotStates' = SlotStates
BY DEF Total, Files, Results, Tasks, Stuck, Late, Throws, Rejected, Orderly, SlotStates

(* A slot that is given to a file.                                         *)
LEMMA SlotIsGiven ==
  ASSUME NEW s \in Slots, NEW f \in 0 .. Total, Total \in Nat,
         slots \in [Slots -> SlotStates], SubmitTo(s, f)
  PROVE  /\ slots' \in [Slots -> SlotStates]
         /\ slots'[s].gen = slots[s].gen + 1 /\ slots'[s].available = FALSE
         /\ slots'[s].file = f /\ slots'[s].start = slots[s].start
         /\ \A r \in Slots \ {s} : slots'[r] = slots[r]
<1> USE DEF SubmitTo
<1>. slots[s] \in SlotStates
  OBVIOUS
<1>1. /\ slots'[s].gen = slots[s].gen + 1 /\ slots'[s].available = FALSE
      /\ slots'[s].file = f /\ slots'[s].start = slots[s].start
  BY DEF SlotStates
<1>2. slots'[s] \in SlotStates
  <2>1. /\ slots'[s].cancel = FALSE /\ slots'[s].dead = slots[s].dead
        /\ slots'[s].available = FALSE
    BY DEF SlotStates
  <2>2. slots'[s] = [start |-> slots'[s].start, cancel |-> slots'[s].cancel,
                    dead |-> slots'[s].dead, available |-> slots'[s].available,
                    gen |-> slots'[s].gen, file |-> slots'[s].file]
    BY DEF SlotStates
  <2>3. /\ slots'[s].start \in 0 .. 3 /\ slots'[s].cancel \in BOOLEAN
        /\ slots'[s].dead \in BOOLEAN /\ slots'[s].available \in BOOLEAN
        /\ slots'[s].gen \in Nat /\ slots'[s].file \in 0 .. Total
    BY <1>1, <2>1 DEF SlotStates
  <2> QED BY <2>2, <2>3 DEF SlotStates
<1>3. \A r \in Slots \ {s} : slots'[r] = slots[r]
  OBVIOUS
<1>4. slots' \in [Slots -> {slots'[r] : r \in Slots}]
  OBVIOUS
<1>5. slots' \in [Slots -> SlotStates]
  BY <1>2, <1>3, <1>4
<1> QED BY <1>1, <1>3, <1>5

(* try_submit_one().                                                       *)
LEMMA SubmitShape ==
  ASSUME Shape, Submit, UNCHANGED work PROVE Shape'
<1> USE Sizes
<1>1. Total \in Nat /\ work' \in WorkLists
  BY Lists DEF Shape
<1>2. /\ next' \in 0 .. Total /\ inFlight' \in 0 .. Window
      /\ next + 1 \in Files
  BY <1>1 DEF Shape, TypeOK, Submit, MaySubmit, Files
<1>3. CASE UsableAhead # {} /\ SubmitTo(Candidate(Nearest), next + 1)
           /\ nextSlot' = (nextSlot + Nearest + 1) % Window /\ results' = results
  <2> DEFINE s == Candidate(Nearest)
  <2>1. s \in Slots /\ nextSlot' \in Slots
    BY <1>3, CandidateIsUsable DEF Shape, TypeOK
  <2>2. SubmitTo(s, next + 1)
        /\ tasks' = Append(tasks, [file |-> next + 1, slot |-> s, gen |-> slots[s].gen + 1])
    BY <1>3 DEF SubmitTo
  <2> HIDE DEF s
  <2>3. slots \in [Slots -> SlotStates] /\ next + 1 \in 0 .. Total
    BY <1>1, <1>2 DEF Shape, TypeOK, SlotStates, Files
  <2>4. /\ slots' \in [Slots -> SlotStates]
        /\ slots'[s].available = FALSE /\ slots'[s].file = next + 1
        /\ \A r \in Slots \ {s} : slots'[r] = slots[r]
    BY <1>1, <2>1, <2>2, <2>3, SlotIsGiven
  <2>5. tasks' \in Seq(Tasks)
    <3>1. slots[s].gen \in Nat
      BY <2>1, <2>3 DEF SlotStates
    <3>2. [file |-> next + 1, slot |-> s, gen |-> slots[s].gen + 1] \in Tasks
      BY <1>2, <2>1, <3>1 DEF Tasks
    <3> QED BY <3>2, <2>2 DEF Shape, TypeOK
  <2>6. TypeOK'
    BY <1>2, <2>1, <2>4, <2>5, <1>3, SameList DEF Shape, TypeOK, Submit, persistVars, SlotStates
  <2>7. SlotsHaveFiles'
    <3>1. next + 1 # 0
      BY <1>2 DEF Files
    <3>2. watchdog' = watchdog /\ watchdog.slot \in Slots \union {NoSlot}
      BY DEF Submit, Shape, TypeOK
    <3> QED BY <3>1, <3>2, <2>1, <2>4 DEF Shape, SlotsHaveFiles
  <2> QED BY <1>1, <2>6, <2>7, SameList DEF Shape, Submit, persistVars, ThreadsHoldTasks, ItemsFit, ArenasBalanced, Busy
<1>4. CASE /\ results' = Append(results, [file |-> next + 1, slot |-> NoSlot,
                                       status |-> "noslot"])
           /\ UNCHANGED <<nextSlot, slots, tasks>>
  <2>1. results' \in Seq(Results)
    BY <1>2, <1>4 DEF Shape, TypeOK, Results, Statuses
  <2>2. TypeOK'
    BY <1>2, <2>1, <1>4, SameList DEF Shape, TypeOK, Submit, persistVars
  <2> QED BY <1>1, <1>4, <2>2, SameList DEF Shape, Submit, persistVars, ThreadsHoldTasks, ItemsFit, ArenasBalanced, SlotsHaveFiles, Busy
<1> QED BY <1>3, <1>4 DEF Submit

(* The slot of a result that is taken.                                     *)
LEMMA SlotIsRevived ==
  ASSUME results # <<>>, results \in Seq(Results), slots \in [Slots -> SlotStates], Collect
  PROVE  /\ Head(results) \in Results
         /\ slots' \in [Slots -> SlotStates]
         /\ \A s \in Slots : /\ slots'[s].file = slots[s].file
                             /\ slots'[s].gen = slots[s].gen
                             /\ slots'[s].start = slots[s].start
                             /\ slots'[s].available =
                                  (s = Head(results).slot \/ slots[s].available)
<1> DEFINE s == Head(results).slot
<1>1. Head(results) \in Results /\ s \in Slots \union {NoSlot} /\ NoSlot \notin Slots
  <2>1. Head(results) \in Results
    OBVIOUS
  <2>2. NoSlot \notin Slots
    BY Sizes DEF NoSlot, Slots
  <2> QED BY <2>1, <2>2 DEF Results
<1>2. slots' = IF s = NoSlot THEN slots
               ELSE [slots EXCEPT ![s].dead = FALSE, ![s].available = TRUE]
  BY DEF Collect
<1> HIDE DEF s
<1>3. CASE s = NoSlot
  BY <1>1, <1>2, <1>3 DEF SlotStates, s
<1>4. CASE s \in Slots
  <2> slots[s] \in SlotStates
    BY <1>4
  <2>1. slots' = [slots EXCEPT ![s].dead = FALSE, ![s].available = TRUE]
    BY <1>1, <1>2, <1>4
  <2>2. /\ slots'[s].gen = slots[s].gen /\ slots'[s].available = TRUE
        /\ slots'[s].file = slots[s].file /\ slots'[s].start = slots[s].start
    BY <1>4, <2>1 DEF SlotStates
  <2>3. slots'[s] \in SlotStates
    <3>1. /\ slots'[s].cancel = slots[s].cancel /\ slots'[s].dead = FALSE
          /\ slots'[s] = [start |-> slots'[s].start, cancel |-> slots'[s].cancel,
                          dead |-> slots'[s].dead, available |-> slots'[s].available,
                          gen |-> slots'[s].gen, file |-> slots'[s].file]
      BY <1>4, <2>1 DEF SlotStates
    <3>2. /\ slots'[s].start \in 0 .. 3 /\ slots'[s].cancel \in BOOLEAN
          /\ slots'[s].dead \in BOOLEAN /\ slots'[s].available \in BOOLEAN
          /\ slots'[s].gen \in Nat /\ slots'[s].file \in 0 .. Total
      BY <2>2, <3>1 DEF SlotStates
    <3> QED BY <3>1, <3>2 DEF SlotStates
  <2>4. \A r \in Slots \ {s} : slots'[r] = slots[r]
    BY <1>4, <2>1
  <2>5. slots' \in [Slots -> {slots'[r] : r \in Slots}]
    BY <1>4, <2>1
  <2>6. slots' \in [Slots -> SlotStates]
    BY <2>3, <2>4, <2>5
  <2>7. \A r \in Slots : slots[r].available \in BOOLEAN
    BY DEF SlotStates
  <2> QED BY <1>1, <1>4, <2>2, <2>4, <2>6, <2>7 DEF s
<1> QED BY <1>1, <1>3, <1>4

(* The other steps of the main thread.                                     *)
LEMMA MainShape ==
  ASSUME Shape, Main, UNCHANGED work PROVE Shape'
<1> USE Sizes
<1>1. Total \in Nat /\ work' \in WorkLists
  BY Lists DEF Shape
<1> USE SameList DEF Shape, TypeOK, ThreadsHoldTasks, SlotsHaveFiles, ItemsFit, ArenasBalanced,
                     Busy, persistVars, MainGoto
<1>2. CASE Submit
  <2> USE DEF Shape
  <2> QED BY <1>2, SubmitShape
<1>3. CASE FillDone
  BY <1>1, <1>3 DEF FillDone
<1>4. CASE Collect
  <2>1. results # <<>> /\ results' \in Seq(Results)
    BY <1>4 DEF Collect
  <2>2. slots \in [Slots -> SlotStates]
    BY DEF SlotStates
  <2>3. /\ Head(results) \in Results
        /\ slots' \in [Slots -> SlotStates]
        /\ \A s \in Slots : /\ slots'[s].file = slots[s].file
                            /\ slots[s].available => slots'[s].available
    BY <1>4, <2>1, <2>2, SlotIsRevived
  <2>4. /\ main' = [main EXCEPT !.at = "refill", !.item = Head(results)]
        /\ inFlight' \in 0 .. Window
    BY <1>4 DEF Collect
  <2>5. /\ main'.at = "refill" /\ main'.item = Head(results) /\ main'.rc = main.rc
        /\ main' \in [at : {"refill"}, item : Results, rc : {0, 1}]
    BY <2>3, <2>4
  <2>6. TypeOK'
    BY <1>4, <2>1, <2>3, <2>4, <2>5 DEF Collect, SlotStates
  <2>7. SlotsHaveFiles'
    <3>1. watchdog' = watchdog /\ watchdog.slot \in Slots \union {NoSlot}
      BY <1>4 DEF Collect
    <3>2. SlotsHaveFiles
      OBVIOUS
    <3> QED BY ONLY <2>3, <3>1, <3>2 DEF SlotsHaveFiles
  <2> QED BY <1>1, <1>4, <2>5, <2>6, <2>7 DEF Collect
<1>5. CASE Push
  <2>1. main.item \in Results /\ queue' \in Seq(Results) /\ Len(queue') <= Capacity
    BY <1>5 DEF Push
  <2>2. main' \in [at : {"wait"}, item : {NoResult}, rc : {0, 1}]
    BY <1>5 DEF Push
  <2> QED BY <1>1, <1>5, <2>1, <2>2 DEF Push
<1>6. CASE CloseQueue
  BY <1>1, <1>6 DEF CloseQueue
<1>7. CASE JoinPersist
  BY <1>1, <1>7 DEF JoinPersist
<1>8. CASE StopWatchdog
  BY <1>1, <1>8 DEF StopWatchdog
<1>9. CASE Finish
  BY <1>1, <1>9 DEF Finish
<1>10. CASE Destroy
  BY <1>1, <1>10 DEF Destroy
<1> QED BY <1>2, <1>3, <1>4, <1>5, <1>6, <1>7, <1>8, <1>9, <1>10 DEF Main

ThreadStates == [at : {"idle", "lease", "ready", "parse", "report"},
                 task : Tasks \union {NoTask}, status : Statuses \union {"none"}]

(* A thread that goes on with its task.                                    *)
LEMMA ThreadGoesOn ==
  ASSUME Shape, NEW t \in Threads, UNCHANGED <<work, mainVars, tasks, watchdog, persistVars>>,
         thread[t].at # "idle", thread'[t].task = thread[t].task,
         thread'[t].at \in {"lease", "ready", "parse", "report"},
         thread'[t].at = "report" => thread'[t].status \in Statuses,
         thread' \in [Threads -> ThreadStates],
         \A u \in Threads \ {t} : thread'[u] = thread[u],
         slots' \in [Slots -> SlotStates],
         \A s \in Slots : slots'[s].file = slots[s].file
                         /\ slots'[s].available = slots[s].available,
         results' = results,
         arenas' \in Nat,
         arenas' + Bit(thread'[t].at \in {"ready", "parse"})
           = arenas + Bit(thread[t].at \in {"ready", "parse"})
  PROVE  Shape'
<1>1. Total \in Nat /\ work' \in WorkLists
  BY Lists DEF Shape
<1>2. ArenasBalanced' /\ arenas' \in 0 .. Arenas
  BY Sizes, LeasedMoves DEF Shape, TypeOK
<1>3. TypeOK'
  BY <1>1, <1>2, SameList DEF Shape, TypeOK, mainVars, persistVars, SlotStates, ThreadStates
<1>4. ThreadsHoldTasks'
  BY SameList DEF Shape, ThreadsHoldTasks, Busy
<1>5. SlotsHaveFiles'
  BY DEF Shape, SlotsHaveFiles, TypeOK
<1>6. ItemsFit'
  BY SameList DEF Shape, ItemsFit, mainVars, persistVars
<1> QED BY <1>1, <1>2, <1>3, <1>4, <1>5, <1>6 DEF Shape

LEMMA SlotTypes ==
  ASSUME TypeOK
  PROVE  slots \in [Slots -> SlotStates] /\ thread \in [Threads -> ThreadStates]
BY DEF TypeOK, SlotStates, ThreadStates

(* A thread whose parse has ended, or never began.                         *)
Reported(t, status) ==
  /\ thread'[t].at = "report" /\ thread'[t].task = thread[t].task
  /\ thread'[t].status = status
  /\ thread' \in [Threads -> ThreadStates]
  /\ \A u \in Threads \ {t} : thread'[u] = thread[u]

LEMMA ThreadReports ==
  ASSUME NEW t \in Threads, NEW status \in Statuses, thread \in [Threads -> ThreadStates],
         thread' = [thread EXCEPT ![t].at = "report", ![t].status = status]
  PROVE  Reported(t, status)
<1>1. /\ thread'[t].at = "report" /\ thread'[t].task = thread[t].task
      /\ thread'[t].status = status
  BY DEF ThreadStates
<1>2. \A u \in Threads \ {t} : thread'[u] = thread[u]
  OBVIOUS
<1>3. thread'[t] \in ThreadStates
  <2>1. thread'[t] = [at |-> thread'[t].at, task |-> thread'[t].task,
                      status |-> thread'[t].status]
    BY DEF ThreadStates
  <2> QED BY <1>1, <2>1 DEF ThreadStates
<1>4. thread' \in [Threads -> {thread'[u] : u \in Threads}]
  OBVIOUS
<1>5. thread' \in [Threads -> ThreadStates]
  BY <1>2, <1>3, <1>4
<1> QED BY <1>1, <1>2, <1>5 DEF Reported

(* The slot of a parse that starts, and one that is declared dead.         *)
LEMMA SlotStarts ==
  ASSUME NEW t \in Threads, thread[t].task \in Tasks, slots \in [Slots -> SlotStates],
         StartParse(t)
  PROVE  /\ slots' \in [Slots -> SlotStates]
         /\ \A s \in Slots : /\ slots'[s].file = slots[s].file
                             /\ slots'[s].gen = slots[s].gen
                             /\ slots'[s].available = slots[s].available
                             /\ slots'[s].start =
                                  IF s = thread[t].task.slot THEN 1 ELSE slots[s].start
<1> DEFINE s == thread[t].task.slot
<1>1. s \in Slots
  BY DEF Tasks
<1>2. slots' = [slots EXCEPT ![s].cancel = FALSE, ![s].start = 1]
  BY DEF StartParse
<1> HIDE DEF s
<1> slots[s] \in SlotStates
  BY <1>1
<1>3. /\ slots'[s].file = slots[s].file /\ slots'[s].gen = slots[s].gen
      /\ slots'[s].available = slots[s].available /\ slots'[s].start = 1
  BY <1>1, <1>2 DEF SlotStates
<1>4. slots'[s] \in SlotStates
  <2>1. /\ slots'[s].cancel = FALSE /\ slots'[s].dead = slots[s].dead
        /\ slots'[s] = [start |-> slots'[s].start, cancel |-> slots'[s].cancel,
                        dead |-> slots'[s].dead, available |-> slots'[s].available,
                        gen |-> slots'[s].gen, file |-> slots'[s].file]
    BY <1>1, <1>2 DEF SlotStates
  <2>2. /\ slots[s].cancel \in BOOLEAN /\ slots[s].dead \in BOOLEAN
        /\ slots[s].available \in BOOLEAN
        /\ slots[s].gen \in Nat /\ slots[s].file \in 0 .. Total
    BY <1>2 DEF SlotStates
  <2>3. /\ slots'[s].start \in 0 .. 3
        /\ slots'[s].gen \in Nat /\ slots'[s].file \in 0 .. Total
    BY <1>3, <2>2
  <2>4. /\ slots'[s].cancel \in BOOLEAN /\ slots'[s].dead \in BOOLEAN
        /\ slots'[s].available \in BOOLEAN
    BY <1>3, <2>1, <2>2, Zenon
  <2> QED BY <2>1, <2>3, <2>4 DEF SlotStates
<1>5. \A r \in Slots \ {s} : slots'[r] = slots[r]
  BY <1>1, <1>2
<1>6. slots' \in [Slots -> {slots'[r] : r \in Slots}]
  BY <1>1, <1>2
<1>7. slots' \in [Slots -> SlotStates]
  BY <1>4, <1>5, <1>6
<1> QED BY <1>3, <1>5, <1>7 DEF s

LEMMA SlotIsKilled ==
  ASSUME watchdog.slot \in Slots, slots \in [Slots -> SlotStates], Kill
  PROVE  /\ slots' \in [Slots -> SlotStates]
         /\ \A s \in Slots : /\ slots'[s].file = slots[s].file
                             /\ slots'[s].available = slots[s].available
         /\ slots'[watchdog.slot].gen = slots[watchdog.slot].gen + 1
         /\ slots'[watchdog.slot].start = 0
         /\ \A s \in Slots \ {watchdog.slot} : slots'[s] = slots[s]
<1> DEFINE s == watchdog.slot
<1>1. slots' = [slots EXCEPT ![s].dead = TRUE, ![s].gen = @ + 1, ![s].start = 0]
  BY DEF Kill
<1> HIDE DEF s
<1>2. s \in Slots /\ slots[s] \in SlotStates
  BY DEF s
<1>3. /\ slots'[s].file = slots[s].file /\ slots'[s].gen = slots[s].gen + 1
      /\ slots'[s].available = slots[s].available /\ slots'[s].start = 0
  BY <1>1, <1>2 DEF SlotStates
<1>4. slots'[s] \in SlotStates
  <2>1. /\ slots'[s].cancel = slots[s].cancel /\ slots'[s].dead = TRUE
        /\ slots'[s] = [start |-> slots'[s].start, cancel |-> slots'[s].cancel,
                        dead |-> slots'[s].dead, available |-> slots'[s].available,
                        gen |-> slots'[s].gen, file |-> slots'[s].file]
    BY <1>1, <1>2 DEF SlotStates
  <2>2. /\ slots[s].cancel \in BOOLEAN /\ slots[s].dead \in BOOLEAN
        /\ slots[s].available \in BOOLEAN
        /\ slots[s].gen \in Nat /\ slots[s].file \in 0 .. Total
    BY <1>2 DEF SlotStates
  <2>3. /\ slots'[s].start \in 0 .. 3
        /\ slots'[s].gen \in Nat /\ slots'[s].file \in 0 .. Total
    BY <1>3, <2>2
  <2>4. /\ slots'[s].cancel \in BOOLEAN /\ slots'[s].dead \in BOOLEAN
        /\ slots'[s].available \in BOOLEAN
    BY <1>3, <2>1, <2>2, Zenon
  <2> QED BY <2>1, <2>3, <2>4 DEF SlotStates
<1>5. \A r \in Slots \ {s} : slots'[r] = slots[r]
  BY <1>1, <1>2
<1>6. slots' \in [Slots -> {slots'[r] : r \in Slots}]
  BY <1>1, <1>2
<1>7. slots' \in [Slots -> SlotStates]
  BY <1>4, <1>5, <1>6
<1> QED BY <1>3, <1>5, <1>7 DEF s

(* The steps of a thread of the pool.                                      *)
LEMMA WorkerShape ==
  ASSUME Shape, NEW t \in Threads, Worker(t), UNCHANGED work PROVE Shape'
<1> USE Sizes
<1>1. Total \in Nat /\ work' \in WorkLists
  BY Lists DEF Shape
<1>2. slots \in [Slots -> SlotStates] /\ thread \in [Threads -> ThreadStates] /\ arenas \in 0 .. Arenas
  BY SlotTypes DEF Shape, TypeOK
<1>3. Busy(t) => thread[t].task \in Tasks
  BY DEF Shape, ThreadsHoldTasks
<1>4. CASE Take(t)
  <2> USE <1>4 DEF Take
  <2>1. Head(tasks) \in Tasks /\ tasks' \in Seq(Tasks)
    BY DEF Shape, TypeOK
  <2>2. thread' = [thread EXCEPT ![t].at = "lease", ![t].task = Head(tasks)]
    OBVIOUS
  <2>3. /\ thread'[t].at = "lease" /\ thread'[t].task = Head(tasks)
        /\ thread'[t].status = thread[t].status
    BY <1>2, <2>2 DEF ThreadStates
  <2>4. thread' \in [Threads -> ThreadStates] /\ \A u \in Threads \ {t} : thread'[u] = thread[u]
    <3>1. \A u \in Threads \ {t} : thread'[u] = thread[u]
      BY <1>2, <2>2
    <3>2. thread'[t] \in ThreadStates
      <4>1. thread'[t] = [at |-> thread'[t].at, task |-> thread'[t].task,
                          status |-> thread'[t].status]
        BY <1>2, <2>2 DEF ThreadStates
      <4> QED BY <1>2, <2>1, <2>3, <4>1 DEF ThreadStates
    <3>3. thread' \in [Threads -> {thread'[u] : u \in Threads}]
      BY <1>2, <2>2
    <3> QED BY <1>2, <3>1, <3>2, <3>3
  <2>5. ArenasBalanced'
    <3>1. Bit(thread'[t].at \in {"ready", "parse"}) = Bit(thread[t].at \in {"ready", "parse"})
      BY <2>3 DEF Bit
    <3> QED BY <1>2, <2>4, <3>1, LeasedMoves DEF Shape
  <2>6. TypeOK'
    BY <1>1, <2>1, <2>4, SameList DEF Shape, TypeOK, mainVars, persistVars, ThreadStates
  <2>7. ThreadsHoldTasks'
    BY <2>1, <2>3, <2>4, SameList DEF Shape, ThreadsHoldTasks, Busy
  <2> QED BY <1>1, <2>5, <2>6, <2>7, SameList DEF Shape, SlotsHaveFiles, ItemsFit, mainVars, persistVars
<1>5. CASE Lease(t)
  <2>1. arenas' \in Nat /\ arenas' = arenas - 1
    BY <1>2, <1>5 DEF Lease
  <2>2. /\ thread[t].at = "lease" /\ thread' = [thread EXCEPT ![t].at = "ready"]
        /\ thread'[t].at = "ready" /\ thread'[t].task = thread[t].task
        /\ thread' \in [Threads -> ThreadStates] /\ \A u \in Threads \ {t} : thread'[u] = thread[u]
    BY <1>2, <1>5 DEF Lease, ThreadGoto, ThreadStates
  <2>3. arenas' + Bit(thread'[t].at \in {"ready", "parse"})
           = arenas + Bit(thread[t].at \in {"ready", "parse"})
    BY <1>2, <2>1, <2>2 DEF Bit
  <2> QED BY <1>2, <2>1, <2>2, <2>3, <1>5, ThreadGoesOn DEF Lease
<1>6. CASE Reject(t)
  <2>1. /\ thread[t].at \in {"lease", "ready"} /\ thread' = [thread EXCEPT ![t].at = "report", ![t].status = "failed"]
        /\ arenas' = arenas + Bit(thread[t].at = "ready")
    BY <1>2, <1>6 DEF Reject, Reports, Bit
  <2>2. Reported(t, "failed")
    BY <1>2, <2>1, ThreadReports DEF Statuses
  <2>3. /\ arenas' \in Nat
        /\ arenas' + Bit(thread'[t].at \in {"ready", "parse"})
           = arenas + Bit(thread[t].at \in {"ready", "parse"})
    BY <1>2, <2>1, <2>2 DEF Bit, Reported
  <2> QED BY <1>2, <2>1, <2>2, <2>3, <1>6, ThreadGoesOn DEF Reject, Reported, Statuses
<1>7. CASE StartParse(t)
  <2>1. /\ thread[t].at = "ready" /\ thread' = [thread EXCEPT ![t].at = "parse"]
        /\ thread'[t].at = "parse" /\ thread'[t].task = thread[t].task
        /\ thread' \in [Threads -> ThreadStates] /\ \A u \in Threads \ {t} : thread'[u] = thread[u]
    BY <1>2, <1>7 DEF StartParse, ThreadGoto, ThreadStates
  <2>2. /\ slots' \in [Slots -> SlotStates]
        /\ \A s \in Slots : slots'[s].file = slots[s].file
                           /\ slots'[s].available = slots[s].available
    BY <1>2, <1>3, <2>1, <1>7, SlotStarts DEF Busy
  <2>3. /\ arenas' \in Nat
        /\ arenas' + Bit(thread'[t].at \in {"ready", "parse"})
           = arenas + Bit(thread[t].at \in {"ready", "parse"})
    BY <1>2, <2>1, <1>7 DEF Bit, StartParse
  <2> QED BY <1>2, <2>1, <2>2, <2>3, <1>7, ThreadGoesOn DEF StartParse
<1>8. CASE EndParse(t)
  <2> DEFINE status == IF slots[thread[t].task.slot].cancel THEN "cancelled" ELSE "ok"
  <2>1. /\ thread[t].at = "parse" /\ thread' = [thread EXCEPT ![t].at = "report", ![t].status = status]
        /\ arenas' = arenas + 1 /\ status \in Statuses
        /\ slots' = [slots EXCEPT ![thread[t].task.slot].start = 0]
    BY <1>2, <1>8 DEF EndParse, Reports, Statuses
  <2> HIDE DEF status
  <2>2. Reported(t, status)
    BY <1>2, <2>1, ThreadReports
  <2>3. /\ slots' \in [Slots -> SlotStates]
        /\ \A s \in Slots : slots'[s].file = slots[s].file
                           /\ slots'[s].available = slots[s].available
    BY <1>2, <1>3, <2>1 DEF SlotStates, Tasks, Busy
  <2>4. /\ arenas' \in Nat
        /\ arenas' + Bit(thread'[t].at \in {"ready", "parse"})
           = arenas + Bit(thread[t].at \in {"ready", "parse"})
    BY <1>2, <2>1, <2>2 DEF Bit, Reported
  <2> QED BY <1>2, <2>1, <2>2, <2>3, <2>4, <1>8, ThreadGoesOn DEF EndParse, Reported
<1>9. CASE ThrowParse(t)
  <2>1. /\ thread[t].at = "parse" /\ thread' = [thread EXCEPT ![t].at = "report", ![t].status = "failed"]
        /\ arenas' = arenas + 1
    BY <1>2, <1>9 DEF ThrowParse, Reports
  <2>2. Reported(t, "failed")
    BY <1>2, <2>1, ThreadReports DEF Statuses
  <2>3. /\ arenas' \in Nat
        /\ arenas' + Bit(thread'[t].at \in {"ready", "parse"})
           = arenas + Bit(thread[t].at \in {"ready", "parse"})
    BY <1>2, <2>1, <2>2 DEF Bit, Reported
  <2> QED BY <1>2, <2>1, <2>2, <2>3, <1>9, ThreadGoesOn DEF ThrowParse, Reported, Statuses
<1>10. CASE Report(t)
  <2> USE <1>10 DEF Report
  <2>1. /\ thread[t].at = "report" /\ thread[t].task \in Tasks /\ thread[t].status \in Statuses
    BY <1>3 DEF Busy, Shape, ThreadsHoldTasks
  <2>2. results' \in Seq(Results)
    <3>1. [file |-> thread[t].task.file, slot |-> thread[t].task.slot,
           status |-> thread[t].status] \in Results
      BY <2>1 DEF Tasks, Results
    <3> QED BY <3>1 DEF Shape, TypeOK
  <2>3. /\ thread'[t] = IdleThread
        /\ thread' \in [Threads -> ThreadStates] /\ \A u \in Threads \ {t} : thread'[u] = thread[u]
    BY <1>2 DEF IdleThread, ThreadStates
  <2>4. ArenasBalanced'
    <3>1. Bit(thread'[t].at \in {"ready", "parse"}) = Bit(thread[t].at \in {"ready", "parse"})
      BY <2>1, <2>3 DEF Bit, IdleThread
    <3> QED BY <1>2, <2>3, <3>1, LeasedMoves DEF Shape
  <2>5. TypeOK'
    BY <1>1, <2>2, <2>3, SameList DEF Shape, TypeOK, mainVars, persistVars, ThreadStates
  <2>6. ThreadsHoldTasks'
    BY <2>3, SameList DEF Shape, ThreadsHoldTasks, Busy, IdleThread
  <2> QED BY <1>1, <2>4, <2>5, <2>6, SameList DEF Shape, SlotsHaveFiles, ItemsFit, mainVars, persistVars
<1> QED BY <1>4, <1>5, <1>6, <1>7, <1>8, <1>9, <1>10 DEF Worker

(* A parse grows older, or the watchdog reads its age.                     *)
LEMMA ClockShape ==
  ASSUME Shape, NEW s \in Slots, Age(s) \/ Inspect(s), UNCHANGED work PROVE Shape'
<1>1. Total \in Nat /\ work' \in WorkLists
  BY Lists DEF Shape
<1>2. slots \in [Slots -> SlotStates]
  BY SlotTypes DEF Shape
<1>3. CASE Age(s)
  <2>1. /\ slots' \in [Slots -> SlotStates]
        /\ \A r \in Slots : slots'[r].file = slots[r].file
                           /\ slots'[r].available = slots[r].available
    BY <1>2, <1>3 DEF Age, SlotStates
  <2>2. TypeOK'
    BY <1>1, <1>3, <2>1, SameList DEF Shape, TypeOK, Age, mainVars, persistVars, SlotStates
  <2>3. SlotsHaveFiles'
    BY <1>3, <2>1 DEF Shape, SlotsHaveFiles, TypeOK, Age
  <2> QED BY <1>1, <1>3, <2>2, <2>3, SameList DEF Shape, Age, ThreadsHoldTasks, ItemsFit, ArenasBalanced, Busy, mainVars, persistVars
<1>4. CASE Inspect(s)
  <2>1. /\ watchdog' = [watchdog EXCEPT !.slot = s, !.age = slots[s].start]
        /\ slots[s].start \in {2, 3} /\ ~slots[s].available
    BY <1>2, <1>4 DEF Inspect, SlotStates
  <2>2. watchdog'.slot = s /\ watchdog'.age \in {2, 3}
        /\ watchdog' \in [on : BOOLEAN, slot : Slots \union {NoSlot}, age : 0 .. 3]
    BY <2>1 DEF Shape, TypeOK
  <2>3. TypeOK'
    BY <1>1, <1>4, <2>2, SameList DEF Shape, TypeOK, Inspect, mainVars, persistVars
  <2>4. SlotsHaveFiles'
    BY <1>4, <2>1, <2>2 DEF Shape, SlotsHaveFiles, Inspect
  <2> QED BY <1>1, <1>4, <2>3, <2>4, SameList DEF Shape, Inspect, ThreadsHoldTasks, ItemsFit, ArenasBalanced, Busy, mainVars, persistVars
<1> QED BY <1>3, <1>4

(* What the watchdog does to a slot.                                       *)
LEMMA WatchdogShape ==
  ASSUME Shape, AskToStop \/ Kill, UNCHANGED work PROVE Shape'
<1>1. Total \in Nat /\ work' \in WorkLists
  BY Lists DEF Shape
<1>2. slots \in [Slots -> SlotStates]
  BY SlotTypes DEF Shape
<1>3. watchdog' = IdleWatchdog /\ watchdog.slot \in Slots /\ watchdog'.slot = NoSlot
      /\ watchdog' \in [on : BOOLEAN, slot : Slots \union {NoSlot}, age : 0 .. 3]
  <2>1. watchdog' = IdleWatchdog /\ watchdog.slot # NoSlot
    BY DEF AskToStop, Kill
  <2>2. watchdog.slot \in Slots \union {NoSlot}
    BY DEF Shape, TypeOK
  <2> QED BY <2>1, <2>2 DEF IdleWatchdog
<1>4. CASE AskToStop
  <2>1. /\ slots' \in [Slots -> SlotStates]
        /\ \A r \in Slots : slots'[r].file = slots[r].file
                           /\ slots'[r].available = slots[r].available
    BY <1>2, <1>3, <1>4 DEF AskToStop, SlotStates
  <2>2. TypeOK'
    BY <1>1, <1>3, <1>4, <2>1, SameList DEF Shape, TypeOK, AskToStop, mainVars, persistVars, SlotStates
  <2>3. SlotsHaveFiles'
    BY <1>3, <2>1 DEF Shape, SlotsHaveFiles
  <2> QED BY <1>1, <1>4, <2>2, <2>3, SameList DEF Shape, AskToStop, ThreadsHoldTasks, ItemsFit, ArenasBalanced, Busy, mainVars, persistVars
<1>5. CASE Kill
  <2>1. /\ slots' \in [Slots -> SlotStates]
        /\ \A r \in Slots : slots'[r].file = slots[r].file
                           /\ slots'[r].available = slots[r].available
    BY <1>2, <1>3, <1>5, SlotIsKilled
  <2>2. results' \in Seq(Results)
    <3>1. slots[watchdog.slot].file \in Files
      <4>1. watchdog.slot # NoSlot
        BY <1>3, Sizes DEF NoSlot, Slots
      <4>2. slots[watchdog.slot].file # 0 /\ slots[watchdog.slot].file \in 0 .. Total
        BY <1>2, <1>3, <4>1 DEF SlotStates, Shape, SlotsHaveFiles
      <4> QED BY <1>1, <4>2 DEF Files
    <3>2. [file |-> slots[watchdog.slot].file, slot |-> watchdog.slot, status |-> "killed"] \in Results
      BY <1>3, <3>1 DEF Results, Statuses
    <3> QED BY <1>5, <3>2 DEF Kill, Shape, TypeOK
  <2>3. TypeOK'
    BY <1>1, <1>3, <1>5, <2>1, <2>2, SameList DEF Shape, TypeOK, Kill, mainVars, persistVars, SlotStates
  <2>4. SlotsHaveFiles'
    BY <1>3, <2>1 DEF Shape, SlotsHaveFiles
  <2> QED BY <1>1, <1>5, <2>3, <2>4, SameList DEF Shape, Kill, ThreadsHoldTasks, ItemsFit, ArenasBalanced, Busy, mainVars, persistVars
<1> QED BY <1>4, <1>5

(* The steps of the persist thread.                                        *)
LEMMA PersistShape ==
  ASSUME Shape, Persist, UNCHANGED work PROVE Shape'
<1>1. Total \in Nat /\ work' \in WorkLists
  BY Lists DEF Shape
<1> USE SameList, Sizes DEF Shape, TypeOK, ThreadsHoldTasks, SlotsHaveFiles, ItemsFit, ArenasBalanced,
                     Busy, mainVars
<1>2. CASE PersistPop
  <2>1. queue # <<>> /\ Head(queue) \in Results /\ queue' \in Seq(Results) /\ Len(queue') <= Capacity
    BY <1>2 DEF PersistPop
  <2> QED BY <1>1, <1>2, <2>1 DEF PersistPop
<1>3. CASE PersistWrite
  <2>1. persist.item \in Results /\ persisted' \in Seq(Results)
    BY <1>3 DEF PersistWrite
  <2> QED BY <1>1, <1>3, <2>1 DEF PersistWrite
<1>4. CASE PersistEnd
  BY <1>1, <1>4 DEF PersistEnd
<1>5. CASE PersistFail
  BY <1>1, <1>5 DEF PersistFail
<1> QED BY <1>2, <1>3, <1>4, <1>5 DEF Persist

(* Every step.                                                             *)
LEMMA ShapeStep ==
  ASSUME Shape, Next, UNCHANGED work PROVE Shape'
<1>1. CASE Terminated
  BY <1>1, SameList DEF Terminated, vars, Shape, TypeOK, ThreadsHoldTasks, SlotsHaveFiles, ItemsFit, ArenasBalanced,
                     Busy, mainVars, persistVars
<1> QED BY <1>1, MainShape, WorkerShape, ClockShape, WatchdogShape, PersistShape DEF Next

-----------------------------------------------------------------------------
(* Progress is invariant.                                                  *)

LEMMA ProgressInit == Init => Progress
BY DEF Init, Progress, Ended

(* No step of any thread sets the main thread's view of its end back: a    *)
(* failure of the persist thread closes the queue, and only then may the   *)
(* loop go on over a closed one.                                           *)
LEMMA ProgressStep ==
  ASSUME Shape, Progress, Next, UNCHANGED work PROVE Progress'
<1> USE Sizes, SameList DEF Progress, Ended
<1>1. /\ Total \in Nat /\ next \in 0 .. Total /\ inFlight \in 0 .. Window
      /\ main.at \in {"fill", "refill", "wait", "push", "join", "stop",
                     "finish", "destroy", "returned"}
      /\ persist.at \in {"pop", "write", "exited"}
      /\ main \in [at : {"fill", "refill", "wait", "push", "join", "stop",
                        "finish", "destroy", "returned"},
                  item : Results \union {NoResult}, rc : {0, 1}]
      /\ persist \in [at : {"pop", "write", "exited"}, item : Results \union {NoResult}]
      /\ queue \in Seq(Results)
  BY Lists DEF Shape, TypeOK
<1>2. CASE Submit
  BY <1>1, <1>2 DEF Submit, MaySubmit, persistVars
<1>3. CASE FillDone
  BY <1>1, <1>3 DEF FillDone, MainGoto, MaySubmit, persistVars
<1>4. CASE Collect
  BY <1>1, <1>4 DEF Collect, persistVars
<1>5. CASE Push
  <2>1. /\ main.at = "push" /\ main'.at = "wait" /\ main'.rc = main.rc
        /\ closed => queue' = queue
        /\ UNCHANGED <<next, inFlight, closed, persist, fatal>>
    BY <1>1, <1>5 DEF Push
  <2> QED BY <1>1, <2>1
<1>6. CASE CloseQueue
  BY <1>1, <1>6 DEF CloseQueue, MainGoto
<1>7. CASE JoinPersist
  BY <1>1, <1>7 DEF JoinPersist, MainGoto, persistVars
<1>8. CASE StopWatchdog
  BY <1>1, <1>8 DEF StopWatchdog, MainGoto, persistVars
<1>9. CASE Finish
  BY <1>1, <1>9 DEF Finish, persistVars
<1>10. CASE Destroy
  BY <1>1, <1>10 DEF Destroy, MainGoto, persistVars
<1>11. CASE Persist
  <2>1. CASE PersistPop
    BY <1>1, <2>1 DEF PersistPop, mainVars
  <2>2. CASE PersistWrite
    BY <1>1, <2>2 DEF PersistWrite, mainVars
  <2>3. CASE PersistEnd
    BY <1>1, <2>3 DEF PersistEnd, mainVars
  <2>4. CASE PersistFail
    BY <1>1, <2>4 DEF PersistFail, mainVars
  <2> QED BY <1>11, <2>1, <2>2, <2>3, <2>4 DEF Persist
<1>12. CASE UNCHANGED <<mainVars, persistVars>>
  BY <1>1, <1>12 DEF mainVars, persistVars
<1>13. \A t \in Threads : Worker(t) => UNCHANGED <<mainVars, persistVars>>
  BY DEF Worker, Take, Lease, Reject, StartParse, EndParse, ThrowParse, Report
<1>14. AskToStop \/ Kill \/ Terminated \/ (\E s \in Slots : Age(s) \/ Inspect(s)) => UNCHANGED <<mainVars, persistVars>>
  BY DEF AskToStop, Kill, Terminated, Age, Inspect, vars
<1> QED BY <1>2, <1>3, <1>4, <1>5, <1>6, <1>7, <1>8, <1>9, <1>10, <1>11, <1>12, <1>13, <1>14 DEF Next, Main

-----------------------------------------------------------------------------
(* Counting files and slots.                                               *)

OfFile(T, f) == {x \in T : x.file = f}

(* Occurrences of a file, as a count of the kind above.                    *)
LEMMA OccurrencesWhere ==
  ASSUME NEW T, NEW seq \in Seq(T), NEW f
  PROVE  /\ Occurrences(seq, f) = Cardinality(Where(seq, OfFile(T, f)))
         /\ Occurrences(seq, f) \in Nat
<1>1. {i \in DOMAIN seq : seq[i].file = f} = Where(seq, OfFile(T, f))
  BY DEF Where, OfFile
<1>2. Occurrences(seq, f) = Cardinality(Where(seq, OfFile(T, f)))
  BY <1>1 DEF Occurrences
<1> QED BY <1>2, WhereFinite

(* What Append and Tail do to them.                                        *)
LEMMA OccurrencesGrow ==
  ASSUME NEW T, NEW seq \in Seq(T), NEW e \in T, NEW f
  PROVE  Occurrences(Append(seq, e), f) = Occurrences(seq, f) + Bit(e.file = f)
<1>1. Append(seq, e) \in Seq(T) /\ Bit(e \in OfFile(T, f)) = Bit(e.file = f)
  BY DEF Bit, OfFile
<1>2. Occurrences(seq, f) = Cardinality(Where(seq, OfFile(T, f)))
  BY OccurrencesWhere
<1>3. Occurrences(Append(seq, e), f) = Cardinality(Where(Append(seq, e), OfFile(T, f)))
  BY <1>1, OccurrencesWhere
<1>4. Cardinality(Where(Append(seq, e), OfFile(T, f))) = Cardinality(Where(seq, OfFile(T, f))) + Bit(e \in OfFile(T, f))
  BY CountAppend
<1> QED BY <1>1, <1>2, <1>3, <1>4

LEMMA OccurrencesShrink ==
  ASSUME NEW T, NEW seq \in Seq(T), seq # <<>>, NEW f
  PROVE  Occurrences(seq, f) = Occurrences(Tail(seq), f) + Bit(Head(seq).file = f)
<1>1. Tail(seq) \in Seq(T) /\ Bit(Head(seq) \in OfFile(T, f)) = Bit(Head(seq).file = f)
  BY DEF Bit, OfFile
<1>2. Occurrences(seq, f) = Cardinality(Where(seq, OfFile(T, f)))
  BY OccurrencesWhere
<1>3. Occurrences(Tail(seq), f) = Cardinality(Where(Tail(seq), OfFile(T, f)))
  BY <1>1, OccurrencesWhere
<1>4. Cardinality(Where(seq, OfFile(T, f))) = Cardinality(Where(Tail(seq), OfFile(T, f))) + Bit(Head(seq) \in OfFile(T, f))
  BY CountTail
<1> QED BY <1>1, <1>2, <1>3, <1>4

OfSlot(T, s) == {x \in T : x.slot = s}

(* The same for slots.                                                     *)
LEMMA OnSlotWhere ==
  ASSUME NEW T, NEW seq \in Seq(T), NEW s
  PROVE  /\ OnSlot(seq, s) = Cardinality(Where(seq, OfSlot(T, s)))
         /\ OnSlot(seq, s) \in Nat
<1>1. {i \in DOMAIN seq : seq[i].slot = s} = Where(seq, OfSlot(T, s))
  BY DEF Where, OfSlot
<1>2. OnSlot(seq, s) = Cardinality(Where(seq, OfSlot(T, s)))
  BY <1>1 DEF OnSlot
<1> QED BY <1>2, WhereFinite

LEMMA OnSlotGrows ==
  ASSUME NEW T, NEW seq \in Seq(T), NEW e \in T, NEW s
  PROVE  OnSlot(Append(seq, e), s) = OnSlot(seq, s) + Bit(e.slot = s)
<1>1. Append(seq, e) \in Seq(T) /\ Bit(e \in OfSlot(T, s)) = Bit(e.slot = s)
  BY DEF Bit, OfSlot
<1>2. OnSlot(seq, s) = Cardinality(Where(seq, OfSlot(T, s)))
  BY OnSlotWhere
<1>3. OnSlot(Append(seq, e), s) = Cardinality(Where(Append(seq, e), OfSlot(T, s)))
  BY <1>1, OnSlotWhere
<1>4. Cardinality(Where(Append(seq, e), OfSlot(T, s))) = Cardinality(Where(seq, OfSlot(T, s))) + Bit(e \in OfSlot(T, s))
  BY CountAppend
<1> QED BY <1>1, <1>2, <1>3, <1>4

LEMMA OnSlotShrinks ==
  ASSUME NEW T, NEW seq \in Seq(T), seq # <<>>, NEW s
  PROVE  OnSlot(seq, s) = OnSlot(Tail(seq), s) + Bit(Head(seq).slot = s)
<1>1. Tail(seq) \in Seq(T) /\ Bit(Head(seq) \in OfSlot(T, s)) = Bit(Head(seq).slot = s)
  BY DEF Bit, OfSlot
<1>2. OnSlot(seq, s) = Cardinality(Where(seq, OfSlot(T, s)))
  BY OnSlotWhere
<1>3. OnSlot(Tail(seq), s) = Cardinality(Where(Tail(seq), OfSlot(T, s)))
  BY <1>1, OnSlotWhere
<1>4. Cardinality(Where(seq, OfSlot(T, s))) = Cardinality(Where(Tail(seq), OfSlot(T, s))) + Bit(Head(seq) \in OfSlot(T, s))
  BY CountTail
<1> QED BY <1>1, <1>2, <1>3, <1>4

-----------------------------------------------------------------------------
(* What the counts say of one state.                                       *)

RunSet(f)   == {t \in Threads : /\ thread[t].at # "idle"
                                /\ thread[t].task.file = f
                                /\ Current(thread[t].task)}
RunSetOn(s) == {t \in Threads : /\ Busy(t)
                                /\ thread[t].task.slot = s
                                /\ Current(thread[t].task)}

LEMMA RunSets ==
  /\ \A f : /\ IsFiniteSet(RunSet(f)) /\ Running(f) = Cardinality(RunSet(f))
            /\ Running(f) \in Nat
  /\ \A s : /\ IsFiniteSet(RunSetOn(s)) /\ RunningOn(s) = Cardinality(RunSetOn(s))
            /\ RunningOn(s) \in Nat
<1>1. \A f : IsFiniteSet(RunSet(f))
  BY ThreadsFinite, FS_Subset DEF RunSet
<1>2. \A s : IsFiniteSet(RunSetOn(s))
  BY ThreadsFinite, FS_Subset DEF RunSetOn
<1>3. \A f : Running(f) = Cardinality(RunSet(f))
  BY DEF Running, RunSet
<1>4. \A s : RunningOn(s) = Cardinality(RunSetOn(s))
  BY DEF RunningOn, RunSetOn
<1> QED BY <1>1, <1>2, <1>3, <1>4, FS_CardinalityType

LEMMA CountsAreNatural ==
  ASSUME Shape
  PROVE  /\ \A f : /\ Occurrences(tasks, f) \in Nat /\ Occurrences(results, f) \in Nat
                   /\ Occurrences(queue, f) \in Nat /\ Occurrences(persisted, f) \in Nat
                   /\ Running(f) \in Nat
         /\ \A s : /\ OnSlot(tasks, s) \in Nat /\ OnSlot(results, s) \in Nat
                   /\ RunningOn(s) \in Nat
<1>1. tasks \in Seq(Tasks) /\ results \in Seq(Results) /\ queue \in Seq(Results) /\ persisted \in Seq(Results)
  BY DEF Shape, TypeOK
<1>2. \A f : Occurrences(tasks, f) \in Nat /\ Occurrences(results, f) \in Nat
  BY <1>1, OccurrencesWhere
<1>3. \A f : Occurrences(queue, f) \in Nat /\ Occurrences(persisted, f) \in Nat
  BY <1>1, OccurrencesWhere
<1>4. \A s : OnSlot(tasks, s) \in Nat /\ OnSlot(results, s) \in Nat
  BY <1>1, OnSlotWhere
<1> QED BY <1>2, <1>3, <1>4, RunSets

(* When every task in the queue is current, Queued counts them all.        *)
LEMMA QueuedOccurs ==
  ASSUME \A i \in DOMAIN tasks : Current(tasks[i]), NEW f
  PROVE  Queued(f) = Occurrences(tasks, f)
<1>1. {i \in DOMAIN tasks : tasks[i].file = f /\ Current(tasks[i])}
        = {i \in DOMAIN tasks : tasks[i].file = f}
  OBVIOUS
<1> QED BY <1>1 DEF Queued, Occurrences

LEMMA NoneOnSlot ==
  ASSUME NEW T, NEW seq \in Seq(T), NEW s, OnSlot(seq, s) = 0
  PROVE  \A i \in DOMAIN seq : seq[i].slot # s
<1> DEFINE A == {i \in DOMAIN seq : seq[i].slot = s}
<1>1. IsFiniteSet(DOMAIN seq)
  BY FS_Interval
<1>2. IsFiniteSet(A) /\ Cardinality(A) = 0
  BY <1>1, FS_Subset DEF OnSlot
<1>3. A = {}
  BY <1>2, FS_EmptySet
<1> QED BY <1>3

(* A slot that is available is held by nothing.                            *)
LEMMA NoHolder ==
  ASSUME Shape, HeldOnce, NEW s \in Slots, slots[s].available
  PROVE  /\ \A i \in DOMAIN tasks : tasks[i].slot # s
         /\ \A i \in DOMAIN results : results[i].slot # s
         /\ \A t \in Threads : Busy(t) /\ Current(thread[t].task) => thread[t].task.slot # s
<1>1. OnSlot(tasks, s) = 0 /\ OnSlot(results, s) = 0 /\ RunningOn(s) = 0
  <2>1. OnSlot(tasks, s) + RunningOn(s) + OnSlot(results, s) = 0
    BY DEF HeldOnce, Holders
  <2> QED BY <2>1, CountsAreNatural
<1>2. tasks \in Seq(Tasks) /\ results \in Seq(Results)
  BY DEF Shape, TypeOK
<1>3. RunSetOn(s) = {}
  BY <1>1, RunSets, FS_EmptySet
<1>4. \A i \in DOMAIN tasks : tasks[i].slot # s
  BY <1>1, <1>2, NoneOnSlot
<1>5. \A i \in DOMAIN results : results[i].slot # s
  BY <1>1, <1>2, NoneOnSlot
<1> QED BY <1>3, <1>4, <1>5 DEF RunSetOn

(* A thread that runs the current task of a slot is its only holder.       *)
LEMMA OnlyHolder ==
  ASSUME Shape, HeldOnce, NEW t \in Threads, Busy(t), Current(thread[t].task),
         NEW s \in Slots, thread[t].task.slot = s
  PROVE  /\ ~slots[s].available
         /\ \A i \in DOMAIN tasks : tasks[i].slot # s
         /\ \A i \in DOMAIN results : results[i].slot # s
         /\ \A u \in Threads :
              Busy(u) /\ Current(thread[u].task) /\ thread[u].task.slot = s => u = t
<1>1. t \in RunSetOn(s) /\ IsFiniteSet(RunSetOn(s)) /\ RunningOn(s) = Cardinality(RunSetOn(s))
  BY RunSets DEF RunSetOn
<1>2. RunningOn(s) # 0
  BY <1>1, FS_EmptySet
<1>3. OnSlot(tasks, s) = 0 /\ OnSlot(results, s) = 0 /\ RunningOn(s) = 1 /\ ~slots[s].available
  <2>1. OnSlot(tasks, s) + RunningOn(s) + OnSlot(results, s) = IF slots[s].available THEN 0 ELSE 1
    BY DEF HeldOnce, Holders
  <2> QED BY <1>2, <2>1, CountsAreNatural
<1>4. tasks \in Seq(Tasks) /\ results \in Seq(Results)
  BY DEF Shape, TypeOK
<1>5. \A u \in RunSetOn(s) : u = t
  <2>1. Cardinality(RunSetOn(s)) = 1
    BY <1>1, <1>3
  <2>2. \E x : RunSetOn(s) = {x}
    BY <1>1, <2>1, FS_Singleton
  <2> QED BY <1>1, <2>2
<1>6. \A i \in DOMAIN tasks : tasks[i].slot # s
  BY <1>3, <1>4, NoneOnSlot
<1>7. \A i \in DOMAIN results : results[i].slot # s
  BY <1>3, <1>4, NoneOnSlot
<1> QED BY <1>3, <1>5, <1>6, <1>7 DEF RunSetOn

-----------------------------------------------------------------------------
(* Steps that move neither a task nor a result.                            *)

Unmoved ==
  /\ tasks' = tasks /\ results' = results
  /\ \A s \in Slots : slots'[s].gen = slots[s].gen
  /\ \A t \in Threads : /\ Busy(t)' <=> Busy(t)
                        /\ Busy(t) => thread'[t].task = thread[t].task

(* Such a step leaves what is current ...                                  *)
LEMMA UnmovedCurrent ==
  ASSUME Shape, Unmoved
  PROVE  /\ \A i \in DOMAIN tasks : Current(tasks[i])' <=> Current(tasks[i])
         /\ \A t \in Threads : Busy(t) => (Current(thread[t].task)' <=> Current(thread[t].task))
<1>1. \A i \in DOMAIN tasks : tasks[i] \in Tasks
  BY DEF Shape, TypeOK
<1>2. \A t \in Threads : Busy(t) => thread[t].task \in Tasks
  BY DEF Shape, ThreadsHoldTasks
<1>3. \A i \in DOMAIN tasks : Current(tasks[i])' <=> Current(tasks[i])
  BY <1>1 DEF Unmoved, Current, Tasks
<1>4. \A t \in Threads : Busy(t) => (Current(thread[t].task)' <=> Current(thread[t].task))
  BY <1>2 DEF Unmoved, Current, Tasks
<1> QED BY <1>3, <1>4

(* ... and where every file is ...                                         *)
LEMMA UnmovedCounts ==
  ASSUME Shape, Unmoved
  PROVE  /\ \A f : InFlight(f)' = InFlight(f)
         /\ \A s : Holders(s)' = Holders(s)
<1>1. \A f : Running(f)' = Running(f)
  <2> SUFFICES ASSUME NEW f PROVE Running(f)' = Running(f)
    OBVIOUS
  <2>1. RunSet(f)' = RunSet(f)
    BY UnmovedCurrent DEF RunSet, Unmoved, Busy
  <2> QED BY <2>1 DEF Running, RunSet
<1>2. \A s : RunningOn(s)' = RunningOn(s)
  <2> SUFFICES ASSUME NEW s PROVE RunningOn(s)' = RunningOn(s)
    OBVIOUS
  <2>1. RunSetOn(s)' = RunSetOn(s)
    BY UnmovedCurrent DEF RunSetOn, Unmoved, Busy
  <2> QED BY <2>1 DEF RunningOn, RunSetOn
<1>3. \A f : Queued(f)' = Queued(f)
  <2> SUFFICES ASSUME NEW f PROVE Queued(f)' = Queued(f)
    OBVIOUS
  <2>1. {i \in DOMAIN tasks : tasks[i].file = f /\ Current(tasks[i])}'
          = {i \in DOMAIN tasks : tasks[i].file = f /\ Current(tasks[i])}
    BY UnmovedCurrent DEF Unmoved
  <2> QED BY <2>1 DEF Queued
<1>4. \A f : Occurrences(results, f)' = Occurrences(results, f)
  BY DEF Unmoved
<1>5. \A s : OnSlot(tasks, s)' = OnSlot(tasks, s) /\ OnSlot(results, s)' = OnSlot(results, s)
  BY DEF Unmoved
<1>6. \A f : InFlight(f)' = InFlight(f)
  BY <1>1, <1>3, <1>4 DEF InFlight
<1>7. \A s : Holders(s)' = Holders(s)
  BY <1>2, <1>5 DEF Holders
<1> QED BY <1>6, <1>7

(* ... and stops no parse that hangs.                                      *)
LEMMA UnmovedOrderly ==
  ASSUME Shape, Shape', OrderlyInv, UNCHANGED work, Unmoved,
         \A s \in Slots : /\ slots'[s].file = slots[s].file
                         /\ slots'[s].available = slots[s].available,
         \A t \in Threads : Parsing(t) /\ thread[t].task.file \in Stuck => Parsing(t)'
  PROVE  (Generations /\ FilesMatch /\ HeldOnce)'
<1>1. \A i \in DOMAIN tasks : tasks[i] \in Tasks
  BY DEF Shape, TypeOK
<1>2. \A t \in Threads : Busy(t) => thread[t].task \in Tasks
  BY DEF Shape, ThreadsHoldTasks
<1>3. Generations'
  BY <1>1, <1>2, UnmovedCurrent, SameList DEF OrderlyInv, Generations, Unmoved, Tasks
<1>4. FilesMatch'
  BY <1>1, <1>2, UnmovedCurrent DEF OrderlyInv, FilesMatch, Unmoved, Tasks
<1>5. HeldOnce'
  BY UnmovedCounts DEF OrderlyInv, HeldOnce
<1> QED BY <1>3, <1>4, <1>5

(* ... and, when no start time changes, what the start times say.          *)
LEMMA TimedStays ==
  ASSUME Shape, OrderlyInv, Unmoved, UNCHANGED work,
         \A s \in Slots : slots'[s].start = slots[s].start,
         \A t \in Threads : Parsing(t)' <=> Parsing(t)
  PROVE  Timed'
<1>1. \A t \in Threads : Busy(t) => thread[t].task \in Tasks
  BY DEF Shape, ThreadsHoldTasks
<1>2. \A t \in Threads : Parsing(t) => Busy(t)
  BY DEF Parsing, Busy
<1>3. \A t \in Threads : Parsing(t) => thread[t].task.slot \in Slots
  BY <1>1, <1>2 DEF Tasks
<1>4. ASSUME NEW t \in Threads, Parsing(t)', Current(thread[t].task)'
      PROVE  /\ slots'[thread'[t].task.slot].start > 0
             /\ slots'[thread'[t].task.slot].start = 3 => thread'[t].task.file \in Stuck
  BY <1>2, <1>3, <1>4, UnmovedCurrent DEF OrderlyInv, Timed, Unmoved
<1>5. ASSUME NEW s \in Slots, slots'[s].start > 0
      PROVE  \E t \in Threads : ParsedOn(s, t)'
  BY <1>2, <1>5, UnmovedCurrent DEF OrderlyInv, Timed, Unmoved, ParsedOn
<1> QED BY <1>4, <1>5, SameList DEF Timed

(* Unless the watchdog reads a slot anew, what it is about to kill stays   *)
(* doomed.                                                                 *)
LEMMA DoomedStays ==
  ASSUME Shape, OrderlyInv, Unmoved, UNCHANGED work,
         \A t \in Threads : Parsing(t) /\ thread[t].task.file \in Stuck => Parsing(t)',
         watchdog' = watchdog \/ watchdog'.slot = NoSlot
  PROVE  Doomed'
<1>2. \A t \in Threads : Parsing(t) => Busy(t)
  BY DEF Parsing, Busy
<1> QED BY <1>2, UnmovedCurrent, SameList DEF OrderlyInv, Doomed, Unmoved, ParsedOn

(* The main thread (but for Submit and Collect) and the persist thread.    *)
LEMMA OrderlyElsewhere ==
  ASSUME Shape, Shape', OrderlyInv, UNCHANGED work, UNCHANGED <<slots, tasks, thread, results>>,
         watchdog' = watchdog \/ watchdog'.slot = NoSlot
  PROVE  Unmoved /\ OrderlyInv'
<1>1. Unmoved /\ \A t \in Threads : Parsing(t)' <=> Parsing(t)
  BY DEF Unmoved, Busy, Parsing
<1>2. (Generations /\ FilesMatch /\ HeldOnce)'
  BY <1>1, UnmovedOrderly
<1> QED BY <1>1, <1>2, TimedStays, DoomedStays DEF OrderlyInv

(* The steps of a thread between the task it took and the result it        *)
(* reports: only the start and the end of the parse touch its slot, which  *)
(* is its own.                                                             *)
LEMMA OrderlyWorker ==
  ASSUME Shape, Shape', Orderly, OrderlyInv, UNCHANGED work, NEW t \in Threads,
         Lease(t) \/ Reject(t) \/ StartParse(t) \/ EndParse(t) \/ ThrowParse(t)
  PROVE  Unmoved /\ OrderlyInv'
<1>1. slots \in [Slots -> SlotStates] /\ thread \in [Threads -> ThreadStates]
  BY SlotTypes DEF Shape
<1>2. thread[t].task \in Tasks /\ Busy(t)
  BY DEF Lease, Reject, StartParse, EndParse, ThrowParse, ThreadGoto, Busy, Shape, ThreadsHoldTasks
<1>3. ~ThrowParse(t)
  BY DEF ThrowParse, Orderly
<1>4. CASE Lease(t)
  <2>1. /\ \A u \in Threads : thread'[u].task = thread[u].task /\ (Busy(u)' <=> Busy(u))
        /\ \A u \in Threads : Parsing(u)' <=> Parsing(u)
    BY <1>1, <1>4 DEF Lease, ThreadGoto, ThreadStates, Busy, Parsing
  <2>2. Unmoved /\ watchdog' = watchdog /\ slots' = slots
    BY <1>4, <2>1 DEF Unmoved, Lease
  <2> QED BY <2>1, <2>2, UnmovedOrderly, TimedStays, DoomedStays DEF OrderlyInv
<1>5. CASE Reject(t)
  <2>1. /\ \A u \in Threads : thread'[u].task = thread[u].task /\ (Busy(u)' <=> Busy(u))
        /\ \A u \in Threads : Parsing(u)' <=> Parsing(u)
    BY <1>1, <1>5 DEF Reject, Reports, ThreadStates, Busy, Parsing
  <2>2. Unmoved /\ watchdog' = watchdog /\ slots' = slots
    BY <1>5, <2>1 DEF Unmoved, Reject
  <2> QED BY <2>1, <2>2, UnmovedOrderly, TimedStays, DoomedStays DEF OrderlyInv
<1>6. CASE StartParse(t)
  <2> DEFINE s == thread[t].task.slot
  <2>1. /\ \A u \in Threads : thread'[u].task = thread[u].task /\ (Busy(u)' <=> Busy(u))
        /\ \A u \in Threads : Parsing(u)' <=> (u = t \/ Parsing(u))
        /\ ~Parsing(t)
    BY <1>1, <1>6 DEF StartParse, ThreadGoto, ThreadStates, Busy, Parsing
  <2>2. /\ \A r \in Slots : /\ slots'[r].file = slots[r].file
                            /\ slots'[r].gen = slots[r].gen
                            /\ slots'[r].available = slots[r].available
                            /\ slots'[r].start = IF r = s THEN 1 ELSE slots[r].start
    BY <1>1, <1>2, <1>6, SlotStarts
  <2>3. Unmoved /\ watchdog' = watchdog
    BY <1>6, <2>1, <2>2 DEF Unmoved, StartParse
  <2>4. Generations' /\ FilesMatch' /\ HeldOnce' /\ Doomed'
    BY <2>1, <2>2, <2>3, UnmovedOrderly, DoomedStays
  <2>5. Current(thread[t].task)
    BY <1>2, <2>1 DEF OrderlyInv, Generations
  <2>6. \A u \in Threads : Busy(u) => (Current(thread[u].task)' <=> Current(thread[u].task))
    BY <2>3, UnmovedCurrent
  <2>7. \A u \in Threads : Busy(u) => thread[u].task.slot \in Slots
    BY DEF Shape, ThreadsHoldTasks, Tasks
  <2>8. \A u \in Threads : Parsing(u) => Busy(u)
    BY DEF Parsing, Busy
  <2>9. ASSUME NEW u \in Threads, Parsing(u)', Current(thread[u].task)'
        PROVE  /\ slots'[thread'[u].task.slot].start > 0
               /\ slots'[thread'[u].task.slot].start = 3 => thread'[u].task.file \in Stuck
    <3> DEFINE r == thread[u].task.slot
    <3>1. r \in Slots /\ thread'[u].task = thread[u].task /\ Current(thread[u].task)
      BY <1>2, <2>1, <2>6, <2>7, <2>8, <2>9
    <3>2. CASE r = s
      BY <2>2, <3>1, <3>2
    <3>3. CASE r # s
      <4>1. Parsing(u) /\ slots'[r].start = slots[r].start
        BY <2>1, <2>2, <2>9, <3>1, <3>3
      <4> QED BY <3>1, <4>1 DEF OrderlyInv, Timed
    <3> QED BY <3>2, <3>3
  <2>10. ASSUME NEW r \in Slots, slots'[r].start > 0
         PROVE  \E u \in Threads : ParsedOn(r, u)'
    <3>1. CASE r = s
      <4>1. ParsedOn(r, t)'
        BY <1>2, <2>1, <2>5, <2>6, <3>1 DEF ParsedOn
      <4> QED BY <4>1
    <3>2. CASE r # s
      <4>1. PICK u \in Threads : ParsedOn(r, u)
        BY <2>2, <2>10, <3>2 DEF OrderlyInv, Timed
      <4>2. ParsedOn(r, u)'
        BY <2>1, <2>6, <2>8, <4>1 DEF ParsedOn
      <4> QED BY <4>2
    <3> QED BY <3>1, <3>2
  <2>11. Timed'
    BY <2>9, <2>10, SameList DEF Timed
  <2> QED BY <2>3, <2>4, <2>11 DEF OrderlyInv
<1>7. CASE EndParse(t)
  <2> DEFINE s == thread[t].task.slot
  <2>1. /\ \A u \in Threads : thread'[u].task = thread[u].task /\ (Busy(u)' <=> Busy(u))
        /\ \A u \in Threads : Parsing(u)' <=> (u # t /\ Parsing(u))
        /\ Parsing(t) /\ thread[t].task.file \notin Stuck
    BY <1>1, <1>7 DEF EndParse, Reports, ThreadStates, Busy, Parsing
  <2>2. /\ \A r \in Slots : /\ slots'[r].file = slots[r].file
                            /\ slots'[r].gen = slots[r].gen
                            /\ slots'[r].available = slots[r].available
                            /\ slots'[r].start = IF r = s THEN 0 ELSE slots[r].start
    BY <1>1, <1>2, <1>7 DEF EndParse, SlotStates
  <2>3. Unmoved /\ watchdog' = watchdog
    BY <1>7, <2>1, <2>2 DEF Unmoved, EndParse
  <2>4. Generations' /\ FilesMatch' /\ HeldOnce' /\ Doomed'
    BY <2>1, <2>2, <2>3, UnmovedOrderly, DoomedStays
  <2>5. Current(thread[t].task)
    BY <1>2, <2>1 DEF OrderlyInv, Generations
  <2>6. \A u \in Threads : Busy(u) => (Current(thread[u].task)' <=> Current(thread[u].task))
    BY <2>3, UnmovedCurrent
  <2>7. \A u \in Threads : Busy(u) => thread[u].task.slot \in Slots
    BY DEF Shape, ThreadsHoldTasks, Tasks
  <2>8. \A u \in Threads : Parsing(u) => Busy(u)
    BY DEF Parsing, Busy
  <2>9. \A u \in Threads : Busy(u) /\ Current(thread[u].task) /\ thread[u].task.slot = s => u = t
    BY <1>2, <2>5, <2>7, OnlyHolder DEF OrderlyInv
  <2>10. ASSUME NEW u \in Threads, Parsing(u)', Current(thread[u].task)'
        PROVE  /\ slots'[thread'[u].task.slot].start > 0
               /\ slots'[thread'[u].task.slot].start = 3 => thread'[u].task.file \in Stuck
    <3> DEFINE r == thread[u].task.slot
    <3>1. /\ Parsing(u) /\ r \in Slots /\ thread'[u].task = thread[u].task
          /\ Current(thread[u].task) /\ r # s
      BY <2>1, <2>6, <2>7, <2>8, <2>9, <2>10
    <3>2. slots'[r].start = slots[r].start
      BY <2>2, <3>1
    <3> QED BY <3>1, <3>2 DEF OrderlyInv, Timed
  <2>11. ASSUME NEW r \in Slots, slots'[r].start > 0
         PROVE  \E u \in Threads : ParsedOn(r, u)'
    <3>1. r # s /\ slots[r].start > 0
      BY <2>2, <2>11
    <3>2. PICK u \in Threads : ParsedOn(r, u)
      BY <3>1 DEF OrderlyInv, Timed
    <3>3. ParsedOn(r, u)'
      BY <2>1, <2>6, <2>8, <3>1, <3>2 DEF ParsedOn
    <3> QED BY <3>3
  <2>12. Timed'
    BY <2>10, <2>11, SameList DEF Timed
  <2> QED BY <2>3, <2>4, <2>12 DEF OrderlyInv
<1> QED BY <1>3, <1>4, <1>5, <1>6, <1>7

(* Time passes for a parse, or the watchdog reads its age: three times as  *)
(* old as it should be is only one that hangs for ever.                    *)
LEMMA OrderlyClock ==
  ASSUME Shape, Shape', OrderlyInv, UNCHANGED work, NEW s \in Slots,
         Orderly, Age(s) \/ Inspect(s)
  PROVE  Unmoved /\ OrderlyInv'
<1>1. slots \in [Slots -> SlotStates]
  BY SlotTypes DEF Shape
<1>2. \A t \in Threads : Parsing(t)' <=> Parsing(t)
  BY DEF Age, Inspect, Parsing
<1>3. CASE Age(s)
  <2>1. /\ \A r \in Slots : /\ slots'[r].file = slots[r].file
                            /\ slots'[r].gen = slots[r].gen
                            /\ slots'[r].available = slots[r].available
        /\ slots'[s].start = slots[s].start + 1 /\ slots[s].start \in {1, 2}
        /\ slots'[s].start = 3 => ~Cooperative(s)
        /\ \A r \in Slots \ {s} : slots'[r].start = slots[r].start
    BY <1>1, <1>3 DEF Age, SlotStates
  <2>2. Unmoved /\ watchdog' = watchdog /\ thread' = thread
    BY <1>3, <2>1 DEF Unmoved, Age, Busy
  <2>3. Generations' /\ FilesMatch' /\ HeldOnce' /\ Doomed'
    BY <1>2, <2>1, <2>2, UnmovedOrderly, DoomedStays
  <2>4. \A t \in Threads : Parsing(t) => /\ Current(thread[t].task)' <=> Current(thread[t].task)
                                       /\ thread[t].task \in Tasks
    BY <2>2, UnmovedCurrent DEF Parsing, Busy, Shape, ThreadsHoldTasks
  <2>5. ASSUME NEW t \in Threads, Parsing(t)', Current(thread[t].task)'
        PROVE  /\ slots'[thread'[t].task.slot].start > 0
               /\ slots'[thread'[t].task.slot].start = 3 => thread'[t].task.file \in Stuck
    <3> DEFINE r == thread[t].task.slot
    <3>1. /\ Parsing(t) /\ Current(thread[t].task) /\ r \in Slots
          /\ thread[t].task.file \in Files
      BY <1>2, <2>2, <2>4, <2>5 DEF Tasks
    <3>2. CASE r = s
      <4>1. slots'[r].start = 3 => thread[t].task.file \in Stuck
        BY <2>1, <3>1, <3>2 DEF Cooperative, Parsing, Orderly
      <4> QED BY <2>1, <2>2, <3>1, <3>2, <4>1
    <3>3. CASE r # s
      BY <2>1, <2>2, <3>1, <3>3 DEF OrderlyInv, Timed
    <3> QED BY <3>2, <3>3
  <2>6. ASSUME NEW r \in Slots, slots'[r].start > 0
        PROVE  \E t \in Threads : ParsedOn(r, t)'
    <3>1. slots[r].start > 0
      BY <2>1, <2>6
    <3>2. PICK t \in Threads : ParsedOn(r, t)
      BY <3>1 DEF OrderlyInv, Timed
    <3>3. ParsedOn(r, t)'
      BY <1>2, <2>2, <2>4, <3>2 DEF ParsedOn
    <3> QED BY <3>3
  <2>7. Timed'
    BY <2>5, <2>6, SameList DEF Timed
  <2> QED BY <2>2, <2>3, <2>7 DEF OrderlyInv
<1>4. CASE Inspect(s)
  <2>1. Unmoved /\ slots' = slots /\ thread' = thread
    BY <1>4 DEF Unmoved, Inspect, Busy
  <2>2. Generations' /\ FilesMatch' /\ HeldOnce' /\ Timed'
    BY <1>2, <2>1, UnmovedOrderly, TimedStays
  <2>3. watchdog'.slot = s /\ watchdog'.age = slots[s].start
    BY <1>4 DEF Inspect, Shape, TypeOK
  <2>4. Doomed'
    <3> SUFFICES ASSUME slots[s].start = 3
                 PROVE  \E t \in Threads : ParsedOn(s, t)' /\ thread'[t].task.file \in Stuck
      BY <2>3, SameList DEF Doomed
    <3>1. PICK t \in Threads : ParsedOn(s, t)
      BY DEF OrderlyInv, Timed
    <3>2. thread[t].task.file \in Stuck
      BY <3>1 DEF OrderlyInv, Timed, ParsedOn
    <3>3. ParsedOn(s, t)'
      BY <1>2, <2>1, <3>1 DEF ParsedOn, Current
    <3> QED BY <2>1, <3>2, <3>3
  <2> QED BY <2>1, <2>2, <2>4 DEF OrderlyInv
<1> QED BY <1>3, <1>4

(* The request to stop changes no count.                                   *)
LEMMA OrderlyAskToStop ==
  ASSUME Shape, Shape', OrderlyInv, UNCHANGED work, AskToStop
  PROVE  Unmoved /\ OrderlyInv'
<1>1. slots \in [Slots -> SlotStates]
  BY SlotTypes DEF Shape
<1>2. \A t \in Threads : Parsing(t)' <=> Parsing(t)
  BY DEF AskToStop, Parsing
<1>3. \A r \in Slots : /\ slots'[r].file = slots[r].file
                       /\ slots'[r].gen = slots[r].gen
                       /\ slots'[r].start = slots[r].start
                       /\ slots'[r].available = slots[r].available
  <2>1. watchdog.slot \in Slots
    BY DEF AskToStop, Shape, TypeOK
  <2> QED BY <1>1, <2>1 DEF AskToStop, SlotStates
<1>4. Unmoved /\ watchdog'.slot = NoSlot
  BY <1>3 DEF Unmoved, AskToStop, Busy, IdleWatchdog
<1> QED BY <1>2, <1>3, <1>4, UnmovedOrderly, TimedStays, DoomedStays DEF OrderlyInv

-----------------------------------------------------------------------------
(* Steps that move a task or a result.                                     *)

(* A set of running threads that gains or loses thread t at most.          *)
LEMMA RunningMoves ==
  ASSUME NEW t \in Threads, NEW f, RunSet(f) \ {t} = RunSet(f)' \ {t}
  PROVE  /\ Running(f) \in Nat /\ Running(f)' \in Nat
         /\ Running(f) + Bit(t \in RunSet(f)') = Running(f)' + Bit(t \in RunSet(f))
<1>1. IsFiniteSet(RunSet(f)) /\ Running(f) = Cardinality(RunSet(f))
  BY RunSets
<1>2. Running(f)' = Cardinality(RunSet(f)')
  BY DEF Running, RunSet
<1> QED BY <1>1, <1>2, OneDiffers

LEMMA RunningOnMoves ==
  ASSUME NEW t \in Threads, NEW s, RunSetOn(s) \ {t} = RunSetOn(s)' \ {t}
  PROVE  /\ RunningOn(s) \in Nat /\ RunningOn(s)' \in Nat
         /\ RunningOn(s) + Bit(t \in RunSetOn(s)') = RunningOn(s)' + Bit(t \in RunSetOn(s))
<1>1. IsFiniteSet(RunSetOn(s)) /\ RunningOn(s) = Cardinality(RunSetOn(s))
  BY RunSets
<1>2. RunningOn(s)' = Cardinality(RunSetOn(s)')
  BY DEF RunningOn, RunSetOn
<1> QED BY <1>1, <1>2, OneDiffers

LEMMA QueuedOccursNext ==
  ASSUME (\A i \in DOMAIN tasks : Current(tasks[i]))', NEW f
  PROVE  Queued(f)' = Occurrences(tasks', f)
<1>1. {i \in DOMAIN tasks : tasks[i].file = f /\ Current(tasks[i])}'
        = {i \in DOMAIN tasks' : tasks'[i].file = f}
  OBVIOUS
<1> QED BY <1>1 DEF Queued, Occurrences

(* A task moves from the queue to a thread.                                *)
LEMMA OrderlyTake ==
  ASSUME Shape, Shape', OrderlyInv, UNCHANGED work, NEW t \in Threads, Take(t)
  PROVE  OrderlyInv' /\ \A f : InFlight(f)' = InFlight(f)
<1>1. thread \in [Threads -> ThreadStates] /\ tasks \in Seq(Tasks) /\ tasks # <<>>
  BY SlotTypes DEF Shape, TypeOK, Take
<1>2. /\ Head(tasks) \in Tasks /\ tasks' = Tail(tasks) /\ tasks' \in Seq(Tasks)
      /\ 1 \in DOMAIN tasks /\ Head(tasks) = tasks[1]
      /\ \A i \in DOMAIN tasks' : i + 1 \in DOMAIN tasks /\ tasks'[i] = tasks[i + 1]
  BY <1>1 DEF Take
<1>3. /\ ~Busy(t) /\ Busy(t)' /\ thread'[t].task = Head(tasks) /\ ~Parsing(t)'
      /\ \A u \in Threads \ {t} : thread'[u] = thread[u]
      /\ UNCHANGED <<slots, results, watchdog>>
  BY <1>1 DEF Take, Busy, Parsing, ThreadStates
<1>4. Current(Head(tasks)) /\ slots[Head(tasks).slot].file = Head(tasks).file
  BY <1>2 DEF OrderlyInv, Generations, FilesMatch
<1>5. \A task \in Tasks : Current(task)' <=> Current(task)
  BY <1>3 DEF Current
<1>6. \A u \in Threads : Busy(u) => thread[u].task \in Tasks
  BY DEF Shape, ThreadsHoldTasks
<1>7. \A u \in Threads \ {t} : /\ Busy(u)' <=> Busy(u)
                               /\ Parsing(u)' <=> Parsing(u)
                               /\ Current(thread[u].task)' <=> Current(thread[u].task)
  BY <1>3 DEF Busy, Parsing, Current
<1>8. Current(thread[t].task)'
  BY <1>2, <1>3, <1>4 DEF Current
<1>9. Generations'
  <2>1. \A i \in DOMAIN tasks' : Current(tasks[i])'
    BY <1>2, <1>3 DEF OrderlyInv, Generations, Current
  <2>2. Head(tasks).gen \in Nat /\ slots'[Head(tasks).slot].gen = Head(tasks).gen
    BY <1>2, <1>3, <1>4 DEF Tasks, Current
  <2>3. ASSUME NEW u \in Threads, Busy(u)'
        PROVE  /\ thread'[u].task.gen <= slots'[thread'[u].task.slot].gen
               /\ \/ Current(thread[u].task)'
                  \/ Parsing(u)' /\ thread'[u].task.file \in Stuck
    <3>1. CASE u = t
      BY <1>3, <1>8, <2>2, <3>1
    <3>2. CASE u # t
      BY <1>3, <1>7, <2>3, <3>2 DEF OrderlyInv, Generations
    <3> QED BY <3>1, <3>2
  <2> QED BY <2>1, <2>3, SameList DEF Generations
<1>10. FilesMatch'
  <2>1. \A i \in DOMAIN tasks' : slots'[tasks'[i].slot].file = tasks'[i].file
    BY <1>2, <1>3 DEF OrderlyInv, FilesMatch
  <2>2. ASSUME NEW u \in Threads, Busy(u)', Current(thread[u].task)'
        PROVE  slots'[thread'[u].task.slot].file = thread'[u].task.file
    <3>1. CASE u = t
      BY <1>3, <1>4, <3>1
    <3>2. CASE u # t
      BY <1>3, <1>7, <2>2, <3>2 DEF OrderlyInv, FilesMatch
    <3> QED BY <3>1, <3>2
  <2> QED BY <2>1, <2>2 DEF FilesMatch
<1>11. Timed' /\ Doomed'
  <2>1. \A r, u : u \in Threads => (ParsedOn(r, u)' <=> ParsedOn(r, u))
    BY <1>3, <1>7 DEF ParsedOn, Parsing, Busy
  <2>2. \A u \in Threads : Parsing(u)' => u # t
    BY <1>3
  <2>3. ASSUME NEW u \in Threads, Parsing(u)', Current(thread[u].task)'
        PROVE  /\ slots'[thread'[u].task.slot].start > 0
               /\ slots'[thread'[u].task.slot].start = 3 => thread'[u].task.file \in Stuck
    BY <1>3, <1>7, <2>2, <2>3 DEF OrderlyInv, Timed
  <2>4. Timed'
    BY <1>3, <2>1, <2>3, SameList DEF OrderlyInv, Timed
  <2>5. Doomed'
    <3> SUFFICES ASSUME watchdog.slot # NoSlot, watchdog.age = 3
                 PROVE  \E u \in Threads : ParsedOn(watchdog.slot, u)' /\ thread'[u].task.file \in Stuck
      BY <1>3, SameList DEF Doomed, ParsedOn, Parsing, Current
    <3>1. PICK u \in Threads : ParsedOn(watchdog.slot, u) /\ thread[u].task.file \in Stuck
      BY DEF OrderlyInv, Doomed
    <3>2. u # t /\ thread'[u] = thread[u]
      BY <1>3, <3>1 DEF ParsedOn, Parsing, Busy
    <3>3. ParsedOn(watchdog.slot, u)'
      BY <1>3, <1>7, <3>1, <3>2 DEF ParsedOn, Parsing
    <3> QED BY <3>1, <3>2, <3>3
  <2> QED BY <2>4, <2>5
<1>12. \A f : InFlight(f)' = InFlight(f)
  <2> SUFFICES ASSUME NEW f PROVE InFlight(f)' = InFlight(f)
    OBVIOUS
  <2>1. Queued(f) = Queued(f)' + Bit(Head(tasks).file = f)
    <3>1. Queued(f) = Occurrences(tasks, f)
      BY QueuedOccurs DEF OrderlyInv, Generations
    <3>2. Queued(f)' = Occurrences(Tail(tasks), f)
      BY <1>2, <1>9, QueuedOccursNext DEF Generations
    <3> QED BY <1>1, <3>1, <3>2, OccurrencesShrink
  <2>2. Running(f)' = Running(f) + Bit(Head(tasks).file = f)
    <3>1. RunSet(f) \ {t} = RunSet(f)' \ {t}
      BY <1>3, <1>7 DEF RunSet, Busy
    <3>2. t \notin RunSet(f) /\ (t \in RunSet(f)' <=> Head(tasks).file = f)
      BY <1>3, <1>8 DEF RunSet, Busy
    <3> QED BY <3>1, <3>2, RunningMoves DEF Bit
  <2>3. Occurrences(results, f)' = Occurrences(results, f)
    BY <1>3
  <2>4. /\ Running(f) \in Nat /\ Bit(Head(tasks).file = f) \in Nat
        /\ Occurrences(results, f) \in Nat /\ Queued(f)' \in Nat
    <3>1. Queued(f)' = Occurrences(tasks', f)
      BY <1>9, QueuedOccursNext DEF Generations
    <3> QED BY <1>2, <3>1, CountsAreNatural, OccurrencesWhere DEF Bit
  <2> QED BY <2>1, <2>2, <2>3, <2>4 DEF InFlight
<1>13. HeldOnce'
  <2> SUFFICES ASSUME NEW s \in Slots PROVE Holders(s)' = Holders(s)
    BY <1>3 DEF HeldOnce, OrderlyInv
  <2>1. OnSlot(tasks, s) = OnSlot(tasks', s) + Bit(Head(tasks).slot = s)
    BY <1>1, <1>2, OnSlotShrinks
  <2>2. RunningOn(s)' = RunningOn(s) + Bit(Head(tasks).slot = s)
    <3>1. RunSetOn(s) \ {t} = RunSetOn(s)' \ {t}
      BY <1>3, <1>7 DEF RunSetOn
    <3>2. t \notin RunSetOn(s) /\ (t \in RunSetOn(s)' <=> Head(tasks).slot = s)
      BY <1>3, <1>8 DEF RunSetOn
    <3> QED BY <3>1, <3>2, RunningOnMoves DEF Bit
  <2>3. /\ RunningOn(s) \in Nat /\ Bit(Head(tasks).slot = s) \in Nat
        /\ OnSlot(results, s) \in Nat /\ OnSlot(tasks', s) \in Nat
    BY <1>2, CountsAreNatural, OnSlotWhere DEF Bit
  <2>4. OnSlot(results, s)' = OnSlot(results, s) /\ OnSlot(tasks, s)' = OnSlot(tasks', s)
    BY <1>3
  <2> QED BY <2>1, <2>2, <2>3, <2>4 DEF Holders
<1> QED BY <1>9, <1>10, <1>11, <1>12, <1>13 DEF OrderlyInv

(* A thread reports the file of its slot, or drops the result of a parse   *)
(* that was killed meanwhile.                                              *)
LEMMA OrderlyReport ==
  ASSUME Shape, Shape', OrderlyInv, UNCHANGED work, NEW t \in Threads, Report(t)
  PROVE  OrderlyInv' /\ \A f : InFlight(f)' = InFlight(f)
<1> DEFINE task == thread[t].task
           r == [file |-> task.file, slot |-> task.slot, status |-> thread[t].status]
<1>1. thread \in [Threads -> ThreadStates] /\ results \in Seq(Results) /\ tasks \in Seq(Tasks)
  BY SlotTypes DEF Shape, TypeOK
<1>2. /\ Busy(t) /\ ~Parsing(t) /\ task \in Tasks /\ thread[t].status \in Statuses
  BY DEF Report, Busy, Parsing, Shape, ThreadsHoldTasks
<1>3. Current(task)
  BY <1>2 DEF OrderlyInv, Generations
<1>4. /\ results' = Append(results, r) /\ r \in Results
      /\ r.file = task.file /\ r.slot = task.slot
  BY <1>2, <1>3 DEF Report, Results, Tasks
<1> HIDE DEF r
<1>5. /\ ~Busy(t)' /\ ~Parsing(t)'
      /\ \A u \in Threads \ {t} : thread'[u] = thread[u]
      /\ UNCHANGED <<slots, tasks, watchdog>>
  BY <1>1 DEF Report, Busy, Parsing, IdleThread
<1>6. \A u \in Threads \ {t} : /\ Busy(u)' <=> Busy(u)
                               /\ Parsing(u)' <=> Parsing(u)
                               /\ Current(thread[u].task)' <=> Current(thread[u].task)
  BY <1>5 DEF Busy, Parsing, Current
<1>7. Generations'
  <2>1. \A i \in DOMAIN tasks' : Current(tasks[i])'
    BY <1>5 DEF OrderlyInv, Generations, Current
  <2>2. ASSUME NEW u \in Threads, Busy(u)'
        PROVE  /\ thread'[u].task.gen <= slots'[thread'[u].task.slot].gen
               /\ \/ Current(thread[u].task)'
                  \/ Parsing(u)' /\ thread'[u].task.file \in Stuck
    <3>1. u # t
      BY <1>5, <2>2
    <3> QED BY <1>5, <1>6, <2>2, <3>1 DEF OrderlyInv, Generations
  <2> QED BY <2>1, <2>2, SameList DEF Generations
<1>8. FilesMatch'
  <2>1. \A i \in DOMAIN tasks' : slots'[tasks'[i].slot].file = tasks'[i].file
    BY <1>5 DEF OrderlyInv, FilesMatch
  <2>2. ASSUME NEW u \in Threads, Busy(u)', Current(thread[u].task)'
        PROVE  slots'[thread'[u].task.slot].file = thread'[u].task.file
    <3>1. u # t
      BY <1>5, <2>2
    <3> QED BY <1>5, <1>6, <2>2, <3>1 DEF OrderlyInv, FilesMatch
  <2> QED BY <2>1, <2>2 DEF FilesMatch
<1>9. Timed' /\ Doomed'
  <2>1. ASSUME NEW u \in Threads, Parsing(u)', Current(thread[u].task)'
        PROVE  /\ slots'[thread'[u].task.slot].start > 0
               /\ slots'[thread'[u].task.slot].start = 3 => thread'[u].task.file \in Stuck
    <3>1. u # t
      BY <1>5, <2>1
    <3> QED BY <1>5, <1>6, <2>1, <3>1 DEF OrderlyInv, Timed
  <2>2. ASSUME NEW s \in Slots, slots'[s].start > 0
        PROVE  \E u \in Threads : ParsedOn(s, u)'
    <3>1. PICK u \in Threads : ParsedOn(s, u)
      BY <1>5, <2>2 DEF OrderlyInv, Timed
    <3>2. u # t
      BY <1>2, <3>1 DEF ParsedOn
    <3>3. ParsedOn(s, u)'
      BY <1>5, <1>6, <3>1, <3>2 DEF ParsedOn
    <3> QED BY <3>3
  <2>3. Timed'
    BY <2>1, <2>2, SameList DEF Timed
  <2>4. Doomed'
    <3> SUFFICES ASSUME watchdog.slot # NoSlot, watchdog.age = 3
                 PROVE  \E u \in Threads : ParsedOn(watchdog.slot, u)' /\ thread'[u].task.file \in Stuck
      BY <1>5, SameList DEF Doomed, ParsedOn, Parsing, Current
    <3>1. PICK u \in Threads : ParsedOn(watchdog.slot, u) /\ thread[u].task.file \in Stuck
      BY DEF OrderlyInv, Doomed
    <3>2. u # t /\ thread'[u] = thread[u]
      BY <1>2, <1>5, <3>1 DEF ParsedOn
    <3>3. ParsedOn(watchdog.slot, u)'
      BY <1>5, <1>6, <3>1, <3>2 DEF ParsedOn
    <3> QED BY <3>1, <3>2, <3>3
  <2> QED BY <2>3, <2>4
<1>10. \A f : InFlight(f)' = InFlight(f)
  <2> SUFFICES ASSUME NEW f PROVE InFlight(f)' = InFlight(f)
    OBVIOUS
  <2>1. Queued(f)' = Queued(f) /\ Queued(f) \in Nat
    <3>1. Queued(f) = Occurrences(tasks, f)
      BY QueuedOccurs DEF OrderlyInv, Generations
    <3>2. Queued(f)' = Occurrences(tasks, f)
      BY <1>5, <1>7, QueuedOccursNext DEF Generations
    <3> QED BY <3>1, <3>2, CountsAreNatural
  <2>2. Running(f) = Running(f)' + Bit(task.file = f) /\ Running(f)' \in Nat
    <3>1. RunSet(f) \ {t} = RunSet(f)' \ {t}
      BY <1>5, <1>6 DEF RunSet, Busy
    <3>2. t \notin RunSet(f)' /\ (t \in RunSet(f) <=> task.file = f)
      BY <1>2, <1>3, <1>5 DEF RunSet, Busy
    <3> QED BY <3>1, <3>2, RunningMoves DEF Bit
  <2>3. Occurrences(results, f)' = Occurrences(results, f) + Bit(task.file = f)
    BY <1>1, <1>4, OccurrencesGrow
  <2>4. Bit(task.file = f) \in Nat /\ Occurrences(results, f) \in Nat
    BY CountsAreNatural DEF Bit
  <2> QED BY <2>1, <2>2, <2>3, <2>4 DEF InFlight
<1>11. HeldOnce'
  <2> SUFFICES ASSUME NEW s \in Slots PROVE Holders(s)' = Holders(s)
    BY <1>5 DEF HeldOnce, OrderlyInv
  <2>1. RunningOn(s) = RunningOn(s)' + Bit(task.slot = s) /\ RunningOn(s)' \in Nat
    <3>1. RunSetOn(s) \ {t} = RunSetOn(s)' \ {t}
      BY <1>5, <1>6 DEF RunSetOn
    <3>2. t \notin RunSetOn(s)' /\ (t \in RunSetOn(s) <=> task.slot = s)
      BY <1>2, <1>3, <1>5 DEF RunSetOn
    <3> QED BY <3>1, <3>2, RunningOnMoves DEF Bit
  <2>2. OnSlot(results, s)' = OnSlot(results, s) + Bit(task.slot = s)
    BY <1>1, <1>4, OnSlotGrows
  <2>3. Bit(task.slot = s) \in Nat /\ OnSlot(results, s) \in Nat /\ OnSlot(tasks, s) \in Nat
    BY CountsAreNatural DEF Bit
  <2>4. OnSlot(tasks, s)' = OnSlot(tasks, s)
    BY <1>5
  <2> QED BY <2>1, <2>2, <2>3, <2>4 DEF Holders
<1> QED BY <1>7, <1>8, <1>9, <1>10, <1>11 DEF OrderlyInv

(* The watchdog cuts off a parse that hangs, and reports its file.         *)
LEMMA OrderlyKill ==
  ASSUME Shape, Shape', OrderlyInv, UNCHANGED work, Kill
  PROVE  OrderlyInv' /\ \A f : InFlight(f)' = InFlight(f)
<1> DEFINE s == watchdog.slot
           r == [file |-> slots[s].file, slot |-> s, status |-> "killed"]
<1>1. /\ slots \in [Slots -> SlotStates] /\ results \in Seq(Results) /\ tasks \in Seq(Tasks)
      /\ s \in Slots /\ results' = Append(results, r) /\ watchdog'.slot = NoSlot
      /\ UNCHANGED <<tasks, thread>> /\ r.slot = s /\ r.file = slots[s].file
  BY SlotTypes DEF Shape, TypeOK, Kill, IdleWatchdog
<1>2. PICK t \in Threads : ParsedOn(s, t) /\ thread[t].task.file \in Stuck
  BY DEF OrderlyInv, Doomed, Kill
<1>3. /\ Busy(t) /\ Parsing(t) /\ Current(thread[t].task) /\ thread[t].task.slot = s
      /\ slots[s].file = thread[t].task.file /\ thread[t].task \in Tasks
  BY <1>2 DEF ParsedOn, Parsing, Busy, OrderlyInv, FilesMatch, Shape, ThreadsHoldTasks
<1>4. /\ ~slots[s].available
      /\ \A i \in DOMAIN tasks : tasks[i].slot # s
      /\ \A i \in DOMAIN results : results[i].slot # s
      /\ \A u \in Threads :
           Busy(u) /\ Current(thread[u].task) /\ thread[u].task.slot = s => u = t
  BY <1>1, <1>3, OnlyHolder DEF OrderlyInv
<1>5. /\ \A q \in Slots : /\ slots'[q].file = slots[q].file
                          /\ slots'[q].available = slots[q].available
      /\ slots'[s].gen = slots[s].gen + 1 /\ slots'[s].start = 0
      /\ \A q \in Slots \ {s} : slots'[q] = slots[q]
      /\ slots[s].gen \in Nat
  <2>1. slots[s].gen \in Nat
    BY <1>1 DEF SlotStates
  <2> QED BY <1>1, <2>1, SlotIsKilled
<1>6. r \in Results
  BY <1>1, <1>3 DEF Results, Statuses, Tasks
<1> HIDE DEF s, r
<1>7. \A u \in Threads : Busy(u) => thread[u].task \in Tasks
  BY DEF Shape, ThreadsHoldTasks
<1>8. \A u \in Threads : Busy(u) =>
        /\ thread[u].task.slot = s => ~Current(thread[u].task)'
        /\ thread[u].task.slot # s => (Current(thread[u].task)' <=> Current(thread[u].task))
  <2> SUFFICES ASSUME NEW u \in Threads, Busy(u)
               PROVE  /\ thread[u].task.slot = s => ~Current(thread[u].task)'
                      /\ thread[u].task.slot # s =>
                           (Current(thread[u].task)' <=> Current(thread[u].task))
    OBVIOUS
  <2>1. thread[u].task.gen <= slots[thread[u].task.slot].gen /\ thread[u].task.gen \in Nat
        /\ thread[u].task.slot \in Slots
    BY <1>7 DEF OrderlyInv, Generations, Tasks
  <2> QED BY <1>1, <1>5, <2>1 DEF Current
<1>9. \A u \in Threads : Busy(u) => (Current(thread[u].task)' <=> (Current(thread[u].task) /\ u # t))
  BY <1>3, <1>4, <1>8
<1>10. \A u \in Threads : (Busy(u)' <=> Busy(u)) /\ (Parsing(u)' <=> Parsing(u))
  BY <1>1 DEF Busy, Parsing
<1>11. Generations'
  <2>1. ASSUME NEW i \in DOMAIN tasks' PROVE Current(tasks[i])'
    <3>1. tasks[i] \in Tasks /\ tasks[i].slot # s /\ Current(tasks[i]) /\ tasks'[i] = tasks[i]
      BY <1>1, <1>4 DEF OrderlyInv, Generations
    <3> QED BY <1>5, <3>1 DEF Current, Tasks
  <2>2. ASSUME NEW u \in Threads, Busy(u)'
        PROVE  /\ thread'[u].task.gen <= slots'[thread'[u].task.slot].gen
               /\ \/ Current(thread[u].task)'
                  \/ Parsing(u)' /\ thread'[u].task.file \in Stuck
    <3>1. Busy(u) /\ thread'[u] = thread[u] /\ thread[u].task \in Tasks
      BY <1>1, <1>7, <1>10, <2>2
    <3>2. thread[u].task.gen <= slots'[thread[u].task.slot].gen
      <4>1. thread[u].task.gen <= slots[thread[u].task.slot].gen /\ thread[u].task.gen \in Nat
            /\ thread[u].task.slot \in Slots
        BY <3>1 DEF OrderlyInv, Generations, Tasks
      <4> QED BY <1>5, <4>1
    <3>3. \/ Current(thread[u].task)'
          \/ Parsing(u)' /\ thread[u].task.file \in Stuck
      BY <1>2, <1>3, <1>9, <1>10, <3>1 DEF OrderlyInv, Generations
    <3> QED BY <3>1, <3>2, <3>3
  <2> QED BY <2>1, <2>2, SameList DEF Generations
<1>12. FilesMatch'
  <2>1. ASSUME NEW i \in DOMAIN tasks' PROVE slots'[tasks'[i].slot].file = tasks'[i].file
    <3>1. tasks[i] \in Tasks /\ tasks'[i] = tasks[i] /\ slots[tasks[i].slot].file = tasks[i].file
      BY <1>1 DEF OrderlyInv, FilesMatch
    <3> QED BY <1>5, <3>1 DEF Tasks
  <2>2. ASSUME NEW u \in Threads, Busy(u)', Current(thread[u].task)'
        PROVE  slots'[thread'[u].task.slot].file = thread'[u].task.file
    <3>1. Busy(u) /\ thread'[u] = thread[u] /\ Current(thread[u].task) /\ thread[u].task.slot \in Slots
      BY <1>1, <1>7, <1>9, <1>10, <2>2 DEF Tasks
    <3> QED BY <1>5, <3>1 DEF OrderlyInv, FilesMatch
  <2> QED BY <2>1, <2>2 DEF FilesMatch
<1>13. Timed'
  <2>1. ASSUME NEW u \in Threads, Parsing(u)', Current(thread[u].task)'
        PROVE  /\ slots'[thread'[u].task.slot].start > 0
               /\ slots'[thread'[u].task.slot].start = 3 => thread'[u].task.file \in Stuck
    <3>1. Parsing(u) /\ Busy(u) /\ thread'[u] = thread[u]
      BY <1>1, <1>10, <2>1 DEF Parsing, Busy
    <3>2. Current(thread[u].task) /\ thread[u].task.slot \in Slots /\ thread[u].task.slot # s
      BY <1>7, <1>8, <2>1, <3>1 DEF Tasks
    <3> QED BY <1>5, <3>1, <3>2 DEF OrderlyInv, Timed
  <2>2. ASSUME NEW q \in Slots, slots'[q].start > 0
        PROVE  \E u \in Threads : ParsedOn(q, u)'
    <3>1. q # s /\ slots[q].start > 0
      BY <1>5, <2>2
    <3>2. PICK u \in Threads : ParsedOn(q, u)
      BY <3>1 DEF OrderlyInv, Timed
    <3>3. Busy(u)
      BY <3>2 DEF ParsedOn, Parsing, Busy
    <3>4. ParsedOn(q, u)'
      BY <1>1, <1>8, <1>10, <3>1, <3>2, <3>3 DEF ParsedOn
    <3> QED BY <3>4
  <2> QED BY <2>1, <2>2, SameList DEF Timed
<1>14. Doomed'
  BY <1>1 DEF Doomed
<1>15. \A f : InFlight(f)' = InFlight(f)
  <2> SUFFICES ASSUME NEW f PROVE InFlight(f)' = InFlight(f)
    OBVIOUS
  <2>1. Queued(f)' = Queued(f) /\ Queued(f) \in Nat
    <3>1. Queued(f) = Occurrences(tasks, f)
      BY QueuedOccurs DEF OrderlyInv, Generations
    <3>2. Queued(f)' = Occurrences(tasks, f)
      BY <1>1, <1>11, QueuedOccursNext DEF Generations
    <3> QED BY <3>1, <3>2, CountsAreNatural
  <2>2. Running(f) = Running(f)' + Bit(r.file = f) /\ Running(f)' \in Nat
    <3>1. RunSet(f) \ {t} = RunSet(f)' \ {t}
      BY <1>1, <1>9 DEF RunSet, Busy
    <3>2. t \notin RunSet(f)' /\ (t \in RunSet(f) <=> r.file = f)
      BY <1>1, <1>3, <1>9 DEF RunSet, Busy
    <3> QED BY <3>1, <3>2, RunningMoves DEF Bit
  <2>3. Occurrences(results, f)' = Occurrences(results, f) + Bit(r.file = f)
    BY <1>1, <1>6, OccurrencesGrow
  <2>4. Bit(r.file = f) \in Nat /\ Occurrences(results, f) \in Nat
    BY CountsAreNatural DEF Bit
  <2> QED BY <2>1, <2>2, <2>3, <2>4 DEF InFlight
<1>16. HeldOnce'
  <2> SUFFICES ASSUME NEW q \in Slots PROVE Holders(q)' = Holders(q)
    BY <1>5 DEF HeldOnce, OrderlyInv
  <2>1. RunningOn(q) = RunningOn(q)' + Bit(r.slot = q) /\ RunningOn(q)' \in Nat
    <3>1. RunSetOn(q) \ {t} = RunSetOn(q)' \ {t}
      BY <1>1, <1>9, <1>10 DEF RunSetOn
    <3>2. t \notin RunSetOn(q)' /\ (t \in RunSetOn(q) <=> r.slot = q)
      BY <1>1, <1>3, <1>9 DEF RunSetOn
    <3> QED BY <3>1, <3>2, RunningOnMoves DEF Bit
  <2>2. OnSlot(results, q)' = OnSlot(results, q) + Bit(r.slot = q)
    BY <1>1, <1>6, OnSlotGrows
  <2>3. Bit(r.slot = q) \in Nat /\ OnSlot(results, q) \in Nat /\ OnSlot(tasks, q) \in Nat
    BY CountsAreNatural DEF Bit
  <2>4. OnSlot(tasks, q)' = OnSlot(tasks, q)
    BY <1>1
  <2> QED BY <2>1, <2>2, <2>3, <2>4 DEF Holders
<1> QED BY <1>11, <1>12, <1>13, <1>14, <1>15, <1>16 DEF OrderlyInv

(* A result is taken and its slot revived.                                 *)
LEMMA OrderlyCollect ==
  ASSUME Shape, Shape', OrderlyInv, UNCHANGED work, Collect
  PROVE  /\ OrderlyInv'
         /\ \A f : /\ InFlight(f) = InFlight(f)' + Bit(Head(results).file = f)
                  /\ InFlight(f)' \in Nat
<1> DEFINE s == Head(results).slot
<1>1. /\ slots \in [Slots -> SlotStates] /\ results \in Seq(Results) /\ results # <<>>
      /\ tasks \in Seq(Tasks) /\ results' = Tail(results) /\ results' \in Seq(Results)
      /\ UNCHANGED <<tasks, thread, watchdog>>
  BY SlotTypes DEF Shape, TypeOK, Collect
<1>2. /\ Head(results) \in Results
      /\ \A q \in Slots : /\ slots'[q].file = slots[q].file
                          /\ slots'[q].gen = slots[q].gen
                          /\ slots'[q].start = slots[q].start
                          /\ slots'[q].available = (q = s \/ slots[q].available)
  BY <1>1, SlotIsRevived
<1>3. /\ \A u \in Threads : (Busy(u)' <=> Busy(u)) /\ (Parsing(u)' <=> Parsing(u))
      /\ \A u \in Threads : Busy(u) => thread[u].task \in Tasks
      /\ \A i \in DOMAIN tasks : tasks[i] \in Tasks
  <2>1. \A i \in DOMAIN tasks : tasks[i] \in Tasks
    BY <1>1
  <2>2. \A u \in Threads : Busy(u) => thread[u].task \in Tasks
    BY DEF Shape, ThreadsHoldTasks
  <2> QED BY <1>1, <2>1, <2>2 DEF Busy, Parsing
<1>4. \A i \in DOMAIN tasks : Current(tasks[i])' <=> Current(tasks[i])
  BY <1>1, <1>2, <1>3 DEF Current, Tasks
<1>5. \A u \in Threads : Busy(u) => (Current(thread[u].task)' <=> Current(thread[u].task))
  BY <1>1, <1>2, <1>3 DEF Current, Tasks
<1>6. Generations'
  BY <1>1, <1>2, <1>3, <1>4, <1>5, SameList DEF OrderlyInv, Generations, Tasks
<1>7. FilesMatch'
  BY <1>1, <1>2, <1>3, <1>5 DEF OrderlyInv, FilesMatch, Tasks
<1>8. \A q, u : u \in Threads => (ParsedOn(q, u)' <=> ParsedOn(q, u))
  BY <1>1, <1>3, <1>5 DEF ParsedOn, Parsing, Busy
<1>9. Timed'
  <2>1. ASSUME NEW u \in Threads, Parsing(u)', Current(thread[u].task)'
        PROVE  /\ slots'[thread'[u].task.slot].start > 0
               /\ slots'[thread'[u].task.slot].start = 3 => thread'[u].task.file \in Stuck
    <3>1. /\ Parsing(u) /\ thread'[u] = thread[u] /\ Current(thread[u].task)
          /\ thread[u].task.slot \in Slots
      BY <1>1, <1>3, <1>5, <2>1 DEF Parsing, Busy, Tasks
    <3> QED BY <1>2, <3>1 DEF OrderlyInv, Timed
  <2> QED BY <1>2, <1>8, <2>1, SameList DEF OrderlyInv, Timed
<1>10. Doomed'
  BY <1>1, <1>5, SameList DEF OrderlyInv, Doomed, ParsedOn, Parsing, Busy
<1>11. \A f : InFlight(f) = InFlight(f)' + Bit(Head(results).file = f) /\ InFlight(f)' \in Nat
  <2> SUFFICES ASSUME NEW f
               PROVE  InFlight(f) = InFlight(f)' + Bit(Head(results).file = f) /\ InFlight(f)' \in Nat
    OBVIOUS
  <2>1. Queued(f)' = Queued(f) /\ Queued(f) \in Nat
    <3>1. Queued(f) = Occurrences(tasks, f)
      BY QueuedOccurs DEF OrderlyInv, Generations
    <3>2. Queued(f)' = Occurrences(tasks, f)
      BY <1>1, <1>6, QueuedOccursNext DEF Generations
    <3> QED BY <3>1, <3>2, CountsAreNatural
  <2>2. Running(f)' = Running(f) /\ Running(f) \in Nat
    <3>1. RunSet(f)' = RunSet(f)
      BY <1>1, <1>5 DEF RunSet, Busy
    <3> QED BY <3>1, RunSets DEF Running, RunSet
  <2>3. Occurrences(results, f) = Occurrences(results', f) + Bit(Head(results).file = f)
    BY <1>1, OccurrencesShrink
  <2>4. Bit(Head(results).file = f) \in Nat /\ Occurrences(results', f) \in Nat
    BY <1>1, OccurrencesWhere DEF Bit
  <2>5. Occurrences(results, f)' = Occurrences(results', f)
    OBVIOUS
  <2> QED BY <2>1, <2>2, <2>3, <2>4, <2>5 DEF InFlight
<1>12. HeldOnce'
  <2> SUFFICES ASSUME NEW q \in Slots PROVE Holders(q)' = IF slots'[q].available THEN 0 ELSE 1
    BY DEF HeldOnce
  <2>1. RunningOn(q)' = RunningOn(q) /\ RunningOn(q) \in Nat
    <3>1. RunSetOn(q)' = RunSetOn(q)
      BY <1>1, <1>3, <1>5 DEF RunSetOn
    <3> QED BY <3>1, RunSets DEF RunningOn, RunSetOn
  <2>2. OnSlot(results, q) = OnSlot(results', q) + Bit(s = q)
    BY <1>1, OnSlotShrinks
  <2>3. OnSlot(results', q) \in Nat /\ OnSlot(tasks, q) \in Nat
    BY <1>1, CountsAreNatural, OnSlotWhere
  <2>4. /\ OnSlot(tasks, q)' = OnSlot(tasks, q) /\ OnSlot(results, q)' = OnSlot(results', q)
    BY <1>1
  <2>5. Holders(q) = IF slots[q].available THEN 0 ELSE 1
    BY DEF OrderlyInv, HeldOnce
  <2>6. Holders(q) = Holders(q)' + Bit(s = q) /\ Holders(q)' \in Nat
    BY <2>1, <2>2, <2>3, <2>4 DEF Holders, Bit
  <2>7. CASE q = s
    <3>1. slots'[q].available
      BY <1>2, <2>7
    <3> QED BY <2>5, <2>6, <2>7, <3>1 DEF Bit
  <2>8. CASE q # s
    <3>1. slots'[q].available <=> slots[q].available
      BY <1>2, <2>8
    <3>2. Bit(s = q) = 0
      BY <2>8 DEF Bit
    <3> QED BY <2>5, <2>6, <3>1, <3>2
  <2> QED BY <2>7, <2>8
<1> QED BY <1>6, <1>7, <1>9, <1>10, <1>11, <1>12 DEF OrderlyInv

(* A file is given a slot, or fails for want of one.                       *)
LEMMA OrderlySubmit ==
  ASSUME Shape, Shape', OrderlyInv, UNCHANGED work, Submit
  PROVE  /\ OrderlyInv'
         /\ \A f : InFlight(f)' = InFlight(f) + Bit(next + 1 = f)
<1>1. /\ slots \in [Slots -> SlotStates] /\ results \in Seq(Results) /\ tasks \in Seq(Tasks)
      /\ Total \in Nat /\ next + 1 \in Files /\ next + 1 \in 0 .. Total
      /\ UNCHANGED <<thread, watchdog>>
  <2>1. Total \in Nat /\ next \in 0 .. Total /\ next < Total
    BY Lists DEF Shape, TypeOK, Submit, MaySubmit
  <2>2. next + 1 \in Files /\ next + 1 \in 0 .. Total
    BY <2>1 DEF Files
  <2>3. UNCHANGED <<thread, watchdog>>
    BY DEF Submit
  <2>4. results \in Seq(Results) /\ tasks \in Seq(Tasks) /\ slots \in [Slots -> SlotStates]
    BY SlotTypes DEF Shape, TypeOK
  <2> QED BY <2>1, <2>2, <2>3, <2>4
<1>2. /\ \A u \in Threads : (Busy(u)' <=> Busy(u)) /\ (Parsing(u)' <=> Parsing(u))
      /\ \A u \in Threads : Busy(u) => thread[u].task \in Tasks
      /\ \A i \in DOMAIN tasks : tasks[i] \in Tasks
  <2>1. \A i \in DOMAIN tasks : tasks[i] \in Tasks
    BY <1>1
  <2>2. \A u \in Threads : Busy(u) => thread[u].task \in Tasks
    BY DEF Shape, ThreadsHoldTasks
  <2> QED BY <1>1, <2>1, <2>2 DEF Busy, Parsing
<1>3. CASE UsableAhead # {} /\ SubmitTo(Candidate(Nearest), next + 1) /\ results' = results
  <2> DEFINE s == Candidate(Nearest)
             task == [file |-> next + 1, slot |-> s, gen |-> slots[s].gen + 1]
  <2>1. s \in Slots /\ SubmitTo(s, next + 1) /\ slots[s].available
    BY <1>3, CandidateIsUsable DEF Shape, TypeOK, Usable
  <2>2. tasks' = Append(tasks, task) /\ task.file = next + 1 /\ task.slot = s /\ task.gen = slots[s].gen + 1
    BY <2>1 DEF SubmitTo
  <2>3. task \in Tasks /\ slots[s].gen \in Nat
    BY <1>1, <2>1 DEF Tasks, SlotStates
  <2> HIDE DEF s, task
  <2>4. /\ slots'[s].gen = slots[s].gen + 1 /\ slots'[s].available = FALSE
        /\ slots'[s].file = next + 1 /\ slots'[s].start = slots[s].start
        /\ \A q \in Slots \ {s} : slots'[q] = slots[q]
    BY <1>1, <2>1, SlotIsGiven
  <2>5. /\ \A i \in DOMAIN tasks : tasks[i].slot # s
        /\ \A i \in DOMAIN results : results[i].slot # s
        /\ \A u \in Threads : Busy(u) /\ Current(thread[u].task) => thread[u].task.slot # s
    BY <2>1, NoHolder DEF OrderlyInv
  <2>6. \A u \in Threads : Busy(u) => (Current(thread[u].task)' <=> Current(thread[u].task))
    <3> SUFFICES ASSUME NEW u \in Threads, Busy(u)
                 PROVE  Current(thread[u].task)' <=> Current(thread[u].task)
      OBVIOUS
    <3>1. thread[u].task.gen <= slots[thread[u].task.slot].gen /\ thread[u].task.gen \in Nat
          /\ thread[u].task.slot \in Slots
      BY <1>2 DEF OrderlyInv, Generations, Tasks
    <3>2. CASE thread[u].task.slot = s
      BY <1>1, <2>3, <2>4, <2>5, <3>1, <3>2 DEF Current
    <3>3. CASE thread[u].task.slot # s
      BY <1>1, <2>4, <3>1, <3>3 DEF Current
    <3> QED BY <3>2, <3>3
  <2>7. \A i \in DOMAIN tasks' : \/ i \in DOMAIN tasks /\ tasks'[i] = tasks[i]
                                \/ tasks'[i] = task
    BY <1>1, <2>2, <2>3
  <2>8. Generations'
    <3>1. ASSUME NEW i \in DOMAIN tasks' PROVE Current(tasks[i])'
      <4>1. CASE i \in DOMAIN tasks /\ tasks'[i] = tasks[i]
        <5>1. tasks[i].slot \in Slots \ {s} /\ Current(tasks[i])
          BY <1>2, <2>5, <4>1 DEF OrderlyInv, Generations, Tasks
        <5> QED BY <2>4, <4>1, <5>1 DEF Current
      <4>2. CASE tasks'[i] = task
        BY <2>2, <2>4, <4>2 DEF Current
      <4> QED BY <2>7, <4>1, <4>2
    <3>2. ASSUME NEW u \in Threads, Busy(u)'
          PROVE  /\ thread'[u].task.gen <= slots'[thread'[u].task.slot].gen
                 /\ \/ Current(thread[u].task)'
                    \/ Parsing(u)' /\ thread'[u].task.file \in Stuck
      <4>1. Busy(u) /\ thread'[u] = thread[u] /\ thread[u].task \in Tasks
        BY <1>1, <1>2, <3>2
      <4>2. thread[u].task.gen <= slots[thread[u].task.slot].gen /\ thread[u].task.gen \in Nat
            /\ thread[u].task.slot \in Slots
        BY <4>1 DEF OrderlyInv, Generations, Tasks
      <4>3. thread[u].task.gen <= slots'[thread[u].task.slot].gen
        BY <2>3, <2>4, <4>2
      <4>4. \/ Current(thread[u].task)'
            \/ Parsing(u)' /\ thread[u].task.file \in Stuck
        BY <1>2, <2>6, <4>1 DEF OrderlyInv, Generations
      <4> QED BY <4>1, <4>3, <4>4
    <3> QED BY <3>1, <3>2, SameList DEF Generations
  <2>9. FilesMatch'
    <3>1. ASSUME NEW i \in DOMAIN tasks' PROVE slots'[tasks'[i].slot].file = tasks'[i].file
      <4>1. CASE i \in DOMAIN tasks /\ tasks'[i] = tasks[i]
        <5>1. tasks[i].slot \in Slots \ {s} /\ slots[tasks[i].slot].file = tasks[i].file
          BY <1>2, <2>5, <4>1 DEF OrderlyInv, FilesMatch, Tasks
        <5> QED BY <2>4, <4>1, <5>1
      <4>2. CASE tasks'[i] = task
        BY <2>2, <2>4, <4>2
      <4> QED BY <2>7, <4>1, <4>2
    <3>2. ASSUME NEW u \in Threads, Busy(u)', Current(thread[u].task)'
          PROVE  slots'[thread'[u].task.slot].file = thread'[u].task.file
      <4>1. /\ Busy(u) /\ thread'[u] = thread[u] /\ Current(thread[u].task)
            /\ thread[u].task.slot \in Slots \ {s}
        BY <1>1, <1>2, <2>5, <2>6, <3>2 DEF Tasks
      <4> QED BY <2>4, <4>1 DEF OrderlyInv, FilesMatch
    <3> QED BY <3>1, <3>2 DEF FilesMatch
  <2>10. \A q, u : u \in Threads => (ParsedOn(q, u)' <=> ParsedOn(q, u))
    BY <1>1, <1>2, <2>6 DEF ParsedOn, Parsing, Busy
  <2>11. \A q \in Slots : slots'[q].start = slots[q].start
    BY <2>4
  <2>12. Timed'
    <3>1. ASSUME NEW u \in Threads, Parsing(u)', Current(thread[u].task)'
          PROVE  /\ slots'[thread'[u].task.slot].start > 0
                 /\ slots'[thread'[u].task.slot].start = 3 => thread'[u].task.file \in Stuck
      <4>1. /\ Parsing(u) /\ thread'[u] = thread[u] /\ Current(thread[u].task)
            /\ thread[u].task.slot \in Slots
        BY <1>1, <1>2, <2>6, <3>1 DEF Parsing, Busy, Tasks
      <4> QED BY <2>11, <4>1 DEF OrderlyInv, Timed
    <3> QED BY <2>10, <2>11, <3>1, SameList DEF OrderlyInv, Timed
  <2>13. Doomed'
    BY <1>1, <2>6, SameList DEF OrderlyInv, Doomed, ParsedOn, Parsing, Busy
  <2>14. \A f : InFlight(f)' = InFlight(f) + Bit(next + 1 = f)
    <3> SUFFICES ASSUME NEW f PROVE InFlight(f)' = InFlight(f) + Bit(next + 1 = f)
      OBVIOUS
    <3>1. Queued(f)' = Queued(f) + Bit(next + 1 = f) /\ Queued(f) \in Nat
      <4>1. Queued(f) = Occurrences(tasks, f)
        BY QueuedOccurs DEF OrderlyInv, Generations
      <4>2. Queued(f)' = Occurrences(tasks', f)
        BY <2>8, QueuedOccursNext DEF Generations
      <4>3. Occurrences(Append(tasks, task), f) = Occurrences(tasks, f) + Bit(task.file = f)
        BY <1>1, <2>3, OccurrencesGrow
      <4> QED BY <2>2, <4>1, <4>2, <4>3, CountsAreNatural
    <3>2. Running(f)' = Running(f) /\ Running(f) \in Nat
      <4>1. RunSet(f)' = RunSet(f)
        BY <1>1, <2>6 DEF RunSet, Busy
      <4> QED BY <4>1, RunSets DEF Running, RunSet
    <3>3. Occurrences(results, f)' = Occurrences(results, f) /\ Occurrences(results, f) \in Nat
      BY <1>3, CountsAreNatural
    <3>4. Bit(next + 1 = f) \in Nat
      BY DEF Bit
    <3> QED BY <3>1, <3>2, <3>3, <3>4 DEF InFlight
  <2>15. HeldOnce'
    <3> SUFFICES ASSUME NEW q \in Slots PROVE Holders(q)' = IF slots'[q].available THEN 0 ELSE 1
      BY DEF HeldOnce
    <3>1. RunningOn(q)' = RunningOn(q) /\ RunningOn(q) \in Nat
      <4>1. RunSetOn(q)' = RunSetOn(q)
        BY <1>1, <1>2, <2>6 DEF RunSetOn
      <4> QED BY <4>1, RunSets DEF RunningOn, RunSetOn
    <3>2. OnSlot(tasks', q) = OnSlot(tasks, q) + Bit(s = q)
      BY <1>1, <2>2, <2>3, OnSlotGrows
    <3>3. OnSlot(results, q) \in Nat /\ OnSlot(tasks, q) \in Nat
      BY CountsAreNatural
    <3>4. OnSlot(tasks, q)' = OnSlot(tasks', q) /\ OnSlot(results, q)' = OnSlot(results, q)
      BY <1>3
    <3>5. Holders(q) = IF slots[q].available THEN 0 ELSE 1
      BY DEF OrderlyInv, HeldOnce
    <3>6. Holders(q)' = Holders(q) + Bit(s = q) /\ Holders(q) \in Nat
      BY <3>1, <3>2, <3>3, <3>4 DEF Holders, Bit
    <3>7. CASE q = s
      BY <2>1, <2>4, <3>5, <3>6, <3>7 DEF Bit
    <3>8. CASE q # s
      BY <2>4, <3>5, <3>6, <3>8 DEF Bit
    <3> QED BY <3>7, <3>8
  <2> QED BY <2>8, <2>9, <2>12, <2>13, <2>14, <2>15 DEF OrderlyInv
<1>4. CASE /\ results' = Append(results, [file |-> next + 1, slot |-> NoSlot,
                                       status |-> "noslot"])
           /\ UNCHANGED <<nextSlot, slots, tasks>>
  <2> DEFINE r == [file |-> next + 1, slot |-> NoSlot, status |-> "noslot"]
  <2>1. r \in Results /\ r.file = next + 1 /\ r.slot = NoSlot /\ results' = Append(results, r)
    BY <1>1, <1>4 DEF Results, Statuses
  <2> HIDE DEF r
  <2>2. /\ \A i \in DOMAIN tasks : Current(tasks[i])' <=> Current(tasks[i])
        /\ \A u \in Threads : Current(thread[u].task)' <=> Current(thread[u].task)
    BY <1>1, <1>4 DEF Current
  <2>3. Generations' /\ FilesMatch' /\ Timed' /\ Doomed'
    BY <1>1, <1>4, <2>2, SameList DEF OrderlyInv, Generations, FilesMatch, Timed, Doomed, ParsedOn, Parsing, Busy
  <2>4. \A f : InFlight(f)' = InFlight(f) + Bit(next + 1 = f)
    <3> SUFFICES ASSUME NEW f PROVE InFlight(f)' = InFlight(f) + Bit(next + 1 = f)
      OBVIOUS
    <3>1. Queued(f)' = Queued(f) /\ Queued(f) \in Nat
      <4>1. Queued(f) = Occurrences(tasks, f)
        BY QueuedOccurs DEF OrderlyInv, Generations
      <4>2. Queued(f)' = Occurrences(tasks, f)
        BY <1>4, <2>3, QueuedOccursNext DEF Generations
      <4> QED BY <4>1, <4>2, CountsAreNatural
    <3>2. Running(f)' = Running(f) /\ Running(f) \in Nat
      <4>1. RunSet(f)' = RunSet(f)
        BY <1>1, <2>2 DEF RunSet
      <4> QED BY <4>1, RunSets DEF Running, RunSet
    <3>3. /\ Occurrences(results, f)' = Occurrences(results, f) + Bit(next + 1 = f)
          /\ Occurrences(results, f) \in Nat
      <4>1. Occurrences(Append(results, r), f) = Occurrences(results, f) + Bit(r.file = f)
        BY <1>1, <2>1, OccurrencesGrow
      <4> QED BY <2>1, <4>1, CountsAreNatural
    <3>4. Bit(next + 1 = f) \in Nat
      BY DEF Bit
    <3> QED BY <3>1, <3>2, <3>3, <3>4 DEF InFlight
  <2>5. HeldOnce'
    <3> SUFFICES ASSUME NEW q \in Slots PROVE Holders(q)' = Holders(q)
      BY <1>4 DEF HeldOnce, OrderlyInv
    <3>1. RunningOn(q)' = RunningOn(q)
      <4>1. RunSetOn(q)' = RunSetOn(q)
        BY <1>1, <1>2, <2>2 DEF RunSetOn
      <4> QED BY <4>1 DEF RunningOn, RunSetOn
    <3>2. NoSlot # q
      BY Sizes DEF NoSlot, Slots
    <3>3. OnSlot(Append(results, r), q) = OnSlot(results, q) + Bit(r.slot = q)
      BY <1>1, <2>1, OnSlotGrows
    <3>4. OnSlot(results', q) = OnSlot(results, q)
      BY <2>1, <3>2, <3>3, CountsAreNatural DEF Bit
    <3>5. OnSlot(tasks, q)' = OnSlot(tasks, q) /\ OnSlot(results, q)' = OnSlot(results', q)
      BY <1>4
    <3> QED BY <3>1, <3>4, <3>5 DEF Holders
  <2> QED BY <2>3, <2>4, <2>5 DEF OrderlyInv
<1> QED BY <1>3, <1>4 DEF Submit

-----------------------------------------------------------------------------
(* Every file in one place.                                                *)

(* The results that the main and the persist thread hold.                  *)
LEMMA OccurrencesInPair ==
  ASSUME NEW a, NEW b, NEW f
  PROVE  Occurrences(<<a, b>>, f) = Bit(a.file = f) + Bit(b.file = f)
<1> DEFINE A == {i \in {1} : a.file = f}
           B == {i \in {2} : b.file = f}
<1>1. Occurrences(<<a, b>>, f) = Cardinality(A \union B)
  <2>1. DOMAIN <<a, b>> = {1, 2} /\ <<a, b>>[1] = a /\ <<a, b>>[2] = b
    OBVIOUS
  <2>2. {i \in DOMAIN <<a, b>> : <<a, b>>[i].file = f} = A \union B
    BY <2>1
  <2> QED BY <2>2 DEF Occurrences
<1>2. A = (IF a.file = f THEN {1} ELSE {}) /\ B = (IF b.file = f THEN {2} ELSE {})
  OBVIOUS
<1>3. /\ IsFiniteSet(A) /\ Cardinality(A) = Bit(a.file = f)
      /\ IsFiniteSet(B) /\ Cardinality(B) = Bit(b.file = f)
  <2>1. IsFiniteSet({}) /\ Cardinality({}) = 0
    BY FS_EmptySet
  <2>2. \A x : IsFiniteSet({x}) /\ Cardinality({x}) = 1
    BY FS_Singleton
  <2> HIDE DEF A, B
  <2>3. IsFiniteSet(A) /\ Cardinality(A) = Bit(a.file = f)
    BY <1>2, <2>1, <2>2 DEF Bit
  <2>4. IsFiniteSet(B) /\ Cardinality(B) = Bit(b.file = f)
    BY <1>2, <2>1, <2>2 DEF Bit
  <2> QED BY <2>3, <2>4
<1>4. A \intersect B = {} /\ Cardinality(A \intersect B) = 0
  BY <1>2, FS_EmptySet
<1> HIDE DEF A, B
<1>5. Cardinality(A \union B) = Cardinality(A) + Cardinality(B) - Cardinality(A \intersect B)
  BY <1>3, FS_Union
<1> QED BY <1>1, <1>3, <1>4, <1>5 DEF Bit

(* Passed(f) as a sum.                                                     *)
LEMMA PassedIs ==
  ASSUME NEW f
  PROVE  Passed(f) = Bit(main.item.file = f) + Bit(persist.item.file = f)
                       + Occurrences(queue, f) + Occurrences(persisted, f)
BY OccurrencesInPair DEF Passed

LEMMA PassedIsNext ==
  ASSUME NEW f
  PROVE  Passed(f)' = Bit(main'.item.file = f) + Bit(persist'.item.file = f)
                       + Occurrences(queue', f) + Occurrences(persisted', f)
BY OccurrencesInPair DEF Passed

LEMMA PlacesAreNatural ==
  ASSUME Shape, Generations, NEW f
  PROVE  /\ InFlight(f) \in Nat /\ Passed(f) \in Nat
         /\ Bit(main.item.file = f) \in Nat /\ Bit(persist.item.file = f) \in Nat
         /\ Occurrences(queue, f) \in Nat /\ Occurrences(persisted, f) \in Nat
<1>1. Bit(main.item.file = f) \in Nat /\ Bit(persist.item.file = f) \in Nat
  BY DEF Bit
<1>2. Queued(f) \in Nat
  BY CountsAreNatural, QueuedOccurs DEF Generations
<1> QED BY <1>1, <1>2, CountsAreNatural, PassedIs DEF InFlight

(* The steps past the main thread's result queue.                          *)
LEMMA PassedStep ==
  ASSUME Shape, Progress, Generations, UNCHANGED work, NEW f \in Files,
         Collect \/ Push \/ Persist
  PROVE  /\ Passed(f)' \in Nat
         /\ Collect => Passed(f)' = Passed(f) + Bit(Head(results).file = f)
         /\ ~Collect => \/ Passed(f)' = Passed(f)
                        \/ fatal' /\ Passed(f)' <= Passed(f)
         /\ ~Collect => next' = next
         /\ fatal => fatal'
<1> USE DEF NoResult
<1>1. /\ f # 0 /\ queue \in Seq(Results) /\ persisted \in Seq(Results)
      /\ main \in [at : {"fill", "refill", "wait", "push", "join", "stop",
                        "finish", "destroy", "returned"},
                  item : Results \union {NoResult}, rc : {0, 1}]
      /\ persist \in [at : {"pop", "write", "exited"}, item : Results \union {NoResult}]
  BY DEF Files, Shape, TypeOK
<1>2. /\ Bit(main.item.file = f) \in Nat /\ Bit(persist.item.file = f) \in Nat
      /\ Occurrences(queue, f) \in Nat /\ Occurrences(persisted, f) \in Nat
  BY PlacesAreNatural
<1>3. /\ Passed(f) = Bit(main.item.file = f) + Bit(persist.item.file = f)
                       + Occurrences(queue, f) + Occurrences(persisted, f)
      /\ Passed(f)' = Bit(main'.item.file = f) + Bit(persist'.item.file = f)
                       + Occurrences(queue', f) + Occurrences(persisted', f)
  BY PassedIs, PassedIsNext
<1>4. CASE Collect
  <2>1. main'.item = Head(results) /\ main.item.file = 0 /\ UNCHANGED persistVars
    BY <1>1, <1>4 DEF Collect, Shape, ItemsFit
  <2>2. Bit(main.item.file = f) = 0 /\ Bit(main'.item.file = f) = Bit(Head(results).file = f)
        /\ Bit(Head(results).file = f) \in Nat
    BY <1>1, <2>1 DEF Bit
  <2> QED BY <1>2, <1>3, <1>4, <2>1, <2>2 DEF persistVars
<1>5. CASE Push
  <2>1. /\ main.item \in Results /\ main'.item.file = 0 /\ ~Collect
        /\ UNCHANGED <<next, persist, persisted, fatal>>
    BY <1>1, <1>5 DEF Push, Shape, ItemsFit, Collect
  <2>2. Bit(main'.item.file = f) = 0
    BY <1>1, <2>1 DEF Bit
  <2>3. CASE closed
    <3>1. queue' = queue /\ fatal
      BY <1>5, <2>3 DEF Push, Progress, Ended
    <3> QED BY <1>2, <1>3, <2>1, <2>2, <3>1
  <2>4. CASE ~closed
    <3>1. queue' = Append(queue, main.item)
      BY <1>5, <2>4 DEF Push
    <3>2. Occurrences(queue', f) = Occurrences(queue, f) + Bit(main.item.file = f)
      BY <1>1, <2>1, <3>1, OccurrencesGrow
    <3> QED BY <1>2, <1>3, <2>1, <2>2, <3>2
  <2> QED BY <2>3, <2>4
<1>6. CASE PersistPop
  <2>1. /\ queue # <<>> /\ queue' = Tail(queue) /\ persist'.item = Head(queue)
        /\ persist.item.file = 0 /\ UNCHANGED <<main, next, persisted, fatal>> /\ ~Collect
    BY <1>1, <1>6 DEF PersistPop, mainVars, Shape, ItemsFit, Collect
  <2>2. /\ Bit(persist.item.file = f) = 0
        /\ Bit(persist'.item.file = f) = Bit(Head(queue).file = f)
        /\ Bit(Head(queue).file = f) \in Nat
    BY <1>1, <2>1 DEF Bit
  <2>3. Tail(queue) \in Seq(Results)
    BY <1>1, <2>1
  <2>4. /\ Occurrences(queue, f) = Occurrences(queue', f) + Bit(Head(queue).file = f)
        /\ Occurrences(queue', f) \in Nat
    <3>1. Occurrences(queue, f) = Occurrences(Tail(queue), f) + Bit(Head(queue).file = f)
      BY <1>1, <2>1, OccurrencesShrink
    <3>2. Occurrences(Tail(queue), f) \in Nat
      BY <2>3, OccurrencesWhere
    <3> QED BY <2>1, <3>1, <3>2
  <2> QED BY <1>2, <1>3, <2>1, <2>2, <2>4
<1>7. CASE PersistWrite
  <2>1. /\ persist.item \in Results /\ persisted' = Append(persisted, persist.item)
        /\ persist'.item.file = 0 /\ UNCHANGED <<main, next, queue, fatal>> /\ ~Collect
    BY <1>1, <1>7 DEF PersistWrite, mainVars, Shape, ItemsFit, Collect
  <2>2. Bit(persist'.item.file = f) = 0
    BY <1>1, <2>1 DEF Bit
  <2>3. Occurrences(persisted', f) = Occurrences(persisted, f) + Bit(persist.item.file = f)
    BY <1>1, <2>1, OccurrencesGrow
  <2> QED BY <1>2, <1>3, <2>1, <2>2, <2>3
<1>8. CASE PersistEnd
  <2>1. /\ persist'.item = persist.item /\ ~Collect
        /\ UNCHANGED <<main, next, queue, persisted, fatal>>
    BY <1>1, <1>8 DEF PersistEnd, mainVars, Collect
  <2> QED BY <1>2, <1>3, <2>1
<1>9. CASE PersistFail
  <2>1. /\ persist'.item.file = 0 /\ fatal' /\ ~Collect
        /\ UNCHANGED <<main, next, queue, persisted>>
    BY <1>1, <1>9 DEF PersistFail, mainVars, Collect
  <2>2. Bit(persist'.item.file = f) = 0
    BY <1>1, <2>1 DEF Bit
  <2> QED BY <1>2, <1>3, <2>1, <2>2
<1> QED BY <1>4, <1>5, <1>6, <1>7, <1>8, <1>9 DEF Persist

(* A step that neither submits a file nor takes a result.                  *)
Onward ==
  /\ \A f : InFlight(f)' = InFlight(f)
  /\ inFlight' = inFlight /\ next' = next
  /\ fatal => fatal'
  /\ \A f \in Files : /\ Passed(f)' \in Nat
                      /\ \/ Passed(f)' = Passed(f)
                         \/ fatal' /\ Passed(f)' <= Passed(f)

(* Steps before the result queue of the main thread are such steps.        *)
LEMMA OnwardWhenUnmoved ==
  ASSUME Shape, Generations, Unmoved, UNCHANGED <<mainVars, persistVars>>
  PROVE  Onward
<1>1. \A f : Passed(f)' = Passed(f)
  BY DEF Passed, mainVars, persistVars
<1> QED BY <1>1, UnmovedCounts, PlacesAreNatural DEF Onward, mainVars, persistVars

(* Each step keeps the invariant of orderly lists, and is a submission,    *)
(* the taking of a result, or neither.                                     *)
LEMMA OrderlyStep ==
  ASSUME Shape, Shape', Progress, Orderly, OrderlyInv, Next, UNCHANGED work
  PROVE  OrderlyInv' /\ (Submit \/ Collect \/ Onward)
<1> USE DEF OrderlyInv
<1>1. CASE Submit
  BY <1>1, OrderlySubmit
<1>2. CASE Collect
  BY <1>2, OrderlyCollect
<1>3. CASE Push \/ Persist
  <2>1. /\ UNCHANGED <<slots, tasks, thread, results, watchdog>> /\ inFlight' = inFlight
    BY <1>3 DEF Push, Persist, PersistPop, PersistWrite, PersistEnd, PersistFail, mainVars
  <2>2. Unmoved /\ OrderlyInv'
    BY <2>1, OrderlyElsewhere
  <2>3. ~Collect
    BY <2>1, <1>3 DEF Push, Collect, Persist, PersistPop, PersistWrite, PersistEnd, PersistFail, mainVars, Shape, TypeOK
  <2>4. \A f \in Files : /\ Passed(f)' \in Nat /\ next' = next /\ (fatal => fatal')
                        /\ \/ Passed(f)' = Passed(f)
                           \/ fatal' /\ Passed(f)' <= Passed(f)
    BY <1>3, <2>3, PassedStep
  <2>5. next' = next /\ (fatal => fatal')
    BY <1>3 DEF Push, Persist, PersistPop, PersistWrite, PersistEnd, PersistFail, mainVars
  <2>6. \A f : InFlight(f)' = InFlight(f)
    BY <2>2, UnmovedCounts
  <2>7. Onward
    BY <2>1, <2>4, <2>5, <2>6 DEF Onward
  <2> QED BY <2>2, <2>7
<1>4. CASE FillDone \/ CloseQueue \/ JoinPersist \/ StopWatchdog \/ Finish \/ Destroy
  <2>1. /\ UNCHANGED <<slots, tasks, thread, results, queue, persist, persisted, fatal, next, inFlight>>
        /\ watchdog' = watchdog \/ watchdog'.slot = NoSlot
        /\ main'.item = main.item
    BY <1>4 DEF FillDone, CloseQueue, JoinPersist, StopWatchdog, Finish, Destroy, MainGoto, persistVars, Shape, TypeOK
  <2>2. Unmoved /\ OrderlyInv'
    BY <2>1, OrderlyElsewhere
  <2>3. \A f : InFlight(f)' = InFlight(f)
    BY <2>2, UnmovedCounts
  <2>4. \A f : Passed(f)' = Passed(f)
    BY <2>1 DEF Passed
  <2>5. Onward
    BY <2>1, <2>3, <2>4, PlacesAreNatural DEF Onward
  <2> QED BY <2>2, <2>5
<1>5. ASSUME NEW t \in Threads, Worker(t)
      PROVE  OrderlyInv' /\ Onward
  <2>1. UNCHANGED <<mainVars, persistVars>>
    BY <1>5 DEF Worker, Take, Lease, Reject, StartParse, EndParse, ThrowParse, Report
  <2>2. \A f : Passed(f)' = Passed(f) /\ Passed(f) \in Nat
    BY <2>1, PlacesAreNatural DEF Passed, mainVars, persistVars
  <2>3. CASE Take(t)
    BY <2>1, <2>2, <2>3, OrderlyTake DEF Onward, mainVars, persistVars
  <2>4. CASE Report(t)
    BY <2>1, <2>2, <2>4, OrderlyReport DEF Onward, mainVars, persistVars
  <2>5. CASE Lease(t) \/ Reject(t) \/ StartParse(t) \/ EndParse(t) \/ ThrowParse(t)
    BY <2>1, <2>5, OrderlyWorker, OnwardWhenUnmoved
  <2> QED BY <1>5, <2>3, <2>4, <2>5 DEF Worker
<1>6. ASSUME NEW s \in Slots, Age(s) \/ Inspect(s)
      PROVE  OrderlyInv' /\ Onward
  <2>1. UNCHANGED <<mainVars, persistVars>>
    BY <1>6 DEF Age, Inspect
  <2> QED BY <1>6, <2>1, OrderlyClock, OnwardWhenUnmoved
<1>7. CASE AskToStop
  <2>1. UNCHANGED <<mainVars, persistVars>>
    BY <1>7 DEF AskToStop
  <2> QED BY <1>7, <2>1, OrderlyAskToStop, OnwardWhenUnmoved
<1>8. CASE Kill
  <2>1. UNCHANGED <<mainVars, persistVars>>
    BY <1>8 DEF Kill
  <2>2. \A f : Passed(f)' = Passed(f) /\ Passed(f) \in Nat
    BY <2>1, PlacesAreNatural DEF Passed, mainVars, persistVars
  <2> QED BY <1>8, <2>1, <2>2, OrderlyKill DEF Onward, mainVars, persistVars
<1>9. CASE Terminated
  <2>1. UNCHANGED <<mainVars, persistVars, slots, tasks, thread, results, watchdog>>
    BY <1>9 DEF Terminated, vars
  <2> QED BY <2>1, OrderlyElsewhere, OnwardWhenUnmoved
<1> QED BY <1>1, <1>2, <1>3, <1>4, <1>5, <1>6, <1>7, <1>8, <1>9 DEF Next, Main

(* And each keeps every file in one place: a submission adds one to        *)
(* in_flight, the taking of a result takes one from it.                    *)
LEMMA PlacesStep ==
  ASSUME Shape, Shape', Progress, Orderly, OrderlyInv, InOnePlace, InFlightExact,
         Next, UNCHANGED work
  PROVE  (InOnePlace /\ InFlightExact)'
<1> DEFINE Set == {f \in Files : InFlight(f) > 0}
<1>1. /\ IsFiniteSet(Set) /\ inFlight = Cardinality(Set) /\ Files' = Files
      /\ Total \in Nat /\ next \in 0 .. Total
  <2>1. Total \in Nat /\ next \in 0 .. Total
    BY Lists DEF Shape, TypeOK
  <2>2. IsFiniteSet(Files)
    BY <2>1, FS_Interval DEF Files
  <2> QED BY <2>1, <2>2, FS_Subset, SameList DEF InFlightExact
<1>2. InFlightExact' <=> inFlight' = Cardinality(Set')
  BY DEF InFlightExact
<1>3. \A f : InFlight(f) \in Nat /\ Passed(f) \in Nat
  BY PlacesAreNatural DEF OrderlyInv
<1>4. CASE Submit
  <2>1. /\ \A f : InFlight(f)' = InFlight(f) + Bit(next + 1 = f)
        /\ \A f : Passed(f)' = Passed(f)
        /\ next' = next + 1 /\ inFlight' = inFlight + 1 /\ fatal' = fatal /\ next < Total
    BY <1>4, OrderlySubmit DEF Submit, MaySubmit, Passed, persistVars
  <2>2. next + 1 \in Files /\ InFlight(next + 1) = 0
    BY <1>1, <1>3, <2>1 DEF Files, InOnePlace
  <2>3. InOnePlace'
    <3> SUFFICES ASSUME NEW f \in Files
                 PROVE  IF f > next + 1 THEN InFlight(f)' + Passed(f)' = 0
                        ELSE \/ InFlight(f)' + Passed(f)' = 1
                             \/ fatal' /\ InFlight(f)' + Passed(f)' = 0
      BY <1>1, <2>1 DEF InOnePlace
    <3>1. f \in Nat
      BY <1>1 DEF Files
    <3>2. CASE f = next + 1
      BY <1>1, <1>3, <2>1, <3>1, <3>2 DEF InOnePlace, Bit
    <3>3. CASE f # next + 1
      BY <1>1, <1>3, <2>1, <3>1, <3>3 DEF InOnePlace, Bit
    <3> QED BY <3>2, <3>3
  <2>4. Set' = Set \union {next + 1} /\ next + 1 \notin Set
    BY <1>1, <1>3, <2>1, <2>2 DEF Bit
  <2> HIDE DEF Set
  <2>5. Cardinality(Set') = Cardinality(Set) + 1
    BY <1>1, <2>4, FS_AddElement
  <2> QED BY <1>1, <1>2, <2>1, <2>3, <2>5
<1>5. CASE Collect
  <2>1. Head(results).file \in Files
    <3>1. Head(results) \in Results
      BY <1>5 DEF Collect, Shape, TypeOK
    <3> QED BY <3>1 DEF Results
  <2>2. PICK g \in Files : g = Head(results).file
    BY <2>1
  <2>3. /\ \A f : InFlight(f) = InFlight(f)' + Bit(g = f) /\ InFlight(f)' \in Nat
        /\ \A f \in Files : Passed(f)' = Passed(f) + Bit(g = f)
        /\ next' = next /\ inFlight' = inFlight - 1 /\ fatal' = fatal /\ inFlight \in Nat
    <3>1. \A f : InFlight(f) = InFlight(f)' + Bit(g = f) /\ InFlight(f)' \in Nat
      BY <1>5, <2>2, OrderlyCollect
    <3>2. \A f \in Files : Passed(f)' = Passed(f) + Bit(g = f)
      BY <1>5, <2>2, PassedStep DEF OrderlyInv
    <3>3. next' = next /\ inFlight' = inFlight - 1 /\ fatal' = fatal /\ inFlight \in Nat
      BY <1>5, Sizes DEF Collect, persistVars, Shape, TypeOK
    <3> QED BY <3>1, <3>2, <3>3
  <2>4. \A f \in Files : InFlight(f)' + Passed(f)' = InFlight(f) + Passed(f)
    BY <1>3, <2>3 DEF Bit
  <2>5. InOnePlace'
    BY <1>1, <2>3, <2>4 DEF InOnePlace
  <2>6. InFlight(g) > 0 /\ InFlight(g)' = 0
    <3>1. InFlight(g) + Passed(g) <= 1
      BY <1>1, <1>3, <2>2 DEF InOnePlace, Files
    <3>2. InFlight(g) = InFlight(g)' + 1 /\ InFlight(g)' \in Nat
      <4>1. InFlight(g) = InFlight(g)' + Bit(g = g) /\ InFlight(g)' \in Nat
        BY <2>3
      <4> QED BY <4>1 DEF Bit
    <3> QED BY <1>3, <3>1, <3>2
  <2>7. Set' = Set \ {g} /\ g \in Set
    <3>1. ASSUME NEW f \in Files, f # g PROVE InFlight(f)' = InFlight(f)
      <4>1. InFlight(f) = InFlight(f)' + Bit(g = f) /\ InFlight(f)' \in Nat
        BY <2>3
      <4> QED BY <3>1, <4>1 DEF Bit
    <3>2. \A f \in Files : InFlight(f)' > 0 <=> InFlight(f) > 0 /\ f # g
      BY <2>6, <3>1
    <3> QED BY <1>1, <2>2, <2>6, <3>2
  <2> HIDE DEF Set
  <2>8. Cardinality(Set') = Cardinality(Set) - 1
    BY <1>1, <2>7, FS_RemoveElement
  <2> QED BY <1>1, <1>2, <2>3, <2>5, <2>8
<1>6. CASE Onward
  <2>1. InOnePlace'
    <3> SUFFICES ASSUME NEW f \in Files
                 PROVE  IF f > next THEN InFlight(f)' + Passed(f)' = 0
                        ELSE \/ InFlight(f)' + Passed(f)' = 1
                             \/ fatal' /\ InFlight(f)' + Passed(f)' = 0
      BY <1>1, <1>6 DEF InOnePlace, Onward
    <3>1. /\ InFlight(f)' = InFlight(f) /\ Passed(f)' \in Nat
          /\ fatal => fatal'
          /\ \/ Passed(f)' = Passed(f)
             \/ fatal' /\ Passed(f)' <= Passed(f)
      BY <1>6 DEF Onward
    <3>2. IF f > next THEN InFlight(f) + Passed(f) = 0
          ELSE \/ InFlight(f) + Passed(f) = 1
               \/ fatal /\ InFlight(f) + Passed(f) = 0
      BY DEF InOnePlace
    <3> QED BY <1>3, <3>1, <3>2
  <2>2. Set' = Set /\ inFlight' = inFlight
    BY <1>1, <1>6 DEF Onward
  <2> QED BY <1>1, <1>2, <2>1, <2>2
<1> QED BY <1>4, <1>5, <1>6, OrderlyStep

-----------------------------------------------------------------------------
(* The invariant.                                                          *)

(* Before the first file is submitted nothing is anywhere.                 *)
LEMMA NothingAtFirst ==
  ASSUME Init
  PROVE  /\ \A f : InFlight(f) = 0
         /\ \A s : Holders(s) = 0
         /\ \A f \in Files : Passed(f) = 0
<1>1. /\ tasks = <<>> /\ results = <<>> /\ queue = <<>> /\ persisted = <<>>
      /\ main.item = NoResult /\ persist.item = NoResult
      /\ \A t \in Threads : thread[t].at = "idle"
  BY DEF Init, IdleThread
<1>2. Cardinality({}) = 0
  BY FS_EmptySet
<1>3. \A f : Occurrences(<<>>, f) = 0
  <2>1. \A f : {i \in DOMAIN <<>> : <<>>[i].file = f} = {}
    OBVIOUS
  <2> QED BY <1>2, <2>1 DEF Occurrences
<1>4. \A s : OnSlot(<<>>, s) = 0
  <2>1. \A s : {i \in DOMAIN <<>> : <<>>[i].slot = s} = {}
    OBVIOUS
  <2> QED BY <1>2, <2>1 DEF OnSlot
<1>5. (\A f : Running(f) = 0) /\ (\A s : RunningOn(s) = 0)
  <2>1. (\A f : RunSet(f) = {}) /\ (\A s : RunSetOn(s) = {})
    BY <1>1 DEF RunSet, RunSetOn, Busy
  <2> QED BY <1>2, <2>1, RunSets
<1>6. \A f : Queued(f) = 0
  BY <1>1, <1>3, QueuedOccurs
<1>7. \A f : InFlight(f) = 0
  BY <1>1, <1>3, <1>5, <1>6 DEF InFlight
<1>8. \A s : Holders(s) = 0
  BY <1>1, <1>4, <1>5 DEF Holders
<1>9. ASSUME NEW f \in Files PROVE Passed(f) = 0
  <2>1. Bit(NoResult.file = f) = 0
    BY <1>9 DEF NoResult, Files, Bit
  <2> QED BY <1>1, <1>3, <2>1, PassedIs
<1> QED BY <1>7, <1>8, <1>9

(* The invariant holds at first ...                                        *)
LEMMA InvInit == Init => Inv
<1> SUFFICES ASSUME Init PROVE Inv
  OBVIOUS
<1>1. Shape /\ Progress
  BY ShapeInit, ProgressInit
<1>2. /\ \A s \in Slots : slots[s].start = 0 /\ slots[s].available
      /\ \A t \in Threads : thread[t].at = "idle"
      /\ tasks = <<>> /\ watchdog.slot = NoSlot /\ inFlight = 0
  BY DEF Init, IdleThread, IdleWatchdog
<1>3. Generations /\ FilesMatch /\ Timed /\ Doomed
  BY <1>2 DEF Generations, FilesMatch, Timed, Doomed, Busy, Parsing
<1>4. HeldOnce
  BY <1>2, NothingAtFirst DEF HeldOnce
<1>5. InOnePlace
  <2>1. \A f \in Files : f > next
    BY <1>1, Lists DEF Init, Files, Shape
  <2> QED BY <2>1, NothingAtFirst DEF InOnePlace
<1>6. InFlightExact
  <2>1. {f \in Files : InFlight(f) > 0} = {}
    BY NothingAtFirst
  <2> QED BY <1>2, <2>1, FS_EmptySet DEF InFlightExact
<1> QED BY <1>1, <1>3, <1>4, <1>5, <1>6 DEF Inv, OrderlyInv

(* ... when nothing happens ...                                            *)
LEMMA InvStutter ==
  ASSUME Inv, UNCHANGED <<vars, work>>
  PROVE  Inv'
<1>1. UNCHANGED <<main, next, inFlight, nextSlot, slots, tasks, thread, arenas, results,
                  watchdog, queue, closed, persist, persisted, fatal, work>>
  BY DEF vars, mainVars, persistVars
<1>2. Shape' /\ Progress'
  BY <1>1, SameList DEF Inv, Shape, Progress, TypeOK, ThreadsHoldTasks, SlotsHaveFiles,
                        ItemsFit, ArenasBalanced, Busy
<1>3. ASSUME Orderly PROVE (OrderlyInv /\ InOnePlace /\ InFlightExact)'
  <2>1. OrderlyInv' /\ Unmoved
    BY <1>1, <1>2, <1>3, OrderlyElsewhere DEF Inv
  <2>2. \A f : InFlight(f)' = InFlight(f) /\ Passed(f)' = Passed(f)
    BY <1>1, <2>1, UnmovedCounts DEF Inv, Passed
  <2>3. Files' = Files
    BY <1>1, SameList
  <2>4. InOnePlace'
    BY <1>1, <1>3, <2>2, <2>3 DEF Inv, InOnePlace
  <2>5. InFlightExact'
    BY <1>1, <1>3, <2>2, <2>3 DEF Inv, InFlightExact
  <2> QED BY <2>1, <2>4, <2>5
<1> QED BY <1>1, <1>2, <1>3 DEF Inv, Orderly, Throws, Late

(* ... and after every step.                                               *)
LEMMA InvStep ==
  ASSUME Inv, [Next /\ UNCHANGED work]_<<vars, work>>
  PROVE  Inv'
<1>1. CASE UNCHANGED <<vars, work>>
  BY <1>1, InvStutter
<1>2. CASE Next /\ UNCHANGED work
  <2>1. Shape' /\ Progress'
    BY <1>2, ShapeStep, ProgressStep DEF Inv
  <2>2. Orderly' <=> Orderly
    BY <1>2 DEF Orderly, Throws, Late
  <2>3. ASSUME Orderly PROVE (OrderlyInv /\ InOnePlace /\ InFlightExact)'
    <3>1. OrderlyInv /\ InOnePlace /\ InFlightExact /\ Shape /\ Progress
      BY <2>3 DEF Inv
    <3>2. OrderlyInv'
      BY <1>2, <2>1, <2>3, <3>1, OrderlyStep
    <3>3. (InOnePlace /\ InFlightExact)'
      BY <1>2, <2>1, <2>3, <3>1, PlacesStep
    <3> QED BY <3>2, <3>3
  <2> QED BY <2>1, <2>2, <2>3 DEF Inv
<1> QED BY <1>1, <1>2

(* Every reachable state satisfies the invariant above: the handling of    *)
(* slots, tasks and results in run_index(), its pool threads, its watchdog *)
(* and its persist thread.                                                 *)
THEOREM Invariance == Spec => []Inv
<1>1. Init => Inv
  BY InvInit
<1>2. Inv /\ [Next /\ UNCHANGED work]_<<vars, work>> => Inv'
  BY InvStep
<1> QED BY <1>1, <1>2, PTL DEF Spec

(* The window bounds in_flight and the capacity bounds the persist queue,  *)
(* however many threads there are and whatever the files do.               *)
THEOREM TypeCorrect == Spec => []TypeOK
<1>1. Inv => TypeOK
  BY DEF Inv, Shape
<1> QED BY <1>1, Invariance, PTL

(* Every arena a parse leased from the ArenaPool goes back to it, on each  *)
(* of the ways out of the task of a worker, a throw included.              *)
THEOREM ArenasAreReturned == Spec => []ArenasBalanced
<1>1. Inv => ArenasBalanced
  BY DEF Inv, Shape
<1> QED BY <1>1, Invariance, PTL

(* A file of the work list is reported once: by the worker that parsed it, *)
(* by the watchdog that gave it up or by try_submit_one() that found no    *)
(* slot; and in_flight counts the files whose result is awaited.           *)
THEOREM NothingIsLost == Spec => []NothingLostOrDoubled
<1>1. Inv => NothingLostOrDoubled
  BY DEF Inv, NothingLostOrDoubled
<1> QED BY <1>1, Invariance, PTL

(* At the end nothing is in flight, the persist thread has exited without  *)
(* an error over a closed, empty queue: what was submitted, all of it, is  *)
(* persisted.                                                              *)
LEMMA CompleteInInv ==
  ASSUME Inv
  PROVE  Complete
<1> SUFFICES ASSUME Orderly, main.at \in {"destroy", "returned"}, main.rc = 0, NEW f \in Files
             PROVE  Occurrences(persisted, f) = 1
  BY DEF Complete
<1>1. ~fatal /\ inFlight = 0 /\ next = Total /\ persist.at = "exited" /\ queue = <<>>
  BY DEF Inv, Progress, Ended
<1>2. f \in Nat /\ f # 0 /\ ~(f > next)
  BY <1>1, Lists DEF Files, Inv, Shape
<1>3. InFlight(f) \in Nat /\ Occurrences(persisted, f) \in Nat
  BY PlacesAreNatural DEF Inv, OrderlyInv
<1>4. InFlight(f) = 0
  <2> DEFINE Set == {g \in Files : InFlight(g) > 0}
  <2>1. IsFiniteSet(Set) /\ Cardinality(Set) = 0
    <3>1. IsFiniteSet(Files)
      BY Lists, FS_Interval DEF Files, Inv, Shape
    <3>2. IsFiniteSet(Set)
      BY <3>1, FS_Subset
    <3> QED BY <1>1, <3>2 DEF Inv, InFlightExact
  <2>2. Set = {}
    <3> HIDE DEF Set
    <3> QED BY <2>1, FS_EmptySet
  <2> QED BY <1>3, <2>2
<1>5. InFlight(f) + Passed(f) = 1
  BY <1>1, <1>2 DEF Inv, InOnePlace
<1>6. Passed(f) = Occurrences(persisted, f)
  <2>1. main.item = NoResult /\ persist.item = NoResult
    BY <1>1 DEF Inv, Shape, ItemsFit
  <2>2. Bit(NoResult.file = f) = 0
    BY <1>2 DEF NoResult, Bit
  <2>3. Occurrences(<<>>, f) = 0
    <3>1. {i \in DOMAIN <<>> : <<>>[i].file = f} = {}
      OBVIOUS
    <3> QED BY <3>1, FS_EmptySet DEF Occurrences
  <2> QED BY <1>1, <1>3, <2>1, <2>2, <2>3, PassedIs
<1> QED BY <1>3, <1>4, <1>5, <1>6

(* run_index() returns 0 only if the persist thread has written a result   *)
(* of every file, once: the queue is drained before the thread is joined   *)
(* and a database error always shows in the exit code.                     *)
THEOREM RunsAreComplete == Spec => []Complete
<1>1. Inv => Complete
  BY CompleteInInv
<1> QED BY <1>1, Invariance, PTL

(* A parse that ignores cancellation, and whose result the main thread     *)
(* still waits for, has a start time: the watchdog cannot overlook it.     *)
THEOREM StuckParsesAreSeen == Spec => []WatchdogSeesStuckParses
<1>1. Inv => WatchdogSeesStuckParses
  BY DEF Inv, OrderlyInv, Timed, WatchdogSeesStuckParses, Hanging, Parsing
<1> QED BY <1>1, Invariance, PTL
=============================================================================
