---------------------------- MODULE IndexPipeline ----------------------------
(***************************************************************************)
(* The parse-and-persist pipeline of one indexing run: run_index() in      *)
(* src/src/cli/cmd_index.cpp from the arena pool to the exit of the        *)
(* function, with its thread pool (core/thread_pool.h), arena pool         *)
(* (core/arena_pool.h) and persist queue (index/persist_queue.h).          *)
(*                                                                         *)
(* The main thread keeps at most Window files in flight.  Each file is     *)
(* given a slot and becomes a task of the thread pool; a worker parses it  *)
(* and pushes a result, if the slot still has the generation of the task.  *)
(* A watchdog looks at the start times of the slots: it asks a parse that  *)
(* exceeds its timeout to stop, and declares dead the slot of one that     *)
(* exceeds twice its timeout, reporting the file as failed itself.  The    *)
(* main thread revives the slot of every result it takes and passes the    *)
(* result through a bounded queue to the persist thread.                   *)
(*                                                                         *)
(* Time is abstract: the start time of a slot is 0 (idle) or the age of    *)
(* the parse, 1 within the timeout, 2 past it, 3 past twice the timeout.   *)
(***************************************************************************)
EXTENDS Naturals, Sequences, FiniteSets

CONSTANTS
  ThreadCount,   \* effective_thread_count()
  Capacity,      \* of the persist queue (512)
  WorkLists,     \* work lists: what may happen to the files of each
  PersistFails   \* may the persist thread fail?

Window  == ThreadCount + 2          \* window_size
Slots   == 0 .. Window - 1
Threads == 1 .. Window              \* of the pool
Arenas  == ThreadCount * 2

ASSUME SizeAssumption == {ThreadCount, Capacity} \subseteq Nat \ {0}
ASSUME FileAssumption ==
  /\ \A w \in WorkLists :
       /\ w.total \in Nat
       /\ UNION {w.rejected, w.throws, w.stuck, w.late} \subseteq 1 .. w.total
  /\ PersistFails \in BOOLEAN

VARIABLES
  work,       \* the work list
  main,       \* the main thread: its place, the result it holds, its exit code
  next,       \* next_submit: how many files have been submitted
  inFlight,   \* in_flight
  nextSlot,   \* next_slot, modulo the number of slots
  slots,      \* SlotState of every slot
  tasks,      \* the thread pool's task queue
  thread,     \* what each pool thread does
  arenas,     \* how many arenas the arena pool has available
  results,    \* result_queue
  watchdog,   \* what the watchdog has read and not yet acted upon
  queue,      \* the persist queue
  closed,     \* ... and whether it is closed
  persist,    \* the persist thread: its place and the item it holds
  persisted,  \* what it has written, in order
  fatal       \* PersistThreadState::fatal_error

mainVars    == <<main, next, inFlight, nextSlot>>
persistVars == <<queue, closed, persist, persisted, fatal>>
vars == <<mainVars, slots, tasks, thread, arenas, results, watchdog, persistVars>>

Total    == work.total      \* the number of files
Files    == 1 .. Total
Rejected == work.rejected   \* refused before their parse starts (size, unreadable)
Throws   == work.throws     \* their parse or extraction may throw
Stuck    == work.stuck      \* their parse ignores cancellation for ever
Late     == work.late       \* their parse ignores it but ends at last

NoSlot   == Window
NoResult == [file |-> 0, slot |-> NoSlot, status |-> "none"]
NoTask   == [file |-> 0, slot |-> NoSlot, gen |-> 0]
IdleThread   == [at |-> "idle", task |-> NoTask, status |-> "none"]
IdleWatchdog == [on |-> TRUE, slot |-> NoSlot, age |-> 0]

Statuses == {"ok", "failed", "cancelled", "killed", "noslot"}
Results  == [file : Files, slot : Slots \union {NoSlot}, status : Statuses]
Tasks    == [file : Files, slot : Slots, gen : Nat]

Init ==
  /\ work \in WorkLists
  /\ main = [at |-> "fill", item |-> NoResult, rc |-> 0]
  /\ next = 0
  /\ inFlight = 0
  /\ nextSlot = 0
  /\ slots = [s \in Slots |-> [start |-> 0, cancel |-> FALSE, dead |-> FALSE,
                               available |-> TRUE, gen |-> 0, file |-> 0]]
  /\ tasks = <<>>
  /\ thread = [t \in Threads |-> IdleThread]
  /\ arenas = Arenas
  /\ results = <<>>
  /\ watchdog = IdleWatchdog
  /\ queue = <<>>
  /\ closed = FALSE
  /\ persist = [at |-> "pop", item |-> NoResult]
  /\ persisted = <<>>
  /\ fatal = FALSE

MainGoto(from, to) == main.at \in from /\ main' = [main EXCEPT !.at = to]

-----------------------------------------------------------------------------
(* The main thread.                                                        *)

(* Variant: the search looks at dead only.                                 *)
UsableIfNotDead(s) == ~slots[s].dead

Usable(s) == ~slots[s].dead /\ slots[s].available

(* The slot found by the round-robin search, and where the search ends.    *)
Candidate(k)  == (nextSlot + k) % Window
UsableAhead   == {k \in Slots : Usable(Candidate(k))}
Nearest       == CHOOSE k \in UsableAhead : \A j \in UsableAhead : k <= j

(* Variant: one file too many.                                             *)
MaySubmitOneMore == next < Total /\ inFlight <= Window

MaySubmit == next < Total /\ inFlight < Window

(* try_submit_one(): without a usable slot the file fails at once.         *)
SubmitTo(s, f) ==
  /\ slots' = [slots EXCEPT ![s].gen = @ + 1, ![s].available = FALSE,
                            ![s].file = f, ![s].cancel = FALSE]
  /\ tasks' = Append(tasks, [file |-> f, slot |-> s, gen |-> slots[s].gen + 1])

Submit ==
  /\ main.at \in {"fill", "refill"}
  /\ MaySubmit
  /\ next' = next + 1
  /\ inFlight' = inFlight + 1
  /\ \/ /\ UsableAhead # {}
        /\ SubmitTo(Candidate(Nearest), next + 1)
        /\ nextSlot' = (nextSlot + Nearest + 1) % Window
        /\ UNCHANGED results
     \/ /\ UsableAhead = {}
        /\ results' = Append(results, [file |-> next + 1, slot |-> NoSlot,
                                       status |-> "noslot"])
        /\ UNCHANGED <<nextSlot, slots, tasks>>
  /\ UNCHANGED <<main, thread, arenas, watchdog, persistVars>>

FillDone ==
  /\ ~MaySubmit
  /\ MainGoto({"fill", "refill"}, IF main.at = "fill" THEN "wait" ELSE "push")
  /\ UNCHANGED <<next, inFlight, nextSlot, slots, tasks, thread, arenas,
                 results, watchdog, persistVars>>

(* Take a result, from a worker or the watchdog, and revive its slot.      *)
Collect ==
  /\ main.at = "wait" /\ inFlight > 0 /\ results # <<>>
  /\ main' = [main EXCEPT !.at = "refill", !.item = Head(results)]
  /\ inFlight' = inFlight - 1
  /\ slots' = LET s == Head(results).slot IN
              IF s = NoSlot THEN slots
              ELSE [slots EXCEPT ![s].dead = FALSE, ![s].available = TRUE]
  /\ results' = Tail(results)
  /\ UNCHANGED <<next, nextSlot, tasks, thread, arenas, watchdog, persistVars>>

(* PersistQueue::push(): wait while full; a closed queue drops the item.   *)
Push ==
  /\ main.at = "push"
  /\ closed \/ Len(queue) < Capacity
  /\ queue' = IF closed THEN queue ELSE Append(queue, main.item)
  /\ main' = [main EXCEPT !.at = "wait", !.item = NoResult]
  /\ UNCHANGED <<next, inFlight, nextSlot, slots, tasks, thread, arenas,
                 results, watchdog, closed, persist, persisted, fatal>>

CloseQueue ==
  /\ inFlight = 0
  /\ MainGoto({"wait"}, "join")
  /\ closed' = TRUE
  /\ UNCHANGED <<next, inFlight, nextSlot, slots, tasks, thread, arenas,
                 results, watchdog, queue, persist, persisted, fatal>>

JoinPersist ==
  /\ persist.at = "exited"
  /\ MainGoto({"join"}, "stop")
  /\ UNCHANGED <<next, inFlight, nextSlot, slots, tasks, thread, arenas,
                 results, watchdog, persistVars>>

(* watchdog_stop, and the join: the watchdog ends the scan it is in.       *)
StopWatchdog ==
  /\ watchdog.slot = NoSlot
  /\ MainGoto({"stop"}, "finish")
  /\ watchdog' = [watchdog EXCEPT !.on = FALSE]
  /\ UNCHANGED <<next, inFlight, nextSlot, slots, tasks, thread, arenas,
                 results, persistVars>>

(* The exit code is settled; had_stuck_threads() is still FALSE here, for  *)
(* only the pool's destructor sets it, so the function always returns.     *)
Finish ==
  /\ main.at = "finish"
  /\ main' = [main EXCEPT !.at = "destroy", !.rc = IF fatal THEN 1 ELSE 0]
  /\ UNCHANGED <<next, inFlight, nextSlot, slots, tasks, thread, arenas,
                 results, watchdog, persistVars>>

(* ~ThreadPool(): a timed join of each thread.  A thread that hangs in a   *)
(* parse is detached; then the locals it refers to are destroyed.          *)
Hanging(t) == thread[t].at = "parse" /\ thread[t].task.file \in Stuck \union Late

Destroy ==
  /\ \A t \in Threads : thread[t].at # "idle" => Hanging(t)
  /\ tasks # <<>> => \A t \in Threads : Hanging(t)
  /\ MainGoto({"destroy"}, "returned")
  /\ UNCHANGED <<next, inFlight, nextSlot, slots, tasks, thread, arenas,
                 results, watchdog, persistVars>>

Main == \/ Submit \/ FillDone \/ Collect \/ Push \/ CloseQueue
        \/ JoinPersist \/ StopWatchdog \/ Finish \/ Destroy

-----------------------------------------------------------------------------
(* The threads of the pool.                                                *)

ThreadGoto(t, from, to) ==
  /\ thread[t].at = from
  /\ thread' = [thread EXCEPT ![t].at = to]

Reports(t, status) ==
  thread' = [thread EXCEPT ![t].at = "report", ![t].status = status]

(* The threads are alike: it is left to the first of those that wait.      *)
Take(t) ==
  /\ thread[t].at = "idle" /\ tasks # <<>>
  /\ \A u \in Threads : u < t => thread[u].at # "idle"
  /\ thread' = [thread EXCEPT ![t].at = "lease", ![t].task = Head(tasks)]
  /\ tasks' = Tail(tasks)
  /\ UNCHANGED <<mainVars, slots, arenas, results, watchdog, persistVars>>

(* ArenaPool::lease() blocks while no arena is available.                  *)
Lease(t) ==
  /\ arenas > 0
  /\ ThreadGoto(t, "lease", "ready")
  /\ arenas' = arenas - 1
  /\ UNCHANGED <<mainVars, slots, tasks, results, watchdog, persistVars>>

(* Early returns, before the lease or after it: the start time stays 0.    *)
Reject(t) ==
  /\ thread[t].task.file \in Rejected
  /\ \/ thread[t].at = "lease" /\ UNCHANGED arenas
     \/ thread[t].at = "ready" /\ arenas' = arenas + 1
  /\ Reports(t, "failed")
  /\ UNCHANGED <<mainVars, slots, tasks, results, watchdog, persistVars>>

(* Variant: the start time is not set.                                     *)
UntimedStartParse(t) ==
  /\ thread[t].task.file \notin Rejected
  /\ ThreadGoto(t, "ready", "parse")
  /\ slots' = [slots EXCEPT ![thread[t].task.slot].cancel = FALSE]
  /\ UNCHANGED <<mainVars, tasks, arenas, results, watchdog, persistVars>>

StartParse(t) ==
  /\ thread[t].task.file \notin Rejected
  /\ ThreadGoto(t, "ready", "parse")
  /\ slots' = [slots EXCEPT ![thread[t].task.slot].cancel = FALSE,
                            ![thread[t].task.slot].start = 1]
  /\ UNCHANGED <<mainVars, tasks, arenas, results, watchdog, persistVars>>

Current(task) == slots[task.slot].gen = task.gen

(* A parse that ignores cancellation is past twice its timeout, or killed, *)
(* when it ends at last.                                                   *)
Overdue(t) ==
  LET task == thread[t].task IN ~Current(task) \/ slots[task.slot].start = 3

(* Parse and extraction end: the slot is idle, the arena goes back.        *)
EndParse(t) ==
  LET task == thread[t].task IN
  /\ thread[t].at = "parse"
  /\ task.file \notin Stuck
  /\ task.file \in Late => Overdue(t)
  /\ Reports(t, IF slots[task.slot].cancel THEN "cancelled" ELSE "ok")
  /\ slots' = [slots EXCEPT ![task.slot].start = 0]
  /\ arenas' = arenas + 1
  /\ UNCHANGED <<mainVars, tasks, results, watchdog, persistVars>>

(* Variant: the catch block does not return the arena.                     *)
LeakingThrowParse(t) ==
  /\ thread[t].at = "parse" /\ thread[t].task.file \in Throws
  /\ Reports(t, "failed")
  /\ UNCHANGED <<mainVars, slots, tasks, arenas, results, watchdog, persistVars>>

(* The catch block: the start time of the slot stays as it is.             *)
ThrowParse(t) ==
  /\ thread[t].at = "parse" /\ thread[t].task.file \in Throws
  /\ Reports(t, "failed")
  /\ arenas' = arenas + 1
  /\ UNCHANGED <<mainVars, slots, tasks, results, watchdog, persistVars>>

(* Push the result unless the watchdog killed the slot meanwhile.          *)
Report(t) ==
  LET task == thread[t].task IN
  /\ thread[t].at = "report"
  /\ results' = IF Current(task)
                THEN Append(results, [file |-> task.file, slot |-> task.slot,
                                      status |-> thread[t].status])
                ELSE results
  /\ thread' = [thread EXCEPT ![t] = IdleThread]
  /\ UNCHANGED <<mainVars, slots, tasks, arenas, watchdog, persistVars>>

Worker(t) == \/ Take(t) \/ Lease(t) \/ Reject(t) \/ StartParse(t)
             \/ EndParse(t) \/ ThrowParse(t) \/ Report(t)

-----------------------------------------------------------------------------
(* Time and the watchdog.                                                  *)

(* A parse that honours cancellation ends before twice its timeout.        *)
Cooperative(s) ==
  \E t \in Threads : /\ thread[t].at = "parse"
                     /\ thread[t].task.slot = s
                     /\ thread[t].task.file \notin Stuck \union Late

Age(s) ==
  /\ \/ slots[s].start = 1
     \/ slots[s].start = 2 /\ ~Cooperative(s)
  /\ slots' = [slots EXCEPT ![s].start = @ + 1]
  /\ UNCHANGED <<mainVars, tasks, thread, arenas, results, watchdog, persistVars>>

(* One slot of a scan: dead, free and idle slots are passed over.          *)
Inspect(s) ==
  /\ watchdog.on /\ watchdog.slot = NoSlot
  /\ ~slots[s].dead /\ ~slots[s].available /\ slots[s].start >= 2
  /\ watchdog' = [watchdog EXCEPT !.slot = s, !.age = slots[s].start]
  /\ UNCHANGED <<mainVars, slots, tasks, thread, arenas, results, persistVars>>

AskToStop ==
  /\ watchdog.slot # NoSlot /\ watchdog.age = 2
  /\ slots' = [slots EXCEPT ![watchdog.slot].cancel = TRUE]
  /\ watchdog' = IdleWatchdog
  /\ UNCHANGED <<mainVars, tasks, thread, arenas, results, persistVars>>

(* Declare the slot dead and report the file it has now as failed.         *)
Kill ==
  LET s == watchdog.slot IN
  /\ s # NoSlot /\ watchdog.age = 3
  /\ slots' = [slots EXCEPT ![s].dead = TRUE, ![s].gen = @ + 1, ![s].start = 0]
  /\ results' = Append(results, [file |-> slots[s].file, slot |-> s,
                                 status |-> "killed"])
  /\ watchdog' = IdleWatchdog
  /\ UNCHANGED <<mainVars, tasks, thread, arenas, persistVars>>

-----------------------------------------------------------------------------
(* The persist thread.                                                     *)

PersistPop ==
  /\ persist.at = "pop" /\ queue # <<>>
  /\ persist' = [at |-> "write", item |-> Head(queue)]
  /\ queue' = Tail(queue)
  /\ UNCHANGED <<mainVars, slots, tasks, thread, arenas, results, watchdog,
                 closed, persisted, fatal>>

PersistWrite ==
  /\ persist.at = "write"
  /\ persisted' = Append(persisted, persist.item)
  /\ persist' = [at |-> "pop", item |-> NoResult]
  /\ UNCHANGED <<mainVars, slots, tasks, thread, arenas, results, watchdog,
                 queue, closed, fatal>>

(* Variant: a closed queue is not drained.                                 *)
UndrainedPersistEnd ==
  /\ persist.at = "pop" /\ closed
  /\ persist' = [persist EXCEPT !.at = "exited"]
  /\ UNCHANGED <<mainVars, slots, tasks, thread, arenas, results, watchdog,
                 queue, closed, persisted, fatal>>

(* Closed and empty: the last commit and the content index.                *)
PersistEnd ==
  /\ persist.at = "pop" /\ queue = <<>> /\ closed
  /\ persist' = [persist EXCEPT !.at = "exited"]
  /\ UNCHANGED <<mainVars, slots, tasks, thread, arenas, results, watchdog,
                 queue, closed, persisted, fatal>>

(* Variant: the queue is not closed on failure.                            *)
OpenPersistFail ==
  /\ PersistFails
  /\ \/ persist.at = "write"
     \/ persist.at = "pop" /\ queue = <<>> /\ closed
  /\ persist' = [at |-> "exited", item |-> NoResult]
  /\ fatal' = TRUE
  /\ UNCHANGED <<mainVars, slots, tasks, thread, arenas, results, watchdog,
                 queue, closed, persisted>>

(* Any database error: roll back, flag it, and let the main thread go on.  *)
PersistFail ==
  /\ PersistFails
  /\ \/ persist.at = "write"
     \/ persist.at = "pop" /\ queue = <<>> /\ closed
  /\ persist' = [at |-> "exited", item |-> NoResult]
  /\ fatal' = TRUE
  /\ closed' = TRUE
  /\ UNCHANGED <<mainVars, slots, tasks, thread, arenas, results, watchdog,
                 queue, persisted>>

Persist == PersistPop \/ PersistWrite \/ PersistEnd \/ PersistFail

-----------------------------------------------------------------------------
Terminated == main.at = "returned" /\ UNCHANGED vars

Next ==
  \/ Main
  \/ \E t \in Threads : Worker(t)
  \/ \E s \in Slots : Age(s) \/ Inspect(s)
  \/ AskToStop
  \/ Kill
  \/ Persist
  \/ Terminated

Spec == Init /\ [][Next /\ UNCHANGED work]_<<vars, work>>

(* Every thread is scheduled, time passes, and the watchdog's scan visits  *)
(* each slot every second.                                                 *)
FairSpec ==
  /\ Spec
  /\ WF_vars(Main) /\ WF_vars(Persist) /\ WF_vars(AskToStop) /\ WF_vars(Kill)
  /\ \A t \in Threads : WF_vars(Worker(t))
  /\ \A s \in Slots : WF_vars(Age(s)) /\ SF_vars(Inspect(s))
-----------------------------------------------------------------------------
(* Properties.                                                             *)

(* Every variable has its type, within the window and the queue's capacity. *)
TypeOK ==
  /\ main \in [at : {"fill", "refill", "wait", "push", "join", "stop",
                     "finish", "destroy", "returned"},
               item : Results \union {NoResult}, rc : {0, 1}]
  /\ next \in 0 .. Total
  /\ inFlight \in 0 .. Window
  /\ nextSlot \in Slots
  /\ slots \in [Slots -> [start : 0 .. 3, cancel : BOOLEAN, dead : BOOLEAN,
                         available : BOOLEAN, gen : Nat, file : 0 .. Total]]
  /\ tasks \in Seq(Tasks)
  /\ thread \in [Threads -> [at : {"idle", "lease", "ready", "parse", "report"},
                             task : Tasks \union {NoTask},
                             status : Statuses \union {"none"}]]
  /\ arenas \in 0 .. Arenas
  /\ results \in Seq(Results)
  /\ watchdog \in [on : BOOLEAN, slot : Slots \union {NoSlot}, age : 0 .. 3]
  /\ queue \in Seq(Results) /\ Len(queue) <= Capacity
  /\ closed \in BOOLEAN
  /\ persist \in [at : {"pop", "write", "exited"},
                  item : Results \union {NoResult}]
  /\ persisted \in Seq(Results)
  /\ fatal \in BOOLEAN

(* Where file f is, on its way through the pipeline.  A task whose slot    *)
(* has moved on to another generation no longer counts: its result will    *)
(* be dropped.                                                             *)
Occurrences(seq, f) == Cardinality({i \in DOMAIN seq : seq[i].file = f})

Queued(f)  == Cardinality({i \in DOMAIN tasks : tasks[i].file = f /\ Current(tasks[i])})
Running(f) == Cardinality({t \in Threads : /\ thread[t].at # "idle"
                                           /\ thread[t].task.file = f
                                           /\ Current(thread[t].task)})
InFlight(f) == Queued(f) + Running(f) + Occurrences(results, f)

Passed(f) ==
  Occurrences(<<main.item, persist.item>>, f)
    + Occurrences(queue, f) + Occurrences(persisted, f)

(* Each submitted file is in one place of the pipeline, or has been handed  *)
(* to a persist thread that failed.                                        *)
InOnePlace ==
  \A f \in Files :
    IF f > next THEN InFlight(f) + Passed(f) = 0
    ELSE \/ InFlight(f) + Passed(f) = 1
         \/ fatal /\ InFlight(f) + Passed(f) = 0

(* in_flight, on which the main loop's termination rests, is the number of *)
(* files whose result it has yet to take.                                  *)
InFlightExact ==
  inFlight = Cardinality({f \in Files : InFlight(f) > 0})

(* The watchdog's view of a slot is out of date after a parse that threw,  *)
(* and while a killed parse comes back; what it then does is not excluded. *)
Orderly == Throws \union Late = {}

(* No file is lost, and none is reported twice, whoever reports it         *)
(* (worker, watchdog or main), and in_flight counts them.                  *)
NothingLostOrDoubled == Orderly => InOnePlace /\ InFlightExact

(* A run that returns 0 has persisted a result for every file of the work  *)
(* list, once.                                                             *)
Complete ==
  Orderly /\ main.at \in {"destroy", "returned"} /\ main.rc = 0 =>
    \A f \in Files : Occurrences(persisted, f) = 1

(* Leased arenas are the ones that parses hold: none leaks, whichever way  *)
(* a parse ends.                                                           *)
ArenasBalanced ==
  arenas + Cardinality({t \in Threads : thread[t].at \in {"ready", "parse"}})
    = Arenas

(* A parse that ignores cancellation is seen by the watchdog as long as    *)
(* its result is awaited.                                                  *)
WatchdogSeesStuckParses ==
  Orderly =>
  \A t \in Threads :
    Hanging(t) /\ Current(thread[t].task) => slots[thread[t].task.slot].start > 0

(* run_index() comes to an end, stuck parses and database errors included. *)
RunEnds == <>(main.at = "returned")
=============================================================================
