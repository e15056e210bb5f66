--------------------------- MODULE ReindexProofs ----------------------------
(***************************************************************************)
(* Theorems about Reindex, for any clients, files and scenarios: types, no *)
(* stranded trigger, no automatic run repeated and, where every client     *)
(* watches, no change forgotten.                                           *)
(***************************************************************************)
EXTENDS Reindex, TLAPS

(* What happens is paid for out of the scenario.                           *)
LEMMA SpendType ==
  ASSUME left \in Budget,
         \/ May("edits") /\ Spend("edits")
         \/ May("manual") /\ Spend("manual")
         \/ May("jobs") /\ Spend("jobs")
         \/ May("cli") /\ Spend("cli")
         \/ May("stops") /\ Spend("stops")
         \/ May("faults") /\ Spend("faults")
  PROVE  left' \in Budget
  BY DEF Budget, May, Spend

LEMMA TriggerType ==
  ASSUME client \in [Clients -> ClientFields], request \in [Clients -> Requests],
         NEW c \in Clients, NEW by \in {"main", "watcher"}, NEW paths \in SUBSET Files,
         NEW full \in BOOLEAN, NEW manual \in BOOLEAN, NEW since \in Nat,
         Trigger(c, by, paths, full, manual, since)
  PROVE  client' \in [Clients -> ClientFields] /\ request' \in [Clients -> Requests]
  BY DEF Trigger, ClientFields, Requests

(* What the steps of the monitor do to its record and to the queue.        *)
LEMMA SeenType ==
  ASSUME monitor \in [Clients -> Monitors], NEW f
  PROVE  [c \in Clients |-> [monitor[c] EXCEPT !.seen = @ \ {f}]] \in [Clients -> Monitors]
<1>1. \A c \in Clients : [monitor[c] EXCEPT !.seen = @ \ {f}] \in Monitors
  BY DEF Monitors
<1>2. QED
  BY <1>1

LEMMA MonitorAtType ==
  ASSUME monitor \in [Clients -> Monitors], NEW c \in Clients, NEW from,
         NEW to \in Steps, MonitorAt(c, from, to)
  PROVE  monitor' \in [Clients -> Monitors]
<1>1. [monitor[c] EXCEPT !.at = to] \in Monitors
  BY DEF Monitors
<1>2. QED
  BY <1>1 DEF MonitorAt

LEMMA ForgetType ==
  ASSUME client \in [Clients -> ClientFields], NEW c \in Clients
  PROVE  /\ Forget(c) => client' \in [Clients -> ClientFields]
         /\ [client EXCEPT ![c].running = FALSE] \in [Clients -> ClientFields]
         /\ [client EXCEPT ![c].running = FALSE, ![c].queued = FALSE]
              \in [Clients -> ClientFields]
         /\ [client EXCEPT ![c] = [@ EXCEPT !.queued = FALSE, !.full = FALSE,
                                             !.paths = {}]]
              \in [Clients -> ClientFields]
  BY DEF Forget, ClientFields

LEMMA FailType ==
  ASSUME monitor \in [Clients -> Monitors], NEW c \in Clients
  PROVE  [monitor EXCEPT ![c].at = "loop", ![c].first = FALSE, ![c].seen = {}]
         \in [Clients -> Monitors]
<1>1. [monitor[c] EXCEPT !.at = "loop", !.first = FALSE, !.seen = {}] \in Monitors
  BY DEF Monitors, Steps
<1>2. QED
  BY <1>1

LEMMA TakeType ==
  ASSUME NEW m \in Monitors, NEW full \in BOOLEAN, NEW paths \in SUBSET Files
  PROVE  [m EXCEPT !.at = "spawn", !.full = full, !.paths = paths] \in Monitors
  BY DEF Monitors, Steps

LEMMA RunType == ASSUME NEW s \in Scenarios
                 PROVE  /\ s.clients \subseteq Clients /\ s.stale \subseteq Files
                        /\ s.indexed \in BOOLEAN
                        /\ [edits |-> s.edits, manual |-> s.manual, jobs |-> s.jobs,
                            cli |-> s.cli, stops |-> s.stops,
                            faults |-> s.faults] \in Budget
  BY ScenarioAssumption DEF Budget

-----------------------------------------------------------------------------
(* TypeOK is an invariant.                                                 *)
LEMMA TypeStep == ASSUME TypeOK, [Next]_vars PROVE TypeOK'
<1> USE DEF TypeOK, repository, locks
<1>1. ASSUME NEW f \in Files, Edit(f) PROVE TypeOK'
  BY <1>1, SpendType, SeenType DEF Edit, Watching
<1>2. ASSUME NEW c \in Clients, StartUp(c) PROVE TypeOK'
  BY <1>2, TriggerType, RunType DEF StartUp, Phases
<1>3. ASSUME NEW c \in Clients, StartWatching(c) PROVE TypeOK'
  BY <1>3 DEF StartWatching, Phases
<1>4. ASSUME NEW c \in Clients, Deliver(c) PROVE TypeOK'
  BY <1>4, TriggerType DEF Deliver, Watching
<1>5. ASSUME NEW c \in Clients, JobEnds(c) PROVE TypeOK'
  BY <1>5 DEF JobEnds
<1>6. ASSUME NEW c \in Clients, Manual(c) PROVE TypeOK'
  BY <1>6, SpendType, TriggerType DEF Manual
<1>7. ASSUME NEW c \in Clients, Stop(c) PROVE TypeOK'
  BY <1>7, SpendType DEF Stop, Phases
<1>8. ASSUME NEW c \in Clients, JobStarts(c) PROVE TypeOK'
  BY <1>8, SpendType DEF JobStarts
<1>9. ASSUME NEW c \in Clients, ChildFails(c) PROVE TypeOK'
  BY <1>9, SpendType, FailType DEF ChildFails, Fail
<1>10. ASSUME NEW c \in Clients, Throw(c) PROVE TypeOK'
  BY <1>10, SpendType, MonitorAtType, ForgetType DEF Throw, Steps
<1>11. ASSUME NEW c \in Clients, StartMonitor(c) PROVE TypeOK'
  BY <1>11 DEF StartMonitor, Ended, NoRequest, Requests, Monitors, Steps
<1>12. ASSUME NEW c \in Clients, PassGate(c) PROVE TypeOK'
  <2>1. [monitor[c] EXCEPT !.at = "coordinate", !.before = generation] \in Monitors
    BY DEF Monitors, Steps
  <2>2. monitor' \in [Clients -> Monitors]
    BY <1>12, <2>1 DEF PassGate
  <2>3. QED
    BY <1>12, <2>2 DEF PassGate
<1>13. ASSUME NEW c \in Clients, LeaveGate(c) PROVE TypeOK'
  BY <1>13, MonitorAtType, ForgetType DEF LeaveGate, Steps
<1>14. ASSUME NEW c \in Clients, Coordinate(c) PROVE TypeOK'
  BY <1>14, MonitorAtType DEF Coordinate, Steps
<1>15. ASSUME NEW c \in Clients, Coalesce(c) PROVE TypeOK'
  BY <1>15, MonitorAtType, ForgetType DEF Coalesce, Steps
<1>16. ASSUME NEW c \in Clients, SkipDuplicate(c) PROVE TypeOK'
  BY <1>16, MonitorAtType, ForgetType DEF SkipDuplicate, Steps
<1>17. ASSUME NEW c \in Clients, Proceed(c) PROVE TypeOK'
  BY <1>17, MonitorAtType DEF Proceed, Steps
<1>18. ASSUME NEW c \in Clients, Take(c) PROVE TypeOK'
  <2>1. PICK full \in {client[c].full, TRUE} :
          monitor' = [monitor EXCEPT ![c].at = "spawn", ![c].full = full,
                                     ![c].paths = client[c].paths]
    BY <1>18 DEF Take
  <2>2. full \in BOOLEAN /\ client[c].paths \subseteq Files
    BY DEF ClientFields
  <2>3. [monitor[c] EXCEPT !.at = "spawn", !.full = full, !.paths = client[c].paths]
          \in Monitors
    BY <2>2, TakeType
  <2>4. monitor' \in [Clients -> Monitors]
    BY <2>1, <2>3
  <2>5. QED
    BY <1>18, <2>4, ForgetType DEF Take
<1>19. ASSUME NEW c \in Clients, Finish(c) PROVE TypeOK'
  BY <1>19, MonitorAtType, ForgetType DEF Finish, Steps
<1>20. ASSUME NEW c \in Clients, Leave(c) PROVE TypeOK'
  BY <1>20 DEF Leave, Ended, Monitors, Steps
<1>21. ASSUME NEW c \in Clients, SpawnChild(c) PROVE TypeOK'
  BY <1>21, MonitorAtType DEF SpawnChild, Steps
<1>22. ASSUME NEW c \in Clients, ChildBusy(c) PROVE TypeOK'
  BY <1>22, FailType DEF ChildBusy, Fail
<1>23. ASSUME NEW c \in Clients, ChildScan(c) PROVE TypeOK'
  <2> DEFINE S == {f \in Files : Covers(c, f)}
  <2>1. [monitor[c] EXCEPT !.at = "index", !.seen = S] \in Monitors
    BY DEF Monitors, Steps
  <2>2. monitor' = [monitor EXCEPT ![c].at = "index", ![c].seen = S]
    BY <1>23 DEF ChildScan
  <2> HIDE DEF S
  <2>3. monitor' \in [Clients -> Monitors]
    BY <2>1, <2>2
  <2>4. QED
    BY <1>23, <2>3 DEF ChildScan
<1>24. ASSUME NEW c \in Clients, ChildDone(c) PROVE TypeOK'
  <2>1. monitor' \in [Clients -> Monitors]
    BY <1>24, FailType DEF ChildDone
  <2>2. stale' \subseteq Files /\ generation' \in Nat
    BY <1>24 DEF ChildDone
  <2>3. QED
    BY <1>24, <2>1, <2>2 DEF ChildDone
<1>25. ASSUME CliStarts PROVE TypeOK'
  BY <1>25, SpendType DEF CliStarts
<1>26. ASSUME CliEnds PROVE TypeOK'
  BY <1>26 DEF CliEnds, NoRun
<1>27. CASE UNCHANGED vars
  BY <1>27 DEF vars
<1>28. QED
  BY <1>1, <1>2, <1>3, <1>4, <1>5, <1>6, <1>7, <1>8, <1>9, <1>10, <1>11,
     <1>12, <1>13, <1>14, <1>15, <1>16, <1>17, <1>18, <1>19, <1>20,
     <1>21, <1>22, <1>23, <1>24, <1>25, <1>26, <1>27
     DEF Next, Progress, Monitor

LEMMA InitType == Init => TypeOK
<1> SUFFICES ASSUME Init PROVE TypeOK
  OBVIOUS
<1> PICK s \in Scenarios : Init!(s)
  BY DEF Init
<1>1. run \in Scenarios /\ left \in Budget /\ stale \subseteq Files
  BY RunType
<1>2. phase \in [Clients -> Phases] /\ events \in [Clients -> SUBSET Files]
  BY DEF Phases
<1>3. client \in [Clients -> ClientFields] /\ request \in [Clients -> Requests]
  BY DEF ClientFields, Requests, NoRequest
<1>4. monitor \in [Clients -> Monitors]
  BY DEF Ended, Monitors, Steps
<1>5. QED
  BY <1>1, <1>2, <1>3, <1>4 DEF TypeOK, NoRun

(* Every variable has its type in every run.                               *)
THEOREM TypeCorrect == Spec => []TypeOK
<1>1. Init => TypeOK
  BY InitType
<1>2. TypeOK /\ [Next]_vars => TypeOK'
  BY TypeStep
<1>3. QED
  BY <1>1, <1>2, PTL DEF Spec

-----------------------------------------------------------------------------
(* A queued trigger has a monitor, for any number of clients.              *)
LEMMA QuietStep ==
  ASSUME TypeOK, NoStrandedTrigger, UNCHANGED client,
         \A c \in Clients : phase[c] = "stopping" => phase'[c] = "stopping"
  PROVE  NoStrandedTrigger'
  BY DEF NoStrandedTrigger, TypeOK

LEMMA TriggerServes ==
  ASSUME TypeOK, NoStrandedTrigger, NEW k \in Clients,
         NEW by, NEW paths, NEW full, NEW manual, NEW since,
         Trigger(k, by, paths, full, manual, since),
         \A c \in Clients : phase[c] = "stopping" => phase'[c] = "stopping"
  PROVE  NoStrandedTrigger'
  BY DEF NoStrandedTrigger, TypeOK, Trigger, ClientFields

LEMMA EndServes ==
  ASSUME TypeOK, NoStrandedTrigger, NEW k \in Clients, phase' = phase,
         \/ Forget(k)
         \/ /\ client' = [client EXCEPT ![k].running = FALSE]
            /\ ~client[k].queued \/ phase[k] = "stopping"
         \/ client' = [client EXCEPT ![k].running = FALSE, ![k].queued = FALSE]
         \/ client' = [client EXCEPT ![k] = [@ EXCEPT !.queued = FALSE,
                                               !.full = FALSE, !.paths = {}]]
  PROVE  NoStrandedTrigger'
<1> SUFFICES ASSUME NEW c \in Clients, client'[c].queued, ~client'[c].running
             PROVE  phase[c] = "stopping"
  BY DEF NoStrandedTrigger
<1>1. client \in [Clients -> ClientFields]
  BY DEF TypeOK
<1>2. CASE c = k
  <2>1. \/ client'[k] = [client[k] EXCEPT !.running = FALSE, !.queued = FALSE,
                                          !.full = FALSE, !.paths = {}]
        \/ client'[k] = [client[k] EXCEPT !.running = FALSE]
           /\ (~client[k].queued \/ phase[k] = "stopping")
        \/ client'[k] = [client[k] EXCEPT !.running = FALSE, !.queued = FALSE]
        \/ client'[k] = [client[k] EXCEPT !.queued = FALSE, !.full = FALSE,
                                          !.paths = {}]
    BY <1>1 DEF Forget
  <2>2. client[k] \in ClientFields /\ client'[k].queued
    BY <1>1, <1>2
  <2>3. QED
    BY <1>2, <2>1, <2>2 DEF ClientFields
<1>3. CASE c # k
  <2>1. client'[c] = client[c]
    BY <1>3 DEF Forget, TypeOK
  <2>2. QED
    BY <2>1 DEF NoStrandedTrigger
<1>4. QED
  BY <1>2, <1>3

LEMMA StrandedStep ==
  ASSUME TypeOK, NoStrandedTrigger, [Next]_vars PROVE NoStrandedTrigger'
<1>1. ASSUME NEW c \in Clients, StartUp(c) PROVE NoStrandedTrigger'
  <2>1. \A k \in Clients : phase[k] = "stopping" => phase'[k] = "stopping"
    BY <1>1 DEF StartUp, TypeOK
  <2>2. QED
    BY <1>1, <2>1, TriggerServes, QuietStep DEF StartUp
<1>2. ASSUME NEW c \in Clients, Deliver(c) \/ Manual(c) PROVE NoStrandedTrigger'
  <2>1. phase' = phase
    BY <1>2 DEF Deliver, Manual
  <2>2. QED
    BY <1>2, <2>1, TriggerServes DEF Deliver, Manual
<1>3. ASSUME NEW c \in Clients,
             \/ LeaveGate(c) \/ Coalesce(c) \/ SkipDuplicate(c) \/ Take(c)
             \/ Finish(c) \/ Throw(c)
      PROVE  NoStrandedTrigger'
  BY <1>3, EndServes DEF LeaveGate, Coalesce, SkipDuplicate, Take, Finish, Throw
<1>4. ASSUME NEW c \in Clients, StartWatching(c) \/ Stop(c) PROVE NoStrandedTrigger'
  <2>1. \A k \in Clients : phase[k] = "stopping" => phase'[k] = "stopping"
    BY <1>4 DEF StartWatching, Stop, TypeOK
  <2>2. QED
    BY <1>4, <2>1, QuietStep DEF StartWatching, Stop
<1>5. ASSUME UNCHANGED <<client, phase>> PROVE NoStrandedTrigger'
  BY <1>5, QuietStep
<1>6. QED
  BY <1>1, <1>2, <1>3, <1>4, <1>5
     DEF Next, Progress, Monitor, Edit, StartMonitor, PassGate, Coordinate, Proceed,
         Leave, SpawnChild, ChildBusy, ChildScan, ChildDone, ChildFails, JobStarts,
         JobEnds, CliStarts, CliEnds, vars

(* A trigger that is queued is seen by a monitor, however many clients     *)
(* share the database and whatever becomes of their runs: reindex.h:75-104 *)
(* and the paths by which the monitor thread ends.                         *)
THEOREM TriggersAreServed == Spec => []NoStrandedTrigger
<1>1. Init => NoStrandedTrigger
  BY DEF Init, NoStrandedTrigger
<1>2. TypeOK /\ NoStrandedTrigger /\ [Next]_vars => NoStrandedTrigger'
  BY StrandedStep
<1>3. QED
  BY <1>1, <1>2, TypeCorrect, PTL DEF Spec

-----------------------------------------------------------------------------
(* No automatic run is repeated.  What makes it so: only the holder of the *)
(* coordination lock is past the comparison of generations, so nobody else *)
(* completes a run until it has; and a monitor at work keeps running set,  *)
(* so that a further trigger is recorded as a later one.                   *)
Holding == {"compare", "loop", "spawn", "scan", "index"}
Working == Holding \union {"gate", "coordinate"}

Coordinated == \A c \in Clients : monitor[c].at \in Holding => coordination = c

Attended == \A c \in Clients :
  /\ monitor[c].at \in Working => client[c].running /\ request[c] = NoRequest
  /\ request[c] # NoRequest => client[c].running

ByItself == run.cli = 0 => left.cli = 0 /\ cli.at = "idle"

FreshOf(c) ==
  monitor[c].at \in Holding \ {"compare"} /\ monitor[c].first /\ ~monitor[c].manual
    => client[c].later \/ generation <= monitor[c].since

Fresh == run.cli = 0 => \A c \in Clients : FreshOf(c)

IInv == TypeOK /\ Coordinated /\ Attended /\ ByItself /\ Fresh

LEMMA CoordinatedStep ==
  ASSUME TypeOK, Coordinated, [Next]_vars PROVE Coordinated'
<1>1. ASSUME NEW f \in Files, Edit(f) PROVE Coordinated'
  <2>1. \A c \in Clients : monitor'[c].at = monitor[c].at
    BY <1>1 DEF Edit, TypeOK, Monitors
  <2>2. QED
    BY <1>1, <2>1 DEF Edit, locks, Coordinated
<1>2. ASSUME NEW k \in Clients, Coordinate(k) PROVE Coordinated'
  BY <1>2, ClientAssumption
     DEF Coordinate, MonitorAt, Coordinated, TypeOK, Monitors, Holding
<1>3. ASSUME NEW k \in Clients, Leave(k) PROVE Coordinated'
  BY <1>3 DEF Leave, Coordinated, TypeOK, Monitors, Holding, Ended
<1>4. ASSUME NEW k \in Clients, coordination' = coordination,
             \/ monitor[k].at \in Holding \/ monitor'[k].at \notin Holding,
             \A c \in Clients \ {k} : monitor'[c] = monitor[c]
      PROVE  Coordinated'
  BY <1>4 DEF Coordinated
<1>5. ASSUME UNCHANGED <<monitor, coordination>> PROVE Coordinated'
  BY <1>5 DEF Coordinated
<1>6. ASSUME NEW k \in Clients,
             \/ LeaveGate(k) \/ Coalesce(k) \/ SkipDuplicate(k) \/ Proceed(k)
             \/ Finish(k) \/ SpawnChild(k) \/ Throw(k)
      PROVE  Coordinated'
  <2>1. /\ \/ monitor[k].at \in Holding \/ monitor'[k].at \notin Holding
        /\ \A c \in Clients \ {k} : monitor'[c] = monitor[c]
    BY <1>6 DEF LeaveGate, Coalesce, SkipDuplicate, Proceed, Finish, SpawnChild,
                Throw, MonitorAt, TypeOK, Monitors, Holding
  <2>2. coordination' = coordination
    BY <1>6 DEF LeaveGate, Coalesce, SkipDuplicate, Proceed, Finish, SpawnChild,
                Throw, locks
  <2>3. QED
    BY <2>1, <2>2, <1>4
<1>7. ASSUME NEW k \in Clients,
             \/ StartMonitor(k) \/ PassGate(k) \/ Take(k) \/ ChildBusy(k)
             \/ ChildScan(k) \/ ChildDone(k) \/ ChildFails(k)
      PROVE  Coordinated'
  <2>1. \A c \in Clients \ {k} : monitor'[c] = monitor[c]
    BY <1>7 DEF StartMonitor, PassGate, Take, ChildBusy, ChildScan, ChildDone,
                ChildFails, Fail, TypeOK
  <2>2. CASE StartMonitor(k)
    <3>1. monitor'[k].at = "gate" /\ coordination' = coordination
      BY <2>2 DEF StartMonitor, TypeOK, Ended, locks
    <3>2. QED
      BY <2>1, <3>1, <1>4 DEF Holding
  <2>3. CASE PassGate(k)
    <3>1. monitor'[k] = [monitor[k] EXCEPT !.at = "coordinate", !.before = generation]
      BY <2>3 DEF PassGate, TypeOK
    <3>2. monitor'[k].at = "coordinate"
      BY <3>1 DEF TypeOK, Monitors
    <3>3. QED
      BY <2>1, <2>3, <3>2, <1>4 DEF PassGate, Holding
  <2>4. monitor[k].at \in Holding \/ StartMonitor(k) \/ PassGate(k)
    BY <1>7 DEF Take, ChildBusy, ChildScan, ChildDone, ChildFails, Holding
  <2>5. coordination' = coordination
    BY <1>7 DEF StartMonitor, PassGate, Take, ChildBusy, ChildScan, ChildDone,
                ChildFails, locks
  <2>6. QED
    BY <2>1, <2>2, <2>3, <2>4, <2>5, <1>4
<1>8. QED
  BY <1>1, <1>2, <1>3, <1>5, <1>6, <1>7
     DEF Next, Progress, Monitor, StartUp, StartWatching, Deliver, JobEnds, Manual,
         Stop, JobStarts, CliStarts, CliEnds, locks, vars

LEMMA TriggerAttended ==
  ASSUME TypeOK, Attended, NEW k \in Clients, monitor' = monitor,
         NEW by \in {"main", "watcher"}, NEW paths, NEW full, NEW manual, NEW since,
         Trigger(k, by, paths, full, manual, since)
  PROVE  Attended'
<1>1. client'[k].running /\ (client[k].running => request'[k] = request[k])
  BY DEF Trigger, TypeOK
<1>2. \A c \in Clients \ {k} : client'[c] = client[c] /\ request'[c] = request[c]
  BY DEF Trigger, TypeOK
<1>3. QED
  BY <1>1, <1>2 DEF Attended

LEMMA AttendedStep ==
  ASSUME TypeOK, Attended, [Next]_vars PROVE Attended'
<1>1. ASSUME NEW f \in Files, Edit(f) PROVE Attended'
  <2>1. \A c \in Clients : monitor'[c].at = monitor[c].at
    BY <1>1 DEF Edit, TypeOK, Monitors
  <2>2. QED
    BY <1>1, <2>1 DEF Edit, Attended
<1>2. ASSUME NEW k \in Clients, StartUp(k) \/ Deliver(k) \/ Manual(k) PROVE Attended'
  <2>1. CASE UNCHANGED <<client, request>>
    BY <1>2, <2>1 DEF StartUp, Deliver, Manual, Attended
  <2>2. QED
    BY <1>2, <2>1, TriggerAttended DEF StartUp, Deliver, Manual, Attended
<1>3. ASSUME NEW k \in Clients, UNCHANGED request,
             monitor[k].at \in Working, client'[k].running = client[k].running,
             \A c \in Clients \ {k} : monitor'[c] = monitor[c] /\ client'[c] = client[c]
      PROVE  Attended'
  BY <1>3 DEF Attended
<1>4. ASSUME NEW k \in Clients, UNCHANGED request,
             monitor[k].at \in Working, monitor'[k].at \notin Working,
             \A c \in Clients \ {k} : monitor'[c] = monitor[c] /\ client'[c] = client[c]
      PROVE  Attended'
  BY <1>4 DEF Attended
<1>5. ASSUME NEW k \in Clients, StartMonitor(k) PROVE Attended'
  <2>1. /\ request[k] # NoRequest /\ request'[k] = NoRequest
        /\ \A c \in Clients \ {k} : monitor'[c] = monitor[c] /\ request'[c] = request[c]
        /\ client' = client
    BY <1>5 DEF StartMonitor, TypeOK
  <2>2. QED
    BY <2>1 DEF Attended
<1>6. ASSUME NEW k \in Clients,
             \/ PassGate(k) \/ Coordinate(k) \/ Proceed(k) \/ SpawnChild(k)
             \/ ChildBusy(k) \/ ChildScan(k) \/ ChildDone(k) \/ ChildFails(k)
      PROVE  Attended'
  <2>1. /\ \A c \in Clients \ {k} : monitor'[c] = monitor[c]
        /\ UNCHANGED <<client, request>>
    BY <1>6 DEF PassGate, Coordinate, Proceed, SpawnChild, ChildBusy, ChildScan,
                ChildDone, ChildFails, Fail, MonitorAt, TypeOK
  <2>2. monitor[k].at \in Working
    BY <1>6 DEF PassGate, Coordinate, Proceed, SpawnChild, ChildBusy, ChildScan,
                ChildDone, ChildFails, MonitorAt, Holding, Working
  <2>3. QED
    BY <1>3, <2>1, <2>2
<1>7. ASSUME NEW k \in Clients, Take(k) PROVE Attended'
  <2>1. /\ \A c \in Clients \ {k} : monitor'[c] = monitor[c] /\ client'[c] = client[c]
        /\ UNCHANGED request /\ monitor[k].at \in Working
    BY <1>7 DEF Take, TypeOK, Holding, Working
  <2>2. client'[k] = [client[k] EXCEPT !.queued = FALSE, !.full = FALSE, !.paths = {}]
    BY <1>7 DEF Take, TypeOK
  <2>3. client'[k].running = client[k].running
    BY <2>2 DEF TypeOK, ClientFields
  <2>4. QED
    BY <1>3, <2>1, <2>3
<1>8. ASSUME NEW k \in Clients,
             LeaveGate(k) \/ Coalesce(k) \/ SkipDuplicate(k) \/ Finish(k) \/ Throw(k)
      PROVE  Attended'
  <2>1. /\ \A c \in Clients \ {k} : monitor'[c] = monitor[c] /\ client'[c] = client[c]
        /\ UNCHANGED request
    BY <1>8 DEF LeaveGate, Coalesce, SkipDuplicate, Finish, Throw, Forget, MonitorAt,
                TypeOK
  <2>2. monitor[k].at \in Working /\ \E to \in {"ended", "leaving"} :
          monitor' = [monitor EXCEPT ![k].at = to]
    BY <1>8 DEF LeaveGate, Coalesce, SkipDuplicate, Finish, Throw, MonitorAt,
                Holding, Working
  <2>3. monitor'[k].at \in {"ended", "leaving"}
    BY <2>2 DEF TypeOK, Monitors
  <2>4. QED
    BY <1>4, <2>1, <2>2, <2>3 DEF Holding, Working
<1>9. ASSUME NEW k \in Clients, Leave(k) PROVE Attended'
  BY <1>9 DEF Leave, Ended, TypeOK, Attended, Holding, Working
<1>10. ASSUME UNCHANGED <<monitor, client, request>> PROVE Attended'
  BY <1>10 DEF Attended
<1>11. QED
  BY <1>1, <1>2, <1>5, <1>6, <1>7, <1>8, <1>9, <1>10
     DEF Next, Progress, Monitor, StartWatching, JobEnds, Stop, JobStarts, CliStarts,
         CliEnds, vars

LEMMA ByItselfStep ==
  ASSUME TypeOK, ByItself, [Next]_vars PROVE ByItself'
<1>1. ASSUME Spend("edits") \/ Spend("manual") \/ Spend("jobs") \/ Spend("stops")
             \/ Spend("faults")
      PROVE  left'.cli = left.cli
  BY <1>1 DEF Spend, TypeOK, Budget
<1>2. run' = run
  BY DEF Next, Progress, Monitor, Edit, StartUp, StartWatching, Deliver, JobEnds,
         Manual, Stop, JobStarts, ChildFails, Throw, StartMonitor, PassGate,
         LeaveGate, Coordinate, Coalesce, SkipDuplicate, Proceed, Take, Finish,
         Leave, SpawnChild, ChildBusy, ChildScan, ChildDone, CliStarts, CliEnds, vars
<1>3. run.cli = 0 => ~CliStarts /\ ~CliEnds
  BY DEF ByItself, CliStarts, CliEnds, May
<1>4. CASE \E f \in Files : Edit(f)
  <2>1. cli'.at = cli.at
    BY <1>4 DEF Edit, TypeOK
  <2>2. QED
    BY <1>1, <1>2, <1>4, <2>1 DEF Edit, ByItself
<1>5. ASSUME cli' = cli, left' = left \/ left'.cli = left.cli PROVE ByItself'
  BY <1>2, <1>5 DEF ByItself
<1>6. CASE UNCHANGED vars
  BY <1>5, <1>6 DEF vars
<1>7. ASSUME NEW c \in Clients,
             \/ Progress(c) \/ Monitor(c) \/ Manual(c) \/ Stop(c) \/ JobStarts(c)
             \/ ChildFails(c) \/ Throw(c)
      PROVE  cli' = cli /\ (left' = left \/ left'.cli = left.cli)
  BY <1>1, <1>7
     DEF Progress, Monitor, StartUp, StartWatching, Deliver, JobEnds, Manual, Stop,
         JobStarts, ChildFails, Throw, StartMonitor, PassGate, LeaveGate, Coordinate,
         Coalesce, SkipDuplicate, Proceed, Take, Finish, Leave, SpawnChild,
         ChildBusy, ChildScan, ChildDone
<1>8. CASE CliStarts \/ CliEnds
  BY <1>2, <1>3, <1>8 DEF ByItself
<1>9. QED
  BY <1>4, <1>5, <1>6, <1>7, <1>8 DEF Next

(* One client's step leaves the others as fresh as they were.              *)
LEMMA OthersFresh ==
  ASSUME Fresh, run' = run, NEW k \in Clients, run.cli = 0 => FreshOf(k)',
         run.cli = 0 => \A c \in Clients \ {k} :
           \/ /\ monitor'[c] = monitor[c] /\ client'[c].later = client[c].later
              /\ generation' = generation
           \/ monitor'[c].at \notin Holding
  PROVE  Fresh'
<1>1. ASSUME run.cli = 0, NEW c \in Clients \ {k} PROVE FreshOf(c)'
  BY <1>1 DEF Fresh, FreshOf
<1>2. QED
  BY <1>1 DEF Fresh

LEMMA TriggerFresh ==
  ASSUME TypeOK, Attended, Fresh, run' = run, NEW k \in Clients,
         monitor' = monitor, generation' = generation,
         NEW by, NEW paths, NEW full, NEW manual, NEW since,
         Trigger(k, by, paths, full, manual, since)
  PROVE  Fresh'
<1>1. client'[k].later = client[k].running
  BY DEF Trigger, TypeOK
<1>2. \A c \in Clients \ {k} : client'[c] = client[c]
  BY DEF Trigger, TypeOK
<1>3. monitor[k].at \in Holding => client[k].running
  BY DEF Attended, Working
<1>4. FreshOf(k)'
  BY <1>1, <1>3 DEF FreshOf
<1>5. QED
  BY <1>2, <1>4, OthersFresh

LEMMA FreshStep ==
  ASSUME IInv, [Next]_vars PROVE Fresh'
<1> USE DEF IInv
<1>1. run' = run
  BY DEF Next, Progress, Monitor, Edit, StartUp, StartWatching, Deliver, JobEnds,
         Manual, Stop, JobStarts, ChildFails, Throw, StartMonitor, PassGate,
         LeaveGate, Coordinate, Coalesce, SkipDuplicate, Proceed, Take, Finish,
         Leave, SpawnChild, ChildBusy, ChildScan, ChildDone, CliStarts, CliEnds, vars
<1>2. ASSUME NEW f \in Files, Edit(f) PROVE Fresh'
  <2>1. \A c \in Clients : /\ monitor'[c].at = monitor[c].at
                           /\ monitor'[c].first = monitor[c].first
                           /\ monitor'[c].manual = monitor[c].manual
                           /\ monitor'[c].since = monitor[c].since
    BY <1>2 DEF Edit, TypeOK, Monitors
  <2>2. \A c \in Clients : run.cli = 0 => FreshOf(c)'
    BY <1>2, <2>1 DEF Edit, Fresh, FreshOf
  <2>3. QED
    BY <1>1, <2>2 DEF Fresh
<1>3. ASSUME UNCHANGED <<monitor, client, generation>> PROVE Fresh'
  BY <1>1, <1>3 DEF Fresh, FreshOf
<1>4. ASSUME NEW k \in Clients, StartUp(k) \/ Deliver(k) \/ Manual(k) PROVE Fresh'
  BY <1>1, <1>3, <1>4, TriggerFresh DEF StartUp, Deliver, Manual, repository
<1>5. ASSUME NEW k \in Clients,
             \/ StartMonitor(k) \/ PassGate(k) \/ Coordinate(k) \/ LeaveGate(k)
             \/ Coalesce(k) \/ SkipDuplicate(k) \/ Finish(k) \/ Leave(k) \/ Throw(k)
      PROVE  Fresh'
  <2>1. \A c \in Clients \ {k} : monitor'[c] = monitor[c] /\ client'[c] = client[c]
    BY <1>5 DEF StartMonitor, PassGate, LeaveGate, Coordinate, Coalesce,
                SkipDuplicate, Finish, Leave, Throw, Forget, MonitorAt, TypeOK
  <2>2. generation' = generation
    BY <1>5 DEF StartMonitor, PassGate, LeaveGate, Coordinate, Coalesce,
                SkipDuplicate, Finish, Leave, Throw, repository
  <2>3. CASE StartMonitor(k) \/ Leave(k)
    <3>1. StartMonitor(k) => monitor'[k].at = "gate"
      BY DEF StartMonitor, Ended, TypeOK
    <3>2. Leave(k) => monitor'[k].at = "ended"
      BY DEF Leave, Ended, TypeOK
    <3>3. QED
      BY <1>1, <2>1, <2>2, <2>3, <3>1, <3>2, OthersFresh DEF FreshOf, Holding
  <2>4. CASE PassGate(k)
    <3>1. monitor'[k] = [monitor[k] EXCEPT !.at = "coordinate", !.before = generation]
      BY <2>4 DEF PassGate, TypeOK
    <3>2. monitor'[k].at = "coordinate"
      BY <3>1 DEF TypeOK, Monitors
    <3>3. QED
      BY <1>1, <2>1, <2>2, <3>2, OthersFresh DEF FreshOf, Holding
  <2>5. CASE \E to \in {"compare", "ended", "leaving"} :
               monitor' = [monitor EXCEPT ![k].at = to]
    <3>1. monitor'[k].at \in {"compare", "ended", "leaving"}
      BY <2>5 DEF TypeOK, Monitors
    <3>2. QED
      BY <1>1, <2>1, <2>2, <3>1, OthersFresh DEF FreshOf, Holding
  <2>6. QED
    BY <1>5, <2>3, <2>4, <2>5
       DEF LeaveGate, Coordinate, Coalesce, SkipDuplicate, Finish, Throw, MonitorAt
<1>6. ASSUME NEW k \in Clients, Proceed(k) PROVE Fresh'
  <2>1. /\ monitor'[k].first = monitor[k].first
        /\ monitor'[k].manual = monitor[k].manual
        /\ monitor'[k].since = monitor[k].since
    BY <1>6 DEF Proceed, MonitorAt, TypeOK, Monitors
  <2>2. /\ \A c \in Clients \ {k} : monitor'[c] = monitor[c]
        /\ client' = client /\ generation' = generation
    BY <1>6 DEF Proceed, MonitorAt, TypeOK, repository
  <2>3. generation \in Nat /\ monitor[k].since \in Nat
    BY DEF TypeOK, Monitors
  <2>4. ~monitor[k].manual => client[k].later \/ generation <= monitor[k].since
    BY <1>6, <2>3 DEF Proceed, CompletedSince
  <2>5. FreshOf(k)'
    BY <2>1, <2>2, <2>4 DEF FreshOf
  <2>6. QED
    BY <1>1, <2>2, <2>5, OthersFresh
<1>7. ASSUME NEW k \in Clients, Take(k) \/ SpawnChild(k) \/ ChildScan(k) PROVE Fresh'
  <2>1. /\ \A c \in Clients \ {k} : monitor'[c] = monitor[c] /\ client'[c] = client[c]
        /\ generation' = generation
        /\ monitor[k].at \in Holding \ {"compare"}
    BY <1>7 DEF Take, SpawnChild, ChildScan, MonitorAt, TypeOK, Holding, repository
  <2>2. /\ monitor'[k].first = monitor[k].first
        /\ monitor'[k].manual = monitor[k].manual
        /\ monitor'[k].since = monitor[k].since
    BY <1>7 DEF Take, SpawnChild, ChildScan, MonitorAt, TypeOK, Monitors
  <2>3. client'[k].later = client[k].later
    <3>1. CASE Take(k)
      <4>1. client'[k] = [client[k] EXCEPT !.queued = FALSE, !.full = FALSE,
                                           !.paths = {}]
        BY <3>1 DEF Take, TypeOK
      <4>2. QED
        BY <4>1 DEF TypeOK, ClientFields
    <3>2. QED
      BY <1>7, <3>1 DEF SpawnChild, ChildScan
  <2>4. run.cli = 0 => FreshOf(k)'
    BY <2>1, <2>2, <2>3 DEF Fresh, FreshOf
  <2>5. QED
    BY <1>1, <2>1, <2>4, OthersFresh
<1>8. ASSUME NEW k \in Clients, ChildBusy(k) \/ ChildDone(k) \/ ChildFails(k)
      PROVE  Fresh'
  <2>1. monitor' = [monitor EXCEPT ![k].at = "loop", ![k].first = FALSE, ![k].seen = {}]
    BY <1>8 DEF ChildBusy, ChildDone, ChildFails, Fail
  <2>2. ~monitor'[k].first /\ \A c \in Clients \ {k} : monitor'[c] = monitor[c]
    BY <2>1 DEF TypeOK, Monitors
  <2>3. client' = client /\ (generation' = generation \/ ChildDone(k))
    BY <1>8 DEF ChildBusy, ChildDone, ChildFails, repository
  <2>4. ChildDone(k) => coordination = k
    BY DEF ChildDone, Coordinated, Holding
  <2>5. ChildDone(k) => \A c \in Clients \ {k} : monitor[c].at \notin Holding
    BY <2>4 DEF Coordinated
  <2>6. QED
    BY <1>1, <2>2, <2>3, <2>5, OthersFresh DEF FreshOf
<1>9. CASE CliStarts
  BY <1>3, <1>9 DEF CliStarts, repository
<1>10. CASE CliEnds
  BY <1>1, <1>10 DEF CliEnds, ByItself, Fresh
<1>11. QED
  BY <1>2, <1>3, <1>4, <1>5, <1>6, <1>7, <1>8, <1>9, <1>10
     DEF Next, Progress, Monitor, StartWatching, JobEnds, Stop, JobStarts,
         repository, vars

LEMMA InitIInv == Init => IInv
<1>1. Init => TypeOK
  BY InitType
<1>2. Init => Coordinated /\ Attended /\ Fresh
  BY DEF Init, Coordinated, Attended, Fresh, FreshOf, Holding, Working, Ended
<1>3. Init => ByItself
  BY DEF Init, ByItself, NoRun
<1>4. QED
  BY <1>1, <1>2, <1>3 DEF IInv

LEMMA IInvStep == IInv /\ [Next]_vars => IInv'
  BY TypeStep, CoordinatedStep, AttendedStep, ByItselfStep, FreshStep DEF IInv

(* Only the first run after an automatic trigger could repeat the work of  *)
(* another client, and it begins only if nothing was completed since the   *)
(* trigger: reindex.h:141-172, for any number of clients.                  *)
THEOREM WorkIsNotRepeated == Spec => []NoDuplicateRun
<1>1. Init => IInv
  BY InitIInv
<1>2. IInv /\ [Next]_vars => IInv'
  BY IInvStep
<1>3. IInv => NoDuplicateRun
  BY DEF IInv, Fresh, FreshOf, NoDuplicateRun, Holding
<1>4. QED
  BY <1>1, <1>2, <1>3, PTL DEF Spec

-----------------------------------------------------------------------------
(* No change is forgotten.  A client may leave its queue to another client *)
(* whose run is under way (Coalesce) or was completed since the trigger    *)
(* (SkipDuplicate).  That is right where the other one, too, keeps every   *)
(* file that is stale: where everybody watches, and either there is only   *)
(* one client or all runs are full ones.  (A targeted run covers the paths *)
(* of its own client only, and codetopo index watches nothing.)            *)
Watchful ==
  /\ run.clients # {} /\ run.watch = run.clients /\ run.quiet /\ run.cli = 0
  /\ run.stale # {} => run.startup \intersect run.clients # {}
  /\ \/ run.edits = 0
     \/ run.clients \subseteq run.fullOnly
     \/ \A c, d \in run.clients : c = d

Generation0 == IF run.indexed THEN 1 ELSE 0

(* The next comparison of generations would discard the queue of c.        *)
WouldSkip(c) ==
  /\ ~client[c].later
  /\ generation # 0
  /\ \/ request[c] # NoRequest /\ ~request[c].manual /\ generation > request[c].since
     \/ monitor[c].at = "gate" /\ ~monitor[c].manual /\ generation > monitor[c].since
     \/ monitor[c].at \in {"coordinate", "compare"} /\ CompletedSince(c)

(* Client c answers for file f, and does not count on another client.      *)
Queues(c, f) == client[c].queued /\ (client[c].full \/ f \in client[c].paths)

Keeps(c, f) ==
  \/ phase[c] = "booting" /\ c \in run.startup /\ generation <= Generation0
  \/ f \in events[c]
  \/ Queues(c, f) /\ ~WouldSkip(c)
  \/ monitor[c].at \in {"spawn", "scan"} /\ Covers(c, f)
  \/ monitor[c].at = "index" /\ f \in monitor[c].seen

(* The client whose run the others rely on.                                *)
ReliedOn(c) ==
  \/ monitor[c].at \in {"spawn", "scan", "index"}
  \/ monitor[c].at \in {"loop", "leaving"} /\ ~monitor[c].first

Kept == \A f \in stale \ waived : \E c \in run.clients : Keeps(c, f)

ReliableRuns == \A c \in run.clients : ReliedOn(c) =>
                  \A f \in stale \ waived : Keeps(c, f)

(* What that rests on.                                                     *)
Outsiders == \A c \in Clients :
  \/ c \in run.clients
  \/ phase[c] = "off" /\ request[c] = NoRequest /\ monitor[c].at = "ended"

Booting == \A c \in Clients :
  phase[c] = "booting" => /\ ~client[c].queued /\ ~client[c].running
                          /\ request[c] = NoRequest /\ monitor[c].at = "ended"

StopsWaive == \A c \in Clients : phase[c] = "stopping" => stale \subseteq waived

HolderWorks ==
  /\ \A c \in Clients : coordination = c => monitor[c].at \in Holding \union {"leaving"}
  /\ \A c \in Clients : monitor[c].at = "leaving" /\ ~monitor[c].first => coordination = c
  /\ \A c \in Clients : monitor[c].at \in {"gate", "coordinate", "compare"} => monitor[c].first

SeenCovered == \A c \in Clients :
  monitor[c].at = "index" => \A f \in monitor[c].seen : Covers(c, f)

FullRuns ==
  run.edits = 0 \/ run.clients \subseteq run.fullOnly =>
    /\ \A c \in Clients : client[c].queued => client[c].full
    /\ run.edits = 0 => left.edits = 0 /\ \A c \in Clients : events[c] = {}

KeptInv == Outsiders /\ Booting /\ StopsWaive /\ HolderWorks /\ SeenCovered
             /\ FullRuns /\ Kept /\ ReliableRuns

-----------------------------------------------------------------------------
(* What a step of client k does to the records of all.                     *)
ClientStep(k) ==
  \/ Progress(k) \/ Monitor(k)
  \/ Manual(k) \/ Stop(k) \/ JobStarts(k) \/ ChildFails(k) \/ Throw(k)

Others(k) == \A c \in Clients \ {k} :
  /\ monitor'[c] = monitor[c] /\ client'[c] = client[c] /\ request'[c] = request[c]
  /\ phase'[c] = phase[c] /\ events'[c] = events[c]

LEMMA Frame ==
  ASSUME TypeOK, NEW k \in Clients, ClientStep(k)
  PROVE  run' = run /\ Others(k)
<1> USE DEF TypeOK, Others
<1>1. CASE Progress(k) \/ Manual(k) \/ Stop(k) \/ JobStarts(k)
  BY <1>1 DEF Progress, StartUp, StartWatching, Deliver, JobEnds, Manual, Stop, JobStarts, Trigger
<1>2. CASE ChildFails(k) \/ Throw(k)
  BY <1>2 DEF ChildFails, Throw, Fail, MonitorAt
<1>3. CASE Monitor(k)
  BY <1>3
     DEF Monitor, StartMonitor, PassGate, LeaveGate, Coordinate, Coalesce, SkipDuplicate,
         Proceed, Take, Finish, Leave, SpawnChild, ChildBusy, ChildScan, ChildDone,
         MonitorAt, Forget, Fail
<1>4. QED
  BY <1>1, <1>2, <1>3 DEF ClientStep

SameRun(k) ==
  /\ monitor'[k].manual = monitor[k].manual /\ monitor'[k].since = monitor[k].since
  /\ monitor'[k].before = monitor[k].before /\ monitor'[k].first = monitor[k].first
  /\ monitor'[k].full = monitor[k].full /\ monitor'[k].paths = monitor[k].paths
  /\ monitor'[k].seen = monitor[k].seen

LEMMA MonitorAtFields ==
  ASSUME TypeOK, NEW k \in Clients, NEW from, NEW to, MonitorAt(k, from, to)
  PROVE  monitor[k].at = from /\ monitor'[k].at = to /\ SameRun(k)
BY DEF MonitorAt, SameRun, TypeOK, Monitors

SameQueue(k) ==
  /\ client'[k].queued = client[k].queued /\ client'[k].full = client[k].full
  /\ client'[k].paths = client[k].paths /\ client'[k].later = client[k].later

LEMMA QueueFields ==
  ASSUME TypeOK, NEW k \in Clients
  PROVE  /\ Forget(k) => ~client'[k].queued /\ ~client'[k].running
         /\ client' = [client EXCEPT ![k].running = FALSE] =>
              SameQueue(k) /\ ~client'[k].running
         /\ client' = [client EXCEPT ![k] = [@ EXCEPT !.queued = FALSE, !.full = FALSE,
                                                      !.paths = {}]] =>
              /\ ~client'[k].queued /\ client'[k].running = client[k].running
              /\ client'[k].later = client[k].later
         /\ client' = [client EXCEPT ![k].running = FALSE, ![k].queued = FALSE] =>
              ~client'[k].queued /\ ~client'[k].running
<1>1. client[k] \in ClientFields
  BY DEF TypeOK
<1>2. ASSUME Forget(k) PROVE ~client'[k].queued /\ ~client'[k].running
  <2>1. client'[k] = [client[k] EXCEPT !.running = FALSE, !.queued = FALSE,
                                       !.full = FALSE, !.paths = {}]
    BY <1>2 DEF Forget, TypeOK
  <2>2. QED
    BY <1>1, <2>1 DEF ClientFields
<1>3. ASSUME client' = [client EXCEPT ![k].running = FALSE]
      PROVE  SameQueue(k) /\ ~client'[k].running
  BY <1>1, <1>3 DEF SameQueue, TypeOK, ClientFields
<1>4. ASSUME client' = [client EXCEPT ![k] = [@ EXCEPT !.queued = FALSE, !.full = FALSE,
                                                       !.paths = {}]]
      PROVE  /\ ~client'[k].queued /\ client'[k].running = client[k].running
             /\ client'[k].later = client[k].later
  <2>1. client'[k] = [client[k] EXCEPT !.queued = FALSE, !.full = FALSE, !.paths = {}]
    BY <1>4 DEF TypeOK
  <2>2. QED
    BY <1>1, <2>1 DEF ClientFields
<1>5. ASSUME client' = [client EXCEPT ![k].running = FALSE, ![k].queued = FALSE]
      PROVE  ~client'[k].queued /\ ~client'[k].running
  BY <1>1, <1>5 DEF TypeOK, ClientFields
<1>6. QED
  BY <1>2, <1>3, <1>4, <1>5

LEMMA TriggerFields ==
  ASSUME TypeOK, NEW k \in Clients, NEW by, NEW paths, NEW full \in BOOLEAN, NEW manual,
         NEW since, Trigger(k, by, paths, full, manual, since)
  PROVE  /\ client'[k].running /\ client'[k].queued
         /\ client'[k].full = (client[k].full \/ full \/ paths = {})
         /\ client'[k].full \/ client'[k].paths = client[k].paths \union paths
         /\ client'[k].later = client[k].running
         /\ request'[k] = IF client[k].running THEN request[k]
                          ELSE [by |-> by, manual |-> manual, since |-> since]
BY DEF Trigger, TypeOK, ClientFields

(* A run that ends in failure or success.                                  *)
LEMMA FailFields ==
  ASSUME TypeOK, NEW k \in Clients,
         monitor' = [monitor EXCEPT ![k].at = "loop", ![k].first = FALSE, ![k].seen = {}]
  PROVE  /\ monitor'[k].at = "loop" /\ ~monitor'[k].first /\ monitor'[k].seen = {}
         /\ monitor'[k].full = monitor[k].full /\ monitor'[k].paths = monitor[k].paths
BY DEF TypeOK, Monitors

-----------------------------------------------------------------------------
(* What the argument rests on is kept by every step.                       *)
LEMMA EditFields ==
  ASSUME TypeOK, NEW f \in Files, Edit(f)
  PROVE  /\ \A c \in Clients : /\ monitor'[c].at = monitor[c].at
                               /\ monitor'[c].first = monitor[c].first
                               /\ monitor'[c].manual = monitor[c].manual
                               /\ monitor'[c].since = monitor[c].since
                               /\ monitor'[c].before = monitor[c].before
                               /\ monitor'[c].full = monitor[c].full
                               /\ monitor'[c].paths = monitor[c].paths
                               /\ monitor'[c].seen = monitor[c].seen \ {f}
         /\ UNCHANGED <<run, generation, phase, client, request, locks, waived>>
<1>1. \A c \in Clients : monitor'[c] = [monitor[c] EXCEPT !.seen = @ \ {f}]
  BY DEF Edit
<1>2. \A c \in Clients : monitor[c] \in Monitors
  BY DEF TypeOK
<1>3. QED
  BY <1>1, <1>2 DEF Edit, Monitors

(* Without a codetopo index beside them, clients and edits are all.        *)
LEMMA NextCases ==
  ASSUME TypeOK, ByItself, Watchful, [Next]_vars
  PROVE  \/ \E f \in Files : Edit(f)
         \/ \E k \in Clients : ClientStep(k)
         \/ UNCHANGED vars
BY DEF ByItself, Watchful, Next, ClientStep, CliStarts, CliEnds, May

LEMMA OutsidersStep ==
  ASSUME TypeOK, Outsiders, NEW k \in Clients, ClientStep(k)
  PROVE  Outsiders' /\ (k \in run.clients \/ UNCHANGED <<monitor, client, request, phase, events,
                                                         stale, waived, generation, coordination>>)
<1>1. CASE k \in run.clients
  BY <1>1, Frame DEF Outsiders, Others
<1>2. CASE k \notin run.clients
  <2>1. phase[k] = "off" /\ request[k] = NoRequest /\ monitor[k].at = "ended"
    BY <1>2 DEF Outsiders
  <2>2. JobEnds(k)
    BY <2>1
       DEF ClientStep, Progress, StartUp, StartWatching, Deliver, Manual, Stop, JobStarts,
           ChildFails, Throw, Monitor, StartMonitor, PassGate, LeaveGate, Coordinate, Coalesce,
           SkipDuplicate, Proceed, Take, Finish, Leave, SpawnChild, ChildBusy, ChildScan,
           ChildDone, MonitorAt, Watching
  <2>3. QED
    BY <2>2, Frame DEF JobEnds, Outsiders, repository
<1>3. QED
  BY <1>1, <1>2

LEMMA BootingStep ==
  ASSUME TypeOK, Booting, NEW k \in Clients, ClientStep(k)
  PROVE  Booting'
<1>1. CASE phase[k] # "booting" /\ phase'[k] # "booting"
  BY <1>1, Frame DEF Booting, Others
<1>2. CASE phase[k] = "booting"
  <2>1. request[k] = NoRequest /\ monitor[k].at = "ended"
    BY <1>2 DEF Booting
  <2>2. StartUp(k) \/ JobEnds(k)
    BY <1>2, <2>1
       DEF ClientStep, Progress, StartUp, StartWatching, Deliver, Manual, Stop, JobStarts,
           ChildFails, Throw, Monitor, StartMonitor, PassGate, LeaveGate, Coordinate, Coalesce,
           SkipDuplicate, Proceed, Take, Finish, Leave, SpawnChild, ChildBusy, ChildScan,
           ChildDone, MonitorAt, Watching
  <2>3. CASE StartUp(k)
    <3>1. phase'[k] = "started"
      BY <2>3 DEF StartUp, TypeOK
    <3>2. QED
      BY <3>1, Frame DEF Booting, Others
  <2>4. CASE JobEnds(k)
    BY <2>4 DEF JobEnds, Booting
  <2>5. QED
    BY <2>2, <2>3, <2>4
<1>3. CASE phase[k] # "booting" /\ phase'[k] = "booting"
  <2>1. phase' # phase
    BY <1>3
  <2>2. StartUp(k) \/ StartWatching(k) \/ Stop(k)
    BY <2>1
       DEF ClientStep, Progress, Deliver, JobEnds, Manual, JobStarts, ChildFails, Throw,
           Monitor, StartMonitor, PassGate, LeaveGate, Coordinate, Coalesce, SkipDuplicate,
           Proceed, Take, Finish, Leave, SpawnChild, ChildBusy, ChildScan, ChildDone
  <2>3. QED
    BY <1>3, <2>2 DEF StartUp, StartWatching, Stop, TypeOK
<1>4. QED
  BY <1>1, <1>2, <1>3

LEMMA StopsWaiveStep ==
  ASSUME TypeOK, Outsiders, StopsWaive, NEW k \in Clients, ClientStep(k)
  PROVE  StopsWaive' /\ (stale' \ waived' \subseteq stale \ waived)
<1>1. stale' \subseteq stale /\ waived \subseteq waived'
  BY DEF ClientStep, Progress, StartUp, StartWatching, Deliver, JobEnds, Manual, Stop, JobStarts,
         ChildFails, Throw, Monitor, StartMonitor, PassGate, LeaveGate, Coordinate, Coalesce,
         SkipDuplicate, Proceed, Take, Finish, Leave, SpawnChild, ChildBusy, ChildScan,
         ChildDone, Fail, repository
<1>2. CASE Stop(k)
  <2>1. stale' = stale /\ waived' = waived \union stale
    BY <1>2 DEF Stop, repository
  <2>2. QED
    BY <2>1 DEF StopsWaive
<1>3. CASE phase'[k] = "stopping" => phase[k] = "stopping"
  BY <1>1, <1>3, Frame DEF StopsWaive, Others
<1>4. CASE phase'[k] = "stopping" /\ phase[k] # "stopping" /\ ~Stop(k)
  BY <1>4
     DEF ClientStep, Progress, StartUp, StartWatching, Deliver, JobEnds, Manual, JobStarts,
         ChildFails, Throw, Monitor, StartMonitor, PassGate, LeaveGate, Coordinate, Coalesce,
         SkipDuplicate, Proceed, Take, Finish, Leave, SpawnChild, ChildBusy, ChildScan,
         ChildDone, TypeOK
<1>5. QED
  BY <1>1, <1>2, <1>3, <1>4

(* The monitor's own steps, by the places they lead from and to.           *)
LEMMA MonitorPlaces ==
  ASSUME TypeOK, NEW k \in Clients
  PROVE  /\ StartMonitor(k) => /\ monitor[k].at = "ended" /\ monitor'[k].at = "gate"
                               /\ monitor'[k].first /\ request[k] # NoRequest
                               /\ monitor'[k].manual = request[k].manual
                               /\ monitor'[k].since = request[k].since
                               /\ request'[k] = NoRequest
         /\ PassGate(k) => /\ monitor[k].at = "gate" /\ monitor'[k].at = "coordinate"
                           /\ monitor'[k].first = monitor[k].first
                           /\ monitor'[k].manual = monitor[k].manual
                           /\ monitor'[k].since = monitor[k].since
                           /\ monitor'[k].before = generation
         /\ Take(k) => /\ monitor[k].at = "loop" /\ monitor'[k].at = "spawn"
                       /\ monitor'[k].first = monitor[k].first
                       /\ client[k].full => monitor'[k].full
                       /\ monitor'[k].paths = client[k].paths
         /\ ChildScan(k) => /\ monitor[k].at = "scan" /\ monitor'[k].at = "index"
                            /\ monitor'[k].full = monitor[k].full
                            /\ monitor'[k].paths = monitor[k].paths
                            /\ monitor'[k].first = monitor[k].first
                            /\ monitor'[k].seen = {f \in Files : Covers(k, f)}
         /\ Leave(k) => monitor[k].at = "leaving" /\ monitor'[k] = Ended
<1>1. monitor[k] \in Monitors
  BY DEF TypeOK
<1>2. ASSUME StartMonitor(k)
      PROVE  /\ monitor[k].at = "ended" /\ monitor'[k].at = "gate"
             /\ monitor'[k].first /\ request[k] # NoRequest
             /\ monitor'[k].manual = request[k].manual
             /\ monitor'[k].since = request[k].since
             /\ request'[k] = NoRequest
  BY <1>2 DEF StartMonitor, Ended, TypeOK
<1>3. ASSUME PassGate(k)
      PROVE  /\ monitor[k].at = "gate" /\ monitor'[k].at = "coordinate"
             /\ monitor'[k].first = monitor[k].first
             /\ monitor'[k].manual = monitor[k].manual
             /\ monitor'[k].since = monitor[k].since
             /\ monitor'[k].before = generation
  <2>1. monitor'[k] = [monitor[k] EXCEPT !.at = "coordinate", !.before = generation]
    BY <1>3 DEF PassGate, TypeOK
  <2>2. monitor'[k].at = "coordinate" /\ monitor'[k].before = generation
    BY <1>1, <2>1 DEF Monitors
  <2>3. /\ monitor'[k].first = monitor[k].first /\ monitor'[k].manual = monitor[k].manual
        /\ monitor'[k].since = monitor[k].since
    BY <1>1, <2>1 DEF Monitors
  <2>4. QED
    BY <1>3, <2>2, <2>3 DEF PassGate
<1>4. ASSUME Take(k)
      PROVE  /\ monitor[k].at = "loop" /\ monitor'[k].at = "spawn"
             /\ monitor'[k].first = monitor[k].first
             /\ client[k].full => monitor'[k].full
             /\ monitor'[k].paths = client[k].paths
  <2>1. PICK full \in {client[k].full, TRUE} :
          monitor' = [monitor EXCEPT ![k].at = "spawn", ![k].full = full,
                                     ![k].paths = client[k].paths]
    BY <1>4 DEF Take
  <2>2. monitor'[k] = [monitor[k] EXCEPT !.at = "spawn", !.full = full,
                                         !.paths = client[k].paths]
    BY <2>1 DEF TypeOK
  <2>3. monitor'[k].full = full
    BY <1>1, <2>2 DEF Monitors
  <2>4. QED
    BY <1>1, <1>4, <2>2, <2>3 DEF Take, Monitors
<1>5. ASSUME ChildScan(k)
      PROVE  /\ monitor[k].at = "scan" /\ monitor'[k].at = "index"
             /\ monitor'[k].full = monitor[k].full
             /\ monitor'[k].paths = monitor[k].paths
             /\ monitor'[k].first = monitor[k].first
             /\ monitor'[k].seen = {f \in Files : Covers(k, f)}
  <2> DEFINE S == {f \in Files : Covers(k, f)}
  <2>1. monitor'[k] = [monitor[k] EXCEPT !.at = "index", !.seen = S]
    BY <1>5 DEF ChildScan, TypeOK
  <2> HIDE DEF S
  <2>2. /\ monitor'[k].at = "index" /\ monitor'[k].full = monitor[k].full
        /\ monitor'[k].paths = monitor[k].paths /\ monitor'[k].first = monitor[k].first
        /\ monitor'[k].seen = S
    BY <1>1, <2>1 DEF Monitors
  <2>3. QED
    BY <1>5, <2>2 DEF ChildScan, S
<1>6. ASSUME Leave(k) PROVE monitor[k].at = "leaving" /\ monitor'[k] = Ended
  BY <1>6 DEF Leave, TypeOK
<1>7. QED
  BY <1>2, <1>3, <1>4, <1>5, <1>6

LEMMA HolderMoves ==
  ASSUME HolderWorks, NEW k \in Clients, Others(k), coordination' = coordination,
         coordination = k => monitor'[k].at \in Holding \union {"leaving"},
         monitor'[k].at = "leaving" /\ ~monitor'[k].first => coordination = k,
         monitor'[k].at \in {"gate", "coordinate", "compare"} => monitor'[k].first
  PROVE  HolderWorks'
BY DEF HolderWorks, Others

LEMMA HolderStep ==
  ASSUME TypeOK, Coordinated, HolderWorks, NEW k \in Clients, ClientStep(k)
  PROVE  HolderWorks'
<1>1. Others(k)
  BY Frame
<1>2. /\ coordination = k => monitor[k].at \in Holding \union {"leaving"}
      /\ monitor[k].at = "leaving" /\ ~monitor[k].first => coordination = k
      /\ monitor[k].at \in {"gate", "coordinate", "compare"} => monitor[k].first
      /\ monitor[k].at \in Holding => coordination = k
  BY DEF HolderWorks, Coordinated
<1>3. CASE UNCHANGED <<monitor, coordination>>
  BY <1>3 DEF HolderWorks
<1>4. CASE StartMonitor(k) \/ PassGate(k) \/ Take(k) \/ ChildScan(k)
  <2>1. coordination' = coordination
    BY <1>4 DEF StartMonitor, PassGate, Take, ChildScan, locks
  <2>2. QED
    BY <1>1, <1>2, <1>4, <2>1, MonitorPlaces, HolderMoves DEF Holding
<1>5. CASE \/ LeaveGate(k) \/ Coalesce(k) \/ SkipDuplicate(k) \/ Proceed(k) \/ Finish(k)
           \/ SpawnChild(k) \/ Throw(k)
  <2>1. coordination' = coordination
    BY <1>5 DEF LeaveGate, Coalesce, SkipDuplicate, Proceed, Finish, SpawnChild, Throw, locks
  <2>2. PICK from \in Steps, to \in Steps :
          /\ MonitorAt(k, from, to)
          /\ <<from, to>> \in {<<"gate", "ended">>, <<"coordinate", "leaving">>,
                              <<"compare", "leaving">>, <<"compare", "loop">>,
                              <<"loop", "leaving">>, <<"spawn", "scan">>,
                              <<"spawn", "leaving">>}
    BY <1>5 DEF LeaveGate, Coalesce, SkipDuplicate, Proceed, Finish, SpawnChild, Throw, Steps,
                MonitorAt
  <2>3. monitor[k].at = from /\ monitor'[k].at = to /\ monitor'[k].first = monitor[k].first
    BY <2>2, MonitorAtFields DEF SameRun
  <2>4. QED
    BY <1>1, <1>2, <2>1, <2>2, <2>3, HolderMoves DEF Holding
<1>6. CASE ChildBusy(k) \/ ChildDone(k) \/ ChildFails(k)
  <2>1. coordination' = coordination /\ monitor[k].at \in Holding
    BY <1>6 DEF ChildBusy, ChildDone, ChildFails, locks, Holding
  <2>2. monitor'[k].at = "loop"
    BY <1>6, FailFields DEF ChildBusy, ChildDone, ChildFails, Fail
  <2>3. QED
    BY <1>1, <1>2, <2>1, <2>2, HolderMoves DEF Holding
<1>7. CASE Coordinate(k)
  <2>1. /\ monitor[k].at = "coordinate" /\ monitor'[k].at = "compare" /\ monitor'[k].first = monitor[k].first
        /\ coordination' = k /\ coordination = Nobody
    BY <1>7, MonitorAtFields DEF Coordinate, SameRun
  <2>2. \A c \in Clients \ {k} : coordination' # c /\ coordination # c
    BY <2>1, ClientAssumption
  <2>3. QED
    BY <1>1, <1>2, <2>1, <2>2 DEF HolderWorks, Others, Holding
<1>8. CASE Leave(k)
  <2>1. monitor'[k].at = "ended"
    BY <1>8, MonitorPlaces DEF Ended
  <2>2. coordination' = IF coordination = k THEN Nobody ELSE coordination
    BY <1>8 DEF Leave
  <2>3. coordination' # k /\ \A c \in Clients \ {k} : coordination' = c <=> coordination = c
    BY <2>2, ClientAssumption
  <2>4. QED
    BY <1>1, <2>1, <2>3 DEF HolderWorks, Others
<1>9. QED
  BY <1>3, <1>4, <1>5, <1>6, <1>7, <1>8
     DEF ClientStep, Progress, Monitor, StartUp, StartWatching, Deliver, JobEnds, Manual, Stop,
         JobStarts, locks

LEMMA SeenCoveredStep ==
  ASSUME TypeOK, SeenCovered, NEW k \in Clients, ClientStep(k)
  PROVE  SeenCovered'
<1>1. Others(k)
  BY Frame
<1>2. CASE monitor' = monitor
  BY <1>2 DEF SeenCovered, Covers
<1>3. CASE ChildScan(k)
  BY <1>1, <1>3, MonitorPlaces DEF SeenCovered, Others, Covers
<1>4. CASE monitor'[k].at # "index"
  BY <1>1, <1>4 DEF SeenCovered, Others, Covers
<1>5. monitor' = monitor \/ ChildScan(k) \/ monitor'[k].at # "index"
  <2>1. StartMonitor(k) \/ PassGate(k) \/ Take(k) \/ Leave(k) => monitor'[k].at # "index"
    BY MonitorPlaces DEF Ended
  <2>2. ChildBusy(k) \/ ChildDone(k) \/ ChildFails(k) => monitor'[k].at # "index"
    BY FailFields DEF ChildBusy, ChildDone, ChildFails, Fail
  <2>3. LeaveGate(k) \/ Coordinate(k) \/ Coalesce(k) \/ SkipDuplicate(k) \/ Proceed(k)
          \/ Finish(k) \/ SpawnChild(k) \/ Throw(k) => monitor'[k].at # "index"
    <3>1. \A from : \A to \in Steps \ {"index"} : MonitorAt(k, from, to) => monitor'[k].at # "index"
      BY MonitorAtFields
    <3>2. QED
      BY <3>1 DEF LeaveGate, Coordinate, Coalesce, SkipDuplicate, Proceed, Finish, SpawnChild,
                  Throw, Steps
  <2>4. QED
    BY <2>1, <2>2, <2>3
       DEF ClientStep, Progress, Monitor, StartUp, StartWatching, Deliver, JobEnds, Manual, Stop,
           JobStarts
<1>6. QED
  BY <1>2, <1>3, <1>4, <1>5

(* Every trigger of such clients asks for all files.                       *)
LEMMA FullRunsStep ==
  ASSUME TypeOK, FullRuns, Outsiders, NEW k \in Clients, ClientStep(k)
  PROVE  FullRuns'
<1> SUFFICES ASSUME run.edits = 0 \/ run.clients \subseteq run.fullOnly
             PROVE  /\ \A c \in Clients : client'[c].queued => client'[c].full
                    /\ run.edits = 0 => left'.edits = 0 /\ \A c \in Clients : events'[c] = {}
  BY Frame DEF FullRuns
<1>1. Others(k) /\ run' = run
  BY Frame
<1>2. /\ \A c \in Clients : client[c].queued => client[c].full
      /\ run.edits = 0 => left.edits = 0 /\ \A c \in Clients : events[c] = {}
  BY DEF FullRuns
<1>3. left'.edits = left.edits
  <2>1. Spend("manual") \/ Spend("jobs") \/ Spend("stops") \/ Spend("faults") =>
          left'.edits = left.edits
    BY DEF Spend, TypeOK, Budget
  <2>2. QED
    BY <2>1
       DEF ClientStep, Progress, StartUp, StartWatching, Deliver, JobEnds, Manual, Stop, JobStarts,
           ChildFails, Throw, Monitor, StartMonitor, PassGate, LeaveGate, Coordinate, Coalesce,
           SkipDuplicate, Proceed, Take, Finish, Leave, SpawnChild, ChildBusy, ChildScan, ChildDone
<1>4. events' = events \/ events'[k] = {}
  BY DEF ClientStep, Progress, StartUp, StartWatching, Deliver, JobEnds, Manual, Stop, JobStarts,
         ChildFails, Throw, Monitor, StartMonitor, PassGate, LeaveGate, Coordinate, Coalesce,
         SkipDuplicate, Proceed, Take, Finish, Leave, SpawnChild, ChildBusy, ChildScan, ChildDone,
         TypeOK
<1>5. client'[k].queued => client'[k].full
  <2>1. CASE StartUp(k)
    BY <1>2, <2>1, TriggerFields DEF StartUp
  <2>2. CASE Manual(k)
    BY <2>2, TriggerFields DEF Manual
  <2>3. CASE Deliver(k)
    <3>1. k \in run.clients /\ events[k] # {}
      BY <2>3 DEF Deliver, Outsiders, Watching
    <3>2. k \in run.fullOnly
      BY <1>2, <3>1
    <3>3. QED
      BY <2>3, <3>2, TriggerFields DEF Deliver
  <2>4. CASE LeaveGate(k) \/ Coalesce(k) \/ SkipDuplicate(k) \/ Take(k) \/ Finish(k) \/ Throw(k)
    BY <1>2, <2>4, QueueFields
       DEF LeaveGate, Coalesce, SkipDuplicate, Take, Finish, Throw, SameQueue
  <2>5. CASE client' = client
    BY <1>2, <2>5
  <2>6. QED
    BY <2>1, <2>2, <2>3, <2>4, <2>5
       DEF ClientStep, Progress, Monitor, StartWatching, JobEnds, Stop, JobStarts, ChildFails,
           StartMonitor, PassGate, Coordinate, Proceed, Leave, SpawnChild, ChildBusy, ChildScan,
           ChildDone
<1>6. QED
  BY <1>1, <1>2, <1>3, <1>4, <1>5 DEF Others

-----------------------------------------------------------------------------
(* The clients that do not move keep what they kept, ...                   *)
LEMMA OthersKeep ==
  ASSUME NEW k \in Clients, Others(k), run' = run, generation' = generation,
         NEW c \in Clients \ {k}
  PROVE  /\ ReliedOn(c)' <=> ReliedOn(c)
         /\ \A f : Keeps(c, f)' <=> Keeps(c, f)
<1>1. WouldSkip(c)' <=> WouldSkip(c)
  BY DEF Others, WouldSkip, CompletedSince
<1>2. \A f : Queues(c, f)' <=> Queues(c, f)
  BY DEF Others, Queues
<1>3. \A f : Covers(c, f)' <=> Covers(c, f)
  BY DEF Others, Covers
<1>4. ReliedOn(c)' <=> ReliedOn(c)
  BY DEF Others, ReliedOn
<1>5. ASSUME NEW f PROVE Keeps(c, f)' <=> Keeps(c, f)
  BY <1>1, <1>2, <1>3 DEF Others, Keeps, Generation0
<1>6. QED
  BY <1>4, <1>5

(* ... so the client that moves has to keep what it kept, ...              *)
LEMMA KeptMoves ==
  ASSUME Kept, ReliableRuns, NEW k \in run.clients, run.clients \subseteq Clients,
         Others(k), run' = run, generation' = generation,
         stale' \ waived' \subseteq stale \ waived,
         \A f \in stale' \ waived' : Keeps(k, f) => Keeps(k, f)',
         ReliedOn(k)' => \A f \in stale' \ waived' : Keeps(k, f)'
  PROVE  Kept' /\ ReliableRuns'
<1>1. ASSUME NEW f \in stale' \ waived' PROVE \E c \in run.clients : Keeps(c, f)'
  <2>1. PICK c \in run.clients : Keeps(c, f)
    BY <1>1 DEF Kept
  <2>2. Keeps(c, f)'
    BY <1>1, <2>1, OthersKeep
  <2>3. QED
    BY <2>2
<1>2. ASSUME NEW c \in run.clients, ReliedOn(c)', NEW f \in stale' \ waived'
      PROVE  Keeps(c, f)'
  BY <1>2, OthersKeep DEF ReliableRuns
<1>3. QED
  BY <1>1, <1>2 DEF Kept, ReliableRuns

(* ... or to rely on another one that does.                                *)
LEMMA KeptByAnother ==
  ASSUME ReliableRuns, NEW k \in run.clients, run.clients \subseteq Clients,
         NEW y \in run.clients \ {k}, ReliedOn(y), ~ReliedOn(k)',
         Others(k), run' = run, generation' = generation,
         stale' \ waived' \subseteq stale \ waived
  PROVE  Kept' /\ ReliableRuns'
<1>1. \A f \in stale' \ waived' : Keeps(y, f)'
  BY OthersKeep DEF ReliableRuns
<1>2. ASSUME NEW c \in run.clients, ReliedOn(c)', NEW f \in stale' \ waived'
      PROVE  Keeps(c, f)'
  BY <1>2, OthersKeep DEF ReliableRuns
<1>3. QED
  BY <1>1, <1>2 DEF Kept, ReliableRuns

(* At most one client is relied on: it has the coordination lock.          *)
LEMMA ReliedOnHolds ==
  ASSUME Coordinated, HolderWorks, NEW c \in Clients, ReliedOn(c)
  PROVE  coordination = c
BY DEF Coordinated, HolderWorks, ReliedOn, Holding

(* While the monitor works, or nothing is asked for, no comparison is due. *)
LEMMA NoSkip ==
  ASSUME Attended, NEW c \in Clients, monitor[c].at \in {"loop", "spawn", "scan", "index"}
  PROVE  ~WouldSkip(c) /\ request[c] = NoRequest
BY DEF Attended, WouldSkip, Working, Holding

(* The triggers of a client.                                               *)
LEMMA TriggerKeeps ==
  ASSUME TypeOK, KeptInv, Attended, NEW k \in Clients, NEW f,
         StartUp(k) \/ Deliver(k) \/ Manual(k), Keeps(k, f)
  PROVE  Keeps(k, f)'
<1>1. /\ run' = run /\ generation' = generation /\ monitor' = monitor
  BY Frame DEF ClientStep, Progress, StartUp, Deliver, Manual, repository
<1>2. generation \in Nat
  BY DEF TypeOK
<1>3. CASE StartUp(k)
  <2>1. /\ ~client[k].queued /\ ~client[k].running /\ monitor[k].at = "ended"
        /\ request[k] = NoRequest /\ events' = events
    BY <1>3 DEF KeptInv, Booting, StartUp
  <2>2. CASE f \in events[k]
    BY <2>1, <2>2 DEF Keeps
  <2>3. CASE f \notin events[k]
    <3>1. k \in run.startup /\ generation <= Generation0
      BY <2>1, <2>3 DEF Keeps, Queues
    <3>2. Trigger(k, "main", {}, TRUE, FALSE, Generation0)
      BY <1>3, <3>1 DEF StartUp, Generation0
    <3>3. /\ client'[k].queued /\ client'[k].full
          /\ request'[k] = [by |-> "main", manual |-> FALSE, since |-> Generation0]
      <4>1. /\ client'[k].queued /\ client'[k].full = (client[k].full \/ TRUE \/ {} = {})
            /\ request'[k] = IF client[k].running THEN request[k]
                             ELSE [by |-> "main", manual |-> FALSE, since |-> Generation0]
        BY <3>2, TriggerFields
      <4>2. QED
        BY <2>1, <4>1
    <3>4. ~(generation > Generation0)
      BY <1>2, <3>1 DEF Generation0
    <3>5. ~WouldSkip(k)'
      BY <1>1, <2>1, <3>3, <3>4 DEF WouldSkip
    <3>6. QED
      BY <3>3, <3>5 DEF Keeps, Queues
  <2>4. QED
    BY <2>2, <2>3
<1>4. CASE Deliver(k) \/ Manual(k)
  <2>1. PICK by \in {"main", "watcher"}, paths \in SUBSET Files, full \in BOOLEAN, manual \in BOOLEAN :
          /\ Trigger(k, by, paths, full, manual, generation)
          /\ f \in events[k] => full \/ f \in paths \/ f \in events'[k]
    <3>1. CASE Deliver(k)
      <4>1. events[k] \in SUBSET Files
        BY DEF TypeOK
      <4>2. QED
        BY <3>1, <4>1 DEF Deliver
    <3>2. CASE Manual(k)
      <4>1. Trigger(k, "main", {}, TRUE, TRUE, generation)
        BY <3>2 DEF Manual
      <4>2. QED
        BY <4>1
    <3>3. QED
      BY <1>4, <3>1, <3>2
  <2>2. /\ client'[k].queued /\ client'[k].later = client[k].running
        /\ client'[k].full = (client[k].full \/ full \/ paths = {})
        /\ client'[k].full \/ client'[k].paths = client[k].paths \union paths
        /\ request'[k] = IF client[k].running THEN request[k]
                         ELSE [by |-> by, manual |-> manual, since |-> generation]
    BY <2>1, TriggerFields
  <2>3. ~WouldSkip(k)'
    <3>1. CASE client[k].running
      BY <2>2, <3>1 DEF WouldSkip
    <3>2. CASE ~client[k].running
      <4>1. monitor[k].at \notin {"gate", "coordinate", "compare"}
        BY <3>2 DEF Attended, Working, Holding
      <4>2. request'[k].since = generation /\ ~(generation > generation)
        BY <1>2, <2>2, <3>2
      <4>3. QED
        BY <1>1, <4>1, <4>2 DEF WouldSkip
    <3>3. QED
      BY <3>1, <3>2
  <2>4. CASE Queues(k, f) \/ f \in events[k]
    BY <2>1, <2>2, <2>3, <2>4 DEF Keeps, Queues
  <2>5. CASE ~(Queues(k, f) \/ f \in events[k])
    <3>1. phase[k] # "booting"
      BY <1>4 DEF Deliver, Manual, Watching
    <3>2. QED
      BY <1>1, <2>5, <3>1 DEF Keeps, Covers
  <2>6. QED
    BY <2>4, <2>5
<1>5. QED
  BY <1>3, <1>4

(* The steps of a monitor before its runs.                                 *)
KeepsOn(k) ==
  /\ \A f \in stale' \ waived' : Keeps(k, f) => Keeps(k, f)'
  /\ ReliedOn(k)' => \A f \in stale' \ waived' : Keeps(k, f)'

LEMMA WaitingKeeps ==
  ASSUME TypeOK, KeptInv, Attended, NEW k \in Clients,
         StartMonitor(k) \/ PassGate(k) \/ Coordinate(k) \/ SkipDuplicate(k) \/ Proceed(k)
  PROVE  KeepsOn(k)
<1>1. /\ UNCHANGED <<run, generation, phase, events>>
  BY DEF StartMonitor, PassGate, Coordinate, SkipDuplicate, Proceed, repository
<1>2. HolderWorks /\ Booting
  BY DEF KeptInv
<1>3. CASE StartMonitor(k)
  <2>1. /\ client' = client /\ monitor[k].at = "ended" /\ monitor'[k].at = "gate"
        /\ monitor'[k].manual = request[k].manual /\ monitor'[k].since = request[k].since
        /\ request[k] # NoRequest /\ request'[k] = NoRequest
    BY <1>3, MonitorPlaces DEF StartMonitor
  <2>2. WouldSkip(k)' => WouldSkip(k)
    BY <1>1, <2>1 DEF WouldSkip
  <2>3. \A f : Keeps(k, f) => Keeps(k, f)'
    BY <1>1, <2>1, <2>2 DEF Keeps, Queues, Generation0
  <2>4. ~ReliedOn(k)'
    BY <2>1 DEF ReliedOn
  <2>5. QED
    BY <2>3, <2>4 DEF KeepsOn
<1>4. CASE PassGate(k)
  <2>1. /\ client' = client /\ request' = request
        /\ monitor[k].at = "gate" /\ monitor'[k].at = "coordinate"
        /\ monitor'[k].manual = monitor[k].manual /\ monitor'[k].since = monitor[k].since
        /\ monitor'[k].before = generation
    BY <1>4, MonitorPlaces DEF PassGate
  <2>2. WouldSkip(k)' => WouldSkip(k)
    BY <1>1, <2>1 DEF WouldSkip, CompletedSince
  <2>3. \A f : Keeps(k, f) => Keeps(k, f)'
    BY <1>1, <2>1, <2>2 DEF Keeps, Queues, Generation0
  <2>4. ~ReliedOn(k)'
    BY <2>1 DEF ReliedOn
  <2>5. QED
    BY <2>3, <2>4 DEF KeepsOn
<1>5. CASE Coordinate(k)
  <2>1. /\ client' = client /\ request' = request
        /\ monitor[k].at = "coordinate" /\ monitor'[k].at = "compare" /\ SameRun(k)
    BY <1>5, MonitorAtFields DEF Coordinate
  <2>2. WouldSkip(k)' => WouldSkip(k)
    BY <1>1, <2>1 DEF WouldSkip, CompletedSince, SameRun
  <2>3. \A f : Keeps(k, f) => Keeps(k, f)'
    BY <1>1, <2>1, <2>2 DEF Keeps, Queues, Generation0
  <2>4. ~ReliedOn(k)'
    BY <2>1 DEF ReliedOn
  <2>5. QED
    BY <2>3, <2>4 DEF KeepsOn
<1>6. CASE SkipDuplicate(k)
  <2>1. /\ monitor[k].at = "compare" /\ monitor'[k].at = "leaving" /\ SameRun(k)
    BY <1>6, MonitorAtFields DEF SkipDuplicate
  <2>2. WouldSkip(k)
    BY <1>6, <2>1 DEF WouldSkip, SkipDuplicate, CompletedSince
  <2>3. \A f : Keeps(k, f) => Keeps(k, f)'
    BY <1>1, <2>1, <2>2 DEF Keeps, Generation0
  <2>4. ~ReliedOn(k)'
    BY <1>2, <2>1 DEF ReliedOn, HolderWorks, SameRun
  <2>5. QED
    BY <2>3, <2>4 DEF KeepsOn
<1>7. CASE Proceed(k)
  <2>1. /\ client' = client /\ request' = request
        /\ monitor[k].at = "compare" /\ monitor'[k].at = "loop" /\ SameRun(k)
    BY <1>7, MonitorAtFields DEF Proceed
  <2>2. ~WouldSkip(k)'
    <3>1. request'[k] = NoRequest
      BY <2>1 DEF Attended, Working, Holding
    <3>2. QED
      BY <2>1, <3>1 DEF WouldSkip
  <2>3. \A f : Keeps(k, f) => Keeps(k, f)'
    BY <1>1, <2>1, <2>2 DEF Keeps, Queues, Generation0
  <2>4. ~ReliedOn(k)'
    BY <1>2, <2>1 DEF ReliedOn, HolderWorks, SameRun
  <2>5. QED
    BY <2>3, <2>4 DEF KeepsOn
<1>8. QED
  BY <1>3, <1>4, <1>5, <1>6, <1>7

(* ... and those of its runs.                                              *)
LEMMA RunningKeeps ==
  ASSUME TypeOK, KeptInv, Attended, Watchful, NEW k \in run.clients, run.clients \subseteq Clients,
         \/ Take(k) \/ Finish(k) \/ Leave(k) \/ SpawnChild(k) \/ ChildBusy(k) \/ ChildScan(k)
         \/ ChildFails(k)
  PROVE  KeepsOn(k)
<1>1. /\ UNCHANGED <<run, generation, phase, events, request>> /\ k \in Clients
      /\ stale' \subseteq stale /\ stale \subseteq Files
      /\ waived \subseteq waived'
  BY DEF Take, Finish, Leave, SpawnChild, ChildBusy, ChildScan, ChildFails, Fail, repository, TypeOK
<1>2. Kept /\ ReliableRuns /\ HolderWorks /\ Booting /\ StopsWaive /\ FullRuns /\ SeenCovered
  BY DEF KeptInv
<1>3. CASE Take(k)
  <2>1. /\ monitor[k].at = "loop" /\ monitor'[k].at = "spawn" /\ client[k].queued
        /\ client[k].full => monitor'[k].full
        /\ monitor'[k].paths = client[k].paths
    BY <1>1, <1>3, MonitorPlaces DEF Take
  <2>2. \A f : Keeps(k, f) => Keeps(k, f)'
    BY <1>1, <1>2, <2>1 DEF Keeps, Queues, Covers, Booting
  <2>3. ASSUME NEW f \in stale' \ waived' PROVE Keeps(k, f)'
    <3>1. CASE \A c, d \in run.clients : c = d
      <4>1. Keeps(k, f)
        BY <1>1, <1>2, <2>3, <3>1 DEF Kept
      <4>2. QED
        BY <2>2, <4>1
    <3>2. CASE run.edits = 0 \/ run.clients \subseteq run.fullOnly
      <4>1. monitor'[k].full
        BY <1>1, <1>2, <2>1, <3>2 DEF FullRuns
      <4>2. QED
        BY <2>1, <4>1 DEF Keeps, Covers
    <3>3. QED
      BY <3>1, <3>2 DEF Watchful
  <2>4. QED
    BY <2>2, <2>3 DEF KeepsOn
<1>4. CASE Finish(k)
  <2>1. /\ monitor[k].at = "loop" /\ monitor'[k].at = "leaving" /\ SameRun(k)
        /\ SameQueue(k)
    BY <1>1, <1>4, MonitorAtFields, QueueFields DEF Finish
  <2>2. ~WouldSkip(k)'
    <3>1. request'[k] = NoRequest
      BY <1>1, <2>1, NoSkip
    <3>2. QED
      BY <2>1, <3>1 DEF WouldSkip
  <2>3. \A f : Keeps(k, f) => Keeps(k, f)'
    BY <1>1, <2>1, <2>2 DEF Keeps, Queues, SameQueue, Generation0
  <2>4. ReliedOn(k)' => ReliedOn(k)
    BY <2>1 DEF ReliedOn, SameRun
  <2>5. QED
    BY <1>1, <1>2, <2>3, <2>4 DEF KeepsOn, ReliableRuns
<1>5. CASE Leave(k)
  <2>1. /\ monitor[k].at = "leaving" /\ monitor'[k].at = "ended" /\ client' = client
    <3>1. monitor'[k] = Ended /\ monitor[k].at = "leaving" /\ client' = client
      BY <1>1, <1>5, MonitorPlaces DEF Leave
    <3>2. QED
      BY <3>1 DEF Ended
  <2>2. WouldSkip(k)' => WouldSkip(k)
    BY <1>1, <2>1 DEF WouldSkip
  <2>3. \A f : Keeps(k, f) => Keeps(k, f)'
    BY <1>1, <2>1, <2>2 DEF Keeps, Queues, Generation0
  <2>4. ~ReliedOn(k)'
    BY <2>1 DEF ReliedOn
  <2>5. QED
    BY <2>3, <2>4 DEF KeepsOn
<1>6. CASE SpawnChild(k) \/ ChildScan(k)
  <2>1. /\ client' = client /\ monitor'[k].full = monitor[k].full
        /\ monitor'[k].paths = monitor[k].paths
        /\ \/ monitor[k].at = "spawn" /\ monitor'[k].at = "scan"
           \/ /\ monitor[k].at = "scan" /\ monitor'[k].at = "index"
              /\ monitor'[k].seen = {f \in Files : Covers(k, f)}
    <3>1. CASE SpawnChild(k)
      BY <1>1, <3>1, MonitorAtFields DEF SpawnChild, SameRun
    <3>2. CASE ChildScan(k)
      BY <1>1, <3>2, MonitorPlaces DEF ChildScan
    <3>3. QED
      BY <1>6, <3>1, <3>2
  <2>2. ~WouldSkip(k)'
    <3>1. request'[k] = NoRequest
      BY <1>1, <2>1, NoSkip
    <3>2. QED
      BY <2>1, <3>1 DEF WouldSkip
  <2>3. \A f \in Files : Keeps(k, f) => Keeps(k, f)'
    BY <1>1, <2>1, <2>2 DEF Keeps, Queues, Covers, Generation0
  <2>4. ReliedOn(k)
    BY <2>1 DEF ReliedOn
  <2>5. QED
    BY <1>1, <1>2, <2>3, <2>4 DEF KeepsOn, ReliableRuns
<1>7. CASE ChildBusy(k) \/ ChildFails(k)
  <2>1. /\ client' = client /\ monitor[k].at \in {"spawn", "scan", "index"}
        /\ waived' = waived \union {f \in Files : Covers(k, f)}
        /\ monitor'[k].at = "loop"
    BY <1>1, <1>7, FailFields DEF ChildBusy, ChildFails, Fail
  <2>2. ~WouldSkip(k)'
    <3>1. request'[k] = NoRequest
      BY <1>1, <2>1, NoSkip
    <3>2. QED
      BY <2>1, <3>1 DEF WouldSkip
  <2>3. ASSUME NEW f \in stale' \ waived', Keeps(k, f) PROVE Keeps(k, f)'
    <3>1. ~Covers(k, f) /\ (monitor[k].at = "index" => f \notin monitor[k].seen)
      BY <1>1, <1>2, <2>1, <2>3 DEF SeenCovered
    <3>2. QED
      BY <1>1, <2>1, <2>2, <2>3, <3>1 DEF Keeps, Queues, Generation0
  <2>4. ReliedOn(k)
    BY <2>1 DEF ReliedOn
  <2>5. QED
    BY <1>1, <1>2, <2>3, <2>4 DEF KeepsOn, ReliableRuns
<1>8. QED
  BY <1>3, <1>4, <1>5, <1>6, <1>7

(* The work is left to a client that is relied on.                         *)
LEMMA CoalesceKeeps ==
  ASSUME TypeOK, KeptInv, Watchful, NEW k \in run.clients, run.clients \subseteq Clients,
         Coalesce(k)
  PROVE  Kept' /\ ReliableRuns'
<1>1. /\ run' = run /\ Others(k) /\ generation' = generation
      /\ stale' = stale /\ waived' = waived
  BY Frame DEF ClientStep, Monitor, Coalesce, repository
<1>2. /\ monitor[k].at = "coordinate" /\ monitor'[k].at = "leaving" /\ SameRun(k)
  BY MonitorAtFields DEF Coalesce
<1>3. Outsiders /\ HolderWorks /\ ReliableRuns
  BY DEF KeptInv
<1>4. ~ReliedOn(k)'
  BY <1>2, <1>3 DEF ReliedOn, HolderWorks, SameRun
<1>5. PICK y \in Clients : coordination = y
  BY DEF Coalesce, LongHeld, TypeOK
<1>6. monitor[y].at \in Holding \union {"leaving"} /\ y # k
  BY <1>2, <1>3, <1>5 DEF HolderWorks, Holding
<1>7. y \in run.clients
  BY <1>3, <1>6 DEF Outsiders, Holding
<1>8. ReliedOn(y)
  <2>1. monitor[y].at \in {"spawn", "scan", "index"} \/ ~monitor[y].first
    BY <1>5 DEF Coalesce, LongHeld
  <2>2. QED
    BY <1>3, <1>6, <2>1 DEF ReliedOn, HolderWorks, Holding
<1>9. QED
  BY <1>1, <1>3, <1>4, <1>6, <1>7, <1>8, KeptByAnother

(* A run that ends well makes duplicates of the triggers of others: what   *)
(* it has not read, its own client has been told of.                       *)
LEMMA ChildDoneKeeps ==
  ASSUME TypeOK, Coordinated, Attended, KeptInv, NEW k \in run.clients,
         run.clients \subseteq Clients, ChildDone(k)
  PROVE  Kept' /\ ReliableRuns'
<1>1. /\ UNCHANGED <<run, phase, events, request, client>> /\ waived' = waived
      /\ monitor[k].at = "index" /\ stale' = stale \ monitor[k].seen /\ coordination' = coordination
      /\ Others(k)
  BY Frame DEF ClientStep, Monitor, ChildDone
<1>2. monitor'[k].at = "loop"
  BY FailFields DEF ChildDone
<1>3. ReliableRuns /\ Booting /\ HolderWorks
  BY DEF KeptInv
<1>4. ~WouldSkip(k)'
  <2>1. request'[k] = NoRequest
    BY <1>1, NoSkip
  <2>2. QED
    BY <1>2, <2>1 DEF WouldSkip
<1>5. ASSUME NEW f \in stale' \ waived' PROVE Keeps(k, f)'
  <2>1. Keeps(k, f) /\ f \notin monitor[k].seen
    BY <1>1, <1>3, <1>5 DEF ReliableRuns, ReliedOn
  <2>2. f \in events[k] \/ Queues(k, f)
    BY <1>1, <1>3, <2>1 DEF Keeps, Booting
  <2>3. QED
    BY <1>1, <1>4, <2>2 DEF Keeps, Queues
<1>6. Kept'
  BY <1>1, <1>5 DEF Kept
<1>7. ReliableRuns'
  <2>1. coordination = k
    BY <1>1 DEF Coordinated, Holding
  <2>2. ASSUME NEW c \in run.clients, c # k, ReliedOn(c)' PROVE FALSE
    <3>1. ReliedOn(c)
      BY <1>1, <2>2 DEF Others, ReliedOn
    <3>2. coordination = c
      BY <1>3, <3>1, ReliedOnHolds
    <3>3. QED
      BY <2>1, <2>2, <3>2
  <2>3. QED
    BY <1>1, <1>5, <2>2 DEF ReliableRuns
<1>8. QED
  BY <1>6, <1>7

LEMMA KeptClientStep ==
  ASSUME IInv, KeptInv, Watchful, NEW k \in Clients, ClientStep(k)
  PROVE  KeptInv'
<1> USE DEF IInv
<1>1. /\ Outsiders' /\ Booting' /\ StopsWaive' /\ HolderWorks' /\ SeenCovered' /\ FullRuns'
      /\ stale' \ waived' \subseteq stale \ waived
      /\ k \in run.clients \/ UNCHANGED <<monitor, client, request, phase, events,
                                          stale, waived, generation, coordination>>
  BY OutsidersStep, BootingStep, StopsWaiveStep, HolderStep, SeenCoveredStep, FullRunsStep
     DEF KeptInv
<1>2. run' = run /\ Others(k)
  BY Frame
<1>3. run.clients \subseteq Clients
  BY RunType DEF TypeOK
<1>4. Kept /\ ReliableRuns /\ StopsWaive
  BY DEF KeptInv
<1>5. CASE stale' \subseteq waived'
  BY <1>1, <1>5 DEF KeptInv, Kept, ReliableRuns
<1>6. CASE UNCHANGED <<monitor, client, request, phase, events, stale, waived, generation>>
  <2>1. \A c : \A f : Keeps(c, f)' <=> Keeps(c, f)
    BY <1>2, <1>6 DEF Keeps, Queues, WouldSkip, CompletedSince, Covers, Generation0
  <2>2. \A c : ReliedOn(c)' <=> ReliedOn(c)
    BY <1>6 DEF ReliedOn
  <2>3. QED
    BY <1>1, <1>2, <1>4, <1>6, <2>1, <2>2 DEF KeptInv, Kept, ReliableRuns
<1>7. CASE k \in run.clients /\ KeepsOn(k) /\ generation' = generation
  <2>1. Kept' /\ ReliableRuns'
    BY <1>1, <1>2, <1>3, <1>4, <1>7, KeptMoves DEF KeepsOn
  <2>2. QED
    BY <1>1, <2>1 DEF KeptInv
<1>8. CASE k \in run.clients /\ (StartUp(k) \/ Deliver(k) \/ Manual(k))
  <2>1. \A f : Keeps(k, f) => Keeps(k, f)'
    BY <1>8, TriggerKeeps
  <2>2. generation' = generation /\ monitor' = monitor
    BY <1>8 DEF StartUp, Deliver, Manual, repository
  <2>3. ReliedOn(k)' => ReliedOn(k)
    BY <2>2 DEF ReliedOn
  <2>4. QED
    BY <1>1, <1>4, <1>7, <1>8, <2>1, <2>2, <2>3 DEF KeepsOn, ReliableRuns
<1>9. CASE k \in run.clients /\ StartWatching(k)
  <2>1. /\ UNCHANGED <<run, generation, events, client, request, monitor>> /\ phase[k] # "booting"
    BY <1>9 DEF StartWatching, repository
  <2>2. \A f : Keeps(k, f) => Keeps(k, f)'
    BY <2>1 DEF Keeps, Queues, WouldSkip, CompletedSince, Covers, Generation0
  <2>3. ReliedOn(k)' => ReliedOn(k)
    BY <2>1 DEF ReliedOn
  <2>4. QED
    BY <1>1, <1>4, <1>7, <1>9, <2>1, <2>2, <2>3 DEF KeepsOn, ReliableRuns
<1>10. CASE Stop(k) \/ Throw(k) \/ LeaveGate(k)
  <2>1. stale' \subseteq waived'
    BY <1>4, <1>10 DEF Stop, Throw, LeaveGate, repository, StopsWaive
  <2>2. QED
    BY <1>5, <2>1
<1>11. CASE JobStarts(k) \/ JobEnds(k)
  BY <1>6, <1>11 DEF JobStarts, JobEnds, repository
<1>12. CASE /\ k \in run.clients
            /\ \/ StartMonitor(k) \/ PassGate(k) \/ Coordinate(k) \/ SkipDuplicate(k) \/ Proceed(k)
               \/ Take(k) \/ Finish(k) \/ Leave(k) \/ SpawnChild(k) \/ ChildBusy(k) \/ ChildScan(k)
               \/ ChildFails(k)
  <2>1. KeepsOn(k)
    BY <1>3, <1>12, WaitingKeeps, RunningKeeps
  <2>2. generation' = generation
    BY <1>12 DEF StartMonitor, PassGate, Coordinate, SkipDuplicate, Proceed, Take, Finish, Leave,
                 SpawnChild, ChildBusy, ChildScan, ChildFails, repository
  <2>3. QED
    BY <1>7, <1>12, <2>1, <2>2
<1>13. CASE k \in run.clients /\ (Coalesce(k) \/ ChildDone(k))
  <2>1. Kept' /\ ReliableRuns'
    BY <1>3, <1>13, CoalesceKeeps, ChildDoneKeeps
  <2>2. QED
    BY <1>1, <2>1 DEF KeptInv
<1>14. QED
  BY <1>1, <1>6, <1>8, <1>9, <1>10, <1>11, <1>12, <1>13 DEF ClientStep, Progress, Monitor

(* An edit is told to every client.                                        *)
LEMMA KeptEdit ==
  ASSUME IInv, KeptInv, Watchful, NEW g \in Files, Edit(g)
  PROVE  KeptInv'
<1> USE DEF IInv
<1>1. /\ \A c \in Clients : /\ monitor'[c].at = monitor[c].at
                            /\ monitor'[c].first = monitor[c].first
                            /\ monitor'[c].manual = monitor[c].manual
                            /\ monitor'[c].since = monitor[c].since
                            /\ monitor'[c].before = monitor[c].before
                            /\ monitor'[c].full = monitor[c].full
                            /\ monitor'[c].paths = monitor[c].paths
                            /\ monitor'[c].seen = monitor[c].seen \ {g}
      /\ UNCHANGED <<run, generation, phase, client, request, coordination, waived>>
  BY EditFields DEF locks
<1>2. run.clients \subseteq Clients
  BY RunType DEF TypeOK
<1>3. run.edits # 0 /\ stale' = stale \union {g}
  <2>1. left.edits # 0
    BY DEF Edit, May
  <2>2. QED
    BY <2>1 DEF KeptInv, FullRuns, Edit
<1>4. \A c \in run.clients : phase[c] = "watching" /\ events'[c] = events[c] \union {g}
  BY <1>2 DEF Edit, Watchful, Watching
<1>5. Outsiders' /\ Booting' /\ HolderWorks' /\ SeenCovered'
  BY <1>1 DEF KeptInv, Outsiders, Booting, HolderWorks, SeenCovered, Covers
<1>6. StopsWaive'
  BY <1>1, <1>4 DEF KeptInv, Outsiders, StopsWaive
<1>7. FullRuns'
  BY <1>1, <1>3 DEF KeptInv, FullRuns
<1>8. ASSUME NEW c \in run.clients PROVE Keeps(c, g)'
  BY <1>4, <1>8 DEF Keeps
<1>9. ASSUME NEW c \in run.clients, NEW f, f # g, Keeps(c, f) PROVE Keeps(c, f)'
  <2>1. WouldSkip(c)' <=> WouldSkip(c)
    BY <1>1, <1>2 DEF WouldSkip, CompletedSince
  <2>2. QED
    BY <1>1, <1>2, <1>4, <1>9, <2>1 DEF Keeps, Queues, Covers, Generation0
<1>10. Kept'
  BY <1>1, <1>3, <1>8, <1>9 DEF KeptInv, Kept, Watchful
<1>11. ReliableRuns'
  <2>1. \A c \in run.clients : ReliedOn(c)' => ReliedOn(c)
    BY <1>1, <1>2 DEF ReliedOn
  <2>2. QED
    BY <1>1, <1>3, <1>8, <1>9, <2>1 DEF KeptInv, ReliableRuns
<1>12. QED
  BY <1>5, <1>6, <1>7, <1>10, <1>11 DEF KeptInv

LEMMA KeptInit == Init /\ Watchful => KeptInv
<1> SUFFICES ASSUME Init, Watchful PROVE KeptInv
  OBVIOUS
<1>1. /\ \A c \in Clients : /\ phase[c] = (IF c \in run.clients THEN "booting" ELSE "off")
                            /\ events[c] = {} /\ request[c] = NoRequest
                            /\ ~client[c].queued /\ ~client[c].running
                            /\ monitor[c] = Ended
      /\ coordination = Nobody /\ stale = run.stale /\ generation = Generation0
      /\ left.edits = run.edits
  BY DEF Init, Generation0
<1>2. \A c \in Clients : monitor[c].at = "ended"
  BY <1>1 DEF Ended
<1>3. run.clients \subseteq Clients
  BY InitType, RunType DEF TypeOK
<1>4. Outsiders /\ Booting /\ StopsWaive /\ HolderWorks /\ SeenCovered /\ FullRuns
  BY <1>1, <1>2, ClientAssumption
     DEF Outsiders, Booting, StopsWaive, HolderWorks, SeenCovered, FullRuns
<1>5. Kept
  <2>1. generation <= Generation0
    BY <1>1 DEF Generation0
  <2>2. QED
    BY <1>1, <1>3, <2>1 DEF Kept, Keeps, Watchful
<1>6. ReliableRuns
  BY <1>2, <1>3 DEF ReliableRuns, ReliedOn
<1>7. QED
  BY <1>4, <1>5, <1>6 DEF KeptInv

LEMMA KeptIsNotForgotten ==
  ASSUME TypeOK, Kept, run.clients \subseteq Clients PROVE NothingForgotten
<1>1. ASSUME NEW c \in run.clients, NEW f, Keeps(c, f) PROVE Answers(c, f)
  BY <1>1 DEF Keeps, Answers, Queues
<1>2. QED
  BY <1>1 DEF Kept, NothingForgotten

LEMMA KeptStep ==
  ASSUME IInv, Watchful => KeptInv, [Next]_vars PROVE (Watchful => KeptInv)'
<1>1. run' = run
  BY DEF Next, Progress, Monitor, Edit, StartUp, StartWatching, Deliver, JobEnds,
         Manual, Stop, JobStarts, ChildFails, Throw, StartMonitor, PassGate,
         LeaveGate, Coordinate, Coalesce, SkipDuplicate, Proceed, Take, Finish,
         Leave, SpawnChild, ChildBusy, ChildScan, ChildDone, CliStarts, CliEnds, vars
<1>2. Watchful' <=> Watchful
  BY <1>1 DEF Watchful
<1>3. ASSUME Watchful PROVE KeptInv'
  <2>1. KeptInv
    BY <1>3
  <2>2. CASE UNCHANGED vars
    BY <2>1, <2>2
       DEF vars, repository, locks, KeptInv, Outsiders, Booting, StopsWaive, HolderWorks,
           SeenCovered, Covers, FullRuns, Kept, ReliableRuns, ReliedOn, Keeps, Queues, WouldSkip,
           CompletedSince, Generation0
  <2>3. QED
    BY <1>3, <2>1, <2>2, NextCases, KeptEdit, KeptClientStep DEF IInv
<1>4. QED
  BY <1>2, <1>3

(* Where everybody watches, no change is forgotten, however triggers       *)
(* coalesce, with a run of their own client or with another client, and    *)
(* whatever fails: trigger() and its monitor in reindex.h:75-210.          *)
THEOREM ChangesAreKept == Spec => [](Watchful => NothingForgotten)
<1>1. Init => IInv /\ (Watchful => KeptInv)
  BY InitIInv, KeptInit
<1>2. IInv /\ (Watchful => KeptInv) /\ [Next]_vars => IInv' /\ (Watchful => KeptInv)'
  BY IInvStep, KeptStep
<1>3. IInv /\ (Watchful => KeptInv) => (Watchful => NothingForgotten)
  BY KeptIsNotForgotten, RunType DEF KeptInv, IInv, TypeOK
<1>4. QED
  BY <1>1, <1>2, <1>3, PTL DEF Spec

=============================================================================
