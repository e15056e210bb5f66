------------------------------ MODULE FileLock ------------------------------
(***************************************************************************)
(* The PID lock file of src/src/util/lock.h that serialises the writers of *)
(* one index: the CLI indexer, its supervisor and the MCP servers.         *)
(*                                                                         *)
(* Several processes run acquire(), acquire_blocking(), release() and the  *)
(* read-only probe held_by_live_process() on one path.  Each system call   *)
(* is a step of its own, so a process may be overtaken, or die, between    *)
(* any two of them.  The two builds differ in what remove() does:          *)
(*   Windows    the creator keeps its handle open (no delete sharing), and *)
(*              a file that anyone has open cannot be removed;             *)
(*   POSIX      unlink removes the name whoever has it open, and a PID may *)
(*              be written to an unlinked inode.                           *)
(* A behaviour runs in one scenario: a build, and what may go wrong.       *)
(***************************************************************************)
EXTENDS Naturals, FiniteSets

CONSTANTS
  Procs,      \* the processes, each identified with its PID
  NoPid,      \* what read_pid() yields for an empty or missing file (0)
  Scenarios   \* the builds and faults considered

ASSUME ProcsAssumption == NoPid \notin Procs
ASSUME ScenariosAssumption ==
  Scenarios \subseteq
    [windows  : BOOLEAN,        \* which build of lock.h runs
     mortal   : SUBSET Procs,   \* the processes that may exit or be killed
     pidReuse : BOOLEAN,        \* may a dead process's PID be given out again?
     diskFull : BOOLEAN]        \* may writing the PID fail?

VARIABLES
  run,        \* the scenario of this behaviour
  file,       \* the lock file: Absent, or its creator and the PID written in it
  alive,      \* the processes that run
  handle,     \* the processes whose creation handle is open (Windows only)
  pc,         \* where each process is
  op,         \* the operation it runs
  pid,        \* what its last read_pid() returned
  overlap     \* history: for a probe, the processes that held the lock all along

vars == <<run, file, alive, handle, pc, op, pid, overlap>>

Windows  == run.windows
Mortal   == run.mortal
PidReuse == run.pidReuse
DiskFull == run.diskFull

Absent   == [by |-> NoPid, pid |-> NoPid]
Present  == file # Absent

Steps ==
  {"idle", "exists", "open", "read", "check", "break", "create", "reopen",
   "reread", "write", "held", "waiting", "unlink", "discard"}

Operations == {"none", "acquire", "blocking", "probe"}

(* Processes that have the file open for reading (Windows: it then stays). *)
Reading == {q \in Procs : pc[q] \in {"read", "reread"}}

(* The processes inside the section the lock protects.                     *)
Critical == {q \in Procs : pc[q] = "held"}

(* Every variable has its type, and only a PID that was read is checked    *)
(* for life: an empty file is a creator that has not written its PID yet.  *)
TypeOK ==
  /\ run \in Scenarios
  /\ file \in [by : Procs \union {NoPid}, pid : Procs \union {NoPid}]
  /\ alive \in SUBSET Procs
  /\ handle \in SUBSET Procs
  /\ pc \in [Procs -> Steps]
  /\ op \in [Procs -> Operations]
  /\ pid \in [Procs -> Procs \union {NoPid}]
  /\ overlap \in [Procs -> SUBSET Procs]
  /\ \A p \in Procs : (pc[p] \in {"check", "break"}) <=> (pid[p] # NoPid)

Init ==
  /\ run \in Scenarios
  /\ file = Absent
  /\ alive = Procs
  /\ handle = {}
  /\ pc = [p \in Procs |-> "idle"]
  /\ op = [p \in Procs |-> "none"]
  /\ pid = [p \in Procs |-> NoPid]
  /\ overlap = [p \in Procs |-> {}]

(* Process p moves on; back at "idle" its operation is over.               *)
Goto(p, from, to) ==
  /\ p \in alive
  /\ pc[p] \in from
  /\ pc' = [pc EXCEPT ![p] = to]
  /\ op' = IF to = "idle" THEN [op EXCEPT ![p] = "none"] ELSE op

(* std::filesystem::remove would succeed on the file that is there now.    *)
Removable == Present /\ (Windows => handle = {} /\ Reading = {})

Remove == file' = IF Removable THEN Absent ELSE file

(* A failed acquire(): acquire_blocking() goes on to wait only when the    *)
(* failure named a holder.                                                 *)
AfterFailure(p, holder) ==
  IF op[p] = "blocking" /\ holder # NoPid THEN "waiting" ELSE "idle"

-----------------------------------------------------------------------------
(* Variants of the code's steps, each with one line of it got wrong.       *)

(* Creation without O_EXCL: an existing lock file is overwritten.          *)
NonExclusiveCreate(p) ==
  /\ Goto(p, {"create"}, "write")
  /\ file' = [by |-> p, pid |-> NoPid]
  /\ handle' = IF Windows THEN handle \union {p} ELSE handle
  /\ UNCHANGED <<alive, pid, overlap>>

(* The creator closes its handle once it has the lock.                     *)
HandleDroppedCreate(p) ==
  /\ Goto(p, {"create"}, IF Present THEN "reopen" ELSE "write")
  /\ file' = IF Present THEN file ELSE [by |-> p, pid |-> NoPid]
  /\ UNCHANGED <<alive, handle, pid, overlap>>

(* An empty file is taken for a stale one.                                 *)
EmptyIsStaleReadPid(p) ==
  /\ Present
  /\ Goto(p, IF Windows THEN {"read"} ELSE {"open"}, "check")
  /\ pid' = [pid EXCEPT ![p] = file.pid]
  /\ UNCHANGED <<file, alive, handle, overlap>>

(* release() forgets to remove the file.                                   *)
ForgetfulUnlink(p) ==
  /\ Goto(p, {"unlink", "discard"}, "idle")
  /\ UNCHANGED <<file, alive, handle, pid, overlap>>

(* acquire_blocking() waits without a deadline.                            *)
NoDeadline(p) == FALSE /\ UNCHANGED vars

-----------------------------------------------------------------------------
(* The calls a caller can make.                                            *)

Call(p, o) ==
  /\ p \in alive
  /\ pc[p] = "idle"
  /\ pc' = [pc EXCEPT ![p] = "exists"]
  /\ op' = [op EXCEPT ![p] = o]
  /\ overlap' = [overlap EXCEPT ![p] = IF o = "probe" THEN Critical ELSE {}]
  /\ UNCHANGED <<file, alive, handle, pid>>

Exists(p) ==
  /\ Goto(p, {"exists"}, IF Present THEN "open"
                         ELSE IF op[p] = "probe" THEN "idle" ELSE "create")
  /\ UNCHANGED <<file, alive, handle, pid, overlap>>

(* read_pid() opens the file.  POSIX: the inode's contents are as of now;  *)
(* Windows: the open handle keeps the file from being removed.             *)
OpenFile(p) ==
  /\ Windows
  /\ Present
  /\ \/ Goto(p, {"open"}, "read")
     \/ Goto(p, {"reopen"}, "reread")
  /\ UNCHANGED <<file, alive, handle, pid, overlap>>

(* The file has gone: the stream yields 0, as for an empty file.           *)
ReadGone(p) ==
  /\ ~Present
  /\ Goto(p, {"open", "reopen"}, "idle")
  /\ UNCHANGED <<file, alive, handle, pid, overlap>>

(* The first read of acquire(), or the probe's: no PID ends the call.      *)
ReadPid(p) ==
  /\ Present
  /\ Goto(p, IF Windows THEN {"read"} ELSE {"open"},
             IF file.pid = NoPid THEN "idle" ELSE "check")
  /\ pid' = [pid EXCEPT ![p] = file.pid]
  /\ UNCHANGED <<file, alive, handle, overlap>>

(* is_process_alive() looks at the process table after the file was read.  *)
CheckAlive(p) ==
  /\ Goto(p, {"check"}, IF op[p] = "probe" THEN "idle"
                        ELSE IF pid[p] \in alive THEN AfterFailure(p, pid[p])
                        ELSE "break")
  /\ pid' = IF pc'[p] = "break" THEN pid ELSE [pid EXCEPT ![p] = NoPid]
  /\ UNCHANGED <<file, alive, handle, overlap>>

(* Break what was seen to be stale, by path.                               *)
BreakStale(p) ==
  /\ Goto(p, {"break"}, IF Removable THEN "create" ELSE "idle")
  /\ Remove
  /\ pid' = [pid EXCEPT ![p] = NoPid]
  /\ UNCHANGED <<alive, handle, overlap>>

(* O_CREAT | O_EXCL, CREATE_NEW.                                           *)
Create(p) ==
  /\ Goto(p, {"create"}, IF Present THEN "reopen" ELSE "write")
  /\ file' = IF Present THEN file ELSE [by |-> p, pid |-> NoPid]
  /\ handle' = IF Windows /\ ~Present THEN handle \union {p} ELSE handle
  /\ UNCHANGED <<alive, pid, overlap>>

(* Creation failed: holder_pid_ = read_pid(), whatever that file says.     *)
RereadPid(p) ==
  /\ Present
  /\ Goto(p, IF Windows THEN {"reread"} ELSE {"reopen"},
             AfterFailure(p, file.pid))
  /\ UNCHANGED <<file, alive, handle, pid, overlap>>

(* The PID goes to the inode this process created, linked or not.          *)
WritePid(p) ==
  /\ Goto(p, {"write"}, "held")
  /\ file' = IF file.by = p THEN [file EXCEPT !.pid = p] ELSE file
  /\ UNCHANGED <<alive, handle, pid, overlap>>

(* The write came up short: close, then remove by path.                    *)
WriteFails(p) ==
  /\ DiskFull
  /\ Goto(p, {"write"}, "discard")
  /\ handle' = handle \ {p}
  /\ UNCHANGED <<file, alive, pid, overlap>>

(* release(): CloseHandle first on Windows ...                             *)
Release(p) ==
  /\ Goto(p, {"held"}, "unlink")
  /\ handle' = handle \ {p}
  /\ overlap' = [q \in Procs |-> overlap[q] \ {p}]
  /\ UNCHANGED <<file, alive, pid>>

(* ... then remove, whose error is ignored.                                *)
Unlink(p) ==
  /\ Goto(p, {"unlink", "discard"}, "idle")
  /\ Remove
  /\ UNCHANGED <<alive, handle, pid, overlap>>

(* acquire_blocking(): poll until the deadline.                            *)
Poll(p) ==
  /\ Goto(p, {"waiting"}, "exists")
  /\ UNCHANGED <<file, alive, handle, pid, overlap>>

Deadline(p) ==
  /\ Goto(p, {"waiting"}, "idle")
  /\ UNCHANGED <<file, alive, handle, pid, overlap>>

(* A process ends, from any point: the system closes its handles.          *)
Die(p) ==
  /\ p \in Mortal \intersect alive
  /\ alive' = alive \ {p}
  /\ handle' = handle \ {p}
  /\ pc' = [pc EXCEPT ![p] = "idle"]
  /\ op' = [op EXCEPT ![p] = "none"]
  /\ pid' = [pid EXCEPT ![p] = NoPid]
  /\ overlap' = [q \in Procs |-> overlap[q] \ {p}]
  /\ UNCHANGED file

(* A new process receives the PID of a dead one.                           *)
Reuse(p) ==
  /\ PidReuse
  /\ p \in Procs \ alive
  /\ alive' = alive \union {p}
  /\ UNCHANGED <<file, handle, pc, op, pid, overlap>>

-----------------------------------------------------------------------------
(* What a process does once it has called in.                              *)
Continue(p) ==
  \/ Exists(p) \/ OpenFile(p) \/ ReadGone(p) \/ ReadPid(p) \/ CheckAlive(p)
  \/ BreakStale(p) \/ Create(p) \/ RereadPid(p) \/ WritePid(p) \/ WriteFails(p)
  \/ Release(p) \/ Unlink(p) \/ Poll(p) \/ Deadline(p)

Next ==
  /\ \E p \in Procs :
       \/ \E o \in {"acquire", "blocking", "probe"} : Call(p, o)
       \/ Continue(p)
       \/ Die(p)
       \/ Reuse(p)
  /\ UNCHANGED run

Spec == Init /\ [][Next]_vars

(* A process inside an operation is scheduled, and a critical section ends. *)
(* The clock passes every deadline of acquire_blocking().                   *)
FairSpec ==
  Spec /\ \A p \in Procs : /\ WF_vars(Continue(p) /\ UNCHANGED run)
                           /\ SF_vars(Deadline(p) /\ UNCHANGED run)

-----------------------------------------------------------------------------
(* Properties.                                                             *)

(* Writer admission has exactly one owner: acquire() has returned true for *)
(* at most one process that has not yet called release().                  *)
MutualExclusion == \A p, q \in Critical : p = q

(* held_by_live_process() answers "no writer" only if at some moment of    *)
(* the probe no process held the lock: health never reports a writer that  *)
(* was there throughout as absent.                                         *)
ProbeSaysFree(p) ==
  /\ op[p] = "probe" /\ pc'[p] = "idle" /\ p \in alive'
  /\ pc[p] = "exists" \/ (pc[p] = "check" /\ pid[p] \notin alive)

ProbeSound == [][\A p \in Procs : ProbeSaysFree(p) => overlap'[p] = {}]_vars

(* The lock file exists only while its creator, alive, is between creating *)
(* it and removing it: release() leaves nothing that turns writers away.   *)
(* (POSIX, and no process ends: on Windows the removal may fail.)          *)
Undisturbed == ~Windows /\ Mortal = {}

NoOrphan ==
  Undisturbed /\ Present =>
    pc[file.by] \in {"write", "held", "unlink", "discard"}

(* acquire_blocking() returns, whatever the others do.                     *)
BlockingReturns ==
  \A p \in Procs : (op[p] = "blocking") ~> (pc[p] \in {"idle", "held"})

(* When critical sections end, the lock does not stay taken for ever: what *)
(* release() leaves behind never turns all later writers away.             *)
LockIsFreed == []<>(Undisturbed => ~Present)
=============================================================================
