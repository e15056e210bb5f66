--------------------------- MODULE FileLockProofs ---------------------------
(***************************************************************************)
(* Theorems about FileLock, for any set of processes.                      *)
(*                                                                         *)
(* Windows build: mutual exclusion whatever dies, and with PID reuse and   *)
(* failing writes.  POSIX build: mutual exclusion and no orphaned lock     *)
(* file as long as no process ends.                                        *)
(***************************************************************************)
EXTENDS FileLock, TLAPS

(* Each sub-action of Next, under one name.                                *)
ProcStep(p) ==
  \/ \E o \in {"acquire", "blocking", "probe"} : Call(p, o)
  \/ Continue(p)
  \/ Die(p)
  \/ Reuse(p)

LEMMA NextIsProcStep == ASSUME [Next]_vars
                        PROVE  /\ run' = run
                               /\ (\E p \in Procs : ProcStep(p)) \/ UNCHANGED vars
  BY DEF Next, ProcStep, vars

-----------------------------------------------------------------------------
(* TypeOK is an invariant: in particular acquire() never looks up, or      *)
(* breaks the lock of, a PID it did not read.                              *)
THEOREM TypeCorrect == Spec => []TypeOK
<1>1. Init => TypeOK
  BY ProcsAssumption DEF Init, TypeOK, Absent, Steps, Operations
<1>2. TypeOK /\ [Next]_vars => TypeOK'
  <2> SUFFICES ASSUME TypeOK, [Next]_vars
               PROVE  TypeOK'
    OBVIOUS
  <2>0. run' \in Scenarios
    BY NextIsProcStep DEF TypeOK
  <2> USE ProcsAssumption, <2>0 DEF TypeOK, Steps, Operations, Goto, Absent, Present
  <2>1. ASSUME NEW p \in Procs, NEW o \in {"acquire", "blocking", "probe"},
               Call(p, o)
        PROVE  TypeOK'
    BY <2>1 DEF Call, Critical
  <2>2. ASSUME NEW p \in Procs, Exists(p)
        PROVE  TypeOK'
    BY <2>2 DEF Exists
  <2>3. ASSUME NEW p \in Procs, OpenFile(p)
        PROVE  TypeOK'
    BY <2>3 DEF OpenFile
  <2>4. ASSUME NEW p \in Procs, ReadGone(p)
        PROVE  TypeOK'
    BY <2>4 DEF ReadGone
  <2>5. ASSUME NEW p \in Procs, ReadPid(p)
        PROVE  TypeOK'
    BY <2>5 DEF ReadPid
  <2>6. ASSUME NEW p \in Procs, CheckAlive(p)
        PROVE  TypeOK'
    BY <2>6 DEF CheckAlive, AfterFailure
  <2>7. ASSUME NEW p \in Procs, BreakStale(p)
        PROVE  TypeOK'
    BY <2>7 DEF BreakStale, Remove
  <2>8. ASSUME NEW p \in Procs, Create(p)
        PROVE  TypeOK'
    BY <2>8 DEF Create
  <2>9. ASSUME NEW p \in Procs, RereadPid(p)
        PROVE  TypeOK'
    BY <2>9 DEF RereadPid, AfterFailure
  <2>10. ASSUME NEW p \in Procs, WritePid(p)
         PROVE  TypeOK'
    BY <2>10 DEF WritePid
  <2>11. ASSUME NEW p \in Procs, WriteFails(p)
         PROVE  TypeOK'
    BY <2>11 DEF WriteFails
  <2>12. ASSUME NEW p \in Procs, Release(p)
         PROVE  TypeOK'
    BY <2>12 DEF Release
  <2>13. ASSUME NEW p \in Procs, Unlink(p)
         PROVE  TypeOK'
    BY <2>13 DEF Unlink, Remove
  <2>14. ASSUME NEW p \in Procs, Poll(p) \/ Deadline(p)
         PROVE  TypeOK'
    BY <2>14 DEF Poll, Deadline
  <2>15. ASSUME NEW p \in Procs, Die(p)
         PROVE  TypeOK'
    BY <2>15 DEF Die
  <2>16. ASSUME NEW p \in Procs, Reuse(p)
         PROVE  TypeOK'
    BY <2>16 DEF Reuse
  <2>17. CASE UNCHANGED vars
    BY <2>17 DEF vars
  <2>18. QED
    BY NextIsProcStep, <2>1, <2>2, <2>3, <2>4, <2>5, <2>6, <2>7, <2>8, <2>9,
       <2>10, <2>11, <2>12, <2>13, <2>14, <2>15, <2>16, <2>17
       DEF ProcStep, Continue
<1>3. QED
  BY <1>1, <1>2, PTL DEF Spec

-----------------------------------------------------------------------------
(* Windows.  What keeps the lock exclusive is the open creation handle: a  *)
(* process that created the file and still has it open is the creator of   *)
(* the file that is there, since nobody could have removed it.             *)
HandleInv ==
  \A p \in Procs : pc[p] \in {"write", "held"} => p \in handle /\ file.by = p

LEMMA HandleInvExcludes == ASSUME HandleInv PROVE MutualExclusion
  BY DEF HandleInv, MutualExclusion, Critical

LEMMA HandleInvInductive ==
  ASSUME Windows, TypeOK, HandleInv, [Next]_vars
  PROVE  HandleInv'
<1> USE ProcsAssumption DEF HandleInv, TypeOK, Goto, Absent, Present
<1>1. ASSUME NEW p \in Procs, NEW o \in {"acquire", "blocking", "probe"},
             Call(p, o)
      PROVE  HandleInv'
  BY <1>1 DEF Call
<1>2. ASSUME NEW p \in Procs, Exists(p)
      PROVE  HandleInv'
  BY <1>2 DEF Exists
<1>3. ASSUME NEW p \in Procs, OpenFile(p)
      PROVE  HandleInv'
  BY <1>3 DEF OpenFile
<1>4. ASSUME NEW p \in Procs, ReadGone(p)
      PROVE  HandleInv'
  BY <1>4 DEF ReadGone
<1>5. ASSUME NEW p \in Procs, ReadPid(p)
      PROVE  HandleInv'
  BY <1>5 DEF ReadPid
<1>6. ASSUME NEW p \in Procs, CheckAlive(p)
      PROVE  HandleInv'
  BY <1>6 DEF CheckAlive, AfterFailure
<1>7. ASSUME NEW p \in Procs, BreakStale(p)
      PROVE  HandleInv'
  BY <1>7 DEF BreakStale, Remove, Removable
<1>8. ASSUME NEW p \in Procs, Create(p)
      PROVE  HandleInv'
  BY <1>8 DEF Create
<1>9. ASSUME NEW p \in Procs, RereadPid(p)
      PROVE  HandleInv'
  BY <1>9 DEF RereadPid, AfterFailure
<1>10. ASSUME NEW p \in Procs, WritePid(p)
       PROVE  HandleInv'
  BY <1>10 DEF WritePid
<1>11. ASSUME NEW p \in Procs, WriteFails(p)
       PROVE  HandleInv'
  BY <1>11 DEF WriteFails
<1>12. ASSUME NEW p \in Procs, Release(p)
       PROVE  HandleInv'
  BY <1>12 DEF Release
<1>13. ASSUME NEW p \in Procs, Unlink(p)
       PROVE  HandleInv'
  BY <1>13 DEF Unlink, Remove, Removable
<1>14. ASSUME NEW p \in Procs, Poll(p)
       PROVE  HandleInv'
  BY <1>14 DEF Poll
<1>15. ASSUME NEW p \in Procs, Deadline(p)
       PROVE  HandleInv'
  BY <1>15 DEF Deadline
<1>16. ASSUME NEW p \in Procs, Die(p)
       PROVE  HandleInv'
  BY <1>16 DEF Die
<1>17. ASSUME NEW p \in Procs, Reuse(p)
       PROVE  HandleInv'
  BY <1>17 DEF Reuse
<1>18. CASE UNCHANGED vars
  BY <1>18 DEF vars
<1>19. QED
  BY NextIsProcStep, <1>1, <1>2, <1>3, <1>4, <1>5, <1>6, <1>7, <1>8, <1>9,
     <1>10, <1>11, <1>12, <1>13, <1>14, <1>15, <1>16, <1>17, <1>18
     DEF ProcStep, Continue

(* On Windows at most one process is admitted, for any number of           *)
(* processes, whichever of them die at whatever step, even if PIDs are     *)
(* reused and PID writes fail.                                             *)
THEOREM WindowsMutualExclusion == Spec => [](Windows => MutualExclusion)
<1> DEFINE WInv == Windows => HandleInv
<1>1. Init => WInv
  BY DEF Init, HandleInv
<1>2. TypeOK /\ WInv /\ [Next]_vars => WInv'
  BY HandleInvInductive, NextIsProcStep DEF Windows
<1>3. WInv => (Windows => MutualExclusion)
  BY HandleInvExcludes
<1> HIDE DEF WInv
<1>4. QED
  BY <1>1, <1>2, <1>3, TypeCorrect, PTL DEF Spec

-----------------------------------------------------------------------------
(* POSIX.  Nothing but the creator's own remove() may take the file away,  *)
(* which holds while no PID that was read can turn out dead.               *)
CreatorInv ==
  /\ alive = Procs
  /\ \A p \in Procs : pc[p] # "break"
  /\ \A p \in Procs :
       pc[p] \in {"write", "held", "unlink", "discard"} => file.by = p
  /\ Present => pc[file.by] \in {"write", "held", "unlink", "discard"}

LEMMA CreatorInvInductive ==
  ASSUME Undisturbed, TypeOK, CreatorInv, [Next]_vars
  PROVE  CreatorInv'
<1> USE ProcsAssumption DEF CreatorInv, Undisturbed, TypeOK, Goto, Absent, Present
<1>1. ASSUME NEW p \in Procs, NEW o \in {"acquire", "blocking", "probe"},
             Call(p, o)
      PROVE  CreatorInv'
  BY <1>1 DEF Call
<1>2. ASSUME NEW p \in Procs, Exists(p)
      PROVE  CreatorInv'
  BY <1>2 DEF Exists
<1>3. ASSUME NEW p \in Procs, OpenFile(p)
      PROVE  CreatorInv'
  BY <1>3 DEF OpenFile
<1>4. ASSUME NEW p \in Procs, ReadGone(p)
      PROVE  CreatorInv'
  BY <1>4 DEF ReadGone
<1>5. ASSUME NEW p \in Procs, ReadPid(p)
      PROVE  CreatorInv'
  BY <1>5 DEF ReadPid
<1>6. ASSUME NEW p \in Procs, CheckAlive(p)
      PROVE  CreatorInv'
  BY <1>6 DEF CheckAlive, AfterFailure
<1>7. ASSUME NEW p \in Procs, BreakStale(p)
      PROVE  CreatorInv'
  BY <1>7 DEF BreakStale, Remove, Removable
<1>8. ASSUME NEW p \in Procs, Create(p)
      PROVE  CreatorInv'
  BY <1>8 DEF Create
<1>9. ASSUME NEW p \in Procs, RereadPid(p)
      PROVE  CreatorInv'
  BY <1>9 DEF RereadPid, AfterFailure
<1>10. ASSUME NEW p \in Procs, WritePid(p)
       PROVE  CreatorInv'
  BY <1>10 DEF WritePid
<1>11. ASSUME NEW p \in Procs, WriteFails(p)
       PROVE  CreatorInv'
  BY <1>11 DEF WriteFails
<1>12. ASSUME NEW p \in Procs, Release(p)
       PROVE  CreatorInv'
  BY <1>12 DEF Release
<1>13. ASSUME NEW p \in Procs, Unlink(p)
       PROVE  CreatorInv'
  BY <1>13 DEF Unlink, Remove, Removable
<1>14. ASSUME NEW p \in Procs, Poll(p)
       PROVE  CreatorInv'
  BY <1>14 DEF Poll
<1>15. ASSUME NEW p \in Procs, Deadline(p)
       PROVE  CreatorInv'
  BY <1>15 DEF Deadline
<1>16. ASSUME NEW p \in Procs, Die(p)
       PROVE  CreatorInv'
  BY <1>16 DEF Die
<1>17. ASSUME NEW p \in Procs, Reuse(p)
       PROVE  CreatorInv'
  BY <1>17 DEF Reuse
<1>18. CASE UNCHANGED vars
  BY <1>18 DEF vars
<1>19. QED
  BY NextIsProcStep, <1>1, <1>2, <1>3, <1>4, <1>5, <1>6, <1>7, <1>8, <1>9,
     <1>10, <1>11, <1>12, <1>13, <1>14, <1>15, <1>16, <1>17, <1>18
     DEF ProcStep, Continue

LEMMA PosixCreatorInv == Spec => [](Undisturbed => CreatorInv)
<1> DEFINE PInv == Undisturbed => CreatorInv
<1>1. Init => PInv
  BY DEF Init, CreatorInv, Present
<1>2. TypeOK /\ PInv /\ [Next]_vars => PInv'
  BY CreatorInvInductive, NextIsProcStep DEF Undisturbed, Windows, Mortal
<1> HIDE DEF PInv
<1>3. QED
  <2>1. Spec => []PInv
    BY <1>1, <1>2, TypeCorrect, PTL DEF Spec
  <2>2. QED
    BY <2>1 DEF PInv

(* On POSIX at most one process is admitted, for any number of processes,  *)
(* provided that none of them ends.                                        *)
THEOREM PosixMutualExclusion == Spec => [](Undisturbed => MutualExclusion)
<1>1. (Undisturbed => CreatorInv) => (Undisturbed => MutualExclusion)
  BY DEF CreatorInv, MutualExclusion, Critical
<1>2. QED
  BY <1>1, PosixCreatorInv, PTL

(* Under the same proviso a released lock leaves no file behind.           *)
THEOREM PosixNoOrphan == Spec => []NoOrphan
<1>1. (Undisturbed => CreatorInv) => NoOrphan
  BY DEF CreatorInv, NoOrphan
<1>2. QED
  BY <1>1, PosixCreatorInv, PTL
-----------------------------------------------------------------------------
(* The probe.  Whoever holds the lock all along while a probe runs is the  *)
(* process whose PID the probe finds in the file, and it is alive.         *)
Reliable == Windows \/ Undisturbed

ProbeInv ==
  /\ \A p \in Procs : overlap[p] \subseteq Critical
  /\ \A p \in Procs : pc[p] # "idle" => p \in alive
  /\ \A p \in Procs : pc[p] = "held" => file = [by |-> p, pid |-> p]
  /\ \A p \in Procs : pc[p] = "check" => overlap[p] \subseteq {pid[p]}

(* Who is writing or holding is the creator of the file that is there, and *)
(* the file cannot be removed by another.                                  *)
LEMMA HeldFileStays ==
  ASSUME (Windows /\ HandleInv) \/ (Undisturbed /\ CreatorInv), TypeOK,
         NEW q \in Procs, pc[q] \in {"write", "held"}
  PROVE  /\ Present /\ file.by = q
         /\ \A p \in Procs : pc[p] \in {"break", "unlink", "discard"} => ~Removable
BY ProcsAssumption
   DEF HandleInv, CreatorInv, TypeOK, Present, Absent, Removable, Undisturbed

LEMMA ProbeInvInductive ==
  ASSUME (Windows /\ HandleInv) \/ (Undisturbed /\ CreatorInv),
         TypeOK, ProbeInv, [Next]_vars
  PROVE  ProbeInv'
<1> USE ProcsAssumption, HeldFileStays DEF ProbeInv, Critical, TypeOK, Goto
<1>1. ASSUME NEW p \in Procs, NEW o \in {"acquire", "blocking", "probe"},
             Call(p, o)
      PROVE  ProbeInv'
  BY <1>1 DEF Call
<1>2. ASSUME NEW p \in Procs, Exists(p)
      PROVE  ProbeInv'
  BY <1>2 DEF Exists
<1>3. ASSUME NEW p \in Procs, OpenFile(p)
      PROVE  ProbeInv'
  BY <1>3 DEF OpenFile
<1>4. ASSUME NEW p \in Procs, ReadGone(p)
      PROVE  ProbeInv'
  BY <1>4 DEF ReadGone
<1>5. ASSUME NEW p \in Procs, ReadPid(p)
      PROVE  ProbeInv'
  BY <1>5 DEF ReadPid
<1>6. ASSUME NEW p \in Procs, CheckAlive(p)
      PROVE  ProbeInv'
  BY <1>6 DEF CheckAlive, AfterFailure
<1>7. ASSUME NEW p \in Procs, BreakStale(p)
      PROVE  ProbeInv'
  BY <1>7 DEF BreakStale, Remove
<1>8. ASSUME NEW p \in Procs, Create(p)
      PROVE  ProbeInv'
  BY <1>8 DEF Create
<1>9. ASSUME NEW p \in Procs, RereadPid(p)
      PROVE  ProbeInv'
  BY <1>9 DEF RereadPid, AfterFailure
<1>10. ASSUME NEW p \in Procs, WritePid(p)
       PROVE  ProbeInv'
  BY <1>10 DEF WritePid
<1>11. ASSUME NEW p \in Procs, WriteFails(p)
       PROVE  ProbeInv'
  BY <1>11 DEF WriteFails
<1>12. ASSUME NEW p \in Procs, Release(p)
       PROVE  ProbeInv'
  BY <1>12 DEF Release
<1>13. ASSUME NEW p \in Procs, Unlink(p)
       PROVE  ProbeInv'
  BY <1>13 DEF Unlink, Remove
<1>14. ASSUME NEW p \in Procs, Poll(p)
       PROVE  ProbeInv'
  BY <1>14 DEF Poll
<1>15. ASSUME NEW p \in Procs, Deadline(p)
       PROVE  ProbeInv'
  BY <1>15 DEF Deadline
<1>16. ASSUME NEW p \in Procs, Die(p)
       PROVE  ProbeInv'
  BY <1>16 DEF Die
<1>17. ASSUME NEW p \in Procs, Reuse(p)
       PROVE  ProbeInv'
  BY <1>17 DEF Reuse
<1>18. CASE UNCHANGED vars
  BY <1>18 DEF vars
<1>19. QED
  BY NextIsProcStep, <1>1, <1>2, <1>3, <1>4, <1>5, <1>6, <1>7, <1>8, <1>9,
     <1>10, <1>11, <1>12, <1>13, <1>14, <1>15, <1>16, <1>17, <1>18
     DEF ProcStep, Continue

(* A probe answers in a step of its own.                                   *)
LEMMA ProbeAnswers ==
  ASSUME TypeOK, ProbeInv, [Next]_vars, NEW p \in Procs, ProbeSaysFree(p)
  PROVE  overlap'[p] = overlap[p] /\ (~Present \/ pc[p] = "check")
<1> USE DEF ProbeSaysFree, TypeOK, Goto
<1>1. pc[p] \in {"exists", "check"} /\ pc'[p] = "idle" /\ p \in alive'
  OBVIOUS
<1>2. PICK q \in Procs : ProcStep(q)
  BY <1>1, NextIsProcStep DEF vars
<1>3. q = p
  BY <1>1, <1>2
     DEF ProcStep, Continue, Call, Exists, OpenFile, ReadGone, ReadPid, CheckAlive,
         BreakStale, Create, RereadPid, WritePid, WriteFails, Release, Unlink, Poll,
         Deadline, Die, Reuse
<1>4. Exists(p) \/ CheckAlive(p)
  BY <1>1, <1>2, <1>3
     DEF ProcStep, Continue, Call, Exists, OpenFile, ReadGone, ReadPid, CheckAlive,
         BreakStale, Create, RereadPid, WritePid, WriteFails, Release, Unlink, Poll,
         Deadline, Die, Reuse
<1>5. QED
  BY <1>1, <1>4 DEF Exists, CheckAlive

(* held_by_live_process() says that nobody writes only if at some moment   *)
(* of the probe nobody did: on Windows whatever dies, on POSIX while       *)
(* nobody ends.                                                            *)
THEOREM ProbesAreSound == Spec /\ Reliable => ProbeSound
<1> DEFINE WInv == Windows => HandleInv
           PInv == Undisturbed => CreatorInv
           Inv  == Reliable /\ WInv /\ PInv /\ ProbeInv
           Sound == \A p \in Procs : ProbeSaysFree(p) => overlap'[p] = {}
<1>1. Init /\ Reliable => Inv
  BY DEF Init, HandleInv, CreatorInv, Present, ProbeInv, Critical
<1>2. TypeOK /\ Inv /\ [Next]_vars => Inv'
  <2> SUFFICES ASSUME TypeOK, Inv, [Next]_vars
               PROVE  Inv'
    OBVIOUS
  <2>1. run' = run BY NextIsProcStep
  <2>2. Reliable' /\ (Windows' <=> Windows) /\ (Undisturbed' <=> Undisturbed)
    BY <2>1 DEF Reliable, Windows, Undisturbed, Mortal
  <2>3. (Windows /\ HandleInv) \/ (Undisturbed /\ CreatorInv) BY DEF Reliable
  <2>4. ProbeInv' BY <2>3, ProbeInvInductive
  <2>5. WInv' BY <2>2, HandleInvInductive
  <2>6. PInv' BY <2>2, CreatorInvInductive
  <2>7. QED BY <2>2, <2>4, <2>5, <2>6
<1>3. TypeOK /\ Inv /\ [Next]_vars => [Sound]_vars
  <2> SUFFICES ASSUME TypeOK, Inv, [Next]_vars, NEW p \in Procs, ProbeSaysFree(p)
               PROVE  overlap'[p] = {}
    OBVIOUS
  <2>1. overlap'[p] = overlap[p] /\ (~Present \/ pc[p] = "check")
    BY ProbeAnswers
  <2>2. CASE ~Present
    <3>1. (Windows /\ HandleInv) \/ (Undisturbed /\ CreatorInv) BY DEF Reliable
    <3>2. Critical = {} BY <2>2, <3>1, HeldFileStays DEF Critical
    <3>3. QED BY <2>1, <3>2 DEF ProbeInv
  <2>3. CASE pc[p] = "check" /\ Present
    <3>1. pid[p] \notin alive BY <2>3 DEF ProbeSaysFree
    <3>2. QED BY <2>1, <2>3, <3>1 DEF ProbeInv, Critical
  <2>4. QED BY <2>1, <2>2, <2>3
<1> HIDE DEF Inv, Sound
<1>4. Spec /\ Reliable => [][Sound]_vars
  BY <1>1, <1>2, <1>3, TypeCorrect, PTL DEF Spec
<1>5. QED
  BY <1>4 DEF ProbeSound, Sound
=============================================================================
