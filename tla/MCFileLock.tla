----------------------------- MODULE MCFileLock -----------------------------
(* Instances of FileLock for model checking.                               *)
EXTENDS FileLock

Scenario(w, m, r, d) ==
  [windows |-> w, mortal |-> m, pidReuse |-> r, diskFull |-> d]

(* Windows with everything that can go wrong, POSIX as long as no process  *)
(* ends.                                                                   *)
BothBuilds ==
  {Scenario(TRUE, Procs, TRUE, TRUE), Scenario(FALSE, {}, FALSE, TRUE)}

(* POSIX with processes that end.                                          *)
PosixDeath == {Scenario(FALSE, Procs, FALSE, FALSE)}
=============================================================================
