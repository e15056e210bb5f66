---------------------------- MODULE MCSupervisor ----------------------------
(* Instances of Supervisor for model checking: six files, of which the    *)
(* scenarios leave some on disk, some in the database and some in          *)
(* quarantine.                                                             *)
EXTENDS Supervisor

Fresh ==
  [onDisk |-> Files, rows |-> [f \in Files |-> "none"], quarantine |-> {},
   owner |-> FALSE, newHead |-> FALSE, crashers |-> {}, force |-> FALSE,
   maxFiles |-> 0, faults |-> 0]

(* An index with one file up to date, one vanished and the rest changed.   *)
Known ==
  [Fresh EXCEPT !.onDisk = Files \ {Total}, !.owner = TRUE,
                !.rows = [f \in Files |-> CASE f = 1 -> "new" [] f = 2 -> "none"
                                            [] OTHER -> "old"]]

(* The parse of one file crashes; two faults strike anywhere.                *)
Crashing == {[Fresh EXCEPT !.crashers = {c}, !.faults = 2] : c \in {1, 2, 4}}

Steady ==
  {[Known EXCEPT !.faults = 2],
   [Known EXCEPT !.crashers = {2}, !.quarantine = {3}, !.faults = 1],
   [Known EXCEPT !.owner = FALSE],
   [Known EXCEPT !.newHead = TRUE, !.quarantine = {1, 3}, !.faults = 1],
   [Known EXCEPT !.force = TRUE, !.quarantine = {3}, !.faults = 1],
   [Known EXCEPT !.force = TRUE, !.owner = FALSE],
   [Fresh EXCEPT !.maxFiles = 2], [Known EXCEPT !.maxFiles = 2]}

Supported == Crashing \union Steady

=============================================================================
