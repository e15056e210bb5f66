----------------------------- MODULE MCReindex ------------------------------
(* Instances of Reindex for model checking: two clients, two files.        *)
EXTENDS Reindex

Nothing ==
  [clients |-> {}, startup |-> {}, watch |-> {}, fullOnly |-> {}, stale |-> {},
   indexed |-> TRUE, quiet |-> TRUE, edits |-> 0, manual |-> 0, jobs |-> 0,
   cli |-> 0, stops |-> 0, faults |-> 0]

First == CHOOSE c \in Clients : TRUE
Some  == CHOOSE f \in Files : TRUE

(* One MCP server that reconciles on startup and watches.                  *)
Server ==
  [Nothing EXCEPT !.clients = {First}, !.startup = {First}, !.watch = {First},
                   !.stale = {Some}]

(* Two servers that start together.                                        *)
Pair ==
  [Nothing EXCEPT !.clients = Clients, !.startup = Clients, !.watch = Clients,
                  !.stale = {Some}]

(* Two codetopo watch processes, which only ask for full runs.             *)
Watchers ==
  [Nothing EXCEPT !.clients = Clients, !.watch = Clients, !.fullOnly = Clients]

Supported ==
  {[Server EXCEPT !.edits = 3, !.manual = 1, !.jobs = 1, !.indexed = FALSE],
   [Server EXCEPT !.edits = 2, !.stops = 1, !.faults = 2, !.jobs = 1],
   [Server EXCEPT !.cli = 2],
   [Pair EXCEPT !.manual = 1], [Pair EXCEPT !.indexed = FALSE],
   [Watchers EXCEPT !.edits = 3]}

=============================================================================
