--------------------------- MODULE MCIndexPipeline ---------------------------
(* A file that is refused, one that hangs and two ordinary ones; one that   *)
(* throws or comes back late, beside one that hangs; one that throws, whose *)
(* slot goes to another file.                                               *)
EXTENDS IndexPipeline

WorkList(total, rejected, throws, stuck, late) ==
  [total |-> total, rejected |-> rejected, throws |-> throws, stuck |-> stuck, late |-> late]

MCWorkLists ==
  {WorkList(4, {1}, {}, {2}, {}), WorkList(2, {}, {1}, {2}, {1}),
   WorkList(4, {2, 3, 4}, {1}, {}, {})}
=============================================================================
