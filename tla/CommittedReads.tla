--------------------------- MODULE CommittedReads ---------------------------
(***************************************************************************)
(* What a client of the server is promised of graph requests (src/         *)
(* README.md, workspaces: a reader "sees the prior or new committed state, *)
(* never a partially committed merge"): an answer is computed from one     *)
(* state that was committed at some moment of the request, however many    *)
(* queries it takes and whatever is committed in between.                  *)
(***************************************************************************)

CONSTANTS
  Nothing,    \* no state, no answer
  Plain       \* answers that say nothing of the graph: errors, health, ...

VARIABLES
  committed,  \* the last committed state
  waiting,    \* is a request being served?
  got,        \* the state it is served from
  answer      \* the last answer

avars == <<committed, waiting, got, answer>>

Init == ~waiting /\ got = Nothing /\ answer = Nothing

Commit == committed' # committed /\ UNCHANGED <<waiting, got, answer>>

Ask == ~waiting /\ waiting' /\ got = Nothing /\ UNCHANGED <<committed, got, answer>>

Serve == waiting /\ got = Nothing /\ got' = committed /\ UNCHANGED <<committed, waiting, answer>>

Answer ==
  /\ waiting
  /\ (got # Nothing /\ answer' = got) \/ answer' \in Plain
  /\ UNCHANGED <<committed, waiting, got>>

(* The end of a request: answered, refused, failed, or the server is gone. *)
Done ==
  /\ waiting /\ ~waiting'
  /\ got' = Nothing
  /\ answer' = answer \/ answer' \in Plain
  /\ UNCHANGED committed

Next == Commit \/ Ask \/ Serve \/ Answer \/ Done

Spec == Init /\ [][Next]_avars
=============================================================================
