------------------------------ MODULE MCScanner ------------------------------
(***************************************************************************)
(* A tree with a source file, one in a directory that rules may name, one  *)
(* in an excluded directory, one outside the root, a place for a link to a *)
(* file and one for a link to a directory.                                 *)
(***************************************************************************)
EXTENDS Scanner, TLC

Src     == <<"src">>
A       == <<"src", "a.py">>
Gen     == <<"src", "gen">>
B       == <<"src", "gen", "b.py">>
Build   == <<"build">>
C       == <<"build", "c.py">>
DirLink == <<"also">>
Alias   == <<"l.py">>
Outside == <<"..", "o.py">>

Glob(before) ==
  [before |-> before, deep |-> FALSE, after |-> <<>>, rooted |-> FALSE,
   dirOnly |-> FALSE, negated |-> FALSE]
NamesOf(names) == Glob(<<names>>)

BFiles   == NamesOf({"b.py"})
GenDir   == [NamesOf({"gen"}) EXCEPT !.dirOnly = TRUE]
RootGen  == [GenDir EXCEPT !.rooted = TRUE]
AnyGen   == [NamesOf({"gen"}) EXCEPT !.before = <<>>, !.deep = TRUE, !.after = <<{"gen"}>>]
Python   == NamesOf({"a.py", "b.py", "c.py", "l.py", "o.py"})
NotA     == [NamesOf({"a.py"}) EXCEPT !.negated = TRUE]
SrcFiles == [Glob(<<{"src"}>>) EXCEPT !.deep = TRUE]

Old(n) == [File(1) EXCEPT !.time = -n]

MCTree ==
  << >> :> Dir(<<>>) @@ Src :> Dir(<<>>) @@ A :> Old(1) @@ Gen :> Dir(<<>>) @@ B :> Old(2)
  @@ Build :> Dir(<<>>) @@ C :> Old(3) @@ DirLink :> None @@ Alias :> None
  @@ Outside :> Old(4)

MCEdits ==
  {<<A, File(2)>>, <<A, None>>, <<A, Dir(<<>>)>>, <<B, File(2)>>, <<B, None>>, <<C, File(2)>>,
   <<Gen, None>>, <<Gen, Dir(<<>>)>>, <<B, File(1)>>}
  \union {<<DirLink, e>> : e \in {None, Link(<<>>), Link(Src), Link(Build), Link(Gen)}}
  \union {<<Alias, e>> : e \in {None, Link(A), Link(B), Link(C), Link(Outside)}}
  \union {<< <<>>, Dir(rules)>> : rules \in {<<>>, <<BFiles>>, <<GenDir>>, <<Python, NotA>>, <<AnyGen>>}}
  \union {<<Src, Dir(rules)>> : rules \in {<<GenDir>>, <<RootGen>>, <<NotA>>}}

Repo(git, tracked, conflicts, noGitignore, exclude) ==
  [git |-> git, tracked |-> tracked, conflicts |-> conflicts,
   noGitignore |-> noGitignore, exclude |-> exclude]

MCScenarios ==
  {[tree |-> MCTree, repo |-> r, edits |-> 3] :
     r \in {Repo(FALSE, {}, {}, FALSE, {})}}
  \union
  {[tree |-> MCTree, repo |-> r, edits |-> 2] :
     r \in {Repo(TRUE, {A, C}, {A}, FALSE, {}), Repo(TRUE, {A, C}, {}, TRUE, {AnyGen}), Repo(TRUE, {A, C}, {}, FALSE, {SrcFiles, BFiles}),
            Repo(FALSE, {}, {}, FALSE, {BFiles})}}
=============================================================================
