---------------------------- MODULE MCPersister ----------------------------
(***************************************************************************)
(* Two primary files and one file of an extra root.  The versions differ   *)
(* in what they define, include and call, so that symbols disappear,       *)
(* change their parameters, become ambiguous or are found elsewhere.       *)
(***************************************************************************)
EXTENDS Persister

Def(kind, qual, params) == [kind |-> kind, qual |-> qual, params |-> params, def |-> TRUE]
Ref(kind, name, in, args) ==
  [kind |-> kind, name |-> name, in |-> in, sep |-> "none", absolute |-> FALSE,
   hint |-> <<>>, args |-> args]

One == <<"plain">>
Two == <<"plain", "plain">>
f   == Def("function", <<"f">>, One)
g   == Def("function", <<"g">>, One)
h   == Def("function", <<"h">>, One)
T   == Def("class", <<"T">>, <<>>)
N   == Def("namespace", <<"N">>, <<>>)
Ng  == Def("function", <<"N", "g">>, Two)

MCPaths    == 1 .. 3
MCRootOf   == <<0, 0, 1>>
MCBase     == <<"a.h", "b.h", "c.h">>
MCLang     == <<"cpp", "cpp", "cpp">>
MCVersions == 1 .. 2
MCContent  == <<
  << [defs |-> <<f>>, refs |-> {Ref("call", <<"g">>, 1, 1),
                                Ref("include", <<"b.h">>, 0, -1)}],
     [defs |-> <<f, g>>, refs |-> {Ref("call", <<"g">>, 1, 1),
                                   Ref("type_ref", <<"T">>, 1, -1)}] >>,
  << [defs |-> <<T, N, g, Ng>>, refs |-> {Ref("call", <<"f">>, 3, 1)}],
     [defs |-> <<T, N, Ng>>, refs |-> {Ref("call", <<"f">>, 0, 2)}] >>,
  << [defs |-> <<h>>, refs |-> {Ref("call", <<"g">>, 1, 1)}],
     [defs |-> <<h, f>>, refs |-> {Ref("call", <<"g">>, 1, 1)}] >> >>

Function(p, name) == [path |-> p, kind |-> "function", name |-> <<name>>, nth |-> 1]
MCTraces   == {<<Function(1, "f"), Function(2, "g")>>,
               <<Function(1, "f"), Function(3, "h")>>,
               <<Function(3, "h"), Function(2, "g")>>}
=============================================================================
