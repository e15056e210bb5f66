------------------------------ MODULE MCTools ------------------------------
(***************************************************************************)
(* One search in each of many small graphs, sets of references and states  *)
(* of changed files; and sequences of lists, pages, handles and a commit   *)
(* in one index.                                                           *)
(***************************************************************************)
EXTENDS Listings

Node(kind, qual, file, place, key) ==
  [kind |-> kind, qual |-> qual, params |-> <<>>, lang |-> "cpp", file |-> file,
   def |-> TRUE, around |-> <<>>, common |-> FALSE, span |-> place, public |-> FALSE,
   size |-> 2, place |-> place, key |-> key]

Edge(a, b, kind, conf) == [src |-> a, dst |-> b, kind |-> kind, conf |-> conf]

Call(site, file, in, name, sep, hint, args) ==
  [site |-> site, kind |-> "call", file |-> file, in |-> in, name |-> name, sep |-> sep,
   absolute |-> FALSE, hint |-> hint, args |-> args, to |-> 1, alike |-> 0, size |-> 2,
   lang |-> "cpp"]

(* Two files; a method, what calls it, its class and another of that name. *)
Nodes ==
  << [Node("method", <<"T", "m">>, 1, 1, 11) EXCEPT !.params = <<"plain">>],
     Node("function", <<"g">>, 2, 3, 12),
     Node("class", <<"T">>, 1, 2, 13),
     Node("function", <<"h">>, 2, 4, 14),
     Node("file", <<"a">>, 1, 0, 15),
     Node("class", <<"N", "T">>, 2, 5, 16),
     Node("file", <<"b">>, 2, -1, 17) >>

Walked == {Edge(2, 1, "calls", 90), Edge(4, 2, "calls", 60), Edge(3, 1, "contains", 100),
           Edge(4, 1, "calls", 50), Edge(1, 4, "calls", 90), Edge(5, 1, "calls", 70),
           Edge(6, 3, "inherits", 80), Edge(2, 3, "type_ref", 90), Edge(6, 2, "calls", 70)}

Made ==
  << Call(1, 2, 2, <<"t", "m">>, ".", <<"T">>, 1),
     Call(2, 1, 1, <<"this", "m">>, ".", <<>>, 1),
     Call(3, 1, 1, <<"m">>, "none", <<>>, -1),
     Call(4, 2, 4, <<"x", "m">>, ".", <<"U">>, 1),
     Call(5, 2, 4, <<"T", "m">>, "::", <<>>, 1),
     Call(6, 2, 2, <<"m">>, "none", <<>>, 2) >>

Base ==
  [nodes |-> Nodes, edges |-> {Edge(3, 1, "contains", 100), Edge(7, 5, "includes", 100)},
   refs |-> {Made[1]},
   rows |-> <<1, 1>>, target |-> <<1, 1>>, hashed |-> <<TRUE, TRUE>>, huge |-> {},
   source |-> {1, 2}, parsed |-> {1, 2}, commit |-> 1, compared |-> 1, changed |-> {1, 2},
   paths |-> << <<1>>, <<2>> >>, roots |-> <<0, 0>>, language |-> <<"cpp", "cpp">>]

Graphs == {[Base EXCEPT !.edges = E] : E \in SUBSET Walked}

Referred ==
  {[Base EXCEPT !.refs = {Made[i] : i \in I}, !.edges = @ \union E] :
     I \in SUBSET (1 .. 6),
     E \in {{}, {Edge(2, 1, "calls", 90)}, {Edge(5, 1, "calls", 70)}}}
  \union {[Base EXCEPT !.nodes[1].params = <<"unknown">>, !.refs = {Made[i] : i \in I}] :
            I \in {1 .. 6, {1, 6}}}

(* States of a changed file: its row, the version in the commit, and what  *)
(* is known of them.                                                       *)
OfFile1(nodes) == {n \in 1 .. 7 : nodes[n].file = 1}
Without(index) ==
  [index EXCEPT !.nodes = [n \in 1 .. 7 \ OfFile1(Nodes) |-> @[n]], !.edges = {}]

Changed ==
  {[(IF row = 0 THEN Without(Base) ELSE Base) EXCEPT
      !.rows[1] = row, !.target[1] = target, !.hashed[1] = hashed /\ row # 0,
      !.huge = IF huge THEN {1} ELSE {},
      !.source = IF source \/ row # 0 THEN @ ELSE {2},
      !.parsed = IF parsed /\ row # 0 THEN @ ELSE {2}, !.commit = commit] :
     row \in 0 .. 2, target \in 0 .. 2, hashed \in BOOLEAN, huge \in BOOLEAN,
     source \in BOOLEAN, parsed \in BOOLEAN, commit \in 0 .. 2}

(* Two primary files, one in a directory, and a file of another root; then *)
(* the same symbols under other ids.                                       *)
Listed ==
  [Base EXCEPT
     !.nodes = << Node("file", <<"a">>, 1, 0, 21), Node("class", <<"T">>, 1, 1, 22),
                  [Node("method", <<"T", "m">>, 1, 2, 23) EXCEPT !.size = 4],
                  Node("function", <<"f">>, 2, 3, 24),
                  [Node("function", <<"g">>, 2, 4, 25) EXCEPT !.public = TRUE],
                  Node("method", <<"S", "n">>, 3, 5, 26) >>,
     !.edges = {Edge(2, 3, "contains", 100)},
     !.refs = {[Made[1] EXCEPT !.kind = "http_call", !.site = i, !.file = i] : i \in 1 .. 3},
     !.rows = <<1, 1, 1>>, !.paths = << <<1>>, <<2, 1>>, <<3, 1>> >>, !.roots = <<0, 0, 1>>,
     !.language = <<"cpp", "c", "cpp">>]

Renumbered ==
  [Listed EXCEPT
     !.nodes = [i \in 1 .. 6 |-> Listed.nodes[(i % 6) + 1]],
     !.edges = {Edge(1, 2, "contains", 100)}]

Session(i, tools, searches, lists, changes) ==
  [idx |-> i,
   left |-> [tools |-> tools, searches |-> searches, lists |-> lists, changes |-> changes]]

AtOnce == {"callees_approx", "references", "file_deps", "find_implementations"}

MCSessions ==
  {Session(i, {"impact_of", "detect_changes", "subgraph", "shortest_path"}, 1, 0, 0) :
     i \in Graphs}
  \union {Session(i, {"callers_approx"}, 1, 0, 0) : i \in Referred}
  \union {Session(i, {"detect_changes"}, 1, 0, 0) : i \in Changed}
  \union {Session(Base, AtOnce, 1, 0, 0),
          Session(Listed, {}, 0, 2, 1), Session(Listed, {"symbol_get"}, 1, 1, 1)}

MCCommits == {Renumbered}

-----------------------------------------------------------------------------

Default == [tool |-> "none", dir |-> <<>>, file |-> 0, name |-> <<>>, kind |-> "", span |-> 0,
            primary |-> FALSE, recursive |-> TRUE, language |-> "", holder |-> 0,
            limit |-> 1, budget |-> 0]

List1(tool) == [Default EXCEPT !.tool = tool]

FileLists ==
  {[List1("file_search") EXCEPT !.primary = p, !.language = l] : p \in BOOLEAN, l \in {"", "cpp"}}
  \union {[List1("file_search") EXCEPT !.dir = <<2>>]}
  \union {[List1("dir_list") EXCEPT !.primary = p, !.limit = n] : p \in BOOLEAN, n \in 1 .. 2}
  \union {[List1("dir_list") EXCEPT !.dir = <<2>>]}
  \union {[List1("list_http_calls") EXCEPT !.primary = p] : p \in BOOLEAN}
  \union {[List1("list_http_calls") EXCEPT !.dir = <<3>>]}

SymbolLists ==
  {[List1("symbol_list") EXCEPT !.kind = k, !.span = n, !.budget = b, !.limit = 2] :
     k \in {"", "function"}, n \in {0, 4}, b \in {0, 3}}
  \union {[List1("symbol_list") EXCEPT !.kind = "method"],
          [List1("symbol_list") EXCEPT !.file = 2, !.name = <<"f">>],
          [List1("file_summary") EXCEPT !.file = 1]}
  \union {[List1("symbols_in_path") EXCEPT !.primary = p, !.recursive = r] :
            p \in BOOLEAN, r \in BOOLEAN}
  \union {[List1("symbols_in_path") EXCEPT !.dir = <<2>>, !.recursive = r, !.budget = 1] :
            r \in BOOLEAN}
  \union {[List1("symbol_search") EXCEPT !.kind = k, !.dir = d] :
            k \in {"", "function", "method"}, d \in {<<>>, <<2>>}}
  \union {[List1("symbol_search") EXCEPT !.name = <<"g">>],
          [List1("dependency_cluster") EXCEPT !.holder = 2]}

(* Requests that make other statements under one name.                     *)
Crossed ==
  {[List1(tool) EXCEPT !.kind = k, !.span = 2] :
     tool \in {"symbol_list", "symbols_in_path"}, k \in {"function", "method"}}
  \union {[List1("dependency_cluster") EXCEPT !.file = 1],
          [List1("dependency_cluster") EXCEPT !.holder = 2]}

AnyKind == {"calls", "contains", "inherits", "includes", "type_ref"}

MCRequests ==
  [impact   |-> [node : {1}, depth : 1 .. 3, max : {1, 2, 9}, conf : {0}, filter : {<<>>},
                 budget : {0}, mode : {"exact"}]
                \union [node : {1, 8}, depth : {0, 2}, max : {9}, conf : {60}, filter : {<<>>},
                        budget : {0}, mode : {"exact_plus_candidates"}],
   changes  |-> [files : {{1}, {1, 2}}, depth : 1 .. 3, conf : {0, 60}],
   subgraph |-> [seeds : {<<4>>}, depth : 0 .. 3, max : {1, 2, 9}, kinds : {AnyKind}]
                \union [seeds : {<<2, 6, 2>>}, depth : {2}, max : {2, 9}, kinds : {{"calls"}}],
   path     |-> [src : {4}, dst : {3}, depth : 1 .. 3, paths : 1 .. 3, kinds : {{}}]
                \union [src : {2, 1}, dst : {4}, depth : {2}, paths : {2}, kinds : {{"calls"}}],
   callers  |-> [node : {1}, limit : {1, 2, 9}, top : {1, 9}, lean : BOOLEAN, conf : {0, 80},
                 mode : Modes, filter : {<<>>, <<"T">>}, budget : {0, 3}],
   around   |-> [node : {1}, limit : {1, 9}],
   deps     |-> [file : {1}],
   impls    |-> [name : {"T"}, limit : {1, 9}],
   lists    |-> FileLists \union SymbolLists]

(* The instance that keeps its properties meets what the theorems suppose. *)
ASSUME Supposed ==
  /\ Uncrossed(MCRequests.lists)
  /\ \A s \in MCSessions : SelfIsExplicit(s.idx)
  /\ \A i \in MCCommits : SelfIsExplicit(i)

MCCrossedSessions == {Session(Listed, {}, 0, 4, 1)}
MCCrossedRequests == [MCRequests EXCEPT !.lists = Crossed]
=============================================================================
