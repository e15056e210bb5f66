------------------------------ MODULE Listings ------------------------------
(***************************************************************************)
(* Lists in pages, handles, and the statements they are read with: the     *)
(* other tools of src/src/mcp/tools.cpp and src/src/db/queries.h.          *)
(*                                                                         *)
(* Each listing tool makes a statement from some of its parameters, asks   *)
(* the cache for the statement of a name that it makes from them, too, and *)
(* binds values by position.  A client walks a list page by page and uses  *)
(* the handles that it finds; between its requests the index may change,   *)
(* and then nodes have other ids.                                          *)
(***************************************************************************)
EXTENDS GraphSearch

CONSTANTS
  Sessions,  \* indexes, each with the numbers of requests and of changes
  Commits,   \* the indexes that others commit meanwhile
  Requests   \* what a client asks: a record of sets, one for each tool

(* An index: nodes and files have numbers, nodes and references distinct   *)
(* places, no two edges differ in nothing, a reference is in a file that   *)
(* is indexed, and every file has a path.                                  *)
IsIndex(i) ==
  /\ IsFiniteSet(DOMAIN i.nodes) /\ DOMAIN i.nodes \subseteq Nat
  /\ \A n \in DOMAIN i.nodes : /\ i.nodes[n].qual \in Seq(STRING) \ {<<>>}
                               /\ i.nodes[n].around \in Seq(STRING)
                               /\ i.nodes[n].place \in Int
  /\ \A n, m \in DOMAIN i.nodes : i.nodes[n].place = i.nodes[m].place => n = m
  /\ IsFiniteSet(i.edges)
  /\ \A e \in i.edges : {e.src, e.dst} \subseteq DOMAIN i.nodes /\ e.conf \in Nat
  /\ \A e, x \in i.edges : (e.src = x.src /\ e.dst = x.dst /\ e.kind = x.kind
                              /\ e.conf = x.conf) => e = x
  /\ IsFiniteSet(i.refs)
  /\ \A r \in i.refs : /\ r.name \in Seq(STRING) \ {<<>>} /\ r.hint \in Seq(STRING)
                       /\ r.site \in Nat /\ r.alike \in 0 .. 4
                       /\ r.file \in DOMAIN i.rows /\ i.rows[r.file] # Missing
  /\ \A r, x \in i.refs : r.site = x.site => r = x
  /\ IsFiniteSet(DOMAIN i.rows) /\ DOMAIN i.rows \subseteq Nat
  /\ \A f \in DOMAIN i.rows : i.paths[f] \in Seq(Nat) \ {<<>>}

(* A request for a list: the parameters that its tool knows.  Sizes and    *)
(* numbers below what the tools expect, which some of them do not raise,   *)
(* are left out.                                                           *)
Symbols == {"symbol_search", "symbol_list", "symbols_in_path", "file_summary",
            "dependency_cluster"}

IsList(r) ==
  /\ r.tool \in Symbols \union {"file_search", "dir_list", "list_http_calls"}
  /\ r.limit \in Nat \ {0} /\ r.budget \in Nat /\ r.span \in Nat /\ r.dir \in Seq(Nat)
  /\ r.file # 0 => r.tool \in Symbols \ {"symbol_search"}
  /\ r.name # <<>> => r.tool \in {"symbol_search", "symbol_list"}
  /\ r.kind # "" => r.tool \in {"symbol_search", "symbol_list", "symbols_in_path"}
  /\ r.span # 0 => r.tool \in {"symbol_list", "symbols_in_path"}
  /\ r.dir # <<>> \/ r.primary =>
       r.tool \notin {"symbol_list", "file_summary", "dependency_cluster"}
  /\ r.tool = "symbols_in_path" => /\ r.primary => r.file = 0 /\ r.dir = <<>>
                                   /\ r.file # 0 => r.dir = <<>>
  /\ r.tool = "file_summary" => r.file # 0
  /\ r.tool = "dependency_cluster" => (r.holder # 0 <=> r.file = 0)

ASSUME SessionsAssumption ==
  /\ \A s \in Sessions : IsIndex(s.idx)
  /\ \A i \in Commits : IsIndex(i)

ASSUME RequestsAssumption ==
  /\ \A q \in Requests.impact \union Requests.subgraph : q.depth \in Nat /\ q.max \in Nat
  /\ \A q \in Requests.changes \union Requests.path : q.depth \in Nat
  /\ \A q \in Requests.subgraph : q.seeds \in Seq(Nat)
  /\ \A q \in Requests.callers : q.limit \in Nat \ {0} /\ q.top \in Nat \ {0}
  /\ \A r \in Requests.lists : IsList(r)

VARIABLES
  cache,  \* the prepared statements, by name
  stale,  \* the index has changed since they were prepared
  walk    \* what the client is reading, and what it has read

vars == <<idx, search, left, cache, stale, walk>>

(* A parameter of a statement, and the value that is bound to it.          *)
Bind(role, value) == [role |-> role, value |-> value]

(* Optional parts of a statement and its values, and of its name.          *)
If(given, part)   == IF given THEN <<part>> ELSE <<>>
With(given, part) == IF given THEN {part} ELSE {}

Roles(binds) == [i \in DOMAIN binds |-> binds[i].role]

Smaller(a, b) == IF a < b THEN a ELSE b

-----------------------------------------------------------------------------
(* The rows that statements read.  Files are numbered in the order of      *)
(* their paths; the place of a node is in the order of file and line.  The *)
(* node of a file has no row of files.                                     *)

Files    == {f \in DOMAIN idx.rows : idx.rows[f] # Missing}
PathOf   == [f \in Files |-> idx.paths[f]]
IsPrimary(f) == idx.roots[f] = 0

Directly(f, dir)  == Front(PathOf[f]) = dir
Under(f, dir)     == IsPrefix(dir, Front(PathOf[f]))

(* Is the node in a file of which this holds?                              *)
InFile(n, holds(_)) == IsSymbol(idx, n) /\ holds(idx.nodes[n].file)

(* Does a row of nodes satisfy a condition of a statement?                 *)
NodeHolds(n, role, value) ==
  LET node == idx.nodes[n] IN
  CASE role = "file"    -> InFile(n, LAMBDA f : f = value)
    [] role = "kind"    -> node.kind = value
    [] role = "callables" -> node.kind \in {"function", "method"}
    [] role = "span"    -> node.span >= value \/ node.public
    [] role = "name"    -> value = <<>> \/ BareName(node.qual) = BareName(value)
    [] role = "under"   -> InFile(n, LAMBDA f : Under(f, value))
    [] role = "not_deep" -> InFile(n, LAMBDA f : Directly(f, value))
    [] role = "primary" -> InFile(n, IsPrimary)
    [] role = "flat"    -> InFile(n, LAMBDA f : Directly(f, <<>>))
    [] role = "symbol"  -> IsSymbol(idx, n)
    [] role = "holder"  -> \E e \in idx.edges :
                             e.src = value /\ e.dst = n /\ e.kind = "contains"

FileHolds(f, role, value) ==
  CASE role = "under"    -> Under(f, value)
    [] role = "primary"  -> IsPrimary(f)
    [] role = "language" -> idx.language[f] = value

(* Entries of a directory: its files, and the directories under it.        *)
Entries(dir, primary) ==
  LET inside == {f \in Files : Under(f, dir) /\ (primary => IsPrimary(f))} IN
  {PathOf[f] : f \in {g \in inside : Directly(g, dir)}}
  \union {SubSeq(PathOf[f], 1, Len(dir) + 1) : f \in {g \in inside : ~Directly(g, dir)}}

Before(a, b) ==
  \/ IsStrictPrefix(a, b)
  \/ \E i \in 1 .. Smaller(Len(a), Len(b)) :
       a[i] < b[i] /\ \A j \in 1 .. i - 1 : a[j] = b[j]

HttpCalls == {r \in idx.refs : r.kind = "http_call"}

(* What a statement selects, in its order.                                 *)
Select(table, conditions) ==
  LET all(row, holds(_, _, _)) ==
        \A c \in conditions : holds(row, c.role, c.value) IN
  CASE table = "nodes" -> InOrder({n \in NodeIds(idx) : all(n, NodeHolds)}, LAMBDA n : idx.nodes[n].place)
    [] table = "files" -> InOrder({f \in Files : all(f, FileHolds)}, LAMBDA f : f)
    [] table = "http"  -> InOrder({r \in HttpCalls : \A c \in conditions :
                                     FileHolds(r.file, c.role, c.value)},
                                  LAMBDA r : r.site)
    [] table = "entries" ->
         LET dir == (CHOOSE c \in conditions : c.role = "dir").value IN
         Ordered(Entries(dir, \E c \in conditions : c.role = "primary"), Before)

-----------------------------------------------------------------------------
(* The tools: of each request the name of its statement, the conditions    *)
(* that are written into it, the values that are bound, and how it counts  *)
(* rows: "probe" reads one more than a page, "count" compares with the     *)
(* total.  A name is the set of its parts, which no two tools share.       *)

Plan(table, name, fixed, binds, page) ==
  [table |-> table, name |-> name, fixed |-> fixed, binds |-> binds, page |-> page]

Fixed(given, role) == With(given, Bind(role, 0))

(* Variant: the name does not say that only primary files are meant.       *)
FileSearchOfAnyRoot(r) ==
  Plan("files", {"file_search"} \union With(r.language # "", "lang"), Fixed(r.primary, "primary"),
       <<Bind("under", r.dir)>> \o If(r.language # "", Bind("language", r.language)), "probe")

FileSearch(r) ==
  Plan("files",
       {"file_search"} \union With(r.primary, "primary") \union With(r.language # "", "lang"),
       Fixed(r.primary, "primary"),
       <<Bind("under", r.dir)>> \o If(r.language # "", Bind("language", r.language)), "probe")

DirList(r) ==
  Plan("entries", {"dir_list"} \union With(r.primary, "primary"), Fixed(r.primary, "primary"),
       <<Bind("dir", r.dir)>>, "probe")

SymbolSearch(r) ==
  Plan("nodes",
       {"symbol_search", IF r.name = <<>> THEN "wild" ELSE "fts",
         CASE r.kind = "" -> "all" [] r.kind = "function" -> "fn" [] OTHER -> "kind"}
         \union With(r.dir # <<>>, "fp") \union With(r.primary, "primary"),
       Fixed(r.kind = "function", "callables") \union Fixed(r.primary, "primary"),
       If(r.name # <<>>, Bind("name", r.name))
         \o If(r.kind \notin {"", "function"}, Bind("kind", r.kind))
         \o If(r.dir # <<>>, Bind("under", r.dir)), "probe")

(* A filter by length spares methods that are asked for; its name does not *)
(* know.                                                                   *)
SymbolList(r) ==
  Plan("nodes",
       {"symbol_list"} \union With(r.kind # "", "k") \union With(r.file # 0, "f")
         \union With(r.name # <<>>, "g") \union With(r.span > 0, "s"),
       {},
       If(r.file # 0, Bind("file", r.file)) \o If(r.name # <<>>, Bind("name", r.name))
         \o If(r.kind # "", Bind("kind", r.kind))
         \o If(r.span > 0 /\ r.kind # "method", Bind("span", r.span)), "probe")

Scope(r) == IF r.primary THEN "primary" ELSE IF r.file # 0 THEN "file"
            ELSE IF r.dir = <<>> THEN "all" ELSE "dir"

SymbolsInPath(r) ==
  LET scope == Scope(r) IN
  Plan("nodes",
       {"symbols_in_path", scope}
         \union With(scope \in {"primary", "dir"}, IF r.recursive THEN "r" ELSE "n")
         \union With(r.kind # "", "k1") \union With(r.span > 0, "s"),
       Fixed(scope = "primary", "primary")
         \union Fixed(scope = "primary" /\ ~r.recursive, "flat"),
       (CASE scope = "file" -> <<Bind("file", r.file)>>
          [] scope = "dir"  -> <<Bind("under", r.dir)>>
                                 \o If(~r.recursive, Bind("not_deep", r.dir))
          [] OTHER          -> <<>>)
         \o If(r.kind # "", Bind("kind", r.kind))
         \o If(r.span > 0 /\ r.kind # "method", Bind("span", r.span)), "probe")

FileSummary(r) ==
  Plan("nodes", {"file_symbols"}, Fixed(TRUE, "symbol"), <<Bind("file", r.file)>>, "probe")

ListHttpCalls(r) ==
  Plan("http",
       {"list_http_calls"} \union With(r.dir # <<>>, "glob") \union With(r.primary, "primary"),
       Fixed(r.primary, "primary"), If(r.dir # <<>>, Bind("under", r.dir)), "count")

(* The methods that dependency_cluster puts into clusters: of a class or   *)
(* of a file, under one name.  It has no pages.                            *)
ClusterMethods(r) ==
  Plan("nodes", {"dc_methods"}, {Bind("kind", "method")},
       <<IF r.holder # 0 THEN Bind("holder", r.holder) ELSE Bind("file", r.file)>>, "all")

PlanOf(r) ==
  CASE r.tool = "file_search"        -> FileSearch(r)
    [] r.tool = "dir_list"           -> DirList(r)
    [] r.tool = "symbol_search"      -> SymbolSearch(r)
    [] r.tool = "symbol_list"        -> SymbolList(r)
    [] r.tool = "symbols_in_path"    -> SymbolsInPath(r)
    [] r.tool = "file_summary"       -> FileSummary(r)
    [] r.tool = "list_http_calls"    -> ListHttpCalls(r)
    [] r.tool = "dependency_cluster" -> ClusterMethods(r)

-----------------------------------------------------------------------------
(* QueryCache                                                              *)

Statement(plan) == [fixed |-> plan.fixed, vars |-> Roles(plan.binds)]

(* What a name stands for, once it has been asked for.                     *)
Prepared(statements, plan) ==
  IF plan.name \in DOMAIN statements THEN statements[plan.name] ELSE Statement(plan)

(* get(): what was prepared under the name, whatever it was prepared for.  *)
Get(statements, plan) ==
  [name \in DOMAIN statements \union {plan.name} |->
     IF name = plan.name THEN Prepared(statements, plan) ELSE statements[name]]

(* Values are bound by position: first those of the conditions, then the   *)
(* number of rows and the offset.  A value too many is refused, unnoticed; *)
(* a condition without one, or a limit that is no number, selects nothing. *)
Execute(statement, plan, limit, offset) ==
  LET given  == [i \in DOMAIN plan.binds |-> plan.binds[i].value] \o <<limit, offset>>
      n      == Len(statement.vars)
      number(i) == i <= Len(given) /\ (i > Len(plan.binds) \/ plan.binds[i].role = "span")
      conditions == {Bind(statement.vars[i], given[i]) : i \in 1 .. n} \union statement.fixed
      rows   == Select(plan.table, conditions) IN
  IF plan.page = "all" THEN rows
  ELSE IF number(n + 1) /\ number(n + 2)
  THEN SubSeq(rows, given[n + 2] + 1, Smaller(Len(rows), given[n + 2] + given[n + 1]))
  ELSE <<>>

(* The server empties the cache when the database has changed.             *)
Fresh == IF stale THEN <<>> ELSE cache

-----------------------------------------------------------------------------
(* Pages.                                                                  *)

HasBudget == {"symbol_list", "symbols_in_path"}

Page(rows, limit, budget) ==
  IF budget = 0 THEN Take(limit, rows)
  ELSE PageOf(rows, limit, budget, [n \in ToSet(rows) |-> idx.nodes[n].size])

(* The answer: rows, whether there are more, and the total, which a        *)
(* statement of its own counts.                                            *)
Respond(r, statements, offset) ==
  LET plan   == PlanOf(r)
      stmt   == Prepared(statements, plan)
      read   == Execute(stmt, plan, IF plan.page = "probe" THEN r.limit + 1 ELSE r.limit, offset)
      rows   == IF plan.page = "all" THEN read
                ELSE Page(read, r.limit, IF r.tool \in HasBudget THEN r.budget ELSE 0)
      total  == Len(Select(plan.table, plan.fixed \union ToSet(plan.binds))) IN
  [rows |-> rows, total |-> total,
   more |-> CASE plan.page = "probe" -> Len(rows) < Len(read)
              [] plan.page = "count" -> offset + r.limit < total
              [] OTHER -> FALSE]

NoWalk == [r |-> [tool |-> "none"], read |-> <<>>, more |-> FALSE, same |-> TRUE,
           empty |-> FALSE, handles |-> {}]

Served(r) == cache' = Get(Fresh, PlanOf(r)) /\ stale' = FALSE

Turn(r, offset, before) ==
  LET a == Respond(r, Fresh, offset) IN
  walk' = [r |-> r, read |-> before \o a.rows, more |-> a.more,
           same |-> IF before = <<>> THEN TRUE ELSE walk.same /\ ~stale,
           empty |-> a.more /\ a.rows = <<>>,
           handles |-> IF r.tool \notin Symbols THEN {}
                       ELSE {[id |-> n, key |-> KeyOf(n)] : n \in ToSet(a.rows)}]

(* The first page of a list.                                               *)
List(r) ==
  /\ search.at # "search" /\ ~walk.more
  /\ left.lists > 0
  /\ left' = [left EXCEPT !.lists = @ - 1]
  /\ Turn(r, 0, <<>>)
  /\ Served(r)
  /\ UNCHANGED <<idx, search>>

(* The next page, from next_offset or from offset and limit: the number of *)
(* rows that were read.                                                    *)
More ==
  /\ search.at # "search" /\ walk.more
  /\ Turn(walk.r, Len(walk.read), walk.read)
  /\ Served(walk.r)
  /\ UNCHANGED <<idx, search, left>>

(* symbol_get with a handle that was read in the last page, by its key, by *)
(* its id with the key that is expected, or by its id alone.               *)
Follow ==
  /\ \E h \in walk.handles, by \in {"key", "id"}, checked \in BOOLEAN :
       /\ by = "key" => checked
       /\ AskSymbol([by |-> by, id |-> h.id, key |-> IF checked THEN h.key ELSE NoKey])
  /\ UNCHANGED <<cache, stale, walk>>

(* Another process, or a job, commits another index; an answer was about   *)
(* the one before.                                                         *)
Change(new) ==
  /\ search.at # "search"
  /\ left.changes > 0 /\ new # idx
  /\ left' = [left EXCEPT !.changes = @ - 1]
  /\ idx' = new
  /\ stale' = TRUE /\ search' = NoSearch
  /\ UNCHANGED <<cache, walk>>

-----------------------------------------------------------------------------
(* A client's session.                                                     *)

Init ==
  \E s \in Sessions :
    /\ idx = s.idx /\ left = s.left
    /\ search = NoSearch
    /\ cache = <<>> /\ stale = FALSE
    /\ walk = NoWalk

Search ==
  /\ \/ \E q \in Requests.impact   : AskImpact(q)
     \/ \E q \in Requests.changes  : AskChanges(q)
     \/ \E q \in Requests.subgraph : AskSubgraph(q)
     \/ \E q \in Requests.path     : AskPath(q)
     \/ \E q \in Requests.callers  : AskCallers(q)
     \/ \E q \in Requests.around   : AskCallees(q) \/ AskRefs(q)
     \/ \E q \in Requests.deps     : AskDeps(q)
     \/ \E q \in Requests.impls    : AskImpls(q)
     \/ SearchSteps
  /\ UNCHANGED <<cache, stale, walk>>

Next ==
  \/ Search
  \/ \E r \in Requests.lists : List(r)
  \/ More
  \/ Follow
  \/ \E new \in Commits : Change(new)

Spec == Init /\ [][Next]_vars

-----------------------------------------------------------------------------
(* Properties.                                                             *)

(* What a request asks for, said without statements.                       *)
Wanted(r, n) ==
  LET node == idx.nodes[n] IN
  /\ r.kind = "" \/ node.kind = r.kind
       \/ (r.tool = "symbol_search" /\ r.kind = "function" /\ node.kind = "method")
  /\ r.name # <<>> => BareName(node.qual) = BareName(r.name)
  /\ r.file # 0    => InFile(n, LAMBDA f : f = r.file)
  /\ r.primary     => InFile(n, IsPrimary)
  /\ r.dir # <<>>  => InFile(n, LAMBDA f : Under(f, r.dir))
  /\ r.tool = "file_summary" => IsSymbol(idx, n)
  /\ r.tool = "symbols_in_path" /\ ~r.recursive /\ (r.primary \/ r.dir # <<>>) =>
       InFile(n, LAMBDA f : Directly(f, r.dir))
  /\ r.span = 0 \/ r.kind = "method" \/ node.span >= r.span \/ node.public
  /\ r.tool = "dependency_cluster" =>
       /\ node.kind = "method"
       /\ r.holder # 0 => [src |-> r.holder, dst |-> n] \in
            {[src |-> e.src, dst |-> e.dst] : e \in {x \in idx.edges : x.kind = "contains"}}

WantedFile(r, f) ==
  /\ Under(f, r.dir) /\ (r.primary => IsPrimary(f))
  /\ r.tool = "file_search" /\ r.language # "" => idx.language[f] = r.language

Meant(r) ==
  CASE r.tool \in Symbols ->
         InOrder({n \in NodeIds(idx) : Wanted(r, n)}, LAMBDA n : idx.nodes[n].place)
    [] r.tool = "file_search" -> InOrder({f \in Files : WantedFile(r, f)}, LAMBDA f : f)
    [] r.tool = "list_http_calls" ->
         InOrder({c \in HttpCalls : WantedFile(r, c.file)}, LAMBDA c : c.site)
    [] r.tool = "dir_list" -> Ordered(Entries(r.dir, r.primary), Before)

(* Requests whose statements have names of their own, too.                 *)
Uncrossed(lists) ==
  \A r, s \in lists : r.tool = s.tool =>
    /\ r.tool = "dependency_cluster" => (r.holder # 0 <=> s.holder # 0)
    /\ r.tool \in {"symbol_list", "symbols_in_path"} /\ r.span > 0 /\ s.span > 0
         /\ r.kind # "" /\ s.kind # "" => (r.kind = "method" <=> s.kind = "method")

(* No node is of a language in which a method takes itself as its first    *)
(* parameter.                                                              *)
SelfIsExplicit(i) == \A n \in DOMAIN i.nodes : i.nodes[n].lang \notin {"python", "rust"}

(* A client that reads a list to its end, page by page, while the index    *)
(* stays as it is, has read each of the rows that its request means, once  *)
(* and in order, whatever its limit and budget and whatever was asked on   *)
(* the connection before; and every page takes it further.                 *)
PagesAreComplete ==
  walk.r.tool # "none" /\ walk.same /\ ~stale =>
    /\ ~walk.empty
    /\ ~walk.more => walk.read = Meant(walk.r)

(* The statement of a request is the one that its parameters make, and not *)
(* one that another request has left under the same name.                  *)
StatementsFit ==
  walk.r.tool # "none" /\ ~stale =>
    cache[PlanOf(walk.r).name] = Statement(PlanOf(walk.r))
=============================================================================
