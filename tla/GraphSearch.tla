----------------------------- MODULE GraphSearch -----------------------------
(***************************************************************************)
(* The searches of src/src/mcp/tools.cpp: impact_of, detect_changes,       *)
(* subgraph and shortest_path walk the edges of an index, row by row and   *)
(* level by level, within limits; file_deps, find_implementations and the  *)
(* callers of Callsites are answered at once.                              *)
(*                                                                         *)
(* A request sees one index from beginning to end (CommittedReads).  Where *)
(* a query names no order, and where it orders by rank, which is left out, *)
(* rows come in any order.                                                 *)
(***************************************************************************)
EXTENDS Callsites

CONSTANTS
  ImpactCap,   \* kMaxImpacted: the most symbols detect_changes reports (500)
  HeadFactor,  \* shortest_path gives up after max_depth times this (100)
  BaseLimit    \* find_implementations looks at no more types (10)

ASSUME SearchAssumption == ImpactCap \in Nat \ {0} /\ HeadFactor \in Nat /\ BaseLimit \in Nat

VARIABLES
  idx,     \* the index, and the commit and the versions it was made from
  search,  \* the request that is being answered, or its answer
  left     \* the tools that the client uses, and how many requests it has left

NoSearch == [tool |-> "none", at |-> "none"]

Running(tool) == search.tool = tool /\ search.at = "search"

Ask(tool) ==
  /\ search.at # "search"
  /\ tool \in left.tools
  /\ left.searches > 0
  /\ left' = [left EXCEPT !.searches = @ - 1]
  /\ UNCHANGED idx

Continue(next) == search' = next /\ UNCHANGED <<idx, left>>

NotFound(q) == [tool |-> "not_found", at |-> "done", q |-> q]

Found(rows) == {r.node : r \in ToSet(rows)}

-----------------------------------------------------------------------------
(* resolve_node_id(): a handle to a node.  A key outlives the ids, which   *)
(* another index gives to other nodes.                                     *)

NoKey == 0

KeyOf(n) == idx.nodes[n].key

KeyedNodes(key) == {n \in NodeIds(idx) : KeyOf(n) = key}

(* By key; by id, checked against the key that is expected, if one is; or  *)
(* by name in a file, definitions first, if that names one symbol.         *)
Resolve(h) ==
  LET named == {n \in NodeIds(idx) : /\ IsSymbol(idx, n) /\ idx.nodes[n].file = h.file
                                     /\ BareName(idx.nodes[n].qual) = h.name}
      defs  == {n \in named : idx.nodes[n].def}
      best  == IF defs = {} THEN named ELSE defs IN
  CASE h.by = "key"  -> KeyedNodes(h.key)
    [] h.by = "id"   -> IF h.key = NoKey THEN {h.id} ELSE {h.id} \intersect KeyedNodes(h.key)
    [] h.by = "name" -> IF Cardinality(best) = 1 THEN best ELSE {}

(* symbol_get                                                              *)
AskSymbol(h) ==
  /\ Ask("symbol_get")
  /\ search' = [tool |-> "symbol_get", q |-> h, at |-> "done",
                rows |-> {KeyOf(n) : n \in {m \in Resolve(h) : IsSymbol(idx, m)}}]

-----------------------------------------------------------------------------
(* impact_of: what depends on a node, by any relation but containment.     *)

Dependents(n, conf) ==
  {e \in idx.edges : e.dst = n /\ e.kind # "contains" /\ e.conf >= conf}

AskImpact(q) ==
  /\ Ask("impact_of")
  /\ search' =
       IF q.node \notin NodeIds(idx) THEN NotFound(q)
       ELSE [tool |-> "impact_of", q |-> q, at |-> "search", d |-> 1,
             frontier |-> <<q.node>>, next |-> <<>>,
             rows |-> IF q.depth > 0 THEN Dependents(q.node, q.conf) ELSE {},
             seen |-> {q.node}, found |-> <<>>, exact |-> FALSE,
             truncated |-> FALSE, candidates |-> NoCandidates]

ImpactAnswer(s) ==
  [s EXCEPT !.at = "done", !.rows = {},
            !.candidates = IF ShouldCollect(s.q.mode, ~s.exact)
                           THEN Collect(idx, s.q.node, s.q.max, s.q) ELSE @]

(* A row; the node that has no room ends the search.                       *)
ImpactRow ==
  /\ Running("impact_of")
  /\ \E e \in search.rows :
       LET read == [search EXCEPT !.rows = @ \ {e},
                                  !.exact = @ \/ (search.d = 1 /\ e.kind = "calls")]
           hit  == [node |-> e.src, via |-> e.dst, distance |-> search.d] IN
       Continue(IF e.src \in search.seen THEN read
                ELSE IF Len(search.found) >= search.q.max
                THEN ImpactAnswer([read EXCEPT !.truncated = TRUE])
                ELSE [read EXCEPT !.seen  = @ \union {e.src},
                                  !.found = Append(@, hit),
                                  !.next  = Append(@, e.src)])

(* The next node of the frontier, the next level, or the answer.           *)
ImpactNext ==
  /\ Running("impact_of") /\ search.rows = {}
  /\ LET rest == Tail(search.frontier)
         to(nodes, s) == [s EXCEPT !.frontier = nodes,
                                   !.rows = Dependents(Head(nodes), s.q.conf)] IN
     Continue(IF rest # <<>> THEN to(rest, search)
              ELSE IF search.next = <<>> \/ search.d >= search.q.depth THEN ImpactAnswer(search)
              ELSE to(search.next, [search EXCEPT !.next = <<>>, !.d = @ + 1]))

-----------------------------------------------------------------------------
(* detect_changes: what calls the symbols of changed files.                *)

Missing == 0  \* the version of a file that does not exist

(* source_revision_status(): the row's hash against the file in the commit *)
(* that is compared.                                                       *)
SourceStatus(f) ==
  IF ~idx.hashed[f]                  THEN "unknown"
  ELSE IF f \in idx.huge             THEN "verification_limit_exceeded"
  ELSE IF idx.target[f] = Missing     THEN "not_in_target_revision"
  ELSE IF idx.target[f] = idx.rows[f] THEN "matches_target_revision"
  ELSE "content_mismatch"

SymbolsOfFile(f) == {n \in NodeIds(idx) : IsSymbol(idx, n) /\ idx.nodes[n].file = f}

(* What becomes of a changed file.                                         *)
FileStatus(f) ==
  IF idx.rows[f] = Missing
  THEN IF f \in idx.source THEN "not_indexed" ELSE "unsupported_language"
  ELSE IF SourceStatus(f) \in {"content_mismatch", "not_in_target_revision",
                               "verification_limit_exceeded"} THEN "source_revision_unavailable"
  ELSE IF SymbolsOfFile(f) = {} THEN "no_indexed_symbols"
  ELSE "indexed"

Unmapped(f)   == f \in idx.source /\ FileStatus(f) # "indexed"
Unverified(f) == /\ f \in idx.source /\ FileStatus(f) \in {"indexed", "no_indexed_symbols"}
                 /\ SourceStatus(f) = "unknown" \/ f \notin idx.parsed

MappingStatus(changed) ==
  LET source == changed \intersect idx.source IN
  IF source = {} THEN "no_source_changes"
  ELSE IF \A f \in source : Unmapped(f) THEN "unresolved"
  ELSE IF \E f \in source : Unmapped(f) \/ Unverified(f) THEN "partial"
  ELSE "complete"

IndexRevision ==
  IF idx.commit = Missing           THEN "unknown"
  ELSE IF idx.commit = idx.compared THEN "matches_target"
  ELSE "stale"

(* Files that git names and the pattern keeps.                             *)
ChangedFiles(q) == idx.changed \intersect q.files

AskChanges(q) ==
  LET seeds == UNION {SymbolsOfFile(f) : f \in {g \in ChangedFiles(q) : FileStatus(g) = "indexed"}} IN
  /\ Ask("detect_changes")
  /\ search' = [tool |-> "detect_changes", q |-> q, at |-> "search", d |-> 1,
                frontier |-> seeds, seeds |-> seeds, seen |-> seeds, found |-> <<>>,
                truncated |-> FALSE]

CallersOf(nodes, conf) ==
  {e \in Calls(idx) : e.dst \in nodes /\ e.conf >= conf /\ IsSymbol(idx, e.src)}

(* Variant: only what overflows a level counts as cut off.                 *)
CutInLevel(s, pending, found) ==
  Cardinality(pending) > ImpactCap - Len(s.found)

(* The level did not fit, or the cap is reached with levels to go.         *)
CutOff(s, pending, found) ==
  \/ Cardinality(pending) > ImpactCap - Len(s.found)
  \/ Len(found) >= ImpactCap /\ s.d < s.q.depth /\ Len(found) > Len(s.found)

(* A level: the best edge of each new caller, the most confident callers   *)
(* first, as many as there is room for.                                    *)
ChangesLevel ==
  /\ Running("detect_changes")
  /\ search.d <= search.q.depth /\ search.frontier # {} /\ Len(search.found) < ImpactCap
  /\ LET edges   == {e \in CallersOf(search.frontier, search.q.conf) : e.src \notin search.seen}
         pending == {e.src : e \in edges}
         conf    == [n \in pending |-> Max({e.conf : e \in {x \in edges : x.src = n}})]
         room    == ImpactCap - Len(search.found)
         level   == Take(room, Ordered(pending, LAMBDA a, b :
                       conf[a] > conf[b] \/ (conf[a] = conf[b] /\ a < b)))
         found   == search.found \o [i \in DOMAIN level |->
                       [node |-> level[i], conf |-> conf[level[i]], distance |-> search.d]] IN
     Continue([search EXCEPT !.frontier = ToSet(level), !.seen = @ \union ToSet(level),
                             !.found = found, !.d = @ + 1,
                             !.truncated = @ \/ CutOff(search, pending, found)])

ChangesAnswer ==
  /\ Running("detect_changes")
  /\ \/ search.d > search.q.depth \/ search.frontier = {}
     \/ Len(search.found) >= ImpactCap
  /\ Continue([search EXCEPT !.at = "done"])

(* The verdict of an answer.                                               *)
AnalysisComplete(s) ==
  /\ IndexRevision = "matches_target"
  /\ MappingStatus(ChangedFiles(s.q)) \in {"complete", "no_source_changes"}
  /\ ~s.truncated

-----------------------------------------------------------------------------
(* subgraph: what some nodes lead to.                                      *)

Forward(n) == {e \in idx.edges : e.src = n}

AskSubgraph(q) ==
  /\ Ask("subgraph")
  /\ search' = [tool |-> "subgraph", q |-> q, at |-> "search", d |-> 0,
                frontier |-> q.seeds, next |-> <<>>,
                rows |-> IF q.depth > 0 /\ q.seeds # <<>> THEN Forward(Head(q.seeds)) ELSE {},
                seen |-> ToSet(q.seeds), edges |-> {}, truncated |-> FALSE]

(* A row; its edge is listed before there turns out to be no room for its  *)
(* node.                                                                   *)
SubgraphRow ==
  /\ Running("subgraph")
  /\ \E e \in search.rows :
       LET read == [search EXCEPT !.rows = @ \ {e}]
           with == [read EXCEPT !.edges = @ \union {e}] IN
       Continue(IF e.kind \notin search.q.kinds THEN read
                ELSE IF e.dst \in search.seen THEN with
                ELSE IF Cardinality(search.seen) >= search.q.max
                THEN [with EXCEPT !.truncated = TRUE, !.at = "done", !.rows = {}]
                ELSE [with EXCEPT !.seen = @ \union {e.dst},
                                  !.next = Append(@, e.dst)])

SubgraphNext ==
  /\ Running("subgraph") /\ search.rows = {}
  /\ LET rest == IF search.frontier = <<>> THEN <<>> ELSE Tail(search.frontier)
         to(nodes, s) == [s EXCEPT !.frontier = nodes, !.rows = Forward(Head(nodes))] IN
     Continue(IF rest # <<>> /\ search.d < search.q.depth THEN to(rest, search)
              ELSE IF search.next = <<>> \/ search.d + 1 >= search.q.depth
              THEN [search EXCEPT !.at = "done"]
              ELSE to(search.next, [search EXCEPT !.next = <<>>, !.d = @ + 1]))

-----------------------------------------------------------------------------
(* shortest_path: between two nodes, against or along edges.               *)

(* Rows of both directions; an empty filter allows every relation.         *)
Steps(n, kinds) ==
  {s \in {[to |-> e.dst, kind |-> e.kind] : e \in {x \in idx.edges : x.src = n}}
         \union {[to |-> e.src, kind |-> e.kind] : e \in {x \in idx.edges : x.dst = n}} :
     kinds = {} \/ s.kind \in kinds}

(* A queue of the nodes that were reached, each with the place of the one  *)
(* it was reached from; head is the place that is being expanded.          *)
Start(q) == <<[node |-> q.src, parent |-> 0]>>

PathTo(queue, i) ==
  LET path[j \in 1 .. i] ==
        IF j = 1 THEN <<queue[1].node>> ELSE Append(path[queue[j].parent], queue[j].node) IN
  path[i]

DepthAt(queue, i) == Len(PathTo(queue, i)) - 1

(* Places beyond the depth are passed over.                                *)
Expandable(s, head) ==
  IF head <= Len(s.queue) /\ DepthAt(s.queue, head) < s.q.depth
  THEN Steps(s.queue[head].node, s.q.kinds) ELSE {}

Expand(s, head) == [s EXCEPT !.head = head, !.rows = Expandable(s, head)]

AskPath(q) ==
  /\ Ask("shortest_path")
  /\ search' = Expand([tool |-> "shortest_path", q |-> q, at |-> "search",
                       queue |-> Start(q), head |-> 1, rows |-> {},
                       blocked |-> {}, paths |-> <<>>], 1)

(* What was found in between is not passed again; the ends may be.         *)
Inner(path) == {path[i] : i \in 2 .. Len(path) - 1}

(* A path; then, if more are wanted, another search.                       *)
WithPath(s, path) ==
  LET more == [s EXCEPT !.paths = Append(@, path), !.blocked = @ \union Inner(path),
                        !.queue = Start(s.q)] IN
  IF Len(more.paths) = s.q.paths THEN [more EXCEPT !.at = "done", !.rows = {}]
  ELSE Expand(more, 1)

PathRow ==
  /\ Running("shortest_path")
  /\ \E r \in search.rows :
       LET read  == [search EXCEPT !.rows = @ \ {r}]
           known == \E i \in DOMAIN search.queue : search.queue[i].node = r.to
           queue == Append(search.queue, [node |-> r.to, parent |-> search.head]) IN
       Continue(IF known \/ (r.to # search.q.dst /\ r.to \in search.blocked) THEN read
                ELSE IF r.to = search.q.dst THEN WithPath(read, PathTo(queue, Len(queue)))
                ELSE [read EXCEPT !.queue = queue])

(* The next place, until the queue or the patience ends.                   *)
PathNext ==
  /\ Running("shortest_path") /\ search.rows = {}
  /\ LET head == search.head + 1 IN
     Continue(IF head > Len(search.queue) \/ head - 1 > search.q.depth * HeadFactor
              THEN [search EXCEPT !.at = "done"] ELSE Expand(search, head))

-----------------------------------------------------------------------------
(* Answers at once.                                                        *)

(* file_deps                                                               *)
FileDeps(f) ==
  LET includes == {e \in idx.edges : e.kind = "includes"} IN
  [includes    |-> {e.dst : e \in {x \in includes : x.src \in FileNodeOf(idx, f)}},
   included_by |-> {e.src : e \in {x \in includes : x.dst \in FileNodeOf(idx, f)}}]

TypeLike == {"class", "struct", "interface", "type", "trait"}

(* find_implementations: limit applies to each of the types of that name.  *)
Implementations(name, limit) ==
  LET bases == {n \in NodeIds(idx) : /\ idx.nodes[n].kind \in TypeLike
                                     /\ BareName(idx.nodes[n].qual) = name}
      first(S, n) == ToSet(Take(n, InOrder(S, LAMBDA x : x))) IN
  UNION {first({e.src : e \in {x \in idx.edges : x.dst = b /\ x.kind = "inherits"}}, limit) :
           b \in first(bases, BaseLimit)}

Answer(tool, q, rows) ==
  /\ Ask(tool)
  /\ search' = [tool |-> tool, q |-> q, at |-> "done", rows |-> rows]

AskDeps(q)    == Answer("file_deps", q, FileDeps(q.file))
AskImpls(q)   == Answer("find_implementations", q, Implementations(q.name, q.limit))
AskCallees(q) == Answer("callees_approx", q, CalleesApprox(idx, q))
AskRefs(q)    == Answer("references", q, References(idx, q))
AskCallers(q) == Answer("callers_approx", q, CallersApprox(idx, q))

SearchSteps ==
  \/ ImpactRow \/ ImpactNext \/ ChangesLevel \/ ChangesAnswer
  \/ SubgraphRow \/ SubgraphNext \/ PathRow \/ PathNext

-----------------------------------------------------------------------------
(* What the answers mean, said without walking.                            *)

(* What a relation leads to, and what as many as i steps of it do, for     *)
(* each i up to k.                                                         *)
Image(R, S) == {p[2] : p \in {x \in R : x[1] \in S}}

Within(S, R, k) ==
  LET ball[i \in 0 .. k] == IF i = 0 THEN S ELSE ball[i - 1] \union Image(R, ball[i - 1]) IN
  ball

Distinct(rows) == Cardinality(Found(rows)) = Len(rows)

(* Every row is at its distance, and nothing is left out of an answer that *)
(* is not truncated; one that is, is full, and something is left out.      *)
AtDistance(rows, ball, depth, truncated, max) ==
  /\ Distinct(rows)
  /\ \A r \in ToSet(rows) : /\ r.distance \in 1 .. depth
                            /\ r.node \in ball[r.distance] \ ball[r.distance - 1]
  /\ IF truncated THEN Len(rows) = max /\ ~(ball[depth] \subseteq Found(rows) \union ball[0])
     ELSE Found(rows) = ball[depth] \ ball[0]

ImpactIsExact(s) ==
  LET R    == {<<e.dst, e.src>> : e \in {x \in idx.edges : x.kind # "contains" /\ x.conf >= s.q.conf}}
      ball == Within({s.q.node}, R, s.q.depth) IN
  /\ AtDistance(s.found, ball, s.q.depth, s.truncated, s.q.max)
  /\ \A r \in ToSet(s.found) : <<r.via, r.node>> \in R /\ r.via \in ball[r.distance - 1]

(* What is called complete was indexed from the very files of the commit,  *)
(* and misses no caller of theirs.                                         *)
ChangesAreComplete(s) ==
  LET R      == {<<e.dst, e.src>> : e \in CallersOf({x.dst : x \in idx.edges}, s.q.conf)}
      source == ChangedFiles(s.q) \intersect idx.source IN
  AnalysisComplete(s) =>
    /\ idx.commit = idx.compared
    /\ \A f \in source : /\ idx.rows[f] # Missing /\ idx.rows[f] = idx.target[f]
                         /\ SymbolsOfFile(f) \subseteq s.seeds
    /\ AtDistance(s.found, Within(s.seeds, R, s.q.depth), s.q.depth, FALSE, ImpactCap)

(* All nodes within the depth and all edges that lead on from nearer ones; *)
(* a truncated answer has as many nodes as it may, and lacks some.         *)
SubgraphIsExact(s) ==
  LET kept  == {e \in idx.edges : e.kind \in s.q.kinds}
      ball  == Within(ToSet(s.q.seeds), {<<e.src, e.dst>> : e \in kept}, s.q.depth)
      edges == {e \in kept : s.q.depth > 0 /\ e.src \in ball[s.q.depth - 1]} IN
  IF s.truncated
  THEN /\ Cardinality(s.seen) >= s.q.max /\ s.edges \subseteq edges
       /\ s.seen \subseteq ball[s.q.depth] /\ s.seen # ball[s.q.depth]
  ELSE s.seen = ball[s.q.depth] /\ s.edges = edges

(* The pairs of nodes that an edge of a kind connects, either way.         *)
Links(kinds) ==
  LET kept == {e \in idx.edges : kinds = {} \/ e.kind \in kinds} IN
  {<<e.src, e.dst>> : e \in kept} \union {<<e.dst, e.src>> : e \in kept}

(* No path is shorter than those that are found, each of which avoids the  *)
(* ones before; none is found where none is, or the patience has ended.    *)
PathsAreShortest(s) ==
  LET open(k) == {p \in Links(s.q.kinds) :
                    p[2] = s.q.dst \/ \A i \in 1 .. k : p[2] \notin Inner(s.paths[i])}
      ball(k) == Within({s.q.src}, open(k), s.q.depth)
      n       == Len(s.paths) IN
  s.q.src # s.q.dst =>
    /\ \A k \in 1 .. n :
         LET path == s.paths[k] IN
         /\ path[1] = s.q.src /\ Last(path) = s.q.dst
         /\ \A i \in 1 .. Len(path) - 1 : <<path[i], path[i + 1]>> \in open(k - 1)
         /\ Len(path) - 1 <= s.q.depth
         /\ Len(path) = 2 \/ s.q.dst \notin ball(k - 1)[Len(path) - 2]
    /\ n < s.q.paths => \/ s.q.dst \notin ball(n)[s.q.depth]
                        \/ s.head > s.q.depth * HeadFactor

(* What a walk answers, whatever the order of the rows, is what its        *)
(* request means: all dependents, connections and shortest paths within    *)
(* the limits, at their distances, and an answer that left something out   *)
(* says so.  An analysis of changes is called complete only if it is.  A   *)
(* handle with a key never leads to another symbol.                        *)
SearchesAreExact ==
  search.at = "done" =>
    CASE search.tool = "impact_of"      -> ImpactIsExact(search)
      [] search.tool = "detect_changes" -> ChangesAreComplete(search)
      [] search.tool = "subgraph"       -> SubgraphIsExact(search)
      [] search.tool = "shortest_path"  -> PathsAreShortest(search)
      [] search.tool = "symbol_get"     -> \/ search.q.key = NoKey
                                           \/ search.rows \subseteq {search.q.key}
      [] OTHER -> TRUE

(* Could the binder bind this call to the symbol?                          *)
CouldCall(r, t) ==
  LET node(n)    == idx.nodes[n]
      symbols    == {n \in NodeIds(idx) : IsSymbol(idx, n)}
      caller     == [qual |-> IF r.in \in symbols THEN node(r.in).qual ELSE <<>>,
                     lang |-> r.lang]
      scopes(k)  == {node(n).qual : n \in {m \in symbols : node(m).kind = k}} IN
  /\ r.kind = "call" /\ BareName(r.name) = BareName(node(t).qual)
  /\ Compatible(node(t), r, caller, scopes("class"), scopes("namespace"))

(* Whoever asks for the callers of a symbol is not told that there are     *)
(* none while there is a call that it can mean: the answer has an exact    *)
(* caller, or all of these calls as candidates, or says that there are     *)
(* more; and a candidate whose receiver is of the symbol's own type never  *)
(* gives way to one whose receiver is not.                                 *)
CandidatesCoverCalls ==
  search.tool = "callers_approx" /\ IsSymbol(idx, search.q.node) =>
    LET q     == search.q
        a     == search.rows
        rows  == ToSet(a.candidates.rows)
        typed(r) == r.hint # <<>> /\ r.hint = Owner(idx, q.node)
        loose(r) == /\ ~SameLeaf(Receiver(r), Owner(idx, q.node))
                    /\ ~SameLeaf(r.hint, Owner(idx, q.node)) /\ Receiver(r) # This
        could == {r \in idx.refs : CouldCall(r, q.node)} IN
    /\ \/ \E i \in DOMAIN a.exact : IsSymbol(idx, a.exact[i].src)
       \/ could \subseteq rows
       \/ a.candidates.more
       \/ q.filter # <<>>
       \/ a.candidates.total > QueryLimit(CandidateRoom(q), q.filter)
    /\ \A r \in could \ rows :
         typed(r) /\ a.collected /\ q.filter = <<>>
           /\ a.candidates.total <= QueryLimit(CandidateRoom(q), q.filter) =>
         ResolveType(idx, r, Owner(idx, q.node)).ambiguous \/ ~ \E s \in rows : loose(s)
=============================================================================
