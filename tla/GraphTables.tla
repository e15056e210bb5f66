----------------------------- MODULE GraphTables -----------------------------
(***************************************************************************)
(* The graph in a database and what the transactions of the code do to it: *)
(* src/src/index/persister.h (the rows of a file, resolution) and          *)
(* src/src/db/workspace.cpp (other repositories in the same database).     *)
(*                                                                         *)
(* A database is a record of its tables: the version of the file that each *)
(* row of files was made from, the nodes, the references and the edges.    *)
(* A node is named by its stable key; in-place updates keep the node and   *)
(* change what it says.                                                    *)
(***************************************************************************)
EXTENDS CallBinding

CONSTANTS
  Paths,      \* files, numbered in the order of their paths
  RootOf,     \* the repository of each: Primary or an extra root
  Base,       \* its base name
  TestPaths,  \* the files whose path says test, mock, fake or stub
  Lang,       \* its language
  Versions,   \* versions of a file
  Content,    \* what the parser finds in each version of each file
  EdgesPerRef \* MAX_EDGES_PER_REF

Primary == 0
NoRow   == 0      \* also: the file does not exist

ASSUME PathAssumption ==
  /\ Paths \subseteq Nat \ {0} /\ IsFiniteSet(Paths)
  /\ Versions \subseteq Nat \ {NoRow} /\ 1 \in Versions
  /\ RootOf \in [Paths -> Nat]
  /\ TestPaths \subseteq Paths
  /\ EdgesPerRef \in Nat \ {0}

DefKinds == Callable \union {"class", "enum", "namespace"}
RefKinds == {"call", "include", "inherit", "type_ref"}

(* What the extractor finds: the definitions in source order (def tells a  *)
(* definition from a declaration), and references, each with the index of  *)
(* the symbol that contains it, 0 for none.                                *)
ASSUME ContentAssumption ==
  \A p \in Paths, v \in Versions :
    LET c == Content[p][v] IN
    /\ \A i \in 1 .. Len(c.defs) :
         /\ DOMAIN c.defs[i] = {"kind", "qual", "params", "def"}
         /\ c.defs[i].kind \in DefKinds /\ c.defs[i].qual # <<>>
    /\ \A r \in c.refs :
         /\ DOMAIN r = {"kind", "name", "in", "sep", "absolute", "hint", "args"}
         /\ r.kind \in RefKinds /\ r.name # <<>> /\ r.in \in 0 .. Len(c.defs)

NoNode      == [path |-> 0, kind |-> "none", name |-> <<>>, nth |-> 0]
FileNode(p) == [path |-> p, kind |-> "file", name |-> <<>>, nth |-> 0]
FileData    == [qual |-> <<>>, params |-> <<>>, def |-> TRUE]

(* make_stable_key() and resolve_collisions(): path, kind and name, bare   *)
(* in C and C++ and qualified elsewhere; equal ones are numbered from the  *)
(* top of the file.                                                        *)
HandleName(p, d) == IF Lang[p] \in CFamily THEN <<BareName(d.qual)>> ELSE d.qual

StableKey(p, defs, i) ==
  LET same(j) == /\ defs[j].kind = defs[i].kind
                 /\ HandleName(p, defs[j]) = HandleName(p, defs[i]) IN
  [path |-> p, kind |-> defs[i].kind, name |-> HandleName(p, defs[i]),
   nth |-> Cardinality({j \in 1 .. i : same(j)})]

SymbolRows(p, defs) ==
  [k \in {StableKey(p, defs, i) : i \in 1 .. Len(defs)} |->
     LET d == defs[CHOOSE i \in 1 .. Len(defs) : StableKey(p, defs, i) = k] IN
     [qual |-> d.qual, params |-> d.params, def |-> d.def]]

Owned(root) == {p \in Paths : RootOf[p] = root}

EmptyDb == [rows  |-> [p \in Paths |-> NoRow],
            nodes |-> [k \in {} |-> FileData],
            refs  |-> {},
            edges |-> {}]

Nodes(db)        == DOMAIN db.nodes
Symbols(db)      == {k \in Nodes(db) : k.kind # "file"}
SymbolsOf(db, p) == {k \in Symbols(db) : k.path = p}

-----------------------------------------------------------------------------
(* Deleting.                                                               *)

(* ON DELETE SET NULL on both columns of a reference that name nodes.      *)
Unlink(r, gone) ==
  [r EXCEPT !.in = IF @ \in gone THEN NoNode ELSE @,
            !.to = IF @ \in gone THEN NoNode ELSE @]

(* The rows of a table, those that are written over those that are there.  *)
Over(new, old) == [k \in DOMAIN new \union DOMAIN old |->
                     IF k \in DOMAIN new THEN new[k] ELSE old[k]]

(* Deleting nodes: their edges go with them.                               *)
DropNodes(db, gone) ==
  [db EXCEPT !.nodes = Restrict(@, DOMAIN @ \ gone),
             !.edges = {e \in @ : e.src \notin gone /\ e.dst \notin gone},
             !.refs  = {Unlink(r, gone) : r \in @}]

(* Deleting a row of files: its symbols and references go; the node of the *)
(* file has no file_id and stays.                                          *)
PruneFile(db, p) ==
  DropNodes([db EXCEPT !.rows[p] = NoRow, !.refs = {r \in @ : r.path # p}],
            SymbolsOf(db, p))

(* The rows that --force deletes, by hand and with foreign keys off: those *)
(* of the primary files and of the file nodes that belong to a row.        *)
ForceNodes(db) ==
  LET files == {p \in Owned(Primary) : db.rows[p] # NoRow} IN
  {k \in Nodes(db) : k.path \in files}

(* Variant: the references of other roots keep what they pointed to.       *)
ClearRowsOnly(db) ==
  LET gone == ForceNodes(db) IN
  [db EXCEPT !.rows  = [p \in Paths |-> IF RootOf[p] = Primary THEN NoRow ELSE @[p]],
             !.nodes = Restrict(@, DOMAIN @ \ gone),
             !.edges = {e \in @ : e.src \notin gone /\ e.dst \notin gone},
             !.refs  = {r \in @ : RootOf[r.path] # Primary}]

(* clear_main_project_index_for_force(): everything goes, or, beside extra *)
(* roots, the primary rows.                                                *)
ClearForForce(db) ==
  LET gone == ForceNodes(db) IN
  IF \A p \in Owned(Primary) : db.rows[p] = NoRow              THEN db
  ELSE IF \A p \in Paths \ Owned(Primary) : db.rows[p] = NoRow THEN EmptyDb
  ELSE DropNodes([db EXCEPT
         !.rows = [p \in Paths |-> IF RootOf[p] = Primary THEN NoRow ELSE @[p]],
         !.refs = {r \in @ : RootOf[r.path] # Primary}], gone)

-----------------------------------------------------------------------------
(* Writing the rows of a file.                                             *)

(* An edge that the index found.  seen is what traces add to a row of      *)
(* edges: observed_count above its default, first_seen and last_seen.      *)
Edge(src, dst, kind) ==
  [src |-> src, dst |-> dst, kind |-> kind, source |-> "static", seen |-> FALSE]

NewRef(p, defs, r) ==
  [path |-> p, kind |-> r.kind, name |-> r.name, sep |-> r.sep,
   absolute |-> r.absolute, hint |-> r.hint, args |-> r.args, to |-> NoNode,
   in |-> IF r.in = 0 THEN NoNode ELSE StableKey(p, defs, r.in)]

(* Variant: the edges of a file node are only deleted with its row.        *)
KnownStaticOut(db, p) ==
  {e \in db.edges : e.src.path = p /\ e.source = "static" /\ db.rows[p] # NoRow}

(* What the previous version called, included or contained.                *)
StaticOut(db, p) == {e \in db.edges : e.src.path = p /\ e.source = "static"}

(* What a version of a file says of itself.                                *)
FileRows(p, c) == Over(SymbolRows(p, c.defs), [k \in {FileNode(p)} |-> FileData])
FileRefs(p, c) == {NewRef(p, c.defs, r) : r \in c.refs}
Containments(p, c) ==
  {Edge(FileNode(p), k, "contains") : k \in DOMAIN SymbolRows(p, c.defs)}

(* persist_file(): symbols keep their nodes, and with them what points to  *)
(* them; symbols that are gone are deleted; references are written anew,   *)
(* unresolved; the file contains each of its symbols.                      *)
PersistFile(db, p, v) ==
  LET new  == Content[p][v]
      kept == DropNodes(db, SymbolsOf(db, p) \ DOMAIN FileRows(p, new)) IN
  [rows  |-> [kept.rows EXCEPT ![p] = v],
   nodes |-> Over(FileRows(p, new), kept.nodes),
   refs  |-> {r \in kept.refs : r.path # p} \union FileRefs(p, new),
   edges |-> (kept.edges \ StaticOut(kept, p)) \union Containments(p, new)]

-----------------------------------------------------------------------------
(* Resolving references.                                                   *)

Qual(db, k) == db.nodes[k].qual

ScopeNames(db, kinds) == {Qual(db, k) : k \in {s \in Symbols(db) : s.kind \in kinds}}
ClassKinds == {"class"}
TypeKinds  == {"class", "enum"}

(* The symbols a call may mean, in all repositories.                       *)
Candidates(db, r) ==
  LET classes    == ScopeNames(db, ClassKinds)
      namespaces == ScopeNames(db, {"namespace"})
      caller     == [qual |-> IF r.in = NoNode THEN <<>> ELSE Qual(db, r.in),
                     lang |-> Lang[r.path]] IN
  {k \in Symbols(db) :
     /\ BareName(k.name) = BareName(r.name)
     /\ Compatible([kind |-> k.kind, qual |-> Qual(db, k), lang |-> Lang[k.path],
                    params |-> db.nodes[k].params],
                   r, caller, classes, namespaces)}

(* Real code before tests, definitions before declarations; ties, which    *)
(* the code breaks by row, are left out of the instances.                  *)
Preferred(db, S) ==
  LET real == {k \in S : k.path \notin TestPaths}
      best == IF real = {} THEN S ELSE real
      defs == {k \in best : db.nodes[k].def} IN
  IF defs = {} THEN best ELSE defs

Named(db, kinds, name) ==
  {k \in Symbols(db) : k.kind \in kinds /\ <<BareName(k.name)>> = name}

(* owned_file_nodes_sql: the file nodes that a row of files owns.          *)
FileNodes(db) == {k \in Nodes(db) : k.kind = "file" /\ db.rows[k.path] # NoRow}

Meanings(db, r) ==
  CASE r.kind = "call"     -> Candidates(db, r)
    [] r.kind = "include"  ->
         Preferred(db, {k \in FileNodes(db) : <<Base[k.path]>> = r.name})
    [] r.kind = "inherit"  -> Preferred(db, Named(db, ClassKinds, r.name))
    [] r.kind = "type_ref" -> Preferred(db, Named(db, TypeKinds, r.name))

EdgeKind == [call |-> "calls", include |-> "includes",
             inherit |-> "inherits", type_ref |-> "references"]

Source(r) == IF r.in = NoNode THEN FileNode(r.path) ELSE r.in

Unresolved(db) == {r \in db.refs : r.to = NoNode}
Linked(db, r)  == \E e \in db.edges :
                    e.src = Source(r) /\ e.dst = r.to /\ e.kind = EdgeKind[r.kind]

(* The references a run looks at: a full run at every unresolved one of    *)
(* the primary repository; a targeted run at those of the files it wrote   *)
(* and at those, anywhere, that name exactly what these files define.      *)
FullyAffected(db) == {r \in Unresolved(db) : RootOf[r.path] = Primary}

Attracted(db, changed) ==
  {r \in Unresolved(db) :
     \/ r.path \in changed
     \/ /\ r.sep = "none"
        /\ \E k \in Symbols(db) : /\ k.path \in changed /\ db.nodes[k].def
                                  /\ r.name = <<BareName(k.name)>>}

(* A reference with one meaning is resolved to it; a call with several     *)
(* stays unresolved.                                                       *)
Bind(db, affected) ==
  LET to(r) == IF r \in affected /\ Cardinality(Meanings(db, r)) = 1
               THEN CHOOSE k \in Meanings(db, r) : TRUE ELSE r.to IN
  [db EXCEPT !.refs = {[r EXCEPT !.to = to(r)] : r \in @}]

(* The first of the symbols that are found, in the order of the code.      *)
FirstMeanings(S) ==
  IF Cardinality(S) <= EdgesPerRef THEN S
  ELSE S \intersect CHOOSE T \in SUBSET S : Cardinality(T) = EdgesPerRef

(* ... and has an edge to each of its meanings, up to the limit.           *)
FoundEdges(db, affected) ==
  {Edge(Source(a[1]), a[2], EdgeKind[a[1].kind]) :
     a \in UNION {{<<r, k>> : k \in FirstMeanings(Meanings(db, r))} : r \in affected}}

(* An edge is inserted where there is none of its kind, of any source.     *)
InsertMissing(db, edges) ==
  LET known == {<<e.src, e.dst, e.kind>> : e \in db.edges} IN
  [db EXCEPT !.edges =
     @ \union {e \in edges : <<e.src, e.dst, e.kind>> \notin known}]

(* Variant: nothing is repaired.                                           *)
NoRepair(db) == db

(* Edges that a resolved primary reference has lost.                       *)
RepairEdges(db) ==
  InsertMissing(db,
    {Edge(Source(r), r.to, EdgeKind[r.kind]) :
       r \in {s \in db.refs : /\ RootOf[s.path] = Primary
                              /\ s.to \in Nodes(db) /\ Source(s) \in Nodes(db)}})

-----------------------------------------------------------------------------
(* Extra roots.                                                            *)

RootNodes(db, root) == {k \in Nodes(db) : RootOf[k.path] = root}

ClearRoot(db, root) ==
  DropNodes([db EXCEPT
    !.rows = [p \in Paths |-> IF RootOf[p] = root THEN NoRow ELSE @[p]],
    !.refs = {r \in @ : RootOf[r.path] # root}], RootNodes(db, root))

(* Variant: observed edges are not kept.                                   *)
StaticRelationships(db, root) ==
  LET mine == RootNodes(db, root) IN
  {e \in db.edges : e.kind # "calls" /\ Cardinality({e.src, e.dst} \intersect mine) = 1}

(* stage_refresh_relationships(): what a refresh takes from the database   *)
(* itself: observed edges, and cross-root edges other than calls.          *)
Relationships(db, root) ==
  LET mine == RootNodes(db, root) IN
  {e \in db.edges :
     /\ e.src \in mine \/ e.dst \in mine
     /\ \/ e.source # "static"
        \/ e.kind # "calls" /\ ~({e.src, e.dst} \subseteq mine)}

(* The rows of a root are replaced by those of its own index; then what    *)
(* had pointed into the root is restored by stable key.                    *)
ReplaceRoot(db, root, src) ==
  LET cleared == ClearRoot(db, root)
      nodes   == Over(src.nodes, cleared.nodes)
      gone    == RootNodes(db, root) \ DOMAIN nodes
      lost(r) == r.to \in gone \/ (r.kind = "call" /\ r.to \in RootNodes(db, root)) IN
  [rows  |-> [p \in Paths |-> IF RootOf[p] = root THEN src.rows[p] ELSE cleared.rows[p]],
   nodes |-> nodes,
   refs  |-> src.refs \union
             {IF lost(r) THEN [r EXCEPT !.to = NoNode] ELSE r :
                r \in {s \in db.refs : RootOf[s.path] # root}},
   edges |-> src.edges \union cleared.edges \union
             {e \in Relationships(db, root) : {e.src, e.dst} \subseteq DOMAIN nodes}]

(* resolve_workspace_refs(): calls that nothing in their own repository    *)
(* answers, from the root to the others and from the others to the root.   *)
CrossRoot(db, root, r) ==
  LET all   == Candidates(db, r)
      local == {k \in all : RootOf[k.path] = RootOf[r.path]} IN
  IF r.kind # "call" \/ r.in = NoNode \/ local # {} THEN {}
  ELSE IF RootOf[r.path] = root THEN all
  ELSE {k \in all : RootOf[k.path] = root}

ResolveWorkspace(db, root) ==
  LET to(r) == IF r.to = NoNode /\ Cardinality(CrossRoot(db, root, r)) = 1
               THEN CHOOSE k \in CrossRoot(db, root, r) : TRUE ELSE r.to
      found == UNION {{Edge(r.in, k, "calls") : k \in CrossRoot(db, root, r)} :
                       r \in Unresolved(db)} IN
  InsertMissing([db EXCEPT !.refs = {[r EXCEPT !.to = to(r)] : r \in @}], found)

(* The files of a repository, written into an empty database.              *)
Written(root, disk) ==
  LET found == {p \in Owned(root) : disk[p] # NoRow}
      at(p) == Content[p][disk[p]] IN
  [rows  |-> [p \in Paths |-> IF p \in found THEN disk[p] ELSE NoRow],
   nodes |-> [k \in UNION {DOMAIN FileRows(p, at(p)) : p \in found} |->
                FileRows(k.path, at(k.path))[k]],
   refs  |-> UNION {FileRefs(p, at(p)) : p \in found},
   edges |-> UNION {Containments(p, at(p)) : p \in found}]

(* The index of a repository on its own, as a full run leaves it.          *)
StandaloneIndex(root, disk) ==
  LET written == Written(root, disk) IN
  InsertMissing(Bind(written, Unresolved(written)),
                FoundEdges(written, Unresolved(written)))

(* add_root(), new or again, and remove_root().                            *)
MergeRoot(db, root, disk) ==
  ResolveWorkspace(ReplaceRoot(db, root, StandaloneIndex(root, disk)), root)

RemoveRoot(db, root) == ClearRoot(db, root)

-----------------------------------------------------------------------------
(* ingest_traces(): the edges of a call that was observed are marked, also  *)
(* those that the index found; a call that has none gets one.              *)
Observe(db, caller, callee) ==
  LET call == {e \in db.edges : e.src = caller /\ e.dst = callee /\ e.kind = "calls"} IN
  [db EXCEPT !.edges =
     IF call = {}
     THEN @ \union {[src |-> caller, dst |-> callee, kind |-> "calls",
                     source |-> "runtime", seen |-> TRUE]}
     ELSE (@ \ call) \union {[e EXCEPT !.seen = TRUE] : e \in call}]
=============================================================================
