--------------------------- MODULE PersisterProofs ---------------------------
(***************************************************************************)
(* Proofs about Persister, for every set of files and versions, whatever   *)
(* the parser finds in them, and any number of runs, edits, commands and   *)
(* crashes.                                                                *)
(*                                                                         *)
(* The invariant says of one database what the properties say, row by row: *)
(* a table is Sound when each edge, each reference and each file fits.     *)
(* Everything the code does to the tables keeps them sound; the lemmas     *)
(* show it for each transaction on its own.  What is left for the runs is  *)
(* the order of the transactions.                                          *)
(***************************************************************************)
EXTENDS Persister, FiniteSetTheorems, WellFoundedInduction, TLAPS

-----------------------------------------------------------------------------
(* Sound tables.                                                           *)

IsDb(d) ==
  /\ d = [rows |-> d.rows, nodes |-> d.nodes, refs |-> d.refs, edges |-> d.edges]
  /\ d.rows \in [Paths -> Versions \union {NoRow}]
  /\ d.nodes = [k \in Nodes(d) |-> d.nodes[k]]
  /\ \A k \in Nodes(d) : k.path \in Paths

IsEdge(e) ==
  /\ e = [src |-> e.src, dst |-> e.dst, kind |-> e.kind, source |-> e.source,
          seen |-> e.seen]
  /\ e.seen \in BOOLEAN

(* An edge joins two nodes; a file contains its own symbols and nothing    *)
(* else, which no trace shows; what is static is called for, if the file   *)
(* has a row, or restored.                                                 *)
EdgeFits(d, e) ==
  /\ IsEdge(e) /\ e.src \in Nodes(d) /\ e.dst \in Nodes(d)
  /\ e.kind = "contains" =>
       /\ e.src = FileNode(e.dst.path) /\ e.dst.kind # "file"
       /\ e.source = "static" /\ e.seen = FALSE
  /\ e.source = "static" /\ d.rows[e.src.path] # NoRow => Justified(d, e) \/ Restored(e)

IsRef(r) ==
  r = [path |-> r.path, kind |-> r.kind, name |-> r.name, sep |-> r.sep,
       absolute |-> r.absolute, hint |-> r.hint, args |-> r.args, to |-> r.to,
       in |-> r.in]

(* A reference is one of a file with a row, lies in a symbol of this file  *)
(* and is resolved to a node of its name, if at all.                       *)
RefFits(d, r) ==
  /\ IsRef(r) /\ r.path \in Paths /\ d.rows[r.path] # NoRow /\ r.kind \in RefKinds
  /\ r.in # NoNode => r.in \in Nodes(d) /\ r.in.path = r.path
  /\ r.to # NoNode => r.to \in Nodes(d) /\ Fits(r, r.to)

(* What a reference says, wherever it has been resolved to.                *)
Said(r) == [r EXCEPT !.to = NoNode]

(* The rows of a file are those of its version.                            *)
FileFits(d, p) ==
  LET now == Content[p][d.rows[p]] IN
  /\ FileNode(p) \in Nodes(d)
  /\ SymbolsOf(d, p) = DOMAIN SymbolRows(p, now.defs)
  /\ \A k \in SymbolsOf(d, p) : d.nodes[k] = SymbolRows(p, now.defs)[k]
  /\ \A r \in d.refs : r.path = p => Said(r) \in FileRefs(p, now)
  /\ \A n \in FileRefs(p, now) :
       \E r \in d.refs : r.path = p /\ Said(r) = n
  /\ Containments(p, now) \subseteq d.edges

Sound(d) ==
  /\ IsDb(d)
  /\ \A e \in d.edges : EdgeFits(d, e)
  /\ \A r \in d.refs : RefFits(d, r)
  /\ \A p \in Paths : d.rows[p] # NoRow => FileFits(d, p)

(* A sound database says what the properties ask of it.                    *)
LEMMA SoundIsOneVersion ==
  ASSUME NEW d, Sound(d), NEW p \in Paths, d.rows[p] # NoRow
  PROVE  OneVersion(d, p)
<1> DEFINE now == Content[p][d.rows[p]]
<1>1. FileFits(d, p) BY DEF Sound
<1>2. Restrict(d.nodes, SymbolsOf(d, p)) = SymbolRows(p, now.defs)
  BY <1>1 DEF FileFits, Restrict, SymbolRows
<1>3. {[r EXCEPT !.to = NoNode] : r \in {s \in d.refs : s.path = p}} = FileRefs(p, now)
  BY <1>1 DEF FileFits, Said
<1>4. ASSUME NEW e \in d.edges, e.kind = "contains", e.src = FileNode(p)
      PROVE  e \in Containments(p, now)
  <2>1. EdgeFits(d, e) BY DEF Sound
  <2>2. /\ IsEdge(e) /\ e.src = FileNode(e.dst.path) /\ e.dst \in Nodes(d)
        /\ e.dst.kind # "file" /\ e.source = "static" /\ e.seen = FALSE
    BY <1>4, <2>1 DEF EdgeFits
  <2>3. e.dst.path = p BY <1>4, <2>2 DEF FileNode
  <2>4. e.dst \in DOMAIN SymbolRows(p, now.defs)
    BY <1>1, <2>2, <2>3 DEF FileFits, SymbolsOf, Symbols
  <2>5. e = Edge(FileNode(p), e.dst, "contains")
    BY <1>4, <2>2 DEF IsEdge, Edge
  <2> QED BY <2>4, <2>5 DEF Containments
<1>5. {e \in d.edges : e.kind = "contains" /\ e.src = FileNode(p)} = Containments(p, now)
  <2>1. \A e \in Containments(p, now) :
          e \in d.edges /\ e.kind = "contains" /\ e.src = FileNode(p)
    BY <1>1 DEF FileFits, Containments, Edge
  <2> QED BY <1>4, <2>1
<1>6. \A e \in d.edges : e.src.path = p /\ e.source = "static" =>
        Justified(d, e) \/ Restored(e)
  BY DEF Sound, EdgeFits
<1> QED BY <1>2, <1>3, <1>5, <1>6 DEF OneVersion

-----------------------------------------------------------------------------
(* Changing the fields of a record; the provers take one at a time.        *)

LEMMA RefWithTo ==
  ASSUME NEW r, IsRef(r), NEW t
  PROVE  [r EXCEPT !.to = t] =
           [path |-> r.path, kind |-> r.kind, name |-> r.name, sep |-> r.sep,
            absolute |-> r.absolute, hint |-> r.hint, args |-> r.args, to |-> t,
            in |-> r.in]
BY DEF IsRef

LEMMA RefWithEnds ==
  ASSUME NEW r, IsRef(r), NEW t, NEW u
  PROVE  [r EXCEPT !.in = u, !.to = t] =
           [path |-> r.path, kind |-> r.kind, name |-> r.name, sep |-> r.sep,
            absolute |-> r.absolute, hint |-> r.hint, args |-> r.args, to |-> t,
            in |-> u]
<1> DEFINE x == [r EXCEPT !.in = u]
           y == [x EXCEPT !.to = t]
<1>1. x = [path |-> r.path, kind |-> r.kind, name |-> r.name, sep |-> r.sep,
           absolute |-> r.absolute, hint |-> r.hint, args |-> r.args, to |-> r.to,
           in |-> u]
  BY DEF IsRef
<1>2. [r EXCEPT !.in = u, !.to = t] = y OBVIOUS
<1> HIDE DEF x
<1>3. y = [path |-> r.path, kind |-> r.kind, name |-> r.name, sep |-> r.sep,
           absolute |-> r.absolute, hint |-> r.hint, args |-> r.args, to |-> t,
           in |-> u]
  BY <1>1
<1> HIDE DEF y
<1> QED BY <1>2, <1>3

LEMMA EdgeWithSeen ==
  ASSUME NEW e, IsEdge(e), NEW t
  PROVE  [e EXCEPT !.seen = t] =
           [src |-> e.src, dst |-> e.dst, kind |-> e.kind, source |-> e.source,
            seen |-> t]
BY DEF IsEdge

LEMMA DbWithRowsAndRefs ==
  ASSUME NEW d, IsDb(d), NEW rows, NEW refs
  PROVE  [d EXCEPT !.rows = rows, !.refs = refs] =
           [rows |-> rows, nodes |-> d.nodes, refs |-> refs, edges |-> d.edges]
<1> DEFINE x == [d EXCEPT !.rows = rows]
           y == [x EXCEPT !.refs = refs]
<1>1. x = [rows |-> rows, nodes |-> d.nodes, refs |-> d.refs, edges |-> d.edges]
  BY DEF IsDb
<1>2. [d EXCEPT !.rows = rows, !.refs = refs] = y OBVIOUS
<1> HIDE DEF x
<1>3. y = [rows |-> rows, nodes |-> d.nodes, refs |-> refs, edges |-> d.edges]
  BY <1>1
<1> HIDE DEF y
<1> QED BY <1>2, <1>3

LEMMA DbWithoutNodes ==
  ASSUME NEW d, d = [rows |-> d.rows, nodes |-> d.nodes, refs |-> d.refs, edges |-> d.edges],
         NEW gone
  PROVE  DropNodes(d, gone) =
           [rows  |-> d.rows,
            nodes |-> Restrict(d.nodes, DOMAIN d.nodes \ gone),
            refs  |-> {Unlink(r, gone) : r \in d.refs},
            edges |-> {e \in d.edges : e.src \notin gone /\ e.dst \notin gone}]
<1> DEFINE n == Restrict(d.nodes, DOMAIN d.nodes \ gone)
           r == {Unlink(s, gone) : s \in d.refs}
           e == {f \in d.edges : f.src \notin gone /\ f.dst \notin gone}
           x == [d EXCEPT !.nodes = n]
           y == [x EXCEPT !.edges = e]
           z == [y EXCEPT !.refs = r]
<1>1. DropNodes(d, gone) = [d EXCEPT !.nodes = n, !.edges = e, !.refs = r]
  BY DEF DropNodes
<1> HIDE DEF n, r, e
<1>2. x = [rows |-> d.rows, nodes |-> n, refs |-> d.refs, edges |-> d.edges]
  OBVIOUS
<1>3. [d EXCEPT !.nodes = n, !.edges = e, !.refs = r] = z OBVIOUS
<1> HIDE DEF x
<1>4. y = [rows |-> d.rows, nodes |-> n, refs |-> d.refs, edges |-> e] BY <1>2
<1> HIDE DEF y
<1>5. z = [rows |-> d.rows, nodes |-> n, refs |-> r, edges |-> e] BY <1>4
<1> HIDE DEF z
<1> QED BY <1>1, <1>3, <1>5 DEF n, r, e

-----------------------------------------------------------------------------
(* What a version of a file says of itself.                                *)

LEMMA SymbolRowsFit ==
  ASSUME NEW p \in Paths, NEW v \in Versions, NEW k \in DOMAIN SymbolRows(p, Content[p][v].defs)
  PROVE  k.path = p /\ k.kind # "file" /\ k # FileNode(p) /\ k # NoNode
<1> DEFINE defs == Content[p][v].defs
<1>1. PICK i \in 1 .. Len(defs) : k = StableKey(p, defs, i) BY DEF SymbolRows
<1>2. defs[i].kind \in DefKinds BY ContentAssumption
<1>3. k.path = p /\ k.kind = defs[i].kind BY <1>1 DEF StableKey
<1>4. "file" \notin DefKinds /\ "none" \notin DefKinds BY DEF DefKinds, Callable
<1> QED BY <1>2, <1>3, <1>4 DEF FileNode, NoNode

LEMMA FileRefsFit ==
  ASSUME NEW p \in Paths, NEW v \in Versions, NEW r \in FileRefs(p, Content[p][v])
  PROVE  /\ IsRef(r) /\ r.path = p /\ r.kind \in RefKinds /\ r.to = NoNode
         /\ Said(r) = r
         /\ r.in # NoNode => r.in \in DOMAIN SymbolRows(p, Content[p][v].defs)
<1> DEFINE defs == Content[p][v].defs
<1>1. PICK c \in Content[p][v].refs : r = NewRef(p, defs, c) BY DEF FileRefs
<1>2. c.kind \in RefKinds /\ c.in \in 0 .. Len(defs) BY ContentAssumption
<1>3. /\ IsRef(r) /\ r.path = p /\ r.kind = c.kind /\ r.to = NoNode
      /\ Said(r) = r
      /\ r.in = IF c.in = 0 THEN NoNode ELSE StableKey(p, defs, c.in)
  BY <1>1 DEF NewRef, IsRef, Said
<1>4. c.in # 0 => c.in \in 1 .. Len(defs) BY <1>2
<1>5. c.in # 0 => StableKey(p, defs, c.in) \in DOMAIN SymbolRows(p, defs)
  BY <1>4 DEF SymbolRows
<1> QED BY <1>2, <1>3, <1>5

LEMMA FileRowsFit ==
  ASSUME NEW p \in Paths, NEW v \in Versions
  PROVE  LET rows == SymbolRows(p, Content[p][v].defs)
             all  == FileRows(p, Content[p][v]) IN
         /\ DOMAIN all = DOMAIN rows \union {FileNode(p)}
         /\ \A k \in DOMAIN all : k.path = p
         /\ \A k \in DOMAIN all : (k.kind = "file") <=> (k = FileNode(p))
         /\ \A k \in DOMAIN rows : all[k] = rows[k]
<1> DEFINE rows == SymbolRows(p, Content[p][v].defs)
           all  == FileRows(p, Content[p][v])
<1>1. \A k \in DOMAIN rows : k.path = p /\ k.kind # "file" /\ k # FileNode(p)
  BY SymbolRowsFit
<1>2. FileNode(p).path = p /\ FileNode(p).kind = "file" BY DEF FileNode
<1> HIDE DEF rows
<1>3. all = Over(rows, [k \in {FileNode(p)} |-> FileData]) BY DEF FileRows, rows
<1> HIDE DEF all
<1>4. DOMAIN all = DOMAIN rows \union {FileNode(p)} BY <1>3 DEF Over
<1>5. \A k \in DOMAIN rows : all[k] = rows[k] BY <1>3 DEF Over
<1>6. /\ \A k \in DOMAIN all : k.path = p
      /\ \A k \in DOMAIN all : (k.kind = "file") <=> (k = FileNode(p))
  BY <1>1, <1>2, <1>4
<1> QED BY <1>4, <1>5, <1>6 DEF rows, all

-----------------------------------------------------------------------------
(* Deleting.                                                               *)

LEMMA DropFacts ==
  ASSUME NEW d, IsDb(d), NEW gone
  PROVE  LET new == DropNodes(d, gone) IN
         /\ IsDb(new) /\ new.rows = d.rows
         /\ Nodes(new) = Nodes(d) \ gone
         /\ \A k \in Nodes(new) : new.nodes[k] = d.nodes[k]
         /\ new.edges = {e \in d.edges : e.src \notin gone /\ e.dst \notin gone}
         /\ new.refs = {Unlink(r, gone) : r \in d.refs}
<1> DEFINE new == DropNodes(d, gone)
           n == Restrict(d.nodes, DOMAIN d.nodes \ gone)
           r == {Unlink(s, gone) : s \in d.refs}
           e == {f \in d.edges : f.src \notin gone /\ f.dst \notin gone}
<1>1. new = [rows |-> d.rows, nodes |-> n, refs |-> r, edges |-> e]
  BY DbWithoutNodes DEF IsDb
<1>2. n = [k \in Nodes(d) \ gone |-> d.nodes[k]] BY DEF Restrict, Nodes
<1> HIDE DEF new, n, r, e
<1>3. /\ new.rows = d.rows /\ new.nodes = n /\ new.refs = r /\ new.edges = e
      /\ new = [rows |-> new.rows, nodes |-> new.nodes, refs |-> new.refs,
                edges |-> new.edges]
  BY <1>1
<1>4. Nodes(new) = Nodes(d) \ gone /\ \A k \in Nodes(new) : new.nodes[k] = d.nodes[k]
  BY <1>2, <1>3 DEF Nodes
<1>5. IsDb(new)
  BY <1>2, <1>3, <1>4 DEF IsDb
<1> QED BY <1>3, <1>4, <1>5 DEF new, r, e

(* A reference that loses its ends says what it said.                      *)
LEMMA UnlinkFacts ==
  ASSUME NEW r, IsRef(r), NEW gone
  PROVE  LET s == Unlink(r, gone) IN
         /\ IsRef(s) /\ s.path = r.path /\ s.kind = r.kind /\ s.name = r.name
         /\ s.to = IF r.to \in gone THEN NoNode ELSE r.to
         /\ s.in = IF r.in \in gone THEN NoNode ELSE r.in
         /\ r.in \notin gone => Said(s) = Said(r)
<1> DEFINE s == Unlink(r, gone)
           t == IF r.to \in gone THEN NoNode ELSE r.to
           u == IF r.in \in gone THEN NoNode ELSE r.in
<1>1. s = [r EXCEPT !.in = u, !.to = t] BY DEF Unlink
<1> HIDE DEF s, t, u
<1>2. s = [path |-> r.path, kind |-> r.kind, name |-> r.name, sep |-> r.sep,
           absolute |-> r.absolute, hint |-> r.hint, args |-> r.args, to |-> t,
           in |-> u]
  BY <1>1, RefWithEnds
<1>3. IsRef(s) BY <1>2 DEF IsRef
<1>4. u = r.in => Said(s) = Said(r)
  BY <1>2, <1>3, RefWithTo DEF Said
<1> QED BY <1>2, <1>3, <1>4 DEF s, t, u

-----------------------------------------------------------------------------
(* What stays when the tables change.                                      *)

LEMMA SaidTheSame ==
  ASSUME NEW r, NEW s, IsRef(r), IsRef(s), Said(r) = Said(s)
  PROVE  r.path = s.path /\ r.kind = s.kind /\ r.in = s.in /\ r.name = s.name
<1>1. \A t : IsRef(t) =>
        /\ Said(t).path = t.path /\ Said(t).kind = t.kind
        /\ Said(t).in = t.in /\ Said(t).name = t.name
  BY RefWithTo DEF Said
<1> QED BY <1>1

(* The references of a file in two databases say the same.                 *)
SaysTheSame(d, new, p) ==
  /\ \A r \in d.refs : r.path = p => \E s \in new.refs : IsRef(s) /\ Said(s) = Said(r)
  /\ \A s \in new.refs : s.path = p => \E r \in d.refs : IsRef(r) /\ Said(s) = Said(r)

LEMMA StillJustified ==
  ASSUME NEW d, Sound(d), NEW new, NEW e, Justified(d, e), SaysTheSame(d, new, e.src.path)
  PROVE  Justified(new, e)
<1>1. CASE e.kind = "contains" BY <1>1 DEF Justified
<1>2. CASE e.kind # "contains"
  <2>1. PICK r \in d.refs : /\ r.path = e.src.path /\ Source(r) = e.src
                            /\ EdgeKind[r.kind] = e.kind /\ Fits(r, e.dst)
    BY <1>2 DEF Justified
  <2>2. IsRef(r) BY DEF Sound, RefFits
  <2>3. PICK s \in new.refs : IsRef(s) /\ Said(s) = Said(r)
    BY <2>1 DEF SaysTheSame
  <2>4. s.path = r.path /\ s.kind = r.kind /\ s.in = r.in /\ s.name = r.name
    BY <2>2, <2>3, SaidTheSame
  <2>5. Source(s) = e.src /\ Fits(s, e.dst) BY <2>1, <2>4 DEF Source, Fits
  <2> QED BY <2>1, <2>4, <2>5 DEF Justified
<1> QED BY <1>1, <1>2

LEMMA FileStays ==
  ASSUME NEW d, Sound(d), NEW new, NEW p \in Paths, d.rows[p] # NoRow,
         new.rows[p] = d.rows[p], FileNode(p) \in Nodes(new),
         SymbolsOf(new, p) = SymbolsOf(d, p),
         \A k \in SymbolsOf(d, p) : new.nodes[k] = d.nodes[k],
         \A s \in new.refs : IsRef(s),
         SaysTheSame(d, new, p),
         \A e \in d.edges : e.kind = "contains" /\ e.src.path = p => e \in new.edges
  PROVE  FileFits(new, p)
<1> DEFINE now == Content[p][d.rows[p]]
<1>1. FileFits(d, p) BY DEF Sound
<1>2. \A r \in d.refs : IsRef(r) BY DEF Sound, RefFits
<1>3. \A r \in new.refs : r.path = p => Said(r) \in FileRefs(p, now)
  <2> SUFFICES ASSUME NEW s \in new.refs, s.path = p PROVE Said(s) \in FileRefs(p, now)
    OBVIOUS
  <2>1. PICK r \in d.refs : Said(s) = Said(r) BY DEF SaysTheSame
  <2>2. r.path = p BY <1>2, <2>1, SaidTheSame
  <2> QED BY <1>1, <2>1, <2>2 DEF FileFits
<1>4. \A n \in FileRefs(p, now) : \E r \in new.refs : r.path = p /\ Said(r) = n
  <2> SUFFICES ASSUME NEW n \in FileRefs(p, now)
               PROVE  \E s \in new.refs : s.path = p /\ Said(s) = n
    OBVIOUS
  <2>1. PICK r \in d.refs : r.path = p /\ Said(r) = n BY <1>1 DEF FileFits
  <2>2. PICK s \in new.refs : Said(s) = Said(r) BY <2>1 DEF SaysTheSame
  <2>3. s.path = p BY <1>2, <2>1, <2>2, SaidTheSame
  <2> QED BY <2>1, <2>2, <2>3
<1>5. Containments(p, now) \subseteq new.edges
  <2>1. \A e \in Containments(p, now) : e.kind = "contains" /\ e.src.path = p
    BY DEF Containments, Edge, FileNode
  <2> QED BY <1>1, <2>1 DEF FileFits
<1> QED BY <1>1, <1>3, <1>4, <1>5 DEF FileFits

LEMMA NoNodeIsNone ==
  ASSUME NEW d, IsDb(d)
  PROVE  NoNode \notin Nodes(d)
BY PathAssumption DEF IsDb, NoNode

-----------------------------------------------------------------------------
(* Rows of some files are deleted, by cascade or by hand, and nodes of     *)
(* theirs with them.                                                       *)

Cut(d, P, gone) ==
  DropNodes([rows  |-> [q \in Paths |-> IF q \in P THEN NoRow ELSE d.rows[q]],
             nodes |-> d.nodes,
             refs  |-> {r \in d.refs : r.path \notin P},
             edges |-> d.edges], gone)

LEMMA CutFacts ==
  ASSUME NEW d, IsDb(d), NEW P, NEW gone
  PROVE  LET new == Cut(d, P, gone) IN
         /\ IsDb(new)
         /\ \A q \in Paths : new.rows[q] = IF q \in P THEN NoRow ELSE d.rows[q]
         /\ Nodes(new) = Nodes(d) \ gone
         /\ \A k \in Nodes(new) : new.nodes[k] = d.nodes[k]
         /\ new.edges = {e \in d.edges : e.src \notin gone /\ e.dst \notin gone}
         /\ new.refs = {Unlink(r, gone) : r \in {s \in d.refs : s.path \notin P}}
<1> DEFINE rows == [q \in Paths |-> IF q \in P THEN NoRow ELSE d.rows[q]]
           refs == {r \in d.refs : r.path \notin P}
           b == [rows |-> rows, nodes |-> d.nodes, refs |-> refs, edges |-> d.edges]
<1>1. rows \in [Paths -> Versions \union {NoRow}] BY DEF IsDb
<1>2. b.rows = rows /\ b.nodes = d.nodes /\ b.refs = refs /\ b.edges = d.edges
  OBVIOUS
<1>3. Nodes(b) = Nodes(d) BY <1>2 DEF Nodes
<1>4. b = [rows |-> b.rows, nodes |-> b.nodes, refs |-> b.refs, edges |-> b.edges]
  BY <1>2
<1> HIDE DEF rows, refs, b
<1>5. IsDb(b) BY <1>1, <1>2, <1>3, <1>4 DEF IsDb
<1>6. Cut(d, P, gone) = DropNodes(b, gone) BY DEF Cut, b, rows, refs
<1> QED BY <1>2, <1>3, <1>5, <1>6, DropFacts DEF rows, refs

LEMMA CutIsSound ==
  ASSUME NEW d, Sound(d), NEW P, NEW gone,
         \A k \in gone : k.path \in P /\ k.path \in Paths
  PROVE  Sound(Cut(d, P, gone))
<1> DEFINE new == Cut(d, P, gone)
<1>1. /\ IsDb(d) /\ \A e \in d.edges : EdgeFits(d, e)
      /\ \A r \in d.refs : RefFits(d, r)
      /\ \A p \in Paths : d.rows[p] # NoRow => FileFits(d, p)
  BY DEF Sound
<1>2. /\ IsDb(new)
      /\ \A q \in Paths : new.rows[q] = IF q \in P THEN NoRow ELSE d.rows[q]
      /\ Nodes(new) = Nodes(d) \ gone
      /\ \A k \in Nodes(new) : new.nodes[k] = d.nodes[k]
      /\ new.edges = {e \in d.edges : e.src \notin gone /\ e.dst \notin gone}
      /\ new.refs = {Unlink(r, gone) : r \in {s \in d.refs : s.path \notin P}}
  BY <1>1, CutFacts
<1> HIDE DEF new
<1>3. NoNode \notin gone BY PathAssumption DEF NoNode
<1>4. ASSUME NEW r \in d.refs, r.path \notin P
      PROVE  LET s == Unlink(r, gone) IN
             /\ s \in new.refs /\ RefFits(new, s) /\ s.path = r.path /\ Said(s) = Said(r)
  <2> DEFINE s == Unlink(r, gone)
  <2>1. RefFits(d, r) BY <1>1
  <2>2. r.in \notin gone BY <1>3, <1>4, <2>1 DEF RefFits
  <2>3. /\ IsRef(s) /\ s.path = r.path /\ s.kind = r.kind /\ s.name = r.name
        /\ s.to = IF r.to \in gone THEN NoNode ELSE r.to
        /\ s.in = r.in /\ Said(s) = Said(r)
    BY <2>1, <2>2, UnlinkFacts DEF RefFits
  <2>4. s \in new.refs BY <1>2, <1>4
  <2> HIDE DEF s
  <2>5. RefFits(new, s)
    BY <1>2, <1>4, <2>1, <2>2, <2>3 DEF RefFits, Fits
  <2> QED BY <2>3, <2>4, <2>5 DEF s
<1>5. \A s \in new.refs :
        \E r \in d.refs : r.path \notin P /\ s = Unlink(r, gone)
  BY <1>2
<1>6. \A s \in new.refs : RefFits(new, s) BY <1>4, <1>5
<1>7. ASSUME NEW p, p \notin P PROVE SaysTheSame(d, new, p)
  <2>1. \A r \in d.refs : IsRef(r) BY <1>1 DEF RefFits
  <2>2. \A r \in new.refs : IsRef(r) BY <1>6 DEF RefFits
  <2>3. ASSUME NEW r \in d.refs, r.path = p
        PROVE  \E s \in new.refs : IsRef(s) /\ Said(s) = Said(r)
    BY <1>4, <1>7, <2>2, <2>3
  <2>4. ASSUME NEW s \in new.refs PROVE \E r \in d.refs : IsRef(r) /\ Said(s) = Said(r)
    BY <1>4, <1>5, <2>1
  <2> QED BY <2>3, <2>4 DEF SaysTheSame
<1>8. ASSUME NEW e \in new.edges PROVE EdgeFits(new, e)
  <2>1. e \in d.edges /\ EdgeFits(d, e) /\ e.src \in Nodes(new) /\ e.dst \in Nodes(new)
    BY <1>1, <1>2 DEF EdgeFits
  <2>2. e.src.path \in Paths BY <1>2, <2>1 DEF IsDb
  <2>3. ASSUME e.source = "static", new.rows[e.src.path] # NoRow
        PROVE  Justified(new, e) \/ Restored(e)
    <3>1. e.src.path \notin P /\ d.rows[e.src.path] # NoRow
      BY <1>2, <2>2, <2>3
    <3>2. Justified(d, e) \/ Restored(e) BY <2>1, <2>3, <3>1 DEF EdgeFits
    <3>3. SaysTheSame(d, new, e.src.path) BY <1>7, <3>1
    <3> QED BY <3>2, <3>3, StillJustified
  <2> QED BY <2>1, <2>3 DEF EdgeFits
<1>9. ASSUME NEW p \in Paths, new.rows[p] # NoRow PROVE FileFits(new, p)
  <2>1. p \notin P /\ new.rows[p] = d.rows[p] /\ d.rows[p] # NoRow BY <1>2, <1>9
  <2>2. FileFits(d, p) BY <1>1, <2>1
  <2>3. FileNode(p) \in Nodes(new) BY <1>2, <2>1, <2>2 DEF FileFits, FileNode
  <2>4. SymbolsOf(new, p) = SymbolsOf(d, p) BY <1>2, <2>1 DEF SymbolsOf, Symbols
  <2>5. \A k \in SymbolsOf(d, p) : new.nodes[k] = d.nodes[k]
    BY <1>2, <2>4 DEF SymbolsOf, Symbols
  <2>6. \A s \in new.refs : IsRef(s) BY <1>6 DEF RefFits
  <2>7. ASSUME NEW e \in d.edges, e.kind = "contains", e.src.path = p PROVE e \in new.edges
    <3>1. EdgeFits(d, e) BY <1>1
    <3>2. e.dst.path = p BY <2>7, <3>1 DEF EdgeFits, FileNode
    <3> QED BY <1>2, <2>1, <2>7, <3>2
  <2>8. SaysTheSame(d, new, p) BY <1>7, <2>1
  <2> QED BY <2>1, <2>3, <2>4, <2>5, <2>6, <2>7, <2>8, FileStays
<1> QED BY <1>2, <1>6, <1>8, <1>9 DEF Sound, new

-----------------------------------------------------------------------------
(* Inserting edges.                                                        *)

LEMMA InsertFacts ==
  ASSUME NEW d, IsDb(d), NEW E
  PROVE  LET new == InsertMissing(d, E) IN
         /\ new = [rows |-> d.rows, nodes |-> d.nodes, refs |-> d.refs, edges |-> new.edges]
         /\ d.edges \subseteq new.edges /\ new.edges \subseteq d.edges \union E
         /\ \A x \in E : \E e \in new.edges :
              e.src = x.src /\ e.dst = x.dst /\ e.kind = x.kind
<1> DEFINE new == InsertMissing(d, E)
           known == {<<e.src, e.dst, e.kind>> : e \in d.edges}
           edges == d.edges \union {e \in E : <<e.src, e.dst, e.kind>> \notin known}
<1>1. new = [d EXCEPT !.edges = edges] BY DEF InsertMissing
<1>2. ASSUME NEW x \in E
      PROVE  \E e \in edges : e.src = x.src /\ e.dst = x.dst /\ e.kind = x.kind
  <2>1. CASE <<x.src, x.dst, x.kind>> \in known BY <2>1
  <2>2. CASE <<x.src, x.dst, x.kind>> \notin known BY <2>2
  <2> QED BY <2>1, <2>2
<1>3. d.edges \subseteq edges /\ edges \subseteq d.edges \union E OBVIOUS
<1> HIDE DEF new, edges
<1>4. new = [rows |-> d.rows, nodes |-> d.nodes, refs |-> d.refs, edges |-> edges]
  BY <1>1 DEF IsDb
<1> QED BY <1>2, <1>3, <1>4 DEF new

LEMMA InsertIsSound ==
  ASSUME NEW d, Sound(d), NEW E, \A e \in E : EdgeFits(d, e)
  PROVE  /\ Sound(InsertMissing(d, E))
         /\ \A e : EdgeFits(d, e) => EdgeFits(InsertMissing(d, E), e)
<1> DEFINE new == InsertMissing(d, E)
<1>1. /\ IsDb(d) /\ \A e \in d.edges : EdgeFits(d, e)
      /\ \A r \in d.refs : RefFits(d, r)
      /\ \A p \in Paths : d.rows[p] # NoRow => FileFits(d, p)
  BY DEF Sound
<1>2. /\ new = [rows |-> d.rows, nodes |-> d.nodes, refs |-> d.refs, edges |-> new.edges]
      /\ d.edges \subseteq new.edges /\ new.edges \subseteq d.edges \union E
  BY <1>1, InsertFacts
<1> HIDE DEF new
<1>3. new.rows = d.rows /\ new.nodes = d.nodes /\ new.refs = d.refs BY <1>2
<1>4. Nodes(new) = Nodes(d) BY <1>3 DEF Nodes
<1>5. IsDb(new) BY <1>1, <1>2, <1>3, <1>4 DEF IsDb
<1>6. \A e : EdgeFits(d, e) => EdgeFits(new, e)
  BY <1>3, <1>4 DEF EdgeFits, Justified
<1>7. \A r \in new.refs : RefFits(new, r) BY <1>1, <1>3, <1>4 DEF RefFits
<1>8. \A p \in Paths : SymbolsOf(new, p) = SymbolsOf(d, p)
  BY <1>4 DEF SymbolsOf, Symbols
<1>9. \A p \in Paths : new.rows[p] # NoRow => FileFits(new, p)
  BY <1>1, <1>2, <1>3, <1>4, <1>8 DEF FileFits
<1> QED BY <1>1, <1>2, <1>5, <1>6, <1>7, <1>9 DEF Sound, new

-----------------------------------------------------------------------------
(* Resolving references.                                                   *)

(* A node that a reference may mean has its name.                          *)
LEMMA MeaningsFit ==
  ASSUME NEW d, NEW r, r.kind \in RefKinds, NEW k \in Meanings(d, r)
  PROVE  k \in Nodes(d) /\ Fits(r, k)
<1>1. \A S : Preferred(d, S) \subseteq S BY DEF Preferred
<1>2. ASSUME NEW x PROVE BareName(<<x>>) = x BY DEF BareName, Last
<1>3. CASE r.kind = "call"
  <2>1. k \in Candidates(d, r) BY <1>3 DEF Meanings
  <2>2. k \in Symbols(d) /\ BareName(k.name) = BareName(r.name) BY <2>1 DEF Candidates
  <2> QED BY <2>2 DEF Symbols, Fits
<1>4. CASE r.kind = "include"
  <2>1. k \in FileNodes(d) /\ <<Base[k.path]>> = r.name BY <1>1, <1>4 DEF Meanings
  <2> QED BY <2>1 DEF FileNodes, Fits
<1>5. CASE r.kind \in {"inherit", "type_ref"}
  <2>1. k \in Named(d, ClassKinds, r.name) \/ k \in Named(d, TypeKinds, r.name)
    BY <1>1, <1>5 DEF Meanings
  <2>2. k \in Symbols(d) /\ <<BareName(k.name)>> = r.name BY <2>1 DEF Named
  <2>3. BareName(r.name) = BareName(k.name) BY <1>2, <2>2
  <2> QED BY <2>2, <2>3 DEF Symbols, Fits
<1> QED BY <1>3, <1>4, <1>5 DEF RefKinds

LEMMA CrossRootFits ==
  ASSUME NEW d, NEW root, NEW r, NEW k \in CrossRoot(d, root, r)
  PROVE  /\ k \in Nodes(d) /\ Fits(r, k)
         /\ r.kind = "call" /\ r.in # NoNode
<1>1. k \in Candidates(d, r) /\ r.kind = "call" /\ r.in # NoNode
  BY DEF CrossRoot
<1>2. k \in Symbols(d) /\ BareName(k.name) = BareName(r.name) BY <1>1 DEF Candidates
<1> QED BY <1>1, <1>2 DEF Symbols, Fits

(* The edge that a reference calls for to a node of its name fits.         *)
LEMMA CalledForFits ==
  ASSUME NEW d, Sound(d), NEW r \in d.refs, NEW k \in Nodes(d), Fits(r, k)
  PROVE  EdgeFits(d, Edge(Source(r), k, EdgeKind[r.kind]))
<1> DEFINE e == Edge(Source(r), k, EdgeKind[r.kind])
<1>1. RefFits(d, r) /\ (d.rows[r.path] # NoRow => FileFits(d, r.path))
  BY DEF Sound, RefFits
<1>2. FileNode(r.path) \in Nodes(d) /\ FileNode(r.path).path = r.path
  BY <1>1 DEF RefFits, FileFits, FileNode
<1>3. Source(r) \in Nodes(d) /\ Source(r).path = r.path
  BY <1>1, <1>2 DEF Source, RefFits
<1>4. e.src = Source(r) /\ e.dst = k /\ e.kind = EdgeKind[r.kind] /\ IsEdge(e)
  BY DEF Edge, IsEdge
<1>5. EdgeKind[r.kind] # "contains" BY <1>1 DEF EdgeKind, RefFits, RefKinds
<1> HIDE DEF e
<1>6. Justified(d, e) BY <1>3, <1>4 DEF Justified
<1> QED BY <1>3, <1>4, <1>5, <1>6 DEF EdgeFits, e

LEMMA FoundEdgesFit ==
  ASSUME NEW d, Sound(d), NEW R, R \subseteq d.refs
  PROVE  \A e \in FoundEdges(d, R) : EdgeFits(d, e)
<1> SUFFICES ASSUME NEW e \in FoundEdges(d, R) PROVE EdgeFits(d, e)
  OBVIOUS
<1>1. PICK r \in R : \E k \in Meanings(d, r) : e = Edge(Source(r), k, EdgeKind[r.kind])
  BY DEF FoundEdges, FirstMeanings
<1>2. PICK k \in Meanings(d, r) : e = Edge(Source(r), k, EdgeKind[r.kind])
  BY <1>1
<1>3. r.kind \in RefKinds BY DEF Sound, RefFits
<1>4. k \in Nodes(d) /\ Fits(r, k) BY <1>3, MeaningsFit
<1> QED BY <1>2, <1>4, CalledForFits

(* References are resolved, and say what they said.                        *)
LEMMA RetargetIsSound ==
  ASSUME NEW d, Sound(d), NEW R,
         \A s \in R : \E r \in d.refs :
           s = [r EXCEPT !.to = s.to] /\ (s.to # NoNode => s.to \in Nodes(d) /\ Fits(r, s.to)),
         \A r \in d.refs : \E s \in R : s = [r EXCEPT !.to = s.to]
  PROVE  LET new == [d EXCEPT !.refs = R] IN
         /\ Sound(new)
         /\ new = [rows |-> d.rows, nodes |-> d.nodes, refs |-> R, edges |-> d.edges]
         /\ \A e : EdgeFits(d, e) => EdgeFits(new, e)
<1> DEFINE new == [d EXCEPT !.refs = R]
<1>1. /\ IsDb(d) /\ \A e \in d.edges : EdgeFits(d, e)
      /\ \A r \in d.refs : RefFits(d, r) /\ IsRef(r)
      /\ \A p \in Paths : d.rows[p] # NoRow => FileFits(d, p)
  BY DEF Sound, RefFits
<1>2. new = [rows |-> d.rows, nodes |-> d.nodes, refs |-> R, edges |-> d.edges]
  BY <1>1 DEF IsDb
<1> HIDE DEF new
<1>3. new.rows = d.rows /\ new.nodes = d.nodes /\ new.refs = R /\ new.edges = d.edges
  BY <1>2
<1>4. Nodes(new) = Nodes(d) BY <1>3 DEF Nodes
<1>5. IsDb(new) BY <1>1, <1>2, <1>3, <1>4 DEF IsDb
<1>6. ASSUME NEW r, IsRef(r), NEW s, s = [r EXCEPT !.to = s.to]
      PROVE  /\ IsRef(s) /\ s.path = r.path /\ s.kind = r.kind /\ s.in = r.in
             /\ s.name = r.name /\ Said(s) = Said(r)
  <2>1. s = [path |-> r.path, kind |-> r.kind, name |-> r.name, sep |-> r.sep,
             absolute |-> r.absolute, hint |-> r.hint, args |-> r.args, to |-> s.to,
             in |-> r.in]
    BY <1>6, RefWithTo
  <2>2. IsRef(s) /\ s.path = r.path /\ s.kind = r.kind /\ s.in = r.in /\ s.name = r.name
        /\ s.sep = r.sep /\ s.absolute = r.absolute /\ s.hint = r.hint /\ s.args = r.args
    BY <2>1 DEF IsRef
  <2>3. Said(s) = Said(r) BY <1>6, <2>2, RefWithTo DEF Said
  <2> QED BY <2>2, <2>3
<1>7. ASSUME NEW s \in R PROVE RefFits(new, s)
  <2>1. PICK r \in d.refs :
          s = [r EXCEPT !.to = s.to] /\ (s.to # NoNode => s.to \in Nodes(d) /\ Fits(r, s.to))
    OBVIOUS
  <2>2. RefFits(d, r) /\ IsRef(r) BY <1>1
  <2>3. /\ IsRef(s) /\ s.path = r.path /\ s.kind = r.kind /\ s.in = r.in
        /\ s.name = r.name
    BY <1>6, <2>1, <2>2
  <2> QED BY <1>3, <1>4, <2>1, <2>2, <2>3 DEF RefFits, Fits
<1>8. \A p : SaysTheSame(d, new, p)
  <2>1. \A r \in d.refs : \E s \in R : IsRef(s) /\ Said(s) = Said(r) BY <1>1, <1>6
  <2>2. \A s \in R : \E r \in d.refs : IsRef(r) /\ Said(s) = Said(r) BY <1>1, <1>6
  <2> QED BY <1>3, <2>1, <2>2 DEF SaysTheSame
<1>9. \A e : EdgeFits(d, e) => EdgeFits(new, e)
  BY <1>3, <1>4, <1>8, StillJustified DEF EdgeFits
<1>10. ASSUME NEW p \in Paths, new.rows[p] # NoRow PROVE FileFits(new, p)
  <2>1. FileFits(d, p) BY <1>1, <1>3, <1>10
  <2>2. SymbolsOf(new, p) = SymbolsOf(d, p) BY <1>4 DEF SymbolsOf, Symbols
  <2>3. FileNode(p) \in Nodes(new) BY <1>4, <2>1 DEF FileFits
  <2>4. \A s \in new.refs : IsRef(s) BY <1>3, <1>7 DEF RefFits
  <2> QED BY <1>3, <1>8, <1>10, <2>2, <2>3, <2>4, FileStays
<1> QED BY <1>1, <1>2, <1>3, <1>5, <1>7, <1>9, <1>10 DEF Sound, new

(* The transactions of a run.                                              *)
LEMMA RepairIsSound ==
  ASSUME NEW d, Sound(d)
  PROVE  Sound(RepairEdges(d))
<1> DEFINE R == {s \in d.refs : /\ RootOf[s.path] = Primary
                                /\ s.to \in Nodes(d) /\ Source(s) \in Nodes(d)}
           E == {Edge(Source(r), r.to, EdgeKind[r.kind]) : r \in R}
<1>1. \A r \in R : r \in d.refs /\ r.to \in Nodes(d) /\ Fits(r, r.to)
  BY NoNodeIsNone DEF Sound, RefFits
<1>2. \A r \in R : EdgeFits(d, Edge(Source(r), r.to, EdgeKind[r.kind]))
  BY <1>1, CalledForFits
<1>3. \A e \in E : EdgeFits(d, e) BY <1>2
<1>4. RepairEdges(d) = InsertMissing(d, E) BY DEF RepairEdges
<1> HIDE DEF E
<1> QED BY <1>3, <1>4, InsertIsSound

(* After it every resolved reference of the repository has its edge.       *)
LEMMA RepairLinks ==
  ASSUME NEW d, Sound(d), NEW r \in RepairEdges(d).refs, RootOf[r.path] = Primary,
         r.to # NoNode
  PROVE  Linked(RepairEdges(d), r)
<1> DEFINE R == {s \in d.refs : /\ RootOf[s.path] = Primary
                                /\ s.to \in Nodes(d) /\ Source(s) \in Nodes(d)}
           E == {Edge(Source(s), s.to, EdgeKind[s.kind]) : s \in R}
           new == RepairEdges(d)
<1>1. new = InsertMissing(d, E) BY DEF RepairEdges
<1>2. IsDb(d) BY DEF Sound
<1> HIDE DEF E, new
<1>3. /\ new.refs = d.refs
      /\ \A x \in E : \E e \in new.edges :
           e.src = x.src /\ e.dst = x.dst /\ e.kind = x.kind
  BY <1>1, <1>2, InsertFacts
<1>4. r \in d.refs /\ RefFits(d, r) BY <1>3 DEF new, Sound
<1>5. FileNode(r.path) \in Nodes(d) BY <1>4 DEF RefFits, Sound, FileFits
<1>6. Source(r) \in Nodes(d) /\ r.to \in Nodes(d) BY <1>4, <1>5 DEF RefFits, Source
<1>7. Edge(Source(r), r.to, EdgeKind[r.kind]) \in E BY <1>4, <1>6 DEF E
<1> QED BY <1>3, <1>7 DEF Linked, Edge, new

LEMMA BindFacts ==
  ASSUME NEW d, Sound(d), NEW A
  PROVE  LET new == Bind(d, A) IN
         /\ Sound(new) /\ new.edges = d.edges /\ new.rows = d.rows /\ new.nodes = d.nodes
         /\ \A s \in new.refs : \E r \in d.refs :
              /\ s = [r EXCEPT !.to = s.to]
              /\ s.to # r.to => r \in A /\ s.to \in Meanings(d, r)
                               /\ Cardinality(Meanings(d, r)) = 1
         /\ \A e : EdgeFits(d, e) => EdgeFits(new, e)
<1> DEFINE to(r) == IF r \in A /\ Cardinality(Meanings(d, r)) = 1
                    THEN CHOOSE k \in Meanings(d, r) : TRUE ELSE r.to
           R == {[r EXCEPT !.to = to(r)] : r \in d.refs}
           new == Bind(d, A)
<1>1. new = [d EXCEPT !.refs = R] BY DEF Bind
<1>2. \A r \in d.refs : IsRef(r) /\ RefFits(d, r) BY DEF Sound, RefFits
<1>3. ASSUME NEW r \in d.refs
      PROVE  \/ to(r) = r.to
             \/ r \in A /\ to(r) \in Meanings(d, r) /\ Cardinality(Meanings(d, r)) = 1
  <2>1. CASE r \in A /\ Cardinality(Meanings(d, r)) = 1
    <3>1. Meanings(d, r) # {} BY <2>1, FS_EmptySet
    <3> QED BY <2>1, <3>1
  <2> QED BY <2>1
<1> HIDE DEF to
<1>4. \A r \in d.refs : [r EXCEPT !.to = to(r)].to = to(r)
  BY <1>2, RefWithTo
<1>5. ASSUME NEW s \in R
      PROVE  \E r \in d.refs :
               /\ s = [r EXCEPT !.to = s.to]
               /\ s.to # r.to => r \in A /\ s.to \in Meanings(d, r)
                                /\ Cardinality(Meanings(d, r)) = 1
  <2>1. PICK r \in d.refs : s = [r EXCEPT !.to = to(r)] OBVIOUS
  <2>2. s.to = to(r) BY <1>4, <2>1
  <2> QED BY <1>3, <2>1, <2>2
<1>6. ASSUME NEW s \in R
      PROVE  \E r \in d.refs :
               s = [r EXCEPT !.to = s.to] /\
               (s.to # NoNode => s.to \in Nodes(d) /\ Fits(r, s.to))
  <2>1. PICK r \in d.refs : /\ s = [r EXCEPT !.to = s.to]
                            /\ s.to # r.to => r \in A /\ s.to \in Meanings(d, r)
    BY <1>5
  <2>2. RefFits(d, r) BY <1>2
  <2>3. CASE s.to = r.to BY <2>1, <2>2, <2>3 DEF RefFits
  <2>4. CASE s.to # r.to
    <3>1. s.to \in Meanings(d, r) /\ r.kind \in RefKinds BY <2>1, <2>2, <2>4 DEF RefFits
    <3>2. s.to \in Nodes(d) /\ Fits(r, s.to) BY <3>1, MeaningsFit
    <3> QED BY <2>1, <3>2
  <2> QED BY <2>3, <2>4
<1>7. \A r \in d.refs : \E s \in R : s = [r EXCEPT !.to = s.to]
  BY <1>4
<1> HIDE DEF R, new
<1>8. /\ Sound(new)
      /\ new = [rows |-> d.rows, nodes |-> d.nodes, refs |-> R, edges |-> d.edges]
      /\ \A e : EdgeFits(d, e) => EdgeFits(new, e)
  BY <1>1, <1>6, <1>7, RetargetIsSound
<1> QED BY <1>5, <1>8 DEF new

(* A trace takes no edge away but to mark it.                              *)
LEMMA ObserveEdges ==
  ASSUME NEW d, Sound(d), NEW a \in Nodes(d), NEW b \in Nodes(d)
  PROVE  \E E : /\ Observe(d, a, b) = [d EXCEPT !.edges = E]
                /\ \A e \in E : EdgeFits(d, e)
                /\ \A e \in d.edges : e.kind = "contains" \/ e.seen = TRUE => e \in E
                /\ \A e \in d.edges : \E x \in E :
                     x.src = e.src /\ x.dst = e.dst /\ x.kind = e.kind
<1> DEFINE call == {e \in d.edges : e.src = a /\ e.dst = b /\ e.kind = "calls"}
           r == [src |-> a, dst |-> b, kind |-> "calls", source |-> "runtime", seen |-> TRUE]
           mark(e) == [e EXCEPT !.seen = TRUE]
           marked == {mark(e) : e \in call}
           E == IF call = {} THEN d.edges \union {r} ELSE (d.edges \ call) \union marked
<1>1. Observe(d, a, b) = [d EXCEPT !.edges = E] BY DEF Observe
<1>2. \A e \in d.edges : EdgeFits(d, e) BY DEF Sound
<1>3. EdgeFits(d, r) BY DEF EdgeFits, IsEdge
<1>4. ASSUME NEW e \in call
      PROVE  /\ mark(e).src = e.src /\ mark(e).dst = e.dst /\ mark(e).kind = e.kind
             /\ EdgeFits(d, mark(e))
             /\ e.seen = TRUE => mark(e) = e
  <2>1. IsEdge(e) /\ EdgeFits(d, e) BY <1>2 DEF EdgeFits
  <2>2. mark(e) = [src |-> e.src, dst |-> e.dst, kind |-> e.kind, source |-> e.source,
                   seen |-> TRUE]
    BY <2>1, EdgeWithSeen
  <2> DEFINE m == mark(e)
  <2> HIDE DEF m
  <2>3. /\ m.src = e.src /\ m.dst = e.dst /\ m.kind = e.kind /\ m.source = e.source
        /\ m.seen = TRUE /\ IsEdge(m)
    BY <2>2 DEF m, IsEdge
  <2>4. EdgeFits(d, m)
    <3>1. Justified(d, e) => Justified(d, m) BY <2>3 DEF Justified
    <3>2. Restored(e) => Restored(m) BY <2>3 DEF Restored
    <3> QED BY <2>1, <2>3, <3>1, <3>2 DEF EdgeFits
  <2>5. e.seen = TRUE => m = e BY <2>1, <2>2 DEF IsEdge, m
  <2> QED BY <2>3, <2>4, <2>5 DEF m
<1> HIDE DEF r, mark
<1>5. \A e \in E : EdgeFits(d, e) BY <1>2, <1>3, <1>4
<1>6. \A e \in d.edges : e.kind = "contains" \/ e.seen = TRUE => e \in E
  BY <1>4
<1>7. ASSUME NEW e \in d.edges
      PROVE  \E x \in E : x.src = e.src /\ x.dst = e.dst /\ x.kind = e.kind
  <2>1. CASE e \in call
    <3>1. mark(e) \in E BY <2>1
    <3> QED BY <1>4, <2>1, <3>1
  <2>2. CASE e \notin call BY <2>2
  <2> QED BY <2>1, <2>2
<1> HIDE DEF E
<1> QED BY <1>1, <1>5, <1>6, <1>7

LEMMA ObserveIsSound ==
  ASSUME NEW d, Sound(d), NEW a \in Nodes(d), NEW b \in Nodes(d)
  PROVE  LET new == Observe(d, a, b) IN
         /\ Sound(new) /\ new.refs = d.refs
         /\ \A e \in d.edges : e.seen = TRUE => e \in new.edges
         /\ \A e \in d.edges : \E x \in new.edges :
              x.src = e.src /\ x.dst = e.dst /\ x.kind = e.kind
         /\ \A e : EdgeFits(d, e) => EdgeFits(new, e)
<1> DEFINE new == Observe(d, a, b)
<1>1. PICK E : /\ new = [d EXCEPT !.edges = E]
               /\ \A e \in E : EdgeFits(d, e)
               /\ \A e \in d.edges : e.kind = "contains" \/ e.seen = TRUE => e \in E
               /\ \A e \in d.edges : \E x \in E :
                    x.src = e.src /\ x.dst = e.dst /\ x.kind = e.kind
  BY ObserveEdges
<1> HIDE DEF new
<1>2. /\ IsDb(d) /\ \A r \in d.refs : RefFits(d, r)
      /\ \A p \in Paths : d.rows[p] # NoRow => FileFits(d, p)
  BY DEF Sound
<1>3. new = [rows |-> d.rows, nodes |-> d.nodes, refs |-> d.refs, edges |-> E]
  BY <1>1, <1>2 DEF IsDb
<1>4. new.rows = d.rows /\ new.nodes = d.nodes /\ new.refs = d.refs /\ new.edges = E
  BY <1>3
<1>5. Nodes(new) = Nodes(d) BY <1>4 DEF Nodes
<1>6. IsDb(new) BY <1>2, <1>3, <1>4, <1>5 DEF IsDb
<1>7. \A e : EdgeFits(d, e) => EdgeFits(new, e)
  BY <1>4, <1>5 DEF EdgeFits, Justified
<1>8. \A r \in new.refs : RefFits(new, r) BY <1>2, <1>4, <1>5 DEF RefFits
<1>9. \A p \in Paths : SymbolsOf(new, p) = SymbolsOf(d, p)
  BY <1>5 DEF SymbolsOf, Symbols
<1>10. ASSUME NEW p \in Paths, new.rows[p] # NoRow PROVE FileFits(new, p)
  <2>1. FileFits(d, p) BY <1>2, <1>4, <1>10
  <2>2. Containments(p, Content[p][d.rows[p]]) \subseteq E
    BY <1>1, <2>1 DEF FileFits, Containments, Edge
  <2> QED BY <1>4, <1>5, <1>9, <2>1, <2>2 DEF FileFits
<1>11. Sound(new) BY <1>1, <1>4, <1>6, <1>7, <1>8, <1>10 DEF Sound
<1> QED BY <1>1, <1>4, <1>7, <1>11 DEF new

LEMMA ResolveWorkspaceFacts ==
  ASSUME NEW d, Sound(d), NEW root
  PROVE  LET new == ResolveWorkspace(d, root) IN
         /\ Sound(new) /\ d.edges \subseteq new.edges /\ Nodes(new) = Nodes(d)
<1> DEFINE one(r) == r.to = NoNode /\ Cardinality(CrossRoot(d, root, r)) = 1
           to(r) == IF one(r) THEN CHOOSE k \in CrossRoot(d, root, r) : TRUE ELSE r.to
           R == {[r EXCEPT !.to = to(r)] : r \in d.refs}
           E == UNION {{Edge(r.in, k, "calls") : k \in CrossRoot(d, root, r)} :
                         r \in Unresolved(d)}
           bound == [d EXCEPT !.refs = R]
<1>1. ResolveWorkspace(d, root) = InsertMissing(bound, E) BY DEF ResolveWorkspace
<1>2. \A r \in d.refs : IsRef(r) /\ RefFits(d, r) BY DEF Sound, RefFits
<1>3. ASSUME NEW r \in d.refs
      PROVE  to(r) = r.to \/ (to(r) \in Nodes(d) /\ Fits(r, to(r)))
  <2>1. CASE one(r)
    <3>1. CrossRoot(d, root, r) # {} BY <2>1, FS_EmptySet
    <3>2. to(r) \in CrossRoot(d, root, r) BY <2>1, <3>1
    <3> HIDE DEF to
    <3> QED BY <3>2, CrossRootFits
  <2> QED BY <2>1
<1> HIDE DEF to
<1>4. \A r \in d.refs : [r EXCEPT !.to = to(r)].to = to(r)
  BY <1>2, RefWithTo
<1>5. ASSUME NEW s \in R
      PROVE  \E r \in d.refs :
               s = [r EXCEPT !.to = s.to] /\
               (s.to # NoNode => s.to \in Nodes(d) /\ Fits(r, s.to))
  <2>1. PICK r \in d.refs : s = [r EXCEPT !.to = to(r)] OBVIOUS
  <2>2. s.to = to(r) BY <1>4, <2>1
  <2> QED BY <1>2, <1>3, <2>1, <2>2 DEF RefFits
<1>6. \A r \in d.refs : \E s \in R : s = [r EXCEPT !.to = s.to]
  BY <1>4
<1>7. \A e \in E : EdgeFits(d, e)
  <2> SUFFICES ASSUME NEW r \in Unresolved(d), NEW k \in CrossRoot(d, root, r)
               PROVE  EdgeFits(d, Edge(r.in, k, "calls"))
    OBVIOUS
  <2>1. r \in d.refs BY DEF Unresolved
  <2>2. k \in Nodes(d) /\ Fits(r, k) /\ r.kind = "call" /\ r.in # NoNode
    BY CrossRootFits
  <2>3. Source(r) = r.in /\ EdgeKind[r.kind] = "calls" BY <2>2 DEF Source, EdgeKind
  <2> QED BY <2>1, <2>2, <2>3, CalledForFits
<1> HIDE DEF R, E, bound
<1>8. /\ Sound(bound)
      /\ bound = [rows |-> d.rows, nodes |-> d.nodes, refs |-> R, edges |-> d.edges]
      /\ \A e : EdgeFits(d, e) => EdgeFits(bound, e)
  BY <1>5, <1>6, RetargetIsSound DEF bound
<1>9. Sound(InsertMissing(bound, E)) BY <1>7, <1>8, InsertIsSound
<1>10. IsDb(bound) /\ bound.edges = d.edges /\ Nodes(bound) = Nodes(d)
  BY <1>8 DEF Sound, Nodes
<1>11. bound.edges \subseteq InsertMissing(bound, E).edges
       /\ InsertMissing(bound, E).nodes = bound.nodes
  BY <1>10, InsertFacts
<1> QED BY <1>1, <1>9, <1>10, <1>11 DEF Nodes

-----------------------------------------------------------------------------
(* The deletions of the code are cuts.                                     *)

LEMMA PruneIsCut ==
  ASSUME NEW d, IsDb(d), NEW p \in Paths
  PROVE  PruneFile(d, p) = Cut(d, {p}, SymbolsOf(d, p))
<1> DEFINE refs == {r \in d.refs : r.path # p}
           rows == [d.rows EXCEPT ![p] = NoRow]
           x == [d EXCEPT !.rows = rows, !.refs = refs]
<1>1. PruneFile(d, p) = DropNodes([d EXCEPT !.rows[p] = NoRow, !.refs = refs], SymbolsOf(d, p))
  BY DEF PruneFile
<1>2. [d EXCEPT !.rows[p] = NoRow, !.refs = refs] = x OBVIOUS
<1>3. rows = [q \in Paths |-> IF q \in {p} THEN NoRow ELSE d.rows[q]] BY DEF IsDb
<1>4. refs = {r \in d.refs : r.path \notin {p}} OBVIOUS
<1> HIDE DEF rows, refs
<1>5. x = [rows |-> rows, nodes |-> d.nodes, refs |-> refs, edges |-> d.edges]
  BY DbWithRowsAndRefs
<1> HIDE DEF x
<1> QED BY <1>1, <1>2, <1>3, <1>4, <1>5 DEF Cut

LEMMA ClearIsCut ==
  ASSUME NEW d, Sound(d), NEW root, NEW gone
  PROVE  DropNodes([d EXCEPT
           !.rows = [p \in Paths |-> IF RootOf[p] = root THEN NoRow ELSE @[p]],
           !.refs = {r \in @ : RootOf[r.path] # root}], gone)
         = Cut(d, Owned(root), gone)
<1> DEFINE rows == [p \in Paths |-> IF RootOf[p] = root THEN NoRow ELSE d.rows[p]]
           refs == {r \in d.refs : RootOf[r.path] # root}
           x == [d EXCEPT !.rows = rows, !.refs = refs]
<1>1. rows = [q \in Paths |-> IF q \in Owned(root) THEN NoRow ELSE d.rows[q]]
  BY DEF Owned
<1>2. refs = {r \in d.refs : r.path \notin Owned(root)}
  BY DEF Owned, Sound, RefFits
<1>3. x = [rows |-> rows, nodes |-> d.nodes, refs |-> refs, edges |-> d.edges]
  BY DbWithRowsAndRefs DEF Sound
<1> HIDE DEF rows, refs
<1>4. [d EXCEPT
           !.rows = [p \in Paths |-> IF RootOf[p] = root THEN NoRow ELSE @[p]],
           !.refs = {r \in @ : RootOf[r.path] # root}] = x
  BY DEF rows, refs
<1> HIDE DEF x
<1> QED BY <1>1, <1>2, <1>3, <1>4 DEF Cut

LEMMA EmptyIsSound == Sound(EmptyDb)
<1>1. IsDb(EmptyDb) BY DEF EmptyDb, IsDb, Nodes
<1> QED BY <1>1 DEF Sound, EmptyDb

LEMMA DeletionsAreSound ==
  ASSUME NEW d, Sound(d)
  PROVE  /\ \A p \in Paths : Sound(PruneFile(d, p))
         /\ Sound(ClearForForce(d))
         /\ \A root : Sound(ClearRoot(d, root))
<1>1. IsDb(d) BY DEF Sound
<1>2. \A p \in Paths : Sound(PruneFile(d, p))
  <2> SUFFICES ASSUME NEW p \in Paths PROVE Sound(PruneFile(d, p)) OBVIOUS
  <2>1. \A k \in SymbolsOf(d, p) : k.path \in {p} /\ k.path \in Paths
    BY DEF SymbolsOf
  <2>2. Sound(Cut(d, {p}, SymbolsOf(d, p))) BY <2>1, CutIsSound
  <2> QED BY <1>1, <2>2, PruneIsCut
<1>3. ASSUME NEW gone, \A k \in gone : k.path \in Owned(Primary)
      PROVE  Sound(Cut(d, Owned(Primary), gone))
  BY <1>3, CutIsSound DEF Owned
<1>4. Sound(ClearForForce(d))
  <2>1. \A k \in ForceNodes(d) : k.path \in Owned(Primary) BY DEF ForceNodes
  <2>2. Sound(Cut(d, Owned(Primary), ForceNodes(d))) BY <1>3, <2>1
  <2> QED BY <2>2, ClearIsCut, EmptyIsSound DEF ClearForForce
<1>5. ASSUME NEW root PROVE Sound(ClearRoot(d, root))
  <2>1. \A k \in RootNodes(d, root) : k.path \in Owned(root) /\ k.path \in Paths
    BY <1>1 DEF RootNodes, Owned, IsDb
  <2>2. ClearRoot(d, root) = Cut(d, Owned(root), RootNodes(d, root))
    BY ClearIsCut DEF ClearRoot
  <2> QED BY <2>1, <2>2, CutIsSound
<1> QED BY <1>2, <1>4, <1>5

-----------------------------------------------------------------------------
(* Writing the rows of a file.                                             *)

(* What the tables are when version v of a file has been written.          *)
FileWritten(d, new, p, v) ==
  LET now  == Content[p][v]
      gone == SymbolsOf(d, p) \ DOMAIN FileRows(p, now) IN
  /\ IsDb(new)
  /\ \A q \in Paths : new.rows[q] = IF q = p THEN v ELSE d.rows[q]
  /\ Nodes(new) = (Nodes(d) \ gone) \union DOMAIN FileRows(p, now)
  /\ \A k \in DOMAIN FileRows(p, now) : new.nodes[k] = FileRows(p, now)[k]
  /\ \A k \in Nodes(new) : k.path # p => new.nodes[k] = d.nodes[k]
  /\ new.edges = {e \in d.edges : /\ e.src \notin gone /\ e.dst \notin gone
                                  /\ ~(e.src.path = p /\ e.source = "static")}
                 \union Containments(p, now)
  /\ new.refs = {r \in {Unlink(s, gone) : s \in d.refs} : r.path # p}
                \union FileRefs(p, now)

LEMMA PersistFileWrites ==
  ASSUME NEW d, Sound(d), NEW p \in Paths, NEW v \in Versions
  PROVE  FileWritten(d, PersistFile(d, p, v), p, v)
<1> DEFINE new  == PersistFile(d, p, v)
           now  == Content[p][v]
           file == FileRows(p, now)
           gone == SymbolsOf(d, p) \ DOMAIN file
           kept == DropNodes(d, gone)
           rows == [kept.rows EXCEPT ![p] = v]
           nodes == Over(file, kept.nodes)
           refs == {r \in kept.refs : r.path # p} \union FileRefs(p, now)
           edges == (kept.edges \ StaticOut(kept, p)) \union Containments(p, now)
<1>1. new = [rows |-> rows, nodes |-> nodes, refs |-> refs, edges |-> edges]
  BY DEF PersistFile
<1>2. IsDb(d) BY DEF Sound
<1>3. \A k \in DOMAIN file : k.path = p BY FileRowsFit
<1> HIDE DEF new, now, file, gone, kept
<1>4. /\ IsDb(kept) /\ kept.rows = d.rows
      /\ Nodes(kept) = Nodes(d) \ gone
      /\ \A k \in Nodes(kept) : kept.nodes[k] = d.nodes[k]
      /\ kept.edges = {e \in d.edges : e.src \notin gone /\ e.dst \notin gone}
      /\ kept.refs = {Unlink(r, gone) : r \in d.refs}
  BY <1>2, DropFacts DEF kept
<1>5. edges = {e \in d.edges : /\ e.src \notin gone /\ e.dst \notin gone
                               /\ ~(e.src.path = p /\ e.source = "static")}
              \union Containments(p, now)
  BY <1>4 DEF StaticOut
<1>6. refs = {r \in {Unlink(s, gone) : s \in d.refs} : r.path # p} \union FileRefs(p, now)
  BY <1>4
<1>7. /\ nodes = [k \in DOMAIN file \union Nodes(kept) |-> nodes[k]]
      /\ DOMAIN nodes = DOMAIN file \union Nodes(kept)
      /\ \A k \in DOMAIN file : nodes[k] = file[k]
      /\ \A k \in Nodes(kept) \ DOMAIN file : nodes[k] = kept.nodes[k]
  BY DEF Over, Nodes
<1>8. /\ rows \in [Paths -> Versions \union {NoRow}]
      /\ \A q \in Paths : rows[q] = IF q = p THEN v ELSE d.rows[q]
  BY <1>4 DEF IsDb
<1> HIDE DEF rows, nodes, refs, edges
<1>9. /\ new.rows = rows /\ new.nodes = nodes /\ new.refs = refs /\ new.edges = edges
      /\ new = [rows |-> new.rows, nodes |-> new.nodes, refs |-> new.refs,
                edges |-> new.edges]
  BY <1>1
<1>10. Nodes(new) = (Nodes(d) \ gone) \union DOMAIN file BY <1>4, <1>7, <1>9 DEF Nodes
<1>11. \A k \in Nodes(new) : k.path \in Paths BY <1>2, <1>3, <1>10 DEF IsDb
<1>12. IsDb(new) BY <1>4, <1>7, <1>8, <1>9, <1>10, <1>11 DEF IsDb
<1>13. \A k \in Nodes(new) : k.path # p => new.nodes[k] = d.nodes[k]
  BY <1>3, <1>4, <1>7, <1>9, <1>10
<1> QED
  BY <1>5, <1>6, <1>7, <1>8, <1>9, <1>10, <1>12, <1>13
  DEF FileWritten, new, now, file, gone

LEMMA PersistFileIsSound ==
  ASSUME NEW d, Sound(d), NEW p \in Paths, NEW v \in Versions
  PROVE  Sound(PersistFile(d, p, v))
<1> DEFINE new  == PersistFile(d, p, v)
           now  == Content[p][v]
           file == FileRows(p, now)
           syms == SymbolRows(p, now.defs)
           gone == SymbolsOf(d, p) \ DOMAIN file
<1>1. /\ IsDb(d) /\ \A e \in d.edges : EdgeFits(d, e)
      /\ \A r \in d.refs : RefFits(d, r)
      /\ \A q \in Paths : d.rows[q] # NoRow => FileFits(d, q)
  BY DEF Sound
<1>2. /\ IsDb(new)
      /\ \A q \in Paths : new.rows[q] = IF q = p THEN v ELSE d.rows[q]
      /\ Nodes(new) = (Nodes(d) \ gone) \union DOMAIN file
      /\ \A k \in DOMAIN file : new.nodes[k] = file[k]
      /\ \A k \in Nodes(new) : k.path # p => new.nodes[k] = d.nodes[k]
      /\ new.edges = {e \in d.edges : /\ e.src \notin gone /\ e.dst \notin gone
                                      /\ ~(e.src.path = p /\ e.source = "static")}
                     \union Containments(p, now)
      /\ new.refs = {r \in {Unlink(s, gone) : s \in d.refs} : r.path # p}
                    \union FileRefs(p, now)
  <2>1. FileWritten(d, new, p, v) BY PersistFileWrites
  <2> HIDE DEF new
  <2> QED BY <2>1 DEF FileWritten
<1>3. /\ DOMAIN file = DOMAIN syms \union {FileNode(p)}
      /\ \A k \in DOMAIN file : k.path = p
      /\ \A k \in DOMAIN file : (k.kind = "file") <=> (k = FileNode(p))
      /\ \A k \in DOMAIN syms : file[k] = syms[k]
  BY FileRowsFit
<1>4. \A k \in DOMAIN syms : k.path = p /\ k.kind # "file" /\ k # FileNode(p) /\ k # NoNode
  BY SymbolRowsFit
<1>5. \A r \in FileRefs(p, now) :
        /\ IsRef(r) /\ r.path = p /\ r.kind \in RefKinds /\ r.to = NoNode
        /\ Said(r) = r /\ (r.in # NoNode => r.in \in DOMAIN syms)
  BY FileRefsFit
<1>6. v # NoRow BY PathAssumption
<1>7. \A k \in gone : k.path = p /\ k \in Nodes(d) /\ k.kind # "file"
  BY DEF SymbolsOf, Symbols
<1>8. SymbolsOf(new, p) = DOMAIN syms
  BY <1>2, <1>3, <1>4 DEF SymbolsOf, Symbols
<1>9. \A q \in Paths : q # p => SymbolsOf(new, q) = SymbolsOf(d, q)
  BY <1>2, <1>3, <1>7 DEF SymbolsOf, Symbols
<1> HIDE DEF new, now, file, syms, gone
<1>10. NoNode \notin gone BY <1>1, <1>7, NoNodeIsNone
<1>11. ASSUME NEW r \in d.refs, r.path # p
       PROVE  LET s == Unlink(r, gone) IN
              /\ s \in new.refs /\ RefFits(new, s) /\ s.path = r.path /\ Said(s) = Said(r)
  <2> DEFINE s == Unlink(r, gone)
  <2>1. RefFits(d, r) BY <1>1
  <2>2. r.in \notin gone BY <1>7, <1>10, <1>11, <2>1 DEF RefFits
  <2>3. /\ IsRef(s) /\ s.path = r.path /\ s.kind = r.kind /\ s.name = r.name
        /\ s.to = IF r.to \in gone THEN NoNode ELSE r.to
        /\ s.in = r.in /\ Said(s) = Said(r)
    BY <2>1, <2>2, UnlinkFacts DEF RefFits
  <2>4. s \in new.refs BY <1>2, <1>11, <2>3
  <2> HIDE DEF s
  <2>5. RefFits(new, s)
    BY <1>2, <1>11, <2>1, <2>2, <2>3 DEF RefFits, Fits
  <2> QED BY <2>3, <2>4, <2>5 DEF s
<1>12. ASSUME NEW s \in new.refs, s \notin FileRefs(p, now)
       PROVE  \E r \in d.refs : r.path # p /\ s = Unlink(r, gone)
  <2>1. PICK r \in d.refs : s = Unlink(r, gone) /\ s.path # p BY <1>2, <1>12
  <2>2. IsRef(r) BY <1>1 DEF RefFits
  <2>3. r.path = s.path BY <2>1, <2>2, UnlinkFacts
  <2> QED BY <2>1, <2>3
<1>13. \A s \in FileRefs(p, now) : RefFits(new, s)
  BY <1>2, <1>3, <1>4, <1>5, <1>6 DEF RefFits
<1>14. \A s \in new.refs : RefFits(new, s) BY <1>11, <1>12, <1>13
<1>15. ASSUME NEW q, q # p PROVE SaysTheSame(d, new, q)
  <2>1. \A r \in d.refs : IsRef(r) BY <1>1 DEF RefFits
  <2>2. \A r \in new.refs : IsRef(r) BY <1>14 DEF RefFits
  <2>3. ASSUME NEW r \in d.refs, r.path = q
        PROVE  \E s \in new.refs : IsRef(s) /\ Said(s) = Said(r)
    BY <1>11, <1>15, <2>2, <2>3
  <2>4. ASSUME NEW s \in new.refs, s.path = q
        PROVE  \E r \in d.refs : IsRef(r) /\ Said(s) = Said(r)
    <3>1. s \notin FileRefs(p, now) BY <1>5, <1>15, <2>4
    <3>2. PICK r \in d.refs : r.path # p /\ s = Unlink(r, gone) BY <1>12, <3>1
    <3> QED BY <1>11, <2>1, <3>2
  <2> QED BY <2>3, <2>4 DEF SaysTheSame
<1>16. ASSUME NEW e \in new.edges PROVE EdgeFits(new, e)
  <2>1. CASE e \in Containments(p, now)
    <3>1. PICK k \in DOMAIN syms : e = Edge(FileNode(p), k, "contains")
      BY <2>1 DEF Containments, syms
    <3>2. /\ IsEdge(e) /\ e.src = FileNode(p) /\ e.dst = k /\ e.kind = "contains"
          /\ e.source = "static" /\ e.seen = FALSE
      BY <3>1 DEF Edge, IsEdge
    <3>3. e.src \in Nodes(new) /\ e.dst \in Nodes(new) /\ k.path = p /\ k.kind # "file"
      BY <1>2, <1>3, <1>4, <3>2
    <3> QED BY <3>2, <3>3 DEF EdgeFits, Justified
  <2>2. CASE e \notin Containments(p, now)
    <3>1. /\ e \in d.edges /\ EdgeFits(d, e) /\ e.src \notin gone /\ e.dst \notin gone
          /\ ~(e.src.path = p /\ e.source = "static")
      BY <1>1, <1>2, <2>2
    <3>2. e.src \in Nodes(new) /\ e.dst \in Nodes(new) BY <1>2, <3>1 DEF EdgeFits
    <3>3. ASSUME e.source = "static", new.rows[e.src.path] # NoRow
          PROVE  Justified(new, e) \/ Restored(e)
      <4>1. e.src.path # p /\ e.src.path \in Paths BY <1>2, <3>1, <3>2, <3>3 DEF IsDb
      <4>2. Justified(d, e) \/ Restored(e) BY <1>2, <3>1, <3>3, <4>1 DEF EdgeFits
      <4>3. SaysTheSame(d, new, e.src.path) BY <1>15, <4>1
      <4> QED BY <4>2, <4>3, StillJustified
    <3> QED BY <3>1, <3>2, <3>3 DEF EdgeFits
  <2> QED BY <2>1, <2>2
<1>17. FileFits(new, p)
  <2>1. new.rows[p] = v BY <1>2
  <2>2. \A k \in DOMAIN syms : new.nodes[k] = syms[k] BY <1>2, <1>3
  <2>3. \A r \in new.refs : r.path = p => r \in FileRefs(p, now) BY <1>2
  <2>4. FileRefs(p, now) \subseteq new.refs /\ Containments(p, now) \subseteq new.edges
    BY <1>2
  <2>5. FileNode(p) \in Nodes(new) BY <1>2, <1>3
  <2> QED BY <1>5, <1>8, <2>1, <2>2, <2>3, <2>4, <2>5 DEF FileFits, now, syms
<1>18. ASSUME NEW q \in Paths, q # p, new.rows[q] # NoRow PROVE FileFits(new, q)
  <2>1. new.rows[q] = d.rows[q] /\ FileFits(d, q) BY <1>1, <1>2, <1>18
  <2>2. FileNode(q) \in Nodes(new) BY <1>2, <1>7, <2>1 DEF FileFits, FileNode
  <2>3. \A k \in SymbolsOf(d, q) : new.nodes[k] = d.nodes[k]
    BY <1>2, <1>9, <1>18 DEF SymbolsOf, Symbols
  <2>4. \A s \in new.refs : IsRef(s) BY <1>14 DEF RefFits
  <2>5. ASSUME NEW e \in d.edges, e.kind = "contains", e.src.path = q PROVE e \in new.edges
    <3>1. EdgeFits(d, e) BY <1>1
    <3>2. e.dst.path = q BY <2>5, <3>1 DEF EdgeFits, FileNode
    <3> QED BY <1>2, <1>7, <1>18, <2>5, <3>2
  <2>6. SymbolsOf(new, q) = SymbolsOf(d, q) BY <1>9, <1>18
  <2>7. SaysTheSame(d, new, q) BY <1>15, <1>18
  <2> QED BY <1>18, <2>1, <2>2, <2>3, <2>4, <2>5, <2>6, <2>7, FileStays
<1> QED BY <1>2, <1>14, <1>16, <1>17, <1>18 DEF Sound, new

-----------------------------------------------------------------------------
(* The index of a repository on its own.                                   *)

OfRoot(d, root) ==
  /\ \A k \in Nodes(d) : RootOf[k.path] = root
  /\ \A p \in Paths : d.rows[p] # NoRow => RootOf[p] = root

LEMMA WrittenIsSound ==
  ASSUME NEW root, NEW dsk \in [Paths -> Versions \union {NoRow}]
  PROVE  Sound(Written(root, dsk)) /\ OfRoot(Written(root, dsk), root)
<1> DEFINE found == {p \in Owned(root) : dsk[p] # NoRow}
           at(p) == Content[p][dsk[p]]
           rows == [p \in Paths |-> IF p \in found THEN dsk[p] ELSE NoRow]
           named == UNION {DOMAIN FileRows(p, at(p)) : p \in found}
           nodes == [k \in named |-> FileRows(k.path, at(k.path))[k]]
           refs == UNION {FileRefs(p, at(p)) : p \in found}
           edges == UNION {Containments(p, at(p)) : p \in found}
           new == Written(root, dsk)
           syms(p) == SymbolRows(p, at(p).defs)
<1>1. new = [rows |-> rows, nodes |-> nodes, refs |-> refs, edges |-> edges]
  BY DEF Written
<1>2. \A p \in found : p \in Paths /\ dsk[p] \in Versions /\ dsk[p] # NoRow /\ RootOf[p] = root
  BY DEF Owned
<1>3. ASSUME NEW p \in found
      PROVE  /\ DOMAIN FileRows(p, at(p)) = DOMAIN syms(p) \union {FileNode(p)}
             /\ \A k \in DOMAIN FileRows(p, at(p)) : k.path = p
             /\ \A k \in DOMAIN FileRows(p, at(p)) : (k.kind = "file") <=> (k = FileNode(p))
             /\ \A k \in DOMAIN syms(p) : FileRows(p, at(p))[k] = syms(p)[k]
  <2>1. p \in Paths /\ dsk[p] \in Versions BY <1>2
  <2> HIDE DEF found
  <2> QED BY <2>1, FileRowsFit
<1>4. \A p \in found : \A k \in DOMAIN syms(p) :
        k.path = p /\ k.kind # "file" /\ k # FileNode(p) /\ k # NoNode
  BY <1>2, SymbolRowsFit
<1>5. \A p \in found : \A r \in FileRefs(p, at(p)) :
        /\ IsRef(r) /\ r.path = p /\ r.kind \in RefKinds /\ r.to = NoNode
        /\ Said(r) = r /\ (r.in # NoNode => r.in \in DOMAIN syms(p))
  BY <1>2, FileRefsFit
<1>6. \A p \in found : \A e \in Containments(p, at(p)) :
        \E k \in DOMAIN syms(p) : e = Edge(FileNode(p), k, "contains")
  BY DEF Containments
<1>7. /\ rows \in [Paths -> Versions \union {NoRow}]
      /\ \A p \in Paths : rows[p] # NoRow => p \in found /\ rows[p] = dsk[p]
      /\ \A p \in found : rows[p] = dsk[p]
  BY <1>2
<1>8. ASSUME NEW k \in named
      PROVE  k.path \in found /\ k \in DOMAIN FileRows(k.path, at(k.path))
  <2>1. PICK p \in found : k \in DOMAIN FileRows(p, at(p)) OBVIOUS
  <2>2. k.path = p BY <1>3, <2>1
  <2> QED BY <2>1, <2>2
<1>9. \A p \in found : DOMAIN FileRows(p, at(p)) \subseteq named
  OBVIOUS
<1>10. \A p \in found : \A k \in DOMAIN syms(p) : nodes[k] = syms(p)[k]
  BY <1>3, <1>9
<1>11. DOMAIN nodes = named /\ nodes = [k \in named |-> nodes[k]]
  OBVIOUS
<1>12. \A r \in refs : r.path \in found /\ r \in FileRefs(r.path, at(r.path))
  BY <1>5
<1>13. \A p \in found : FileRefs(p, at(p)) \subseteq refs /\ Containments(p, at(p)) \subseteq edges
  OBVIOUS
<1>14. \A e \in edges : \E p \in found : \E k \in DOMAIN syms(p) :
         e = Edge(FileNode(p), k, "contains")
  BY <1>6
<1> HIDE DEF new, rows, nodes, refs, edges, named, found, at, syms
<1>15. /\ new.rows = rows /\ new.nodes = nodes /\ new.refs = refs /\ new.edges = edges
       /\ new = [rows |-> new.rows, nodes |-> new.nodes, refs |-> new.refs,
                 edges |-> new.edges]
  BY <1>1
<1>16. Nodes(new) = named BY <1>11, <1>15 DEF Nodes
<1>17. IsDb(new) BY <1>2, <1>7, <1>8, <1>11, <1>15, <1>16 DEF IsDb
<1>18. ASSUME NEW e \in new.edges PROVE EdgeFits(new, e)
  <2>1. PICK p \in found : \E k \in DOMAIN syms(p) : e = Edge(FileNode(p), k, "contains")
    BY <1>14, <1>15
  <2>2. PICK k \in DOMAIN syms(p) : e = Edge(FileNode(p), k, "contains") BY <2>1
  <2>3. /\ IsEdge(e) /\ e.src = FileNode(p) /\ e.dst = k /\ e.kind = "contains"
        /\ e.source = "static" /\ e.seen = FALSE
    BY <2>2 DEF Edge, IsEdge
  <2>4. k \in Nodes(new) /\ FileNode(p) \in Nodes(new) BY <1>3, <1>9, <1>16
  <2>5. k.path = p /\ k.kind # "file" BY <1>4
  <2> QED BY <2>3, <2>4, <2>5 DEF EdgeFits, Justified
<1>19. ASSUME NEW r \in new.refs PROVE RefFits(new, r)
  <2>1. r.path \in found /\ r \in FileRefs(r.path, at(r.path)) BY <1>12, <1>15
  <2> DEFINE p == r.path
  <2>2. /\ IsRef(r) /\ r.kind \in RefKinds /\ r.to = NoNode
        /\ (r.in # NoNode => r.in \in DOMAIN syms(p))
    BY <1>5, <2>1
  <2>3. r.in # NoNode => r.in \in Nodes(new) /\ r.in.path = p
    <3>1. DOMAIN syms(p) \subseteq Nodes(new) BY <1>3, <1>9, <1>16, <2>1
    <3>2. \A k \in DOMAIN syms(p) : k.path = p BY <1>4, <2>1
    <3> QED BY <2>2, <3>1, <3>2
  <2>4. p \in Paths /\ new.rows[p] # NoRow BY <1>2, <1>7, <1>15, <2>1
  <2> QED BY <2>2, <2>3, <2>4 DEF RefFits
<1>20. ASSUME NEW p \in Paths, new.rows[p] # NoRow PROVE FileFits(new, p)
  <2>1. p \in found /\ new.rows[p] = dsk[p] BY <1>7, <1>15, <1>20
  <2>2. FileNode(p) \in Nodes(new) BY <1>3, <1>9, <1>16, <2>1
  <2>3. SymbolsOf(new, p) = DOMAIN syms(p)
    <3>1. \A k \in SymbolsOf(new, p) : k \in DOMAIN syms(p)
      BY <1>3, <1>8, <1>16, <2>1 DEF SymbolsOf, Symbols
    <3>2. \A k \in DOMAIN syms(p) : k \in SymbolsOf(new, p)
      BY <1>3, <1>4, <1>9, <1>16, <2>1 DEF SymbolsOf, Symbols
    <3> QED BY <3>1, <3>2
  <2>4. \A k \in DOMAIN syms(p) : new.nodes[k] = syms(p)[k] BY <1>10, <1>15, <2>1
  <2>5. /\ \A r \in new.refs : r.path = p => r \in FileRefs(p, at(p))
        /\ FileRefs(p, at(p)) \subseteq new.refs
        /\ Containments(p, at(p)) \subseteq new.edges
    BY <1>12, <1>13, <1>15, <2>1
  <2>6. \A r \in FileRefs(p, at(p)) : r.path = p /\ Said(r) = r BY <1>5, <2>1
  <2> QED BY <2>1, <2>2, <2>3, <2>4, <2>5, <2>6 DEF FileFits, at, syms
<1>21. OfRoot(new, root) BY <1>2, <1>7, <1>8, <1>15, <1>16 DEF OfRoot
<1> QED BY <1>17, <1>18, <1>19, <1>20, <1>21 DEF Sound, new

LEMMA StandaloneIsSound ==
  ASSUME NEW root, NEW dsk \in [Paths -> Versions \union {NoRow}]
  PROVE  Sound(StandaloneIndex(root, dsk)) /\ OfRoot(StandaloneIndex(root, dsk), root)
<1> DEFINE w == Written(root, dsk)
           E == FoundEdges(w, Unresolved(w))
           bound == Bind(w, Unresolved(w))
           new == InsertMissing(bound, E)
<1>1. Sound(w) /\ OfRoot(w, root) BY WrittenIsSound
<1>2. StandaloneIndex(root, dsk) = new BY DEF StandaloneIndex
<1> HIDE DEF w
<1>3. \A e \in E : EdgeFits(w, e) BY <1>1, FoundEdgesFit DEF Unresolved
<1> HIDE DEF E
<1>4. /\ Sound(bound) /\ bound.rows = w.rows /\ bound.nodes = w.nodes
      /\ \A e : EdgeFits(w, e) => EdgeFits(bound, e)
  BY <1>1, BindFacts
<1> HIDE DEF bound
<1>5. Sound(new) BY <1>3, <1>4, InsertIsSound
<1>6. new.rows = bound.rows /\ new.nodes = bound.nodes
  BY <1>4, InsertFacts DEF Sound
<1> HIDE DEF new
<1>7. OfRoot(new, root) BY <1>1, <1>4, <1>6 DEF OfRoot, Nodes
<1> QED BY <1>2, <1>5, <1>7

-----------------------------------------------------------------------------
(* A refresh of an extra root.                                             *)

(* A reference to a symbol that is gone, or a call into the root, is       *)
(* unresolved again.                                                       *)
Refreshed(d, root, nodes, r) ==
  IF \/ r.to \in RootNodes(d, root) \ nodes
     \/ r.kind = "call" /\ r.to \in RootNodes(d, root)
  THEN [r EXCEPT !.to = NoNode] ELSE r

(* What the tables are when the rows of a root have been replaced.         *)
Replaced(d, new, root, src) ==
  LET mine == RootNodes(d, root) IN
  /\ IsDb(new)
  /\ \A p \in Paths : new.rows[p] = IF RootOf[p] = root THEN src.rows[p] ELSE d.rows[p]
  /\ Nodes(new) = (Nodes(d) \ mine) \union Nodes(src)
  /\ \A k \in Nodes(src) : new.nodes[k] = src.nodes[k]
  /\ \A k \in Nodes(d) \ mine : k \notin Nodes(src) => new.nodes[k] = d.nodes[k]
  /\ new.refs = src.refs \union {Refreshed(d, root, Nodes(new), r) :
                                   r \in {s \in d.refs : RootOf[s.path] # root}}
  /\ new.edges = src.edges \union {e \in d.edges : e.src \notin mine /\ e.dst \notin mine}
                   \union {e \in Relationships(d, root) : {e.src, e.dst} \subseteq Nodes(new)}

LEMMA ReplaceRootReplaces ==
  ASSUME NEW d, Sound(d), NEW root, NEW src, Sound(src)
  PROVE  Replaced(d, ReplaceRoot(d, root, src), root, src)
<1> DEFINE new == ReplaceRoot(d, root, src)
           mine == RootNodes(d, root)
           cleared == ClearRoot(d, root)
           nodes == Over(src.nodes, cleared.nodes)
           rows == [p \in Paths |-> IF RootOf[p] = root THEN src.rows[p] ELSE cleared.rows[p]]
           other == {s \in d.refs : RootOf[s.path] # root}
           refs == src.refs \union {Refreshed(d, root, DOMAIN nodes, r) : r \in other}
           edges == src.edges \union cleared.edges \union
                      {e \in Relationships(d, root) : {e.src, e.dst} \subseteq DOMAIN nodes}
<1>1. new = [rows |-> rows, nodes |-> nodes, refs |-> refs, edges |-> edges]
  BY DEF ReplaceRoot, Refreshed
<1>2. IsDb(d) /\ IsDb(src) BY DEF Sound
<1>3. cleared = Cut(d, Owned(root), mine) BY ClearIsCut DEF ClearRoot
<1> HIDE DEF cleared, mine
<1>4. /\ IsDb(cleared)
      /\ \A q \in Paths : cleared.rows[q] = IF q \in Owned(root) THEN NoRow ELSE d.rows[q]
      /\ Nodes(cleared) = Nodes(d) \ mine
      /\ \A k \in Nodes(cleared) : cleared.nodes[k] = d.nodes[k]
      /\ cleared.edges = {e \in d.edges : e.src \notin mine /\ e.dst \notin mine}
  BY <1>2, <1>3, CutFacts
<1>5. /\ rows \in [Paths -> Versions \union {NoRow}]
      /\ \A p \in Paths : rows[p] = IF RootOf[p] = root THEN src.rows[p] ELSE d.rows[p]
  BY <1>2, <1>4 DEF IsDb, Owned
<1>6. /\ nodes = [k \in Nodes(src) \union Nodes(cleared) |-> nodes[k]]
      /\ DOMAIN nodes = Nodes(src) \union Nodes(cleared)
      /\ \A k \in Nodes(src) : nodes[k] = src.nodes[k]
      /\ \A k \in Nodes(cleared) \ Nodes(src) : nodes[k] = cleared.nodes[k]
  BY DEF Over, Nodes
<1> HIDE DEF new, rows, nodes, refs, edges
<1>7. /\ new.rows = rows /\ new.nodes = nodes /\ new.refs = refs /\ new.edges = edges
      /\ new = [rows |-> new.rows, nodes |-> new.nodes, refs |-> new.refs,
                edges |-> new.edges]
  BY <1>1
<1>8. Nodes(new) = DOMAIN nodes /\ Nodes(new) = (Nodes(d) \ mine) \union Nodes(src)
  BY <1>4, <1>6, <1>7 DEF Nodes
<1>9. \A k \in Nodes(new) : k.path \in Paths BY <1>2, <1>8 DEF IsDb
<1>10. IsDb(new) BY <1>5, <1>6, <1>7, <1>8, <1>9 DEF IsDb
<1>11. \A k \in Nodes(d) \ mine : k \notin Nodes(src) => new.nodes[k] = d.nodes[k]
  BY <1>4, <1>6, <1>7
<1>12. new.refs = src.refs \union {Refreshed(d, root, Nodes(new), r) : r \in other}
  BY <1>7, <1>8 DEF refs
<1>13. new.edges = src.edges \union {e \in d.edges : e.src \notin mine /\ e.dst \notin mine}
                   \union {e \in Relationships(d, root) : {e.src, e.dst} \subseteq Nodes(new)}
  BY <1>4, <1>7, <1>8 DEF edges
<1> QED
  BY <1>5, <1>6, <1>7, <1>8, <1>10, <1>11, <1>12, <1>13 DEF Replaced, new, mine

LEMMA ReplaceRootIsSound ==
  ASSUME NEW d, Sound(d), NEW root, root # Primary,
         NEW src, Sound(src), OfRoot(src, root)
  PROVE  Sound(ReplaceRoot(d, root, src))
<1> DEFINE new == ReplaceRoot(d, root, src)
           mine == RootNodes(d, root)
<1>1. Replaced(d, new, root, src) BY ReplaceRootReplaces
<1>2. /\ IsDb(d) /\ \A e \in d.edges : EdgeFits(d, e)
      /\ \A r \in d.refs : RefFits(d, r)
      /\ \A q \in Paths : d.rows[q] # NoRow => FileFits(d, q)
  BY DEF Sound
<1>3. /\ IsDb(src) /\ \A e \in src.edges : EdgeFits(src, e)
      /\ \A r \in src.refs : RefFits(src, r)
      /\ \A q \in Paths : src.rows[q] # NoRow => FileFits(src, q)
  BY DEF Sound
<1>4. \A k \in Nodes(d) : k \in mine <=> RootOf[k.path] = root BY DEF RootNodes
<1> HIDE DEF new, mine
<1>5. /\ IsDb(new)
      /\ \A p \in Paths : new.rows[p] = IF RootOf[p] = root THEN src.rows[p] ELSE d.rows[p]
      /\ Nodes(new) = (Nodes(d) \ mine) \union Nodes(src)
      /\ \A k \in Nodes(src) : new.nodes[k] = src.nodes[k]
      /\ \A k \in Nodes(d) \ mine : k \notin Nodes(src) => new.nodes[k] = d.nodes[k]
  BY <1>1 DEF Replaced, mine
<1>6. /\ new.refs = src.refs \union {Refreshed(d, root, Nodes(new), r) :
                                       r \in {s \in d.refs : RootOf[s.path] # root}}
      /\ new.edges = src.edges \union {e \in d.edges : e.src \notin mine /\ e.dst \notin mine}
                   \union {e \in Relationships(d, root) : {e.src, e.dst} \subseteq Nodes(new)}
  BY <1>1 DEF Replaced, mine
<1>7. /\ \A k \in Nodes(src) : RootOf[k.path] = root
      /\ \A k \in Nodes(new) : RootOf[k.path] = root => k \in Nodes(src)
      /\ \A p \in Paths : src.rows[p] # NoRow => RootOf[p] = root
  BY <1>4, <1>5 DEF OfRoot
<1>8. ASSUME NEW r \in d.refs, RootOf[r.path] # root
      PROVE  LET s == Refreshed(d, root, Nodes(new), r) IN
             /\ s \in new.refs /\ RefFits(new, s) /\ s.path = r.path /\ Said(s) = Said(r)
  <2> DEFINE s == Refreshed(d, root, Nodes(new), r)
  <2>1. RefFits(d, r) BY <1>2
  <2>2. r.in # NoNode => r.in \in Nodes(new)
    BY <1>4, <1>5, <1>8, <2>1 DEF RefFits
  <2>3. new.rows[r.path] # NoRow BY <1>5, <1>8, <2>1 DEF RefFits
  <2>4. s \in new.refs BY <1>6, <1>8
  <2>5. CASE s = r
    <3>1. r.to \in mine => r.to \in Nodes(new)
      <4>1. CASE r.to \in mine \ Nodes(new)
        <5>1. s = [r EXCEPT !.to = NoNode] BY <4>1 DEF Refreshed, mine
        <5>2. r.to = NoNode
          <6>1. s.to = NoNode BY <2>1, <5>1, RefWithTo DEF RefFits
          <6> HIDE DEF s
          <6> QED BY <2>5, <6>1
        <5> QED BY <1>2, <4>1, <5>2, NoNodeIsNone DEF mine, RootNodes
      <4> QED BY <4>1
    <3>2. r.to # NoNode => r.to \in Nodes(new) BY <1>5, <2>1, <3>1 DEF RefFits
    <3> HIDE DEF s
    <3>3. RefFits(new, r) BY <2>1, <2>2, <2>3, <3>2 DEF RefFits
    <3>4. RefFits(new, s) /\ s.path = r.path /\ Said(s) = Said(r) BY <2>5, <3>3
    <3> QED BY <2>4, <3>4 DEF s
  <2>6. CASE s # r
    <3>1. s = [r EXCEPT !.to = NoNode] BY <2>6 DEF Refreshed
    <3> HIDE DEF s
    <3>2. s = [path |-> r.path, kind |-> r.kind, name |-> r.name, sep |-> r.sep,
               absolute |-> r.absolute, hint |-> r.hint, args |-> r.args,
               to |-> NoNode, in |-> r.in]
      BY <2>1, <3>1, RefWithTo DEF RefFits
    <3>3. IsRef(s) /\ s.path = r.path /\ s.kind = r.kind /\ s.in = r.in /\ s.to = NoNode
      BY <3>2 DEF IsRef
    <3>4. Said(s) = Said(r) BY <2>1, <3>2, <3>3, RefWithTo DEF RefFits, Said
    <3>5. RefFits(new, s) BY <2>1, <2>2, <2>3, <3>3 DEF RefFits
    <3> QED BY <2>4, <3>3, <3>4, <3>5 DEF s
  <2> QED BY <2>5, <2>6
<1>9. \A s \in new.refs \ src.refs :
        \E r \in d.refs : RootOf[r.path] # root /\ s = Refreshed(d, root, Nodes(new), r)
  BY <1>6
<1>10. \A r \in src.refs : r \in new.refs /\ IsRef(r) /\ RootOf[r.path] = root
  BY <1>3, <1>6, <1>7 DEF RefFits
<1>11. \A r \in src.refs : RefFits(new, r)
  BY <1>3, <1>5, <1>10 DEF RefFits
<1>12. \A s \in new.refs : RefFits(new, s) BY <1>8, <1>9, <1>11
<1>13. /\ \A r \in d.refs : IsRef(r) /\ r.path \in Paths
       /\ \A s \in new.refs : IsRef(s) /\ s.path \in Paths
  BY <1>2, <1>12 DEF RefFits
<1>14. ASSUME NEW q, RootOf[q] # root PROVE SaysTheSame(d, new, q)
  <2>1. ASSUME NEW r \in d.refs, r.path = q
        PROVE  \E s \in new.refs : IsRef(s) /\ Said(s) = Said(r)
    BY <1>8, <1>13, <1>14, <2>1
  <2>2. ASSUME NEW s \in new.refs, s.path = q
        PROVE  \E r \in d.refs : IsRef(r) /\ Said(s) = Said(r)
    <3>1. PICK r \in d.refs : RootOf[r.path] # root /\ s = Refreshed(d, root, Nodes(new), r)
      BY <1>9, <1>10, <1>14, <2>2
    <3> QED BY <1>8, <1>13, <3>1
  <2> QED BY <2>1, <2>2 DEF SaysTheSame
<1>15. ASSUME NEW q, RootOf[q] = root PROVE SaysTheSame(src, new, q)
  <2>1. ASSUME NEW s \in new.refs, s.path = q PROVE s \in src.refs
    BY <1>8, <1>9, <1>15, <2>1
  <2> QED BY <1>10, <2>1 DEF SaysTheSame
<1>16. ASSUME NEW e \in new.edges PROVE EdgeFits(new, e)
  <2>1. CASE e \in src.edges
    <3>1. EdgeFits(src, e) /\ RootOf[e.src.path] = root /\ e.src.path \in Paths
      BY <1>3, <1>7, <2>1 DEF EdgeFits, IsDb
    <3>2. new.rows[e.src.path] = src.rows[e.src.path] BY <1>5, <3>1
    <3>3. SaysTheSame(src, new, e.src.path) BY <1>15, <3>1
    <3> QED BY <1>5, <3>1, <3>2, <3>3, StillJustified DEF EdgeFits
  <2>2. ASSUME e \in d.edges, e.src \in Nodes(new), e.dst \in Nodes(new), e.src \notin mine
        PROVE  EdgeFits(new, e)
    <3>1. EdgeFits(d, e) /\ RootOf[e.src.path] # root /\ e.src.path \in Paths
      BY <1>2, <1>4, <2>2 DEF EdgeFits, IsDb
    <3>2. new.rows[e.src.path] = d.rows[e.src.path] BY <1>5, <3>1
    <3>3. SaysTheSame(d, new, e.src.path) BY <1>14, <3>1
    <3> QED BY <2>2, <3>1, <3>2, <3>3, StillJustified DEF EdgeFits
  <2>3. CASE e \in d.edges /\ e.src \notin mine /\ e.dst \notin mine
    <3>1. e.src \in Nodes(new) /\ e.dst \in Nodes(new)
      BY <1>2, <1>5, <2>3 DEF EdgeFits
    <3> QED BY <2>2, <2>3, <3>1
  <2>4. CASE e \in Relationships(d, root) /\ {e.src, e.dst} \subseteq Nodes(new)
    <3>1. /\ e \in d.edges /\ (e.src \in mine \/ e.dst \in mine)
          /\ e.source # "static" \/ (e.kind # "calls" /\ ~({e.src, e.dst} \subseteq mine))
      BY <2>4 DEF Relationships, mine
    <3>2. EdgeFits(d, e) BY <1>2, <3>1
    <3>3. CASE e.src \notin mine BY <2>2, <2>4, <3>1, <3>3
    <3>4. CASE e.src \in mine
      <4>1. RootOf[e.src.path] = root BY <1>4, <3>2, <3>4 DEF EdgeFits
      <4>2. e.source = "static" => e.kind # "calls" /\ RootOf[e.dst.path] # root
        BY <1>4, <3>1, <3>2, <3>4 DEF EdgeFits
      <4>3. e.kind # "contains"
        BY <3>2, <4>1, <4>2 DEF EdgeFits, FileNode
      <4>4. e.source = "static" => Restored(e) BY <4>1, <4>2 DEF Restored
      <4> QED BY <2>4, <3>2, <4>3, <4>4 DEF EdgeFits
    <3> QED BY <3>3, <3>4
  <2> QED BY <1>6, <2>1, <2>3, <2>4
<1>17. ASSUME NEW p \in Paths, new.rows[p] # NoRow, RootOf[p] = root PROVE FileFits(new, p)
  <2>1. new.rows[p] = src.rows[p] /\ FileFits(src, p) BY <1>3, <1>5, <1>17
  <2>2. FileNode(p) \in Nodes(new) BY <1>5, <2>1 DEF FileFits
  <2>3. SymbolsOf(new, p) = SymbolsOf(src, p)
    BY <1>5, <1>7, <1>17 DEF SymbolsOf, Symbols
  <2>4. \A k \in SymbolsOf(src, p) : new.nodes[k] = src.nodes[k]
    BY <1>5 DEF SymbolsOf, Symbols
  <2>5. src.edges \subseteq new.edges BY <1>6
  <2>6. SaysTheSame(src, new, p) BY <1>15, <1>17
  <2> QED BY <1>13, <1>17, <2>1, <2>2, <2>3, <2>4, <2>5, <2>6, FileStays
<1>18. ASSUME NEW p \in Paths, new.rows[p] # NoRow, RootOf[p] # root PROVE FileFits(new, p)
  <2>1. new.rows[p] = d.rows[p] /\ FileFits(d, p) BY <1>2, <1>5, <1>18
  <2>2. FileNode(p) \in Nodes(new)
    BY <1>4, <1>5, <1>18, <2>1 DEF FileFits, FileNode
  <2>3. SymbolsOf(new, p) = SymbolsOf(d, p)
    BY <1>4, <1>5, <1>7, <1>18 DEF SymbolsOf, Symbols
  <2>4. \A k \in SymbolsOf(d, p) : new.nodes[k] = d.nodes[k]
    BY <1>4, <1>5, <1>7, <1>18 DEF SymbolsOf, Symbols
  <2>5. ASSUME NEW e \in d.edges, e.kind = "contains", e.src.path = p PROVE e \in new.edges
    <3>1. EdgeFits(d, e) BY <1>2
    <3>2. e.dst.path = p BY <2>5, <3>1 DEF EdgeFits, FileNode
    <3>3. e.src \notin mine /\ e.dst \notin mine
      BY <1>4, <1>18, <2>5, <3>1, <3>2 DEF EdgeFits
    <3> QED BY <1>6, <3>3
  <2>6. SaysTheSame(d, new, p) BY <1>14, <1>18
  <2> QED BY <1>13, <1>18, <2>1, <2>2, <2>3, <2>4, <2>5, <2>6, FileStays
<1> QED BY <1>5, <1>12, <1>16, <1>17, <1>18 DEF Sound, new

LEMMA MergeRootIsSound ==
  ASSUME NEW d, Sound(d), NEW root, root # Primary,
         NEW dsk \in [Paths -> Versions \union {NoRow}]
  PROVE  Sound(MergeRoot(d, root, dsk))
<1> DEFINE src == StandaloneIndex(root, dsk)
<1>1. Sound(src) /\ OfRoot(src, root) BY StandaloneIsSound
<1> HIDE DEF src
<1>2. Sound(ReplaceRoot(d, root, src)) BY <1>1, ReplaceRootIsSound
<1> QED BY <1>2, ResolveWorkspaceFacts DEF MergeRoot, src

-----------------------------------------------------------------------------
(* Observed edges: each transaction keeps those whose ends it keeps, but   *)
(* for the static ones of a file that is written or a root that is merged. *)

Observes(d, new) ==
  \A e \in d.edges :
    e.seen = TRUE /\ e.src \in Nodes(new) /\ e.dst \in Nodes(new) => e \in new.edges

ObservesBut(d, new, p) ==
  \A e \in d.edges :
    e.seen = TRUE /\ e.src \in Nodes(new) /\ e.dst \in Nodes(new) =>
      e \in new.edges \/ (e.source = "static" /\ e.src.path = p)

LEMMA CutObserves ==
  ASSUME NEW d, IsDb(d), NEW P, NEW gone
  PROVE  Observes(d, Cut(d, P, gone))
<1> DEFINE new == Cut(d, P, gone)
<1>1. /\ Nodes(new) = Nodes(d) \ gone
      /\ new.edges = {e \in d.edges : e.src \notin gone /\ e.dst \notin gone}
  BY CutFacts
<1> HIDE DEF new
<1>2. Observes(d, new) BY <1>1 DEF Observes
<1> QED BY <1>2 DEF new

LEMMA PersistFileObserves ==
  ASSUME NEW d, Sound(d), NEW p \in Paths, NEW v \in Versions
  PROVE  /\ ObservesBut(d, PersistFile(d, p, v), p)
         /\ \A k \in Nodes(PersistFile(d, p, v)) : k \in Nodes(d) \/ k.path = p
         /\ \A k \in Nodes(d) : k \in Nodes(PersistFile(d, p, v)) \/ k.path = p
<1> DEFINE new == PersistFile(d, p, v)
           file == DOMAIN FileRows(p, Content[p][v])
           gone == SymbolsOf(d, p) \ file
<1>1. FileWritten(d, new, p, v) BY PersistFileWrites
<1>2. \A k \in file : k.path = p BY FileRowsFit
<1> HIDE DEF new
<1>3. Nodes(new) = (Nodes(d) \ gone) \union file BY <1>1 DEF FileWritten
<1>4. \A e \in d.edges :
        e.src \notin gone /\ e.dst \notin gone =>
          e \in new.edges \/ (e.source = "static" /\ e.src.path = p)
  BY <1>1 DEF FileWritten
<1> HIDE DEF file
<1>5. ObservesBut(d, new, p)
  <2>1. \A e \in d.edges : e.src \in Nodes(d) /\ e.dst \in Nodes(d)
    BY DEF Sound, EdgeFits
  <2>2. ASSUME NEW e \in d.edges, e.src \in Nodes(new), e.dst \in Nodes(new)
        PROVE  e.src \notin gone /\ e.dst \notin gone
    BY <1>3, <2>1, <2>2 DEF file
  <2> QED BY <1>4, <2>2 DEF ObservesBut
<1>6. \A k \in gone : k.path = p BY DEF SymbolsOf
<1> QED BY <1>2, <1>3, <1>5, <1>6 DEF new

LEMMA TransactionsObserve ==
  ASSUME NEW d, Sound(d)
  PROVE  /\ \A p \in Paths : Observes(d, PruneFile(d, p))
         /\ Observes(d, ClearForForce(d))
         /\ \A root : Observes(d, ClearRoot(d, root))
         /\ \A E : Observes(d, InsertMissing(d, E))
         /\ \A A : Observes(d, Bind(d, A))
<1>1. IsDb(d) BY DEF Sound
<1>2. ASSUME NEW p \in Paths PROVE Observes(d, PruneFile(d, p))
  <2>1. PruneFile(d, p) = Cut(d, {p}, SymbolsOf(d, p)) BY <1>1, PruneIsCut
  <2> QED BY <1>1, <2>1, CutObserves
<1>3. \A root, gone : Observes(d, Cut(d, Owned(root), gone)) BY <1>1, CutObserves
<1>4. Observes(d, d) /\ Observes(d, EmptyDb) BY DEF Observes, EmptyDb, Nodes
<1>5. Observes(d, ClearForForce(d))
  <2>1. \/ ClearForForce(d) = d \/ ClearForForce(d) = EmptyDb
        \/ ClearForForce(d) = Cut(d, Owned(Primary), ForceNodes(d))
    BY ClearIsCut DEF ClearForForce
  <2> QED BY <1>3, <1>4, <2>1
<1>6. ASSUME NEW root PROVE Observes(d, ClearRoot(d, root))
  <2>1. ClearRoot(d, root) = Cut(d, Owned(root), RootNodes(d, root))
    BY ClearIsCut DEF ClearRoot
  <2> QED BY <1>3, <2>1
<1>7. \A E : Observes(d, InsertMissing(d, E)) BY <1>1, InsertFacts DEF Observes
<1>8. \A A : Observes(d, Bind(d, A)) BY BindFacts DEF Observes
<1> QED BY <1>2, <1>5, <1>6, <1>7, <1>8

LEMMA MergeRootObserves ==
  ASSUME NEW d, Sound(d), NEW root, root # Primary,
         NEW dsk \in [Paths -> Versions \union {NoRow}]
  PROVE  LET new == MergeRoot(d, root, dsk) IN
         \A e \in d.edges :
           e.seen = TRUE /\ e.src \in Nodes(new) /\ e.dst \in Nodes(new) =>
             \/ e \in new.edges
             \/ e.source = "static" /\ root \in {RootOf[e.src.path], RootOf[e.dst.path]}
<1> DEFINE src == StandaloneIndex(root, dsk)
           mid == ReplaceRoot(d, root, src)
           new == ResolveWorkspace(mid, root)
<1>1. Sound(src) /\ OfRoot(src, root) BY StandaloneIsSound
<1>2. MergeRoot(d, root, dsk) = new BY DEF MergeRoot
<1> HIDE DEF src
<1>3. Sound(mid) /\ Replaced(d, mid, root, src)
  BY <1>1, ReplaceRootIsSound, ReplaceRootReplaces
<1> HIDE DEF mid
<1>4. mid.edges \subseteq new.edges /\ Nodes(new) = Nodes(mid)
  BY <1>3, ResolveWorkspaceFacts
<1> HIDE DEF new
<1>5. ASSUME NEW e \in d.edges, e.src \in Nodes(mid), e.dst \in Nodes(mid)
      PROVE  \/ e \in mid.edges
             \/ e.source = "static" /\ root \in {RootOf[e.src.path], RootOf[e.dst.path]}
  <2> DEFINE mine == RootNodes(d, root)
  <2>1. CASE e.src \notin mine /\ e.dst \notin mine BY <1>3, <2>1 DEF Replaced
  <2>2. CASE (e.src \in mine \/ e.dst \in mine) /\ e.source = "static"
    BY <2>2 DEF RootNodes
  <2>3. CASE (e.src \in mine \/ e.dst \in mine) /\ e.source # "static"
    <3>1. e \in Relationships(d, root) BY <1>5, <2>3 DEF Relationships
    <3>2. e \in {f \in Relationships(d, root) : {f.src, f.dst} \subseteq Nodes(mid)}
      BY <1>5, <3>1
    <3> QED BY <1>3, <3>2 DEF Replaced
  <2> QED BY <2>1, <2>2, <2>3
<1> SUFFICES ASSUME NEW e \in d.edges, e.src \in Nodes(new), e.dst \in Nodes(new)
             PROVE  \/ e \in new.edges
                    \/ /\ e.source = "static"
                       /\ root \in {RootOf[e.src.path], RootOf[e.dst.path]}
  BY <1>2
<1> QED BY <1>4, <1>5

-----------------------------------------------------------------------------
(* The runs.                                                               *)

(* Every resolved reference of the repository has an edge, or will.        *)
Covered(d, E) ==
  \A r \in d.refs : RootOf[r.path] = Primary /\ r.to # NoNode =>
    \E e \in d.edges \union E : e.src = Source(r) /\ e.dst = r.to /\ e.kind = EdgeKind[r.kind]

(* What was observed is in the open transaction, or was static and of a    *)
(* file that the run has written, or has lost an end that no file that is  *)
(* still to be written can bring back.                                     *)
Remembers(d, t, rest, written) ==
  \A e \in d.edges : e.seen = TRUE =>
    \/ e \in t.edges
    \/ e.source = "static" /\ e.src.path \in written
    \/ \E k \in {e.src, e.dst} : k \notin Nodes(t) /\ k.path \notin rest

WrittenFiles == child.work \ child.left

(* The files that a run knows are those of the repository.                 *)
ChildFits ==
  /\ DOMAIN child = DOMAIN NoChild
  /\ child.targets \subseteq Own /\ child.work \subseteq Own
  /\ child.left \subseteq child.work /\ (child.at # "index" => child.left = {})
  /\ worklist \subseteq Own
  /\ disk \in [Paths -> Versions \union {NoRow}]

TablesFit ==
  /\ Sound(db) /\ Sound(tx)
  /\ child.at # "index" => tx = db

(* The edges to insert are those of the references that were resolved.     *)
EdgesFollow ==
  /\ \A e \in child.pending : EdgeFits(db, e)
  /\ child.at # "insert" => child.pending = {}
  /\ child.at \in {"bind", "insert", "rank"} /\ child.mode # "targeted" =>
       Covered(db, child.pending)

(* What a step keeps of what was observed.                                 *)
Kept ==
  \A e \in db.edges :
    e.seen /\ {e.src, e.dst} \subseteq Nodes(db') =>
      e \in db'.edges \/ (e.source = "static" /\ Remade(e))

IInv == /\ ChildFits /\ TablesFit /\ EdgesFollow
        /\ Remembers(db, tx, child.left, WrittenFiles)

LEMMA SmallestIsOne ==
  ASSUME NEW S, S \subseteq Own, S # {}
  PROVE  Smallest(S) \in S
<1> DEFINE Upto(k) == 0 .. k
           F == {Upto(k) : k \in S}
           R == StrictSubsetOrdering(Nat)
<1>1. S \subseteq Nat BY PathAssumption DEF Owned, Own
<1>2. F \subseteq FiniteSubsetsOf(Nat) /\ F # {}
  <2>1. \A k \in S : IsFiniteSet(0 .. k) /\ 0 .. k \subseteq Nat
    BY <1>1, FS_Interval
  <2>2. \A k \in S : Upto(k) \in FiniteSubsetsOf(Nat)
    BY <2>1 DEF FiniteSubsetsOf
  <2> QED BY <2>2
<1>3. \E x \in F : \A y \in F : <<y, x>> \notin R
  <2>1. IsWellFoundedOn(R, FiniteSubsetsOf(Nat))
    BY FS_StrictSubsetOrderingWellFounded
  <2> HIDE DEF R, F
  <2> QED BY <1>2, <2>1, WFMin
<1>4. PICK k \in S : \A j \in S : <<Upto(j), Upto(k)>> \notin R
  BY <1>3
<1>5. ASSUME NEW j \in S, j < k PROVE FALSE
  <2>1. /\ Upto(j) \subseteq Upto(k) /\ k \in Upto(k) /\ k \notin Upto(j)
        /\ Upto(k) \subseteq Nat
    BY <1>1, <1>5
  <2> HIDE DEF Upto
  <2>2. <<Upto(j), Upto(k)>> \in R
    BY <2>1 DEF StrictSubsetOrdering
  <2> QED BY <1>4, <2>2
<1>6. \A j \in S : k <= j BY <1>1, <1>5
<1> QED BY <1>6 DEF Smallest

(* Resolving adds no reference without an edge, and repairing leaves none. *)
LEMMA RepairCovers ==
  ASSUME NEW d, Sound(d)
  PROVE  Covered(RepairEdges(d), {})
BY RepairLinks DEF Covered, Linked

LEMMA BindCovers ==
  ASSUME NEW d, Sound(d), Covered(d, {})
  PROVE  Covered(Bind(d, FullyAffected(d)), FoundEdges(d, FullyAffected(d)))
<1> DEFINE A == FullyAffected(d)
           E == FoundEdges(d, A)
           new == Bind(d, A)
<1>1. ASSUME NEW a \in A, NEW k \in Meanings(d, a), Cardinality(Meanings(d, a)) = 1
      PROVE  Edge(Source(a), k, EdgeKind[a.kind]) \in E
  <2> DEFINE pairs == UNION {{<<r, m>> : m \in FirstMeanings(Meanings(d, r))} : r \in A}
  <2>0. k \in FirstMeanings(Meanings(d, a))
    BY <1>1, PathAssumption DEF FirstMeanings
  <2>1. <<a, k>> \in pairs BY <2>0
  <2>2. E = {Edge(Source(x[1]), x[2], EdgeKind[x[1].kind]) : x \in pairs} BY DEF FoundEdges
  <2>3. <<a, k>>[1] = a /\ <<a, k>>[2] = k OBVIOUS
  <2> HIDE DEF pairs, E, A
  <2> QED BY <2>1, <2>2, <2>3
<1> HIDE DEF A, E
<1>2. /\ new.edges = d.edges
      /\ \A s \in new.refs : \E r \in d.refs :
              /\ s = [r EXCEPT !.to = s.to]
              /\ s.to # r.to => r \in A /\ s.to \in Meanings(d, r)
                               /\ Cardinality(Meanings(d, r)) = 1
  BY BindFacts
<1> HIDE DEF new
<1>3. ASSUME NEW s \in new.refs, RootOf[s.path] = Primary, s.to # NoNode
      PROVE  \E e \in new.edges \union E :
               e.src = Source(s) /\ e.dst = s.to /\ e.kind = EdgeKind[s.kind]
  <2>1. PICK r \in d.refs : /\ s = [r EXCEPT !.to = s.to]
                            /\ s.to # r.to => r \in A /\ s.to \in Meanings(d, r)
                                             /\ Cardinality(Meanings(d, r)) = 1
    BY <1>2
  <2>2. IsRef(r) BY DEF Sound, RefFits
  <2>3. s.path = r.path /\ s.kind = r.kind /\ s.in = r.in
    BY <2>1, <2>2 DEF IsRef
  <2>4. Source(s) = Source(r) BY <2>3 DEF Source
  <2>5. CASE s.to = r.to
    <3>1. PICK e \in d.edges : e.src = Source(r) /\ e.dst = r.to /\ e.kind = EdgeKind[r.kind]
      BY <1>3, <2>3, <2>5 DEF Covered
    <3> QED BY <1>2, <2>3, <2>4, <2>5, <3>1
  <2>6. CASE s.to # r.to
    <3> DEFINE e == Edge(Source(r), s.to, EdgeKind[r.kind])
    <3>1. e \in E BY <1>1, <2>1, <2>6
    <3>2. e.src = Source(r) /\ e.dst = s.to /\ e.kind = EdgeKind[r.kind] BY DEF Edge
    <3> QED BY <2>3, <2>4, <3>1, <3>2
  <2> QED BY <2>5, <2>6
<1>4. Covered(new, E) BY <1>3 DEF Covered
<1> QED BY <1>4 DEF new, E, A

LEMMA InsertCovers ==
  ASSUME NEW d, Sound(d), NEW E, NEW F, Covered(d, E \union F)
  PROVE  Covered(InsertMissing(d, E), F)
<1> DEFINE new == InsertMissing(d, E)
<1>1. /\ new = [rows |-> d.rows, nodes |-> d.nodes, refs |-> d.refs, edges |-> new.edges]
      /\ d.edges \subseteq new.edges
      /\ \A x \in E : \E e \in new.edges :
           e.src = x.src /\ e.dst = x.dst /\ e.kind = x.kind
  BY InsertFacts DEF Sound
<1> HIDE DEF new
<1>2. new.refs = d.refs BY <1>1
<1>3. Covered(new, F) BY <1>1, <1>2 DEF Covered
<1> QED BY <1>3 DEF new

-----------------------------------------------------------------------------
LEMMA InitIsFit == Init => IInv
<1> SUFFICES ASSUME Init PROVE IInv OBVIOUS
<1>1. Sound(EmptyDb) BY EmptyIsSound
<1>2. disk \in [Paths -> Versions \union {NoRow}] BY PathAssumption DEF Init
<1>3. ChildFits BY <1>2 DEF Init, ChildFits, NoChild, NoList
<1>4. TablesFit BY <1>1 DEF Init, TablesFit
<1>5. EdgesFollow BY DEF Init, EdgesFollow, NoChild
<1>6. Remembers(db, tx, child.left, WrittenFiles) BY DEF Init, Remembers
<1> QED BY <1>3, <1>4, <1>5, <1>6 DEF IInv

(* A step that ends with nothing in an open transaction.                   *)
LEMMA CommittedStep ==
  ASSUME ChildFits', tx' = db', Sound(db'),
         \A e \in child'.pending : EdgeFits(db', e),
         child'.at # "insert" => child'.pending = {},
         child'.at \in {"bind", "insert", "rank"} /\ child'.mode # "targeted" =>
           Covered(db', child'.pending)
  PROVE  IInv'
<1>1. TablesFit' BY DEF TablesFit
<1>2. EdgesFollow' BY DEF EdgesFollow
<1>3. Remembers(db, tx, child.left, WrittenFiles)' BY DEF Remembers
<1> QED BY <1>1, <1>2, <1>3 DEF IInv

LEMMA RunSteps ==
  ASSUME IInv,
         \/ \E mode \in Modes, T \in SUBSET Own : Begin(mode, T)
         \/ Resume \/ Scan \/ (\E p \in Own : Prune(p)) \/ Save
         \/ Repair \/ BindRefs \/ InsertEdges \/ Rank \/ WriteMetadata
         \/ Crash \/ PowerCut
  PROVE  IInv' /\ Observes(db, db')
<1>1. ChildFits /\ TablesFit /\ EdgesFollow BY DEF IInv
<1>2. Sound(db) /\ Observes(db, db) BY <1>1 DEF TablesFit, Observes
<1>3. DOMAIN NoChild = {"at", "mode", "targets", "resume", "gone", "work", "left",
                        "batch", "pending"}
  BY DEF NoChild
<1>4. Own \subseteq Paths BY DEF Own, Owned
<1>5. ASSUME NEW mode \in Modes, NEW T \in SUBSET Own, Begin(mode, T)
      PROVE  IInv' /\ Observes(db, db')
  <2>1. db' = db /\ tx' = db BY <1>1, <1>5 DEF Begin, Idle, TablesFit
  <2>2. child'.at = "load" /\ child'.pending = {} BY <1>5 DEF Begin, NoChild
  <2>3. ChildFits' BY <1>1, <1>3, <1>5 DEF Begin, ChildFits, NoChild
  <2> QED BY <1>2, <2>1, <2>2, <2>3, CommittedStep
<1>6. ASSUME Resume PROVE IInv' /\ Observes(db, db')
  <2>1. db' = db /\ tx' = db BY <1>1, <1>6 DEF Resume, TablesFit
  <2>2. child'.at = "index" /\ child'.pending = {}
    BY <1>1, <1>3, <1>6 DEF Resume, ChildFits, EdgesFollow
  <2>3. ChildFits' BY <1>1, <1>3, <1>6 DEF Resume, ChildFits, files
  <2> QED BY <1>2, <2>1, <2>2, <2>3, CommittedStep
<1>7. ASSUME Scan PROVE IInv' /\ Observes(db, db')
  <2>1. db' = db /\ tx' = db BY <1>1, <1>7 DEF Scan, TablesFit
  <2>2. child'.at = "prune" /\ child'.pending = {}
    BY <1>1, <1>3, <1>7 DEF Scan, ChildFits, EdgesFollow
  <2>3. Changed \subseteq Own BY <1>1 DEF Changed, Scanned, ChildFits
  <2>4. ChildFits' BY <1>1, <1>3, <1>7, <2>3 DEF Scan, ChildFits
  <2> QED BY <1>2, <2>1, <2>2, <2>4, CommittedStep
<1>8. ASSUME NEW p \in Own, Prune(p) PROVE IInv' /\ Observes(db, db')
  <2>1. db' = PruneFile(db, p) /\ tx' = db' BY <1>8 DEF Prune, Commit
  <2>2. Sound(db') /\ Observes(db, db')
    BY <1>2, <1>4, <2>1, DeletionsAreSound, TransactionsObserve
  <2>3. child'.at = "prune" /\ child'.pending = {}
    BY <1>1, <1>3, <1>8 DEF Prune, ChildFits, EdgesFollow
  <2>4. ChildFits' BY <1>1, <1>3, <1>8 DEF Prune, ChildFits, files
  <2> QED BY <2>1, <2>2, <2>3, <2>4, CommittedStep
<1>9. ASSUME Save PROVE IInv' /\ Observes(db, db')
  <2>1. db' \in {ClearForForce(db), db} /\ tx' = db' BY <1>9 DEF Save, Commit
  <2>2. Sound(db') /\ Observes(db, db')
    BY <1>2, <2>1, DeletionsAreSound, TransactionsObserve
  <2>3. child'.at \in {"metadata", "index"} /\ child'.pending = {}
    BY <1>1, <1>3, <1>9 DEF Save, ChildFits, EdgesFollow
  <2>4. ChildFits' BY <1>1, <1>3, <1>9 DEF Save, ChildFits
  <2> QED BY <2>1, <2>2, <2>3, <2>4, CommittedStep
<1>10. ASSUME Repair PROVE IInv' /\ Observes(db, db')
  <2>1. db' = RepairEdges(db) /\ tx' = db' BY <1>10 DEF Repair, Commit
  <2>2. Sound(db') BY <1>2, <2>1, RepairIsSound
  <2>3. Observes(db, db') BY <1>2, <2>1, TransactionsObserve DEF RepairEdges
  <2>4. child'.at = "bind" /\ child'.pending = {}
    BY <1>1, <1>3, <1>10 DEF Repair, At, ChildFits, EdgesFollow
  <2>5. Covered(db', {}) BY <1>2, <2>1, RepairCovers
  <2>6. ChildFits' BY <1>1, <1>3, <1>10 DEF Repair, At, ChildFits
  <2> QED BY <2>1, <2>2, <2>3, <2>4, <2>5, <2>6, CommittedStep
<1>11. ASSUME BindRefs PROVE IInv' /\ Observes(db, db')
  <2>1. db' = Bind(db, Affected) /\ tx' = db' BY <1>11 DEF BindRefs, Commit
  <2>2. Sound(db') /\ Observes(db, db') /\ \A e : EdgeFits(db, e) => EdgeFits(db', e)
    BY <1>2, <2>1, BindFacts, TransactionsObserve
  <2>3. /\ child.at = "bind" /\ child'.at = "insert" /\ child'.mode = child.mode
        /\ child'.pending = FoundEdges(db, Affected)
    BY <1>1, <1>3, <1>11 DEF BindRefs, ChildFits
  <2>4. Affected \subseteq db.refs
    BY DEF Affected, Attracted, FullyAffected, Unresolved
  <2>5. \A e \in child'.pending : EdgeFits(db', e) BY <1>2, <2>2, <2>3, <2>4, FoundEdgesFit
  <2>6. ASSUME child'.mode # "targeted" PROVE Covered(db', child'.pending)
    <3>1. Covered(db, {}) BY <1>1, <2>3, <2>6 DEF EdgesFollow
    <3>2. Affected = FullyAffected(db) BY <2>3, <2>6 DEF Affected
    <3> QED BY <1>2, <2>1, <2>3, <3>1, <3>2, BindCovers
  <2>7. ChildFits' BY <1>1, <1>3, <1>11 DEF BindRefs, ChildFits
  <2> QED BY <2>1, <2>2, <2>3, <2>5, <2>6, <2>7, CommittedStep
<1>12. ASSUME InsertEdges PROVE IInv' /\ Observes(db, db')
  <2>1. db' = InsertMissing(db, child.pending) /\ tx' = db' BY <1>12 DEF InsertEdges, Commit
  <2>2. Sound(db') /\ Observes(db, db')
    BY <1>1, <1>2, <2>1, InsertIsSound, TransactionsObserve DEF EdgesFollow
  <2>3. /\ child.at = "insert" /\ child'.at = "rank" /\ child'.mode = child.mode
        /\ child'.pending = {}
    BY <1>1, <1>3, <1>12 DEF InsertEdges, ChildFits
  <2>4. ASSUME child'.mode # "targeted" PROVE Covered(db', {})
    <3>1. Covered(db, child.pending \union {}) BY <1>1, <2>3, <2>4 DEF EdgesFollow
    <3> QED BY <1>2, <2>1, <3>1, InsertCovers
  <2>5. ChildFits' BY <1>1, <1>3, <1>12 DEF InsertEdges, ChildFits
  <2> QED BY <2>1, <2>2, <2>3, <2>4, <2>5, CommittedStep
<1>13. ASSUME Rank PROVE IInv' /\ Observes(db, db')
  <2>1. db' = db /\ tx' = db BY <1>1, <1>13 DEF Rank, At, TablesFit
  <2>2. child'.at = "metadata" /\ child'.pending = {}
    BY <1>1, <1>3, <1>13 DEF Rank, At, ChildFits, EdgesFollow
  <2>3. ChildFits' BY <1>1, <1>3, <1>13 DEF Rank, At, ChildFits
  <2> QED BY <1>2, <2>1, <2>2, <2>3, CommittedStep
<1>14. ASSUME WriteMetadata PROVE IInv' /\ Observes(db, db')
  <2>1. db' = db /\ tx' = db BY <1>1, <1>14 DEF WriteMetadata, TablesFit
  <2>2. child'.at = "none" /\ child'.pending = {} BY <1>14 DEF WriteMetadata, NoChild
  <2>3. ChildFits' BY <1>1, <1>3, <1>14 DEF WriteMetadata, ChildFits, NoChild, NoList
  <2> QED BY <1>2, <2>1, <2>2, <2>3, CommittedStep
<1>15. ASSUME Crash PROVE IInv' /\ Observes(db, db')
  <2>1. db' = db /\ tx' = db BY <1>15 DEF Crash, Fault
  <2>2. child'.at = "load" /\ child'.pending = {} BY <1>3, <1>15 DEF Crash, NoChild
  <2>3. ChildFits' BY <1>1, <1>3, <1>15 DEF Crash, ChildFits, NoChild
  <2> QED BY <1>2, <2>1, <2>2, <2>3, CommittedStep
<1>16. ASSUME PowerCut PROVE IInv' /\ Observes(db, db')
  <2>1. db' = db /\ tx' = db BY <1>16 DEF PowerCut, Fault
  <2>2. child'.at = "none" /\ child'.pending = {} BY <1>16 DEF PowerCut, NoChild
  <2>3. ChildFits' BY <1>1, <1>3, <1>16 DEF PowerCut, ChildFits, NoChild, files
  <2> QED BY <1>2, <2>1, <2>2, <2>3, CommittedStep
<1> QED
  BY <1>5, <1>6, <1>7, <1>8, <1>9, <1>10, <1>11, <1>12, <1>13, <1>14, <1>15, <1>16

(* A file is written: what has been observed stays, or has lost an end,    *)
(* which lies in this file or in one that is not to be written any more.   *)
LEMMA PersistStep ==
  ASSUME IInv, Persist
  PROVE  IInv' /\ Kept
<1> DEFINE p == Smallest(child.left)
           new == IF disk[p] = NoRow THEN tx ELSE PersistFile(tx, p, disk[p])
<1>1. ChildFits /\ TablesFit /\ EdgesFollow /\ Remembers(db, tx, child.left, WrittenFiles) BY DEF IInv
<1>2. Own \subseteq Paths BY DEF Own, Owned
<1>3. p \in child.left /\ p \in Own /\ p \in Paths
  BY <1>1, <1>2, SmallestIsOne DEF Persist, ChildFits
<1>4. DOMAIN child = {"at", "mode", "targets", "resume", "gone", "work", "left",
                      "batch", "pending"}
  BY <1>1 DEF ChildFits, NoChild
<1>5. /\ child.at = "index" /\ tx' = new /\ (db' = db \/ (db' = new /\ disk[p] # NoRow))
  BY DEF Persist
<1>6. /\ child'.at = "index" /\ child'.left = child.left \ {p}
      /\ child'.pending = child.pending /\ child.pending = {}
  BY <1>1, <1>4, <1>5 DEF Persist, EdgesFollow
<1>7. ChildFits' BY <1>1, <1>4, <1>6 DEF Persist, ChildFits
<1>8. Sound(tx) /\ Sound(db) BY <1>1 DEF TablesFit
<1>9. disk[p] # NoRow => disk[p] \in Versions BY <1>1, <1>3 DEF ChildFits
<1> HIDE DEF p
<1>10. Sound(new)
  <2>1. CASE disk[p] = NoRow BY <1>8, <2>1
  <2>2. CASE disk[p] # NoRow
    <3>1. Sound(PersistFile(tx, p, disk[p])) BY <1>3, <1>8, <1>9, <2>2, PersistFileIsSound
    <3> QED BY <2>2, <3>1
  <2> QED BY <2>1, <2>2
<1>11. /\ ObservesBut(tx, new, p)
       /\ \A k \in Nodes(new) : k \in Nodes(tx) \/ k.path = p
       /\ \A k \in Nodes(tx) : k \in Nodes(new) \/ k.path = p
  <2>1. CASE disk[p] = NoRow BY <2>1 DEF ObservesBut
  <2>2. CASE disk[p] # NoRow
    <3>1. /\ ObservesBut(tx, PersistFile(tx, p, disk[p]), p)
          /\ \A k \in Nodes(PersistFile(tx, p, disk[p])) : k \in Nodes(tx) \/ k.path = p
          /\ \A k \in Nodes(tx) : k \in Nodes(PersistFile(tx, p, disk[p])) \/ k.path = p
      BY <1>3, <1>8, <1>9, <2>2, PersistFileObserves
    <3> QED BY <2>2, <3>1
  <2> QED BY <2>1, <2>2
<1> HIDE DEF new
<1>12. WrittenFiles' = WrittenFiles \union {p}
  BY <1>1, <1>3, <1>4, <1>6 DEF WrittenFiles, ChildFits, Persist
<1>13. Remembers(db, new, child.left \ {p}, WrittenFiles \union {p})
  <2> SUFFICES ASSUME NEW e \in db.edges, e.seen = TRUE, e \notin new.edges,
                      ~(e.source = "static" /\ e.src.path \in WrittenFiles \union {p})
               PROVE  \E k \in {e.src, e.dst} : k \notin Nodes(new) /\ k.path \notin child.left \ {p}
    BY DEF Remembers
  <2>1. CASE e \in tx.edges
    <3>1. PICK k \in {e.src, e.dst} : k \notin Nodes(new) BY <1>11, <2>1 DEF ObservesBut
    <3>2. k \in Nodes(tx) BY <1>8, <2>1 DEF Sound, EdgeFits
    <3> QED BY <1>11, <3>1, <3>2
  <2>2. CASE e \notin tx.edges
    <3>1. PICK k \in {e.src, e.dst} : k \notin Nodes(tx) /\ k.path \notin child.left
      BY <1>1, <2>2 DEF Remembers
    <3>2. k \notin Nodes(new) BY <1>3, <1>11, <3>1
    <3> QED BY <3>1, <3>2
  <2> QED BY <2>1, <2>2
<1>14. WrittenFiles \union {p} \subseteq child.work
  BY <1>1, <1>3 DEF WrittenFiles, ChildFits
<1>15. CASE db' = db
  <2>1. Remembers(db, tx, child.left, WrittenFiles)' BY <1>5, <1>6, <1>12, <1>13, <1>15
  <2>2. IInv' BY <1>5, <1>6, <1>7, <1>8, <1>10, <1>15, <2>1
    DEF IInv, TablesFit, EdgesFollow
  <2> QED BY <1>15, <2>2 DEF Kept
<1>16. CASE db' = new
  <2>1. IInv' BY <1>5, <1>6, <1>7, <1>10, <1>16, CommittedStep
  <2>2. Kept BY <1>5, <1>13, <1>14, <1>16 DEF Kept, Remembers, Remade
  <2> QED BY <2>1, <2>2
<1> QED BY <1>5, <1>15, <1>16

LEMMA CommitRestStep ==
  ASSUME IInv, CommitRest
  PROVE  IInv' /\ Kept
<1>1. ChildFits /\ TablesFit /\ EdgesFollow /\ Remembers(db, tx, child.left, WrittenFiles) BY DEF IInv
<1>2. DOMAIN child = {"at", "mode", "targets", "resume", "gone", "work", "left",
                      "batch", "pending"}
  BY <1>1 DEF ChildFits, NoChild
<1>3. db' = tx /\ tx' = tx BY DEF CommitRest, Commit
<1>4. /\ child.at = "index" /\ child'.at \in {"bind", "repair"}
      /\ (child'.at = "bind" => child'.mode = "targeted")
      /\ child'.pending = {}
  BY <1>1, <1>2 DEF CommitRest, At, EdgesFollow
<1>5. Kept
  <2>1. WrittenFiles \subseteq child.work BY DEF WrittenFiles
  <2> QED BY <1>1, <1>3, <1>4, <2>1 DEF Kept, Remembers, Remade
<1>6. ChildFits' BY <1>1, <1>2 DEF CommitRest, At, ChildFits
<1>7. IInv' BY <1>1, <1>3, <1>4, <1>6, CommittedStep DEF TablesFit
<1> QED BY <1>5, <1>7

LEMMA OtherSteps ==
  ASSUME IInv,
         \/ \E p \in Paths, v \in Versions \union {NoRow} : Edit(p, v)
         \/ \E root \in ExtraRoots : AddRoot(root) \/ DropRoot(root)
         \/ \E t \in Traces : Ingest(t[1], t[2])
         \/ UNCHANGED vars
  PROVE  IInv' /\ Kept
<1>1. ChildFits /\ TablesFit /\ EdgesFollow BY DEF IInv
<1>2. Sound(db) /\ (db' = db => Kept) /\ (Observes(db, db') => Kept)
  BY <1>1 DEF TablesFit, Observes, Kept
<1>3. ASSUME NEW p \in Paths, NEW v \in Versions \union {NoRow}, Edit(p, v)
      PROVE  IInv' /\ Kept
  <2>1. /\ disk' = [disk EXCEPT ![p] = v]
        /\ UNCHANGED <<db, tx, child, worklist>>
    BY <1>3 DEF Edit, files
  <2>2. ChildFits' BY <1>1, <1>3, <2>1 DEF ChildFits
  <2>3. TablesFit' /\ EdgesFollow' /\ Remembers(db, tx, child.left, WrittenFiles)'
    BY <2>1 DEF IInv, TablesFit, EdgesFollow, WrittenFiles
  <2> QED BY <1>2, <2>1, <2>2, <2>3 DEF IInv
<1>4. ASSUME NEW new, Command(new), Sound(new), Idle
      PROVE  IInv' /\ db' = new
  <2>1. db' = new /\ tx' = new /\ UNCHANGED <<child, worklist, disk>>
    BY <1>4 DEF Command, Commit, files
  <2>2. child'.at = "none" /\ child'.pending = {} BY <1>1, <1>4, <2>1 DEF Idle, EdgesFollow
  <2>3. ChildFits' BY <1>1, <2>1 DEF ChildFits
  <2> QED BY <1>4, <2>1, <2>2, <2>3, CommittedStep
<1>5. ASSUME NEW root \in ExtraRoots, AddRoot(root) PROVE IInv' /\ Kept
  <2> DEFINE new == MergeRoot(db, root, disk)
  <2>1. root # Primary /\ disk \in [Paths -> Versions \union {NoRow}]
    BY <1>1 DEF ExtraRoots, ChildFits
  <2>2. Sound(new) BY <1>2, <2>1, MergeRootIsSound
  <2>3. \A e \in db.edges :
          e.seen = TRUE /\ e.src \in Nodes(new) /\ e.dst \in Nodes(new) =>
            \/ e \in new.edges
            \/ e.source = "static" /\ root \in {RootOf[e.src.path], RootOf[e.dst.path]}
    BY <1>2, <2>1, MergeRootObserves
  <2>4. Command(new) /\ Idle BY <1>5 DEF AddRoot
  <2> HIDE DEF new
  <2>5. IInv' /\ db' = new BY <1>4, <2>2, <2>4
  <2>6. ASSUME NEW e \in db.edges, root \in {RootOf[e.src.path], RootOf[e.dst.path]}
        PROVE  Remade(e)
    BY <1>5, <2>1, <2>6 DEF Remade
  <2> QED BY <2>3, <2>5, <2>6 DEF Kept
<1>6. ASSUME NEW root \in ExtraRoots, DropRoot(root) PROVE IInv' /\ Kept
  <2> DEFINE new == ClearRoot(db, root)
  <2>1. Sound(new) /\ Observes(db, new) BY <1>2, DeletionsAreSound, TransactionsObserve
  <2>2. Command(new) /\ Idle BY <1>6 DEF DropRoot, RemoveRoot
  <2> HIDE DEF new
  <2>3. IInv' /\ db' = new BY <1>4, <2>1, <2>2
  <2> QED BY <1>2, <2>1, <2>3
<1>7. ASSUME NEW a, NEW b, Ingest(a, b) PROVE IInv' /\ Kept
  <2> DEFINE new == Observe(db, a, b)
  <2>1. Command(new) /\ child.at # "index" /\ a \in Nodes(db) /\ b \in Nodes(db)
    BY <1>7 DEF Ingest
  <2>2. /\ Sound(new) /\ new.refs = db.refs
        /\ \A e \in db.edges : e.seen = TRUE => e \in new.edges
        /\ \A e \in db.edges : \E x \in new.edges :
             x.src = e.src /\ x.dst = e.dst /\ x.kind = e.kind
        /\ \A e : EdgeFits(db, e) => EdgeFits(new, e)
    BY <1>2, <2>1, ObserveIsSound
  <2> HIDE DEF new
  <2>3. \A F : Covered(db, F) => Covered(new, F) BY <2>2 DEF Covered
  <2>4. Observes(db, new) BY <2>2 DEF Observes
  <2>7. db' = new /\ tx' = new /\ UNCHANGED <<child, worklist, disk>>
    BY <2>1 DEF Command, Commit, files
  <2>8. ChildFits' BY <1>1, <2>7 DEF ChildFits
  <2>9. \A e \in child'.pending : EdgeFits(db', e) BY <1>1, <2>2, <2>7 DEF EdgesFollow
  <2>10. /\ child'.at # "insert" => child'.pending = {}
         /\ child'.at \in {"bind", "insert", "rank"} /\ child'.mode # "targeted" =>
              Covered(db', child'.pending)
    BY <1>1, <2>3, <2>7 DEF EdgesFollow
  <2>11. IInv' BY <2>2, <2>7, <2>8, <2>9, <2>10, CommittedStep
  <2> QED BY <1>2, <2>4, <2>7, <2>11
<1>8. ASSUME UNCHANGED vars PROVE IInv' /\ Kept
  <2>1. UNCHANGED <<db, tx, child, worklist, disk>> BY <1>8 DEF vars, files
  <2>2. ChildFits' /\ TablesFit' /\ EdgesFollow' /\ Remembers(db, tx, child.left, WrittenFiles)'
    BY <2>1 DEF IInv, ChildFits, TablesFit, EdgesFollow, WrittenFiles
  <2> QED BY <1>2, <2>1, <2>2 DEF IInv
<1> QED BY <1>3, <1>5, <1>6, <1>7, <1>8

LEMMA EveryStep ==
  ASSUME IInv, [Next]_vars
  PROVE  IInv' /\ Kept
<1>1. Observes(db, db') => Kept BY DEF Observes, Kept
<1> QED BY <1>1, RunSteps, PersistStep, CommitRestStep, OtherSteps DEF Next

LEMMA IndexIsFit == Spec => []IInv
<1>1. IInv /\ [Next]_vars => IInv' BY EveryStep
<1> QED BY <1>1, InitIsFit, PTL DEF Spec

-----------------------------------------------------------------------------
(* Whatever was deleted, by cascade or by hand, and wherever a run broke   *)
(* off, no edge and no reference of the committed graph names a node that  *)
(* is not there.                                                           *)
THEOREM NothingDangles == Spec => []NoDangling
<1>1. IInv => NoDangling
  BY DEF IInv, TablesFit, Sound, EdgeFits, RefFits, NoDangling
<1> QED BY <1>1, IndexIsFit, PTL

(* The committed rows of a file are those of one version of it; what a     *)
(* refresh of its repository restored is the one exception.                *)
THEOREM RowsBelongTogether == Spec => []RowsAreOneVersion
<1>1. IInv => RowsAreOneVersion
  BY SoundIsOneVersion DEF IInv, TablesFit, RowsAreOneVersion
<1> QED BY <1>1, IndexIsFit, PTL

(* When a full run has resolved, every resolved reference of the           *)
(* repository has its edge, whatever broke off between the commit of the   *)
(* resolutions and that of the edges before, and whatever was observed     *)
(* meanwhile.                                                              *)
THEOREM EdgesAreComplete == Spec => []ResolvedHaveEdges
<1>1. IInv => ResolvedHaveEdges
  BY DEF IInv, EdgesFollow, ResolvedHaveEdges, Covered, Linked
<1> QED BY <1>1, IndexIsFit, PTL

(* What was observed at run time is lost only with one of its ends, or as  *)
(* what the index had found too, when the file that calls is written anew  *)
(* or a repository that it joins is merged again: no commit of a batch, no *)
(* refresh and no deletion takes it otherwise from two symbols that are    *)
(* there afterwards.                                                       *)
THEOREM ObservationsAreKept == Spec => ObservedSurvive
<1>1. IInv /\ [Next]_vars =>
        [\A e \in db.edges :
           e.seen /\ {e.src, e.dst} \subseteq Nodes(db') =>
             e \in db'.edges \/ (e.source = "static" /\ Remade(e))]_vars
  BY EveryStep DEF Kept
<1> QED BY <1>1, IndexIsFit, PTL DEF Spec, ObservedSurvive
=============================================================================
