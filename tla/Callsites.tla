------------------------------ MODULE Callsites ------------------------------
(***************************************************************************)
(* Who calls a symbol: callers_approx, callees_approx and references of    *)
(* src/src/mcp/tools.cpp.  Beside the edges of calls that were bound, the  *)
(* tool scans the references by name and scores them as candidates.        *)
(*                                                                         *)
(* An index is a record: nodes (by id), edges and refs.  Confidences are   *)
(* in hundredths.  A text is the sequence of its identifiers; upper and    *)
(* lower case are not told apart.                                          *)
(***************************************************************************)
EXTENDS CallBinding

CONSTANTS
  QueryFloor,  \* the least number of references a scan reads (200)
  QueryCap     \* and the greatest (5000)

ASSUME QueryAssumption == QueryFloor \in Nat /\ QueryCap \in Nat

NodeIds(idx) == DOMAIN idx.nodes
IsSymbol(idx, n) == n \in NodeIds(idx) /\ idx.nodes[n].kind # "file"

(* Rows in an order: at each place the one that has so many before it.     *)
Ordered(rows, before(_, _)) ==
  [i \in 1 .. Cardinality(rows) |->
     CHOOSE r \in rows : Cardinality({x \in rows : before(x, r)}) = i - 1]

(* In the order of an ORDER BY that compares them by a number.             *)
InOrder(rows, rank(_)) == Ordered(rows, LAMBDA a, b : rank(a) < rank(b))

Take(n, s) == SubSeq(s, 1, IF n < Len(s) THEN n ELSE Len(s))

-----------------------------------------------------------------------------
(* The owner of the target, and how a text names it.                       *)

(* What contains the symbol, else the scope of its name, else the type     *)
(* around it.                                                              *)
Owner(idx, t) ==
  LET scope    == OwnerScope(idx.nodes[t].qual)
      holders  == {e.src : e \in {x \in idx.edges : x.dst = t /\ x.kind = "contains"}}
      types    == {n \in holders : IsSymbol(idx, n)} IN
  IF types # {} THEN idx.nodes[CHOOSE n \in types : TRUE].qual
  ELSE IF scope # <<>> THEN scope
  ELSE idx.nodes[t].around

Strength == [none |-> 0, bare |-> 1, suffix |-> 2, exact |-> 3]

EndsWith(a, b) == IsSuffix(b, a)

SameLeaf(a, b) == a # <<>> /\ b # <<>> /\ Last(a) = Last(b)

(* receiver_owner_match_strength(); the owner's own name is the last       *)
(* identifier of its qualified one.                                        *)
OwnerMatch(text, owner) ==
  IF text = <<>> \/ owner = <<>>                         THEN Strength.none
  ELSE IF text = owner \/ text = <<Last(owner)>>         THEN Strength.exact
  ELSE IF EndsWith(text, owner) \/ EndsWith(owner, text) THEN Strength.suffix
  ELSE IF EndsWith(text, <<Last(owner)>>)                THEN Strength.suffix
  ELSE IF SameLeaf(text, owner)                          THEN Strength.bare
  ELSE Strength.none

-----------------------------------------------------------------------------
(* What the declared type of a receiver means in its file.                 *)

ClassLike == {"class", "struct", "interface", "type_alias", "type", "enum"}

Unresolved == [resolved |-> FALSE, ambiguous |-> FALSE, type |-> <<>>, from |-> "none"]
Ambiguous  == [Unresolved EXCEPT !.ambiguous = TRUE]

(* type_candidate_owner_match()                                            *)
TypeMatch(qual, owner) ==
  IF owner = <<>>                                        THEN Strength.none
  ELSE IF qual = owner                                   THEN Strength.exact
  ELSE IF EndsWith(qual, owner) \/ EndsWith(owner, qual) THEN Strength.suffix
  ELSE IF SameLeaf(qual, owner)                          THEN Strength.bare
  ELSE Strength.none

(* choose_receiver_type_resolution(): the one type that matches best.      *)
ChooseType(idx, types, owner, from) ==
  LET match(n) == TypeMatch(idx.nodes[n].qual, owner)
      best     == {n \in types : match(n) > 0 /\ \A m \in types : match(m) <= match(n)} IN
  IF best = {} THEN IF Cardinality(types) > 1 THEN Ambiguous ELSE Unresolved
  ELSE IF Cardinality(best) > 1 \/ (from = "global" /\ Cardinality(types) > 1) THEN Ambiguous
  ELSE [resolved |-> TRUE, ambiguous |-> FALSE, from |-> from,
        type |-> idx.nodes[CHOOSE n \in best : TRUE].qual]

TypesNamed(idx, hint, files) ==
  {n \in NodeIds(idx) : /\ idx.nodes[n].kind \in ClassLike
                        /\ idx.nodes[n].file \in files
                        /\ SameLeaf(idx.nodes[n].qual, hint)}

FileNodeOf(idx, file) ==
  {n \in NodeIds(idx) : idx.nodes[n].kind = "file" /\ idx.nodes[n].file = file}

Included(idx, file) ==
  {idx.nodes[e.dst].file : e \in {x \in idx.edges : /\ x.kind = "includes"
                                                    /\ x.src \in FileNodeOf(idx, file)}}

(* resolve_receiver_type_hint(): in the file, in what it includes, then    *)
(* anywhere; the first place that decides or cannot tell.  (Of a crowd,    *)
(* the code looks at the first 8, 12 and 16.)                              *)
ResolveType(idx, r, owner) ==
  LET in(files, from) == ChooseType(idx, TypesNamed(idx, r.hint, files), owner, from)
      own      == in({r.file}, "same_file")
      included == in(Included(idx, r.file), "include")
      decides(x) == x.resolved \/ x.ambiguous IN
  IF r.hint = <<>>          THEN Unresolved
  ELSE IF decides(own)      THEN own
  ELSE IF decides(included) THEN included
  ELSE in({idx.nodes[n].file : n \in NodeIds(idx)}, "global")

-----------------------------------------------------------------------------
(* Scoring a call site.                                                    *)

This == <<"this">>

(* extract_receiver_hint()                                                 *)
Receiver(r) == Front(r.name)

(* containing_context_matches_owner()                                      *)
InsideOwner(idx, r, owner) ==
  /\ r.in \in NodeIds(idx) /\ owner # <<>>
  /\ LET q == idx.nodes[r.in].qual IN
     \/ SameLeaf(q, owner) \/ OwnerScope(q) = <<Last(owner)>>
     \/ q = owner \/ OwnerScope(q) = owner

(* score_candidate(): by the receiver's text, its type, or the name alone. *)
Score(idx, r, owner, type, common) ==
  LET text  == OwnerMatch(Receiver(r), owner)
      typed == IF type.ambiguous THEN Strength.none
               ELSE OwnerMatch(IF type.resolved THEN type.type ELSE r.hint, owner)
      far   == type.from \notin {"none", "same_file"}
      weak  == IF Receiver(r) # <<>> THEN 40 ELSE 35 IN
  IF text = Strength.exact       THEN 90
  ELSE IF text = Strength.suffix THEN 82
  ELSE IF text = Strength.bare   THEN 72
  ELSE IF typed = Strength.exact THEN IF far THEN 93 ELSE 89
  ELSE IF typed > Strength.none  THEN IF far THEN 86 ELSE 81
  ELSE IF Receiver(r) = This /\ InsideOwner(idx, r, owner) THEN 68
  ELSE IF common THEN weak - 10 ELSE weak

(* What the receiver's type is said to be afterwards.                      *)
ShownType(idx, r, owner, type) ==
  IF OwnerMatch(Receiver(r), owner) > 0                       THEN owner
  ELSE IF type.resolved /\ OwnerMatch(type.type, owner) > 0   THEN type.type
  ELSE IF Receiver(r) = This /\ InsideOwner(idx, r, owner)    THEN owner
  ELSE r.hint

(* apply_arity_and_pattern_score(): unlike the binder it knows no implicit *)
(* self.                                                                   *)
CallFits(params, args) ==
  ArityFits([lang |-> "any", params |-> params], args)

(* A known number of arguments that fits a known list of parameters, and   *)
(* arguments that look like them (r.alike, at most 4), raise the score.    *)
WithArity(score, r, params) ==
  IF r.args = Unknown \/ NumberOf("unknown", params) > 0 THEN score
  ELSE LET s == score + 6 + r.alike IN IF s < 99 THEN s ELSE 99

(* receiver_text_matches_name()                                            *)
PassesFilter(r, shown, filter) ==
  filter = <<>> \/ SameLeaf(Receiver(r), filter) \/ SameLeaf(shown, filter)

(* Is the declared type looked up at all?                                  *)
LooksUp(r, owner, filter) ==
  \/ filter = <<>>
  \/ /\ OwnerMatch(r.hint, owner) = Strength.none
     /\ SameLeaf(Receiver(r), filter) \/ SameLeaf(r.hint, filter)

-----------------------------------------------------------------------------
(* collect_callsite_candidates()                                           *)

NoCandidates == [rows |-> <<>>, total |-> 0, more |-> FALSE]

CallsNamed(idx, name) == {r \in idx.refs : r.kind = "call" /\ BareName(r.name) = name}

(* How many references a scan reads.                                       *)
QueryLimit(limit, filter) ==
  LET wanted == IF 4 * limit > QueryFloor THEN 4 * limit ELSE QueryFloor IN
  IF filter # <<>> \/ wanted > QueryCap THEN QueryCap ELSE wanted

(* The rows that fit a page: at most limit, and within the budget, which   *)
(* the first row may exceed; 0 is no budget.                               *)
PageOf(rows, limit, budget, size) ==
  LET used[n \in 0 .. Len(rows)] == IF n = 0 THEN 0 ELSE used[n - 1] + size[rows[n]]
      fits(n) == n <= limit /\ (n <= 1 \/ budget = 0 \/ used[n] <= budget)
      most    == CHOOSE n \in 0 .. Len(rows) :
                   fits(n) /\ (n = Len(rows) \/ ~fits(n + 1)) IN
  Take(most, rows)

(* Call sites have distinct positions; ties are in that order.             *)
Collect(idx, t, limit, q) ==
  LET owner   == Owner(idx, t)
      name    == BareName(idx.nodes[t].qual)
      named   == CallsNamed(idx, name)
      read    == ToSet(Take(QueryLimit(limit, q.filter),
                            InOrder(named, LAMBDA r : r.site)))
      type(r) == IF LooksUp(r, owner, q.filter) THEN ResolveType(idx, r, owner)
                 ELSE Unresolved
      score(r) == WithArity(Score(idx, r, owner, type(r), idx.nodes[t].common), r,
                            idx.nodes[t].params)
      shown   == {r \in read : /\ CallFits(idx.nodes[t].params, r.args)
                               /\ PassesFilter(r, ShownType(idx, r, owner, type(r)), q.filter)}
      ranked  == Ordered(shown, LAMBDA a, b :
                   score(a) > score(b) \/ (score(a) = score(b) /\ a.site < b.site))
      page    == PageOf(ranked, limit, q.budget, [r \in shown |-> r.size]) IN
  IF limit <= 0 \/ ~IsSymbol(idx, t) THEN NoCandidates
  ELSE [rows |-> page, total |-> Cardinality(named), more |-> Len(page) < Len(ranked)]

Modes == {"exact", "exact_then_candidates", "exact_plus_candidates"}

(* Variant: the caller's wish comes before the fallback.                   *)
ObeyMode(mode, none) ==
  mode = "exact_plus_candidates" \/ (none /\ mode # "exact")

(* should_collect_candidates(): always when there is no exact caller.      *)
ShouldCollect(mode, none) == none \/ mode = "exact_plus_candidates"

-----------------------------------------------------------------------------
(* The tools.                                                              *)

Calls(idx) == {e \in idx.edges : e.kind = "calls"}

Best(edges, end(_)) ==
  Ordered(edges, LAMBDA a, b :
    a.conf > b.conf \/ (a.conf = b.conf /\ end(a) < end(b)))

(* A lean answer holds no more than top_n of each.                         *)
CandidateRoom(q) == IF q.lean THEN q.top ELSE q.limit

(* callers_approx                                                          *)
CallersApprox(idx, q) ==
  LET room  == IF q.lean /\ q.top < q.limit THEN q.top ELSE q.limit
      exact == Take(room, Best({e \in Calls(idx) : e.dst = q.node /\ e.conf >= q.conf},
                               LAMBDA e : e.src))
      none  == \A i \in DOMAIN exact : idx.nodes[exact[i].src].kind = "file" IN
  [exact |-> exact, collected |-> ShouldCollect(q.mode, none),
   candidates |-> IF ShouldCollect(q.mode, none)
                  THEN Collect(idx, q.node, CandidateRoom(q), q)
                  ELSE NoCandidates]

(* callees_approx                                                          *)
CalleesApprox(idx, q) ==
  Take(q.limit, Best({e \in Calls(idx) : e.src = q.node}, LAMBDA e : e.dst))

(* references: what was resolved to the node, at most limit of them.       *)
References(idx, q) ==
  Take(q.limit, InOrder({r \in idx.refs : r.to = q.node}, LAMBDA r : r.site))
=============================================================================
