------------------------------- MODULE Scanner -------------------------------
(***************************************************************************)
(* Which files of a tree are in the index: src/src/index/scanner.h, what   *)
(* src/src/index/change_detector.h and src/src/cli/cmd_index.cpp make of   *)
(* its list, and the files that the polling of src/src/watch/watcher.h     *)
(* follows.  A run and a poll are single steps here; Supervisor and        *)
(* Watcher take them apart.  A path is the sequence of its names, and a    *)
(* glob the set of the names that it matches.                              *)
(***************************************************************************)
EXTENDS Integers, FiniteSets, SequencesExt

CONSTANTS
  SourceNames,   \* names of files that are in a language
  ExcludedDirs,  \* names of directories that are not entered
  BazelDirs,     \* names that begin with bazel-
  Edits,         \* what may become of a place: pairs of a path and an entry
  Scenarios      \* initial states

VARIABLES
  tree,   \* the entry at each path, those outside the root included
  repo,   \* what git says, and the options of the run
  rows,   \* path -> content
  known,  \* path -> time, of the files that the watch thread knows
  seen,   \* the last full run that succeeded, what came after it, and the
          \* rows whose files may go unheard
  left    \* edits that are left

vars == <<tree, repo, rows, known, seen, left>>

None      == [kind |-> "none"]
File(c)   == [kind |-> "file", content |-> c, time |-> 0]
Link(to)  == [kind |-> "link", to |-> to]
Dir(rules) == [kind |-> "dir", rules |-> rules]  \* rules of its .gitignore

-----------------------------------------------------------------------------
(* The file system.  A link leads to the real path of what is no link.     *)

Entry(p) == IF p \in DOMAIN tree THEN tree[p] ELSE None

Leads(p) == IF Entry(p).kind = "link" THEN Entry(p).to ELSE p

(* canonical_path()                                                        *)
Real(p) == FoldLeft(LAMBDA at, name : Leads(Append(at, name)), <<>>, p)

(* relative_in_root()                                                      *)
Inside(p) == p = <<>> \/ Head(p) # ".."

(* detect_language()                                                       *)
InLanguage(p) == Last(p) \in SourceNames

IsDir(p)   == Entry(Real(p)).kind = "dir"
IsFile(p)  == Entry(Real(p)).kind = "file"
Content(p) == Entry(Real(p)).content

Entries(d) == {p \in DOMAIN tree : p # <<>> /\ Front(p) = d /\ tree[p].kind # "none"}

(* The directories that a path names before its last name.                 *)
Above(p) == {SubSeq(p, 1, n) : n \in 1 .. Len(p) - 1}

-----------------------------------------------------------------------------
(* Patterns.  One with ** has what comes before it and what comes after.   *)

Fits(p, globs) == Len(p) = Len(globs) /\ \A i \in DOMAIN p : p[i] \in globs[i]

(* find() of a pattern's text: its globs stand for themselves only.        *)
Found(globs, p) ==
  /\ \A i \in DOMAIN globs : Cardinality(globs[i]) = 1
  /\ \E part \in SubSeqs(p) : Fits(part, globs)

NameOnly(g) == ~g.deep /\ ~g.rooted /\ Len(g.before) = 1

(* matches_exclude()                                                       *)
Excludes(g, p) ==
  IF NameOnly(g) THEN Last(p) \in g.before[1]
  ELSE IF ~g.deep THEN Fits(p, g.before)
  ELSE IF g.after = <<>> THEN Found(g.before, p)
  ELSE \E s \in Suffixes(p) :
         /\ Fits(s, g.after)
         /\ g.before # <<>> => Fits(SubSeq(p, 1, Len(p) - Len(s)), g.before)

Omitted(p) == \E g \in repo.exclude : Excludes(g, p)

(* A line of .gitignore as load() keeps it.  After a prefix a leading      *)
(* slash is a second one, which is in no path.                             *)
Prefixed(prefix, g) ==
  [g EXCEPT !.before = [i \in DOMAIN prefix |-> {prefix[i]}] \o @]

(* matches_glob()                                                          *)
Matches(prefix, g, p) ==
  LET full == Prefixed(prefix, g) IN
  IF g.deep THEN Found(full.before, Front(p)) /\ Found(full.after, p)
  ELSE IF prefix = <<>> /\ NameOnly(g) THEN Last(p) \in g.before[1]
  ELSE (g.rooted => prefix = <<>>) /\ Fits(p, full.before)

(* load_gitignore_recursive(): the directories whose rules are loaded, with*)
(* the names that led to them.  A link to a directory above ends the walk. *)
RECURSIVE Loads(_, _, _)
Loads(d, prefix, above) ==
  IF d \in above THEN {}
  ELSE {[dir |-> d, prefix |-> prefix]}
       \union UNION {Loads(Leads(e), Append(prefix, Last(e)), above \union {d}) :
                       e \in {e \in Entries(d) : /\ IsDir(e) /\ Inside(Leads(e))
                                                 /\ Last(e) \notin ExcludedDirs}}

(* Rules of a directory come after those of the directories above it.  For *)
(* others the order is the file system's, and matters to no scenario.      *)
Later(a, b) ==
  \/ Len(a.prefix) > Len(b.prefix)
  \/ Len(a.prefix) = Len(b.prefix) /\ a.line >= b.line

(* is_ignored(): the last rule that matches decides.                       *)
Decides(hits) ==
  \E r \in hits : ~r.rule.negated /\ \A other \in hits : Later(r, other)

RulesFor(loads, isDir) ==
  UNION {{[prefix |-> l.prefix, line |-> i, rule |-> tree[l.dir].rules[i]] :
            i \in {i \in DOMAIN tree[l.dir].rules : tree[l.dir].rules[i].dirOnly => isDir}} :
           l \in loads}

Ignored(p, isDir) ==
  /\ ~repo.noGitignore /\ p # <<>>
  /\ Decides({r \in RulesFor(Loads(<<>>, <<>>, {}), isDir) : Matches(r.prefix, r.rule, p)})

-----------------------------------------------------------------------------
(* scan(): a list has a route for each time that a path is listed.         *)

Listed(route, path) == [route |-> route, path |-> path]

ExcludedDir(name) == name \in ExcludedDirs \union BazelDirs

EntersDir(e) ==
  /\ IsDir(e) /\ Inside(Leads(e))
  /\ ~ExcludedDir(Last(e))
  /\ ~Ignored(Leads(e), TRUE)

(* Variant: rules are applied to the path that leads there.                *)
TakesFileByRoute(e) ==
  /\ IsFile(e) /\ Inside(Leads(e)) /\ InLanguage(e)
  /\ ~Ignored(e, FALSE) /\ ~Omitted(Leads(e))

(* Links are listed, and filtered, by the path of the file they lead to.   *)
TakesFile(e) ==
  /\ IsFile(e) /\ Inside(Leads(e)) /\ InLanguage(e)
  /\ ~Ignored(Leads(e), FALSE) /\ ~Omitted(Leads(e))

(* scan_directory()                                                        *)
RECURSIVE Walk(_, _, _)
Walk(d, route, above) ==
  IF d \in above THEN {}
  ELSE {Listed(Append(route, Last(e)), Leads(e)) : e \in {e \in Entries(d) : TakesFile(e)}}
       \union UNION {Walk(Leads(e), Append(route, Last(e)), above \union {d}) :
                       e \in {e \in Entries(d) : EntersDir(e)}}

(* git's own reading of a rule in the directory that prefix names.         *)
GitMatches(prefix, g, p) ==
  LET rest == SubSeq(p, Len(prefix) + 1, Len(p)) IN
  /\ IsStrictPrefix(prefix, p)
  /\ IF NameOnly(g) THEN Last(p) \in g.before[1]
     ELSE IF ~g.deep THEN Fits(rest, g.before)
     ELSE \E n \in 0 .. Len(rest) - 1 :
            /\ n >= Len(g.before) /\ Fits(SubSeq(rest, 1, Len(g.before)), g.before)
            /\ g.after # <<>> => Fits(SubSeq(rest, n + 1, Len(rest)), g.after)

GitIgnored(p) ==
  LET loads == {[dir |-> d, prefix |-> d] : d \in {d \in DOMAIN tree : tree[d].kind = "dir"}} IN
  \E q \in Above(p) \union {p} :
    Decides({r \in RulesFor(loads, q # p) : GitMatches(r.prefix, r.rule, q)})

(* git ls-files: what is tracked, once for each side of a conflict, though *)
(* it may be gone, and what is neither tracked nor ignored.                *)
GitLists ==
  {Listed(<<"index">>, p) : p \in repo.tracked}
  \union {Listed(<<"other side">>, p) : p \in repo.conflicts}
  \union {Listed(<<"others">>, p) :
            p \in {p \in DOMAIN tree \ repo.tracked :
                     /\ Inside(p) /\ tree[p].kind \in {"file", "link"} /\ ~GitIgnored(p)}}

(* scan_via_git(): links stay what git calls them.                         *)
GitScan ==
  {l \in GitLists : /\ InLanguage(l.path) /\ IsFile(l.path)
                    /\ ~Omitted(l.path)}

UsesGit == ~repo.noGitignore /\ repo.git /\ GitScan # {}

Scan == IF UsesGit THEN GitScan ELSE Walk(<<>>, <<>>, {})

-----------------------------------------------------------------------------
(* Runs.  A change gives a file a time of its own, so that a run has the   *)
(* content of each file that it lists.                                     *)

Doubled(list) == \E a, b \in list : a # b /\ a.path = b.path

Paths(list) == {l.path : l \in list}

(* When the index is empty, or was cleared for --force, a file is inserted *)
(* without a look at what is there: a path that is listed twice fails the  *)
(* run, and its batch is rolled back.  There is one batch here.            *)
FullRun(force) ==
  LET list == Scan
      cold == force \/ DOMAIN rows = {} IN
  /\ IF cold /\ Doubled(list)
     THEN /\ rows' = <<>>
          /\ seen' = [seen EXCEPT !.at = "failed"]
     ELSE /\ rows' = [p \in Paths(list) |-> Content(p)]
          /\ seen' = [at |-> "full", owned |-> TRUE, tree |-> tree, paths |-> Paths(list),
                      unheard |-> Paths(list) \ DOMAIN known]
  /\ UNCHANGED <<tree, repo, known, left>>

Exists(p) == IsDir(p) \/ IsFile(p)

(* scan_paths(): neither rules nor excluded directories are looked at.     *)
TargetedFiles(paths) == {p \in paths : InLanguage(p) /\ IsFile(p) /\ ~Omitted(p)}

TargetedDeleted(paths) == {p \in paths : ~Exists(p) /\ ~Omitted(p)}

TargetedRun(paths) ==
  LET files == TargetedFiles(paths)
      kept  == (DOMAIN rows \ TargetedDeleted(paths)) \union files IN
  rows' = IF seen.owned
          THEN [p \in kept |-> IF p \in files THEN Content(p) ELSE rows[p]]
          ELSE rows

-----------------------------------------------------------------------------
(* The watch thread.                                                       *)

WatchIgnores(name) == ExcludedDir(name) \/ name = ".codetopo"

(* collect_files() does not follow links to directories.                   *)
Followed(p) ==
  /\ Real(Front(p)) = Front(p)
  /\ \A i \in 1 .. Len(p) - 1 : ~WatchIgnores(p[i])

Collect ==
  LET files == {p \in DOMAIN tree : Inside(p) /\ p # <<>> /\ IsFile(p) /\ Followed(p)} IN
  [p \in files |-> Entry(Real(p)).time]

(* Created, modified and deleted.                                          *)
Events(old, new) ==
  {p \in DOMAIN old \union DOMAIN new :
     p \in DOMAIN old \intersect DOMAIN new => old[p] # new[p]}

Poll ==
  /\ TargetedRun(Events(known, Collect))
  /\ known' = Collect
  /\ seen' = [seen EXCEPT !.at = IF @ = "failed" THEN @ ELSE "polled",
                         !.unheard = (@ \ DOMAIN Collect)
                                       \union {p \in DOMAIN known : IsDir(p)}]
  /\ UNCHANGED <<tree, repo, left>>

-----------------------------------------------------------------------------
(* The user.  What was below a place goes with it.                         *)

Stamped(entry) == IF entry.kind = "file" THEN [entry EXCEPT !.time = left] ELSE entry

Change(p, entry) ==
  /\ left > 0 /\ left' = left - 1
  /\ entry # tree[p] /\ Entry(Front(p)).kind = "dir"
  /\ tree' = [q \in DOMAIN tree |-> IF q = p THEN Stamped(entry)
                                    ELSE IF IsStrictPrefix(p, q) /\ entry.kind # "dir" THEN None
                                    ELSE tree[q]]
  /\ seen' = [seen EXCEPT !.at = IF @ = "failed" THEN @ ELSE "changed"]
  /\ UNCHANGED <<repo, rows, known>>

Init ==
  \E s \in Scenarios :
    /\ tree = s.tree /\ repo = s.repo /\ left = s.edits
    /\ rows = <<>> /\ known = Collect
    /\ seen = [at |-> "failed", owned |-> FALSE, tree |-> <<>>, paths |-> {},
               unheard |-> {}]

Next ==
  \/ \E e \in Edits : Change(e[1], e[2])
  \/ \E force \in BOOLEAN : FullRun(force)
  \/ Poll

Spec == Init /\ [][Next]_vars

-----------------------------------------------------------------------------
(* Properties.                                                             *)

Ordinary(p) ==
  /\ Inside(p) /\ tree[p].kind = "file" /\ InLanguage(p) /\ ~Omitted(p)

(* Neither the file nor a directory above it is left out on purpose.       *)
Wanted(p) ==
  IF UsesGit THEN p \in repo.tracked \/ ~GitIgnored(p)
  ELSE /\ ~Ignored(p, FALSE)
       /\ \A d \in Above(p) : ~ExcludedDir(Last(d)) /\ ~Ignored(d, TRUE)

RowsAreTheTree ==
  /\ \A p \in DOMAIN tree : Ordinary(p) /\ Wanted(p) => p \in DOMAIN rows
  /\ \A p \in DOMAIN rows :
       /\ IsFile(p) /\ rows[p] = Content(p) /\ ~Omitted(p)
       /\ UsesGit \/ (Inside(p) /\ Real(p) = p /\ ~Ignored(p, FALSE))

RowsFollowTheTree ==
  /\ \A p \in DOMAIN tree :
       Ordinary(p) /\ Followed(p) /\ (p \in seen.paths \/ tree[p] # seen.tree[p])
         => p \in DOMAIN rows
  /\ \A p \in DOMAIN rows :
       Followed(p) /\ p \notin seen.unheard
         => IsFile(p) /\ rows[p] = Content(p)

(* After a full run that succeeded the index has every source file that no *)
(* rule, option or excluded directory leaves out, under its real path and  *)
(* with its content, whatever links lead there, and no file outside the    *)
(* root or named by a rule.  After polls it still has the files of that    *)
(* list, and has those that came or changed since, with their content, and *)
(* no file that is gone - but for what is below directories that the watch *)
(* does not enter, for a file that became a directory, and for one that    *)
(* a run saw come and that went before the next poll.                      *)
IndexFollowsTree ==
  /\ seen.at = "full" => RowsAreTheTree
  /\ seen.at = "polled" => RowsFollowTheTree
=============================================================================
